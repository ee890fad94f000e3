------------------------------ MODULE BackendTurns ------------------------------
(* The turns of EmbeddedBackend: chat_send, _run_turn, chat_abort, the flush of  *)
(* a queued thinking level, sessions_compact and aclose, on one event loop, over *)
(* the runtime guard and the hot swap of RuntimeUpdate.                          *)
(*                                                                              *)
(* A step is what the event loop runs between two awaits that really suspend.   *)
(* Turn t is the asyncio task of _run_turn; it is also the guard's foreground   *)
(* run of the same name.                                                        *)
EXTENDS RuntimeUpdate, Sequences, SequencesExt

CONSTANTS
    Turn,              \* chat turns
    Session,
    Compaction,        \* calls of sessions_compact
    Abort,             \* calls of chat_abort
    NoTurn, NoSession, Nobody,
    DecorateMayFail    \* may a channel adapter's decorate_tools raise?

ASSUME TurnsAreForeground == Turn = ForegroundRun
ASSUME NamesAreDistinct ==
    /\ NoTurn \notin Turn
    /\ NoSession \notin Session
    /\ Nobody \notin Turn \cup Compaction
    /\ Turn \cap Compaction = {}
    /\ Turn \cap {"open", "next", "closed"} = {}
ASSUME DecorateMayFailIsBoolean == DecorateMayFail \in BOOLEAN

VARIABLES
    active,           \* active[s]: AgentBackendSession.active_turn_id
    holder,           \* holder[s]: who holds session.lock
    queue,            \* queue[s]: the waiters of session.lock, first come first
    turn,             \* turn[t]: where the task of t is
    session,          \* session[t]: the session t was sent to
    cancelled,        \* turns whose CancellationToken is set
    interrupted,      \* turns whose task got task.cancel()
    registry,         \* RunRegistry: the turns chat_abort can find
    ended,            \* ended[t]: terminal events of t, in order
    configured,       \* configured[t]: generation of t's registry and cfg
    client,           \* client[t]: generation of the client t calls
    thinkingQueued,   \* _pending_thinking_level is set
    abort,            \* abort[a]: where the chat_abort call a is
    target,           \* target[a]: the turn a aborts
    closing,          \* aclose: "open", then the entry it waits for, then "closed"
    toClose,          \* entries aclose has still to wait for
    compaction,       \* compaction[k]: where the sessions_compact call k is
    compacts          \* compacts[k]: the session k compacts

turnVars == <<active, holder, queue, turn, session, cancelled, interrupted, registry,
              ended, configured, client, thinkingQueued>>
abortVars == <<abort, target>>
closeVars == <<closing, toClose>>
compactVars == <<compaction, compacts>>
vars == <<guardVars, turnVars, abortVars, closeVars, compactVars>>

Outcome == {"done", "cancelled", "error"}
TurnPhase == {"unsent", "created", "waiting", "running", "exiting", "finished", "crashed"}

TypeOK ==
    /\ GuardTypeOK
    /\ active \in [Session -> Turn \cup {NoTurn}]
    /\ holder \in [Session -> Turn \cup Compaction \cup {Nobody}]
    /\ queue \in [Session -> Seq(Turn \cup Compaction)]
    /\ turn \in [Turn -> TurnPhase]
    /\ session \in [Turn -> Session \cup {NoSession}]
    /\ cancelled \in SUBSET Turn
    /\ interrupted \in SUBSET Turn
    /\ registry \in SUBSET Turn
    /\ ended \in [Turn -> Seq(Outcome)]
    /\ configured \in [Turn -> Generation]
    /\ client \in [Turn -> Generation]
    /\ thinkingQueued \in BOOLEAN
    /\ abort \in [Abort -> {"idle", "yielding", "awaiting"}]
    /\ target \in [Abort -> Turn \cup {NoTurn}]
    /\ closing \in Turn \cup {"open", "next", "closed"}
    /\ toClose \in SUBSET Turn
    /\ compaction \in [Compaction -> {"uncalled", "waiting", "running", "finished"}]
    /\ compacts \in [Compaction -> Session \cup {NoSession}]

Init ==
    /\ GuardInit
    /\ active = [s \in Session |-> NoTurn]
    /\ holder = [s \in Session |-> Nobody]
    /\ queue = [s \in Session |-> <<>>]
    /\ turn = [t \in Turn |-> "unsent"]
    /\ session = [t \in Turn |-> NoSession]
    /\ cancelled = {}
    /\ interrupted = {}
    /\ registry = {}
    /\ ended = [t \in Turn |-> <<>>]
    /\ configured = [t \in Turn |-> 0]
    /\ client = [t \in Turn |-> 0]
    /\ thinkingQueued = FALSE
    /\ abort = [a \in Abort |-> "idle"]
    /\ target = [a \in Abort |-> NoTurn]
    /\ closing = "open"
    /\ toClose = {}
    /\ compaction = [k \in Compaction |-> "uncalled"]
    /\ compacts = [k \in Compaction |-> NoSession]

--------------------------------------------------------------------------------
(* chat_send.                                                                   *)

\* Accepted: everything up to the return happens in one step.  A busy session and
\* a closed backend make the call fail and leave no trace here.
ChatSend(t, s) ==
    /\ turn[t] = "unsent"
    /\ closing = "open"
    /\ holder[s] = Nobody
    /\ active[s] = NoTurn
    /\ turn' = [turn EXCEPT ![t] = "created"]
    /\ session' = [session EXCEPT ![t] = s]
    /\ active' = [active EXCEPT ![s] = t]
    /\ registry' = registry \cup {t}
    /\ UNCHANGED <<guardVars, holder, queue, cancelled, interrupted, ended, configured,
                   client, thinkingQueued, abortVars, closeVars, compactVars>>

--------------------------------------------------------------------------------
(* _run_turn.                                                                   *)

\* The task is done: gather and wait_for return.
TaskDone(t) == turn[t] \in {"finished", "crashed"}

\* _flush_pending_thinking: runtime_update(thinking_level) takes the writer slot
\* and gives it back without suspending; a busy guard puts the level back.
FlushThinking ==
    thinkingQueued' =
        (thinkingQueued /\ (readers'[runtime] # {} \/ writer[runtime] # NoUpdate))

LeaveReader(t) == readers' = [g \in Generation |-> readers[g] \ {t}]

\* `async with session.lock` is left, or its acquire() is given up and takes its
\* entry out of the waiters.
ReleaseLock(t) ==
    LET s == session[t]
    IN  /\ holder' = IF holder[s] = t THEN [holder EXCEPT ![s] = Nobody] ELSE holder
        /\ queue' = [queue EXCEPT ![s] = RemoveFirst(@, t)]

\* Mutant: the session is freed, the run registry keeps its entry.
ClearActiveOnly(t) ==
    /\ active' = [active EXCEPT ![session[t]] = NoTurn]
    /\ UNCHANGED registry

ClearActive(t) ==
    /\ active' = IF active[session[t]] = t THEN [active EXCEPT ![session[t]] = NoTurn]
                                           ELSE active
    /\ registry' = registry \ {t}

\* Mutant: an error emits turn.error and the turn.done that follows the try body.
EmitTwice(t, o) ==
    ended' = [ended EXCEPT ![t] = IF o = "error" THEN @ \o <<o, "done">>
                                                 ELSE Append(@, o)]

Emit(t, o) == ended' = [ended EXCEPT ![t] = Append(@, o)]

\* Everything from the exit of the two `async with` blocks to the end of the
\* finally block, or to the await of dispatch_exit when the model asked to exit.
\* The token goes with the turn, a delivered CancelledError is used up.
EndTurn(t, o) ==
    /\ Emit(t, o)
    /\ ReleaseLock(t)
    /\ LeaveReader(t)
    /\ ClearActive(t)
    /\ FlushThinking
    /\ cancelled' = cancelled \ {t}
    /\ interrupted' = interrupted \ {t}
    /\ UNCHANGED <<runtime, built, writer, schedulers, recovering, closed, phase, old,
                   new, session, configured, client, abortVars, closeVars, compactVars>>

\* The task ends before the try block and its finally are entered: the channel
\* adapter raises while the turn's tool registry is built, or the task is
\* cancelled before its first step.
TurnCrashes(t) ==
    /\ turn[t] = "created"
    /\ DecorateMayFail \/ t \in interrupted
    /\ turn' = [turn EXCEPT ![t] = "crashed"]
    /\ UNCHANGED <<guardVars, active, holder, queue, session, cancelled, interrupted,
                   registry, ended, configured, client, thinkingQueued, abortVars,
                   closeVars, compactVars>>

\* The first step when an update holds the writer slot: reader() raises BusyError,
\* which the turn reports as turn.error.
TurnRefused(t) ==
    /\ turn[t] = "created"
    /\ t \notin interrupted
    /\ writer[runtime] # NoUpdate
    /\ turn' = [turn EXCEPT ![t] = "finished"]
    /\ EndTurn(t, "error")

\* The first step otherwise: registry and cfg from the current runtime, reader(),
\* then session.lock, at once when it is free and nobody waits for it.
TurnBegins(t) ==
    LET s == session[t]
        free == holder[s] = Nobody /\ queue[s] = <<>>
    IN  /\ turn[t] = "created"
        /\ t \notin interrupted
        /\ Enter(t)
        /\ configured' = [configured EXCEPT ![t] = runtime]
        /\ IF free
           THEN /\ holder' = [holder EXCEPT ![s] = t]
                /\ client' = [client EXCEPT ![t] = runtime]
                /\ turn' = [turn EXCEPT ![t] = "running"]
                /\ UNCHANGED queue
           ELSE /\ queue' = [queue EXCEPT ![s] = Append(@, t)]
                /\ turn' = [turn EXCEPT ![t] = "waiting"]
                /\ UNCHANGED <<holder, client>>
        /\ UNCHANGED <<active, session, cancelled, interrupted, registry, ended,
                       thinkingQueued, abortVars, closeVars, compactVars>>

\* session.lock is granted to the turn at the head of the queue.
TurnGetsLock(t) ==
    LET s == session[t]
    IN  /\ turn[t] = "waiting"
        /\ t \notin interrupted
        /\ holder[s] = Nobody
        /\ Head(queue[s]) = t
        /\ holder' = [holder EXCEPT ![s] = t]
        /\ queue' = [queue EXCEPT ![s] = Tail(@)]
        /\ client' = [client EXCEPT ![t] = runtime]
        /\ turn' = [turn EXCEPT ![t] = "running"]
        /\ UNCHANGED <<guardVars, active, session, cancelled, interrupted, registry,
                       ended, configured, thinkingQueued, abortVars, closeVars,
                       compactVars>>

\* The set_thinking tool, inside a running turn.
QueueThinking(t) ==
    /\ turn[t] = "running"
    /\ thinkingQueued' = TRUE
    /\ UNCHANGED <<guardVars, active, holder, queue, turn, session, cancelled,
                   interrupted, registry, ended, configured, client, abortVars,
                   closeVars, compactVars>>

\* The task returns, or awaits dispatch_exit first.
Leaves(t) == \E p \in {"finished", "exiting"} : turn' = [turn EXCEPT ![t] = p]

\* run_turn returns or raises.  A set token stops it only where it is looked at,
\* so a turn may still finish after the token was set; task.cancel() does stop it.
TurnReturns(t) ==
    /\ turn[t] = "running"
    /\ t \notin interrupted
    /\ Leaves(t)
    /\ \/ EndTurn(t, "done")
       \/ EndTurn(t, "error")
       \/ t \in cancelled /\ EndTurn(t, "cancelled")

\* CancelledError reaches the turn, in run_turn or in the queue of the lock.
TurnInterrupted(t) ==
    /\ turn[t] \in {"waiting", "running"}
    /\ t \in interrupted
    /\ Leaves(t)
    /\ EndTurn(t, "cancelled")

\* dispatch_exit returns; or task.cancel() hits it.
ExitDispatched(t) ==
    /\ turn[t] = "exiting"
    /\ turn' = [turn EXCEPT ![t] = "finished"]
    /\ interrupted' = interrupted \ {t}
    /\ UNCHANGED <<guardVars, active, holder, queue, session, cancelled, registry, ended,
                   configured, client, thinkingQueued, abortVars, closeVars, compactVars>>

--------------------------------------------------------------------------------
(* chat_abort.                                                                  *)

\* The entry is there: its token is set and the call yields once, sleep(0).
AbortCall(a, t) ==
    /\ abort[a] = "idle"
    /\ t \in registry
    /\ cancelled' = cancelled \cup {t}
    /\ abort' = [abort EXCEPT ![a] = "yielding"]
    /\ target' = [target EXCEPT ![a] = t]
    /\ UNCHANGED <<guardVars, active, holder, queue, turn, session, interrupted, registry,
                   ended, configured, client, thinkingQueued, closeVars, compactVars>>

\* A tool of the turn aborts its own turn: only the token is set.
AbortSelf(t) ==
    /\ turn[t] = "running"
    /\ cancelled' = cancelled \cup {t}
    /\ UNCHANGED <<guardVars, active, holder, queue, turn, session, interrupted, registry,
                   ended, configured, client, thinkingQueued, abortVars, closeVars,
                   compactVars>>

\* Mutant: chat_abort cancels the task without yielding first.
AbortAtOnce(a) ==
    /\ abort[a] = "yielding"
    /\ interrupted' = IF TaskDone(target[a]) THEN interrupted
                                             ELSE interrupted \cup {target[a]}
    /\ abort' = [abort EXCEPT ![a] = "awaiting"]
    /\ UNCHANGED <<guardVars, active, holder, queue, turn, session, cancelled, registry,
                   ended, configured, client, thinkingQueued, target, closeVars,
                   compactVars>>

\* Back from sleep(0).  The loop runs tasks in the order they became ready, so the
\* target's first step has been taken by now.
AbortResumes(a) ==
    /\ abort[a] = "yielding"
    /\ turn[target[a]] # "created"
    /\ interrupted' = IF TaskDone(target[a]) THEN interrupted
                                             ELSE interrupted \cup {target[a]}
    /\ abort' = [abort EXCEPT ![a] = "awaiting"]
    /\ UNCHANGED <<guardVars, active, holder, queue, turn, session, cancelled, registry,
                   ended, configured, client, thinkingQueued, target, closeVars,
                   compactVars>>

\* gather returns: the task is done, and the caller may send again.
AbortReturns(a) ==
    /\ abort[a] = "awaiting"
    /\ TaskDone(target[a])
    /\ abort' = [abort EXCEPT ![a] = "idle"]
    /\ target' = [target EXCEPT ![a] = NoTurn]
    /\ UNCHANGED <<guardVars, turnVars, closeVars, compactVars>>

--------------------------------------------------------------------------------
(* aclose.                                                                      *)

\* New turns are refused and every registered turn's token is set.
CloseStarts ==
    /\ closing = "open"
    /\ closing' = "next"
    /\ toClose' = registry
    /\ cancelled' = cancelled \cup registry
    /\ UNCHANGED <<guardVars, active, holder, queue, turn, session, interrupted, registry,
                   ended, configured, client, thinkingQueued, abortVars, compactVars>>

\* wait_for(entry.task, 2.0), one entry after the other.
CloseWaits(t) ==
    /\ closing = "next"
    /\ t \in toClose
    /\ closing' = t
    /\ toClose' = toClose \ {t}
    /\ UNCHANGED <<guardVars, turnVars, abortVars, compactVars>>

\* Two seconds are over: wait_for cancels the task and goes on waiting for it.
CloseTimesOut(t) ==
    /\ closing = t
    /\ turn[t] # "created"
    /\ ~TaskDone(t)
    /\ interrupted' = interrupted \cup {t}
    /\ UNCHANGED <<guardVars, active, holder, queue, turn, session, cancelled, registry,
                   ended, configured, client, thinkingQueued, abortVars, closeVars,
                   compactVars>>

CloseGoesOn(t) ==
    /\ closing = t
    /\ TaskDone(t)
    /\ closing' = "next"
    /\ UNCHANGED <<guardVars, turnVars, abortVars, toClose, compactVars>>

CloseReturns ==
    /\ closing = "next"
    /\ toClose = {}
    /\ closing' = "closed"
    /\ UNCHANGED <<guardVars, turnVars, abortVars, toClose, compactVars>>

--------------------------------------------------------------------------------
(* sessions_compact: the session lock, but no reader of the runtime guard.      *)

CompactCall(k, s) ==
    LET free == holder[s] = Nobody /\ queue[s] = <<>>
    IN  /\ compaction[k] = "uncalled"
        /\ compacts' = [compacts EXCEPT ![k] = s]
        /\ IF free
           THEN /\ holder' = [holder EXCEPT ![s] = k]
                /\ compaction' = [compaction EXCEPT ![k] = "running"]
                /\ UNCHANGED queue
           ELSE /\ queue' = [queue EXCEPT ![s] = Append(@, k)]
                /\ compaction' = [compaction EXCEPT ![k] = "waiting"]
                /\ UNCHANGED holder
        /\ UNCHANGED <<guardVars, active, turn, session, cancelled, interrupted, registry,
                       ended, configured, client, thinkingQueued, abortVars, closeVars>>

CompactGetsLock(k) ==
    LET s == compacts[k]
    IN  /\ compaction[k] = "waiting"
        /\ holder[s] = Nobody
        /\ Head(queue[s]) = k
        /\ holder' = [holder EXCEPT ![s] = k]
        /\ queue' = [queue EXCEPT ![s] = Tail(@)]
        /\ compaction' = [compaction EXCEPT ![k] = "running"]
        /\ UNCHANGED <<guardVars, active, turn, session, cancelled, interrupted, registry,
                       ended, configured, client, thinkingQueued, abortVars, closeVars,
                       compacts>>

CompactEnds(k) ==
    /\ compaction[k] = "running"
    /\ holder' = [holder EXCEPT ![compacts[k]] = Nobody]
    /\ compaction' = [compaction EXCEPT ![k] = "finished"]
    /\ UNCHANGED <<guardVars, active, queue, turn, session, cancelled, interrupted,
                   registry, ended, configured, client, thinkingQueued, abortVars,
                   closeVars, compacts>>

--------------------------------------------------------------------------------

TurnStep(t) ==
    \/ \E s \in Session : ChatSend(t, s)
    \/ TurnCrashes(t)
    \/ TurnRefused(t)
    \/ TurnBegins(t)
    \/ TurnGetsLock(t)
    \/ QueueThinking(t)
    \/ TurnReturns(t)
    \/ TurnInterrupted(t)
    \/ ExitDispatched(t)
    \/ AbortSelf(t)

AbortStep(a) ==
    \/ \E t \in Turn : AbortCall(a, t)
    \/ AbortResumes(a)
    \/ AbortReturns(a)

CloseStep ==
    \/ CloseStarts
    \/ \E t \in Turn : CloseWaits(t) \/ CloseTimesOut(t) \/ CloseGoesOn(t)
    \/ CloseReturns

CompactStep(k) ==
    \/ \E s \in Session : CompactCall(k, s)
    \/ CompactGetsLock(k)
    \/ CompactEnds(k)

\* Cron jobs and updates move the guard only.
GuardStep ==
    /\ \/ \E r \in CronRun, g \in Generation : CronEnter(r, g) \/ Leave(r, g)
       \/ \E g \in Generation : RecoveryDone(g)
       \/ \E u \in Update : UpdateStep(u)
    /\ UNCHANGED <<turnVars, abortVars, closeVars, compactVars>>

Next ==
    \/ \E t \in Turn : TurnStep(t)
    \/ \E a \in Abort : AbortStep(a)
    \/ CloseStep
    \/ \E k \in Compaction : CompactStep(k)
    \/ GuardStep

Spec == Init /\ [][Next]_vars

\* The event loop runs every task that is ready, the 2 s timer of aclose fires and
\* a channel's exit_interaction returns.  No fairness on the end of a model call:
\* neither a turn nor a compaction has to finish by itself.
Fairness ==
    /\ \A t \in Turn :
        /\ WF_vars(TurnRefused(t) \/ TurnBegins(t))
        /\ WF_vars(TurnGetsLock(t))
        /\ WF_vars(TurnInterrupted(t))
        /\ WF_vars(ExitDispatched(t))
        /\ WF_vars(CloseWaits(t) \/ CloseTimesOut(t) \/ CloseGoesOn(t))
    /\ \A a \in Abort : WF_vars(AbortResumes(a)) /\ WF_vars(AbortReturns(a))
    /\ WF_vars(CloseReturns)

FairSpec == Spec /\ Fairness

--------------------------------------------------------------------------------
(* Safety.                                                                      *)

\* chat_abort and aclose find exactly the turns that block their sessions: the
\* run registry and active_turn_id never disagree.
RegistryMirrorsActive ==
    \A t \in Turn : t \in registry <=> \E s \in Session : active[s] = t

\* The turn that runs holds its session's lock, a turn in either `async with` is
\* counted by the guard, and a turn that is over holds nothing.
LocksMatchPhases ==
    \A t \in Turn :
        /\ turn[t] = "running" <=> \E s \in Session : holder[s] = t
        /\ turn[t] = "waiting" <=> \E s \in Session : Contains(queue[s], t)
        /\ turn[t] \in {"waiting", "running"} <=> Reading(t)

\* The five places that know of a turn (registry, session, lock, guard and task)
\* agree after every step of every actor.
TurnsConsistent == TypeOK /\ RegistryMirrorsActive /\ LocksMatchPhases

\* A turn works with one runtime: the tools and the configuration it was given at
\* its first step, the client it takes when it gets the session lock, and the
\* runtime the backend points to while it runs are of one generation.
OneRuntimePerTurn ==
    \A t \in Turn : turn[t] = "running" =>
        configured[t] = runtime /\ client[t] = runtime

\* The places that know of a turn agree, and a turn works with one runtime.
TurnsAreSound == TurnsConsistent /\ OneRuntimePerTurn

\* chat_abort keeps its word: when it returns, the aborted turn holds neither the
\* session nor its lock, and it is out of the run registry.
AbortReleases ==
    [][\A a \in Abort : abort[a] = "awaiting" /\ abort'[a] = "idle" =>
          LET t == target[a]
          IN  /\ t \notin registry
              /\ \A s \in Session : active[s] # t /\ holder[s] # t]_vars

\* After aclose nothing runs on behalf of a chat: no turn is registered, none is
\* counted by a guard, and none starts again.
ClosedIsDrained ==
    closing = "closed" => registry = {} /\ \A t \in Turn : ~Reading(t)

\* A thinking level queued by a tool is applied by the end of the last turn in
\* the guard, at the latest: turns among themselves never leave it behind.  (A
\* cron job in the guard can, and then the next turn's end applies it.)
ThinkingNotLeftBehind == thinkingQueued => readers[runtime] # {}

\* Turns behave as TurnService says: at most one in flight per session, and one
\* terminal event each, out in the same step that frees the session.
TurnServiceImpl == INSTANCE TurnService WITH
    live <- active, sentTo <- session, outcome <- ended
ImplementsTurnService == TurnServiceImpl!Spec

--------------------------------------------------------------------------------
(* Liveness.                                                                    *)

\* An abort always comes back, though the model may never answer, and so does
\* aclose.
AbortEnds == \A a \in Abort : abort[a] # "idle" ~> abort[a] = "idle"
CloseEnds == closing # "open" ~> closing = "closed"
EveryCallEnds == AbortEnds /\ CloseEnds
================================================================================
