-------------------------------- MODULE Gateway --------------------------------
(* The channel adapters of the daemon: ChannelManager, the clients that start     *)
(* and stop channels, the restart of all channels inside an update of the        *)
(* runtime (module RuntimeUpdate), and the shutdown of the daemon.               *)
(*                                                                              *)
(* An adapter is a ChannelAdapter object.  The adapters that come with the       *)
(* daemon start without suspending; stopping one takes an await.                 *)
EXTENDS RuntimeUpdate, Sequences

CONSTANTS
    Account,           \* (channel id, account id)
    Adapter,
    StopCall,          \* calls of channels_stop
    Daemon,            \* the shutdown of run_daemon
    NoAccount, NoAdapter

ASSUME ActorsAreDistinct ==
    Update \cap StopCall = {} /\ Daemon \notin Update \cup StopCall
ASSUME NoneIsNone == NoAccount \notin Account /\ NoAdapter \notin Adapter
ASSUME AccountsAreFinite == IsFiniteSet(Account)

VARIABLES
    instances,   \* ChannelManager._instances
    state,       \* state[x]: "off", "up" (its tasks are alive), "stuck" (its stop() raised)
    belongs,     \* belongs[x]: the account adapter x was made for
    holds,       \* holds[x]: the generation of the runtime it was started with
    stopping,    \* <<actor, account, adapter>>: stop() awaits the adapter's stop()
    todo,        \* todo[u]: accounts restart_all has still to stop
    stopped,     \* stopped[u]: accounts it has stopped
    overlapped,  \* history: accounts that two actors were stopping at once
    daemon       \* "up", "stopping", "closing", "exited"

channelVars == <<instances, state, belongs, holds, stopping, overlapped>>
restartVars == <<todo, stopped>>
gatewayVars == <<guardVars, channelVars, restartVars, daemon>>

Actor == Update \cup StopCall \cup {Daemon}

TypeOK ==
    /\ GuardTypeOK
    /\ instances \in [Account -> Adapter \cup {NoAdapter}]
    /\ state \in [Adapter -> {"off", "up", "stuck"}]
    /\ belongs \in [Adapter -> Account \cup {NoAccount}]
    /\ holds \in [Adapter -> Generation]
    /\ stopping \in SUBSET (Actor \X Account \X Adapter)
    /\ todo \in [Update -> Seq(Account)]
    /\ stopped \in [Update -> SUBSET Account]
    /\ overlapped \in SUBSET Account
    /\ daemon \in {"up", "stopping", "closing", "exited"}

Init ==
    /\ GuardInit
    /\ instances = [c \in Account |-> NoAdapter]
    /\ state = [x \in Adapter |-> "off"]
    /\ belongs = [x \in Adapter |-> NoAccount]
    /\ holds = [x \in Adapter |-> 0]
    /\ stopping = {}
    /\ todo = [u \in Update |-> <<>>]
    /\ stopped = [u \in Update |-> {}]
    /\ overlapped = {}
    /\ daemon = "up"

--------------------------------------------------------------------------------
(* ChannelManager.start and stop.                                               *)

Running == {c \in Account : instances[c] # NoAdapter}
Awaited == {s[3] : s \in stopping}
Unused == {x \in Adapter \ Awaited : state[x] = "off" /\ \A c \in Account : instances[c] # x}

\* The stop() calls ss are under way.
Stopping(ss) ==
    /\ stopping' = ss
    /\ overlapped' = overlapped \cup
           {c \in Account : \E s, q \in ss : s # q /\ s[2] = c /\ q[2] = c}

\* start() for each of cs that has no instance in ins; one that raises leaves
\* nothing behind.
StartAll(cs, ins, st, g) ==
    \E made \in SUBSET {c \in cs : ins[c] = NoAdapter} : \E f \in [made -> Unused] :
        LET makes(c, x) == c \in made /\ f[c] = x
            isMade(x) == \E c \in made : f[c] = x
        IN  /\ \A c, d \in made : c # d => f[c] # f[d]
            /\ instances' = [c \in Account |-> IF c \in made THEN f[c] ELSE ins[c]]
            /\ state' = [x \in Adapter |-> IF isMade(x) THEN "up" ELSE st[x]]
            /\ belongs' = [x \in Adapter |-> IF isMade(x) THEN CHOOSE c \in made : makes(c, x)
                                                          ELSE belongs[x]]
            /\ holds' = [x \in Adapter |-> IF isMade(x) THEN g ELSE holds[x]]

\* channels_start, with the runtime of the backend.
ChannelsStart(c) ==
    /\ daemon = "up"
    /\ instances[c] = NoAdapter
    /\ StartAll({c}, instances, state, runtime)
    /\ UNCHANGED <<guardVars, stopping, overlapped, restartVars, daemon>>

\* channels_stop finds an instance and awaits its stop().
ChannelsStop(k, c) ==
    /\ daemon = "up"
    /\ instances[c] # NoAdapter
    /\ \A s \in stopping : s[1] # k
    /\ Stopping(stopping \cup {<<k, c, instances[c]>>})
    /\ UNCHANGED <<guardVars, instances, state, belongs, holds, restartVars, daemon>>

\* The adapter is down; the entry of its account is popped, whatever it is by now.
StopReturns(s) ==
    /\ s[1] \notin Update
    /\ Stopping(stopping \ {s})
    /\ state' = [state EXCEPT ![s[3]] = "off"]
    /\ instances' = [instances EXCEPT ![s[2]] = NoAdapter]
    /\ UNCHANGED <<guardVars, belongs, holds, restartVars, daemon>>

Stuck(x) == [state EXCEPT ![x] = IF @ = "up" THEN "stuck" ELSE @]

\* stop() raised: the instance is retained.
StopRaises(s) ==
    /\ s[1] \notin Update
    /\ Stopping(stopping \ {s})
    /\ state' = Stuck(s[3])
    /\ UNCHANGED <<guardVars, instances, belongs, holds, restartVars, daemon>>

--------------------------------------------------------------------------------
(* runtime_update: restart_all, under the writer of the replaced runtime.       *)

Own(u) == {s \in stopping : s[1] = u}

\* restart_all up to its next suspension: the accounts of q that have an instance
\* are stopped one after the other, the others count as stopped.  After the last
\* one every stopped account is started with the new runtime.
RestartGoesOn(u, q, done, ins, st) ==
    LET live == {i \in DOMAIN q : ins[q[i]] # NoAdapter}
        n == CHOOSE i \in live : \A j \in live : i <= j
        skipped == {q[i] : i \in {j \in DOMAIN q : \A i \in live : j < i}}
    IN  \/ /\ live # {}
           /\ Stopping((stopping \ Own(u)) \cup {<<u, q[n], ins[q[n]]>>})
           /\ todo' = [todo EXCEPT ![u] = SubSeq(q, n + 1, Len(q))]
           /\ stopped' = [stopped EXCEPT ![u] = done \cup skipped]
           /\ instances' = ins
           /\ state' = st
           /\ phase' = [phase EXCEPT ![u] = "restarting"]
           /\ UNCHANGED <<belongs, holds>>
        \/ /\ live = {}
           /\ StartAll(done \cup skipped, ins, st, new[u])
           /\ Stopping(stopping \ Own(u))
           /\ todo' = [todo EXCEPT ![u] = <<>>]
           /\ stopped' = [stopped EXCEPT ![u] = {}]
           /\ phase' = [phase EXCEPT ![u] = "closing"]

\* The running accounts, in the order they were started.
Orders(cs) ==
    {q \in [1 .. Cardinality(cs) -> cs] : \A i, j \in DOMAIN q : i # j => q[i] # q[j]}

\* The swap, and restart_all up to its first suspension.
SwapAndRestart(u) ==
    /\ phase[u] = "building"
    /\ runtime' = new[u]
    /\ \E q \in Orders(Running) : RestartGoesOn(u, q, {}, instances, state)
    /\ UNCHANGED <<built, readers, writer, schedulers, recovering, closed, old, new, daemon>>

\* Mutant: an account whose adapter would not stop is started all the same.
RestartOverStuck(u, s) ==
    /\ s \in Own(u)
    /\ RestartGoesOn(u, todo[u], stopped[u] \cup {s[2]},
                     [instances EXCEPT ![s[2]] = NoAdapter], Stuck(s[3]))
    /\ UNCHANGED <<runtime, built, readers, writer, schedulers, recovering, closed, old, new,
                   daemon>>

\* The adapter restart_all waits for is down, or would not stop.
RestartStopRaises(u, s) ==
    /\ s \in Own(u)
    /\ RestartGoesOn(u, todo[u], stopped[u], instances, Stuck(s[3]))
    /\ UNCHANGED <<runtime, built, readers, writer, schedulers, recovering, closed, old, new,
                   daemon>>

RestartStopReturns(u, s) ==
    /\ s \in Own(u)
    /\ RestartGoesOn(u, todo[u], stopped[u] \cup {s[2]},
                     [instances EXCEPT ![s[2]] = NoAdapter], [state EXCEPT ![s[3]] = "off"])
    /\ UNCHANGED <<runtime, built, readers, writer, schedulers, recovering, closed, old, new,
                   daemon>>

--------------------------------------------------------------------------------
(* The end of run_daemon: stop_all, backend.aclose(), close() of the runtime the *)
(* daemon was started with.                                                     *)

StopAll ==
    /\ daemon = "up"
    /\ daemon' = "stopping"
    /\ Stopping(stopping \cup {<<Daemon, c, instances[c]>> : c \in Running})
    /\ UNCHANGED <<guardVars, instances, state, belongs, holds, restartVars>>

\* Mutant: aclose waits for the turns instead of cancelling them.
BackendWaits ==
    /\ daemon = "stopping"
    /\ \A s \in stopping : s[1] # Daemon
    /\ \A g \in Generation : readers[g] \cap ForegroundRun = {}
    /\ daemon' = "closing"
    /\ UNCHANGED <<guardVars, channelVars, restartVars>>

BackendCloses ==
    /\ daemon = "stopping"
    /\ \A s \in stopping : s[1] # Daemon
    /\ daemon' = "closing"
    /\ readers' = [g \in Generation |-> readers[g] \ ForegroundRun]
    /\ UNCHANGED <<runtime, built, writer, schedulers, recovering, closed, phase, old, new,
                   channelVars, restartVars>>

RuntimeCloses ==
    /\ daemon = "closing"
    /\ daemon' = "exited"
    /\ StopScheduler(0)
    /\ closed' = closed \cup {0}
    /\ UNCHANGED <<runtime, built, writer, phase, old, new, channelVars, restartVars>>

--------------------------------------------------------------------------------

\* Turns, cron jobs, and the steps of an update outside the restart.
GuardStep ==
    /\ daemon # "exited"
    /\ \/ \E r \in ForegroundRun : daemon = "up" /\ Enter(r)
       \/ \E r \in CronRun, g \in Generation : CronEnter(r, g)
       \/ \E r \in Run, g \in Generation : Leave(r, g)
       \/ \E g \in Generation : RecoveryDone(g)
       \/ \E u \in Update : \/ daemon = "up" /\ UpdateStart(u)
                            \/ UpdateReject(u)
                            \/ UpdateStopsScheduler(u)
                            \/ UpdateClosesClient(u)
    /\ UNCHANGED <<channelVars, restartVars, daemon>>

RestartStep(u) ==
    /\ daemon # "exited"
    /\ \/ SwapAndRestart(u)
       \/ \E s \in stopping : RestartStopReturns(u, s) \/ RestartStopRaises(u, s)

ShutdownStep == StopAll \/ BackendCloses \/ RuntimeCloses

Next ==
    \/ GuardStep
    \/ \E u \in Update : RestartStep(u)
    \/ \E c \in Account : ChannelsStart(c)
    \/ \E k \in StopCall, c \in Account : ChannelsStop(k, c)
    \/ \E s \in stopping : StopReturns(s) \/ StopRaises(s)
    \/ ShutdownStep

Spec == Init /\ [][Next]_gatewayVars

\* An adapter's stop() ends or raises, and the event loop runs what is ready.
Fairness ==
    /\ \A u \in Update :
        WF_gatewayVars(/\ daemon # "exited"
                       /\ \/ RestartStep(u)
                          \/ /\ UpdateReject(u) \/ UpdateStopsScheduler(u) \/ UpdateClosesClient(u)
                             /\ UNCHANGED <<channelVars, restartVars, daemon>>)
    /\ WF_gatewayVars(BackendCloses)
    /\ WF_gatewayVars(RuntimeCloses)
    /\ WF_gatewayVars(\E s \in stopping : s[1] = Daemon /\ (StopReturns(s) \/ StopRaises(s)))

FairSpec == Spec /\ Fairness

--------------------------------------------------------------------------------

\* The manager knows every adapter that is at work, so no account is served by two
\* of them, which would both answer: it can be stopped, restarted and notified
\* ("track running ChannelAdapter instances").  The exception is an
\* account that two actors were stopping at once: the second one to come back pops
\* the entry of the adapter that the first one has started since.
LiveIsRegistered ==
    \A x \in Adapter :
        state[x] # "off" /\ belongs[x] \notin overlapped => instances[belongs[x]] = x

\* When the updates are over, adapters hold the current runtime ("channel adapters
\* stop holding old runtime/backend references"), but for one that would not stop and
\* one that was lost as above, which the next update does not find.
AdaptersOnCurrent ==
    (\A u \in Update : phase[u] = "idle") =>
        \A x \in Adapter :
            state[x] = "up" /\ belongs[x] \notin overlapped => holds[x] = runtime

\* Live adapters are registered, and on the current runtime when no update runs.
AdaptersAreSound == LiveIsRegistered /\ AdaptersOnCurrent

\* An update ends though it waits for channels, and so does the shutdown.
RestartEnds == \A u \in Update : phase[u] = "restarting" ~> phase[u] = "idle" \/ daemon = "exited"
ShutdownEnds == daemon = "stopping" ~> daemon = "exited"
StopsEnd == RestartEnds /\ ShutdownEnds
================================================================================
