------------------------------ MODULE RuntimeUpdate ------------------------------
(* RuntimeUpdateGuard and the model/agent switch of EmbeddedBackend.            *)
(*                                                                              *)
(* Every build of the agent runtime is a GENERATION: it owns a model client, a  *)
(* cron scheduler and a guard of its own.  runtime_update builds generation     *)
(* n + 1 while it holds the writer slot of generation n, swaps it in, restarts  *)
(* the channels and closes generation n, all under the writer of the OLD guard; *)
(* the guard of the new generation is free from the moment it is built, so a    *)
(* second update may start before the first one has finished.                   *)
EXTENDS Integers, FiniteSets

CONSTANTS
    ForegroundRun,   \* chat turns and podcast runs: they enter the current guard
    CronRun,         \* cron jobs: they enter the guard their scheduler was built with
    Update,          \* calls of runtime_update that rebuild the runtime
    NoUpdate,        \* nobody holds the writer slot
    MaxGeneration    \* bound on the number of rebuilds

ASSUME RunsAreDistinct == ForegroundRun \cap CronRun = {}
ASSUME NoUpdateIsNoUpdate == NoUpdate \notin Update
ASSUME GenerationBound == MaxGeneration \in Nat

Run == ForegroundRun \cup CronRun
Generation == 0 .. MaxGeneration

VARIABLES
    runtime,      \* the generation EmbeddedBackend.runtime points to
    built,        \* the newest generation built so far
    readers,      \* readers[g]: the runs counted by _n_readers of g's guard
    writer,       \* writer[g]: the update that holds g's writer slot
    schedulers,   \* the generations whose cron loop is alive
    recovering,   \* those still inside _run_missed_jobs
    closed,       \* the generations whose model client has been closed
    phase,        \* phase[u]: where update u is
    old,          \* old[u]: the generation u replaces
    new           \* new[u]: the generation u built

guardVars == <<runtime, built, readers, writer, schedulers, recovering, closed,
               phase, old, new>>

Phase == {"idle", "building", "rejecting", "discarding",
          "restarting", "closing", "draining"}

GuardTypeOK ==
    /\ runtime \in Generation
    /\ built \in Generation
    /\ readers \in [Generation -> SUBSET Run]
    /\ writer \in [Generation -> Update \cup {NoUpdate}]
    /\ schedulers \in SUBSET Generation
    /\ recovering \in SUBSET Generation
    /\ closed \in SUBSET Generation
    /\ phase \in [Update -> Phase]
    /\ old \in [Update -> Generation]
    /\ new \in [Update -> Generation]

GuardInit ==
    /\ runtime = 0
    /\ built = 0
    /\ readers = [g \in Generation |-> {}]
    /\ writer = [g \in Generation |-> NoUpdate]
    /\ schedulers = {0}
    /\ recovering = {0}
    /\ closed = {}
    /\ phase = [u \in Update |-> "idle"]
    /\ old = [u \in Update |-> 0]
    /\ new = [u \in Update |-> 0]

--------------------------------------------------------------------------------
(* RuntimeUpdateGuard.reader(): fail-fast, so a run that meets a writer does    *)
(* not wait; its caller sees BusyError and nothing here changes.                *)

Reading(r) == \E g \in Generation : r \in readers[g]

\* Mutant: reader() without the _writer_held test.
EnterGuardUnchecked(r, g) ==
    /\ ~Reading(r)
    /\ readers' = [readers EXCEPT ![g] = @ \cup {r}]
    /\ UNCHANGED <<runtime, built, writer, schedulers, recovering, closed,
                   phase, old, new>>

EnterGuard(r, g) ==
    /\ ~Reading(r)
    /\ writer[g] = NoUpdate
    /\ readers' = [readers EXCEPT ![g] = @ \cup {r}]
    /\ UNCHANGED <<runtime, built, writer, schedulers, recovering, closed,
                   phase, old, new>>

LeaveGuard(r, g) ==
    /\ r \in readers[g]
    /\ readers' = [readers EXCEPT ![g] = @ \ {r}]
    /\ UNCHANGED <<runtime, built, writer, schedulers, recovering, closed,
                   phase, old, new>>

\* A turn or a podcast reads self.runtime and enters its guard in one step.
Enter(r) == r \in ForegroundRun /\ EnterGuard(r, runtime)

\* A cron job enters the guard its scheduler was started with.
CronEnter(r, g) == r \in CronRun /\ g \in schedulers /\ EnterGuard(r, g)

Leave(r, g) == LeaveGuard(r, g)

\* The cron loop has awaited its missed jobs and starts ticking.
RecoveryDone(g) ==
    /\ g \in recovering
    /\ readers[g] \cap CronRun = {}
    /\ recovering' = recovering \ {g}
    /\ UNCHANGED <<runtime, built, readers, writer, schedulers, closed,
                   phase, old, new>>

--------------------------------------------------------------------------------
(* runtime_update with a changed model_ref or agent_id.                         *)

\* writer() raises BusyError over a reader and over another writer.
WriterIsFree(g) == readers[g] = {} /\ writer[g] = NoUpdate

\* Mutant: writer() without the _n_readers test.
UpdateStartOverReaders(u) ==
    /\ phase[u] = "idle"
    /\ writer[runtime] = NoUpdate
    /\ built < MaxGeneration
    /\ built' = built + 1
    /\ writer' = [writer EXCEPT ![runtime] = u]
    /\ schedulers' = schedulers \cup {built + 1}
    /\ recovering' = recovering \cup {built + 1}
    /\ phase' = [phase EXCEPT ![u] = "building"]
    /\ old' = [old EXCEPT ![u] = runtime]
    /\ new' = [new EXCEPT ![u] = built + 1]
    /\ UNCHANGED <<runtime, readers, closed>>

\* writer(), then build_agent_runtime up to its session_start hook: the new cron
\* loop is already scheduled when the first await of the build is reached.  A
\* build that raises before that leaves nothing behind and is no step.
UpdateStart(u) ==
    /\ phase[u] = "idle"
    /\ WriterIsFree(runtime)
    /\ built < MaxGeneration
    /\ built' = built + 1
    /\ writer' = [writer EXCEPT ![runtime] = u]
    /\ schedulers' = schedulers \cup {built + 1}
    /\ recovering' = recovering \cup {built + 1}
    /\ phase' = [phase EXCEPT ![u] = "building"]
    /\ old' = [old EXCEPT ![u] = runtime]
    /\ new' = [new EXCEPT ![u] = built + 1]
    /\ UNCHANGED <<runtime, readers, closed>>

\* Plugin channels registered: self.runtime = new_runtime.
UpdateSwap(u) ==
    /\ phase[u] = "building"
    /\ runtime' = new[u]
    /\ phase' = [phase EXCEPT ![u] = "restarting"]
    /\ UNCHANGED <<built, readers, writer, schedulers, recovering, closed, old, new>>

\* Mutant: the failed registration re-raises without new_runtime.close().
UpdateRejectWithoutClose(u) ==
    /\ phase[u] = "building"
    /\ phase' = [phase EXCEPT ![u] = "idle"]
    /\ writer' = [writer EXCEPT ![old[u]] = NoUpdate]
    /\ UNCHANGED <<runtime, built, readers, schedulers, recovering, closed, old, new>>

\* Registering a plugin channel raised: new_runtime.close() before the re-raise.
UpdateReject(u) ==
    /\ phase[u] = "building"
    /\ phase' = [phase EXCEPT ![u] = "rejecting"]
    /\ UNCHANGED <<runtime, built, readers, writer, schedulers, recovering, closed,
                   old, new>>

\* restart_all has returned and runtime.changed is emitted.
UpdateRestarted(u) ==
    /\ phase[u] = "restarting"
    /\ phase' = [phase EXCEPT ![u] = "closing"]
    /\ UNCHANGED <<runtime, built, readers, writer, schedulers, recovering, closed,
                   old, new>>

\* Mutant: close() waits for the cron jobs instead of cancelling the cron task.
StopSchedulerWaiting(g) ==
    /\ readers[g] \cap CronRun = {}
    /\ schedulers' = schedulers \ {g}
    /\ recovering' = recovering \ {g}
    /\ readers' = readers

\* AgentRuntime.close(): the cron task is cancelled and awaited.  Missed jobs are
\* gathered by that task and die with it; jobs started by a tick are tasks of
\* their own and go on.
StopScheduler(g) ==
    /\ schedulers' = schedulers \ {g}
    /\ recovering' = recovering \ {g}
    /\ readers' = IF g \in recovering THEN [readers EXCEPT ![g] = @ \ CronRun]
                                      ELSE readers

UpdateStopsScheduler(u) ==
    /\ \/ /\ phase[u] = "rejecting"
          /\ StopScheduler(new[u])
          /\ phase' = [phase EXCEPT ![u] = "discarding"]
       \/ /\ phase[u] = "closing"
          /\ StopScheduler(old[u])
          /\ phase' = [phase EXCEPT ![u] = "draining"]
    /\ UNCHANGED <<runtime, built, writer, closed, old, new>>

\* AgentRuntime.close(): client.aclose() returns; runtime_update leaves writer().
UpdateClosesClient(u) ==
    /\ \/ phase[u] = "discarding" /\ closed' = closed \cup {new[u]}
       \/ phase[u] = "draining" /\ closed' = closed \cup {old[u]}
    /\ writer' = [writer EXCEPT ![old[u]] = NoUpdate]
    /\ phase' = [phase EXCEPT ![u] = "idle"]
    /\ UNCHANGED <<runtime, built, readers, schedulers, recovering, old, new>>

UpdateStep(u) ==
    \/ UpdateStart(u)
    \/ UpdateSwap(u)
    \/ UpdateReject(u)
    \/ UpdateRestarted(u)
    \/ UpdateStopsScheduler(u)
    \/ UpdateClosesClient(u)

GuardNext ==
    \/ \E r \in ForegroundRun : Enter(r)
    \/ \E r \in CronRun, g \in Generation : CronEnter(r, g)
    \/ \E r \in Run, g \in Generation : Leave(r, g)
    \/ \E g \in Generation : RecoveryDone(g)
    \/ \E u \in Update : UpdateStep(u)

GuardSpec == GuardInit /\ [][GuardNext]_guardVars

\* Everything but the start of an update is certain to go on: a model call ends
\* only when the model answers, so runs get no fairness of their own.
UpdateProgress(u) ==
    \/ UpdateSwap(u)
    \/ UpdateReject(u)
    \/ UpdateRestarted(u)
    \/ UpdateStopsScheduler(u)
    \/ UpdateClosesClient(u)

FairGuardSpec == GuardSpec /\ \A u \in Update : WF_guardVars(UpdateProgress(u))

--------------------------------------------------------------------------------
(* What the guard is for.                                                       *)

\* An update never runs over a run: while it holds the writer slot of a
\* generation, no reader is counted there.
WriterExcludesReaders ==
    \A g \in Generation : writer[g] # NoUpdate => readers[g] = {}

\* A chat turn or podcast that is inside the guard runs on the runtime the
\* backend points to: no swap happens under it ("half-swapped client").
ForegroundOnCurrent ==
    \A g \in Generation :
        readers[g] \cap ForegroundRun # {} => g = runtime

\* The runtime that serves new turns is never closed, whatever two overlapping
\* updates and a rejected build do.
CurrentIsOpen == runtime \notin closed

\* Together: whatever the updates do, runs, writers and closes stay apart.
GuardSafety == GuardTypeOK /\ WriterExcludesReaders /\ ForegroundOnCurrent /\ CurrentIsOpen

\* Every generation but the current one loses its cron loop when no update is
\* left that would stop it: old schedulers do not fire jobs a second time.
NoOrphanScheduler ==
    (\A u \in Update : phase[u] = "idle") => schedulers = {runtime}

\* What the safety properties rest on.  An update that is not idle holds the
\* writer slot of the generation it replaces, and only it does; it builds on top
\* of the current runtime until the swap and leaves an older one behind after it.
Builds(u) == phase[u] \in {"building", "rejecting", "discarding"}
Retires(u) == phase[u] \in {"restarting", "closing", "draining"}

WriterIsItsUpdate ==
    /\ \A u \in Update : phase[u] # "idle" => writer[old[u]] = u
    /\ \A g \in Generation : writer[g] # NoUpdate =>
            phase[writer[g]] # "idle" /\ old[writer[g]] = g

UpdatesInOrder ==
    /\ runtime <= built
    /\ \A u \in Update : Builds(u) =>
            old[u] = runtime /\ new[u] = built /\ runtime < built
    /\ \A u \in Update : Retires(u) => old[u] < runtime
    /\ closed \subseteq 0 .. built
    /\ \A u \in Update : phase[u] = "building" => new[u] \notin closed

\* Update u answers for the cron loop of g: it will stop it, or it built g.
KeepsScheduler(u, g) ==
    \/ phase[u] \in {"restarting", "closing"} /\ g = old[u]
    \/ phase[u] \in {"building", "rejecting"} /\ g = new[u]

SchedulersAccountedFor ==
    \A g \in Generation : g \in schedulers <=>
        g = runtime \/ \E u \in Update : KeepsScheduler(u, g)

GuardInv ==
    /\ WriterIsItsUpdate
    /\ UpdatesInOrder
    /\ SchedulersAccountedFor

\* A step that swaps the runtime never happens while a reader of the replaced
\* generation is active, and always moves to a newer generation.
SwapIsExclusive ==
    [][runtime' # runtime => /\ readers[runtime] = {}
                             /\ runtime' > runtime]_guardVars

\* Under fair scheduling an update that started gives its writer slot back.
UpdateEnds == \A u \in Update : phase[u] # "idle" ~> phase[u] = "idle"
================================================================================
