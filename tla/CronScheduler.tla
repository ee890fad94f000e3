----------------------------- MODULE CronScheduler -----------------------------
(* The cron scheduler of one runtime: the job and state files, the startup      *)
(* recovery, the 60 s tick, the runs of the jobs, the tools that create and     *)
(* delete jobs, and a daemon that dies and is started again.                    *)
(*                                                                              *)
(* Time is counted in ticks of a minute; a run that ends "at" minute m ends     *)
(* after the minute began.  A recurring job is due every Period minutes.        *)
EXTENDS Integers, FiniteSets

CONSTANTS
    Recurring,        \* jobs of cron_create
    OneShot,          \* jobs of schedule_wakeup
    Run,              \* runs of jobs, reused when they are over
    Period,
    MaxConcurrent,    \* config.schedule.maxConcurrentRuns
    MissedLimit,      \* config.schedule.missedJobsLimit
    MaxTime,          \* bound on time
    MaxCrash,         \* bound on the crashes of the daemon
    MaxDefer,         \* bound on the runs that meet a runtime update
    NoJob, Never

Job == Recurring \cup OneShot
Time == 0 .. MaxTime

ASSUME JobsAreDistinct == Recurring \cap OneShot = {} /\ NoJob \notin Job
ASSUME NeverIsNoTime == Never \notin Nat
ASSUME NumbersAreNumbers ==
    /\ Period \in Nat \ {0}
    /\ MaxConcurrent \in Nat
    /\ MissedLimit \in Nat
    /\ MaxTime \in Nat
    /\ MaxCrash \in Nat
    /\ MaxDefer \in Nat

VARIABLES
    now,
    jobs,       \* jobs.json
    stored,     \* jobs with an entry in jobs-state.json
    next,       \* next[j]: next_run_at_ms
    marked,     \* jobs whose running_at_ms is set
    lastRun,    \* lastRun[j]: last_run_at_ms
    born,       \* born[j]: when the job was created
    fireAt,     \* fireAt[j]: fire_at_ms of a one-shot job
    loop,       \* the scheduler task: "down", "recovering" or "ticking"
    staggered,  \* missed jobs beyond the limit
    phase,      \* phase[r]: "free", "queued" (task created) or "running"
    job,        \* job[r]: the job r runs
    slot,       \* slot[r]: the time r was due
    missed,     \* runs the recovery started and waits for
    fired,      \* fired[j]: the slots j was run to its end for
    refired,    \* jobs that were run to their end twice for one slot
    unrecorded, \* jobs of a run that was over when the daemon died
    crashes, defers

fileVars == <<jobs, stored, next, marked, lastRun, fireAt>>
runVars == <<phase, job, slot, missed>>
historyVars == <<born, fired, refired, unrecorded>>
boundVars == <<crashes, defers>>
vars == <<now, fileVars, loop, staggered, runVars, historyVars, boundVars>>

TypeOK ==
    /\ now \in Time
    /\ jobs \in SUBSET Job
    /\ stored \in SUBSET Job
    /\ next \in [Job -> Nat \cup {Never}]
    /\ marked \in SUBSET stored
    /\ lastRun \in [Job -> Time \cup {Never}]
    /\ fireAt \in [Job -> Nat \cup {Never}]
    /\ loop \in {"down", "recovering", "ticking"}
    /\ staggered \in SUBSET Job
    /\ phase \in [Run -> {"free", "queued", "running"}]
    /\ job \in [Run -> Job \cup {NoJob}]
    /\ slot \in [Run -> Nat \cup {Never}]
    /\ missed \in SUBSET Run
    /\ born \in [Job -> Time \cup {Never}]
    /\ fired \in [Job -> SUBSET Nat]
    /\ refired \in SUBSET Job
    /\ unrecorded \in SUBSET Job
    /\ crashes \in 0 .. MaxCrash
    /\ defers \in 0 .. MaxDefer

Init ==
    /\ now = 0
    /\ jobs = {}
    /\ stored = {}
    /\ next = [j \in Job |-> Never]
    /\ marked = {}
    /\ lastRun = [j \in Job |-> Never]
    /\ fireAt = [j \in Job |-> Never]
    /\ loop = "down"
    /\ staggered = {}
    /\ phase = [r \in Run |-> "free"]
    /\ job = [r \in Run |-> NoJob]
    /\ slot = [r \in Run |-> Never]
    /\ missed = {}
    /\ born = [j \in Job |-> Never]
    /\ fired = [j \in Job |-> {}]
    /\ refired = {}
    /\ unrecorded = {}
    /\ crashes = 0
    /\ defers = 0

Minute ==
    /\ now < MaxTime
    /\ now' = now + 1
    /\ UNCHANGED <<fileVars, loop, staggered, runVars, historyVars, boundVars>>

--------------------------------------------------------------------------------
(* Cron expressions.                                                            *)

\* _last_cron_occurrence and _next_cron_occurrence of the minute t.
LastOccurrence(t) == t - (t % Period)
NextOccurrence(t) == LastOccurrence(t) + Period

\* _set_next_run with force_future.
AfterRun(j, t) == IF j \in OneShot THEN fireAt[j] ELSE NextOccurrence(t)

\* Mutant: the last slot counts as missed even when it was run.
RecoveredAlways(j) ==
    IF j \in OneShot THEN (IF lastRun[j] # Never THEN Never ELSE fireAt[j])
    ELSE LastOccurrence(now)

\* _set_next_run_recovery: the last slot, unless the job has run since it or in the
\* minute before it.
Recovered(j) ==
    IF j \in OneShot THEN (IF lastRun[j] # Never THEN Never ELSE fireAt[j])
    ELSE IF lastRun[j] # Never /\ lastRun[j] + 1 >= LastOccurrence(now)
         THEN NextOccurrence(now)
         ELSE LastOccurrence(now)

--------------------------------------------------------------------------------
(* The tools cron_create, schedule_wakeup and cron_delete.                      *)

\* add_job and update_state.  Every job has an id of its own, never used before.
Create(j, at) ==
    /\ loop # "down"
    /\ born[j] = Never
    /\ born' = [born EXCEPT ![j] = now]
    /\ jobs' = jobs \cup {j}
    /\ stored' = stored \cup {j}
    /\ next' = [next EXCEPT ![j] = at]
    /\ UNCHANGED <<now, marked, lastRun, loop, staggered, runVars, fired, refired, unrecorded, boundVars>>

CronCreate(j) ==
    /\ j \in Recurring
    /\ Create(j, NextOccurrence(now))
    /\ UNCHANGED fireAt

\* The delay is at least the minute between two ticks.
ScheduleWakeup(j) ==
    /\ j \in OneShot
    /\ \E delay \in 1 .. 2 :
        /\ Create(j, now + delay)
        /\ fireAt' = [fireAt EXCEPT ![j] = now + delay]

Forget(j) ==
    /\ jobs' = jobs \ {j}
    /\ stored' = stored \ {j}
    /\ marked' = marked \ {j}
    /\ next' = [next EXCEPT ![j] = Never]
    /\ lastRun' = [lastRun EXCEPT ![j] = Never]

Delete(j) ==
    /\ loop # "down"
    /\ j \in jobs
    /\ Forget(j)
    /\ UNCHANGED <<now, fireAt, loop, staggered, runVars, historyVars, boundVars>>

--------------------------------------------------------------------------------
(* The scheduler task.                                                          *)

FreeRuns == {r \in Run : phase[r] = "free"}
Queued == {r \in Run : phase[r] = "queued"}
LiveRuns(j) == {r \in Run : phase[r] # "free" /\ job[r] = j}
Smaller(m, n) == IF m <= n THEN m ELSE n

\* _collect_due, over the states that are about to be saved.
Due(nx, busy) ==
    {j \in jobs \cap stored : j \notin busy /\ nx[j] # Never /\ nx[j] <= now}

\* A task is created for each of the jobs js.
Spawn(js, nx) ==
    \E f \in [js -> FreeRuns] :
        /\ \A i, j \in js : i # j => f[i] # f[j]
        /\ phase' = [r \in Run |-> IF \E j \in js : f[j] = r THEN "queued" ELSE phase[r]]
        /\ job' = [r \in Run |-> IF \E j \in js : f[j] = r
                                 THEN CHOOSE j \in js : f[j] = r ELSE job[r]]
        /\ slot' = [r \in Run |-> IF \E j \in js : f[j] = r
                                  THEN nx[CHOOSE j \in js : f[j] = r] ELSE slot[r]]

RecoverInterrupted == marked' = {}

\* The task starts: jobs that were running are interrupted, every next_run_at_ms
\* is computed again, and at most MissedLimit of the due jobs are started.
Recovery ==
    LET nx == [j \in Job |-> IF j \in jobs THEN Recovered(j) ELSE next[j]]
        due == {j \in jobs : j \notin marked' /\ nx[j] # Never /\ nx[j] <= now}
    IN  /\ loop = "down"
        /\ loop' = "recovering"
        /\ RecoverInterrupted
        /\ stored' = stored \cup jobs
        /\ next' = nx
        /\ \E js \in SUBSET due :
            /\ Cardinality(js) = Smaller(MissedLimit, Cardinality(due))
            /\ staggered' = due \ js
            /\ Spawn(js, nx)
            /\ missed' = {r \in Run : phase'[r] = "queued" /\ phase[r] = "free"}
        /\ UNCHANGED <<now, jobs, lastRun, fireAt, historyVars, boundVars>>

\* The missed runs are over: the staggered jobs get a future slot, ticking begins.
RecoveryEnds ==
    /\ loop = "recovering"
    /\ \A r \in missed : phase[r] = "free"
    /\ loop' = "ticking"
    /\ next' = [j \in Job |-> IF j \in staggered \cap stored THEN AfterRun(j, now) ELSE next[j]]
    /\ staggered' = {}
    /\ missed' = {}
    /\ UNCHANGED <<now, jobs, stored, marked, lastRun, fireAt, phase, job, slot,
                   historyVars, boundVars>>

\* Every 60 seconds.  The tasks of the tick before have had their first step.
Tick ==
    LET due == Due(next, marked)
        available == MaxConcurrent - Cardinality(Run \ FreeRuns)
    IN  /\ loop = "ticking"
        /\ Queued = {}
        /\ available > 0
        /\ due # {}
        /\ \E js \in SUBSET due :
            /\ Cardinality(js) = Smaller(available, Cardinality(due))
            /\ Spawn(js, next)
        /\ UNCHANGED <<now, fileVars, loop, staggered, missed, historyVars, boundVars>>

--------------------------------------------------------------------------------
(* _execute_job.                                                                *)

Free(r) ==
    /\ phase' = [phase EXCEPT ![r] = "free"]
    /\ job' = [job EXCEPT ![r] = NoJob]
    /\ slot' = [slot EXCEPT ![r] = Never]
    /\ UNCHANGED missed

\* The first step: running_at_ms is saved, the guard is entered.
RunStarts(r) ==
    /\ phase[r] = "queued"
    /\ stored' = stored \cup {job[r]}
    /\ marked' = marked \cup {job[r]}
    /\ phase' = [phase EXCEPT ![r] = "running"]
    /\ UNCHANGED <<now, jobs, next, lastRun, fireAt, loop, staggered, job, slot, missed,
                   historyVars, boundVars>>

Unmarked(r) == marked' = marked \ {job[r]}

\* The first step when an update holds the guard: the run is put off.
RunDefers(r) ==
    /\ defers < MaxDefer
    /\ phase[r] = "queued"
    /\ stored' = stored \cup {job[r]}
    /\ Unmarked(r)
    /\ Free(r)
    /\ defers' = defers + 1
    /\ UNCHANGED <<now, jobs, next, lastRun, fireAt, loop, staggered, historyVars, crashes>>

Fired(r) ==
    /\ fired' = [fired EXCEPT ![job[r]] = @ \cup {slot[r]}]
    /\ refired' = refired \cup
           {j \in {job[r]} : IF j \in OneShot THEN fired[j] # {} ELSE slot[r] \in fired[j]}
    /\ UNCHANGED born

\* The run is over, whatever its status: a one-shot job is removed, another one
\* gets a future slot.  The state is saved even if the job was deleted meanwhile.
RunEnds(r) ==
    LET j == job[r]
    IN  /\ phase[r] = "running"
        /\ Fired(r)
        /\ UNCHANGED unrecorded
        /\ \/ j \in OneShot /\ Forget(j)
           \/ /\ j \in Recurring
              /\ stored' = stored \cup {j}
              /\ marked' = marked \ {j}
              /\ lastRun' = [lastRun EXCEPT ![j] = now]
              /\ next' = [next EXCEPT ![j] = AfterRun(j, now)]
              /\ UNCHANGED jobs
        /\ Free(r)
        /\ UNCHANGED <<now, fireAt, loop, staggered, boundVars>>

--------------------------------------------------------------------------------
(* The daemon dies: the files stay.                                             *)

Dies ==
    /\ crashes < MaxCrash
    /\ crashes' = crashes + 1
    /\ loop' = "down"
    /\ staggered' = {}
    /\ phase' = [r \in Run |-> "free"]
    /\ job' = [r \in Run |-> NoJob]
    /\ slot' = [r \in Run |-> Never]
    /\ missed' = {}
    /\ UNCHANGED <<now, fileVars, defers>>

Crash ==
    /\ loop # "down"
    /\ Dies
    /\ UNCHANGED historyVars

\* It dies after the agent's turn is over and before anything about it is saved.
CrashAfterTurn(r) ==
    /\ phase[r] = "running"
    /\ Fired(r)
    /\ unrecorded' = unrecorded \cup {job[r]}
    /\ Dies

--------------------------------------------------------------------------------

RunStep(r) ==
    \/ RunStarts(r)
    \/ RunDefers(r)
    \/ RunEnds(r)
    \/ CrashAfterTurn(r)

Next ==
    \/ Minute
    \/ \E j \in Job : CronCreate(j) \/ ScheduleWakeup(j) \/ Delete(j)
    \/ Recovery
    \/ RecoveryEnds
    \/ Tick
    \/ \E r \in Run : RunStep(r)
    \/ Crash

Spec == Init /\ [][Next]_vars

\* The event loop runs what is ready, the daemon is started again after a crash,
\* and a job's turn ends: its model calls and tools have timeouts.
FairSpec ==
    /\ Spec
    /\ WF_vars(Recovery)
    /\ WF_vars(RecoveryEnds)
    /\ WF_vars(Tick)
    /\ WF_vars(Minute)
    /\ \A r \in Run : WF_vars(RunStarts(r) \/ RunDefers(r)) /\ WF_vars(RunEnds(r))

--------------------------------------------------------------------------------

\* A job never runs twice at the same time, whatever ticks, recoveries, deferrals
\* and deletions come together ("due ... and not currently running").
NoOverlap == \A j \in Job : Cardinality(LiveRuns(j)) <= 1

\* While the scheduler is up, running_at_ms is never a leftover: such a job would
\* not be due again until the next restart.
NoStuckJob ==
    loop # "down" => \A j \in marked : \E r \in LiveRuns(j) : phase[r] = "running"

\* No slot of a job is run to its end twice, and no one-shot job at all, although
\* restarts compute the slots again ("doesn't re-fire jobs that already ran").  The
\* exception is a daemon that dies after the turn of the job and before its record.
NoRefire == refired \subseteq unrecorded

\* The runs and the state files agree, and no job is run twice for one reason.
JobsAreSound == TypeOK /\ NoOverlap /\ NoStuckJob /\ NoRefire

\* A one-shot job that is due is run, or deleted, in the end.
OneShotRuns ==
    \A j \in OneShot : j \in jobs /\ fireAt[j] <= now ~> j \notin jobs
================================================================================
