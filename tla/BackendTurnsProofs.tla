--------------------------- MODULE BackendTurnsProofs ---------------------------
(* Proofs about RuntimeUpdate, for any sets of runs and updates and any bound,  *)
(* and about BackendTurns, for any sets of sessions, turns and calls.           *)
EXTENDS BackendTurns, TLAPS, SequenceTheorems

(* The guard alone.                                                             *)

USE RunsAreDistinct, NoUpdateIsNoUpdate, GenerationBound DEF Generation, Run, Phase

\* close() of generation h: its cron loop goes, readers can only become fewer.
LEMMA StopSchedulerEffect ==
    ASSUME GuardTypeOK, NEW h \in Generation, StopScheduler(h)
    PROVE  /\ schedulers' \in SUBSET Generation
           /\ recovering' \in SUBSET Generation
           /\ readers' \in [Generation -> SUBSET Run]
           /\ \A g \in Generation : readers'[g] \subseteq readers[g]
<1>1. CASE h \in recovering
  <2>1. readers' = [readers EXCEPT ![h] = @ \ CronRun]
    BY <1>1 DEF StopScheduler
  <2>2. QED
    BY <2>1 DEF StopScheduler, GuardTypeOK
<1>2. CASE h \notin recovering
  BY <1>2 DEF StopScheduler, GuardTypeOK
<1>3. QED
  BY <1>1, <1>2

\* Every step of the guard keeps the types of its variables.
LEMMA GuardTypeStep == GuardTypeOK /\ [GuardNext]_guardVars => GuardTypeOK'
<1> SUFFICES ASSUME GuardTypeOK, [GuardNext]_guardVars PROVE GuardTypeOK'
  OBVIOUS
<1> USE DEF GuardTypeOK
<1>1. ASSUME NEW r \in ForegroundRun, Enter(r) PROVE GuardTypeOK'
  BY <1>1 DEF Enter, EnterGuard
<1>2. ASSUME NEW r \in CronRun, NEW g \in Generation, CronEnter(r, g)
      PROVE GuardTypeOK'
  BY <1>2 DEF CronEnter, EnterGuard
<1>3. ASSUME NEW r \in Run, NEW g \in Generation, Leave(r, g) PROVE GuardTypeOK'
  BY <1>3 DEF Leave, LeaveGuard
<1>4. ASSUME NEW g \in Generation, RecoveryDone(g) PROVE GuardTypeOK'
  BY <1>4 DEF RecoveryDone
<1>5. ASSUME NEW u \in Update, UpdateStep(u) PROVE GuardTypeOK'
  <2>1. CASE UpdateStart(u)
    BY <2>1 DEF UpdateStart, WriterIsFree
  <2>2. CASE UpdateSwap(u)
    BY <2>2 DEF UpdateSwap
  <2>3. CASE UpdateReject(u)
    BY <2>3 DEF UpdateReject
  <2>4. CASE UpdateRestarted(u)
    BY <2>4 DEF UpdateRestarted
  <2>5. CASE UpdateStopsScheduler(u)
    <3>1. PICK h \in Generation : StopScheduler(h)
      BY <2>5 DEF UpdateStopsScheduler
    <3>2. phase' \in [Update -> Phase]
      BY <2>5 DEF UpdateStopsScheduler
    <3>3. QED
      BY <2>5, <3>1, <3>2, StopSchedulerEffect DEF UpdateStopsScheduler
  <2>6. CASE UpdateClosesClient(u)
    BY <2>6 DEF UpdateClosesClient
  <2>7. QED
    BY <1>5, <2>1, <2>2, <2>3, <2>4, <2>5, <2>6 DEF UpdateStep
<1>6. CASE UNCHANGED guardVars
  BY <1>6 DEF guardVars
<1>7. QED
  BY <1>1, <1>2, <1>3, <1>4, <1>5, <1>6 DEF GuardNext

\* Every variable of the guard keeps its type.
THEOREM GuardTypeCorrect == GuardSpec => []GuardTypeOK
<1>1. GuardInit => GuardTypeOK
  BY DEF GuardInit, GuardTypeOK
<1>2. QED
  BY <1>1, GuardTypeStep, PTL DEF GuardSpec

\* The strengthening of the guard's safety properties that is inductive.
GuardIndInv ==
    /\ GuardTypeOK
    /\ WriterExcludesReaders
    /\ ForegroundOnCurrent
    /\ CurrentIsOpen
    /\ GuardInv

\* It holds of the first state, when nobody holds or waits for the guard.
LEMMA GuardIndInvInit == GuardInit => GuardIndInv
BY DEF GuardInit, GuardIndInv, GuardTypeOK, WriterExcludesReaders, ForegroundOnCurrent,
       CurrentIsOpen, GuardInv, WriterIsItsUpdate, UpdatesInOrder, Builds, Retires,
       SchedulersAccountedFor, KeepsScheduler

\* A step that only makes readers fewer keeps the invariant.
LEMMA FewerReadersKeepInv ==
    ASSUME GuardIndInv, GuardTypeOK',
           UNCHANGED <<runtime, built, writer, schedulers, closed, phase, old, new>>,
           \A g \in Generation : readers'[g] \subseteq readers[g]
    PROVE  GuardIndInv'
<1>1. WriterExcludesReaders' /\ ForegroundOnCurrent' /\ CurrentIsOpen'
  BY DEF GuardIndInv, WriterExcludesReaders, ForegroundOnCurrent, CurrentIsOpen
<1>2. WriterIsItsUpdate' /\ UpdatesInOrder' /\ SchedulersAccountedFor'
  BY DEF GuardIndInv, GuardInv, WriterIsItsUpdate, UpdatesInOrder, Builds, Retires,
         SchedulersAccountedFor, KeepsScheduler
<1>3. QED
  BY <1>1, <1>2 DEF GuardIndInv, GuardInv

\* reader() admits a run only where no writer is; a foreground run enters the
\* current generation.
LEMMA EnterKeepsInv ==
    ASSUME GuardIndInv, GuardTypeOK', NEW r, NEW g \in Generation, EnterGuard(r, g),
           r \in ForegroundRun => g = runtime
    PROVE  GuardIndInv'
<1>1. \A h \in Generation : readers'[h] = IF h = g THEN readers[h] \cup {r}
                                                  ELSE readers[h]
  BY DEF GuardIndInv, GuardTypeOK, EnterGuard
<1>2. WriterExcludesReaders' /\ ForegroundOnCurrent' /\ CurrentIsOpen'
  BY <1>1 DEF GuardIndInv, WriterExcludesReaders, ForegroundOnCurrent, CurrentIsOpen,
              EnterGuard
<1>3. WriterIsItsUpdate' /\ UpdatesInOrder' /\ SchedulersAccountedFor'
  BY DEF EnterGuard, GuardIndInv, GuardInv, WriterIsItsUpdate, UpdatesInOrder, Builds,
         Retires, SchedulersAccountedFor, KeepsScheduler
<1>4. QED
  BY <1>2, <1>3 DEF GuardIndInv, GuardInv

\* writer() and the build.
LEMMA StartKeepsInv ==
    ASSUME GuardIndInv, GuardTypeOK', NEW u \in Update, UpdateStart(u)
    PROVE  GuardIndInv'
<1> USE DEF UpdateStart, WriterIsFree, GuardIndInv, GuardInv, GuardTypeOK
<1>1. /\ built + 1 \in Generation
      /\ phase[u] = "idle" /\ phase'[u] = "building"
      /\ old'[u] = runtime /\ new'[u] = built + 1
  OBVIOUS
<1>2. \A v \in Update \ {u} :
        phase'[v] = phase[v] /\ old'[v] = old[v] /\ new'[v] = new[v]
  OBVIOUS
<1>3. \A v \in Update : ~ Builds(v)
  BY DEF Builds, WriterIsItsUpdate, UpdatesInOrder
<1>4. WriterExcludesReaders' /\ ForegroundOnCurrent' /\ CurrentIsOpen'
  BY DEF WriterExcludesReaders, ForegroundOnCurrent, CurrentIsOpen
<1>5. WriterIsItsUpdate'
  BY <1>1, <1>2 DEF WriterIsItsUpdate
<1>6. UpdatesInOrder'
  BY <1>1, <1>2, <1>3 DEF UpdatesInOrder, Builds, Retires
<1>7. SchedulersAccountedFor'
  <2>1. \A v \in Update \ {u}, g \in Generation :
          KeepsScheduler(v, g)' <=> KeepsScheduler(v, g)
    BY <1>2 DEF KeepsScheduler
  <2>2. \A g \in Generation : /\ KeepsScheduler(u, g)' <=> g = built + 1
                              /\ ~ KeepsScheduler(u, g)
    BY <1>1 DEF KeepsScheduler
  <2>3. schedulers' = schedulers \cup {built + 1} /\ runtime' = runtime
    OBVIOUS
  <2>4. QED
    BY ONLY <1>1, <2>1, <2>2, <2>3, SchedulersAccountedFor DEF SchedulersAccountedFor
<1>8. QED
  BY <1>4, <1>5, <1>6, <1>7

\* The swap: no other update is before its swap, and the replaced generation has
\* no readers, so no foreground run is left on an old generation.
LEMMA SwapKeepsInv ==
    ASSUME GuardIndInv, GuardTypeOK', NEW u \in Update, UpdateSwap(u)
    PROVE  GuardIndInv'
<1> USE DEF UpdateSwap, GuardIndInv, GuardInv, GuardTypeOK
<1>1. \A v \in Update : Builds(v) => v = u
  BY DEF Builds, WriterIsItsUpdate, UpdatesInOrder
<1>2. /\ old[u] = runtime /\ new[u] = built /\ runtime < built
      /\ new[u] \notin closed /\ writer[runtime] = u /\ u # NoUpdate
  BY DEF Builds, WriterIsItsUpdate, UpdatesInOrder
<1>3. WriterExcludesReaders' /\ CurrentIsOpen'
  BY <1>2 DEF WriterExcludesReaders, CurrentIsOpen
<1>4. ForegroundOnCurrent'
  <2>1. readers[runtime] = {}
    BY <1>2 DEF WriterExcludesReaders
  <2>2. QED
    BY <2>1 DEF ForegroundOnCurrent
<1>5. WriterIsItsUpdate'
  BY DEF WriterIsItsUpdate
<1>6. UpdatesInOrder'
  BY <1>1, <1>2 DEF UpdatesInOrder, Builds, Retires
<1>7. SchedulersAccountedFor'
  <2>1. \A v \in Update \ {u}, g \in Generation :
          KeepsScheduler(v, g)' <=> KeepsScheduler(v, g)
    BY DEF KeepsScheduler
  <2>2. \A g \in Generation : /\ KeepsScheduler(u, g)' <=> g = runtime
                              /\ KeepsScheduler(u, g) <=> g = runtime'
    BY <1>2 DEF KeepsScheduler
  <2>3. schedulers' = schedulers /\ runtime \in Generation /\ runtime' \in Generation
    OBVIOUS
  <2>4. QED
    BY ONLY <2>1, <2>2, <2>3, SchedulersAccountedFor DEF SchedulersAccountedFor
<1>8. QED
  BY <1>3, <1>4, <1>5, <1>6, <1>7

\* Rejecting the build or finishing the channel restart only moves the phase.
LEMMA PhaseStepKeepsInv ==
    ASSUME GuardIndInv, GuardTypeOK', NEW u \in Update,
           UpdateReject(u) \/ UpdateRestarted(u)
    PROVE  GuardIndInv'
<1> USE DEF UpdateReject, UpdateRestarted, GuardIndInv, GuardInv, GuardTypeOK
<1>1. /\ \/ phase[u] = "building" /\ phase'[u] = "rejecting"
         \/ phase[u] = "restarting" /\ phase'[u] = "closing"
      /\ \A v \in Update \ {u} : phase'[v] = phase[v]
      /\ UNCHANGED <<runtime, built, readers, writer, schedulers, closed, old, new>>
  OBVIOUS
<1>2. WriterExcludesReaders' /\ CurrentIsOpen' /\ ForegroundOnCurrent'
  BY DEF WriterExcludesReaders, CurrentIsOpen, ForegroundOnCurrent
<1>3. WriterIsItsUpdate'
  BY <1>1 DEF WriterIsItsUpdate
<1>4. UpdatesInOrder'
  BY <1>1 DEF UpdatesInOrder, Builds, Retires
<1>5. SchedulersAccountedFor'
  <2>1. \A v \in Update, g \in Generation : KeepsScheduler(v, g)' <=> KeepsScheduler(v, g)
    BY <1>1 DEF KeepsScheduler
  <2>2. QED
    BY <1>1, <2>1 DEF SchedulersAccountedFor
<1>6. QED
  BY <1>2, <1>3, <1>4, <1>5

\* Cancelling the cron task of the old, or of the rejected, generation.
LEMMA StopKeepsInv ==
    ASSUME GuardIndInv, GuardTypeOK', NEW u \in Update, UpdateStopsScheduler(u)
    PROVE  GuardIndInv'
<1> USE DEF GuardIndInv, GuardInv, GuardTypeOK
<1>1. PICK h \in Generation :
        /\ StopScheduler(h)
        /\ \/ phase[u] = "rejecting" /\ phase'[u] = "discarding" /\ h = new[u]
           \/ phase[u] = "closing" /\ phase'[u] = "draining" /\ h = old[u]
  BY DEF UpdateStopsScheduler
<1>2. /\ \A v \in Update \ {u} : phase'[v] = phase[v]
      /\ UNCHANGED <<runtime, built, writer, closed, old, new>>
  BY DEF UpdateStopsScheduler
<1>3. \A g \in Generation : readers'[g] \subseteq readers[g]
  BY <1>1, StopSchedulerEffect
<1>4. WriterExcludesReaders' /\ CurrentIsOpen' /\ ForegroundOnCurrent'
  BY <1>2, <1>3 DEF WriterExcludesReaders, CurrentIsOpen, ForegroundOnCurrent
<1>5. WriterIsItsUpdate'
  BY <1>1, <1>2 DEF WriterIsItsUpdate
<1>6. UpdatesInOrder'
  BY <1>1, <1>2 DEF UpdatesInOrder, Builds, Retires
<1>7. h # runtime
  BY <1>1 DEF UpdatesInOrder, Builds, Retires
<1>8. \A v \in Update \ {u} : ~ KeepsScheduler(v, h)
  BY <1>1 DEF WriterIsItsUpdate, UpdatesInOrder, Builds, Retires, KeepsScheduler
<1>9. SchedulersAccountedFor'
  <2>1. schedulers' = schedulers \ {h}
    BY <1>1 DEF StopScheduler
  <2>2. \A v \in Update \ {u}, g \in Generation :
          KeepsScheduler(v, g)' <=> KeepsScheduler(v, g)
    BY <1>2 DEF KeepsScheduler
  <2>3. \A g \in Generation : /\ KeepsScheduler(u, g) <=> g = h
                              /\ ~ KeepsScheduler(u, g)'
    BY <1>1 DEF KeepsScheduler
  <2>4. QED
    BY ONLY <1>2, <1>7, <1>8, <2>1, <2>2, <2>3, SchedulersAccountedFor
       DEF SchedulersAccountedFor
<1>10. QED
  BY <1>4, <1>5, <1>6, <1>9

\* Closing the client and leaving writer().
LEMMA CloseKeepsInv ==
    ASSUME GuardIndInv, GuardTypeOK', NEW u \in Update, UpdateClosesClient(u)
    PROVE  GuardIndInv'
<1> USE DEF GuardIndInv, GuardInv, GuardTypeOK
<1>1. /\ phase[u] \in {"discarding", "draining"} /\ phase'[u] = "idle"
      /\ \A v \in Update \ {u} : phase'[v] = phase[v]
      /\ \A g \in Generation : writer'[g] = IF g = old[u] THEN NoUpdate ELSE writer[g]
      /\ UNCHANGED <<runtime, built, readers, schedulers, old, new>>
  BY DEF UpdateClosesClient
<1>2. closed' = closed \cup {IF phase[u] = "draining" THEN old[u] ELSE new[u]}
  BY DEF UpdateClosesClient
<1>3. WriterExcludesReaders' /\ ForegroundOnCurrent'
  BY <1>1 DEF WriterExcludesReaders, ForegroundOnCurrent
<1>4. CurrentIsOpen'
  BY <1>1, <1>2 DEF CurrentIsOpen, UpdatesInOrder, Builds, Retires
<1>5. WriterIsItsUpdate'
  BY <1>1 DEF WriterIsItsUpdate
<1>6. UpdatesInOrder'
  <2>1. \A v \in Update : Builds(v)' => Builds(v) /\ v # u
    BY <1>1 DEF Builds
  <2>2. \A v \in Update : Retires(v)' => Retires(v)
    BY <1>1 DEF Retires
  <2>3. closed' \subseteq 0 .. built'
    BY <1>1, <1>2 DEF UpdatesInOrder, Builds, Retires
  <2>4. ASSUME NEW v \in Update, phase'[v] = "building" PROVE new'[v] \notin closed'
    <3>1. Builds(v) /\ v # u /\ phase[v] = "building"
      BY <1>1, <2>4 DEF Builds
    <3>2. ~ Builds(u)
      <4>1. writer[runtime] = v
        BY <3>1 DEF UpdatesInOrder, WriterIsItsUpdate, Builds
      <4>2. Builds(u) => writer[runtime] = u
        BY DEF UpdatesInOrder, WriterIsItsUpdate, Builds
      <4>3. QED
        BY <3>1, <4>1, <4>2
    <3>3. phase[u] = "draining" /\ old[u] < new[v]
      BY <1>1, <3>1, <3>2 DEF UpdatesInOrder, Builds, Retires
    <3>4. QED
      BY <1>1, <1>2, <3>1, <3>3 DEF UpdatesInOrder
  <2>5. QED
    BY <1>1, <2>1, <2>2, <2>3, <2>4 DEF UpdatesInOrder
<1>7. SchedulersAccountedFor'
  <2>1. \A v \in Update, g \in Generation : KeepsScheduler(v, g)' <=> KeepsScheduler(v, g)
    BY <1>1 DEF KeepsScheduler
  <2>2. QED
    BY <1>1, <2>1 DEF SchedulersAccountedFor
<1>8. QED
  BY <1>3, <1>4, <1>5, <1>6, <1>7

\* Every step keeps it.
LEMMA GuardIndInvStep ==
    GuardIndInv /\ GuardTypeOK' /\ [GuardNext]_guardVars => GuardIndInv'
<1> SUFFICES ASSUME GuardIndInv, GuardTypeOK', [GuardNext]_guardVars
             PROVE  GuardIndInv'
  OBVIOUS
<1>1. ASSUME NEW r \in ForegroundRun, Enter(r) PROVE GuardIndInv'
  <2>1. runtime \in Generation
    BY DEF GuardIndInv, GuardTypeOK
  <2>2. QED
    BY <1>1, <2>1, EnterKeepsInv DEF Enter
<1>2. ASSUME NEW r \in CronRun, NEW g \in Generation, CronEnter(r, g)
      PROVE  GuardIndInv'
  BY <1>2, EnterKeepsInv DEF CronEnter
<1>3. ASSUME NEW r \in Run, NEW g \in Generation, Leave(r, g) PROVE GuardIndInv'
  <2>1. \A h \in Generation : readers'[h] \subseteq readers[h]
    BY <1>3 DEF Leave, LeaveGuard, GuardIndInv, GuardTypeOK
  <2>2. QED
    BY <1>3, <2>1, FewerReadersKeepInv DEF Leave, LeaveGuard
<1>4. ASSUME NEW g \in Generation, RecoveryDone(g) PROVE GuardIndInv'
  BY <1>4, FewerReadersKeepInv DEF RecoveryDone
<1>5. ASSUME NEW u \in Update, UpdateStep(u) PROVE GuardIndInv'
  BY <1>5, StartKeepsInv, SwapKeepsInv, PhaseStepKeepsInv, StopKeepsInv, CloseKeepsInv
     DEF UpdateStep
<1>6. CASE UNCHANGED guardVars
  BY <1>6, FewerReadersKeepInv DEF guardVars
<1>7. QED
  BY <1>1, <1>2, <1>3, <1>4, <1>5, <1>6 DEF GuardNext

\* No run is ever counted under a writer, every chat turn in the guard runs on
\* the current runtime, and the current runtime is never closed.
THEOREM GuardSafe == GuardSpec => []GuardSafety
<1>1. GuardTypeOK /\ GuardIndInv => GuardSafety
  BY DEF GuardIndInv, GuardSafety
<1>2. QED
  BY <1>1, GuardIndInvInit, GuardIndInvStep, GuardTypeCorrect, PTL DEF GuardSpec

\* When no update is under way exactly the cron loop of the current runtime runs.
THEOREM GuardNoOrphans == GuardSpec => []NoOrphanScheduler
<1>1. GuardIndInv => NoOrphanScheduler
  <2> SUFFICES ASSUME GuardIndInv, \A u \in Update : phase[u] = "idle"
               PROVE  schedulers = {runtime}
    BY DEF NoOrphanScheduler
  <2>1. \A g \in Generation : g \in schedulers <=> g = runtime
    BY DEF GuardIndInv, GuardInv, SchedulersAccountedFor, KeepsScheduler
  <2>2. schedulers \subseteq Generation /\ runtime \in Generation
    BY DEF GuardIndInv, GuardTypeOK
  <2>3. QED
    BY <2>1, <2>2
<1>2. QED
  BY <1>1, GuardIndInvInit, GuardIndInvStep, GuardTypeCorrect, PTL DEF GuardSpec

\* A swap happens only over a generation without readers, and to a newer one.
THEOREM GuardSwapExclusive == GuardSpec => SwapIsExclusive
<1>1. GuardIndInv /\ [GuardNext]_guardVars =>
        [runtime' # runtime => readers[runtime] = {} /\ runtime' > runtime]_guardVars
  <2> SUFFICES ASSUME GuardIndInv, [GuardNext]_guardVars, runtime' # runtime
               PROVE  readers[runtime] = {} /\ runtime' > runtime
    OBVIOUS
  <2>1. PICK u \in Update : UpdateSwap(u)
    BY DEF GuardNext, Enter, EnterGuard, CronEnter, Leave, LeaveGuard, RecoveryDone,
           UpdateStep, UpdateStart, WriterIsFree, UpdateReject, UpdateRestarted,
           UpdateStopsScheduler, UpdateClosesClient, guardVars
  <2>2. QED
    BY <2>1 DEF UpdateSwap, GuardIndInv, GuardInv, GuardTypeOK, WriterIsItsUpdate,
                UpdatesInOrder, Builds, WriterExcludesReaders
<1>2. QED
  BY <1>1, GuardIndInvInit, GuardIndInvStep, GuardTypeCorrect, PTL
     DEF GuardSpec, SwapIsExclusive

--------------------------------------------------------------------------------
(* The turns of the backend.                                                    *)

(* The strengthening that is inductive. *)

\* What waits in queues and holds locks.
Client == Turn \cup Compaction

\* A client that waits has one place in one queue.
QueuesAreLines ==
    \A s \in Session : \A i, j \in 1 .. Len(queue[s]) : queue[s][i] = queue[s][j] => i = j

\* Where the task of a turn is determines every other place that knows of it.
TurnPlaces ==
    \A t \in Turn :
        /\ turn[t] = "unsent" <=> session[t] = NoSession
        /\ t \in registry <=> turn[t] \in {"created", "waiting", "running", "crashed"}
        /\ \A s \in Session :
            /\ active[s] = t <=> t \in registry /\ session[t] = s
            /\ holder[s] = t <=> turn[t] = "running" /\ session[t] = s
            /\ Contains(queue[s], t) <=> turn[t] = "waiting" /\ session[t] = s

\* A turn in the guard is counted where it got its tools, which is the current runtime.
TurnRuntime ==
    \A t \in Turn :
        /\ \A g \in Generation :
            t \in readers[g] <=> turn[t] \in {"waiting", "running"} /\ g = configured[t]
        /\ turn[t] \in {"waiting", "running"} => configured[t] = runtime
        /\ turn[t] = "running" => client[t] = runtime

\* A terminal event is emitted when the turn leaves, and never again.
TurnOutcome ==
    \A t \in Turn :
        turn[t] \in {"unsent", "created", "waiting", "running", "crashed"} => ended[t] = <<>>

\* The same of a forced compaction and its session's lock.
CompactionPlaces ==
    \A k \in Compaction :
        /\ compaction[k] = "uncalled" <=> compacts[k] = NoSession
        /\ \A s \in Session :
            /\ holder[s] = k <=> compaction[k] = "running" /\ compacts[k] = s
            /\ Contains(queue[s], k) <=> compaction[k] = "waiting" /\ compacts[k] = s

\* A chat_abort under way knows the turn it aborts.
AbortTargets == \A a \in Abort : abort[a] # "idle" => target[a] \in Turn

TurnsIndInv ==
    /\ TypeOK
    /\ GuardIndInv
    /\ QueuesAreLines
    /\ TurnPlaces
    /\ TurnRuntime
    /\ TurnOutcome
    /\ CompactionPlaces
    /\ AbortTargets

--------------------------------------------------------------------------------
(* Queues. *)

LEMMA RemoveFirstEffect ==
    ASSUME NEW S, NEW q \in Seq(S), NEW e,
           \A i, j \in 1 .. Len(q) : q[i] = q[j] => i = j
    PROVE  /\ RemoveFirst(q, e) \in Seq(S)
           /\ ~ Contains(RemoveFirst(q, e), e)
           /\ \A x : x # e => (Contains(RemoveFirst(q, e), x) <=> Contains(q, x))
           /\ \A i, j \in 1 .. Len(RemoveFirst(q, e)) :
                RemoveFirst(q, e)[i] = RemoveFirst(q, e)[j] => i = j
<1>1. CASE ~ \E i \in 1 .. Len(q) : q[i] = e
  BY <1>1 DEF RemoveFirst, Contains
<1>2. CASE \E i \in 1 .. Len(q) : q[i] = e
  <2>1. PICK i \in 1 .. Len(q) : q[i] = e
    BY <1>2
  <2>2. { k \in 1..Len(q) : q[k] = e } = {i}
    BY <2>1
  <2>3. Min({i}) = i
    BY DEF Min
  <2>4. SelectInSeq(q, LAMBDA v: v = e) = i
    BY <2>2, <2>3 DEF SelectInSeq
  <2>5. RemoveFirst(q, e) = SubSeq(q, 1, i-1) \o SubSeq(q, i+1, Len(q))
    BY <1>2, <2>4 DEF RemoveFirst, RemoveAt
  <2>6. /\ Len(q) \in Nat /\ i \in Nat /\ 1 <= i /\ i <= Len(q)
        /\ \A k \in 1 .. Len(q) : q[k] \in S
    BY LenProperties
  <2>7. PICK a \in Seq(S), b \in Seq(S) :
           /\ RemoveFirst(q, e) = a \o b
           /\ Len(a) = i - 1 /\ \A k \in 1 .. i-1 : a[k] = q[k]
           /\ Len(b) = Len(q) - i /\ \A k \in 1 .. Len(q)-i : b[k] = q[i+k]
    <3>1. /\ SubSeq(q, 1, i-1) \in Seq(S) /\ Len(SubSeq(q, 1, i-1)) = i - 1
          /\ \A k \in 1 .. i-1 : SubSeq(q, 1, i-1)[k] = q[k]
      BY <2>6
    <3>2. /\ SubSeq(q, i+1, Len(q)) \in Seq(S) /\ Len(SubSeq(q, i+1, Len(q))) = Len(q) - i
          /\ \A k \in 1 .. Len(q)-i : SubSeq(q, i+1, Len(q))[k] = q[i+k]
      BY <2>6
    <3>3. QED
      BY <2>5, <3>1, <3>2
  <2>8. PICK r \in Seq(S) :
           /\ RemoveFirst(q, e) = r /\ Len(r) = Len(q) - 1
           /\ \A k \in 1 .. Len(q)-1 : r[k] = IF k < i THEN q[k] ELSE q[k+1]
    <3>2. a \o b \in Seq(S) /\ Len(a \o b) = Len(q) - 1
      BY <2>7, <2>6, ConcatProperties
    <3>3. ASSUME NEW k \in 1 .. Len(q)-1 PROVE (a \o b)[k] = IF k < i THEN q[k] ELSE q[k+1]
      <4>1. CASE k < i
        BY <2>6, <2>7, <4>1
      <4>2. CASE ~(k < i)
        <5>1. k - (i - 1) \in 1 .. Len(b) /\ i + (k - (i-1)) = k + 1
          BY <2>6, <2>7, <4>2
        <5>2. (a \o b)[k] = b[k - (i-1)]
          BY <2>6, <2>7, <4>2, <5>1
        <5>3. QED
          BY <2>7, <4>2, <5>1, <5>2
      <4>3. QED
        BY <4>1, <4>2
    <3>4. QED
      BY <2>7, <3>2, <3>3
  <2> DEFINE from(k) == IF k < i THEN k ELSE k + 1
  <2>a. \A k \in 1 .. Len(q)-1 : from(k) \in 1 .. Len(q) /\ from(k) # i /\ r[k] = q[from(k)]
    BY <2>6, <2>8
  <2>b. \A k, l \in 1 .. Len(q)-1 : from(k) = from(l) => k = l
    BY <2>6
  <2> HIDE DEF from
  <2>9. \A k \in 1 .. Len(q)-1 : r[k] # e
    BY <2>1, <2>a
  <2>10. \A k, l \in 1 .. Len(q)-1 : r[k] = r[l] => k = l
    BY <2>a, <2>b
  <2>11. ASSUME NEW x, x # e PROVE Contains(r, x) <=> Contains(q, x)
    <3>1. ASSUME NEW k \in 1 .. Len(q), q[k] = x PROVE \E l \in 1 .. Len(q)-1 : r[l] = x
      <4>1. CASE k < i
        <5>1. k \in 1 .. Len(q)-1
          BY <2>6, <4>1
        <5>2. QED
          BY <2>8, <3>1, <4>1, <5>1
      <4>2. CASE k > i
        <5>1. k - 1 \in 1 .. Len(q)-1 /\ ~(k-1 < i) /\ (k-1)+1 = k
          BY <4>2, <2>6
        <5>2. QED
          BY <2>8, <3>1, <5>1
      <4>3. QED
        BY <2>1, <2>6, <2>11, <3>1, <4>1, <4>2
    <3>2. ASSUME NEW k \in 1 .. Len(q)-1, r[k] = x PROVE \E l \in 1 .. Len(q) : q[l] = x
      BY <2>6, <2>8, <3>2
    <3>3. QED
      BY <2>8, <3>1, <3>2 DEF Contains
  <2>12. QED
    BY <2>8, <2>9, <2>10, <2>11 DEF Contains
<1>3. QED
  BY <1>1, <1>2

\* A waiter that is appended is the only new one.
LEMMA AppendEffect ==
    ASSUME NEW S, NEW q \in Seq(S), NEW e \in S, ~ Contains(q, e),
           \A i, j \in 1 .. Len(q) : q[i] = q[j] => i = j
    PROVE  /\ Append(q, e) \in Seq(S)
           /\ \A x : Contains(Append(q, e), x) <=> x = e \/ Contains(q, x)
           /\ \A i, j \in 1 .. Len(Append(q, e)) : Append(q, e)[i] = Append(q, e)[j] => i = j
<1>1. Len(q) \in Nat /\ \A i \in 1 .. Len(q) : q[i] \in S
  BY LenProperties
<1>2. /\ Append(q, e) \in Seq(S) /\ Len(Append(q, e)) = Len(q) + 1
      /\ \A i \in 1 .. Len(q) : Append(q, e)[i] = q[i]
      /\ Append(q, e)[Len(q) + 1] = e
  BY AppendProperties
<1>3. \A i \in 1 .. Len(q) + 1 : i \in 1 .. Len(q) \/ i = Len(q) + 1
  BY <1>1
<1>4. \A x : Contains(Append(q, e), x) <=> x = e \/ Contains(q, x)
  BY <1>1, <1>2, <1>3 DEF Contains
<1>5. \A i \in 1 .. Len(q) : q[i] # e
  BY DEF Contains
<1>6. QED
  BY <1>1, <1>2, <1>3, <1>4, <1>5

\* The lock goes to the head of the queue.
LEMMA TailEffect ==
    ASSUME NEW S, NEW q \in Seq(S), NEW e, Contains(q, e), Head(q) = e,
           \A i, j \in 1 .. Len(q) : q[i] = q[j] => i = j
    PROVE  /\ Tail(q) \in Seq(S)
           /\ \A x : Contains(Tail(q), x) <=> x # e /\ Contains(q, x)
           /\ \A i, j \in 1 .. Len(Tail(q)) : Tail(q)[i] = Tail(q)[j] => i = j
<1>1. Len(q) \in Nat /\ Len(q) >= 1 /\ q # <<>> /\ q[1] = e
  BY LenProperties DEF Contains
<1>2. /\ Tail(q) \in Seq(S) /\ Len(Tail(q)) = Len(q) - 1
      /\ \A i \in 1 .. Len(q) - 1 : Tail(q)[i] = q[i + 1]
  BY <1>1, HeadTailProperties
<1>3. \A i, j \in 1 .. Len(q) - 1 : Tail(q)[i] = Tail(q)[j] => i = j
  <2> SUFFICES ASSUME NEW i \in 1 .. Len(q) - 1, NEW j \in 1 .. Len(q) - 1,
                      Tail(q)[i] = Tail(q)[j]
               PROVE  i = j
    OBVIOUS
  <2>1. i + 1 \in 1 .. Len(q) /\ j + 1 \in 1 .. Len(q) /\ q[i + 1] = q[j + 1]
    BY <1>1, <1>2
  <2>2. QED
    BY <1>1, <2>1
<1>4. ASSUME NEW x PROVE Contains(Tail(q), x) <=> x # e /\ Contains(q, x)
  <2>1. ASSUME NEW i \in 1 .. Len(q), q[i] = x, x # e
        PROVE  \E j \in 1 .. Len(q) - 1 : Tail(q)[j] = x
    <3>1. i - 1 \in 1 .. Len(q) - 1 /\ (i - 1) + 1 = i
      BY <1>1, <2>1
    <3>2. QED
      BY <1>2, <2>1, <3>1
  <2>2. ASSUME NEW i \in 1 .. Len(q) - 1, Tail(q)[i] = x
        PROVE  x # e /\ \E j \in 1 .. Len(q) : q[j] = x
    <3>1. i + 1 \in 1 .. Len(q) /\ 1 \in 1 .. Len(q) /\ i + 1 # 1 /\ q[i + 1] = x
      BY <1>1, <1>2, <2>2
    <3>2. QED
      BY <1>1, <3>1
  <2>3. QED
    BY <1>2, <2>1, <2>2 DEF Contains
<1>5. QED
  BY <1>2, <1>3, <1>4

--------------------------------------------------------------------------------
(* The same of the queues of all sessions, when one of them changes. *)

LEMMA QueueLeft ==
    ASSUME TypeOK, QueuesAreLines, NEW s \in Session, NEW e \in Client,
           queue' = [queue EXCEPT ![s] = RemoveFirst(@, e)]
    PROVE  /\ queue' \in [Session -> Seq(Client)]
           /\ QueuesAreLines'
           /\ \A r \in Session, x \in Client :
                Contains(queue'[r], x) <=> Contains(queue[r], x) /\ ~ (x = e /\ r = s)
<1>1. /\ queue \in [Session -> Seq(Client)]
      /\ \A i, j \in 1 .. Len(queue[s]) : queue[s][i] = queue[s][j] => i = j
  BY DEF TypeOK, QueuesAreLines, Client
<1>2. PICK q \in Seq(Client) :
        /\ q = RemoveFirst(queue[s], e)
        /\ ~ Contains(q, e)
        /\ \A x : x # e => (Contains(q, x) <=> Contains(queue[s], x))
        /\ \A i, j \in 1 .. Len(q) : q[i] = q[j] => i = j
  <2>1. queue[s] \in Seq(Client)
    BY <1>1
  <2>2. QED
    BY <1>1, <2>1, RemoveFirstEffect
<1>3. queue' = [queue EXCEPT ![s] = q]
  BY <1>2
<1> HIDE DEF Client
<1>4. QED
  BY <1>1, <1>2, <1>3 DEF QueuesAreLines

LEMMA QueueJoined ==
    ASSUME TypeOK, QueuesAreLines, NEW s \in Session, NEW e \in Client,
           ~ Contains(queue[s], e), queue' = [queue EXCEPT ![s] = Append(@, e)]
    PROVE  /\ queue' \in [Session -> Seq(Client)]
           /\ QueuesAreLines'
           /\ \A r \in Session, x \in Client :
                Contains(queue'[r], x) <=> Contains(queue[r], x) \/ (x = e /\ r = s)
<1>1. /\ queue \in [Session -> Seq(Client)]
      /\ \A i, j \in 1 .. Len(queue[s]) : queue[s][i] = queue[s][j] => i = j
  BY DEF TypeOK, QueuesAreLines, Client
<1>2. PICK q \in Seq(Client) :
        /\ q = Append(queue[s], e)
        /\ \A x : Contains(q, x) <=> x = e \/ Contains(queue[s], x)
        /\ \A i, j \in 1 .. Len(q) : q[i] = q[j] => i = j
  <2>1. queue[s] \in Seq(Client)
    BY <1>1
  <2>2. QED
    BY <1>1, <2>1, AppendEffect, ZenonT(60)
<1>3. queue' = [queue EXCEPT ![s] = q]
  BY <1>2
<1>4. QED
  BY <1>1, <1>2, <1>3 DEF QueuesAreLines

LEMMA QueueServed ==
    ASSUME TypeOK, QueuesAreLines, NEW s \in Session, NEW e \in Client,
           Contains(queue[s], e), Head(queue[s]) = e,
           queue' = [queue EXCEPT ![s] = Tail(@)]
    PROVE  /\ queue' \in [Session -> Seq(Client)]
           /\ QueuesAreLines'
           /\ \A r \in Session, x \in Client :
                Contains(queue'[r], x) <=> Contains(queue[r], x) /\ ~ (x = e /\ r = s)
<1>1. /\ queue \in [Session -> Seq(Client)]
      /\ \A i, j \in 1 .. Len(queue[s]) : queue[s][i] = queue[s][j] => i = j
  BY DEF TypeOK, QueuesAreLines, Client
<1>2. PICK q \in Seq(Client) :
        /\ q = Tail(queue[s])
        /\ \A x : Contains(q, x) <=> x # e /\ Contains(queue[s], x)
        /\ \A i, j \in 1 .. Len(q) : q[i] = q[j] => i = j
  <2>1. queue[s] \in Seq(Client)
    BY <1>1
  <2>2. QED
    BY <1>1, <2>1, TailEffect
<1>3. queue' = [queue EXCEPT ![s] = q]
  BY <1>2
<1>4. QED
  BY <1>1, <1>2, <1>3 DEF QueuesAreLines

--------------------------------------------------------------------------------
(* Steps. *)

USE TurnsAreForeground, NamesAreDistinct DEF Generation, Run, TaskDone, Client

\* The invariant holds before anything was sent.
LEMMA TurnsIndInvInit == Init => TurnsIndInv
<1> SUFFICES ASSUME Init PROVE TurnsIndInv
  OBVIOUS
<1>1. GuardIndInv /\ GuardTypeOK
  BY GuardIndInvInit DEF Init, GuardIndInv
<1>2. \A x : ~ Contains(<<>>, x)
  BY DEF Contains
<1>3. TypeOK
  <2>1. /\ queue \in [Session -> Seq(Turn \cup Compaction)]
        /\ ended \in [Turn -> Seq(Outcome)]
    BY EmptySeq DEF Init
  <2>2. configured \in [Turn -> Generation] /\ client \in [Turn -> Generation]
    BY GenerationBound DEF Init
  <2>3. QED
    BY <1>1, <2>1, <2>2 DEF Init, TypeOK, TurnPhase
<1>4. QueuesAreLines /\ TurnPlaces /\ TurnRuntime /\ TurnOutcome /\ CompactionPlaces
      /\ AbortTargets
  BY <1>2 DEF Init, GuardInit, QueuesAreLines, TurnPlaces, TurnRuntime, TurnOutcome,
              CompactionPlaces, AbortTargets
<1>5. QED
  BY <1>1, <1>3, <1>4 DEF TurnsIndInv

\* A step that leaves the guard alone keeps what is known of it.
LEMMA GuardUnmoved ==
    ASSUME GuardIndInv, UNCHANGED guardVars
    PROVE  GuardIndInv' /\ GuardTypeOK'
BY GuardTypeStep, GuardIndInvStep DEF GuardIndInv

\* chat_send: the session was free, so no other turn is on it.
LEMMA ChatSendKeeps ==
    ASSUME TurnsIndInv, NEW t \in Turn, NEW s \in Session, ChatSend(t, s)
    PROVE  TurnsIndInv'
<1> USE DEF TurnsIndInv, ChatSend
<1>1. GuardIndInv' /\ GuardTypeOK'
  BY GuardUnmoved
<1>2. TypeOK' /\ AbortTargets'
  BY <1>1 DEF TypeOK, AbortTargets, abortVars, closeVars, compactVars, TurnPhase
<1>3. QueuesAreLines' /\ CompactionPlaces'
  BY DEF QueuesAreLines, CompactionPlaces, compactVars
<1>4. TurnPlaces'
  BY DEF TurnPlaces, TypeOK
<1>5. TurnRuntime' /\ TurnOutcome'
  BY DEF TurnRuntime, TurnOutcome, TypeOK, guardVars
<1>6. QED
  BY <1>1, <1>2, <1>3, <1>4, <1>5

\* A channel adapter raises: the session and the registry keep the turn.
LEMMA TurnCrashesKeeps ==
    ASSUME TurnsIndInv, NEW t \in Turn, TurnCrashes(t)
    PROVE  TurnsIndInv'
<1> USE DEF TurnsIndInv, TurnCrashes
<1>1. GuardIndInv' /\ GuardTypeOK'
  BY GuardUnmoved
<1>2. TypeOK' /\ AbortTargets'
  BY <1>1 DEF TypeOK, AbortTargets, abortVars, closeVars, compactVars, TurnPhase
<1>3. QueuesAreLines' /\ CompactionPlaces'
  BY DEF QueuesAreLines, CompactionPlaces, compactVars
<1>4. TurnPlaces'
  BY DEF TurnPlaces, TypeOK
<1>5. TurnRuntime' /\ TurnOutcome'
  BY DEF TurnRuntime, TurnOutcome, TypeOK, guardVars
<1>6. QED
  BY <1>1, <1>2, <1>3, <1>4, <1>5

\* The end of a turn, from wherever it is: its places are given up together.
LEMMA EndTurnKeeps ==
    ASSUME TurnsIndInv, NEW t \in Turn, turn[t] \in {"created", "waiting", "running"},
           NEW p \in {"finished", "exiting"}, turn' = [turn EXCEPT ![t] = p],
           NEW o \in Outcome, EndTurn(t, o)
    PROVE  TurnsIndInv'
<1> USE DEF TurnsIndInv
<1>1. /\ t \in registry /\ session[t] \in Session /\ active[session[t]] = t
      /\ ended[t] = <<>>
  BY DEF TurnPlaces, TurnOutcome, TypeOK
<1>2. /\ readers' = [g \in Generation |-> readers[g] \ {t}]
      /\ UNCHANGED <<runtime, built, writer, schedulers, recovering, closed, phase, old, new>>
  BY DEF EndTurn, LeaveReader
<1>3. GuardTypeOK'
  BY <1>2 DEF GuardIndInv, GuardTypeOK
<1>4. GuardIndInv'
  BY <1>2, <1>3, FewerReadersKeepInv
<1>5. queue' = [queue EXCEPT ![session[t]] = RemoveFirst(@, t)]
  BY DEF EndTurn, ReleaseLock
<1>8. /\ queue' \in [Session -> Seq(Client)]
      /\ QueuesAreLines'
      /\ \A s \in Session, x \in Client :
            Contains(queue'[s], x) <=> Contains(queue[s], x) /\ ~ (x = t /\ s = session[t])
  BY <1>1, <1>5, QueueLeft
<1>9. /\ holder' \in [Session -> Turn \cup Compaction \cup {Nobody}]
      /\ \A s \in Session, x \in Turn \cup Compaction :
            holder'[s] = x <=> holder[s] = x /\ ~ (x = t /\ s = session[t])
  BY <1>1 DEF EndTurn, ReleaseLock, TypeOK
<1>10. /\ active' \in [Session -> Turn \cup {NoTurn}]
       /\ \A s \in Session, x \in Turn :
            active'[s] = x <=> active[s] = x /\ ~ (x = t /\ s = session[t])
       /\ registry' = registry \ {t}
  BY <1>1 DEF EndTurn, ClearActive, TypeOK
<1>11. /\ ended' = [ended EXCEPT ![t] = <<o>>]
       /\ ended' \in [Turn -> Seq(Outcome)]
  <2>1. Append(ended[t], o) = <<o>>
    BY <1>1
  <2>2. <<o>> \in Seq(Outcome)
    OBVIOUS
  <2>3. QED
    BY <2>1, <2>2 DEF EndTurn, Emit, TypeOK
<1>12. /\ UNCHANGED <<session, configured, client, abortVars, closeVars, compactVars>>
       /\ thinkingQueued' \in BOOLEAN
       /\ cancelled' \in SUBSET Turn /\ interrupted' \in SUBSET Turn
  BY DEF EndTurn, FlushThinking, TypeOK
<1>13. TypeOK' /\ AbortTargets'
  BY <1>3, <1>8, <1>9, <1>10, <1>11, <1>12
     DEF TypeOK, AbortTargets, abortVars, closeVars, compactVars, TurnPhase
<1>14. TurnPlaces'
  BY <1>1, <1>8, <1>9, <1>10, <1>12 DEF TurnPlaces, TypeOK
<1>15. TurnRuntime'
  BY <1>2, <1>12 DEF TurnRuntime, TypeOK
<1>16. TurnOutcome'
  BY <1>11 DEF TurnOutcome, TypeOK
<1>17. CompactionPlaces'
  <2>1. UNCHANGED <<compaction, compacts>>
    BY <1>12 DEF compactVars
  <2>2. \A k \in Compaction, s \in Session :
          /\ holder'[s] = k <=> holder[s] = k
          /\ Contains(queue'[s], k) <=> Contains(queue[s], k)
    BY <1>8, <1>9
  <2>3. QED
    BY <2>1, <2>2 DEF CompactionPlaces
<1>18. QED
  BY <1>4, <1>8, <1>13, <1>14, <1>15, <1>16, <1>17

\* The ends of a turn.
LEMMA TurnEndsKeep ==
    ASSUME TurnsIndInv, NEW t \in Turn,
           TurnRefused(t) \/ TurnReturns(t) \/ TurnInterrupted(t)
    PROVE  TurnsIndInv'
<1>1. CASE TurnRefused(t)
  BY <1>1, EndTurnKeeps DEF TurnRefused, Outcome
<1>2. CASE TurnReturns(t)
  BY <1>2, EndTurnKeeps DEF TurnReturns, Leaves, Outcome
<1>3. CASE TurnInterrupted(t)
  BY <1>3, EndTurnKeeps DEF TurnInterrupted, Leaves, Outcome
<1>4. QED
  BY <1>1, <1>2, <1>3

\* The turn enters the guard of the current runtime, and takes the lock or waits.
LEMMA TurnBeginsKeeps ==
    ASSUME TurnsIndInv, NEW t \in Turn, TurnBegins(t)
    PROVE  TurnsIndInv'
<1> DEFINE s == session[t]
<1> USE DEF TurnsIndInv
<1>1. /\ s \in Session /\ turn[t] = "created" /\ ~ Contains(queue[s], t)
      /\ runtime \in Generation
  BY DEF TurnBegins, TurnPlaces, TypeOK, GuardTypeOK
<1>2. EnterGuard(t, runtime)
  BY DEF TurnBegins, Enter
<1>3. GuardTypeOK' /\ GuardIndInv'
  <2>1. GuardNext
    BY DEF TurnBegins, GuardNext
  <2>2. QED
    BY <2>1, GuardTypeStep, GuardIndInvStep DEF GuardIndInv
<1>4. /\ UNCHANGED runtime
      /\ \A u \in Turn, g \in Generation :
            u \in readers'[g] <=> u \in readers[g] \/ (u = t /\ g = runtime)
  BY <1>1, <1>2 DEF EnterGuard, GuardIndInv, GuardTypeOK
<1>5. CASE holder[s] = Nobody /\ queue[s] = <<>>
  <2>1. /\ holder' = [holder EXCEPT ![s] = t]
        /\ client' = [client EXCEPT ![t] = runtime]
        /\ turn' = [turn EXCEPT ![t] = "running"]
        /\ configured' = [configured EXCEPT ![t] = runtime]
        /\ UNCHANGED <<queue, active, session, cancelled, interrupted, registry, ended,
                       thinkingQueued, abortVars, closeVars, compactVars>>
    BY <1>5 DEF TurnBegins
  <2>2. TypeOK' /\ AbortTargets'
    BY <1>1, <1>3, <2>1 DEF TypeOK, AbortTargets, abortVars, closeVars, compactVars, TurnPhase
  <2>3. QueuesAreLines' /\ TurnOutcome'
    BY <1>1, <2>1 DEF QueuesAreLines, TurnOutcome, TypeOK
  <2>4. CompactionPlaces'
    BY <1>1, <1>5, <2>1 DEF CompactionPlaces, compactVars, TypeOK
  <2>5. TurnPlaces'
    BY <1>1, <1>5, <2>1 DEF TurnPlaces, TypeOK
  <2>6. TurnRuntime'
    BY <1>1, <1>4, <2>1 DEF TurnRuntime, TypeOK
  <2>7. QED
    BY <1>3, <2>2, <2>3, <2>4, <2>5, <2>6
<1>6. CASE ~ (holder[s] = Nobody /\ queue[s] = <<>>)
  <2>1. /\ queue' = [queue EXCEPT ![s] = Append(@, t)]
        /\ turn' = [turn EXCEPT ![t] = "waiting"]
        /\ configured' = [configured EXCEPT ![t] = runtime]
        /\ UNCHANGED <<holder, client, active, session, cancelled, interrupted, registry,
                       ended, thinkingQueued, abortVars, closeVars, compactVars>>
    BY <1>6 DEF TurnBegins
  <2>2. /\ queue' \in [Session -> Seq(Client)]
        /\ QueuesAreLines'
        /\ \A r \in Session, x \in Client :
              Contains(queue'[r], x) <=> Contains(queue[r], x) \/ (x = t /\ r = s)
    BY <1>1, <2>1, QueueJoined
  <2>3. TypeOK' /\ AbortTargets'
    BY <1>1, <1>3, <2>1, <2>2 DEF TypeOK, AbortTargets, abortVars, closeVars, compactVars, TurnPhase
  <2>4. QueuesAreLines' /\ TurnOutcome'
    BY <1>1, <2>1, <2>2 DEF QueuesAreLines, TurnOutcome, TypeOK
  <2>5. CompactionPlaces'
    BY <1>1, <2>1, <2>2 DEF CompactionPlaces, compactVars, TypeOK
  <2>6. TurnPlaces'
    BY <1>1, <2>1, <2>2 DEF TurnPlaces, TypeOK
  <2>7. TurnRuntime'
    BY <1>1, <1>4, <2>1, ZenonT(60) DEF TurnRuntime, TypeOK
  <2>8. QED
    BY <1>3, <2>3, <2>4, <2>5, <2>6, <2>7
<1>7. QED
  BY <1>5, <1>6

\* session.lock is granted to the head of the queue: no update can have come in
\* between, the waiting turn is a reader.
LEMMA TurnGetsLockKeeps ==
    ASSUME TurnsIndInv, NEW t \in Turn, TurnGetsLock(t)
    PROVE  TurnsIndInv'
<1> DEFINE s == session[t]
<1> USE DEF TurnsIndInv
<1>1. /\ s \in Session /\ turn[t] = "waiting" /\ Contains(queue[s], t)
      /\ Head(queue[s]) = t /\ holder[s] = Nobody /\ runtime \in Generation
  BY DEF TurnGetsLock, TurnPlaces, TypeOK, GuardTypeOK
<1>2. GuardIndInv' /\ GuardTypeOK'
  BY GuardUnmoved DEF TurnGetsLock
<1>3. /\ queue' = [queue EXCEPT ![s] = Tail(@)]
      /\ holder' = [holder EXCEPT ![s] = t]
      /\ client' = [client EXCEPT ![t] = runtime]
      /\ turn' = [turn EXCEPT ![t] = "running"]
      /\ UNCHANGED <<guardVars, active, session, cancelled, interrupted, registry,
                     ended, configured, thinkingQueued, abortVars, closeVars, compactVars>>
  BY DEF TurnGetsLock
<1>4. /\ queue' \in [Session -> Seq(Client)]
      /\ QueuesAreLines'
      /\ \A r \in Session, x \in Client :
            Contains(queue'[r], x) <=> Contains(queue[r], x) /\ ~ (x = t /\ r = s)
  BY <1>1, <1>3, QueueServed
<1>5. TypeOK' /\ AbortTargets'
  BY <1>1, <1>2, <1>3, <1>4 DEF TypeOK, AbortTargets, abortVars, closeVars, compactVars, TurnPhase
<1>6. CompactionPlaces'
  BY <1>1, <1>3, <1>4 DEF CompactionPlaces, compactVars, TypeOK
<1>7. TurnPlaces'
  BY <1>1, <1>3, <1>4 DEF TurnPlaces, TypeOK
<1>8. TurnRuntime' /\ TurnOutcome'
  BY <1>1, <1>3 DEF TurnRuntime, TurnOutcome, TypeOK, guardVars
<1>9. QED
  BY <1>2, <1>4, <1>5, <1>6, <1>7, <1>8

\* A step that moves no place: a token, a flag, the program counter of an abort or
\* of aclose, the end of a task whose turn is over.
LEMMA PlacesUnmoved ==
    ASSUME TurnsIndInv, TypeOK', AbortTargets',
           UNCHANGED <<guardVars, active, holder, queue, session, registry, ended,
                       configured, client, compactVars>>,
           \A t \in Turn : \/ turn'[t] = turn[t]
                           \/ turn[t] = "exiting" /\ turn'[t] = "finished"
    PROVE  TurnsIndInv'
<1> USE DEF TurnsIndInv
<1>1. GuardIndInv'
  BY GuardUnmoved
<1>2. QueuesAreLines' /\ CompactionPlaces'
  BY DEF QueuesAreLines, CompactionPlaces, compactVars
<1>3. TurnPlaces' /\ TurnOutcome'
  BY DEF TurnPlaces, TurnOutcome
<1>4. TurnRuntime'
  BY DEF TurnRuntime, guardVars
<1>5. QED
  BY <1>1, <1>2, <1>3, <1>4

\* The steps of a turn that PlacesUnmoved covers.
LEMMA TurnFlagsKeep ==
    ASSUME TurnsIndInv, NEW t \in Turn,
           QueueThinking(t) \/ ExitDispatched(t) \/ AbortSelf(t)
    PROVE  TurnsIndInv'
<1> USE DEF TurnsIndInv, TypeOK, AbortTargets, abortVars, closeVars, compactVars, TurnPhase, guardVars,
            GuardTypeOK
<1>1. CASE QueueThinking(t)
  BY <1>1, PlacesUnmoved DEF QueueThinking
<1>2. CASE ExitDispatched(t)
  BY <1>2, PlacesUnmoved DEF ExitDispatched
<1>3. CASE AbortSelf(t)
  BY <1>3, PlacesUnmoved DEF AbortSelf
<1>4. QED
  BY <1>1, <1>2, <1>3

\* chat_abort.
LEMMA AbortKeeps ==
    ASSUME TurnsIndInv, NEW a \in Abort, AbortStep(a)
    PROVE  TurnsIndInv'
<1> USE DEF TurnsIndInv, TypeOK, AbortTargets, turnVars, closeVars, compactVars, guardVars, GuardTypeOK
<1>1. ASSUME NEW t \in Turn, AbortCall(a, t) PROVE TurnsIndInv'
  BY <1>1, PlacesUnmoved DEF AbortCall
<1>2. CASE AbortResumes(a)
  <2>1. interrupted' \in SUBSET Turn
    BY <1>2 DEF AbortResumes
  <2>2. QED
    BY <1>2, <2>1, PlacesUnmoved DEF AbortResumes
<1>3. CASE AbortReturns(a)
  BY <1>3, PlacesUnmoved DEF AbortReturns
<1>4. QED
  BY <1>1, <1>2, <1>3 DEF AbortStep

\* aclose.
LEMMA CloseKeeps ==
    ASSUME TurnsIndInv, CloseStep
    PROVE  TurnsIndInv'
<1> USE DEF TurnsIndInv, TypeOK, AbortTargets, turnVars, abortVars, compactVars, closeVars, guardVars,
            GuardTypeOK
<1>1. CASE CloseStarts
  BY <1>1, PlacesUnmoved DEF CloseStarts
<1>2. ASSUME NEW t \in Turn, CloseWaits(t) \/ CloseTimesOut(t) \/ CloseGoesOn(t)
      PROVE  TurnsIndInv'
  <2>1. CASE CloseWaits(t)
    BY <2>1, PlacesUnmoved DEF CloseWaits
  <2>2. CASE CloseTimesOut(t)
    BY <2>2, PlacesUnmoved DEF CloseTimesOut
  <2>3. CASE CloseGoesOn(t)
    BY <2>3, PlacesUnmoved DEF CloseGoesOn
  <2>4. QED
    BY <1>2, <2>1, <2>2, <2>3
<1>3. CASE CloseReturns
  BY <1>3, PlacesUnmoved DEF CloseReturns
<1>4. QED
  BY <1>1, <1>2, <1>3 DEF CloseStep

\* A step of sessions_compact moves its own place only.
LEMMA CompactionMoved ==
    ASSUME TurnsIndInv, TypeOK', QueuesAreLines', CompactionPlaces', AbortTargets',
           UNCHANGED <<guardVars, active, turn, session, registry, ended, configured, client>>,
           \A t \in Turn, s \in Session :
                /\ holder'[s] = t <=> holder[s] = t
                /\ Contains(queue'[s], t) <=> Contains(queue[s], t)
    PROVE  TurnsIndInv'
<1> USE DEF TurnsIndInv
<1>1. GuardIndInv'
  BY GuardUnmoved
<1>2. TurnPlaces' /\ TurnOutcome'
  BY DEF TurnPlaces, TurnOutcome
<1>3. TurnRuntime'
  BY DEF TurnRuntime, guardVars
<1>4. QED
  BY <1>1, <1>2, <1>3

LEMMA CompactCallKeeps ==
    ASSUME TurnsIndInv, NEW k \in Compaction, NEW s \in Session, CompactCall(k, s)
    PROVE  TurnsIndInv'
<1> USE DEF TurnsIndInv
<1>1. /\ compaction[k] = "uncalled" /\ compacts[k] = NoSession
      /\ ~ Contains(queue[s], k)
      /\ \A r \in Session : holder[r] # k /\ ~ Contains(queue[r], k)
  BY DEF CompactCall, CompactionPlaces
<1>2. /\ compacts' = [compacts EXCEPT ![k] = s]
      /\ UNCHANGED <<guardVars, active, turn, session, cancelled, interrupted, registry,
                     ended, configured, client, thinkingQueued, abortVars, closeVars>>
  BY DEF CompactCall
<1>3. GuardTypeOK'
  BY <1>2, GuardUnmoved
<1>4. CASE holder[s] = Nobody /\ queue[s] = <<>>
  <2>1. /\ holder' = [holder EXCEPT ![s] = k]
        /\ compaction' = [compaction EXCEPT ![k] = "running"]
        /\ UNCHANGED queue
    BY <1>4 DEF CompactCall
  <2>2. TypeOK' /\ QueuesAreLines' /\ AbortTargets'
    BY <1>2, <1>3, <2>1 DEF TypeOK, AbortTargets, QueuesAreLines, abortVars, closeVars
  <2>3. CompactionPlaces'
    BY <1>1, <1>2, <1>4, <2>1 DEF CompactionPlaces, TypeOK
  <2>4. \A t \in Turn, r \in Session :
            /\ holder'[r] = t <=> holder[r] = t
            /\ Contains(queue'[r], t) <=> Contains(queue[r], t)
    BY <1>4, <2>1 DEF TypeOK
  <2>5. QED
    BY <1>2, <2>2, <2>3, <2>4, CompactionMoved
<1>5. CASE ~ (holder[s] = Nobody /\ queue[s] = <<>>)
  <2>1. /\ queue' = [queue EXCEPT ![s] = Append(@, k)]
        /\ compaction' = [compaction EXCEPT ![k] = "waiting"]
        /\ UNCHANGED holder
    BY <1>5 DEF CompactCall
  <2>2. /\ queue' \in [Session -> Seq(Client)]
        /\ QueuesAreLines'
        /\ \A r \in Session, x \in Client :
              Contains(queue'[r], x) <=> Contains(queue[r], x) \/ (x = k /\ r = s)
    BY <1>1, <2>1, QueueJoined
  <2>3. TypeOK' /\ AbortTargets'
    BY <1>2, <1>3, <2>1, <2>2 DEF TypeOK, AbortTargets, abortVars, closeVars
  <2>4. CompactionPlaces'
    BY <1>1, <1>2, <2>1, <2>2 DEF CompactionPlaces, TypeOK
  <2>5. QED
    BY <1>2, <2>1, <2>2, <2>3, <2>4, CompactionMoved
<1>6. QED
  BY <1>4, <1>5

LEMMA CompactGetsLockKeeps ==
    ASSUME TurnsIndInv, NEW k \in Compaction, CompactGetsLock(k)
    PROVE  TurnsIndInv'
<1> DEFINE s == compacts[k]
<1> USE DEF TurnsIndInv
<1>1. /\ s \in Session /\ compaction[k] = "waiting" /\ Contains(queue[s], k)
      /\ Head(queue[s]) = k /\ holder[s] = Nobody
  BY DEF CompactGetsLock, CompactionPlaces, TypeOK
<1>2. /\ queue' = [queue EXCEPT ![s] = Tail(@)]
      /\ holder' = [holder EXCEPT ![s] = k]
      /\ compaction' = [compaction EXCEPT ![k] = "running"]
      /\ UNCHANGED <<guardVars, active, turn, session, cancelled, interrupted, registry,
                     ended, configured, client, thinkingQueued, abortVars, closeVars,
                     compacts>>
  BY DEF CompactGetsLock
<1>3. /\ queue' \in [Session -> Seq(Client)]
      /\ QueuesAreLines'
      /\ \A r \in Session, x \in Client :
            Contains(queue'[r], x) <=> Contains(queue[r], x) /\ ~ (x = k /\ r = s)
  BY <1>1, <1>2, QueueServed
<1>4. TypeOK' /\ AbortTargets'
  BY <1>2, <1>3, GuardUnmoved DEF TypeOK, AbortTargets, abortVars, closeVars
<1>5. CompactionPlaces'
  BY <1>1, <1>2, <1>3 DEF CompactionPlaces, TypeOK
<1>6. \A t \in Turn, r \in Session : holder'[r] = t <=> holder[r] = t
  BY <1>1, <1>2 DEF TypeOK
<1>7. QED
  BY <1>2, <1>3, <1>4, <1>5, <1>6, CompactionMoved

LEMMA CompactEndsKeeps ==
    ASSUME TurnsIndInv, NEW k \in Compaction, CompactEnds(k)
    PROVE  TurnsIndInv'
<1> DEFINE s == compacts[k]
<1> USE DEF TurnsIndInv
<1>1. s \in Session /\ compaction[k] = "running" /\ holder[s] = k
  BY DEF CompactEnds, CompactionPlaces, TypeOK
<1>2. /\ holder' = [holder EXCEPT ![s] = Nobody]
      /\ compaction' = [compaction EXCEPT ![k] = "finished"]
      /\ UNCHANGED <<guardVars, active, queue, turn, session, cancelled, interrupted,
                     registry, ended, configured, client, thinkingQueued, abortVars,
                     closeVars, compacts>>
  BY DEF CompactEnds
<1>3. TypeOK' /\ QueuesAreLines' /\ AbortTargets'
  BY <1>2, GuardUnmoved DEF TypeOK, AbortTargets, QueuesAreLines, abortVars, closeVars
<1>4. CompactionPlaces'
  BY <1>1, <1>2 DEF CompactionPlaces, TypeOK
<1>5. \A t \in Turn, r \in Session : holder'[r] = t <=> holder[r] = t
  BY <1>1, <1>2 DEF TypeOK
<1>6. QED
  BY <1>2, <1>3, <1>4, <1>5, CompactionMoved

\* Cron jobs and updates: they move no turn, and the swap waits until no turn is
\* in the guard of the runtime it replaces.
LEMMA GuardStepKeeps ==
    ASSUME TurnsIndInv, GuardStep
    PROVE  TurnsIndInv'
<1> USE DEF TurnsIndInv
<1>1. UNCHANGED <<turnVars, abortVars, closeVars, compactVars>>
  BY DEF GuardStep
<1>2. GuardNext
  BY DEF GuardStep, GuardNext
<1>3. GuardTypeOK' /\ GuardIndInv'
  BY <1>2, GuardTypeStep, GuardIndInvStep DEF GuardIndInv
<1>4. \A t \in Turn, g \in Generation : t \in readers'[g] <=> t \in readers[g]
  <2> USE RunsAreDistinct DEF GuardIndInv, GuardTypeOK
  <2>1. ASSUME NEW r \in CronRun, NEW g \in Generation, CronEnter(r, g) \/ Leave(r, g)
        PROVE  \A t \in Turn, h \in Generation : t \in readers'[h] <=> t \in readers[h]
    <3>1. \A h \in Generation : readers'[h] = IF h = g THEN readers'[g] ELSE readers[h]
      BY <2>1 DEF CronEnter, EnterGuard, Leave, LeaveGuard
    <3>2. readers'[g] = readers[g] \cup {r} \/ readers'[g] = readers[g] \ {r}
      BY <2>1 DEF CronEnter, EnterGuard, Leave, LeaveGuard
    <3>3. r \notin Turn
      OBVIOUS
    <3>4. QED
      BY <3>1, <3>2, <3>3
  <2>2. ASSUME NEW g \in Generation, RecoveryDone(g)
        PROVE  \A t \in Turn, h \in Generation : t \in readers'[h] <=> t \in readers[h]
    BY <2>2 DEF RecoveryDone
  <2>3. ASSUME NEW u \in Update, UpdateStep(u)
        PROVE  \A t \in Turn, h \in Generation : t \in readers'[h] <=> t \in readers[h]
    <3>1. CASE UpdateStopsScheduler(u)
      <4>1. PICK h \in Generation : StopScheduler(h)
        BY <3>1 DEF UpdateStopsScheduler
      <4>2. QED
        BY <4>1 DEF StopScheduler
    <3>2. CASE ~ UpdateStopsScheduler(u)
      BY <2>3, <3>2 DEF UpdateStep, UpdateStart, UpdateSwap, UpdateReject, UpdateRestarted,
                        UpdateClosesClient
    <3>3. QED
      BY <3>1, <3>2
  <2>4. QED
    BY <2>1, <2>2, <2>3 DEF GuardStep
<1>5. \/ UNCHANGED runtime
      \/ readers[runtime] = {}
  <2>1. ASSUME NEW u \in Update, UpdateSwap(u) PROVE readers[runtime] = {}
    <3>1. phase[u] = "building" /\ writer[old[u]] = u /\ old[u] = runtime
      BY <2>1 DEF UpdateSwap, GuardIndInv, GuardInv, WriterIsItsUpdate, UpdatesInOrder, Builds
    <3>2. QED
      BY <3>1, NoUpdateIsNoUpdate DEF GuardIndInv, WriterExcludesReaders, GuardTypeOK
  <2>2. QED
    BY <2>1 DEF GuardStep, CronEnter, EnterGuard, Leave, LeaveGuard, RecoveryDone, UpdateStep,
                UpdateStart, UpdateReject, UpdateRestarted, UpdateStopsScheduler,
                UpdateClosesClient
<1>6. TypeOK' /\ AbortTargets'
  BY <1>1, <1>3 DEF TypeOK, AbortTargets, turnVars, abortVars, closeVars, compactVars
<1>7. QueuesAreLines' /\ TurnPlaces' /\ TurnOutcome' /\ CompactionPlaces'
  BY <1>1 DEF QueuesAreLines, TurnPlaces, TurnOutcome, CompactionPlaces, turnVars, compactVars
<1>8. TurnRuntime'
  <2>1. UNCHANGED <<turn, configured, client>>
    BY <1>1 DEF turnVars
  <2>2. runtime \in Generation
    BY DEF GuardIndInv, GuardTypeOK
  <2>3. ASSUME NEW t \in Turn, turn[t] \in {"waiting", "running"} PROVE UNCHANGED runtime
    BY <1>5, <2>2, <2>3 DEF TurnRuntime
  <2>4. QED
    BY <1>4, <2>1, <2>3 DEF TurnRuntime
<1>9. QED
  BY <1>3, <1>6, <1>7, <1>8

--------------------------------------------------------------------------------
(* Theorems. *)

\* Every step of every actor keeps the invariant.
LEMMA TurnsIndInvStep == TurnsIndInv /\ [Next]_vars => TurnsIndInv'
<1> SUFFICES ASSUME TurnsIndInv, [Next]_vars PROVE TurnsIndInv'
  OBVIOUS
<1>1. ASSUME NEW t \in Turn, TurnStep(t) PROVE TurnsIndInv'
  BY <1>1, ChatSendKeeps, TurnCrashesKeeps, TurnEndsKeep, TurnBeginsKeeps, TurnGetsLockKeeps,
     TurnFlagsKeep DEF TurnStep
<1>2. ASSUME NEW k \in Compaction, CompactStep(k) PROVE TurnsIndInv'
  BY <1>2, CompactCallKeeps, CompactGetsLockKeeps, CompactEndsKeeps DEF CompactStep
<1>3. CASE UNCHANGED vars
  <2>1. TypeOK' /\ AbortTargets'
    BY <1>3, GuardUnmoved
       DEF TurnsIndInv, TypeOK, AbortTargets, vars, turnVars, abortVars, closeVars, compactVars
  <2>2. QED
    BY <1>3, <2>1, PlacesUnmoved DEF vars, turnVars
<1>4. QED
  BY <1>1, <1>2, <1>3, AbortKeeps, CloseKeeps, GuardStepKeeps DEF Next

LEMMA TurnsInvariant == Spec => []TurnsIndInv
BY TurnsIndInvInit, TurnsIndInvStep, PTL DEF Spec

\* The registry, the sessions, their locks, the guard and the tasks agree about
\* every turn, and a turn works with the tools, configuration and client of one
\* runtime, whatever turns, aborts, compactions, updates and aclose do.
THEOREM TurnsSafe == Spec => []TurnsAreSound
<1>1. TurnsIndInv => TurnsAreSound
  <2> SUFFICES ASSUME TurnsIndInv PROVE TurnsAreSound
    OBVIOUS
  <2> USE DEF TurnsIndInv
  <2>1. RegistryMirrorsActive
    <3> SUFFICES ASSUME NEW t \in Turn
                 PROVE  t \in registry <=> \E s \in Session : active[s] = t
      BY DEF RegistryMirrorsActive
    <3>1. t \in registry => session[t] \in Session
      <4>1. t \in registry => session[t] # NoSession
        BY DEF TurnPlaces
      <4>2. QED
        BY <4>1 DEF TypeOK
    <3>2. QED
      BY <3>1 DEF TurnPlaces
  <2>2. LocksMatchPhases
    <3> SUFFICES ASSUME NEW t \in Turn
                 PROVE  /\ turn[t] = "running" <=> \E s \in Session : holder[s] = t
                        /\ turn[t] = "waiting" <=> \E s \in Session : Contains(queue[s], t)
                        /\ turn[t] \in {"waiting", "running"} <=> Reading(t)
      BY DEF LocksMatchPhases
    <3>1. turn[t] \in {"waiting", "running"} => session[t] \in Session
      BY DEF TurnPlaces, TypeOK
    <3>2. configured[t] \in Generation
      BY DEF TypeOK
    <3>3. QED
      BY <3>1, <3>2 DEF TurnPlaces, TurnRuntime, Reading
  <2>3. OneRuntimePerTurn
    BY DEF OneRuntimePerTurn, TurnRuntime
  <2>4. QED
    BY <2>1, <2>2, <2>3 DEF TurnsAreSound, TurnsConsistent
<1>2. QED
  BY <1>1, TurnsInvariant, PTL

\* Every step of the backend is a step of TurnService, or none of its business.
LEMMA TurnServiceStep ==
    TurnsIndInv /\ [Next]_vars => [TurnServiceImpl!Next]_(TurnServiceImpl!serviceVars)
<1> SUFFICES ASSUME TurnsIndInv, Next,
                    ~ UNCHANGED <<active, session, ended>>
             PROVE  TurnServiceImpl!Next
  BY DEF TurnServiceImpl!serviceVars, vars, turnVars
<1> USE DEF TurnsIndInv
<1>1. ASSUME NEW t \in Turn, NEW s \in Session, ChatSend(t, s) PROVE TurnServiceImpl!Next
  <2>1. session[t] = NoSession
    BY <1>1 DEF ChatSend, TurnPlaces
  <2>2. TurnServiceImpl!Send(t, s)
    BY <1>1, <2>1 DEF ChatSend, TurnServiceImpl!Send
  <2>3. QED
    BY <2>2 DEF TurnServiceImpl!Next
<1>2. ASSUME NEW t \in Turn, turn[t] \in {"created", "waiting", "running"},
             NEW o \in Outcome, EndTurn(t, o)
      PROVE  TurnServiceImpl!Next
  <2>1. /\ session[t] \in Session /\ active[session[t]] = t /\ ended[t] = <<>>
    BY <1>2 DEF TurnPlaces, TurnOutcome, TypeOK
  <2>2. Append(ended[t], o) = <<o>>
    BY <2>1
  <2>3. TurnServiceImpl!End(t, o)
    BY <1>2, <2>1, <2>2 DEF EndTurn, Emit, ClearActive, TurnServiceImpl!End
  <2>4. QED
    BY <2>3 DEF TurnServiceImpl!Next, TurnServiceImpl!Outcome, Outcome
<1>3. ASSUME NEW t \in Turn, TurnStep(t) PROVE TurnServiceImpl!Next
  <2>1. CASE TurnRefused(t) \/ TurnReturns(t) \/ TurnInterrupted(t)
    BY <1>2, <2>1 DEF TurnRefused, TurnReturns, TurnInterrupted, Outcome
  <2>2. CASE \/ TurnCrashes(t) \/ TurnBegins(t) \/ TurnGetsLock(t) \/ QueueThinking(t)
             \/ ExitDispatched(t) \/ AbortSelf(t)
    BY <2>2 DEF TurnCrashes, TurnBegins, TurnGetsLock, QueueThinking, ExitDispatched, AbortSelf
  <2>3. QED
    BY <1>1, <1>3, <2>1, <2>2 DEF TurnStep
<1>4. ASSUME NEW a \in Abort, AbortStep(a) PROVE FALSE
  BY <1>4 DEF AbortStep, AbortCall, AbortResumes, AbortReturns, turnVars
<1>5. CASE CloseStep
  BY <1>5 DEF CloseStep, CloseStarts, CloseWaits, CloseTimesOut, CloseGoesOn, CloseReturns,
              turnVars
<1>6. ASSUME NEW k \in Compaction, CompactStep(k) PROVE FALSE
  BY <1>6 DEF CompactStep, CompactCall, CompactGetsLock, CompactEnds
<1>7. CASE GuardStep
  BY <1>7 DEF GuardStep, turnVars
<1>8. QED
  BY <1>3, <1>4, <1>5, <1>6, <1>7 DEF Next

\* The backend implements TurnService: one turn in flight per session, one terminal
\* event per turn, and that event frees the session.
THEOREM TurnsImplementService == Spec => ImplementsTurnService
<1>1. Init => TurnServiceImpl!Init
  BY DEF Init, TurnServiceImpl!Init
<1>2. QED
  BY <1>1, TurnsInvariant, TurnServiceStep, PTL
     DEF Spec, ImplementsTurnService, TurnServiceImpl!Spec

--------------------------------------------------------------------------------
(* chat_abort and aclose, while no channel adapter raises (a turn that crashed   *)
(* stays registered for good).                                                   *)

\* A task is cancelled after its first step only, and aclose has yet to wait for
\* every turn that is still registered.
CallsIndInv ==
    /\ \A t \in Turn : turn[t] # "crashed"
    /\ \A t \in interrupted : turn[t] \notin {"unsent", "created"}
    /\ \A a \in Abort : abort[a] # "idle" => turn[target[a]] # "unsent"
    /\ \A t \in Turn : t \in toClose \/ closing = t => turn[t] # "unsent"
    /\ closing # "open" => \A t \in registry : t \in toClose \/ closing = t
    /\ closing = "closed" => toClose = {}

\* The places are those of the invariant above, the calls follow them.
LEMMA CallsIndInvStep ==
    ASSUME ~ DecorateMayFail, TurnsIndInv, CallsIndInv, [Next]_vars
    PROVE  CallsIndInv'
<1> USE DEF CallsIndInv
<1>1. /\ \A t \in registry : turn[t] # "unsent"
      /\ \A t \in Turn : turn[t] \in {"finished", "exiting"} => t \notin registry
      /\ turn \in [Turn -> TurnPhase] /\ registry \subseteq Turn /\ toClose \subseteq Turn
      /\ interrupted \subseteq Turn
      /\ target \in [Abort -> Turn \cup {NoTurn}]
      /\ abort \in [Abort -> {"idle", "yielding", "awaiting"}]
      /\ \A a \in Abort : abort[a] # "idle" => target[a] \in Turn
  BY DEF TurnsIndInv, TurnPlaces, TypeOK, AbortTargets
<1>2. ASSUME NEW t \in Turn, NEW s \in Session, ChatSend(t, s) PROVE CallsIndInv'
  BY <1>1, <1>2 DEF ChatSend, abortVars, closeVars
<1>3. ASSUME NEW t \in Turn, TurnCrashes(t) PROVE FALSE
  BY <1>3 DEF TurnCrashes
<1>4. ASSUME NEW t \in Turn, TurnRefused(t) \/ TurnReturns(t) \/ TurnInterrupted(t)
      PROVE  CallsIndInv'
  <2>1. /\ turn[t] \in {"created", "waiting", "running"}
        /\ \E p \in {"finished", "exiting"} : turn' = [turn EXCEPT ![t] = p]
        /\ registry' = registry \ {t} /\ interrupted' = interrupted \ {t}
        /\ UNCHANGED <<abort, target, closing, toClose>>
    BY <1>4 DEF TurnRefused, TurnReturns, TurnInterrupted, Leaves, EndTurn, ClearActive,
                abortVars, closeVars
  <2>2. QED
    BY <1>1, <2>1
<1>5. ASSUME NEW t \in Turn,
             \/ TurnBegins(t) \/ TurnGetsLock(t) \/ QueueThinking(t) \/ ExitDispatched(t)
             \/ AbortSelf(t)
      PROVE  CallsIndInv'
  <2>1. /\ turn[t] # "unsent"
        /\ \/ UNCHANGED turn
           \/ \E p \in {"waiting", "running", "finished"} : turn' = [turn EXCEPT ![t] = p]
        /\ interrupted' \subseteq interrupted
        /\ UNCHANGED <<registry, abort, target, closing, toClose>>
    BY <1>5 DEF TurnBegins, TurnGetsLock, QueueThinking, ExitDispatched, AbortSelf,
                abortVars, closeVars
  <2>2. QED
    BY <1>1, <2>1
<1>6. ASSUME NEW a \in Abort, AbortStep(a) PROVE CallsIndInv'
  <2>1. ASSUME NEW t \in Turn, AbortCall(a, t) PROVE CallsIndInv'
    BY <1>1, <2>1 DEF AbortCall, closeVars
  <2>2. CASE AbortResumes(a)
    BY <1>1, <2>2 DEF AbortResumes, closeVars
  <2>3. CASE AbortReturns(a)
    BY <1>1, <2>3 DEF AbortReturns, turnVars, closeVars
  <2>4. QED
    BY <1>6, <2>1, <2>2, <2>3 DEF AbortStep
<1>7. CASE CloseStarts
  BY <1>1, <1>7 DEF CloseStarts, abortVars
<1>8. ASSUME NEW t \in Turn, CloseWaits(t) \/ CloseTimesOut(t) \/ CloseGoesOn(t)
      PROVE  CallsIndInv'
  <2>1. CASE CloseWaits(t)
    BY <1>1, <2>1 DEF CloseWaits, turnVars, abortVars
  <2>2. CASE CloseTimesOut(t)
    BY <1>1, <2>2 DEF CloseTimesOut, abortVars, closeVars
  <2>3. CASE CloseGoesOn(t)
    BY <1>1, <2>3 DEF CloseGoesOn, turnVars, abortVars
  <2>4. QED
    BY <1>8, <2>1, <2>2, <2>3
<1>9. CASE CloseReturns
  BY <1>1, <1>9 DEF CloseReturns, turnVars, abortVars
<1>10. ASSUME NEW k \in Compaction, CompactStep(k) PROVE CallsIndInv'
  BY <1>10 DEF CompactStep, CompactCall, CompactGetsLock, CompactEnds, abortVars, closeVars
<1>11. CASE GuardStep \/ UNCHANGED vars
  BY <1>11 DEF GuardStep, vars, turnVars, abortVars, closeVars
<1>12. QED
  BY <1>2, <1>3, <1>4, <1>5, <1>6, <1>7, <1>8, <1>9, <1>10, <1>11
     DEF Next, TurnStep, CloseStep

LEMMA CallsInvariant == ~ DecorateMayFail /\ Spec => [](TurnsIndInv /\ CallsIndInv)
<1> SUFFICES ASSUME ~ DecorateMayFail PROVE Spec => [](TurnsIndInv /\ CallsIndInv)
  OBVIOUS
<1>1. Init => CallsIndInv
  BY DEF Init, CallsIndInv
<1>2. TurnsIndInv /\ CallsIndInv /\ [Next]_vars => CallsIndInv'
  BY CallsIndInvStep
<1>3. QED
  BY <1>1, <1>2, TurnsInvariant, PTL DEF Spec

\* chat_abort keeps its word: when it returns, the aborted turn is out of the run
\* registry, its session and its session's lock.
THEOREM AbortsRelease == ~ DecorateMayFail /\ Spec => AbortReleases
<1> SUFFICES ASSUME ~ DecorateMayFail PROVE Spec => AbortReleases
  OBVIOUS
<1>1. TurnsIndInv /\ CallsIndInv /\ [Next]_vars =>
        [\A a \in Abort : abort[a] = "awaiting" /\ abort'[a] = "idle" =>
              LET t == target[a]
              IN  /\ t \notin registry
                  /\ \A s \in Session : active[s] # t /\ holder[s] # t]_vars
  <2> SUFFICES ASSUME TurnsIndInv, CallsIndInv, Next, NEW a \in Abort,
                      abort[a] = "awaiting", abort'[a] = "idle"
               PROVE  /\ target[a] \notin registry
                      /\ \A s \in Session : active[s] # target[a] /\ holder[s] # target[a]
    OBVIOUS
  <2>1. TaskDone(target[a])
    <3>1. ASSUME NEW b \in Abort, AbortStep(b) PROVE TaskDone(target[a])
      BY <3>1 DEF AbortStep, AbortCall, AbortResumes, AbortReturns, TurnsIndInv, TypeOK
    <3>2. ASSUME UNCHANGED abort PROVE FALSE
      BY <3>2
    <3>3. QED
      BY <3>1, <3>2 DEF Next, TurnStep, ChatSend, TurnCrashes, TurnRefused, TurnBegins,
         TurnGetsLock, QueueThinking, TurnReturns, TurnInterrupted, EndTurn, ExitDispatched,
         AbortSelf, CloseStep, CloseStarts, CloseWaits, CloseTimesOut, CloseGoesOn,
         CloseReturns, CompactStep, CompactCall, CompactGetsLock, CompactEnds, GuardStep,
         abortVars
  <2>2. target[a] \in Turn
    BY DEF TurnsIndInv, AbortTargets
  <2>3. turn[target[a]] = "finished"
    BY <2>1, <2>2 DEF CallsIndInv
  <2>4. QED
    BY <2>2, <2>3 DEF TurnsIndInv, TurnPlaces
<1>2. QED
  BY <1>1, CallsInvariant, PTL DEF Spec, AbortReleases

\* After aclose no turn is registered and none is in the guard.
THEOREM CloseDrains == ~ DecorateMayFail /\ Spec => []ClosedIsDrained
<1>1. TurnsIndInv /\ CallsIndInv => ClosedIsDrained
  <2> SUFFICES ASSUME TurnsIndInv, CallsIndInv, closing = "closed"
               PROVE  registry = {} /\ \A t \in Turn : ~ Reading(t)
    BY DEF ClosedIsDrained
  <2>1. registry = {}
    BY DEF TurnsIndInv, TypeOK, CallsIndInv
  <2>2. QED
    BY <2>1 DEF TurnsIndInv, TurnPlaces, TurnRuntime, Reading
<1>2. QED
  BY <1>1, CallsInvariant, PTL

================================================================================
