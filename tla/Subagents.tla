------------------------------- MODULE Subagents -------------------------------
(* Runs of subagents behind the turns that spawn them: the runner's tasks, their *)
(* records, how a run ends, and the way its result takes into the conversation   *)
(* of its requester.  Runs are spawned by a turn (sessions_spawn), by the review *)
(* that follows a turn, and by the research of a podcast; all take a slot of the *)
(* same runner.                                                                  *)
EXTENDS Integers, FiniteSets, Sequences, SequencesExt

CONSTANTS
    Run,            \* run ids
    Review,         \* the runs that are spawned for a review (label "review")
    Research,       \* the runs that are spawned by a podcast
    Session,        \* requester_session_key
    MaxConcurrent,  \* SubagentConfig.max_concurrent
    MaxTurn,        \* bound on the turns of all sessions
    NoSession

ASSUME SlotsAreNumbers == MaxConcurrent \in Nat \ {0} /\ MaxTurn \in Nat
ASSUME NoSessionIsNone == NoSession \notin Session
ASSUME RunsHaveOneUse == Review \subseteq Run /\ Research \subseteq Run /\ Review \cap Research = {}

VARIABLES
    status,        \* status[r]: SubagentRunRecord.status, or "none"
    requester,     \* requester[r]: the session it was spawned for
    stopped,       \* stopped[r]: its cancellation token is set
    pending,       \* pending[s]: _pending_announcements
    turn,          \* turn[s]: where the turn of s is
    turns,         \* turns started so far
    awaited,       \* awaited[s]: runs its turn has waited for
    scratch,       \* scratch[s]: announcements in the scratch_history of its turn
    conversation,  \* conversation[s]: announcements in its history
    discarded      \* runs whose announcement a stopped turn had taken with it

runVars == <<status, requester, stopped>>
turnVars == <<turn, turns, awaited, scratch>>
vars == <<runVars, turnVars, pending, conversation, discarded>>

\* Where the fields of a record and the places of an announcement range.
SubagentTypeOK ==
    /\ status \in [Run -> {"none", "running", "over", "killed"}]
    /\ requester \in [Run -> Session \cup {NoSession}]
    /\ stopped \in [Run -> BOOLEAN]
    /\ {pending, scratch, conversation} \subseteq [Session -> Seq(Run)]
    /\ turn \in [Session -> {"idle", "round", "spawning", "waiting"}]
    /\ turns \in 0 .. MaxTurn
    /\ awaited \in [Session -> SUBSET Run]
    /\ discarded \subseteq Run

\* COMPLETED, ERROR and TIMEOUT are "over": they differ in the text of the
\* announcement only.
Ended == {"over", "killed"}
Announced == Run \ Review

\* A record that is not terminal belongs to a task in _running_tasks that is not done.
Running(r) == status[r] = "running"
RunsOf(s) == {r \in Run : requester[r] = s}

Init ==
    /\ status = [r \in Run |-> "none"]
    /\ requester = [r \in Run |-> NoSession]
    /\ stopped = [r \in Run |-> FALSE]
    /\ pending = [s \in Session |-> <<>>]
    /\ turn = [s \in Session |-> "idle"]
    /\ turns = 0
    /\ awaited = [s \in Session |-> {}]
    /\ scratch = [s \in Session |-> <<>>]
    /\ conversation = [s \in Session |-> <<>>]
    /\ discarded = {}

--------------------------------------------------------------------------------
(* The runner.                                                                  *)

\* can_spawn counts the records that are not terminal.
CanSpawn == Cardinality({r \in Run : Running(r)}) < MaxConcurrent

\* SubagentRunner.spawn: the record, the token and the task, without an await.
Spawn(r, s) ==
    /\ status[r] = "none"
    /\ CanSpawn
    /\ status' = [status EXCEPT ![r] = "running"]
    /\ requester' = [requester EXCEPT ![r] = s]
    /\ UNCHANGED stopped

\* How _run_subagent ends: the record, the announcement, and the token is dropped.
Ends(r, how) ==
    /\ Running(r)
    /\ status' = [status EXCEPT ![r] = how]
    /\ pending' = IF how = "killed" \/ r \in Review THEN pending
                  ELSE [pending EXCEPT ![requester[r]] = Append(@, r)]
    /\ stopped' = [stopped EXCEPT ![r] = FALSE]
    /\ UNCHANGED <<requester, turnVars, conversation, discarded>>

\* A run ends in its own way or by its timeout.  A kill sets the token, and the
\* loop answers with TurnCancelled, which _run_subagent takes for an error.
RunEndsUnstopped(r) == ~stopped[r] /\ Ends(r, "over")
RunEnds(r) == Ends(r, "over")

\* task.cancel(): the wait of a podcast for its research ends by the timeout of
\* wait_for or by a cancellation, and wait_for cancels the task it waits for.
ResearchCancelled(r) == r \in Research /\ Ends(r, "killed")

\* subagents_kill, kill_all
Kill(r) ==
    /\ Running(r)
    /\ stopped' = [stopped EXCEPT ![r] = TRUE]
    /\ UNCHANGED <<status, requester, turnVars, pending, conversation, discarded>>

\* ReviewForkState: in the after_turn hook of a turn, whose history is committed by
\* then, or by review_fork_run at any time.
ReviewForks(r, s) ==
    /\ r \in Review
    /\ Spawn(r, s)
    /\ UNCHANGED <<turnVars, pending, conversation, discarded>>

\* A podcast researches for a speaker.
PodcastResearches(r, s) ==
    /\ r \in Research
    /\ Spawn(r, s)
    /\ UNCHANGED <<turnVars, pending, conversation, discarded>>

--------------------------------------------------------------------------------
(* The turns of the requesters.                                                 *)

TurnStarts(s) ==
    /\ turn[s] = "idle"
    /\ turns < MaxTurn
    /\ turn' = [turn EXCEPT ![s] = "round"]
    /\ turns' = turns + 1
    /\ UNCHANGED <<runVars, awaited, scratch, pending, conversation, discarded>>

\* sessions_spawn in a batch of calls; more calls may follow in the same batch.
TurnSpawns(s, r) ==
    /\ turn[s] \in {"round", "spawning"}
    /\ turn' = [turn EXCEPT ![s] = "spawning"]
    /\ r \notin Review \cup Research
    /\ Spawn(r, s)
    /\ UNCHANGED <<turns, awaited, scratch, pending, conversation, discarded>>

\* A sessions_spawn that finds no slot is answered by an error, and waited for all
\* the same.
TurnSpawnsInVain(s) ==
    /\ turn[s] = "round"
    /\ ~CanSpawn
    /\ turn' = [turn EXCEPT ![s] = "spawning"]
    /\ UNCHANGED <<runVars, turns, awaited, scratch, pending, conversation, discarded>>

\* After the batch, when the loop goes on to another round: wait_for_requester.
WaitStarts(s) ==
    /\ turn[s] = "spawning"
    /\ turn' = [turn EXCEPT ![s] = "waiting"]
    /\ awaited' = [awaited EXCEPT ![s] = RunsOf(s) \ Review]
    /\ UNCHANGED <<runVars, turns, scratch, pending, conversation, discarded>>

\* Nobody of s runs any more: drain_announcements, and the next round.
QuietWhenOneEnded(s) == \E r \in RunsOf(s) : ~Running(r)
Quiet(s) == \A r \in RunsOf(s) : ~Running(r)

Drain(s) ==
    /\ scratch' = [scratch EXCEPT ![s] = @ \o pending[s]]
    /\ pending' = [pending EXCEPT ![s] = <<>>]

WaitEnds(s) ==
    /\ turn[s] = "waiting"
    /\ Quiet(s)
    /\ Drain(s)
    /\ turn' = [turn EXCEPT ![s] = "round"]
    /\ UNCHANGED <<runVars, turns, awaited, conversation, discarded>>

\* The turn ends with a text, or without another round although it has spawned:
\* a terminal tool, a denial, the last iteration.
TurnEnds(s) ==
    /\ turn[s] \in {"round", "spawning"}
    /\ conversation' = [conversation EXCEPT ![s] = @ \o scratch[s]]
    /\ scratch' = [scratch EXCEPT ![s] = <<>>]
    /\ turn' = [turn EXCEPT ![s] = "idle"]
    /\ awaited' = [awaited EXCEPT ![s] = {}]
    /\ UNCHANGED <<runVars, turns, pending, discarded>>

\* An error, or an abort, which wait_for_requester looks for every 100 ms.  The
\* runs the turn has spawned go on.
TurnStops(s) ==
    /\ turn[s] # "idle"
    /\ turn' = [turn EXCEPT ![s] = "idle"]
    /\ discarded' = discarded \cup ToSet(scratch[s])
    /\ scratch' = [scratch EXCEPT ![s] = <<>>]
    /\ awaited' = [awaited EXCEPT ![s] = {}]
    /\ UNCHANGED <<runVars, turns, pending, conversation>>

Next ==
    \/ \E r \in Run : RunEnds(r) \/ ResearchCancelled(r) \/ Kill(r)
    \/ \E s \in Session, r \in Run : PodcastResearches(r, s) \/ ReviewForks(r, s) \/ TurnSpawns(s, r)
    \/ \E s \in Session :
           \/ TurnStarts(s) \/ TurnSpawnsInVain(s) \/ WaitStarts(s) \/ WaitEnds(s)
           \/ TurnEnds(s) \/ TurnStops(s)

Spec == Init /\ [][Next]_vars

\* Rounds and model calls of a subagent are bounded and nobody is asked for approval,
\* so a run ends, by its timeout or without; and the wait looks again.
FairSpec ==
    /\ Spec
    /\ \A r \in Run : WF_vars(RunEnds(r))
    /\ \A s \in Session : WF_vars(WaitEnds(s))

--------------------------------------------------------------------------------
(* Properties.                                                                  *)

\* A turn that goes on after it has waited knows the outcome of every run it waited
\* for, of this turn or an earlier one: the announcement is in what the model is
\* shown.  Missing are those task.cancel() ended and those an earlier turn lost.
ParentKnowsItsRuns ==
    \A s \in Session :
        turn[s] = "round" =>
            \A r \in awaited[s] :
                /\ status[r] \in Ended
                /\ status[r] = "killed" \/ r \in discarded
                     \/ r \in ToSet(conversation[s] \o scratch[s])

\* The announcements of a session, in its conversation and on their way there; and the
\* runs that have one.
Known(s) == conversation[s] \o scratch[s] \o pending[s]
IsDue(r) == status[r] = "over" /\ r \in Announced \ discarded

\* However turns stop, wait and follow one another, the result of a run is announced
\* once: it waits in the runner, or is in a turn, or in the conversation of its
\* requester and no other, unless a turn that failed has taken it with it.
AnnouncedOnce ==
    /\ \A r \in Run : IsDue(r) => \E s \in Session : r \in ToSet(Known(s))
    /\ \A s \in Session, r \in Run : r \in ToSet(Known(s)) => IsDue(r) /\ requester[r] = s
    /\ \A s \in Session : IsInjective(Known(s))

\* What the turns of a session may rely on.
ResultsArrive == ParentKnowsItsRuns /\ AnnouncedOnce

\* A turn that waits for its subagents goes on or stops in the end, also when they
\* are killed while it waits.
WaitIsOver == \A s \in Session : turn[s] = "waiting" ~> turn[s] # "waiting"
================================================================================
