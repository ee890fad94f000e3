---------------------------- MODULE MemoryExtractor ----------------------------
(* The extraction of memories after the turns of one session: the hook that       *)
(* decides, the subagent that reads what is new, the payload that is stashed while *)
(* it runs, and the cursor between what was read and what was not.  A message of   *)
(* the model stands for those of a turn, and reads like the last of them.          *)
EXTENDS Integers, Sequences, FiniteSets

CONSTANTS
    Start,          \* what the id of an answer has of its text: the first characters of its
                    \* first block, and nothing of one that begins with thinking
    Cooldown,       \* cooldownTurns
    MaxTurns,       \* bound on the turns of the session
    MaxCompactions, \* bound on the compactions
    MaxResets,      \* bound on the resets of the session
    MaxEnds         \* bound on the ends of the session in the plugin, and of the daemon

\* Assumed of the constants, by the modules that instantiate this one, too.
ExtractorAssumption ==
    {Cooldown, MaxTurns, MaxCompactions, MaxResets, MaxEnds} \subseteq Nat

VARIABLES
    history,        \* the messages: the turn, negative for a summary, and how it starts
    wrote,          \* the turns in which the main agent wrote a topic file itself
    state,          \* the ExtractorState objects in the order of their creation
    current,        \* the one in _states, if any
    run,            \* the extractions in the order of their creation
    covered,        \* the turns an extraction was given, or a write of the agent stood for
    mistaken,       \* history: those before a cursor that was found at another message than
                    \* the one it was taken from
    budget          \* what is left of the bounds, and whether an extraction could not start
vars == <<history, wrote, state, current, run, covered, mistaken, budget>>

None == 0
Turn == 1 .. MaxTurns

\* What a turn leaves, and a summary: a message of the user.
Answer(n, start) == [turn |-> n, start |-> start]
Summary(n) == [turn |-> -n, start |-> "summary"]

Running(r) == run[r].pc # "ended"

NoCursor == [place |-> 0, turn |-> 0, start |-> "none"]
New == [cursor |-> NoCursor, turns |-> 0, inFlight |-> None, pending |-> <<>>]

Init ==
    /\ history = <<>>
    /\ wrote = {}
    /\ state = <<>>
    /\ current = None
    /\ run = <<>>
    /\ covered = {}
    /\ mistaken = {}
    /\ budget = [turns |-> MaxTurns, compactions |-> MaxCompactions, resets |-> MaxResets,
                 ends |-> MaxEnds, failed |-> FALSE]

--------------------------------------------------------------------------------

\* _index_after_cursor: the id of a message has its place, its role and how it starts; a
\* cursor that is not found lets everything count as new.
After(messages, cursor) ==
    IF cursor.place \in DOMAIN messages /\ messages[cursor.place].start = cursor.start
    THEN cursor.place ELSE 0

\* _last_snapshot_id, and of which turn it is, which the code does not know.
LastOf(messages) ==
    LET m == messages[Len(messages)]
    IN  [place |-> Len(messages), turn |-> m.turn, start |-> m.start]

Window(messages, cursor) ==
    {messages[i].turn : i \in After(messages, cursor) + 1 .. Len(messages)}

\* The cursor is found at a message that it was not taken from.
Mistaken(messages, cursor) ==
    After(messages, cursor) # 0 /\ messages[cursor.place].turn # cursor.turn

\* What is passed over in that case.
Passed(messages, cursor) ==
    IF Mistaken(messages, cursor)
    THEN {messages[i].turn : i \in 1 .. After(messages, cursor)} ELSE {}

\* _has_topic_writes_since: the main agent wrote a topic file in a turn that is new.
WroteSince(messages, cursor) == Window(messages, cursor) \cap wrote' # {}

\* _get_state.
Exists == current # None
Mine == IF Exists THEN state[current] ELSE New
States(mine) == IF Exists THEN [state EXCEPT ![current] = mine] ELSE Append(state, mine)

Extraction(g, messages) == [of |-> g, messages |-> messages, pc |-> "ready", window |-> {}]

\* run_extractor, the hook: too early; nothing is new; the agent wrote a topic file itself;
\* an extraction runs and the payload is stashed; or one is started.
Hook(messages, mine) ==
    \/ /\ mine.turns < Cooldown
       /\ state' = States(mine)
       /\ UNCHANGED <<run, covered, mistaken>>
    \/ /\ mine.turns >= Cooldown /\ Window(messages, mine.cursor) = {}
       /\ state' = States([mine EXCEPT !.turns = IF @ = 0 THEN 0 ELSE @ - 1])
       /\ UNCHANGED <<run, covered, mistaken>>
    \/ /\ mine.turns >= Cooldown /\ WroteSince(messages, mine.cursor)
       /\ state' = States([mine EXCEPT !.cursor = LastOf(messages), !.turns = 0])
       /\ covered' = covered \cup Window(messages, mine.cursor)
       /\ mistaken' = mistaken \cup Passed(messages, mine.cursor)
       /\ UNCHANGED run
    \/ /\ mine.turns >= Cooldown /\ Window(messages, mine.cursor) # {}
       /\ ~WroteSince(messages, mine.cursor)
       /\ IF mine.inFlight # None
          THEN state' = States([mine EXCEPT !.pending = messages]) /\ UNCHANGED run
          ELSE /\ state' = States([mine EXCEPT !.turns = 0, !.inFlight = Len(run) + 1])
               /\ run' = Append(run,
                        Extraction(IF Exists THEN current ELSE Len(state) + 1, messages))
       /\ UNCHANGED <<covered, mistaken>>

\* A turn that ends fires the hook; one that is aborted does not, nor does one of a source
\* that is not among the triggers.
TurnEnds ==
    /\ budget.turns > 0
    /\ budget' = [budget EXCEPT !.turns = @ - 1]
    /\ LET n == MaxTurns - budget.turns + 1
       IN  /\ \E start \in Start : history' = Append(history, Answer(n, start))
           /\ wrote' \in {wrote, wrote \cup {n}}
    /\ \/ /\ Hook(history', [Mine EXCEPT !.turns = @ + 1])
          /\ current' = IF Exists THEN current ELSE Len(state) + 1
       \/ UNCHANGED <<state, current, run, covered, mistaken>>

\* A compaction replaces the first messages by a summary.
Compact ==
    /\ budget.compactions > 0
    /\ budget' = [budget EXCEPT !.compactions = @ - 1]
    /\ \E k \in 1 .. Len(history) :
        history' = <<Summary(budget.compactions)>> \o SubSeq(history, k + 1, Len(history))
    /\ UNCHANGED <<wrote, state, current, run, covered, mistaken>>

\* sessions_reset empties the history of a session that is idle; the state of the extractor
\* stays, with its cursor.
Reset ==
    /\ budget.resets > 0
    /\ budget' = [budget EXCEPT !.resets = @ - 1]
    /\ history' = <<>>
    /\ UNCHANGED <<wrote, state, current, run, covered, mistaken>>

--------------------------------------------------------------------------------
(* _run_subagent of the extraction r.                                            *)

\* _execute_extraction: the window is that of the state in _states now.
RunStarts(r) ==
    /\ run[r].pc = "ready"
    /\ run' = [run EXCEPT ![r].pc = "reading", ![r].window = Window(run[r].messages, Mine.cursor)]
    /\ state' = States(Mine)
    /\ current' = IF Exists THEN current ELSE Len(state) + 1
    /\ mistaken' = mistaken \cup Passed(run[r].messages, Mine.cursor)
    /\ UNCHANGED <<history, wrote, covered, budget>>

\* Mutant: what was stashed is dropped with the extraction that ends.
DrainedOf(r, cursor) ==
    LET g == run[r].of
    IN  /\ state' = [state EXCEPT ![g].cursor = cursor, ![g].pending = <<>>, ![g].inFlight = None]
        /\ run' = [run EXCEPT ![r].pc = "ended"]

\* The finally: the stashed payload has its turn.
Drained(r, cursor) ==
    LET g == run[r].of
        pending == state[g].pending
    IN  /\ state' = [state EXCEPT ![g].cursor = cursor, ![g].pending = <<>>,
                        ![g].inFlight = IF pending = <<>> THEN None ELSE Len(run) + 1]
        /\ run' = IF pending = <<>> THEN [run EXCEPT ![r].pc = "ended"]
                  ELSE Append([run EXCEPT ![r].pc = "ended"], Extraction(g, pending))

\* The directories cannot be made: the cursor stays.
RunFails(r) ==
    /\ run[r].pc = "ready"
    /\ Drained(r, state[run[r].of].cursor)
    /\ budget' = [budget EXCEPT !.failed = TRUE]
    /\ UNCHANGED <<history, wrote, current, covered, mistaken>>

\* The subagent is done, or its turn fails, which _execute_extraction swallows.
RunEnds(r) ==
    /\ run[r].pc = "reading"
    /\ Drained(r, LastOf(run[r].messages))
    /\ covered' = covered \cup run[r].window
    /\ UNCHANGED <<history, wrote, current, mistaken, budget>>

\* session_end: clear_state; what runs goes on with the state it has.
SessionEnd ==
    /\ budget.ends > 0 /\ Exists
    /\ budget' = [budget EXCEPT !.ends = @ - 1]
    /\ current' = None
    /\ UNCHANGED <<history, wrote, state, run, covered, mistaken>>

\* The daemon dies: the states and the extractions are gone, the transcript is not.
Dies ==
    /\ budget.ends > 0
    /\ budget' = [budget EXCEPT !.ends = @ - 1]
    /\ current' = None
    /\ state' = <<>>
    /\ run' = <<>>
    /\ UNCHANGED <<history, wrote, covered, mistaken>>

Extracts(r) == RunStarts(r) \/ RunFails(r) \/ RunEnds(r)

Next ==
    \/ TurnEnds
    \/ Compact
    \/ Reset
    \/ \E r \in DOMAIN run : Extracts(r)
    \/ SessionEnd
    \/ Dies

Spec == Init /\ [][Next]_vars

\* A subagent answers or fails.
Fairness == \A r \in Turn : WF_vars(r \in DOMAIN run /\ Extracts(r))
FairSpec == Spec /\ Fairness

--------------------------------------------------------------------------------

\* The cursor never passes a turn that nobody looked at: whatever is compacted, reset, fails
\* or is overtaken by a write of the main agent, what the next extraction leaves out was given
\* to an earlier one, or the agent wrote its topic itself.  But for one case: the id is that
\* of another message, at the same place and with the same first characters; what this one
\* case passes over is known.
NothingIsSkipped ==
    Exists =>
        \/ Mistaken(history, Mine.cursor)
        \/ \A i \in 1 .. After(history, Mine.cursor) :
              history[i].turn < 0 \/ history[i].turn \in covered \cup mistaken

\* What the code does not keep, as it means to (extractor.py:131): it passes over a turn.
NoTurnIsPassedOver ==
    Exists => \A i \in 1 .. After(history, Mine.cursor) :
                history[i].turn < 0 \/ history[i].turn \in covered

\* A state has one extraction at a time, the one it calls in flight, and a payload is
\* stashed only while it runs; states that were cleared included.
OneExtractionEach ==
    \A g \in DOMAIN state :
        /\ {r \in DOMAIN run : run[r].of = g /\ Running(r)} = {state[g].inFlight} \ {None}
        /\ state[g].pending # <<>> => state[g].inFlight # None

Has(messages, n) == \E i \in DOMAIN messages : messages[i].turn = n
Stashed(n) == \E g \in DOMAIN state : Has(state[g].pending, n)
Given(n) == \E r \in DOMAIN run : Running(r) /\ Has(run[r].messages, n)

\* "Any earlier interesting messages are still part of it": what is stashed stays stashed
\* until an extraction has it, also when a later payload takes its place; unless a compaction
\* or a reset has removed it from that one, or the daemon dies.  And extractions end.
StashIsExtracted ==
    /\ [][\A n \in Turn : Stashed(n) =>
            Stashed(n)' \/ Given(n)' \/ ~Has(history, n)' \/ state' = <<>>]_vars
    /\ []<>(\A r \in DOMAIN run : ~Running(r))
================================================================================
