------------------------------- MODULE AgentLoop -------------------------------
(* One conversation as the agent loop runs it: the rounds of a turn over a      *)
(* scratch copy of the history, the compaction that folds old messages into a   *)
(* summary, the calls of the model that come back short, and what reaches the   *)
(* history in the end.                                                          *)
(*                                                                              *)
(* A message is its kind and a number; a summary is the set of messages it was  *)
(* made from.  How many tokens a history has is left open: whether a threshold  *)
(* is met is a choice, every position a cut falls on is computed.               *)
EXTENDS Integers, FiniteSets, Sequences, SequencesExt

CONSTANTS
    RecentTurns,     \* context_recent_turns
    MaxIterations,   \* max_iterations
    Verbose,         \* groups of calls whose results are long, of tools that may be pruned
    MaxTurn,         \* bound on the turns asked for
    MaxGroup,        \* bound on the messages with tool calls
    MaxNotes,        \* bound on the announcements one round waits for
    MaxCompaction,   \* bound on the compactions
    MaxReset         \* bound on the calls of sessions_reset

Keep == RecentTurns * 2
MaxFailures == 3     \* MAX_CONSECUTIVE_COMPACT_FAILURES

ASSUME LoopBounds ==
    /\ RecentTurns \in Nat \ {0} /\ MaxIterations \in Nat \ {0}
    /\ MaxTurn \in Nat /\ MaxGroup \in Nat /\ MaxNotes \in Nat
    /\ MaxCompaction \in Nat /\ MaxReset \in Nat
    /\ Verbose \subseteq 1 .. MaxGroup

VARIABLES
    history,      \* AgentSession.history
    scratch,      \* scratch_history of the running turn
    phase,        \* where the turn is
    turn,         \* turns asked for so far
    round,        \* the iteration the turn is in
    groups,       \* messages with tool calls made so far
    todo,         \* the todo store has active items
    pruned,       \* results whose body was replaced by a line about it
    previous,     \* CompactionState.previous_summary
    failures,     \* CompactionState.consecutive_failures
    cooling,      \* CompactionState.summary_cooldown_until was set
    compactions,  \* compactions made so far
    said,         \* what belongs to the conversation, and to no running turn
    uttered,      \* what the running turn has added
    noted,        \* the running turn has added a user message of its own
    lost,         \* messages a compaction of the running turn gave up
    mended,       \* cut-off calls a compaction of the running turn answered
    read,         \* results the model was shown in full
    dropped,      \* messages of the history that were given up without a summary
    cutOff,       \* calls a turn ended with and never made
    earlier       \* what belonged to conversations that were reset

turnVars == <<scratch, phase, round, uttered, noted, lost, mended>>
summaryVars == <<previous, failures, cooling>>
vars == <<history, turn, groups, todo, pruned, compactions, said, read, dropped,
          cutOff, earlier, turnVars, summaryVars>>

Request(t) == [kind |-> "request", id |-> t]
Answer(t) == [kind |-> "answer", id |-> t]
Calls(g) == [kind |-> "calls", id |-> g]
Results(g) == [kind |-> "results", id |-> g]
Stub(g) == [kind |-> "stub", id |-> g]
Note == [kind |-> "note", id |-> 0]       \* a todo reminder, an announcement
Summary(from) == [kind |-> "summary", id |-> 0, from |-> from]

Plain == [kind : {"request", "answer"}, id : 1 .. MaxTurn]
         \cup [kind : {"calls", "results", "stub"}, id : 1 .. MaxGroup] \cup {Note}
Message == Plain \cup [kind : {"summary"}, id : {0}, from : SUBSET Plain]

Contents(h) == UNION {IF m.kind = "summary" THEN m.from ELSE {m} : m \in ToSet(h)}

\* A summary stands for messages of its own kind only, never for another summary.
LoopTypeOK ==
    /\ \A h \in {history, scratch} : \A m \in ToSet(h) :
           /\ m.kind = "summary" => m.from \subseteq Plain
           /\ m.kind # "summary" => m \in Plain
    /\ phase \in {"idle", "round", "calling", "retrying", "tools", "concluding"}
    /\ phase = "idle" <=> scratch = <<>>
    /\ turn \in 0 .. MaxTurn /\ round \in 1 .. MaxIterations /\ groups \in 0 .. MaxGroup
    /\ failures \in 0 .. MaxFailures /\ compactions \in 0 .. MaxCompaction
    /\ {todo, cooling, noted} \subseteq BOOLEAN
    /\ cutOff \cup mended \subseteq 1 .. MaxGroup
    /\ UNION {lost, pruned, previous, said, uttered, read, dropped, earlier} \subseteq Plain

Init ==
    /\ history = <<>> /\ scratch = <<>> /\ phase = "idle"
    /\ turn = 0 /\ round = 1 /\ groups = 0 /\ todo = FALSE
    /\ previous = {} /\ failures = 0 /\ cooling = FALSE /\ compactions = 0
    /\ pruned = {} /\ said = {} /\ uttered = {} /\ noted = FALSE
    /\ lost = {} /\ mended = {} /\ read = {} /\ dropped = {} /\ cutOff = {} /\ earlier = {}

--------------------------------------------------------------------------------
(* Where a compaction cuts.  A position is the number of messages before it, as *)
(* an index of the code is.                                                     *)

\* _is_real_user_message: a user message that is no reply of tools.
IsText(m) == m.kind \in {"request", "note", "summary"}
IsReply(m) == m.kind \in {"results", "stub"}

\* _find_last_real_user_message_idx, -1 when there is none.
LastText(h) == Max({-1} \cup {i - 1 : i \in {j \in DOMAIN h : IsText(h[j])}})

\* _align_boundary_backward: calls and their results stay together.
Align(h, c) ==
    IF 0 < c /\ c < Len(h) /\ IsReply(h[c + 1]) /\ h[c].kind = "calls" THEN c - 1 ELSE c

\* _ensure_last_user_message_in_tail
EnsureLastText(h, c) == IF LastText(h) \in 1 .. c - 1 THEN LastText(h) ELSE c

\* The aggressive path: at the last text, or behind everything.
SevereCut(h) == IF LastText(h) >= 1 THEN Align(h, LastText(h)) ELSE Len(h)
SplitCut(h) == Align(h, EnsureLastText(h, Align(h, Len(h) - Keep)))
IsShort(h) == Len(h) <= 2 \/ Len(h) <= Keep

\* The trim of a tail that alone exceeds the threshold.
TrimStart(h) ==
    LET two == Max({0, Len(h) - 2})
    IN  Align(h, IF LastText(h) >= 0 THEN Min({LastText(h), two}) ELSE two)

\* _sanitize_tool_pairs: results without their calls go, calls without results
\* are answered by a stub.
SanitizedNothing(h) == h
Unanswered(h, m) == m.kind = "calls" /\ Results(m.id) \notin ToSet(h) /\ Stub(m.id) \notin ToSet(h)
Mended(h, m) ==
    IF IsReply(m) /\ Calls(m.id) \notin ToSet(h) THEN <<>>
    ELSE IF Unanswered(h, m) THEN <<m, Stub(m.id)>> ELSE <<m>>
Sanitized(h) ==
    LET upTo[n \in 0 .. Len(h)] == IF n = 0 THEN <<>> ELSE upTo[n - 1] \o Mended(h, h[n])
    IN  upTo[Len(h)]

\* _prune_old_tool_results: what stands before the protected tail and is long.
PrunableAnywhere(h) == {h[i] : i \in {j \in DOMAIN h : h[j].kind = "results" /\ h[j].id \in Verbose}}
Prunable(h) ==
    {h[i] : i \in {j \in 1 .. Len(h) - Keep : h[j].kind = "results" /\ h[j].id \in Verbose}}

\* One line for each, with the tool and its size, remains of what they said.
Prunes(h) == pruned' = pruned \cup Prunable(h)

--------------------------------------------------------------------------------
(* compact_if_needed, once the history is found to be over the threshold.       *)

\* What can come of _safe_summarize_history: a text, an empty text, an
\* exception, or no call at all (cooldown, circuit breaker).
Outcomes ==
    IF failures >= MaxFailures THEN {"skipped"}
    ELSE {"text", "empty", "raises"} \cup (IF cooling THEN {"skipped"} ELSE {})

Tracked(older, outcome) ==
    /\ previous' = CASE outcome = "text" -> previous \cup Contents(older)
                     [] outcome = "empty" -> {}
                     [] OTHER -> previous
    /\ failures' = CASE outcome \in {"text", "empty"} -> 0
                     [] outcome = "raises" -> failures + 1
                     [] OTHER -> failures
    /\ cooling' = CASE outcome \in {"text", "empty"} -> FALSE
                    [] outcome = "raises" -> TRUE
                    [] OTHER -> cooling

\* h, whose first cut messages are folded into a summary of them and of before;
\* without a text, a note that says nothing of them stands in its place.
Folded(h, cut, trim, outcome, before) ==
    LET older == SubSeq(h, 1, cut)
        recent == SubSeq(h, cut + 1, Len(h))
        start == IF trim THEN TrimStart(recent) ELSE 0
        from == IF outcome = "text" THEN before \cup Contents(older) ELSE {}
    IN  [history |-> Sanitized(<<Summary(from)>> \o SubSeq(recent, start + 1, Len(recent))),
         lost |-> (IF outcome = "text" THEN {} ELSE Contents(older))
                  \cup Contents(SubSeq(recent, 1, start))]

\* append_active_todo_reminder follows a summary that has a text.
Reminded(h, outcome) == IF outcome = "text" /\ todo THEN Append(h, Note) ELSE h

\* The compaction of a turn.  With severe the history is twice over the budget.
CompactScratch(severe) ==
    \E trim \in BOOLEAN, outcome \in Outcomes :
        LET aggressive == severe \/ IsShort(scratch)
            cut == IF aggressive THEN SevereCut(scratch) ELSE SplitCut(scratch)
            folded == Folded(scratch, cut, trim, outcome, previous)
        IN  /\ aggressive => ~trim
            /\ compactions < MaxCompaction
            /\ compactions' = compactions + 1
            /\ Prunes(scratch)
            /\ scratch' = Reminded(folded.history, outcome)
            /\ noted' = (noted \/ (outcome = "text" /\ todo))
            /\ lost' = lost \cup folded.lost
            /\ mended' = cutOff
            /\ Tracked(SubSeq(scratch, 1, cut), outcome)

--------------------------------------------------------------------------------
(* A turn.                                                                      *)

\* run_turn: the prompt goes into the history at once, the rest at the end.
Ask ==
    /\ phase = "idle"
    /\ turn < MaxTurn
    /\ turn' = turn + 1
    /\ history' = Append(history, Request(turn'))
    /\ scratch' = Append(history, Request(turn'))
    /\ said' = said \cup {Request(turn')}
    /\ phase' = "round"
    /\ round' = 1
    /\ noted' = FALSE /\ lost' = {} /\ mended' = {}
    /\ UNCHANGED <<groups, todo, pruned, compactions, uttered, read, dropped, cutOff,
                   earlier, summaryVars>>

\* The start of a round: the history fits, or pruning made it fit, or it is
\* compacted.
RoundStarts ==
    /\ phase = "round"
    /\ phase' = "calling"
    /\ \/ UNCHANGED <<scratch, noted, lost, mended, pruned, compactions, summaryVars>>
       \/ /\ Prunes(scratch)
          /\ UNCHANGED <<scratch, noted, lost, mended, compactions, summaryVars>>
       \/ \E severe \in BOOLEAN : CompactScratch(severe)
    /\ UNCHANGED <<history, turn, round, groups, todo, said, uttered, read, dropped, cutOff,
                   earlier>>

\* What the model is shown with the call that is answered now.
Shown == read' = read \cup {m \in ToSet(scratch) \ pruned : m.kind = "results"}

\* _commit_turn: the history becomes h; what the turn adds now is said, the calls
\* among it are never made.
Commit(h, added, calls) ==
    /\ history' = h
    /\ said' = said \cup uttered \cup added
    /\ dropped' = dropped \cup lost
    /\ cutOff' = (cutOff \ mended) \cup calls
    /\ phase' = "idle"
    /\ scratch' = <<>> /\ uttered' = {} /\ lost' = {} /\ mended' = {}

\* A reply without tool calls ends the turn, and so does the answer to the call
\* without tools that concludes it.
ReplyText ==
    /\ phase \in {"calling", "retrying", "concluding"}
    /\ Commit(Append(scratch, Answer(turn)), {Answer(turn)}, {})
    /\ Shown
    /\ UNCHANGED <<turn, round, groups, todo, pruned, compactions, noted, earlier, summaryVars>>

ReplyCalls ==
    /\ phase \in {"calling", "retrying"}
    /\ groups < MaxGroup
    /\ groups' = groups + 1
    /\ scratch' = Append(scratch, Calls(groups'))
    /\ uttered' = uttered \cup {Calls(groups')}
    /\ phase' = "tools"
    /\ Shown
    /\ UNCHANGED <<history, turn, round, todo, pruned, compactions, said, noted, lost, mended,
                   dropped, cutOff, earlier, summaryVars>>

\* stop_reason max_tokens: the reply is thrown away, the history compacted with
\* a budget of one token, and the model asked once more.
ReplyTruncated ==
    /\ phase = "calling"
    /\ phase' = "retrying"
    /\ Shown
    /\ CompactScratch(TRUE)
    /\ UNCHANGED <<history, turn, round, groups, todo, said, uttered, dropped, cutOff, earlier>>

\* max_tokens once more: the reply ends the turn as it is, with calls in it that
\* nobody makes.
ReplyCutOff ==
    /\ phase = "retrying"
    /\ groups < MaxGroup
    /\ groups' = groups + 1
    /\ Commit(Append(scratch, Calls(groups')), {Calls(groups')}, {groups'})
    /\ Shown
    /\ UNCHANGED <<turn, round, todo, pruned, compactions, noted, earlier, summaryVars>>

WithResults == Append(scratch, Results(groups))

\* A terminal tool was called and none denied.
TerminalToolReturns ==
    /\ phase = "tools"
    /\ todo' \in BOOLEAN
    /\ Commit(WithResults, {Results(groups)}, {})
    /\ UNCHANGED <<turn, round, groups, pruned, compactions, noted, read, earlier, summaryVars>>

\* A tool was denied, or the round is the last: one call of the model without tools.
ToolsConclude ==
    /\ phase = "tools"
    /\ todo' \in BOOLEAN
    /\ scratch' = WithResults
    /\ uttered' = uttered \cup {Results(groups)}
    /\ phase' = "concluding"
    /\ UNCHANGED <<history, turn, round, groups, pruned, compactions, said, noted, lost, mended,
                   read, dropped, cutOff, earlier, summaryVars>>

\* The next round, after the announcements of the subagents this one spawned.
ToolsReturn ==
    /\ phase = "tools"
    /\ round < MaxIterations
    /\ round' = round + 1
    /\ todo' \in BOOLEAN
    /\ \E n \in 0 .. MaxNotes :
           /\ scratch' = WithResults \o [i \in 1 .. n |-> Note]
           /\ noted' = (noted \/ n > 0)
    /\ uttered' = uttered \cup {Results(groups)}
    /\ phase' = "round"
    /\ UNCHANGED <<history, turn, groups, pruned, compactions, said, lost, mended, read, dropped,
                   cutOff, earlier, summaryVars>>

\* A cancellation, a model call that failed three times, a memory flush or a hook
\* that raises: scratch_history is gone, what the tools did is not.
TurnStops ==
    /\ phase # "idle"
    /\ phase' = "idle"
    /\ scratch' = <<>> /\ uttered' = {} /\ lost' = {} /\ mended' = {}
    /\ UNCHANGED <<history, turn, round, groups, todo, pruned, compactions, said, noted, read,
                   dropped, cutOff, earlier, summaryVars>>

--------------------------------------------------------------------------------
(* What clients do between two turns.                                           *)

\* sessions_compact: on the history itself, and without a CompactionState.
SessionsCompact ==
    /\ phase = "idle"
    /\ Len(history) >= Keep
    /\ compactions < MaxCompaction
    /\ compactions' = compactions + 1
    /\ \E outcome \in {"text", "empty", "raises"} :
           LET folded == Folded(history, SevereCut(history), FALSE, outcome, {})
           IN  /\ history' = Reminded(folded.history, outcome)
               /\ dropped' = dropped \cup folded.lost
    /\ Prunes(history)
    /\ cutOff' = {}
    /\ UNCHANGED <<turn, groups, todo, said, read, earlier, turnVars, summaryVars>>

\* sessions_reset: BackendSessionManager.clear leaves compaction_state alone.
SessionsReset ==
    /\ phase = "idle"
    /\ said # {}
    /\ earlier = {} /\ MaxReset > 0
    /\ history' = <<>>
    /\ todo' = FALSE
    /\ said' = {} /\ earlier' = said /\ dropped' = {} /\ cutOff' = {}
    /\ UNCHANGED <<turn, groups, pruned, compactions, read, turnVars, summaryVars>>

Next ==
    \/ Ask \/ RoundStarts
    \/ ReplyText \/ ReplyCalls \/ ReplyTruncated \/ ReplyCutOff
    \/ TerminalToolReturns \/ ToolsConclude \/ ToolsReturn
    \/ TurnStops
    \/ SessionsCompact \/ SessionsReset

Spec == Init /\ [][Next]_vars

--------------------------------------------------------------------------------
(* Properties.                                                                  *)

\* The model is being called with scratch.
Calling == phase \in {"calling", "retrying", "concluding"}

\* Providers refuse a conversation in which calls and results do not follow one
\* another.  Whatever was cut, folded, stubbed or trimmed, they do, except for
\* calls a reply that was cut off twice ended a turn with and no compaction has
\* repaired since.
WireIsPaired ==
    Calling =>
        \A i \in DOMAIN scratch :
            /\ scratch[i].kind = "calls" /\ scratch[i].id \notin cutOff \ mended =>
                   /\ i < Len(scratch)
                   /\ IsReply(scratch[i + 1]) /\ scratch[i + 1].id = scratch[i].id
            /\ IsReply(scratch[i]) =>
                   i > 1 /\ scratch[i - 1] = Calls(scratch[i].id)

\* Over any number of compactions, stopped turns and retries, what was said is in
\* the messages, or in what the summary in front of them was made of, or was given
\* up by a compaction whose summariser failed or whose tail was trimmed.
NothingVanishes ==
    /\ phase = "idle" => said \subseteq Contents(history) \cup dropped
    /\ Calling => said \cup uttered \subseteq Contents(scratch) \cup dropped \cup lost

\* The model sees the request it is to answer word for word, however long the turn
\* has run.  Two exceptions are in the code: a request that is the very first
\* message, and one that a reminder or an announcement follows, which the
\* compaction takes for the user's latest words.
RequestKept ==
    Calling => \/ Request(turn) \in ToSet(scratch)
               \/ said = {Request(turn)}
               \/ noted

\* Results of tools are shown to the model in full before they are pruned or
\* folded, with the same exceptions.
ResultsAreRead ==
    Calling => \A m \in uttered \ read :
                   m.kind = "results" => \/ m \in ToSet(scratch) \ pruned
                                         \/ said = {Request(turn)}
                                         \/ noted

\* Nothing of the conversation is lost: what was said is in the history or in a
\* summary, the request is before the model, and a result is shown before it is
\* cut; a summary stands for messages only.
ConversationIsKept == LoopTypeOK /\ NothingVanishes /\ RequestKept /\ ResultsAreRead

\* compact.py on CompactionState: "All in-process state; reset when the session
\* is reset."  A summary of the new conversation is then made of nothing the old
\* one said.
SummaryForgetsReset ==
    \A m \in ToSet(history) \cup ToSet(scratch) : m.kind = "summary" => m.from \cap earlier = {}
================================================================================
