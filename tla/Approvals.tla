-------------------------------- MODULE Approvals --------------------------------
(* Tool approval: ToolRegistry.dispatch, AgentSession._dispatch_tool_batch,      *)
(* ApprovalManager (allowlist in memory and on disk) and ApprovalBroker (a human *)
(* answers over the WebSocket), for several turns that share one manager.       *)
(*                                                                              *)
(* A command is a tool call with its arguments.  The allowlist holds patterns; a  *)
(* pattern is named by the command it was taken from.                           *)
EXTENDS Integers, Sequences, FiniteSets

CONSTANTS
    Turn,
    Command,
    Exempt,       \* calls check_request lets pass unseen: of a tool that is not in
                  \* dangerous_tools, or a write_file of MEMORY.md or memory/*.md
    Protected,    \* bash commands that install Python packages, with allow_global_pip
                  \* off: dispatch does not ask check_request about them
    AskMode,      \* policy.ask_mode
    SecurityMode, \* policy.security_mode
    Matches,      \* <<d, c>>: the pattern _extract_pattern takes from d matches c
    MaxBatch,     \* bound on the tool calls of one model message
    Batch,        \* the batches a model message may hold
    NoAnswer

ASSUME MatchesCommands == Matches \subseteq Command \X Command
ASSUME BatchBound == MaxBatch \in Nat \ {0}
ASSUME BatchesOfCommands == Batch \subseteq UNION {[1 .. n -> Command] : n \in 1 .. MaxBatch}
ASSUME PolicyModes ==
    AskMode \in {"off", "on-miss", "always"} /\ SecurityMode \in {"deny", "allowlist", "full"}
ASSUME NoAnswerIsNone == NoAnswer \notin {"allow-once", "allow-always", "deny"}

Decision == {"allow-once", "allow-always", "deny"}
Allow == {"allow-once", "allow-always"}
Request == Turn \X (1 .. MaxBatch)

\* _extract_pattern: a bash command is matched by its first word, write_file by
\* its path; a call of another tool has no pattern.
HasPattern(c) == \E e \in Command : <<c, e>> \in Matches

\* check_allow_always: some pattern of the list matches the command.
Covered(list, c) == \E d \in list : <<d, c>> \in Matches

VARIABLES
    batch,        \* batch[t]: the tool calls turn t dispatches
    results,      \* results[t]: the tool results so far, in order
    phase,        \* phase[t]: "idle", "dispatching", "asking" (awaits a future), "over"
    pending,      \* ApprovalBroker._pending: requests a client can answer
    answer,       \* answer[r]: result set on the future of request r
    cancelled,    \* turns whose CancellationToken is set
    interrupted,  \* turns whose task got task.cancel()
    unattended,   \* turns whose registry has nobody to ask: cron runs, subagents,
                  \* podcast speakers and review forks
    allowlist,    \* ApprovalManager._allowlist
    stored        \* the allowlist in exec-approvals.json

vars == <<batch, results, phase, pending, answer, cancelled, interrupted, unattended,
          allowlist, stored>>

Result == {"ran", "denied", "skipped"}

TypeOK ==
    /\ batch \in [Turn -> Seq(Command)]
    /\ results \in [Turn -> Seq(Result)]
    /\ phase \in [Turn -> {"idle", "dispatching", "asking", "over"}]
    /\ pending \in SUBSET Request
    /\ answer \in [Request -> Decision \cup {NoAnswer}]
    /\ cancelled \in SUBSET Turn
    /\ interrupted \in SUBSET Turn
    /\ unattended \in SUBSET Turn
    /\ allowlist \in SUBSET Command
    /\ stored \in SUBSET Command
    /\ \A t \in Turn : Len(results[t]) <= Len(batch[t]) /\ Len(batch[t]) <= MaxBatch

Init ==
    /\ batch = [t \in Turn |-> <<>>]
    /\ results = [t \in Turn |-> <<>>]
    /\ phase = [t \in Turn |-> "idle"]
    /\ pending = {}
    /\ answer = [r \in Request |-> NoAnswer]
    /\ cancelled = {}
    /\ interrupted = {}
    /\ unattended = {}
    /\ stored \in SUBSET {c \in Command : HasPattern(c)}
    /\ allowlist = stored

\* The call a turn is at, and the command it runs.
At(t) == Len(results[t]) + 1
Asked(t) == <<t, At(t)>>
Cmd(t) == batch[t][At(t)]
Denied(t) == \E i \in 1 .. Len(results[t]) : results[t][i] = "denied"

\* The policy asks about calls at all: not in its default, ask_mode "off", and in
\* "on-miss" only with the security_mode "allowlist".
PolicyAsks == AskMode = "always" \/ (AskMode = "on-miss" /\ SecurityMode = "allowlist")

\* check_request.  The exemptions and the allowlist come before ask_mode "always".
RequiresApproval(c) == PolicyAsks /\ c \notin Exempt /\ ~Covered(allowlist, c)

\* dispatch asks check_request, unless the command is a protected installation.
Gated(c) == c \notin Protected /\ RequiresApproval(c)

--------------------------------------------------------------------------------
(* _dispatch_tool_batch.                                                        *)

\* No call of the batch needs approval: all of them run, concurrently.  A protected
\* installation counts here like any other call.
RunConcurrently(t, b) ==
    /\ \A i \in DOMAIN b : ~RequiresApproval(b[i])
    /\ results' = [results EXCEPT ![t] = [i \in DOMAIN b |-> "ran"]]
    /\ phase' = [phase EXCEPT ![t] = "over"]

\* Some call does: the calls are dispatched one after the other.
RunInOrder(t, b) ==
    /\ \E i \in DOMAIN b : RequiresApproval(b[i])
    /\ phase' = [phase EXCEPT ![t] = "dispatching"]
    /\ UNCHANGED results

Start(t, b) ==
    /\ phase[t] = "idle"
    /\ batch' = [batch EXCEPT ![t] = b]
    /\ unattended' \in {unattended, unattended \cup {t}}
    /\ RunConcurrently(t, b) \/ RunInOrder(t, b)
    /\ UNCHANGED <<pending, answer, cancelled, interrupted, allowlist, stored>>

Dispatching(t) == phase[t] = "dispatching" /\ At(t) <= Len(batch[t])

\* Mutant: a call that is allowed runs although an earlier one was denied.
RunNextAnyway(t) ==
    /\ Dispatching(t)
    /\ ~Gated(Cmd(t))
    /\ results' = [results EXCEPT ![t] = Append(@, "ran")]
    /\ UNCHANGED <<batch, phase, pending, answer, cancelled, interrupted, unattended, allowlist, stored>>

\* The next call is allowed by the policy, or dispatch does not ask.
RunNext(t) ==
    /\ Dispatching(t)
    /\ ~Denied(t)
    /\ ~Gated(Cmd(t))
    /\ results' = [results EXCEPT ![t] = Append(@, "ran")]
    /\ UNCHANGED <<batch, phase, pending, answer, cancelled, interrupted, unattended, allowlist, stored>>

\* An earlier call was denied: the rest is answered without running.
SkipNext(t) ==
    /\ Dispatching(t)
    /\ Denied(t)
    /\ results' = [results EXCEPT ![t] = Append(@, "skipped")]
    /\ UNCHANGED <<batch, phase, pending, answer, cancelled, interrupted, unattended, allowlist, stored>>

\* The next call needs approval and nobody can be asked: it is denied at once.
DenyNext(t) ==
    /\ Dispatching(t)
    /\ ~Denied(t)
    /\ t \in unattended
    /\ Gated(Cmd(t))
    /\ results' = [results EXCEPT ![t] = Append(@, "denied")]
    /\ UNCHANGED <<batch, phase, pending, answer, cancelled, interrupted, unattended, allowlist, stored>>

\* The next call needs approval: request_decision registers a future and emits
\* approval.requested.
Ask(t) ==
    /\ Dispatching(t)
    /\ ~Denied(t)
    /\ t \notin unattended
    /\ Gated(Cmd(t))
    /\ pending' = pending \cup {Asked(t)}
    /\ phase' = [phase EXCEPT ![t] = "asking"]
    /\ UNCHANGED <<batch, results, answer, cancelled, interrupted, unattended, allowlist, stored>>

BatchEnds(t) ==
    /\ phase[t] = "dispatching"
    /\ At(t) > Len(batch[t])
    /\ phase' = [phase EXCEPT ![t] = "over"]
    /\ UNCHANGED <<batch, results, pending, answer, cancelled, interrupted, unattended, allowlist, stored>>

--------------------------------------------------------------------------------
(* request_decision wakes up, record_decision, and the call runs or not.        *)

\* _add_allowlist_entry returns early for a request without a pattern.
Added(t, d) == {c \in {Cmd(t)} : d = "allow-always" /\ HasPattern(c)}

\* Mutant: allow-always is kept in memory only.
RecordInMemory(t, d) ==
    /\ allowlist' = allowlist \cup Added(t, d)
    /\ UNCHANGED stored

\* record_decision: allow-always adds the pattern and writes the file.
Record(t, d) ==
    /\ allowlist' = allowlist \cup Added(t, d)
    /\ stored' = stored \cup Added(t, d)

\* Mutant: an answer other than deny-by-the-user lets the call run.
ResumeWithAllowed(t, d) ==
    /\ Record(t, d)
    /\ results' = [results EXCEPT ![t] =
                      Append(@, IF answer[Asked(t)] = "deny" THEN "denied" ELSE "ran")]
    /\ phase' = [phase EXCEPT ![t] = "dispatching"]
    /\ UNCHANGED <<batch, answer, cancelled, interrupted, unattended>>

ResumeWith(t, d) ==
    /\ Record(t, d)
    /\ results' = [results EXCEPT ![t] = Append(@, IF d \in Allow THEN "ran" ELSE "denied")]
    /\ phase' = [phase EXCEPT ![t] = "dispatching"]
    /\ UNCHANGED <<batch, answer, cancelled, interrupted, unattended>>

\* Mutant: the token is looked at before the future.
ResumeCancelledFirst(t) ==
    /\ phase[t] = "asking"
    /\ t \notin interrupted
    /\ \/ /\ t \notin cancelled
          /\ answer[Asked(t)] # NoAnswer
          /\ ResumeWith(t, answer[Asked(t)])
          /\ UNCHANGED pending
       \/ /\ t \in cancelled
          /\ ResumeWith(t, "deny")
          /\ pending' = pending \ {Asked(t)}

\* Mutant: the prompt does not watch the cancellation token.
ResumeOnAnswer(t) ==
    /\ phase[t] = "asking"
    /\ t \notin interrupted
    /\ answer[Asked(t)] # NoAnswer
    /\ ResumeWith(t, answer[Asked(t)])
    /\ UNCHANGED pending

\* Mutant: a cancelled prompt is not withdrawn.
ResumeUnwithdrawn(t) ==
    /\ phase[t] = "asking"
    /\ t \notin interrupted
    /\ \/ /\ answer[Asked(t)] # NoAnswer
          /\ ResumeWith(t, answer[Asked(t)])
       \/ /\ answer[Asked(t)] = NoAnswer
          /\ t \in cancelled
          /\ ResumeWith(t, "deny")
    /\ UNCHANGED pending

\* asyncio.wait returns.  A future that is done by then wins over a set token;
\* otherwise the request is withdrawn and counts as denied.
Resume(t) ==
    /\ phase[t] = "asking"
    /\ t \notin interrupted
    /\ \/ /\ answer[Asked(t)] # NoAnswer
          /\ ResumeWith(t, answer[Asked(t)])
          /\ UNCHANGED pending
       \/ /\ answer[Asked(t)] = NoAnswer
          /\ t \in cancelled
          /\ ResumeWith(t, "deny")
          /\ pending' = pending \ {Asked(t)}

\* CancelledError is raised inside asyncio.wait: the finally block stops the
\* helper tasks, the entry stays in _pending.
Interrupted(t) ==
    /\ phase[t] \in {"dispatching", "asking"}
    /\ t \in interrupted
    /\ phase' = [phase EXCEPT ![t] = "over"]
    /\ UNCHANGED <<batch, results, pending, answer, cancelled, interrupted, unattended, allowlist, stored>>

--------------------------------------------------------------------------------
(* The clients, chat_abort, aclose and a restart of the daemon.                 *)

\* approvals_respond: the first answer takes the request out of _pending, a second
\* client is told that it is unknown.
Decide(r, d) ==
    /\ r \in pending
    /\ pending' = pending \ {r}
    /\ answer' = [answer EXCEPT ![r] = d]
    /\ UNCHANGED <<batch, results, phase, cancelled, interrupted, unattended, allowlist, stored>>

\* aclose.
DenyAll ==
    /\ pending # {}
    /\ pending' = {}
    /\ answer' = [r \in Request |-> IF r \in pending THEN "deny" ELSE answer[r]]
    /\ UNCHANGED <<batch, results, phase, cancelled, interrupted, unattended, allowlist, stored>>

\* chat_abort sets the token, and cancels the task one loop turn later.
Cancel(t) ==
    /\ phase[t] \in {"dispatching", "asking"}
    /\ cancelled' = cancelled \cup {t}
    /\ UNCHANGED <<batch, results, phase, pending, answer, interrupted, unattended, allowlist, stored>>

Interrupt(t) ==
    /\ phase[t] \in {"dispatching", "asking"}
    /\ t \in cancelled
    /\ interrupted' = interrupted \cup {t}
    /\ UNCHANGED <<batch, results, phase, pending, answer, cancelled, unattended, allowlist, stored>>

\* The process dies and comes back: the manager reads the stored allowlist.
Restart ==
    /\ phase' = [t \in Turn |-> IF phase[t] = "idle" THEN "idle" ELSE "over"]
    /\ pending' = {}
    /\ allowlist' = stored
    /\ UNCHANGED <<batch, results, answer, cancelled, interrupted, unattended, stored>>

--------------------------------------------------------------------------------

Next ==
    \/ \E t \in Turn :
        \/ \E b \in Batch : Start(t, b)
        \/ RunNext(t)
        \/ SkipNext(t)
        \/ DenyNext(t)
        \/ Ask(t)
        \/ BatchEnds(t)
        \/ Resume(t)
        \/ Interrupted(t)
        \/ Cancel(t)
        \/ Interrupt(t)
    \/ \E r \in Request, d \in Decision : Decide(r, d)
    \/ DenyAll
    \/ Restart

Spec == Init /\ [][Next]_vars

\* The loop runs a dispatch that is ready; nobody has to answer a prompt.
FairSpec ==
    /\ Spec
    /\ \A t \in Turn : WF_vars(Resume(t)) /\ WF_vars(Interrupted(t))

--------------------------------------------------------------------------------

\* The calls that the policy restricts: it asks at all, check_request does not
\* exempt the call, and dispatch does not pass it by as a protected installation.
Restricted(c) == PolicyAsks /\ c \notin Exempt \cup Protected

\* No restricted command runs, alone or beside calls that need no approval, unless a
\* stored pattern of the allowlist matches it or a human allowed this very call; a
\* prompt that is withdrawn, or that nobody could be shown, counts as a refusal.
RunsOnlyWithConsent ==
    \A t \in Turn : \A i \in 1 .. Len(results[t]) :
        results[t][i] = "ran" /\ Restricted(batch[t][i]) =>
            Covered(stored, batch[t][i]) \/ answer[<<t, i>>] \in Allow

\* What "unless a human said so" suggests and the code does not promise: a bash
\* command that installs Python packages runs without a look at the policy
\* (tests/test_tools.py:242).
NothingRunsUnasked ==
    \A t \in Turn : \A i \in 1 .. Len(results[t]) :
        results[t][i] = "ran" /\ PolicyAsks /\ batch[t][i] \notin Exempt =>
            Covered(stored, batch[t][i]) \/ answer[<<t, i>>] \in Allow

\* After a refusal nothing else of the batch runs and nobody is asked again.
RefusalStopsBatch ==
    \A t \in Turn : Denied(t) =>
        /\ phase[t] # "asking"
        /\ \A i, j \in 1 .. Len(results[t]) :
              i < j /\ results[t][i] = "denied" => results[t][j] = "skipped"

\* A client whose answer was accepted is obeyed by the turn, even when the turn is
\* being cancelled cooperatively at the same time.
AnswerIsObeyed ==
    \A t \in Turn : \A i \in 1 .. Len(results[t]) :
        answer[<<t, i>>] # NoAnswer =>
            (results[t][i] = "ran" <=> answer[<<t, i>>] \in Allow)

\* The commands a turn was allowed always, and went on with.
Granted ==
    {batch[r[1]][r[2]] : r \in {q \in Request : /\ q[2] <= Len(results[q[1]])
                                               /\ answer[q] = "allow-always"}}

\* Once a turn acted on allow-always, no turn is asked about a command its pattern
\* matches, not even after a restart (record_decision saves before the call runs).
\* A command without a pattern (restart, switch_model) matches nothing: it is asked
\* about again, allow-always or not.
AllowAlwaysIsForever ==
    [][\A t \in Turn : phase[t] # "asking" /\ phase'[t] = "asking" =>
            ~Covered(Granted, Cmd(t))]_vars

\* A prompt whose answer has come, or whose turn is being cancelled, ends.
PromptEnds ==
    \A t \in Turn :
        phase[t] = "asking" /\ (t \in cancelled \/ answer[Asked(t)] # NoAnswer)
            ~> phase[t] # "asking"

\* Every request a client is shown is one that a turn is waiting for; only a turn
\* that got task.cancel() leaves its request behind.
PendingIsAwaited ==
    \A r \in pending :
        r[1] \notin interrupted => phase[r[1]] = "asking" /\ r = Asked(r[1])
================================================================================
