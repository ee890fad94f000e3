----------------------------- MODULE ApprovalsProofs -----------------------------
(* Proofs about Approvals, for any turns, commands and length of a batch.       *)
EXTENDS Approvals, SequenceTheorems, TLAPS

USE BatchBound, NoAnswerIsNone DEF Request

\* A longer allowlist covers as much.
LEMMA CoveredGrows ==
    ASSUME NEW S, NEW T, S \subseteq T, NEW c, Covered(S, c) PROVE Covered(T, c)
  BY DEF Covered

\* A batch is a sequence of commands.
LEMMA BatchIsSeq ==
    ASSUME NEW b \in Batch
    PROVE  b \in Seq(Command) /\ Len(b) \in 1 .. MaxBatch /\ DOMAIN b = 1 .. Len(b)
<1>1. PICK n \in 1 .. MaxBatch : b \in [1 .. n -> Command]
  BY BatchesOfCommands
<1>2. n \in Nat
  BY <1>1
<1>3. b \in Seq(Command)
  BY <1>1, <1>2, SeqDef
<1>4. Len(b) = n
  BY <1>1, <1>2, <1>3, LenProperties
<1>5. QED
  BY <1>1, <1>2, <1>3, <1>4

\* What a batch whose calls all run at once is answered with.
LEMMA AllRan ==
    ASSUME NEW b \in Seq(Command)
    PROVE  LET rs == [i \in DOMAIN b |-> "ran"]
           IN  /\ rs \in Seq(Result)
               /\ Len(rs) = Len(b)
               /\ \A i \in 1 .. Len(b) : rs[i] = "ran"
<1> DEFINE rs == [i \in DOMAIN b |-> "ran"]
<1>1. DOMAIN b = 1 .. Len(b) /\ Len(b) \in Nat
  BY LenProperties
<1>2. rs \in [1 .. Len(b) -> Result]
  BY <1>1 DEF Result
<1>3. rs \in Seq(Result)
  BY <1>1, <1>2, SeqDef
<1>4. Len(rs) = Len(b)
  BY <1>1, <1>3, LenProperties
<1>5. QED
  BY <1>1, <1>3, <1>4

\* A turn appends results; what it has answered stays.
LEMMA AppendResult ==
    ASSUME TypeOK, NEW t \in Turn, NEW x \in Result,
           results' = [results EXCEPT ![t] = Append(@, x)]
    PROVE  /\ results' \in [Turn -> Seq(Result)]
           /\ Len(results'[t]) = Len(results[t]) + 1
           /\ results'[t][Len(results[t]) + 1] = x
           /\ \A i \in 1 .. Len(results[t]) : results'[t][i] = results[t][i]
           /\ \A u \in Turn : u # t => results'[u] = results[u]
  BY AppendProperties DEF TypeOK

--------------------------------------------------------------------------------
(* The inductive invariant.                                                     *)

\* A call is answered only when its turn has come to it, and a request that is
\* shown is the one its turn waits for, or was interrupted at.
InTurn(t, i) ==
    /\ answer[<<t, i>>] # NoAnswer =>
          i <= Len(results[t]) \/ (i = At(t) /\ phase[t] \in {"asking", "over"})
    /\ <<t, i>> \in pending =>
          /\ answer[<<t, i>>] = NoAnswer
          /\ i = At(t)
          /\ phase[t] = "asking" \/ (phase[t] = "over" /\ t \in interrupted)

\* What became of call i of turn t is what was decided about it.
Decided(t, i) ==
    i <= Len(results[t]) =>
        /\ results[t][i] = "ran" /\ Restricted(batch[t][i]) =>
              Covered(stored, batch[t][i]) \/ answer[<<t, i>>] \in Allow
        /\ answer[<<t, i>>] # NoAnswer => (results[t][i] = "ran" <=> answer[<<t, i>>] \in Allow)
        /\ answer[<<t, i>>] = "allow-always" /\ HasPattern(batch[t][i]) => batch[t][i] \in stored

\* A turn asks in the middle of its batch and before any refusal.
Places(t) ==
    /\ phase[t] = "idle" => Len(results[t]) = 0
    /\ phase[t] = "asking" => At(t) <= Len(batch[t]) /\ ~Denied(t)
    /\ \A i, j \in 1 .. Len(results[t]) :
          i < j /\ results[t][i] = "denied" => results[t][j] = "skipped"

ConsentInv ==
    /\ TypeOK
    /\ allowlist = stored
    /\ \A t \in Turn : Places(t) /\ \A i \in 1 .. MaxBatch : InTurn(t, i) /\ Decided(t, i)

\* At the start nothing is asked, and the allowlist is what the file holds.
LEMMA ConsentInvInit == Init => ConsentInv
<1> SUFFICES ASSUME Init PROVE ConsentInv
  OBVIOUS
<1>1. <<>> \in Seq(Command) /\ <<>> \in Seq(Result) /\ Len(<<>>) = 0
  BY EmptySeq
<1>2. TypeOK
  BY <1>1 DEF Init, TypeOK
<1>3. \A t \in Turn : Places(t) /\ \A i \in 1 .. MaxBatch : InTurn(t, i) /\ Decided(t, i)
  BY <1>1 DEF Init, Places, InTurn, Decided
<1>4. QED
  BY <1>2, <1>3 DEF ConsentInv, Init

\* Where a turn stands keeps what is known about it as long as its own calls,
\* results and answers stay and its requests are at most withdrawn.
LEMMA TurnUntouched ==
    ASSUME ConsentInv, NEW u \in Turn,
           results'[u] = results[u], batch'[u] = batch[u], phase'[u] = phase[u],
           \A i \in 1 .. MaxBatch : answer'[<<u, i>>] = answer[<<u, i>>],
           \A i \in 1 .. MaxBatch : <<u, i>> \in pending' => <<u, i>> \in pending,
           stored \subseteq stored', interrupted \subseteq interrupted'
    PROVE  (Places(u) /\ \A i \in 1 .. MaxBatch : InTurn(u, i) /\ Decided(u, i))'
<1>1. Places(u)'
  BY DEF ConsentInv, Places, At, Denied
<1>2. ASSUME NEW i \in 1 .. MaxBatch PROVE InTurn(u, i)' /\ Decided(u, i)'
  <2>1. Covered(stored, batch[u][i]) => Covered(stored', batch[u][i])
    BY CoveredGrows
  <2>2. QED
    BY <2>1 DEF ConsentInv, InTurn, Decided, At
<1>3. QED
  BY <1>1, <1>2

\* A turn starts a batch: all of it runs from the allowlist, or none has run yet.
LEMMA StartKeepsInv ==
    ASSUME ConsentInv, NEW t \in Turn, NEW b \in Batch, Start(t, b)
    PROVE  ConsentInv'
<1> USE DEF ConsentInv
<1>1. b \in Seq(Command) /\ Len(b) \in 1 .. MaxBatch /\ DOMAIN b = 1 .. Len(b)
  BY BatchIsSeq
<1>2. \A u \in Turn \ {t} : results'[u] = results[u] /\ batch'[u] = batch[u] /\ phase'[u] = phase[u]
  BY DEF Start, RunConcurrently, RunInOrder, TypeOK
<1>3. ASSUME NEW i \in 1 .. MaxBatch PROVE answer[<<t, i>>] = NoAnswer /\ <<t, i>> \notin pending
  <2>1. InTurn(t, i) /\ phase[t] = "idle" /\ Len(results[t]) = 0
    BY DEF Start, Places
  <2>2. QED
    BY <2>1 DEF InTurn
<1>4. CASE RunConcurrently(t, b)
  <2> DEFINE rs == [i \in DOMAIN b |-> "ran"]
  <2>1. rs \in Seq(Result) /\ Len(rs) = Len(b) /\ \A i \in 1 .. Len(b) : rs[i] = "ran"
    BY <1>1, AllRan
  <2>2. results' = [results EXCEPT ![t] = rs] /\ batch' = [batch EXCEPT ![t] = b]
        /\ phase' = [phase EXCEPT ![t] = "over"]
    BY <1>4 DEF Start, RunConcurrently
  <2>3. results'[t] = rs /\ batch'[t] = b /\ phase'[t] = "over"
    BY <2>2 DEF TypeOK
  <2>4. TypeOK'
    <3> HIDE DEF rs
    <3> QED
      BY <1>1, <1>2, <2>1, <2>2, <2>3 DEF TypeOK, Start
  <2>5. \A i \in 1 .. Len(b) : Restricted(b[i]) => Covered(stored, b[i])
    BY <1>1, <1>4 DEF RunConcurrently, RequiresApproval, Restricted
  <2>6. Places(t)'
    <3> HIDE DEF rs
    <3> QED
      BY <2>1, <2>3 DEF Places, Result
  <2>7. ASSUME NEW i \in 1 .. MaxBatch PROVE InTurn(t, i)' /\ Decided(t, i)'
    <3> HIDE DEF rs
    <3> QED
      BY <1>3, <2>1, <2>3, <2>5 DEF InTurn, Decided, Start, Allow
  <2>8. \A u \in Turn \ {t} :
            (Places(u) /\ \A i \in 1 .. MaxBatch : InTurn(u, i) /\ Decided(u, i))'
    BY <1>2, TurnUntouched DEF Start
  <2>9. QED
    BY <2>4, <2>6, <2>7, <2>8 DEF Start
<1>5. CASE RunInOrder(t, b)
  <2>1. results'[t] = results[t] /\ Len(results[t]) = 0 /\ batch'[t] = b /\ phase'[t] = "dispatching"
    BY <1>5 DEF RunInOrder, Start, Places, TypeOK
  <2>2. TypeOK'
    BY <1>1, <1>2, <1>5, <2>1 DEF TypeOK, Start, RunInOrder
  <2>3. (Places(t) /\ \A i \in 1 .. MaxBatch : InTurn(t, i) /\ Decided(t, i))'
    BY <1>3, <2>1 DEF Places, InTurn, Decided, Start
  <2>4. \A u \in Turn \ {t} :
            (Places(u) /\ \A i \in 1 .. MaxBatch : InTurn(u, i) /\ Decided(u, i))'
    BY <1>2, TurnUntouched DEF Start
  <2>5. QED
    BY <2>2, <2>3, <2>4 DEF Start
<1>6. QED
  BY <1>4, <1>5 DEF Start

\* A turn that goes on with its batch: the next call is answered with x.
LEMMA NextResultKeepsInv ==
    ASSUME ConsentInv, NEW t \in Turn, NEW x \in Result,
           phase[t] \in {"dispatching", "asking"}, At(t) <= Len(batch[t]),
           results' = [results EXCEPT ![t] = Append(@, x)],
           phase' = [phase EXCEPT ![t] = "dispatching"],
           UNCHANGED <<batch, answer, cancelled, interrupted, unattended>>,
           allowlist' = stored', stored \subseteq stored', stored' \in SUBSET Command,
           pending' \subseteq pending, Asked(t) \notin pending',
           Denied(t) => x = "skipped",
           x = "ran" /\ Restricted(Cmd(t)) =>
               Covered(stored', Cmd(t)) \/ answer[Asked(t)] \in Allow,
           answer[Asked(t)] # NoAnswer => (x = "ran" <=> answer[Asked(t)] \in Allow),
           answer[Asked(t)] = "allow-always" /\ HasPattern(Cmd(t)) => Cmd(t) \in stored'
    PROVE  ConsentInv'
<1> USE DEF ConsentInv
<1>1. /\ results' \in [Turn -> Seq(Result)]
      /\ Len(results'[t]) = Len(results[t]) + 1
      /\ results'[t][Len(results[t]) + 1] = x
      /\ \A i \in 1 .. Len(results[t]) : results'[t][i] = results[t][i]
      /\ \A u \in Turn : u # t => results'[u] = results[u]
  BY AppendResult
<1>2. Len(results[t]) \in Nat /\ Len(batch[t]) \in Nat
  BY LenProperties DEF TypeOK
<1>3. phase'[t] = "dispatching" /\ \A u \in Turn : u # t => phase'[u] = phase[u]
  BY DEF TypeOK
<1>4. TypeOK'
  BY <1>1, <1>2 DEF TypeOK, At
<1>5. Places(t)'
  BY <1>1, <1>2, <1>3 DEF Places, Denied
<1>6. ASSUME NEW i \in 1 .. MaxBatch PROVE InTurn(t, i)' /\ Decided(t, i)'
  <2>1. InTurn(t, i) /\ Decided(t, i)
    OBVIOUS
  <2>2. i \in Int /\ (i <= Len(results[t]) => i \in 1 .. Len(results[t]))
    BY <1>2
  <2>3. answer' = answer /\ batch' = batch /\ stored \subseteq stored'
    OBVIOUS
  <2>4. <<t, i>> \notin pending'
    BY <2>1 DEF InTurn, Asked
  <2>5. answer[<<t, i>>] # NoAnswer => i <= Len(results[t]) \/ i = Len(results[t]) + 1
    BY <2>1 DEF InTurn, At
  <2>6. InTurn(t, i)'
    BY <1>1, <1>2, <2>2, <2>3, <2>4, <2>5 DEF InTurn
  <2>7. CASE i <= Len(results[t])
    <3>1. results'[t][i] = results[t][i]
      BY <1>1, <2>2, <2>7
    <3>2. Covered(stored, batch[t][i]) => Covered(stored', batch[t][i])
      BY CoveredGrows
    <3>3. QED
      BY <2>1, <2>3, <2>6, <2>7, <3>1, <3>2, <1>1 DEF Decided
  <2>8. CASE i = Len(results[t]) + 1
    <3>1. results'[t][i] = x /\ i = At(t) /\ <<t, i>> = Asked(t) /\ batch[t][i] = Cmd(t)
      BY <1>1, <2>8 DEF At, Asked, Cmd
    <3>2. QED
      BY <2>3, <2>6, <3>1 DEF Decided
  <2>9. CASE i > Len(results[t]) + 1
    BY <1>1, <1>2, <2>2, <2>6, <2>9 DEF Decided
  <2>10. QED
    BY <1>2, <2>2, <2>6, <2>7, <2>8, <2>9
<1>7. \A u \in Turn : u # t =>
          (Places(u) /\ \A i \in 1 .. MaxBatch : InTurn(u, i) /\ Decided(u, i))'
  BY <1>1, <1>3, TurnUntouched
<1>8. QED
  BY <1>4, <1>5, <1>6, <1>7

\* A dispatching turn has no request, and its next call no answer.
LEMMA DispatchingIsUnasked ==
    ASSUME ConsentInv, NEW t \in Turn, phase[t] = "dispatching", At(t) <= Len(batch[t])
    PROVE  /\ At(t) \in 1 .. MaxBatch
           /\ Asked(t) \notin pending
           /\ answer[Asked(t)] = NoAnswer
<1>1. Len(results[t]) \in Nat /\ Len(batch[t]) \in Nat /\ Len(batch[t]) <= MaxBatch
  BY LenProperties DEF ConsentInv, TypeOK
<1>2. At(t) \in 1 .. MaxBatch
  BY <1>1 DEF At
<1>3. InTurn(t, At(t))
  BY <1>2 DEF ConsentInv
<1>4. QED
  BY <1>1, <1>2, <1>3 DEF InTurn, Asked, At

\* A call runs that the allowlist covers or the policy does not restrict.
LEMMA RunNextKeepsInv ==
    ASSUME ConsentInv, NEW t \in Turn, RunNext(t) PROVE ConsentInv'
<1>1. /\ phase[t] = "dispatching" /\ At(t) <= Len(batch[t])
      /\ Restricted(Cmd(t)) => Covered(stored, Cmd(t))
  BY DEF RunNext, Dispatching, Gated, RequiresApproval, Restricted, ConsentInv
<1>2. phase' = [phase EXCEPT ![t] = "dispatching"]
  BY <1>1 DEF RunNext, ConsentInv, TypeOK
<1>3. Asked(t) \notin pending /\ answer[Asked(t)] = NoAnswer
  BY <1>1, DispatchingIsUnasked
<1>4. "ran" \in Result
  BY DEF Result
<1>5. QED
  BY <1>1, <1>2, <1>3, <1>4, NextResultKeepsInv DEF RunNext, ConsentInv, TypeOK

\* A call after a refusal is answered without running.
LEMMA SkipNextKeepsInv ==
    ASSUME ConsentInv, NEW t \in Turn, SkipNext(t) PROVE ConsentInv'
<1>1. phase[t] = "dispatching" /\ At(t) <= Len(batch[t])
  BY DEF SkipNext, Dispatching
<1>2. phase' = [phase EXCEPT ![t] = "dispatching"]
  BY <1>1 DEF SkipNext, ConsentInv, TypeOK
<1>3. Asked(t) \notin pending /\ answer[Asked(t)] = NoAnswer
  BY <1>1, DispatchingIsUnasked
<1>4. "skipped" \in Result
  BY DEF Result
<1>5. QED
  BY <1>1, <1>2, <1>3, <1>4, NextResultKeepsInv DEF SkipNext, ConsentInv, TypeOK

\* A call that nobody can be asked about is denied.
LEMMA DenyNextKeepsInv ==
    ASSUME ConsentInv, NEW t \in Turn, DenyNext(t) PROVE ConsentInv'
<1>1. phase[t] = "dispatching" /\ At(t) <= Len(batch[t]) /\ ~Denied(t)
  BY DEF DenyNext, Dispatching
<1>2. phase' = [phase EXCEPT ![t] = "dispatching"]
  BY <1>1 DEF DenyNext, ConsentInv, TypeOK
<1>3. Asked(t) \notin pending /\ answer[Asked(t)] = NoAnswer
  BY <1>1, DispatchingIsUnasked
<1>4. "denied" \in Result
  BY DEF Result
<1>5. QED
  BY <1>1, <1>2, <1>3, <1>4, NextResultKeepsInv DEF DenyNext, ConsentInv, TypeOK

\* The answer, or a withdrawal, reaches the turn that waits for it.
LEMMA ResumeKeepsInv ==
    ASSUME ConsentInv, NEW t \in Turn, Resume(t) PROVE ConsentInv'
<1>1. phase[t] = "asking" /\ At(t) <= Len(batch[t]) /\ ~Denied(t)
  BY DEF Resume, ConsentInv, Places
<1>2. Len(results[t]) \in Nat /\ Len(batch[t]) \in Nat /\ Len(batch[t]) <= MaxBatch
  BY LenProperties DEF ConsentInv, TypeOK
<1>3. At(t) \in 1 .. MaxBatch /\ At(t) \in 1 .. Len(batch[t])
  BY <1>1, <1>2 DEF At
<1>4. InTurn(t, At(t)) /\ Cmd(t) \in Command /\ answer[Asked(t)] \in Decision \cup {NoAnswer}
  BY <1>3, ElementOfSeq DEF ConsentInv, TypeOK, Cmd, Asked
<1>5. ASSUME NEW d \in Decision, ResumeWith(t, d), pending' \subseteq pending,
             Asked(t) \notin pending', answer[Asked(t)] \in {d, NoAnswer},
             answer[Asked(t)] = NoAnswer => d = "deny"
      PROVE  ConsentInv'
  <2> DEFINE x == IF d \in Allow THEN "ran" ELSE "denied"
  <2>1. x \in Result
    BY DEF Result
  <2>2. /\ results' = [results EXCEPT ![t] = Append(@, x)]
        /\ phase' = [phase EXCEPT ![t] = "dispatching"]
        /\ UNCHANGED <<batch, answer, cancelled, interrupted, unattended>>
    BY <1>5 DEF ResumeWith
  <2>3. /\ allowlist' = stored' /\ stored \subseteq stored' /\ stored' \in SUBSET Command
        /\ d = "allow-always" /\ HasPattern(Cmd(t)) => Cmd(t) \in stored'
    BY <1>4, <1>5 DEF ResumeWith, Record, Added, ConsentInv, TypeOK
  <2>4. x = "ran" => answer[Asked(t)] \in Allow
    BY <1>5 DEF Allow
  <2>5. answer[Asked(t)] # NoAnswer => (x = "ran" <=> answer[Asked(t)] \in Allow)
    BY <1>5
  <2>6. answer[Asked(t)] = "allow-always" /\ HasPattern(Cmd(t)) => Cmd(t) \in stored'
    BY <1>5, <2>3
  <2> HIDE DEF x
  <2>7. QED
    BY <1>1, <1>5, <2>1, <2>2, <2>3, <2>4, <2>5, <2>6, NextResultKeepsInv
<1>6. CASE answer[Asked(t)] # NoAnswer
  BY <1>4, <1>5, <1>6 DEF Resume, InTurn, Asked
<1>7. CASE answer[Asked(t)] = NoAnswer
  BY <1>5, <1>7 DEF Resume, Decision
<1>8. QED
  BY <1>6, <1>7

\* A turn that asks, or stops.
LEMMA AskKeepsInv ==
    ASSUME ConsentInv, NEW t \in Turn, Ask(t) PROVE ConsentInv'
<1> USE DEF ConsentInv
<1>1. phase[t] = "dispatching" /\ At(t) <= Len(batch[t]) /\ ~Denied(t)
  BY DEF Ask, Dispatching
<1>2. At(t) \in 1 .. MaxBatch /\ Asked(t) \notin pending /\ answer[Asked(t)] = NoAnswer
  BY <1>1, DispatchingIsUnasked
<1>3. phase'[t] = "asking" /\ \A u \in Turn : u # t => phase'[u] = phase[u]
  BY DEF Ask, TypeOK
<1>4. TypeOK'
  BY <1>2 DEF Ask, TypeOK, Asked
<1>5. Places(t)'
  BY <1>1, <1>3 DEF Ask, Places, At, Denied
<1>6. ASSUME NEW i \in 1 .. MaxBatch PROVE InTurn(t, i)' /\ Decided(t, i)'
  <2>1. InTurn(t, i) /\ Decided(t, i)
    OBVIOUS
  <2>2. <<t, i>> \in pending' => i = At(t)
    BY <1>1, <2>1 DEF Ask, InTurn, Asked
  <2>3. answer[<<t, i>>] # NoAnswer => i <= Len(results[t])
    BY <1>1, <2>1 DEF InTurn
  <2>4. InTurn(t, i)'
    BY <1>2, <1>3, <2>2, <2>3 DEF Ask, InTurn, Asked, At
  <2>5. QED
    BY <2>1, <2>4 DEF Ask, Decided
<1>7. ASSUME NEW u \in Turn, u # t
      PROVE  (Places(u) /\ \A i \in 1 .. MaxBatch : InTurn(u, i) /\ Decided(u, i))'
  <2>1. \A i \in 1 .. MaxBatch : <<u, i>> \in pending' => <<u, i>> \in pending
    BY <1>7 DEF Ask, Asked
  <2>2. QED
    BY <1>3, <1>7, <2>1, TurnUntouched DEF Ask
<1>8. QED
  BY <1>4, <1>5, <1>6, <1>7 DEF Ask

\* The turns that go over keep their results; the requests left are of interrupted ones.
LEMMA TurnOver ==
    ASSUME ConsentInv, NEW u \in Turn,
           results'[u] = results[u], batch'[u] = batch[u], phase'[u] = "over",
           answer' = answer, stored' = stored, interrupted' = interrupted,
           pending' \subseteq pending,
           u \in interrupted \/ \A i \in 1 .. MaxBatch : <<u, i>> \notin pending'
    PROVE  (Places(u) /\ \A i \in 1 .. MaxBatch : InTurn(u, i) /\ Decided(u, i))'
<1>1. Places(u)'
  BY DEF ConsentInv, Places
<1>2. ASSUME NEW i \in 1 .. MaxBatch PROVE InTurn(u, i)' /\ Decided(u, i)'
  <2>1. Covered(stored, batch[u][i]) => Covered(stored', batch[u][i])
    BY CoveredGrows
  <2>2. QED
    BY <2>1 DEF ConsentInv, InTurn, Decided, At
<1>3. QED
  BY <1>1, <1>2

\* The batch is dispatched, and leaves no request behind.
LEMMA BatchEndsKeepsInv ==
    ASSUME ConsentInv, NEW t \in Turn, BatchEnds(t) PROVE ConsentInv'
<1> USE DEF ConsentInv
<1>1. TypeOK' /\ phase'[t] = "over" /\ \A u \in Turn : u # t => phase'[u] = phase[u]
  BY DEF BatchEnds, TypeOK
<1>2. \A i \in 1 .. MaxBatch : <<t, i>> \notin pending
  BY DEF BatchEnds, InTurn
<1>3. (Places(t) /\ \A i \in 1 .. MaxBatch : InTurn(t, i) /\ Decided(t, i))'
  BY <1>1, <1>2, TurnOver DEF BatchEnds
<1>4. \A u \in Turn : u # t =>
          (Places(u) /\ \A i \in 1 .. MaxBatch : InTurn(u, i) /\ Decided(u, i))'
  BY <1>1, TurnUntouched DEF BatchEnds
<1>5. QED
  BY <1>1, <1>3, <1>4 DEF BatchEnds

\* A turn that got task.cancel() stops, and may leave its request behind.
LEMMA InterruptedKeepsInv ==
    ASSUME ConsentInv, NEW t \in Turn, Interrupted(t) PROVE ConsentInv'
<1> USE DEF ConsentInv
<1>1. TypeOK' /\ phase'[t] = "over" /\ \A u \in Turn : u # t => phase'[u] = phase[u]
  BY DEF Interrupted, TypeOK
<1>2. (Places(t) /\ \A i \in 1 .. MaxBatch : InTurn(t, i) /\ Decided(t, i))'
  BY <1>1, TurnOver DEF Interrupted
<1>3. \A u \in Turn : u # t =>
          (Places(u) /\ \A i \in 1 .. MaxBatch : InTurn(u, i) /\ Decided(u, i))'
  BY <1>1, TurnUntouched DEF Interrupted
<1>4. QED
  BY <1>1, <1>2, <1>3 DEF Interrupted

\* chat_abort touches the two flags only.
LEMMA AbortKeepsInv ==
    ASSUME ConsentInv, NEW t \in Turn, Cancel(t) \/ Interrupt(t) PROVE ConsentInv'
<1> USE DEF ConsentInv
<1>1. TypeOK' /\ interrupted \subseteq interrupted'
      /\ UNCHANGED <<batch, results, phase, pending, answer, unattended, allowlist, stored>>
  BY DEF Cancel, Interrupt, TypeOK
<1>2. \A u \in Turn : (Places(u) /\ \A i \in 1 .. MaxBatch : InTurn(u, i) /\ Decided(u, i))'
  BY <1>1, TurnUntouched
<1>3. QED
  BY <1>1, <1>2

\* Answers to requests that are shown: one, or all of them.
LEMMA AnswersKeepInv ==
    ASSUME ConsentInv, UNCHANGED <<batch, results, phase, cancelled, interrupted, unattended,
                                   allowlist, stored>>,
           answer' \in [Request -> Decision \cup {NoAnswer}], pending' \subseteq pending,
           \A r \in Request : answer'[r] # answer[r] => r \in pending /\ r \notin pending'
    PROVE  ConsentInv'
<1> USE DEF ConsentInv
<1>1. TypeOK'
  BY DEF TypeOK
<1>2. ASSUME NEW t \in Turn PROVE Places(t)'
  BY DEF Places, At, Denied
<1>3. ASSUME NEW t \in Turn, NEW i \in 1 .. MaxBatch PROVE InTurn(t, i)' /\ Decided(t, i)'
  <2>1. InTurn(t, i) /\ Decided(t, i) /\ <<t, i>> \in Request
    OBVIOUS
  <2>2. Len(results[t]) \in Nat
    BY LenProperties DEF TypeOK
  <2>3. CASE answer'[<<t, i>>] = answer[<<t, i>>]
    BY <2>1, <2>3 DEF InTurn, Decided, At
  <2>4. CASE answer'[<<t, i>>] # answer[<<t, i>>]
    <3>1. <<t, i>> \in pending /\ <<t, i>> \notin pending'
      BY <2>1, <2>4
    <3>2. i = At(t) /\ phase[t] \in {"asking", "over"} /\ i = Len(results[t]) + 1
      BY <2>1, <3>1 DEF InTurn, At
    <3>3. QED
      BY <2>2, <3>1, <3>2 DEF InTurn, Decided, At
  <2>5. QED
    BY <2>3, <2>4
<1>4. QED
  BY <1>1, <1>2, <1>3

\* approvals_respond answers a request that is shown.
LEMMA DecideKeepsInv ==
    ASSUME ConsentInv, NEW r \in Request, NEW d \in Decision, Decide(r, d) PROVE ConsentInv'
<1>1. answer' \in [Request -> Decision \cup {NoAnswer}]
  BY DEF Decide, ConsentInv, TypeOK
<1>2. \A q \in Request : answer'[q] # answer[q] => q \in pending /\ q \notin pending'
  BY DEF Decide, ConsentInv, TypeOK
<1>3. QED
  BY <1>1, <1>2, AnswersKeepInv DEF Decide

\* aclose denies all requests that are shown.
LEMMA DenyAllKeepsInv ==
    ASSUME ConsentInv, DenyAll PROVE ConsentInv'
<1>1. answer' \in [Request -> Decision \cup {NoAnswer}]
  BY DEF DenyAll, ConsentInv, TypeOK, Decision
<1>2. \A q \in Request : answer'[q] # answer[q] => q \in pending /\ q \notin pending'
  BY DEF DenyAll, ConsentInv, TypeOK
<1>3. QED
  BY <1>1, <1>2, AnswersKeepInv DEF DenyAll

\* A restart ends every turn and reads the allowlist back.
LEMMA RestartKeepsInv ==
    ASSUME ConsentInv, Restart PROVE ConsentInv'
<1> USE DEF ConsentInv
<1>1. TypeOK'
  BY DEF Restart, TypeOK
<1>2. ASSUME NEW t \in Turn
      PROVE  (Places(t) /\ \A i \in 1 .. MaxBatch : InTurn(t, i) /\ Decided(t, i))'
  <2>1. CASE phase[t] = "idle"
    BY <2>1, TurnUntouched DEF Restart
  <2>2. CASE phase[t] # "idle"
    BY <2>2, TurnOver DEF Restart
  <2>3. QED
    BY <2>1, <2>2
<1>3. QED
  BY <1>1, <1>2 DEF Restart

\* Every step keeps the invariant.
LEMMA ConsentInvStep == ConsentInv /\ [Next]_vars => ConsentInv'
<1> SUFFICES ASSUME ConsentInv, [Next]_vars PROVE ConsentInv'
  OBVIOUS
<1>1. ASSUME NEW t \in Turn, NEW b \in Batch, Start(t, b) PROVE ConsentInv'
  BY <1>1, StartKeepsInv
<1>2. ASSUME NEW t \in Turn,
             RunNext(t) \/ SkipNext(t) \/ DenyNext(t) \/ Ask(t) \/ BatchEnds(t) \/ Resume(t)
      PROVE  ConsentInv'
  BY <1>2, RunNextKeepsInv, SkipNextKeepsInv, DenyNextKeepsInv, AskKeepsInv, BatchEndsKeepsInv, ResumeKeepsInv
<1>3. ASSUME NEW t \in Turn, Interrupted(t) \/ Cancel(t) \/ Interrupt(t) PROVE ConsentInv'
  BY <1>3, InterruptedKeepsInv, AbortKeepsInv
<1>4. ASSUME NEW r \in Request, NEW d \in Decision, Decide(r, d) PROVE ConsentInv'
  BY <1>4, DecideKeepsInv
<1>5. CASE DenyAll
  BY <1>5, DenyAllKeepsInv
<1>6. CASE Restart
  BY <1>6, RestartKeepsInv
<1>7. CASE UNCHANGED vars
  <2>1. TypeOK' /\ allowlist' = stored'
    BY <1>7 DEF vars, ConsentInv, TypeOK
  <2>2. \A t \in Turn : (Places(t) /\ \A i \in 1 .. MaxBatch : InTurn(t, i) /\ Decided(t, i))'
    BY <1>7, TurnUntouched DEF vars
  <2>3. QED
    BY <2>1, <2>2 DEF ConsentInv
<1>8. QED
  BY <1>1, <1>2, <1>3, <1>4, <1>5, <1>6, <1>7 DEF Next

\* ConsentInv, the types included, holds of every state of the approval flow:
\* dispatch, prompts, answers, chat_abort, aclose and restarts of the daemon.
THEOREM ConsentInvariant == Spec => []ConsentInv
  BY ConsentInvInit, ConsentInvStep, PTL DEF Spec

--------------------------------------------------------------------------------
(* What follows from it.                                                        *)

\* RunsOnlyWithConsent: no command of a batch that the policy restricts runs unless
\* its pattern is stored in exec-approvals.json or a client allowed this very call;
\* denials, withdrawn prompts, unattended turns, aclose and restarts included.  What
\* the policy does not restrict is what check_request exempts, and the installations
\* of Python packages that dispatch does not ask it about.
THEOREM ConsentIsRequired == Spec => []RunsOnlyWithConsent
<1>1. ConsentInv => RunsOnlyWithConsent
  <2> SUFFICES ASSUME ConsentInv, NEW t \in Turn, NEW i \in 1 .. Len(results[t]),
                      results[t][i] = "ran", Restricted(batch[t][i])
               PROVE  Covered(stored, batch[t][i]) \/ answer[<<t, i>>] \in Allow
    BY DEF RunsOnlyWithConsent
  <2>1. i \in 1 .. MaxBatch /\ i <= Len(results[t])
    BY LenProperties DEF ConsentInv, TypeOK
  <2>2. QED
    BY <2>1 DEF ConsentInv, Decided
<1>2. QED
  BY <1>1, ConsentInvariant, PTL

\* AnswerIsObeyed: a call that a client answered and the turn went past ran exactly
\* if the answer allowed it, cancelled turns included.
THEOREM AnswersAreObeyed == Spec => []AnswerIsObeyed
<1>1. ConsentInv => AnswerIsObeyed
  <2> SUFFICES ASSUME ConsentInv, NEW t \in Turn, NEW i \in 1 .. Len(results[t]),
                      answer[<<t, i>>] # NoAnswer
               PROVE  results[t][i] = "ran" <=> answer[<<t, i>>] \in Allow
    BY DEF AnswerIsObeyed
  <2>1. i \in 1 .. MaxBatch /\ i <= Len(results[t])
    BY LenProperties DEF ConsentInv, TypeOK
  <2>2. QED
    BY <2>1 DEF ConsentInv, Decided
<1>2. QED
  BY <1>1, ConsentInvariant, PTL

\* RefusalStopsBatch: after a refused call a turn runs and asks nothing more of the
\* batch (_dispatch_tool_batch answers the rest as skipped).
THEOREM RefusalIsFinal == Spec => []RefusalStopsBatch
<1>1. ConsentInv => RefusalStopsBatch
  BY DEF ConsentInv, Places, RefusalStopsBatch
<1>2. QED
  BY <1>1, ConsentInvariant, PTL

\* PendingIsAwaited: a request ApprovalBroker shows to clients is the one its turn
\* waits for, unless task.cancel() struck the turn.
THEOREM RequestsAreAwaited == Spec => []PendingIsAwaited
<1>1. ConsentInv => PendingIsAwaited
  <2> SUFFICES ASSUME ConsentInv, NEW r \in pending, r[1] \notin interrupted
               PROVE  phase[r[1]] = "asking" /\ r = Asked(r[1])
    BY DEF PendingIsAwaited
  <2>1. PICK t \in Turn, i \in 1 .. MaxBatch : r = <<t, i>>
    BY DEF ConsentInv, TypeOK
  <2>2. InTurn(t, i)
    BY DEF ConsentInv
  <2>3. QED
    BY <2>1, <2>2 DEF InTurn, Asked
<1>2. QED
  BY <1>1, ConsentInvariant, PTL

\* Only Ask makes a turn wait for a client.
LEMMA OnlyAskAsks ==
    ASSUME ConsentInv, [Next]_vars, NEW t \in Turn,
           phase[t] # "asking", phase'[t] = "asking"
    PROVE  Ask(t)
<1> USE DEF ConsentInv, TypeOK
<1>1. ASSUME NEW u \in Turn, NEW b \in Batch, Start(u, b) PROVE FALSE
  BY <1>1 DEF Start, RunConcurrently, RunInOrder
<1>2. ASSUME NEW u \in Turn, Ask(u) PROVE u = t
  BY <1>2 DEF Ask
<1>3. ASSUME NEW u \in Turn, RunNext(u) \/ SkipNext(u) \/ DenyNext(u) \/ BatchEnds(u) \/ Interrupted(u)
                             \/ Cancel(u) \/ Interrupt(u)
      PROVE  FALSE
  BY <1>3 DEF RunNext, SkipNext, DenyNext, BatchEnds, Interrupted, Cancel, Interrupt
<1>4. ASSUME NEW u \in Turn, Resume(u) PROVE FALSE
  BY <1>4 DEF Resume, ResumeWith
<1>5. ASSUME NEW r \in Request, NEW d \in Decision, Decide(r, d) PROVE FALSE
  BY <1>5 DEF Decide
<1>6. ~DenyAll /\ ~Restart /\ ~UNCHANGED vars
  BY DEF DenyAll, Restart, vars
<1>7. QED
  BY <1>1, <1>2, <1>3, <1>4, <1>5, <1>6 DEF Next

\* AllowAlwaysIsForever: once a turn acted on allow-always, no turn is asked about
\* the command again, restarts included: record_decision stores the pattern before
\* the call runs, and check_request finds it in every later dispatch.
THEOREM AlwaysMeansForever == Spec => AllowAlwaysIsForever
<1> DEFINE AskedAnew == \A t \in Turn : phase[t] # "asking" /\ phase'[t] = "asking" =>
                                            ~Covered(Granted, Cmd(t))
<1>1. ConsentInv => \A c \in Granted : HasPattern(c) => c \in stored
  <2> SUFFICES ASSUME ConsentInv, NEW r \in Request,
                      r[2] <= Len(results[r[1]]), answer[r] = "allow-always",
                      HasPattern(batch[r[1]][r[2]])
               PROVE  batch[r[1]][r[2]] \in stored
    BY DEF Granted
  <2>1. r[1] \in Turn /\ r[2] \in 1 .. MaxBatch /\ r = <<r[1], r[2]>>
    OBVIOUS
  <2>2. Decided(r[1], r[2])
    BY <2>1 DEF ConsentInv
  <2>3. QED
    BY <2>1, <2>2 DEF Decided
<1>2. ConsentInv /\ [Next]_vars => AskedAnew
  <2> SUFFICES ASSUME ConsentInv, [Next]_vars, NEW t \in Turn,
                      phase[t] # "asking", phase'[t] = "asking"
               PROVE  ~Covered(Granted, Cmd(t))
    OBVIOUS
  <2>1. Ask(t)
    BY OnlyAskAsks
  <2>2. ~Covered(allowlist, Cmd(t))
    BY <2>1 DEF Ask, Gated, RequiresApproval
  <2>3. \A d \in Granted : <<d, Cmd(t)>> \in Matches => HasPattern(d)
    BY MatchesCommands DEF HasPattern
  <2>4. QED
    BY <2>2, <2>3, <1>1 DEF ConsentInv, Covered
<1>3. QED
  BY <1>2, ConsentInvariant, PTL DEF Spec, AllowAlwaysIsForever
================================================================================
