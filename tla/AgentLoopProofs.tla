---------------------------- MODULE AgentLoopProofs ----------------------------
(* Proofs about AgentLoop, for any number of turns, rounds, groups of calls,    *)
(* compactions and resets, and any number of recent turns a compaction keeps.   *)
EXTENDS AgentLoop, SequenceTheorems, WellFoundedInduction, TLAPS

--------------------------------------------------------------------------------
(* Messages.                                                                    *)

\* A message is told by its kind and its number; only a summary holds others.
LEMMA MessageFacts ==
    /\ \A m \in Message : /\ m.kind = "calls" => m = Calls(m.id) /\ m.id \in 1 .. MaxGroup
                          /\ IsReply(m) => /\ m = Results(m.id) \/ m = Stub(m.id)
                                           /\ m.id \in 1 .. MaxGroup
                          /\ m.kind # "summary" => m \in Plain
                          /\ m.kind = "summary" => m.from \subseteq Plain
                          /\ IsText(m) => m.kind # "calls" /\ ~IsReply(m)
    /\ Plain \subseteq Message
    /\ \A m \in Plain : m.kind # "summary"
    /\ \A g \in 1 .. MaxGroup : {Calls(g), Results(g), Stub(g)} \subseteq Plain
    /\ \A g : /\ Calls(g).kind = "calls" /\ Calls(g).id = g
              /\ Results(g).kind = "results" /\ Results(g).id = g
              /\ Stub(g).kind = "stub" /\ Stub(g).id = g
              /\ IsReply(Results(g)) /\ IsReply(Stub(g)) /\ ~IsReply(Calls(g))
              /\ ~IsText(Results(g)) /\ ~IsText(Stub(g)) /\ ~IsText(Calls(g))
    /\ \A t \in 1 .. MaxTurn : {Request(t), Answer(t)} \subseteq Plain
    /\ \A t : /\ Request(t).kind = "request" /\ Request(t).id = t /\ IsText(Request(t))
              /\ Answer(t).kind = "answer" /\ ~IsText(Answer(t)) /\ ~IsReply(Answer(t))
    /\ Note \in Plain /\ Note.kind = "note"
    /\ \A from \in SUBSET Plain : /\ Summary(from) \in Message
                                  /\ Summary(from).kind = "summary"
                                  /\ Summary(from).from = from
<1> USE DEF IsText, IsReply, Calls, Results, Stub, Request, Answer, Note, Summary
<1>1. \A m \in Plain : /\ m.kind = "calls" => m = Calls(m.id) /\ m.id \in 1 .. MaxGroup
                       /\ IsReply(m) => /\ m = Results(m.id) \/ m = Stub(m.id)
                                        /\ m.id \in 1 .. MaxGroup
                       /\ m.kind # "summary"
  BY DEF Plain
<1>2. \A m \in Message \ Plain : m.kind = "summary" /\ m.from \subseteq Plain
  BY DEF Message
<1>3. Plain \subseteq Message
  BY DEF Message
<1>4. \A m \in Message : /\ m.kind = "calls" => m = Calls(m.id) /\ m.id \in 1 .. MaxGroup
                         /\ IsReply(m) => /\ m = Results(m.id) \/ m = Stub(m.id)
                                          /\ m.id \in 1 .. MaxGroup
                         /\ m.kind # "summary" => m \in Plain
                         /\ m.kind = "summary" => m.from \subseteq Plain
                         /\ IsText(m) => m.kind # "calls" /\ ~IsReply(m)
  BY <1>1, <1>2
<1>5. \A g \in 1 .. MaxGroup : {Calls(g), Results(g), Stub(g)} \subseteq Plain
  BY DEF Plain
<1>6. \A t \in 1 .. MaxTurn : {Request(t), Answer(t)} \subseteq Plain
  BY DEF Plain
<1>7. Note \in Plain /\ Note.kind = "note"
  BY DEF Plain
<1>8. \A from \in SUBSET Plain : /\ Summary(from) \in Message
                                 /\ Summary(from).kind = "summary"
                                 /\ Summary(from).from = from
  BY DEF Message
<1>9. QED
  BY <1>1, <1>3, <1>4, <1>5, <1>6, <1>7, <1>8

--------------------------------------------------------------------------------
(* Last places.                                                                 *)

\* A set of integers with a bound has a maximum.
LEMMA MaxIsLast ==
    ASSUME NEW b \in Int, NEW S \in SUBSET Int, S # {}, \A k \in S : k <= b
    PROVE  Max(S) \in S /\ \A k \in S : k <= Max(S)
<1> DEFINE T == {b - k : k \in S}
<1>1. T \subseteq Nat /\ T # {}
  <2>1. ASSUME NEW k \in S PROVE b - k \in Nat
    <3> k \in Int /\ k <= b
      OBVIOUS
    <3> QED
      OBVIOUS
  <2>2. PICK k \in S : TRUE
    OBVIOUS
  <2>3. QED
    BY <2>1, <2>2
<1>2. PICK x \in T : \A y \in T : ~(<<y, x>> \in OpToRel(<, Nat))
  <2> HIDE DEF T
  <2> QED
    BY <1>1, NatLessThanWellFounded, WFMin
<1>3. \A y \in T : ~(y < x)
  <2> SUFFICES ASSUME NEW y \in T, y < x PROVE FALSE
    OBVIOUS
  <2> <<y, x>> \in OpToRel(<, Nat)
    BY <1>1 DEF OpToRel
  <2> QED
    BY <1>2
<1>4. PICK m \in S : x = b - m
  OBVIOUS
<1>5. \A k \in S : k <= m
  <2> SUFFICES ASSUME NEW k \in S PROVE k <= m
    OBVIOUS
  <2> HIDE DEF T
  <2>1. k \in Int /\ m \in Int
    BY <1>4
  <2>2. ~(b - k < b - m)
    <3> b - k \in T
      BY DEF T
    <3> QED
      BY <1>3, <1>4
  <2>3. QED
    BY <2>1, <2>2
<1>6. QED
  BY <1>4, <1>5 DEF Max

\* A claim about numbers that fails fails for a first number.
LEMMA FirstFailure ==
    ASSUME NEW n \in Nat, NEW S \in SUBSET (0 .. n), S # {}
    PROVE  \E k \in S : \A j \in S : k <= j
<1>1. PICK x \in S : \A y \in S : ~(<<y, x>> \in OpToRel(<, Nat))
  <2> S \subseteq Nat
    OBVIOUS
  <2> QED
    BY NatLessThanWellFounded, WFMin
<1>2. \A y \in S : ~(y < x)
  <2> SUFFICES ASSUME NEW y \in S, y < x PROVE FALSE
    OBVIOUS
  <2> <<y, x>> \in OpToRel(<, Nat)
    BY DEF OpToRel
  <2> QED
    BY <1>1
<1>3. QED
  BY <1>2

LEMMA LastTextIsLast ==
    ASSUME NEW h \in Seq(Message)
    PROVE  /\ LastText(h) \in -1 .. Len(h) - 1
           /\ LastText(h) >= 0 => IsText(h[LastText(h) + 1])
           /\ \A i \in 1 .. Len(h) : IsText(h[i]) => i <= LastText(h) + 1
<1> DEFINE S == {-1} \cup {i - 1 : i \in {j \in DOMAIN h : IsText(h[j])}}
<1>1. DOMAIN h = 1 .. Len(h) /\ Len(h) \in Nat
  BY LenProperties
<1>2. \A k \in S : k \in Int /\ k <= Len(h) - 1 /\ k >= -1
  BY <1>1
<1>3. S \in SUBSET Int /\ S # {} /\ Len(h) - 1 \in Int /\ \A k \in S : k <= Len(h) - 1
  BY <1>1, <1>2
<1>4. Max(S) \in S /\ \A k \in S : k <= Max(S)
  <2> HIDE DEF S
  <2> QED
    BY <1>3, MaxIsLast
<1>5. LastText(h) = Max(S)
  BY DEF LastText
<1>6. LastText(h) >= 0 => IsText(h[LastText(h) + 1])
  BY <1>1, <1>4, <1>5
<1>7. \A i \in 1 .. Len(h) : IsText(h[i]) => i <= LastText(h) + 1
  <2> SUFFICES ASSUME NEW i \in 1 .. Len(h), IsText(h[i]) PROVE i <= LastText(h) + 1
    OBVIOUS
  <2>1. i - 1 \in S
    BY <1>1
  <2>2. QED
    BY <1>2, <1>4, <1>5, <2>1
<1>8. QED
  <2> HIDE DEF S
  <2> QED
    BY <1>1, <1>2, <1>4, <1>5, <1>6, <1>7

--------------------------------------------------------------------------------
(* A conversation in pairs.                                                     *)

\* Every reply stands behind the calls it replies to.
RepliesFollow(h) ==
    \A i \in 1 .. Len(h) : IsReply(h[i]) => i > 1 /\ h[i - 1] = Calls(h[i].id)

\* Every message with calls, other than the open ones, has its reply behind it.
CallsAnswered(h, open) ==
    \A i \in 1 .. Len(h) : h[i].kind = "calls" /\ h[i].id \notin open =>
        i < Len(h) /\ IsReply(h[i + 1]) /\ h[i + 1].id = h[i].id

\* A message with calls stands in one place.
CallsOnce(h) == \A i, j \in 1 .. Len(h) : h[i].kind = "calls" /\ h[i] = h[j] => i = j

\* The last text of h stands at t.
LastTextAt(h, t) ==
    t \in 1 .. Len(h) /\ IsText(h[t]) /\ \A i \in t + 1 .. Len(h) : ~IsText(h[i])

EndsWith(h, m) == Len(h) >= 1 /\ h[Len(h)] = m

LEMMA InSet ==
    ASSUME NEW h \in Seq(Message), NEW m
    PROVE  m \in ToSet(h) <=> \E i \in 1 .. Len(h) : h[i] = m
BY LenProperties DEF ToSet

\* In pairs, calls with a reply anywhere have it behind them.
LEMMA ReplyIsNext ==
    ASSUME NEW h \in Seq(Message), RepliesFollow(h), CallsOnce(h),
           NEW i \in 1 .. Len(h), h[i].kind = "calls", ~Unanswered(h, h[i])
    PROVE  i < Len(h) /\ IsReply(h[i + 1]) /\ h[i + 1].id = h[i].id
<1>1. h[i] \in Message /\ h[i] = Calls(h[i].id)
  BY MessageFacts, ElementOfSeq
<1>2. PICK j \in 1 .. Len(h) : h[j] = Results(h[i].id) \/ h[j] = Stub(h[i].id)
  BY InSet DEF Unanswered
<1>3. IsReply(h[j]) /\ h[j].id = h[i].id
  BY <1>2, MessageFacts
<1>4. j > 1 /\ h[j - 1] = h[i]
  BY <1>1, <1>3 DEF RepliesFollow
<1>5. j - 1 \in 1 .. Len(h)
  BY <1>4, LenProperties
<1>6. j - 1 = i
  BY <1>4, <1>5 DEF CallsOnce
<1>7. QED
  BY <1>3, <1>6

\* The recursion of Sanitized has a solution.
MendedUpTo(h) == CHOOSE s : s = [n \in 0 .. Len(h) |->
                                    IF n = 0 THEN <<>> ELSE s[n - 1] \o Mended(h, h[n])]

LEMMA MendedUpToIs ==
    ASSUME NEW h, Len(h) \in Nat
    PROVE  /\ MendedUpTo(h)[0] = <<>>
           /\ \A n \in 1 .. Len(h) :
                  MendedUpTo(h)[n] = MendedUpTo(h)[n - 1] \o Mended(h, h[n])
           /\ Sanitized(h) = MendedUpTo(h)[Len(h)]
<1> DEFINE Entry(s, n) == IF n = 0 THEN <<>> ELSE s[n - 1] \o Mended(h, h[n])
           Is(s, k) == s = [n \in 0 .. k |-> Entry(s, n)]
           Solved(k) == \E s : Is(s, k)
           Fails == {k \in 0 .. Len(h) : ~Solved(k)}
<1>1. Solved(0)
  <2> DEFINE s == [n \in 0 .. 0 |-> <<>>]
  <2>1. \A n \in 0 .. 0 : Entry(s, n) = <<>>
    OBVIOUS
  <2>2. Is(s, 0)
    BY <2>1
  <2>3. QED
    BY <2>2
<1>2. ASSUME NEW k \in 1 .. Len(h), Solved(k - 1) PROVE Solved(k)
  <2>1. PICK s : Is(s, k - 1)
    BY <1>2
  <2> DEFINE t == [n \in 0 .. k |-> IF n < k THEN s[n] ELSE Entry(s, k)]
  <2> HIDE DEF Entry
  <2>2. \A n \in 0 .. k : t[n] = IF n < k THEN s[n] ELSE Entry(s, k)
    OBVIOUS
  <2>3. \A n \in 0 .. k - 1 : s[n] = Entry(s, n)
    BY <2>1
  <2>4. \A n \in 0 .. k : Entry(t, n) = Entry(s, n)
    BY <2>2 DEF Entry
  <2>5. \A n \in 0 .. k : t[n] = Entry(t, n)
    BY <2>2, <2>3, <2>4
  <2>6. Is(t, k)
    BY <2>5
  <2>7. QED
    BY <2>6
<1> HIDE DEF Solved
<1>3. Fails = {}
  <2> SUFFICES ASSUME Fails # {} PROVE FALSE
    OBVIOUS
  <2>1. Fails \in SUBSET (0 .. Len(h))
    OBVIOUS
  <2>2. PICK k \in Fails : \A j \in Fails : k <= j
    <3> HIDE DEF Fails
    <3> QED
      BY <2>1, FirstFailure
  <2>3. k \in 1 .. Len(h) /\ ~Solved(k)
    BY <1>1, <2>1, <2>2
  <2>4. Solved(k - 1)
    BY <2>2, <2>3
  <2>5. QED
    BY <1>2, <2>3, <2>4
<1>4. Solved(Len(h))
  BY <1>3
<1>5. PICK s : Is(s, Len(h))
  BY <1>4 DEF Solved
<1>6. Is(MendedUpTo(h), Len(h))
  BY <1>5, Zenon DEF MendedUpTo
<1>7. Sanitized(h) = MendedUpTo(h)[Len(h)]
  BY Zenon DEF Sanitized, MendedUpTo
<1> HIDE DEF Entry
<1>8. \A n \in 0 .. Len(h) : MendedUpTo(h)[n] = Entry(MendedUpTo(h), n)
  BY <1>6
<1>9. Entry(MendedUpTo(h), 0) = <<>>
  BY DEF Entry
<1>10. ASSUME NEW n \in 1 .. Len(h)
       PROVE  MendedUpTo(h)[n] = MendedUpTo(h)[n - 1] \o Mended(h, h[n])
  <2>1. n \in 0 .. Len(h) /\ n # 0
    OBVIOUS
  <2>2. MendedUpTo(h)[n] = Entry(MendedUpTo(h), n)
    BY <1>8, <2>1
  <2>3. QED
    BY <2>1, <2>2, Zenon DEF Entry
<1>11. MendedUpTo(h)[0] = <<>>
  BY <1>8, <1>9
<1>12. QED
  BY <1>7, <1>10, <1>11, Zenon

\* s is what Sanitized makes of the first n messages of h: they stay as they are
\* and in their order, and stubs come between them.
MessagesStay(h, n, s) ==
    /\ s \in Seq(Message) /\ Len(s) >= n
    /\ \A i \in 1 .. n : \E j \in 1 .. Len(s) : s[j] = h[i]
    /\ \A j \in 1 .. Len(s) : s[j].kind # "stub" => \E i \in 1 .. n : s[j] = h[i]
    /\ n >= 1 => Len(s) >= 1 /\ (s[Len(s)] = h[n] \/ Unanswered(h, h[n]))
TextsStay(h, n, s) ==
    \A t \in 1 .. n : IsText(h[t]) /\ (\A i \in t + 1 .. n : ~IsText(h[i])) =>
        \E u \in t .. Len(s) : s[u] = h[t] /\ LastTextAt(s, u)
PairsStay(h, n, s) ==
    /\ RepliesFollow(s)
    /\ CallsOnce(s)
    /\ \A j \in 1 .. Len(s) : s[j].kind = "calls" =>
           \/ j < Len(s) /\ IsReply(s[j + 1]) /\ s[j + 1].id = s[j].id
           \/ j = Len(s) /\ n >= 1 /\ s[j] = h[n] /\ ~Unanswered(h, h[n])

LEMMA MendedStep ==
    ASSUME NEW h \in Seq(Message), RepliesFollow(h), CallsOnce(h),
           NEW n \in 1 .. Len(h), NEW r \in Seq(Message),
           MessagesStay(h, n - 1, r), TextsStay(h, n - 1, r), PairsStay(h, n - 1, r)
    PROVE  LET s == r \o Mended(h, h[n])
           IN  MessagesStay(h, n, s) /\ TextsStay(h, n, s) /\ PairsStay(h, n, s)
<1> DEFINE m == h[n]
           s == r \o Mended(h, m)
           L == Len(r)
<1> SUFFICES MessagesStay(h, n, s) /\ TextsStay(h, n, s) /\ PairsStay(h, n, s)
  OBVIOUS
<1>1. m \in Message /\ n \in Nat /\ n >= 1 /\ Len(h) \in Nat /\ L \in Nat /\ n <= Len(h)
  BY LenProperties, ElementOfSeq
<1>2. IsReply(m) => n > 1 /\ h[n - 1] = Calls(m.id) /\ Calls(m.id) \in ToSet(h)
  <2> SUFFICES ASSUME IsReply(m)
               PROVE  n > 1 /\ h[n - 1] = Calls(m.id) /\ Calls(m.id) \in ToSet(h)
    OBVIOUS
  <2>1. n > 1 /\ h[n - 1] = Calls(m.id)
    BY DEF RepliesFollow
  <2>2. n - 1 \in 1 .. Len(h)
    BY <1>1, <2>1
  <2>3. QED
    BY <2>1, <2>2, InSet
<1>3. Mended(h, m) = IF Unanswered(h, m) THEN <<m, Stub(m.id)>> ELSE <<m>>
  BY <1>2 DEF Mended
<1>4. Unanswered(h, m) => m.kind = "calls" /\ Stub(m.id) \in Message
  BY <1>1, MessageFacts DEF Unanswered
<1>5. /\ s \in Seq(Message)
      /\ Len(s) = IF Unanswered(h, m) THEN L + 2 ELSE L + 1
      /\ \A i \in 1 .. L : s[i] = r[i]
      /\ s[L + 1] = m
      /\ Unanswered(h, m) => s[L + 2] = Stub(m.id)
  <2>1. CASE Unanswered(h, m)
    <3>1. <<m, Stub(m.id)>> \in Seq(Message) /\ Len(<<m, Stub(m.id)>>) = 2
      BY <1>1, <1>4, <2>1
    <3>2. s = r \o <<m, Stub(m.id)>>
      BY <1>3, <2>1
    <3>3. /\ r \o <<m, Stub(m.id)>> \in Seq(Message)
          /\ Len(r \o <<m, Stub(m.id)>>) = L + 2
          /\ \A i \in 1 .. L + 2 : (r \o <<m, Stub(m.id)>>)[i] =
                 IF i <= L THEN r[i] ELSE <<m, Stub(m.id)>>[i - L]
      BY <3>1, ConcatProperties
    <3>4. QED
      BY <1>1, <2>1, <3>2, <3>3
  <2>2. CASE ~Unanswered(h, m)
    <3>1. <<m>> \in Seq(Message) /\ Len(<<m>>) = 1
      BY <1>1
    <3>2. s = r \o <<m>>
      BY <1>3, <2>2
    <3>3. /\ r \o <<m>> \in Seq(Message)
          /\ Len(r \o <<m>>) = L + 1
          /\ \A i \in 1 .. L + 1 : (r \o <<m>>)[i] = IF i <= L THEN r[i] ELSE <<m>>[i - L]
      BY <3>1, ConcatProperties
    <3>4. QED
      BY <1>1, <2>2, <3>2, <3>3
  <2>3. QED
    BY <2>1, <2>2
<1> HIDE DEF s, m
<1>6. Unanswered(h, m) => /\ IsReply(s[L + 2]) /\ s[L + 2].id = m.id /\ s[L + 2].kind = "stub"
                          /\ ~IsText(s[L + 2]) /\ m = Calls(m.id) /\ ~IsReply(m) /\ ~IsText(m)
  BY <1>1, <1>4, <1>5, MessageFacts
<1>7. \A j \in 1 .. Len(s) : j \in 1 .. L \/ j = L + 1 \/ (Unanswered(h, m) /\ j = L + 2)
  BY <1>1, <1>5
<1>8. MessagesStay(h, n, s)
  <2>1. \A i \in 1 .. n : \E j \in 1 .. Len(s) : s[j] = h[i]
    <3> SUFFICES ASSUME NEW i \in 1 .. n PROVE \E j \in 1 .. Len(s) : s[j] = h[i]
      OBVIOUS
    <3>1. CASE i = n
      BY <1>1, <1>5, <3>1 DEF m
    <3>2. CASE i # n
      <4>1. i \in 1 .. n - 1
        BY <1>1, <3>2
      <4>2. PICK j \in 1 .. L : r[j] = h[i]
        BY <4>1 DEF MessagesStay
      <4>3. QED
        BY <1>1, <1>5, <4>2
    <3>3. QED
      BY <3>1, <3>2
  <2>2. \A j \in 1 .. Len(s) : s[j].kind # "stub" => \E i \in 1 .. n : s[j] = h[i]
    <3> SUFFICES ASSUME NEW j \in 1 .. Len(s), s[j].kind # "stub"
                 PROVE  \E i \in 1 .. n : s[j] = h[i]
      OBVIOUS
    <3>1. CASE j \in 1 .. L
      <4>1. PICK i \in 1 .. n - 1 : r[j] = h[i]
        BY <1>5, <3>1 DEF MessagesStay
      <4>2. QED
        BY <1>1, <1>5, <3>1, <4>1
    <3>2. CASE j = L + 1
      BY <1>1, <1>5, <3>2 DEF m
    <3>3. QED
      BY <1>6, <1>7, <3>1, <3>2
  <2>3. Len(s) >= 1 /\ (s[Len(s)] = h[n] \/ Unanswered(h, h[n]))
    BY <1>1, <1>5 DEF m
  <2>4. Len(s) >= n
    BY <1>1, <1>5 DEF MessagesStay
  <2>5. QED
    BY <1>5, <2>1, <2>2, <2>3, <2>4 DEF MessagesStay
<1>9. TextsStay(h, n, s)
  <2> SUFFICES ASSUME NEW t \in 1 .. n, IsText(h[t]), \A i \in t + 1 .. n : ~IsText(h[i])
               PROVE  \E u \in t .. Len(s) : s[u] = h[t] /\ LastTextAt(s, u)
    BY DEF TextsStay
  <2>1. CASE t = n
    <3>1. ~Unanswered(h, m) /\ Len(s) = L + 1
      BY <1>5, <1>6, <2>1 DEF m
    <3>2. s[L + 1] = h[t] /\ LastTextAt(s, L + 1)
      BY <1>1, <1>5, <2>1, <3>1 DEF LastTextAt, m
    <3>3. n <= L + 1
      BY <1>1 DEF MessagesStay
    <3>4. QED
      BY <1>1, <1>5, <2>1, <3>1, <3>2, <3>3
  <2>2. CASE t # n
    <3>1. t \in 1 .. n - 1 /\ \A i \in t + 1 .. n - 1 : ~IsText(h[i])
      BY <1>1, <2>2
    <3>2. PICK u \in t .. L : r[u] = h[t] /\ LastTextAt(r, u)
      BY <3>1 DEF TextsStay
    <3>3. ~IsText(m)
      BY <1>1, <2>2 DEF m
    <3>4. u \in 1 .. L /\ u \in t .. Len(s) /\ s[u] = h[t]
      BY <1>1, <1>5, <3>2
    <3>5. \A i \in u + 1 .. Len(s) : ~IsText(s[i])
      <4> SUFFICES ASSUME NEW i \in u + 1 .. Len(s) PROVE ~IsText(s[i])
        OBVIOUS
      <4>1. i \in 1 .. Len(s)
        BY <1>1, <1>5, <3>4
      <4>2. CASE i \in 1 .. L
        BY <1>5, <3>2, <3>4, <4>2 DEF LastTextAt
      <4>3. QED
        BY <1>5, <1>6, <1>7, <3>3, <4>1, <4>2
    <3>6. QED
      BY <1>1, <1>5, <3>2, <3>4, <3>5 DEF LastTextAt
  <2>3. QED
    BY <2>1, <2>2
<1>10. PairsStay(h, n, s)
  <2>1. RepliesFollow(s)
    <3> SUFFICES ASSUME NEW i \in 1 .. Len(s), IsReply(s[i])
                 PROVE  i > 1 /\ s[i - 1] = Calls(s[i].id)
      BY DEF RepliesFollow
    <3>1. CASE i \in 1 .. L
      <4>1. i > 1 /\ r[i - 1] = Calls(r[i].id)
        BY <1>5, <3>1 DEF PairsStay, RepliesFollow
      <4>2. i - 1 \in 1 .. L
        BY <1>1, <3>1, <4>1
      <4>3. QED
        BY <1>5, <3>1, <4>1, <4>2
    <3>2. CASE i = L + 1
      <4>1. n > 1 /\ h[n - 1] = Calls(m.id)
        BY <1>2, <1>5, <3>2
      <4>2. ~Unanswered(h, h[n - 1])
        <5>1. m \in ToSet(h)
          BY InSet DEF m
        <5>2. m = Results(m.id) \/ m = Stub(m.id)
          BY <1>1, <1>5, <3>2, MessageFacts
        <5>3. h[n - 1].id = m.id
          BY <4>1, MessageFacts
        <5>4. QED
          BY <5>1, <5>2, <5>3 DEF Unanswered
      <4>3. L >= 1 /\ r[L] = h[n - 1]
        BY <1>1, <4>1, <4>2 DEF MessagesStay
      <4>4. QED
        BY <1>1, <1>5, <3>2, <4>1, <4>3
    <3>3. CASE Unanswered(h, m) /\ i = L + 2
      BY <1>1, <1>5, <1>6, <3>3
    <3>4. QED
      BY <1>7, <3>1, <3>2, <3>3
  <2>2. CallsOnce(s)
    <3> SUFFICES ASSUME NEW i \in 1 .. Len(s), NEW j \in 1 .. Len(s),
                        s[i].kind = "calls", s[i] = s[j]
                 PROVE  i = j
      BY DEF CallsOnce
    <3>1. i # L + 2 /\ j # L + 2
      BY <1>1, <1>5, <1>6, <1>7, MessageFacts
    <3>2. ASSUME NEW k \in 1 .. L PROVE s[k] = m => m.kind # "calls"
      <4> SUFFICES ASSUME s[k] = m, m.kind = "calls" PROVE FALSE
        OBVIOUS
      <4>1. r[k] = m
        BY <1>5
      <4>2. PICK l \in 1 .. n - 1 : r[k] = h[l]
        BY <4>1 DEF MessagesStay
      <4>3. l \in 1 .. Len(h) /\ l # n
        BY <1>1
      <4>4. QED
        BY <4>1, <4>2, <4>3 DEF CallsOnce, m
    <3>3. CASE i \in 1 .. L /\ j \in 1 .. L
      BY <1>5, <3>3 DEF PairsStay, CallsOnce
    <3>4. CASE i = L + 1 \/ j = L + 1
      BY <1>5, <1>7, <3>1, <3>2, <3>4
    <3>5. QED
      BY <1>7, <3>1, <3>3, <3>4
  <2>3. ASSUME NEW j \in 1 .. Len(s), s[j].kind = "calls"
        PROVE  \/ j < Len(s) /\ IsReply(s[j + 1]) /\ s[j + 1].id = s[j].id
               \/ j = Len(s) /\ n >= 1 /\ s[j] = h[n] /\ ~Unanswered(h, h[n])
    <3>1. CASE j \in 1 .. L
      <4>1. CASE j < L /\ IsReply(r[j + 1]) /\ r[j + 1].id = r[j].id
        BY <1>1, <1>5, <3>1, <4>1
      <4>2. CASE j = L /\ n - 1 >= 1 /\ r[j] = h[n - 1] /\ ~Unanswered(h, h[n - 1])
        <5>1. n - 1 \in 1 .. Len(h)
          BY <1>1, <4>2
        <5>2. IsReply(h[n - 1 + 1]) /\ h[n - 1 + 1].id = h[n - 1].id
          BY <1>5, <2>3, <3>1, <4>2, <5>1, ReplyIsNext
        <5>3. IsReply(m) /\ m.id = r[j].id
          BY <1>1, <4>2, <5>2 DEF m
        <5>4. QED
          BY <1>1, <1>5, <3>1, <4>2, <5>3
      <4>3. QED
        BY <1>5, <2>3, <3>1, <4>1, <4>2 DEF PairsStay
    <3>2. CASE j = L + 1
      BY <1>1, <1>5, <1>6, <3>2 DEF m
    <3>3. QED
      BY <1>6, <1>7, <2>3, <3>1, <3>2, MessageFacts
  <2>4. QED
    BY <2>1, <2>2, <2>3 DEF PairsStay
<1>11. QED
  BY <1>8, <1>9, <1>10

LEMMA SanitizedIs ==
    ASSUME NEW h \in Seq(Message), RepliesFollow(h), CallsOnce(h)
    PROVE  LET n == Len(h) IN /\ MessagesStay(h, n, Sanitized(h))
                              /\ TextsStay(h, n, Sanitized(h))
                              /\ PairsStay(h, n, Sanitized(h))
<1> DEFINE s == MendedUpTo(h)
           Holds(n) == MessagesStay(h, n, s[n]) /\ TextsStay(h, n, s[n]) /\ PairsStay(h, n, s[n])
           Fails == {n \in 0 .. Len(h) : ~Holds(n)}
<1>1. Len(h) \in Nat
  BY LenProperties
<1>2. /\ s[0] = <<>>
      /\ \A n \in 1 .. Len(h) : s[n] = s[n - 1] \o Mended(h, h[n])
      /\ Sanitized(h) = s[Len(h)]
  BY <1>1, MendedUpToIs
<1>3. Holds(0)
  <2>1. s[0] \in Seq(Message) /\ Len(s[0]) = 0
    BY <1>2
  <2> HIDE DEF s
  <2>2. QED
    BY <2>1 DEF MessagesStay, TextsStay, PairsStay, RepliesFollow, CallsOnce
<1> HIDE DEF s
<1>4. ASSUME NEW n \in 1 .. Len(h), Holds(n - 1) PROVE Holds(n)
  <2>1. s[n - 1] \in Seq(Message)
    BY <1>4 DEF MessagesStay
  <2>2. s[n] = s[n - 1] \o Mended(h, h[n])
    BY <1>2
  <2>3. QED
    BY <1>4, <2>1, <2>2, MendedStep
<1> HIDE DEF Holds
<1>5. Fails = {}
  <2> SUFFICES ASSUME Fails # {} PROVE FALSE
    OBVIOUS
  <2>1. Fails \in SUBSET (0 .. Len(h))
    OBVIOUS
  <2>2. PICK k \in Fails : \A j \in Fails : k <= j
    <3> HIDE DEF Fails
    <3> QED
      BY <1>1, <2>1, FirstFailure
  <2>3. k \in 1 .. Len(h) /\ ~Holds(k)
    BY <1>1, <1>3, <2>1, <2>2
  <2>4. Holds(k - 1)
    BY <1>1, <2>2, <2>3
  <2>5. QED
    BY <1>4, <2>3, <2>4
<1>6. Holds(Len(h))
  BY <1>1, <1>5
<1>7. QED
  BY <1>2, <1>6 DEF Holds

--------------------------------------------------------------------------------
(* Where a compaction cuts.                                                     *)

\* No reply is cut from its calls.
CleanCut(h, c) == c \in 0 .. Len(h) /\ (c < Len(h) => ~IsReply(h[c + 1]))

LEMMA AlignIsClean ==
    ASSUME NEW h \in Seq(Message), RepliesFollow(h), NEW c \in 0 .. Len(h)
    PROVE  CleanCut(h, Align(h, c)) /\ Align(h, c) <= c
<1>1. Len(h) \in Nat
  BY LenProperties
<1>2. CASE 0 < c /\ c < Len(h) /\ IsReply(h[c + 1]) /\ h[c].kind = "calls"
  <2>1. Align(h, c) = c - 1 /\ h[c] \in Message
    BY <1>2, ElementOfSeq DEF Align
  <2>2. ~IsReply(h[c])
    BY <1>2 DEF IsReply
  <2>3. QED
    BY <1>1, <1>2, <2>1, <2>2 DEF CleanCut
<1>3. CASE ~(0 < c /\ c < Len(h) /\ IsReply(h[c + 1]) /\ h[c].kind = "calls")
  <2>1. Align(h, c) = c
    BY <1>3 DEF Align
  <2>2. c < Len(h) => ~IsReply(h[c + 1])
    <3> SUFFICES ASSUME c < Len(h), IsReply(h[c + 1]) PROVE FALSE
      OBVIOUS
    <3>1. c + 1 \in 1 .. Len(h)
      BY <1>1
    <3>2. c + 1 > 1 /\ h[c + 1 - 1] = Calls(h[c + 1].id)
      BY <3>1 DEF RepliesFollow
    <3>3. c > 0 /\ h[c].kind = "calls"
      BY <3>2, MessageFacts
    <3>4. QED
      BY <1>3, <3>3
  <2>3. QED
    BY <2>1, <2>2 DEF CleanCut
<1>4. QED
  BY <1>2, <1>3

\* Both cuts fall between pairs and before the last text.
LEMMA CutsAreClean ==
    ASSUME NEW h \in Seq(Message), RepliesFollow(h)
    PROVE  /\ CleanCut(h, SevereCut(h))
           /\ LastText(h) >= 1 => SevereCut(h) <= LastText(h)
           /\ ~IsShort(h) => CleanCut(h, SplitCut(h))
           /\ ~IsShort(h) /\ LastText(h) >= 1 => SplitCut(h) <= LastText(h)
<1> DEFINE last == LastText(h)
<1>1. Len(h) \in Nat /\ Keep \in Nat /\ Keep >= 2
  BY LenProperties, LoopBounds DEF Keep
<1>2. last \in -1 .. Len(h) - 1
  BY LastTextIsLast
<1> HIDE DEF last
<1>3. CleanCut(h, SevereCut(h)) /\ (last >= 1 => SevereCut(h) <= last)
  <2>1. CASE last >= 1
    <3>1. last \in 0 .. Len(h)
      BY <1>1, <1>2, <2>1
    <3>2. SevereCut(h) = Align(h, last)
      BY <2>1 DEF SevereCut, last
    <3>3. QED
      BY <3>1, <3>2, AlignIsClean
  <2>2. CASE ~(last >= 1)
    <3>1. SevereCut(h) = Len(h)
      BY <2>2 DEF SevereCut, last
    <3>2. QED
      BY <1>1, <2>2, <3>1 DEF CleanCut
  <2>3. QED
    BY <2>1, <2>2
<1>4. ASSUME ~IsShort(h) PROVE CleanCut(h, SplitCut(h)) /\ (last >= 1 => SplitCut(h) <= last)
  <2> DEFINE c == Align(h, Len(h) - Keep)
             d == EnsureLastText(h, c)
  <2>1. Len(h) - Keep \in 0 .. Len(h)
    BY <1>1, <1>4 DEF IsShort
  <2>2. CleanCut(h, c)
    BY <2>1, AlignIsClean
  <2>3. c \in 0 .. Len(h)
    BY <2>2 DEF CleanCut
  <2> HIDE DEF c
  <2>4. d \in 0 .. Len(h) /\ (last >= 1 => d <= last)
    BY <1>1, <1>2, <2>3 DEF EnsureLastText, last
  <2>5. SplitCut(h) = Align(h, d)
    BY DEF SplitCut, c
  <2> HIDE DEF d
  <2>6. CleanCut(h, Align(h, d)) /\ Align(h, d) <= d
    BY <2>4, AlignIsClean
  <2>7. Align(h, d) \in Int
    BY <2>6 DEF CleanCut
  <2>8. QED
    BY <1>1, <1>2, <2>4, <2>5, <2>6, <2>7
<1>5. QED
  BY <1>3, <1>4 DEF last

\* So does the trim of a tail.
LEMMA TrimIsClean ==
    ASSUME NEW h \in Seq(Message), RepliesFollow(h)
    PROVE  /\ CleanCut(h, TrimStart(h))
           /\ LastText(h) >= 0 => TrimStart(h) <= LastText(h)
<1> DEFINE last == LastText(h)
           two == Max({0, Len(h) - 2})
           c == IF last >= 0 THEN Min({last, two}) ELSE two
<1>1. Len(h) \in Nat /\ last \in -1 .. Len(h) - 1
  BY LenProperties, LastTextIsLast
<1> HIDE DEF last
<1>2. two \in 0 .. Len(h)
  <2>1. \E k \in {0, Len(h) - 2} : \A j \in {0, Len(h) - 2} : k >= j
    BY <1>1
  <2>2. two \in {0, Len(h) - 2} /\ \A j \in {0, Len(h) - 2} : two >= j
    BY <2>1 DEF Max
  <2>3. QED
    BY <1>1, <2>2
<1> HIDE DEF two
<1>3. last >= 0 => Min({last, two}) \in 0 .. last /\ Min({last, two}) <= two
  <2>1. \E k \in {last, two} : \A j \in {last, two} : k =< j
    BY <1>1, <1>2
  <2>2. Min({last, two}) \in {last, two} /\ \A j \in {last, two} : Min({last, two}) =< j
    BY <2>1 DEF Min
  <2>3. QED
    BY <1>1, <1>2, <2>2
<1>4. c \in 0 .. Len(h) /\ (last >= 0 => c <= last)
  BY <1>1, <1>2, <1>3
<1>5. TrimStart(h) = Align(h, c)
  BY DEF TrimStart, last, two
<1> HIDE DEF c
<1>6. CleanCut(h, Align(h, c)) /\ Align(h, c) <= c
  BY <1>4, AlignIsClean
<1>7. QED
  BY <1>1, <1>4, <1>5, <1>6 DEF last, CleanCut

--------------------------------------------------------------------------------
(* What a compaction makes of a conversation.                                   *)

LEMMA InContents ==
    ASSUME NEW h \in Seq(Message), NEW x
    PROVE  x \in Contents(h) <=> \E i \in 1 .. Len(h) :
               IF h[i].kind = "summary" THEN x \in h[i].from ELSE x = h[i]
<1>1. x \in Contents(h) <=> \E m \in ToSet(h) : x \in (IF m.kind = "summary" THEN m.from ELSE {m})
  BY DEF Contents
<1>2. QED
  BY <1>1, InSet

LEMMA ContentsArePlain ==
    ASSUME NEW h \in Seq(Message)
    PROVE  Contents(h) \subseteq Plain
<1> SUFFICES ASSUME NEW x \in Contents(h) PROVE x \in Plain
  OBVIOUS
<1>1. PICK i \in 1 .. Len(h) : IF h[i].kind = "summary" THEN x \in h[i].from ELSE x = h[i]
  BY InContents
<1>2. QED
  BY <1>1, MessageFacts, ElementOfSeq

\* The part of a conversation behind a position, as the code slices it.
From(h, k) == SubSeq(h, k + 1, Len(h))

LEMMA FromIs ==
    ASSUME NEW h \in Seq(Message), NEW k \in 0 .. Len(h)
    PROVE  /\ From(h, k) \in Seq(Message) /\ Len(From(h, k)) = Len(h) - k
           /\ \A i \in 1 .. Len(h) - k : From(h, k)[i] = h[k + i]
           /\ SubSeq(h, 1, k) \in Seq(Message) /\ Len(SubSeq(h, 1, k)) = k
           /\ \A i \in 1 .. k : SubSeq(h, 1, k)[i] = h[i]
<1>1. Len(h) \in Nat /\ k \in Int /\ k + 1 \in Int
  BY LenProperties
<1>2. \A i \in k + 1 .. Len(h) : h[i] \in Message
  BY <1>1, ElementOfSeq
<1>3. /\ From(h, k) \in Seq(Message)
      /\ Len(From(h, k)) = IF k + 1 <= Len(h) THEN Len(h) - (k + 1) + 1 ELSE 0
      /\ \A i \in 1 .. Len(h) - (k + 1) + 1 : From(h, k)[i] = h[k + 1 + i - 1]
  BY <1>1, <1>2, SubSeqProperties DEF From
<1>4. \A i \in 1 .. k : h[i] \in Message
  BY <1>1, ElementOfSeq
<1>5. /\ SubSeq(h, 1, k) \in Seq(Message)
      /\ Len(SubSeq(h, 1, k)) = IF 1 <= k THEN k - 1 + 1 ELSE 0
      /\ \A i \in 1 .. k - 1 + 1 : SubSeq(h, 1, k)[i] = h[1 + i - 1]
  BY <1>1, <1>4, SubSeqProperties
<1>6. QED
  BY <1>1, <1>3, <1>5

\* What is before a position and what is behind it is all there is.
LEMMA ContentsOfParts ==
    ASSUME NEW h \in Seq(Message), NEW k \in 0 .. Len(h)
    PROVE  Contents(h) = Contents(SubSeq(h, 1, k)) \cup Contents(From(h, k))
<1>1. Len(h) \in Nat
  BY LenProperties
<1>2. ASSUME NEW x PROVE x \in Contents(h) <=>
                         x \in Contents(SubSeq(h, 1, k)) \/ x \in Contents(From(h, k))
  <2> DEFINE Holds(m) == IF m.kind = "summary" THEN x \in m.from ELSE x = m
  <2>1. x \in Contents(h) <=> \E i \in 1 .. Len(h) : Holds(h[i])
    BY InContents
  <2>2. x \in Contents(SubSeq(h, 1, k)) <=> \E i \in 1 .. k : Holds(SubSeq(h, 1, k)[i])
    <3>1. SubSeq(h, 1, k) \in Seq(Message) /\ Len(SubSeq(h, 1, k)) = k
      BY FromIs
    <3>2. QED
      BY <3>1, InContents
  <2>3. x \in Contents(From(h, k)) <=> \E i \in 1 .. Len(h) - k : Holds(From(h, k)[i])
    <3>1. From(h, k) \in Seq(Message) /\ Len(From(h, k)) = Len(h) - k
      BY FromIs
    <3>2. QED
      BY <3>1, InContents
  <2> HIDE DEF Holds
  <2>4. x \in Contents(SubSeq(h, 1, k)) <=> \E i \in 1 .. k : Holds(h[i])
    BY <2>2, FromIs
  <2>5. x \in Contents(From(h, k)) <=> \E i \in 1 .. Len(h) - k : Holds(h[k + i])
    BY <2>3, FromIs
  <2>6. (\E i \in 1 .. Len(h) - k : Holds(h[k + i])) <=> \E i \in k + 1 .. Len(h) : Holds(h[i])
    <3>1. ASSUME NEW i \in k + 1 .. Len(h), Holds(h[i])
          PROVE  \E j \in 1 .. Len(h) - k : Holds(h[k + j])
      <4>1. i - k \in 1 .. Len(h) - k /\ k + (i - k) = i
        BY <1>1
      <4>2. QED
        BY <3>1, <4>1
    <3>2. ASSUME NEW i \in 1 .. Len(h) - k, Holds(h[k + i])
          PROVE  \E j \in k + 1 .. Len(h) : Holds(h[j])
      <4>1. k + i \in k + 1 .. Len(h)
        BY <1>1
      <4>2. QED
        BY <3>2, <4>1
    <3>3. QED
      BY <3>1, <3>2
  <2>7. (\E i \in 1 .. Len(h) : Holds(h[i])) <=>
        (\E i \in 1 .. k : Holds(h[i])) \/ (\E i \in k + 1 .. Len(h) : Holds(h[i]))
    BY <1>1
  <2>8. QED
    BY <2>1, <2>4, <2>5, <2>6, <2>7
<1>3. QED
  BY <1>2

\* A part that begins at a clean cut is in pairs.
LEMMA PartInPairs ==
    ASSUME NEW h \in Seq(Message), RepliesFollow(h), CallsOnce(h), NEW k, CleanCut(h, k)
    PROVE  RepliesFollow(From(h, k)) /\ CallsOnce(From(h, k))
<1>1. Len(h) \in Nat /\ k \in 0 .. Len(h)
  BY LenProperties DEF CleanCut
<1> DEFINE r == From(h, k)
<1>2. r \in Seq(Message) /\ Len(r) = Len(h) - k /\ \A i \in 1 .. Len(h) - k : r[i] = h[k + i]
  BY <1>1, FromIs
<1> HIDE DEF r
<1>3. ASSUME NEW i \in 1 .. Len(r), IsReply(r[i]) PROVE i > 1 /\ r[i - 1] = Calls(r[i].id)
  <2>1. k + i \in 1 .. Len(h) /\ r[i] = h[k + i]
    BY <1>1, <1>2
  <2>2. k + i > 1 /\ h[k + i - 1] = Calls(r[i].id)
    <3>1. PICK l \in 1 .. Len(h) : l = k + i
      BY <2>1
    <3>2. l > 1 /\ h[l - 1] = Calls(h[l].id)
      BY <1>3, <2>1, <3>1 DEF RepliesFollow
    <3>3. k + i > 1 /\ h[k + i - 1] = Calls(h[k + i].id)
      BY <1>1, <1>2, <3>1, <3>2
    <3>4. QED
      BY <2>1, <3>3
  <2>3. i # 1
    BY <1>1, <1>2, <1>3, <2>1 DEF CleanCut
  <2>4. i > 1 /\ i - 1 \in 1 .. Len(h) - k /\ k + (i - 1) = k + i - 1
    BY <1>1, <1>2, <2>3
  <2>5. QED
    BY <1>2, <2>2, <2>4
<1>4. ASSUME NEW i \in 1 .. Len(r), NEW j \in 1 .. Len(r), r[i].kind = "calls", r[i] = r[j]
      PROVE  i = j
  <2>1. k + i \in 1 .. Len(h) /\ r[i] = h[k + i] /\ k + j \in 1 .. Len(h) /\ r[j] = h[k + j]
    BY <1>1, <1>2
  <2>2. k + i = k + j
    BY <1>4, <2>1 DEF CallsOnce
  <2>3. QED
    BY <1>1, <1>2, <2>2
<1>5. QED
  BY <1>3, <1>4 DEF r, RepliesFollow, CallsOnce

\* A summary in front of it changes nothing.
LEMMA SummaryInFront ==
    ASSUME NEW r \in Seq(Message), RepliesFollow(r), CallsOnce(r), NEW from \in SUBSET Plain
    PROVE  LET b == <<Summary(from)>> \o r
           IN  /\ b \in Seq(Message) /\ Len(b) = Len(r) + 1
               /\ b[1] = Summary(from) /\ \A i \in 1 .. Len(r) : b[i + 1] = r[i]
               /\ RepliesFollow(b) /\ CallsOnce(b)
               /\ \A t : LastTextAt(r, t) => LastTextAt(b, t + 1)
<1> DEFINE b == <<Summary(from)>> \o r
<1>1. Len(r) \in Nat
  BY LenProperties
<1>2. <<Summary(from)>> \in Seq(Message) /\ Len(<<Summary(from)>>) = 1
  BY MessageFacts
<1>3. /\ b \in Seq(Message) /\ Len(b) = 1 + Len(r)
      /\ \A i \in 1 .. 1 + Len(r) : b[i] = IF i <= 1 THEN <<Summary(from)>>[i] ELSE r[i - 1]
  BY <1>2, ConcatProperties
<1> HIDE DEF b
<1>4. b[1] = Summary(from) /\ \A i \in 2 .. Len(b) : i - 1 \in 1 .. Len(r) /\ b[i] = r[i - 1]
  BY <1>1, <1>3
<1>5. \A i \in 1 .. Len(r) : b[i + 1] = r[i]
  <2> SUFFICES ASSUME NEW i \in 1 .. Len(r) PROVE b[i + 1] = r[i]
    OBVIOUS
  <2>1. i + 1 \in 2 .. Len(b) /\ i + 1 - 1 = i
    BY <1>1, <1>3
  <2>2. QED
    BY <1>4, <2>1
<1>6. b[1].kind = "summary" /\ ~IsReply(b[1])
  BY <1>4, MessageFacts DEF IsReply
<1>7. \A i \in 1 .. Len(b) : i = 1 \/ i \in 2 .. Len(b)
  BY <1>1, <1>3
<1>8. ASSUME NEW i \in 1 .. Len(b), IsReply(b[i]) PROVE i > 1 /\ b[i - 1] = Calls(b[i].id)
  <2>1. i \in 2 .. Len(b)
    BY <1>6, <1>7, <1>8
  <2>2. i - 1 > 1 /\ r[i - 1 - 1] = Calls(b[i].id)
    BY <1>4, <1>8, <2>1 DEF RepliesFollow
  <2>3. i - 1 \in 2 .. Len(b)
    BY <1>1, <1>3, <2>1, <2>2
  <2>4. QED
    BY <1>4, <2>1, <2>2, <2>3
<1>9. ASSUME NEW i \in 1 .. Len(b), NEW j \in 1 .. Len(b), b[i].kind = "calls", b[i] = b[j]
      PROVE  i = j
  <2>1. i \in 2 .. Len(b) /\ j \in 2 .. Len(b)
    BY <1>6, <1>7, <1>9
  <2>2. i - 1 = j - 1
    BY <1>4, <1>9, <2>1 DEF CallsOnce
  <2>3. QED
    BY <2>1, <2>2
<1>10. ASSUME NEW t, LastTextAt(r, t) PROVE LastTextAt(b, t + 1)
  <2>1. t \in 1 .. Len(r) /\ IsText(r[t])
    BY <1>10 DEF LastTextAt
  <2>2. t + 1 \in 1 .. Len(b) /\ IsText(b[t + 1])
    BY <1>1, <1>3, <1>5, <2>1
  <2>3. ASSUME NEW i \in t + 1 + 1 .. Len(b) PROVE ~IsText(b[i])
    <3>1. i \in 2 .. Len(b) /\ i - 1 \in t + 1 .. Len(r)
      BY <1>1, <1>3, <2>1
    <3>2. QED
      BY <1>4, <1>10, <3>1 DEF LastTextAt
  <2>4. QED
    BY <2>2, <2>3 DEF LastTextAt
<1>11. QED
  BY <1>1, <1>3, <1>4, <1>5, <1>8, <1>9, <1>10 DEF b, RepliesFollow, CallsOnce

\* The trim of a tail moves a clean cut to a clean cut, and never behind the last
\* text.
LEMMA TrimmedCut ==
    ASSUME NEW h \in Seq(Message), RepliesFollow(h), CallsOnce(h),
           NEW cut, CleanCut(h, cut), NEW start,
           start = 0 \/ start = TrimStart(From(h, cut))
    PROVE  /\ start \in 0 .. Len(From(h, cut))
           /\ CleanCut(h, cut + start)
           /\ From(From(h, cut), start) = From(h, cut + start)
           /\ \A t : LastTextAt(h, t) /\ cut < t => cut + start < t
<1> DEFINE r == From(h, cut)
<1>1. Len(h) \in Nat /\ cut \in 0 .. Len(h)
  BY LenProperties DEF CleanCut
<1>2. /\ r \in Seq(Message) /\ Len(r) = Len(h) - cut
      /\ \A i \in 1 .. Len(h) - cut : r[i] = h[cut + i]
  BY <1>1, FromIs
<1>3. RepliesFollow(r) /\ CallsOnce(r)
  BY PartInPairs
<1> HIDE DEF r
<1>4. start \in 0 .. Len(r) /\ (start # 0 => CleanCut(r, start))
  <2>1. CASE start = 0
    BY <1>1, <1>2, <2>1
  <2>2. CASE start = TrimStart(r)
    BY <1>2, <1>3, <2>2, TrimIsClean DEF CleanCut
  <2>3. QED
    BY <2>1, <2>2 DEF r
<1>5. CleanCut(h, cut + start)
  <2>1. CASE start = 0
    BY <1>1, <2>1
  <2>2. CASE start # 0
    <3>1. cut + start \in 0 .. Len(h)
      BY <1>1, <1>2, <1>4
    <3>2. ASSUME cut + start < Len(h) PROVE ~IsReply(h[cut + start + 1])
      <4>1. start + 1 \in 1 .. Len(h) - cut /\ start < Len(r)
        BY <1>1, <1>2, <1>4, <3>2
      <4>2. r[start + 1] = h[cut + (start + 1)] /\ ~IsReply(r[start + 1])
        BY <1>2, <1>4, <2>2, <4>1 DEF CleanCut
      <4>3. cut + (start + 1) = cut + start + 1
        BY <1>1, <1>2, <1>4
      <4>4. QED
        BY <4>2, <4>3
    <3>3. QED
      BY <3>1, <3>2 DEF CleanCut
  <2>3. QED
    BY <2>1, <2>2
<1>6. From(r, start) = From(h, cut + start)
  <2>1. cut + start \in 0 .. Len(h)
    BY <1>5 DEF CleanCut
  <2>2. /\ From(r, start) \in Seq(Message) /\ Len(From(r, start)) = Len(r) - start
        /\ \A i \in 1 .. Len(r) - start : From(r, start)[i] = r[start + i]
    BY <1>2, <1>4, FromIs
  <2>3. /\ From(h, cut + start) \in Seq(Message)
        /\ Len(From(h, cut + start)) = Len(h) - (cut + start)
        /\ \A i \in 1 .. Len(h) - (cut + start) : From(h, cut + start)[i] = h[cut + start + i]
    BY <2>1, FromIs
  <2>4. Len(From(r, start)) = Len(From(h, cut + start))
    BY <1>1, <1>2, <1>4, <2>2, <2>3
  <2>5. ASSUME NEW i \in 1 .. Len(From(r, start))
        PROVE  From(r, start)[i] = From(h, cut + start)[i]
    <3>1. start + i \in 1 .. Len(h) - cut /\ i \in 1 .. Len(r) - start
          /\ i \in 1 .. Len(h) - (cut + start) /\ cut + (start + i) = cut + start + i
      BY <1>1, <1>2, <1>4, <2>2
    <3>2. From(r, start)[i] = r[start + i] /\ r[start + i] = h[cut + (start + i)]
      BY <1>2, <2>2, <3>1
    <3>3. QED
      BY <2>3, <3>1, <3>2
  <2>6. QED
    BY <2>2, <2>3, <2>4, <2>5, SeqEqual
<1>7. ASSUME NEW t, LastTextAt(h, t), cut < t PROVE cut + start < t
  <2>1. t \in 1 .. Len(h) /\ IsText(h[t]) /\ \A i \in t + 1 .. Len(h) : ~IsText(h[i])
    BY <1>7 DEF LastTextAt
  <2>2. CASE start = 0
    BY <1>1, <1>7, <2>1, <2>2
  <2>3. CASE start # 0
    <3> DEFINE last == LastText(r)
    <3>1. /\ last \in -1 .. Len(r) - 1
          /\ last >= 0 => IsText(r[last + 1])
          /\ \A i \in 1 .. Len(r) : IsText(r[i]) => i <= last + 1
      BY <1>2, LastTextIsLast
    <3>2. last >= 0 => start <= last
      BY <1>2, <1>3, <2>3, TrimIsClean DEF r
    <3> HIDE DEF last
    <3>3. t - cut \in 1 .. Len(h) - cut /\ cut + (t - cut) = t
      BY <1>1, <1>7, <2>1
    <3>4. IsText(r[t - cut])
      BY <1>2, <2>1, <3>3
    <3>5. t - cut <= last + 1
      BY <1>2, <3>1, <3>3, <3>4
    <3>6. last >= 0
      BY <3>1, <3>3, <3>5
    <3>7. last + 1 \in 1 .. Len(h) - cut /\ IsText(h[cut + (last + 1)])
      BY <1>1, <1>2, <3>1, <3>6
    <3>8. cut + (last + 1) <= t
      BY <1>1, <2>1, <3>7
    <3>9. QED
      BY <1>1, <1>4, <2>1, <3>1, <3>2, <3>6, <3>8
  <2>4. QED
    BY <2>2, <2>3
<1>8. QED
  BY <1>4, <1>5, <1>6, <1>7 DEF r

\* The whole of it: a compaction keeps the pairs, mends what was open, loses what
\* it says it loses, and keeps the last text and the last results.
LEMMA FoldedIs ==
    ASSUME NEW h \in Seq(Message), RepliesFollow(h), CallsOnce(h),
           NEW cut, CleanCut(h, cut), NEW trim \in BOOLEAN, NEW outcome,
           NEW before \in SUBSET Plain
    PROVE  LET f == Folded(h, cut, trim, outcome, before)
               s == f.history
           IN  /\ s \in Seq(Message) /\ Len(s) >= 1
               /\ RepliesFollow(s) /\ CallsOnce(s) /\ CallsAnswered(s, {})
               /\ \A j \in 1 .. Len(s) : s[j].kind = "calls" => \E i \in 1 .. Len(h) : s[j] = h[i]
               /\ f.lost \subseteq Plain
               /\ Contents(h) \subseteq Contents(s) \cup f.lost
               /\ \A t : LastTextAt(h, t) /\ cut < t =>
                      /\ \E u : u > 1 /\ s[u] = h[t] /\ LastTextAt(s, u)
                      /\ h[Len(h)].kind = "results" => s[Len(s)] = h[Len(h)]
<1> DEFINE older == SubSeq(h, 1, cut)
           recent == From(h, cut)
           start == IF trim THEN TrimStart(recent) ELSE 0
           from == IF outcome = "text" THEN before \cup Contents(older) ELSE {}
           k == cut + start
           rest == From(h, k)
           b == <<Summary(from)>> \o rest
           s == Sanitized(b)
           gone == (IF outcome = "text" THEN {} ELSE Contents(older))
                   \cup Contents(SubSeq(recent, 1, start))
<1>1. Len(h) \in Nat /\ cut \in 0 .. Len(h)
  BY LenProperties DEF CleanCut
<1>2. start = 0 \/ start = TrimStart(recent)
  OBVIOUS
<1>3. /\ start \in 0 .. Len(recent)
      /\ CleanCut(h, k)
      /\ From(recent, start) = rest
      /\ \A t : LastTextAt(h, t) /\ cut < t => k < t
  <2> HIDE DEF start
  <2> QED
    BY <1>2, TrimmedCut
<1>4. Folded(h, cut, trim, outcome, before).history = s
  BY <1>3 DEF Folded, From
<1>5. Folded(h, cut, trim, outcome, before).lost = gone
  BY DEF Folded, From
<1> HIDE DEF start
<1>6. older \in Seq(Message) /\ recent \in Seq(Message)
  BY <1>1, FromIs
<1>7. Contents(older) \subseteq Plain /\ Contents(SubSeq(recent, 1, start)) \subseteq Plain
  BY <1>3, <1>6, FromIs, ContentsArePlain
<1>8. from \in SUBSET Plain
  BY <1>7
<1>9. k \in 0 .. Len(h) /\ rest \in Seq(Message) /\ Len(rest) = Len(h) - k
      /\ \A i \in 1 .. Len(h) - k : rest[i] = h[k + i]
  <2>1. k \in 0 .. Len(h)
    BY <1>3 DEF CleanCut
  <2>2. QED
    BY <2>1, FromIs
<1>10. RepliesFollow(rest) /\ CallsOnce(rest)
  BY <1>3, PartInPairs
<1> HIDE DEF from, k, rest
<1>11. /\ b \in Seq(Message) /\ Len(b) = Len(rest) + 1
       /\ b[1] = Summary(from) /\ \A i \in 1 .. Len(rest) : b[i + 1] = rest[i]
       /\ RepliesFollow(b) /\ CallsOnce(b)
       /\ \A t : LastTextAt(rest, t) => LastTextAt(b, t + 1)
  BY <1>8, <1>9, <1>10, SummaryInFront
<1> HIDE DEF b
<1>12. MessagesStay(b, Len(b), s) /\ TextsStay(b, Len(b), s) /\ PairsStay(b, Len(b), s)
  BY <1>11, SanitizedIs
<1> HIDE DEF s
<1>13. Len(b) \in Nat /\ Len(b) >= 1
  BY <1>1, <1>9, <1>11
<1>14. s \in Seq(Message) /\ Len(s) \in Nat /\ Len(s) >= 1 /\ RepliesFollow(s) /\ CallsOnce(s)
  <2>1. s \in Seq(Message)
    BY <1>12 DEF MessagesStay
  <2>2. QED
    BY <1>12, <1>13, <2>1, LenProperties DEF MessagesStay, PairsStay
<1>15. CallsAnswered(s, {})
  <2> SUFFICES ASSUME NEW i \in 1 .. Len(s), s[i].kind = "calls"
               PROVE  i < Len(s) /\ IsReply(s[i + 1]) /\ s[i + 1].id = s[i].id
    BY DEF CallsAnswered
  <2>1. CASE i = Len(s) /\ s[i] = b[Len(b)] /\ ~Unanswered(b, b[Len(b)])
    <3>1. Len(b) \in 1 .. Len(b)
      BY <1>13
    <3>2. Len(b) < Len(b)
      BY <1>11, <2>1, <3>1, ReplyIsNext
    <3>3. QED
      BY <1>13, <3>2
  <2>2. QED
    BY <1>12, <2>1 DEF PairsStay
<1>16. ASSUME NEW j \in 1 .. Len(s), s[j].kind = "calls"
       PROVE  \E i \in 1 .. Len(h) : s[j] = h[i]
  <2>1. PICK i \in 1 .. Len(b) : s[j] = b[i]
    BY <1>12, <1>16 DEF MessagesStay
  <2>2. i # 1
    BY <1>8, <1>11, <1>16, <2>1, MessageFacts
  <2>3. i - 1 \in 1 .. Len(rest) /\ i = i - 1 + 1
    BY <1>1, <1>9, <1>11, <2>2
  <2>4. s[j] = h[k + (i - 1)] /\ k + (i - 1) \in 1 .. Len(h)
    <3>1. b[i - 1 + 1] = rest[i - 1]
      BY <1>11, <2>3
    <3>2. QED
      BY <1>1, <1>9, <2>1, <2>3, <3>1
  <2>5. QED
    BY <2>4
<1>17. Contents(h) \subseteq Contents(s) \cup gone
  <2>1. Contents(h) = Contents(older) \cup Contents(recent)
    BY <1>1, ContentsOfParts
  <2>2. Contents(recent) = Contents(SubSeq(recent, 1, start)) \cup Contents(rest)
    BY <1>3, <1>6, ContentsOfParts
  <2>3. Contents(rest) \subseteq Contents(s)
    <3> SUFFICES ASSUME NEW x \in Contents(rest) PROVE x \in Contents(s)
      OBVIOUS
    <3> DEFINE In(m) == IF m.kind = "summary" THEN x \in m.from ELSE x = m
    <3>1. PICK i \in 1 .. Len(rest) : In(rest[i])
      BY <1>9, InContents
    <3>2. i + 1 \in 1 .. Len(b) /\ b[i + 1] = rest[i]
      BY <1>1, <1>9, <1>11
    <3>3. PICK j \in 1 .. Len(s) : s[j] = b[i + 1]
      BY <1>12, <3>2 DEF MessagesStay
    <3>4. In(s[j])
      BY <3>1, <3>2, <3>3
    <3>5. QED
      BY <1>14, <3>4, InContents
  <2>4. outcome = "text" => Contents(older) \subseteq Contents(s)
    <3> SUFFICES ASSUME outcome = "text", NEW x \in Contents(older) PROVE x \in Contents(s)
      OBVIOUS
    <3>1. x \in from
      BY DEF from
    <3>2. PICK j \in 1 .. Len(s) : s[j] = b[1]
      BY <1>12, <1>13 DEF MessagesStay
    <3>3. s[j].kind = "summary" /\ s[j].from = from
      BY <1>8, <1>11, <3>2, MessageFacts
    <3>4. QED
      BY <1>14, <3>1, <3>3, InContents
  <2>5. QED
    BY <2>1, <2>2, <2>3, <2>4
<1>18. ASSUME NEW t, LastTextAt(h, t), cut < t
       PROVE  /\ \E u : u > 1 /\ s[u] = h[t] /\ LastTextAt(s, u)
              /\ h[Len(h)].kind = "results" => s[Len(s)] = h[Len(h)]
  <2>1. t \in 1 .. Len(h) /\ IsText(h[t]) /\ (\A i \in t + 1 .. Len(h) : ~IsText(h[i])) /\ k < t
    BY <1>3, <1>18 DEF LastTextAt
  <2>2. t - k \in 1 .. Len(rest) /\ rest[t - k] = h[t]
    <3>1. t - k \in 1 .. Len(h) - k /\ k + (t - k) = t
      BY <1>1, <1>9, <2>1
    <3>2. QED
      BY <1>9, <3>1
  <2>3. LastTextAt(rest, t - k)
    <3>1. ASSUME NEW i \in t - k + 1 .. Len(rest) PROVE ~IsText(rest[i])
      <4>1. i \in 1 .. Len(h) - k /\ k + i \in t + 1 .. Len(h)
        BY <1>1, <1>9, <2>1
      <4>2. QED
        BY <1>9, <2>1, <4>1
    <3>2. QED
      BY <2>1, <2>2, <3>1 DEF LastTextAt
  <2>4. LastTextAt(b, t - k + 1) /\ b[t - k + 1] = h[t]
    BY <1>11, <2>2, <2>3
  <2>5. PICK u \in t - k + 1 .. Len(s) : s[u] = b[t - k + 1] /\ LastTextAt(s, u)
    BY <1>12, <2>4 DEF TextsStay, LastTextAt
  <2>6. u > 1
    BY <1>1, <1>9, <2>2, <2>5
  <2>7. h[Len(h)].kind = "results" => s[Len(s)] = h[Len(h)]
    <3>1. Len(rest) \in 1 .. Len(rest) /\ b[Len(rest) + 1] = rest[Len(rest)]
      BY <1>1, <1>9, <1>11, <2>2
    <3>2. rest[Len(h) - k] = h[k + (Len(h) - k)] /\ k + (Len(h) - k) = Len(h)
      BY <1>1, <1>9, <3>1
    <3>3. b[Len(b)] = h[Len(h)]
      BY <1>9, <1>11, <3>1, <3>2
    <3>4. h[Len(h)].kind = "results" => ~Unanswered(b, b[Len(b)])
      BY <3>3 DEF Unanswered
    <3>5. QED
      BY <1>12, <1>13, <3>3, <3>4 DEF MessagesStay
  <2>8. QED
    BY <2>4, <2>5, <2>6, <2>7
<1>19. gone \subseteq Plain
  BY <1>7
<1> HIDE DEF gone
<1>20. QED
  BY <1>4, <1>5, <1>14, <1>15, <1>16, <1>17, <1>18, <1>19

--------------------------------------------------------------------------------
(* Messages at the end of a conversation.                                       *)

LEMMA AppendIs ==
    ASSUME NEW h \in Seq(Message), NEW m \in Message
    PROVE  LET r == Append(h, m)
           IN  /\ r \in Seq(Message) /\ Len(r) = Len(h) + 1 /\ Len(r) \in Nat
               /\ \A i \in 1 .. Len(h) : r[i] = h[i]
               /\ r[Len(h) + 1] = m
               /\ Contents(h) \subseteq Contents(r)
               /\ m.kind # "summary" => m \in Contents(r)
               /\ IsText(m) => LastTextAt(r, Len(h) + 1)
               /\ \A t : LastTextAt(h, t) /\ ~IsText(m) => LastTextAt(r, t) /\ r[t] = h[t]
<1> DEFINE r == Append(h, m)
<1>1. /\ r \in Seq(Message) /\ Len(r) = Len(h) + 1 /\ Len(h) \in Nat
      /\ \A i \in 1 .. Len(h) : r[i] = h[i]
      /\ r[Len(h) + 1] = m
  BY AppendProperties, LenProperties
<1> HIDE DEF r
<1>2. ASSUME NEW x \in Contents(h) PROVE x \in Contents(r)
  <2>1. PICK i \in 1 .. Len(h) : IF h[i].kind = "summary" THEN x \in h[i].from ELSE x = h[i]
    BY InContents
  <2>2. i \in 1 .. Len(r) /\ r[i] = h[i]
    BY <1>1
  <2>3. QED
    BY <1>1, <2>1, <2>2, InContents
<1>3. m.kind # "summary" => m \in Contents(r)
  <2>1. Len(h) + 1 \in 1 .. Len(r)
    BY <1>1
  <2>2. QED
    BY <1>1, <2>1, InContents
<1>4. IsText(m) => LastTextAt(r, Len(h) + 1)
  BY <1>1 DEF LastTextAt
<1>5. ASSUME NEW t, LastTextAt(h, t), ~IsText(m) PROVE LastTextAt(r, t) /\ r[t] = h[t]
  <2>1. t \in 1 .. Len(h) /\ IsText(h[t]) /\ \A i \in t + 1 .. Len(h) : ~IsText(h[i])
    BY <1>5 DEF LastTextAt
  <2>2. ASSUME NEW i \in t + 1 .. Len(r) PROVE ~IsText(r[i])
    <3>1. i = Len(h) + 1 \/ (i \in t + 1 .. Len(h) /\ i \in 1 .. Len(h))
      BY <1>1, <2>1
    <3>2. QED
      BY <1>1, <1>5, <2>1, <3>1
  <2>3. QED
    BY <1>1, <2>1, <2>2 DEF LastTextAt
<1>6. Contents(h) \subseteq Contents(r) /\ Len(r) \in Nat
  BY <1>1, <1>2
<1>7. \A t : LastTextAt(h, t) /\ ~IsText(m) => LastTextAt(r, t) /\ r[t] = h[t]
  BY <1>5
<1>8. QED
  BY <1>1, <1>3, <1>4, <1>6, <1>7 DEF r

\* Calls that are new and a reply to the calls before it keep the pairs, and so
\* does anything that is neither.
LEMMA AppendInPairs ==
    ASSUME NEW h \in Seq(Message), RepliesFollow(h), CallsOnce(h),
           NEW open, CallsAnswered(h, open), NEW m \in Message,
           IsReply(m) => EndsWith(h, Calls(m.id)),
           m.kind = "calls" => \A i \in 1 .. Len(h) : h[i] # m
    PROVE  LET r == Append(h, m)
           IN  /\ RepliesFollow(r) /\ CallsOnce(r)
               /\ m.kind = "calls" => CallsAnswered(r, open \cup {m.id})
               /\ m.kind # "calls" => CallsAnswered(r, open)
               /\ IsReply(m) => CallsAnswered(r, open \ {m.id})
<1> DEFINE r == Append(h, m)
<1>1. /\ r \in Seq(Message) /\ Len(r) = Len(h) + 1 /\ Len(h) \in Nat
      /\ \A i \in 1 .. Len(h) : r[i] = h[i]
      /\ r[Len(h) + 1] = m
  BY AppendProperties, LenProperties
<1> HIDE DEF r
<1>2. \A i \in 1 .. Len(r) : i \in 1 .. Len(h) \/ i = Len(h) + 1
  BY <1>1
<1>3. ASSUME NEW i \in 1 .. Len(r), IsReply(r[i]) PROVE i > 1 /\ r[i - 1] = Calls(r[i].id)
  <2>1. CASE i \in 1 .. Len(h)
    <3>1. i > 1 /\ h[i - 1] = Calls(h[i].id)
      BY <1>1, <1>3, <2>1 DEF RepliesFollow
    <3>2. i - 1 \in 1 .. Len(h)
      BY <1>1, <2>1, <3>1
    <3>3. QED
      BY <1>1, <2>1, <3>1, <3>2
  <2>2. CASE i = Len(h) + 1
    BY <1>1, <1>3, <2>2 DEF EndsWith
  <2>3. QED
    BY <1>2, <2>1, <2>2
<1>4. ASSUME NEW i \in 1 .. Len(r), NEW j \in 1 .. Len(r), r[i].kind = "calls", r[i] = r[j]
      PROVE  i = j
  <2>1. CASE i \in 1 .. Len(h) /\ j \in 1 .. Len(h)
    BY <1>1, <1>4, <2>1 DEF CallsOnce
  <2>2. QED
    BY <1>1, <1>2, <1>4, <2>1
<1>5. ASSUME NEW i \in 1 .. Len(h), r[i].kind = "calls", r[i].id \notin open
      PROVE  i < Len(r) /\ IsReply(r[i + 1]) /\ r[i + 1].id = r[i].id
  <2>1. i < Len(h) /\ IsReply(h[i + 1]) /\ h[i + 1].id = h[i].id
    BY <1>1, <1>5 DEF CallsAnswered
  <2>2. i + 1 \in 1 .. Len(h)
    BY <1>1, <2>1
  <2>3. QED
    BY <1>1, <2>1, <2>2
<1>6. m.kind = "calls" => CallsAnswered(r, open \cup {m.id})
  BY <1>1, <1>2, <1>5 DEF CallsAnswered
<1>7. m.kind # "calls" => CallsAnswered(r, open)
  BY <1>1, <1>2, <1>5 DEF CallsAnswered
<1>8. ASSUME IsReply(m) PROVE CallsAnswered(r, open \ {m.id})
  <2> SUFFICES ASSUME NEW i \in 1 .. Len(r), r[i].kind = "calls", r[i].id \notin open \ {m.id}
               PROVE  i < Len(r) /\ IsReply(r[i + 1]) /\ r[i + 1].id = r[i].id
    BY DEF CallsAnswered
  <2>1. i \in 1 .. Len(h)
    BY <1>1, <1>2, <1>8, MessageFacts
  <2>2. CASE r[i].id = m.id
    <3>1. h[i] = Calls(m.id)
      BY <1>1, <2>1, <2>2, MessageFacts, ElementOfSeq
    <3>2. i = Len(h)
      BY <1>1, <1>8, <2>1, <3>1, MessageFacts DEF EndsWith, CallsOnce
    <3>3. QED
      BY <1>1, <1>8, <2>2, <3>2
  <2>3. QED
    BY <1>5, <2>1, <2>2
<1>9. QED
  BY <1>3, <1>4, <1>6, <1>7, <1>8 DEF r, RepliesFollow, CallsOnce

LEMMA OpenMayGrow ==
    ASSUME NEW h, NEW S, NEW T, S \subseteq T, CallsAnswered(h, S)
    PROVE  CallsAnswered(h, T)
BY DEF CallsAnswered

\* Announcements behind a conversation keep its pairs and all it says.
LEMMA NotesBehind ==
    ASSUME NEW h \in Seq(Message), RepliesFollow(h), CallsOnce(h),
           NEW open, CallsAnswered(h, open), NEW n \in Nat
    PROVE  LET r == h \o [i \in 1 .. n |-> Note]
           IN  /\ r \in Seq(Message) /\ Len(r) = Len(h) + n
               /\ RepliesFollow(r) /\ CallsOnce(r) /\ CallsAnswered(r, open)
               /\ \A j \in 1 .. Len(r) : r[j].kind = "calls" => \E i \in 1 .. Len(h) : r[j] = h[i]
               /\ Contents(h) \subseteq Contents(r)
               /\ n = 0 => r = h
<1> DEFINE notes == [i \in 1 .. n |-> Note]
           r == h \o notes
<1>1. notes \in Seq(Message) /\ Len(notes) = n /\ \A i \in 1 .. n : notes[i] = Note
  <2>1. Note \in Message
    BY MessageFacts
  <2>2. notes \in [1 .. n -> Message]
    BY <2>1
  <2>3. QED
    BY <2>2
<1> HIDE DEF notes
<1>2. /\ r \in Seq(Message) /\ Len(r) = Len(h) + n /\ Len(h) \in Nat
      /\ \A i \in 1 .. Len(h) + n : r[i] = IF i <= Len(h) THEN h[i] ELSE notes[i - Len(h)]
  BY <1>1, ConcatProperties, LenProperties
<1> HIDE DEF r
<1>3. \A i \in 1 .. Len(h) : r[i] = h[i]
  BY <1>2
<1>4. ASSUME NEW i \in 1 .. Len(r), i \notin 1 .. Len(h) PROVE r[i] = Note
  <2>1. i - Len(h) \in 1 .. n /\ ~(i <= Len(h)) /\ i \in 1 .. Len(h) + n
    BY <1>2, <1>4
  <2>2. QED
    BY <1>1, <1>2, <2>1
<1>5. Note.kind # "calls" /\ ~IsReply(Note)
  BY MessageFacts DEF IsReply
<1>6. ASSUME NEW i \in 1 .. Len(r), IsReply(r[i]) PROVE i > 1 /\ r[i - 1] = Calls(r[i].id)
  <2>1. i \in 1 .. Len(h)
    BY <1>4, <1>5, <1>6
  <2>2. i > 1 /\ h[i - 1] = Calls(h[i].id)
    BY <1>3, <1>6, <2>1 DEF RepliesFollow
  <2>3. i - 1 \in 1 .. Len(h)
    BY <1>2, <2>1, <2>2
  <2>4. QED
    BY <1>3, <2>1, <2>2, <2>3
<1>7. CallsOnce(r)
  BY <1>3, <1>4, <1>5 DEF CallsOnce
<1>8. ASSUME NEW i \in 1 .. Len(r), r[i].kind = "calls", r[i].id \notin open
      PROVE  i < Len(r) /\ IsReply(r[i + 1]) /\ r[i + 1].id = r[i].id
  <2>1. i \in 1 .. Len(h)
    BY <1>4, <1>5, <1>8
  <2>2. i < Len(h) /\ IsReply(h[i + 1]) /\ h[i + 1].id = h[i].id
    BY <1>3, <1>8, <2>1 DEF CallsAnswered
  <2>3. i + 1 \in 1 .. Len(h)
    BY <1>2, <2>1, <2>2
  <2>4. QED
    BY <1>2, <1>3, <2>1, <2>2, <2>3
<1>9. \A j \in 1 .. Len(r) : r[j].kind = "calls" => \E i \in 1 .. Len(h) : r[j] = h[i]
  BY <1>3, <1>4, <1>5
<1>10. ASSUME NEW x \in Contents(h) PROVE x \in Contents(r)
  <2>1. PICK i \in 1 .. Len(h) : IF h[i].kind = "summary" THEN x \in h[i].from ELSE x = h[i]
    BY InContents
  <2>2. i \in 1 .. Len(r) /\ r[i] = h[i]
    BY <1>2, <1>3
  <2>3. QED
    BY <1>2, <2>1, <2>2, InContents
<1>11. n = 0 => r = h
  <2> SUFFICES ASSUME n = 0 PROVE r = h
    OBVIOUS
  <2>1. Len(r) = Len(h)
    BY <1>2
  <2>2. QED
    BY <1>2, <1>3, <2>1, SeqEqual
<1>12. QED
  BY <1>2, <1>6, <1>7, <1>8, <1>9, <1>10, <1>11 DEF r, notes, RepliesFollow, CallsAnswered

--------------------------------------------------------------------------------
(* What may be pruned.                                                          *)

LEMMA PrunableIs ==
    ASSUME NEW h \in Seq(Message), RepliesFollow(h), CallsOnce(h), NEW m \in Prunable(h)
    PROVE  /\ m.kind = "results" /\ m \in Plain
           /\ \E i \in 1 .. Len(h) : h[i] = Calls(m.id)
           /\ ~EndsWith(h, m)
<1>1. Len(h) \in Nat /\ Keep \in Nat /\ Keep >= 2
  BY LenProperties, LoopBounds DEF Keep
<1>2. PICK i \in 1 .. Len(h) - Keep : h[i] = m /\ m.kind = "results"
  BY DEF Prunable
<1>3. i \in 1 .. Len(h) /\ i # Len(h)
  BY <1>1, <1>2
<1>4. IsReply(m)
  BY <1>2 DEF IsReply
<1>5. i > 1 /\ h[i - 1] = Calls(m.id) /\ i - 1 \in 1 .. Len(h)
  BY <1>1, <1>2, <1>3, <1>4 DEF RepliesFollow
<1>6. ~EndsWith(h, m)
  <2> SUFFICES ASSUME EndsWith(h, m) PROVE FALSE
    OBVIOUS
  <2>1. Len(h) \in 1 .. Len(h) /\ h[Len(h)] = m
    BY <1>1 DEF EndsWith
  <2>2. Len(h) > 1 /\ h[Len(h) - 1] = Calls(m.id) /\ Len(h) - 1 \in 1 .. Len(h)
    BY <1>1, <1>4, <2>1 DEF RepliesFollow
  <2>3. i - 1 = Len(h) - 1
    BY <1>5, <2>2, MessageFacts DEF CallsOnce
  <2>4. QED
    BY <1>1, <1>3, <2>3
<1>7. m \in Plain
  BY <1>2, <1>3, MessageFacts, ElementOfSeq
<1>8. QED
  BY <1>2, <1>5, <1>6, <1>7

--------------------------------------------------------------------------------
(* The inductive invariant.                                                     *)

Running == phase # "idle"

\* The two exceptions of RequestKept and ResultsAreRead.
Excused == said = {Request(turn)} \/ noted

\* The types of what is no conversation; a turn that runs was asked for.
Numbers ==
    /\ phase \in {"idle", "round", "calling", "retrying", "tools", "concluding"}
    /\ phase = "idle" <=> scratch = <<>>
    /\ turn \in 0 .. MaxTurn /\ (Running => turn >= 1)
    /\ round \in 1 .. MaxIterations /\ groups \in 0 .. MaxGroup
    /\ failures \in 0 .. MaxFailures /\ compactions \in 0 .. MaxCompaction
    /\ todo \in BOOLEAN /\ cooling \in BOOLEAN /\ noted \in BOOLEAN
    /\ cutOff \subseteq 1 .. MaxGroup /\ mended \subseteq 1 .. MaxGroup
    /\ lost \subseteq Plain /\ pruned \subseteq Plain /\ previous \subseteq Plain
    /\ said \subseteq Plain /\ uttered \subseteq Plain /\ read \subseteq Plain
    /\ dropped \subseteq Plain /\ earlier \subseteq Plain

\* A conversation in pairs but for open calls, with calls that were made.
InPairs(h, open, n) ==
    /\ h \in Seq(Message)
    /\ RepliesFollow(h) /\ CallsOnce(h) /\ CallsAnswered(h, open)
    /\ \A i \in 1 .. Len(h) : h[i].kind = "calls" => h[i].id <= n

\* While the tools run, the last message waits for their results.
Open == (cutOff \ mended) \cup (IF phase = "tools" THEN {groups} ELSE {})
Pairs ==
    /\ InPairs(history, cutOff, groups)
    /\ InPairs(scratch, Open, groups)
    /\ phase = "tools" => EndsWith(scratch, Calls(groups))

\* What NothingVanishes says at its two places, said at every place.
Keeps ==
    /\ history = <<>> => said = {}
    /\ ~Running => uttered = {}
    /\ said \subseteq Contents(history) \cup dropped
    /\ Running => said \cup uttered \subseteq Contents(scratch) \cup dropped \cup lost

\* The request is the last text and not the first message, and results the model
\* has not read are those of the last calls, at the end and whole.
RequestStands ==
    Running /\ ~Excused => \E t : t > 1 /\ LastTextAt(scratch, t) /\ scratch[t] = Request(turn)
UnreadAreLast ==
    Running /\ ~Excused => \A m \in uttered \ read : m.kind = "results" =>
        /\ m = Results(groups) /\ m \notin pruned
        /\ phase \in {"round", "calling", "concluding"}
        /\ EndsWith(scratch, m)
PrunedWereMade ==
    /\ \A m \in pruned : m.kind = "results" => m.id <= groups
    /\ phase = "tools" => Results(groups) \notin pruned

LoopIndInv ==
    Numbers /\ Pairs /\ Keeps /\ RequestStands /\ UnreadAreLast /\ PrunedWereMade

LEMMA LastTextAtIs ==
    ASSUME NEW h \in Seq(Message), NEW t, LastTextAt(h, t)
    PROVE  LastText(h) = t - 1
<1>1. t \in 1 .. Len(h) /\ IsText(h[t]) /\ \A i \in t + 1 .. Len(h) : ~IsText(h[i])
  BY DEF LastTextAt
<1> DEFINE last == LastText(h)
<1>2. /\ last \in -1 .. Len(h) - 1 /\ Len(h) \in Nat
      /\ last >= 0 => IsText(h[last + 1])
      /\ \A i \in 1 .. Len(h) : IsText(h[i]) => i <= last + 1
  BY LastTextIsLast, LenProperties
<1> HIDE DEF last
<1>3. t <= last + 1
  BY <1>1, <1>2
<1>4. last + 1 \in 1 .. Len(h) /\ ~(last + 1 \in t + 1 .. Len(h))
  BY <1>1, <1>2, <1>3
<1>5. last + 1 = t
  BY <1>1, <1>2, <1>3, <1>4
<1>6. QED
  BY <1>1, <1>2, <1>5 DEF last

\* append_active_todo_reminder behind a conversation in pairs.
LEMMA RemindedIs ==
    ASSUME NEW h, InPairs(h, {}, groups), NEW outcome
    PROVE  LET r == Reminded(h, outcome)
           IN  /\ InPairs(r, {}, groups) /\ Len(r) >= Len(h)
               /\ Contents(h) \subseteq Contents(r)
               /\ ~(outcome = "text" /\ todo) => r = h
<1>1. CASE outcome = "text" /\ todo
  <2> DEFINE r == Append(h, Note)
  <2>1. Note \in Message /\ Note.kind # "calls" /\ ~IsReply(Note)
    BY MessageFacts DEF IsReply
  <2>2. /\ r \in Seq(Message) /\ Len(r) = Len(h) + 1 /\ Len(h) \in Nat
        /\ \A i \in 1 .. Len(h) : r[i] = h[i]
        /\ r[Len(h) + 1] = Note
        /\ Contents(h) \subseteq Contents(r)
    BY <2>1, AppendIs, LenProperties DEF InPairs
  <2>3. RepliesFollow(r) /\ CallsOnce(r) /\ CallsAnswered(r, {})
    BY <2>1, AppendInPairs DEF InPairs
  <2>4. Reminded(h, outcome) = r
    BY <1>1 DEF Reminded
  <2> HIDE DEF r
  <2>5. \A i \in 1 .. Len(r) : r[i].kind = "calls" => r[i].id <= groups
    BY <2>1, <2>2 DEF InPairs
  <2>6. QED
    BY <1>1, <2>2, <2>3, <2>4, <2>5 DEF InPairs
<1>2. CASE ~(outcome = "text" /\ todo)
  <2>1. Reminded(h, outcome) = h
    BY <1>2 DEF Reminded
  <2>2. Len(h) \in Nat
    BY LenProperties DEF InPairs
  <2>3. QED
    BY <2>1, <2>2
<1>3. QED
  BY <1>1, <1>2

LEMMA TrackedIs ==
    ASSUME Numbers, NEW older \in Seq(Message), NEW outcome,
           outcome = "raises" => failures < MaxFailures, Tracked(older, outcome)
    PROVE  previous' \subseteq Plain /\ failures' \in 0 .. MaxFailures /\ cooling' \in BOOLEAN
<1>1. Contents(older) \subseteq Plain
  BY ContentsArePlain
<1>2. previous' \subseteq Plain
  BY <1>1 DEF Tracked, Numbers
<1>3. failures' \in 0 .. MaxFailures
  BY DEF Tracked, Numbers, MaxFailures
<1>4. cooling' \in BOOLEAN
  BY DEF Tracked, Numbers
<1>5. QED
  BY <1>2, <1>3, <1>4

\* A compaction of a running turn.
LEMMA CompactionOfTurn ==
    ASSUME LoopIndInv, phase # "tools", NEW severe \in BOOLEAN, CompactScratch(severe)
    PROVE  /\ InPairs(scratch', {}, groups) /\ Len(scratch') >= 1
           /\ lost' \subseteq Plain
           /\ Contents(scratch) \cup lost \subseteq Contents(scratch') \cup lost'
           /\ previous' \subseteq Plain /\ failures' \in 0 .. MaxFailures
           /\ cooling' \in BOOLEAN /\ noted' \in BOOLEAN
           /\ compactions' \in 0 .. MaxCompaction
           /\ mended' = cutOff /\ pruned' = pruned \cup Prunable(scratch)
           /\ noted => noted'
           /\ ~noted' => \A t : t > 1 /\ LastTextAt(scratch, t) =>
                  /\ \E u : u > 1 /\ scratch'[u] = scratch[t] /\ LastTextAt(scratch', u)
                  /\ scratch[Len(scratch)].kind = "results" =>
                         scratch'[Len(scratch')] = scratch[Len(scratch)]
<1> USE DEF LoopIndInv
<1>1. PICK trim \in BOOLEAN, outcome \in Outcomes :
          LET aggressive == severe \/ IsShort(scratch)
              cut == IF aggressive THEN SevereCut(scratch) ELSE SplitCut(scratch)
              folded == Folded(scratch, cut, trim, outcome, previous)
          IN  /\ aggressive => ~trim
              /\ compactions < MaxCompaction
              /\ compactions' = compactions + 1
              /\ Prunes(scratch)
              /\ scratch' = Reminded(folded.history, outcome)
              /\ noted' = (noted \/ (outcome = "text" /\ todo))
              /\ lost' = lost \cup folded.lost
              /\ mended' = cutOff
              /\ Tracked(SubSeq(scratch, 1, cut), outcome)
  BY DEF CompactScratch
<1> DEFINE h == scratch
           cut == IF severe \/ IsShort(h) THEN SevereCut(h) ELSE SplitCut(h)
           f == Folded(h, cut, trim, outcome, previous)
           s == f.history
<1>2. h \in Seq(Message) /\ RepliesFollow(h) /\ CallsOnce(h)
      /\ \A i \in 1 .. Len(h) : h[i].kind = "calls" => h[i].id <= groups
  BY DEF Pairs, InPairs
<1>3. CleanCut(h, cut) /\ (LastText(h) >= 1 => cut <= LastText(h))
  BY <1>2, CutsAreClean
<1>4. /\ compactions < MaxCompaction /\ compactions' = compactions + 1
      /\ Prunes(h)
      /\ scratch' = Reminded(s, outcome)
      /\ noted' = (noted \/ (outcome = "text" /\ todo))
      /\ lost' = lost \cup f.lost
      /\ mended' = cutOff
      /\ Tracked(SubSeq(h, 1, cut), outcome)
  BY <1>1
<1> HIDE DEF cut
<1>5. /\ s \in Seq(Message) /\ Len(s) >= 1
      /\ RepliesFollow(s) /\ CallsOnce(s) /\ CallsAnswered(s, {})
      /\ \A j \in 1 .. Len(s) : s[j].kind = "calls" => \E i \in 1 .. Len(h) : s[j] = h[i]
      /\ f.lost \subseteq Plain
      /\ Contents(h) \subseteq Contents(s) \cup f.lost
      /\ \A t : LastTextAt(h, t) /\ cut < t =>
             /\ \E u : u > 1 /\ s[u] = h[t] /\ LastTextAt(s, u)
             /\ h[Len(h)].kind = "results" => s[Len(s)] = h[Len(h)]
  <2>1. previous \in SUBSET Plain
    BY DEF Numbers
  <2>2. QED
    BY <1>2, <1>3, <2>1, FoldedIs
<1> HIDE DEF f
<1>6. InPairs(s, {}, groups)
  <2>1. \A j \in 1 .. Len(s) : s[j].kind = "calls" => s[j].id <= groups
    BY <1>2, <1>5
  <2>2. QED
    BY <1>5, <2>1 DEF InPairs
<1>7. /\ InPairs(scratch', {}, groups) /\ Len(scratch') >= Len(s)
      /\ Contents(s) \subseteq Contents(scratch')
      /\ ~(outcome = "text" /\ todo) => scratch' = s
  BY <1>4, <1>6, RemindedIs
<1>8. SubSeq(h, 1, cut) \in Seq(Message)
  BY <1>2, <1>3, FromIs DEF CleanCut
<1>9. previous' \subseteq Plain /\ failures' \in 0 .. MaxFailures /\ cooling' \in BOOLEAN
  <2>1. outcome = "raises" => failures < MaxFailures
    BY DEF Outcomes, Numbers, MaxFailures
  <2>2. QED
    BY <1>4, <1>8, <2>1, TrackedIs
<1>10. lost' \subseteq Plain
  BY <1>4, <1>5 DEF Numbers
<1>11. Contents(h) \cup lost \subseteq Contents(scratch') \cup lost'
  BY <1>4, <1>5, <1>7
<1>12. compactions' \in 0 .. MaxCompaction
  BY <1>4, LoopBounds DEF Numbers
<1>13. noted' \in BOOLEAN /\ (noted => noted') /\ (~noted' => ~(outcome = "text" /\ todo))
  BY <1>4, Zenon DEF Numbers
<1>14. ASSUME ~noted', NEW t, t > 1, LastTextAt(h, t)
       PROVE  /\ \E u : u > 1 /\ scratch'[u] = h[t] /\ LastTextAt(scratch', u)
              /\ h[Len(h)].kind = "results" => scratch'[Len(scratch')] = h[Len(h)]
  <2>1. scratch' = s
    BY <1>7, <1>13, <1>14
  <2>2. LastText(h) = t - 1 /\ t \in 1 .. Len(h)
    BY <1>2, <1>14, LastTextAtIs DEF LastTextAt
  <2>3. cut < t
    BY <1>2, <1>3, <1>14, <2>2, LenProperties DEF CleanCut
  <2>4. QED
    BY <1>5, <1>14, <2>1, <2>3
<1>15. Len(scratch') >= 1
  <2>1. Len(s) \in Nat /\ Len(scratch') \in Nat
    BY <1>5, <1>7, LenProperties DEF InPairs
  <2>2. QED
    BY <1>5, <1>7, <2>1
<1>16. mended' = cutOff /\ pruned' = pruned \cup Prunable(h)
  BY <1>4 DEF Prunes
<1> HIDE DEF s
<1>17. QED
  BY <1>7, <1>9, <1>10, <1>11, <1>12, <1>13, <1>14, <1>15, <1>16

--------------------------------------------------------------------------------
(* Every step keeps it.                                                         *)

LEMMA LoopInit == Init => LoopIndInv
<1> SUFFICES ASSUME Init PROVE LoopIndInv
  OBVIOUS
<1> USE DEF Init
<1>1. Numbers
  <2>1. /\ turn \in 0 .. MaxTurn /\ round \in 1 .. MaxIterations /\ groups \in 0 .. MaxGroup
        /\ failures \in 0 .. MaxFailures /\ compactions \in 0 .. MaxCompaction
    BY LoopBounds DEF MaxFailures
  <2>2. phase \in {"idle", "round", "calling", "retrying", "tools", "concluding"} /\ ~Running
    BY DEF Running
  <2>3. todo \in BOOLEAN /\ cooling \in BOOLEAN /\ noted \in BOOLEAN
    OBVIOUS
  <2>4. QED
    BY <2>1, <2>2, <2>3, Zenon DEF Numbers
<1>2. Pairs
  BY DEF Pairs, InPairs, RepliesFollow, CallsOnce, CallsAnswered
<1>3. QED
  BY <1>1, <1>2 DEF LoopIndInv, Keeps, RequestStands, UnreadAreLast, PrunedWereMade, Running

LEMMA EmptyInPairs == ASSUME NEW open, NEW n PROVE InPairs(<<>>, open, n)
BY DEF InPairs, RepliesFollow, CallsOnce, CallsAnswered

\* The end of a turn: what it leaves in the history is in pairs and says it all.
LEMMA CommitKeeps ==
    ASSUME LoopIndInv, Running, NEW h, NEW added \in SUBSET Plain, NEW calls,
           Commit(h, added, calls), groups' \in Nat,
           InPairs(h, (cutOff \ mended) \cup calls, groups'), Len(h) >= 1,
           Contents(scratch) \cup added \subseteq Contents(h)
    PROVE  Pairs' /\ Keeps' /\ RequestStands' /\ UnreadAreLast'
<1> USE DEF Commit
<1>1. phase' = "idle" /\ scratch' = <<>> /\ ~Running'
  BY DEF Running
<1>2. InPairs(scratch', Open', groups')
  BY <1>1, EmptyInPairs
<1>3. Pairs'
  BY <1>1, <1>2 DEF Pairs
<1>4. history' # <<>>
  OBVIOUS
<1>5. said' \subseteq Contents(history') \cup dropped'
  BY DEF LoopIndInv, Keeps
<1>6. Keeps'
  BY <1>1, <1>4, <1>5 DEF Keeps
<1>7. QED
  BY <1>1, <1>3, <1>6 DEF RequestStands, UnreadAreLast

LEMMA AskKeeps == LoopIndInv /\ Ask => LoopIndInv'
<1> SUFFICES ASSUME LoopIndInv, Ask PROVE LoopIndInv'
  OBVIOUS
<1> USE DEF Ask, LoopIndInv
<1> DEFINE m == Request(turn')
           r == Append(history, m)
<1>1. turn' \in 1 .. MaxTurn /\ phase' = "round" /\ Running' /\ ~Running
  BY LoopBounds DEF Numbers, Running
<1>2. m \in Plain /\ m \in Message /\ m.kind # "summary" /\ m.kind # "calls" /\ ~IsReply(m) /\ IsText(m)
  BY <1>1, MessageFacts DEF IsReply
<1>3. /\ r \in Seq(Message) /\ Len(r) = Len(history) + 1 /\ Len(r) \in Nat
      /\ \A i \in 1 .. Len(history) : r[i] = history[i]
      /\ r[Len(history) + 1] = m
      /\ Contents(history) \subseteq Contents(r)
      /\ m \in Contents(r)
      /\ LastTextAt(r, Len(history) + 1)
  BY <1>2, AppendIs DEF Pairs, InPairs
<1>4. RepliesFollow(r) /\ CallsOnce(r) /\ CallsAnswered(r, cutOff)
  BY <1>2, AppendInPairs DEF Pairs, InPairs
<1>5. history' = r /\ scratch' = r
  OBVIOUS
<1> HIDE DEF m, r
<1>6. Len(history) \in Nat
  BY LenProperties DEF Pairs, InPairs
<1>7. InPairs(r, cutOff, groups)
  <2>1. ASSUME NEW i \in 1 .. Len(r), r[i].kind = "calls" PROVE r[i].id <= groups
    <3>1. i \in 1 .. Len(history)
      BY <1>2, <1>3, <1>6, <2>1
    <3>2. QED
      BY <1>3, <2>1, <3>1 DEF Pairs, InPairs
  <2>2. QED
    BY <1>3, <1>4, <2>1 DEF InPairs
<1>8. Open' = cutOff
  BY DEF Open
<1>9. Pairs'
  BY <1>5, <1>7, <1>8 DEF Pairs
<1>10. Numbers'
  <2>1. scratch' # <<>>
    BY <1>3, <1>5, <1>6
  <2>2. said' \subseteq Plain
    BY <1>2 DEF Numbers, m
  <2>3. round' \in 1 .. MaxIterations
    BY LoopBounds
  <2>4. noted' \in BOOLEAN /\ todo' \in BOOLEAN /\ cooling' \in BOOLEAN
    BY Zenon DEF Numbers, summaryVars
  <2>5. turn' \in 0 .. MaxTurn /\ turn' >= 1 /\ lost' = {} /\ mended' = {}
    BY <1>1
  <2>6. /\ groups' \in 0 .. MaxGroup /\ failures' \in 0 .. MaxFailures
        /\ compactions' \in 0 .. MaxCompaction /\ cutOff' \subseteq 1 .. MaxGroup
        /\ pruned' \subseteq Plain /\ previous' \subseteq Plain /\ uttered' \subseteq Plain
        /\ read' \subseteq Plain /\ dropped' \subseteq Plain /\ earlier' \subseteq Plain
    BY DEF Numbers, summaryVars
  <2>7. QED
    BY <1>1, <2>1, <2>2, <2>3, <2>4, <2>5, <2>6, Zenon DEF Numbers
<1>11. Keeps'
  <2>1. said' \subseteq Contents(r) \cup dropped
    BY <1>3 DEF Keeps, m
  <2>2. uttered' = {} /\ history' # <<>>
    BY <1>1, <1>3, <1>5, <1>6 DEF Keeps
  <2>3. QED
    BY <1>1, <1>5, <2>1, <2>2 DEF Keeps
<1>12. RequestStands'
  <2> SUFFICES ASSUME ~Excused'
               PROVE  \E t : t > 1 /\ LastTextAt(scratch', t) /\ scratch'[t] = Request(turn')
    BY DEF RequestStands
  <2>1. said # {}
    BY DEF Excused
  <2>2. Len(history) >= 1
    <3>1. history # <<>>
      BY <2>1 DEF Keeps
    <3>2. QED
      BY <1>6, <3>1, EmptySeq DEF Pairs, InPairs
  <2>3. Len(history) + 1 > 1
    BY <1>6, <2>2
  <2>4. LastTextAt(scratch', Len(history) + 1) /\ scratch'[Len(history) + 1] = Request(turn')
    BY <1>3, <1>5 DEF m
  <2>5. QED
    BY <2>3, <2>4
<1>13. UnreadAreLast'
  BY <1>1 DEF UnreadAreLast, Keeps
<1>14. PrunedWereMade'
  BY <1>1 DEF PrunedWereMade
<1>15. QED
  BY <1>9, <1>10, <1>11, <1>12, <1>13, <1>14

\* Pruning takes the body of results that were made, and never of the last message.
LEMMA PrunableWereMade ==
    ASSUME NEW h, NEW open, NEW n, InPairs(h, open, n), NEW m \in Prunable(h)
    PROVE  m \in Plain /\ m.id <= n /\ ~EndsWith(h, m)
<1>1. /\ m \in Plain /\ ~EndsWith(h, m)
      /\ \E i \in 1 .. Len(h) : h[i] = Calls(m.id)
  BY PrunableIs DEF InPairs
<1>2. PICK i \in 1 .. Len(h) : h[i] = Calls(m.id)
  BY <1>1
<1>3. h[i].kind = "calls" /\ h[i].id = m.id
  BY <1>2, MessageFacts
<1>4. QED
  BY <1>1, <1>3 DEF InPairs

LEMMA PruningKeeps ==
    ASSUME LoopIndInv, phase # "tools", phase' # "tools", groups' = groups,
           pruned' = pruned \cup Prunable(scratch)
    PROVE  /\ pruned' \subseteq Plain /\ PrunedWereMade'
           /\ \A m : EndsWith(scratch, m) /\ m \notin pruned => m \notin pruned'
<1>1. InPairs(scratch, Open, groups)
  BY DEF LoopIndInv, Pairs
<1>2. \A m \in Prunable(scratch) : m \in Plain /\ m.id <= groups /\ ~EndsWith(scratch, m)
  BY <1>1, PrunableWereMade
<1>3. QED
  BY <1>2 DEF LoopIndInv, PrunedWereMade, Numbers

\* A compaction of the running turn keeps all of it.
LEMMA CompactionKeeps ==
    ASSUME LoopIndInv, phase \in {"round", "calling"}, phase' \in {"calling", "retrying"},
           NEW severe \in BOOLEAN, CompactScratch(severe), read' \subseteq Plain,
           UNCHANGED <<history, turn, round, groups, todo, said, uttered, dropped, cutOff, earlier>>
    PROVE  /\ Numbers' /\ Pairs' /\ Keeps' /\ RequestStands' /\ PrunedWereMade'
           /\ ~Excused' => ~Excused
           /\ ~Excused' => \A m : m.kind = "results" /\ EndsWith(scratch, m) /\ m \notin pruned =>
                  EndsWith(scratch', m) /\ m \notin pruned'
<1> USE DEF LoopIndInv
<1>1. Running /\ Running' /\ phase # "tools" /\ phase' # "tools"
  BY DEF Running
<1>2. /\ InPairs(scratch', {}, groups) /\ Len(scratch') >= 1
      /\ lost' \subseteq Plain
      /\ Contents(scratch) \cup lost \subseteq Contents(scratch') \cup lost'
      /\ previous' \subseteq Plain /\ failures' \in 0 .. MaxFailures
      /\ cooling' \in BOOLEAN /\ noted' \in BOOLEAN
      /\ compactions' \in 0 .. MaxCompaction
      /\ mended' = cutOff /\ pruned' = pruned \cup Prunable(scratch)
      /\ noted => noted'
      /\ ~noted' => \A t : t > 1 /\ LastTextAt(scratch, t) =>
             /\ \E u : u > 1 /\ scratch'[u] = scratch[t] /\ LastTextAt(scratch', u)
             /\ scratch[Len(scratch)].kind = "results" =>
                    scratch'[Len(scratch')] = scratch[Len(scratch)]
  BY <1>1, CompactionOfTurn
<1>3. /\ pruned' \subseteq Plain /\ PrunedWereMade'
      /\ \A m : EndsWith(scratch, m) /\ m \notin pruned => m \notin pruned'
  BY <1>1, <1>2, PruningKeeps
<1>4. Numbers'
  <2>1. scratch' # <<>> /\ phase' # "idle"
    BY <1>2
  <2>2. /\ phase' \in {"idle", "round", "calling", "retrying", "tools", "concluding"}
        /\ cutOff' \subseteq 1 .. MaxGroup /\ mended' \subseteq 1 .. MaxGroup
        /\ todo' \in BOOLEAN
    BY <1>2, Zenon DEF Numbers
  <2>3. turn' \in 0 .. MaxTurn /\ turn' >= 1 /\ round' \in 1 .. MaxIterations
        /\ groups' \in 0 .. MaxGroup
    BY <1>1 DEF Numbers
  <2>4. said' \subseteq Plain /\ uttered' \subseteq Plain /\ dropped' \subseteq Plain
        /\ earlier' \subseteq Plain
    BY DEF Numbers
  <2>5. QED
    BY <1>2, <1>3, <2>1, <2>2, <2>3, <2>4, Zenon DEF Numbers
<1>5. Pairs'
  <2>1. InPairs(history', cutOff', groups')
    BY DEF Pairs
  <2>2. Open' = {}
    BY <1>1, <1>2 DEF Open
  <2>3. QED
    BY <1>1, <1>2, <2>1, <2>2 DEF Pairs
<1>6. Keeps'
  BY <1>1, <1>2 DEF Keeps
<1>7. ~Excused' => ~Excused
  BY <1>2 DEF Excused
<1>8. RequestStands'
  <2> SUFFICES ASSUME ~Excused'
               PROVE  \E t : t > 1 /\ LastTextAt(scratch', t) /\ scratch'[t] = Request(turn')
    BY DEF RequestStands
  <2>1. ~noted'
    BY DEF Excused
  <2>2. PICK t : t > 1 /\ LastTextAt(scratch, t) /\ scratch[t] = Request(turn)
    BY <1>1, <1>7 DEF RequestStands
  <2>3. QED
    BY <1>2, <2>1, <2>2
<1>9. ASSUME ~Excused', NEW m, m.kind = "results", EndsWith(scratch, m), m \notin pruned
      PROVE  EndsWith(scratch', m) /\ m \notin pruned'
  <2>1. ~noted'
    BY <1>9 DEF Excused
  <2>2. PICK t : t > 1 /\ LastTextAt(scratch, t)
    BY <1>1, <1>7, <1>9 DEF RequestStands
  <2>3. scratch'[Len(scratch')] = m
    BY <1>2, <1>9, <2>1, <2>2 DEF EndsWith
  <2>4. QED
    BY <1>2, <1>3, <1>9, <2>3 DEF EndsWith
<1>10. QED
  BY <1>3, <1>4, <1>5, <1>6, <1>7, <1>8, <1>9

LEMMA RoundStartsKeeps == LoopIndInv /\ RoundStarts => LoopIndInv'
<1> SUFFICES ASSUME LoopIndInv, RoundStarts PROVE LoopIndInv'
  OBVIOUS
<1> USE DEF LoopIndInv
<1>1. /\ phase = "round" /\ phase' = "calling" /\ Running /\ Running'
      /\ UNCHANGED <<history, turn, round, groups, todo, said, uttered, read, dropped, cutOff,
                     earlier>>
  BY DEF RoundStarts, Running
<1>2. ASSUME UNCHANGED <<scratch, noted, lost, mended, compactions, summaryVars>>,
             pruned' = pruned \/ Prunes(scratch)
      PROVE  LoopIndInv'
  <2>1. /\ pruned' \subseteq Plain /\ PrunedWereMade'
        /\ \A m : EndsWith(scratch, m) /\ m \notin pruned => m \notin pruned'
    <3>1. CASE pruned' = pruned
      BY <1>1, <3>1 DEF Numbers, PrunedWereMade
    <3>2. CASE pruned' = pruned \cup Prunable(scratch)
      BY <1>1, <3>2, PruningKeeps
    <3>3. QED
      BY <1>2, <3>1, <3>2 DEF Prunes
  <2>2. Numbers'
    <3>1. todo' \in BOOLEAN /\ cooling' \in BOOLEAN /\ noted' \in BOOLEAN
      BY <1>1, <1>2, Zenon DEF Numbers, summaryVars
    <3>2. QED
      BY <1>1, <1>2, <2>1, <3>1 DEF Numbers, summaryVars
  <2>3. Open' = Open
    BY <1>1, <1>2 DEF Open
  <2>4. Pairs'
    BY <1>1, <1>2, <2>3 DEF Pairs
  <2>5. Keeps'
    BY <1>1, <1>2 DEF Keeps
  <2>6. Excused' <=> Excused
    BY <1>1, <1>2 DEF Excused
  <2>7. RequestStands'
    BY <1>1, <1>2, <2>6 DEF RequestStands
  <2>8. UnreadAreLast'
    BY <1>1, <1>2, <2>1, <2>6 DEF UnreadAreLast
  <2>9. QED
    BY <2>1, <2>2, <2>4, <2>5, <2>7, <2>8
<1>3. ASSUME NEW severe \in BOOLEAN, CompactScratch(severe) PROVE LoopIndInv'
  <2>1. read' \subseteq Plain
    BY <1>1 DEF Numbers
  <2>2. /\ Numbers' /\ Pairs' /\ Keeps' /\ RequestStands' /\ PrunedWereMade'
        /\ ~Excused' => ~Excused
        /\ ~Excused' => \A m : m.kind = "results" /\ EndsWith(scratch, m) /\ m \notin pruned =>
               EndsWith(scratch', m) /\ m \notin pruned'
    BY <1>1, <1>3, <2>1, CompactionKeeps
  <2>3. UnreadAreLast'
    BY <1>1, <2>2 DEF UnreadAreLast
  <2>4. QED
    BY <2>2, <2>3
<1>4. QED
  BY <1>2, <1>3 DEF RoundStarts

\* With a call of the model every result at hand is read.
LEMMA ShownIsAll ==
    ASSUME LoopIndInv, Running, ~Excused, Shown
    PROVE  /\ read' \subseteq Plain
           /\ \A m \in uttered \ read' : m.kind # "results"
<1> USE DEF LoopIndInv
<1>1. scratch \in Seq(Message) /\ Len(scratch) \in Nat
  BY LenProperties DEF Pairs, InPairs
<1>2. read' \subseteq Plain
  <2>1. ASSUME NEW m \in ToSet(scratch), m.kind = "results" PROVE m \in Plain
    BY <1>1, <2>1, InSet, MessageFacts, ElementOfSeq
  <2>2. QED
    BY <2>1 DEF Shown, Numbers
<1>3. ASSUME NEW m \in uttered \ read', m.kind = "results" PROVE FALSE
  <2>1. m \notin read
    BY DEF Shown
  <2>2. m \notin pruned /\ EndsWith(scratch, m)
    BY <1>3, <2>1 DEF UnreadAreLast
  <2>3. m \in ToSet(scratch)
    BY <1>1, <2>2, InSet DEF EndsWith
  <2>4. QED
    BY <1>3, <2>2, <2>3 DEF Shown
<1>4. QED
  BY <1>2, <1>3

LEMMA ReadIsPlain ==
    ASSUME LoopIndInv, Shown
    PROVE  read' \subseteq Plain
<1>1. scratch \in Seq(Message)
  BY DEF LoopIndInv, Pairs, InPairs
<1>2. ASSUME NEW m \in ToSet(scratch), m.kind = "results" PROVE m \in Plain
  BY <1>1, <1>2, InSet, MessageFacts, ElementOfSeq
<1>3. QED
  BY <1>2 DEF LoopIndInv, Shown, Numbers

LEMMA ReplyTruncatedKeeps == LoopIndInv /\ ReplyTruncated => LoopIndInv'
<1> SUFFICES ASSUME LoopIndInv, ReplyTruncated PROVE LoopIndInv'
  OBVIOUS
<1>1. /\ phase = "calling" /\ phase' = "retrying" /\ Running /\ Running' /\ Shown
      /\ CompactScratch(TRUE)
      /\ UNCHANGED <<history, turn, round, groups, todo, said, uttered, dropped, cutOff, earlier>>
  BY DEF ReplyTruncated, Running
<1>2. read' \subseteq Plain
  BY <1>1, ReadIsPlain
<1>3. /\ Numbers' /\ Pairs' /\ Keeps' /\ RequestStands' /\ PrunedWereMade'
      /\ ~Excused' => ~Excused
  BY <1>1, <1>2, CompactionKeeps
<1>4. UnreadAreLast'
  BY <1>1, <1>3, ShownIsAll DEF UnreadAreLast
<1>5. QED
  BY <1>3, <1>4 DEF LoopIndInv

LEMMA CommitNumbers ==
    ASSUME LoopIndInv, Running, NEW h, NEW added \in SUBSET Plain,
           NEW calls \in SUBSET (1 .. MaxGroup), Commit(h, added, calls),
           groups' \in 0 .. MaxGroup, groups <= groups', read' \subseteq Plain, todo' \in BOOLEAN,
           UNCHANGED <<turn, round, pruned, compactions, noted, earlier, summaryVars>>
    PROVE  Numbers' /\ PrunedWereMade'
<1> USE DEF LoopIndInv
<1>1. phase' = "idle" /\ scratch' = <<>> /\ ~Running' /\ uttered' = {} /\ lost' = {} /\ mended' = {}
  BY DEF Commit, Running
<1>2. /\ said' \subseteq Plain /\ dropped' \subseteq Plain
      /\ cutOff' \subseteq 1 .. MaxGroup
  BY DEF Commit, Numbers
<1>3. todo' \in BOOLEAN /\ cooling' \in BOOLEAN /\ noted' \in BOOLEAN
  BY Zenon DEF Numbers, summaryVars
<1>4. /\ turn' \in 0 .. MaxTurn /\ round' \in 1 .. MaxIterations
      /\ failures' \in 0 .. MaxFailures /\ compactions' \in 0 .. MaxCompaction
      /\ pruned' \subseteq Plain /\ previous' \subseteq Plain /\ earlier' \subseteq Plain
  BY DEF Numbers, summaryVars
<1>5. Numbers'
  BY <1>1, <1>2, <1>3, <1>4, Zenon DEF Numbers
<1>6. ASSUME NEW m \in pruned, m.kind = "results" PROVE m.id <= groups'
  <2>1. m.id <= groups /\ m.id \in 1 .. MaxGroup /\ groups \in 0 .. MaxGroup
    <3>1. m \in Message /\ IsReply(m)
      BY <1>6, MessageFacts DEF Numbers, IsReply
    <3>2. QED
      BY <1>6, <3>1, MessageFacts DEF PrunedWereMade, Numbers
  <2>2. QED
    BY <2>1, LoopBounds
<1>7. PrunedWereMade'
  BY <1>1, <1>6 DEF PrunedWereMade
<1>8. QED
  BY <1>5, <1>7

\* A message that is neither calls nor a reply, behind the scratch of a turn.
LEMMA ScratchAnd ==
    ASSUME LoopIndInv, NEW m \in Message, m.kind # "calls", ~IsReply(m), m.kind # "summary"
    PROVE  LET r == Append(scratch, m)
           IN  /\ InPairs(r, Open, groups) /\ Len(r) >= 1
               /\ Contents(scratch) \cup {m} \subseteq Contents(r)
<1> DEFINE r == Append(scratch, m)
<1>1. InPairs(scratch, Open, groups)
  BY DEF LoopIndInv, Pairs
<1>2. /\ r \in Seq(Message) /\ Len(r) = Len(scratch) + 1 /\ Len(scratch) \in Nat
      /\ \A i \in 1 .. Len(scratch) : r[i] = scratch[i]
      /\ r[Len(scratch) + 1] = m
      /\ Contents(scratch) \subseteq Contents(r) /\ m \in Contents(r)
  BY <1>1, AppendIs, LenProperties DEF InPairs
<1>3. RepliesFollow(r) /\ CallsOnce(r) /\ CallsAnswered(r, Open)
  BY <1>1, AppendInPairs DEF InPairs
<1> HIDE DEF r
<1>4. ASSUME NEW i \in 1 .. Len(r), r[i].kind = "calls" PROVE r[i].id <= groups
  <2>1. i \in 1 .. Len(scratch)
    BY <1>2, <1>4
  <2>2. QED
    BY <1>1, <1>2, <1>4, <2>1 DEF InPairs
<1>5. QED
  BY <1>2, <1>3, <1>4 DEF r, InPairs

\* New calls behind it.
LEMMA ScratchAndCalls ==
    ASSUME LoopIndInv, groups < MaxGroup
    PROVE  LET m == Calls(groups + 1)
               r == Append(scratch, m)
           IN  /\ InPairs(r, Open \cup {groups + 1}, groups + 1) /\ Len(r) >= 1
               /\ Contents(scratch) \cup {m} \subseteq Contents(r)
               /\ EndsWith(r, m) /\ m \in Plain /\ groups + 1 \in 1 .. MaxGroup
               /\ \A t : LastTextAt(scratch, t) => LastTextAt(r, t) /\ r[t] = scratch[t]
<1> DEFINE m == Calls(groups + 1)
           r == Append(scratch, m)
<1>1. InPairs(scratch, Open, groups) /\ groups \in Nat /\ groups + 1 \in 1 .. MaxGroup
  BY LoopBounds DEF LoopIndInv, Pairs, Numbers
<1>2. /\ m \in Plain /\ m \in Message /\ m.kind = "calls" /\ m.id = groups + 1
      /\ ~IsReply(m) /\ ~IsText(m)
  BY <1>1, MessageFacts
<1> HIDE DEF m
<1>3. /\ r \in Seq(Message) /\ Len(r) = Len(scratch) + 1 /\ Len(scratch) \in Nat
      /\ \A i \in 1 .. Len(scratch) : r[i] = scratch[i]
      /\ r[Len(scratch) + 1] = m
      /\ Contents(scratch) \subseteq Contents(r) /\ m \in Contents(r)
      /\ \A t : LastTextAt(scratch, t) => LastTextAt(r, t) /\ r[t] = scratch[t]
  <2>1. scratch \in Seq(Message) /\ Len(scratch) \in Nat /\ m.kind # "summary"
    BY <1>1, <1>2, LenProperties DEF InPairs
  <2>2. /\ r \in Seq(Message) /\ Len(r) = Len(scratch) + 1
        /\ \A i \in 1 .. Len(scratch) : r[i] = scratch[i]
        /\ r[Len(scratch) + 1] = m
        /\ Contents(scratch) \subseteq Contents(r) /\ m \in Contents(r)
    BY <1>2, <2>1, AppendIs
  <2>3. \A t : LastTextAt(scratch, t) /\ ~IsText(m) => LastTextAt(r, t) /\ r[t] = scratch[t]
    BY <1>2, <2>1, AppendIs
  <2>4. QED
    BY <1>2, <2>1, <2>2, <2>3
<1>4. \A i \in 1 .. Len(scratch) : scratch[i] # m
  BY <1>1, <1>2 DEF InPairs
<1>5. RepliesFollow(r) /\ CallsOnce(r) /\ CallsAnswered(r, Open \cup {m.id})
  BY <1>1, <1>2, <1>4, AppendInPairs DEF InPairs
<1> HIDE DEF r
<1>6. ASSUME NEW i \in 1 .. Len(r), r[i].kind = "calls" PROVE r[i].id <= groups + 1
  <2>1. i \in 1 .. Len(scratch) \/ r[i] = m
    BY <1>3
  <2>2. CASE i \in 1 .. Len(scratch)
    <3>1. scratch[i].id <= groups /\ scratch[i].id \in 1 .. MaxGroup
      BY <1>1, <1>3, <1>6, <2>2, MessageFacts, ElementOfSeq DEF InPairs
    <3>2. QED
      BY <1>1, <1>3, <2>2, <3>1, LoopBounds
  <2>3. QED
    BY <1>1, <1>2, <2>1, <2>2
<1>7. InPairs(r, Open \cup {groups + 1}, groups + 1)
  BY <1>2, <1>3, <1>5, <1>6 DEF InPairs
<1>8. EndsWith(r, m) /\ Len(r) >= 1
  BY <1>3 DEF EndsWith
<1>9. QED
  BY <1>1, <1>2, <1>3, <1>7, <1>8 DEF m, r

\* The results of the calls that wait.
LEMMA WithResultsIs ==
    ASSUME LoopIndInv, phase = "tools"
    PROVE  /\ InPairs(WithResults, cutOff \ mended, groups) /\ Len(WithResults) >= 1
           /\ Contents(scratch) \cup {Results(groups)} \subseteq Contents(WithResults)
           /\ EndsWith(WithResults, Results(groups)) /\ Results(groups) \in Plain
           /\ \A t : LastTextAt(scratch, t) =>
                  LastTextAt(WithResults, t) /\ WithResults[t] = scratch[t]
<1> DEFINE m == Results(groups)
           r == Append(scratch, m)
<1>1. InPairs(scratch, Open, groups) /\ EndsWith(scratch, Calls(groups))
  BY DEF LoopIndInv, Pairs
<1>2. Len(scratch) \in Nat /\ Len(scratch) \in 1 .. Len(scratch)
  BY <1>1, LenProperties DEF InPairs, EndsWith
<1>3. groups \in 1 .. MaxGroup
  <2>1. scratch[Len(scratch)] \in Message /\ scratch[Len(scratch)] = Calls(groups)
    BY <1>1, <1>2, ElementOfSeq DEF InPairs, EndsWith
  <2>2. QED
    BY <2>1, MessageFacts
<1>4. /\ m \in Plain /\ m \in Message /\ m.kind = "results" /\ m.id = groups
      /\ IsReply(m) /\ ~IsText(m)
  BY <1>3, MessageFacts
<1> HIDE DEF m
<1>5. /\ r \in Seq(Message) /\ Len(r) = Len(scratch) + 1
      /\ \A i \in 1 .. Len(scratch) : r[i] = scratch[i]
      /\ r[Len(scratch) + 1] = m
      /\ Contents(scratch) \subseteq Contents(r) /\ m \in Contents(r)
      /\ \A t : LastTextAt(scratch, t) => LastTextAt(r, t) /\ r[t] = scratch[t]
  <2>1. scratch \in Seq(Message) /\ m.kind # "summary"
    BY <1>1, <1>4 DEF InPairs
  <2>2. /\ r \in Seq(Message) /\ Len(r) = Len(scratch) + 1
        /\ \A i \in 1 .. Len(scratch) : r[i] = scratch[i]
        /\ r[Len(scratch) + 1] = m
        /\ Contents(scratch) \subseteq Contents(r) /\ m \in Contents(r)
    BY <1>4, <2>1, AppendIs
  <2>3. \A t : LastTextAt(scratch, t) /\ ~IsText(m) => LastTextAt(r, t) /\ r[t] = scratch[t]
    BY <1>4, <2>1, AppendIs
  <2>4. QED
    BY <1>4, <2>1, <2>2, <2>3
<1>6. RepliesFollow(r) /\ CallsOnce(r) /\ CallsAnswered(r, Open \ {m.id})
  BY <1>1, <1>4, AppendInPairs DEF InPairs
<1> HIDE DEF r
<1>7. Open \ {m.id} \subseteq cutOff \ mended
  BY <1>4 DEF Open
<1>8. CallsAnswered(r, cutOff \ mended)
  BY <1>6, <1>7, OpenMayGrow
<1>9. ASSUME NEW i \in 1 .. Len(r), r[i].kind = "calls" PROVE r[i].id <= groups
  <2>1. i \in 1 .. Len(scratch)
    BY <1>2, <1>4, <1>5, <1>9
  <2>2. QED
    BY <1>1, <1>5, <1>9, <2>1 DEF InPairs
<1>10. InPairs(r, cutOff \ mended, groups)
  BY <1>5, <1>6, <1>8, <1>9 DEF InPairs
<1>11. EndsWith(r, m) /\ Len(r) >= 1
  BY <1>2, <1>5 DEF EndsWith
<1>12. QED
  BY <1>4, <1>5, <1>10, <1>11 DEF m, r, WithResults

LEMMA ReplyTextKeeps == LoopIndInv /\ ReplyText => LoopIndInv'
<1> SUFFICES ASSUME LoopIndInv, ReplyText PROVE LoopIndInv'
  OBVIOUS
<1> DEFINE m == Answer(turn)
           r == Append(scratch, m)
<1>1. /\ Running /\ phase # "tools" /\ Commit(r, {m}, {}) /\ Shown
      /\ UNCHANGED <<turn, round, groups, todo, pruned, compactions, noted, earlier, summaryVars>>
  BY DEF ReplyText, Running
<1>2. turn \in 1 .. MaxTurn /\ groups \in 0 .. MaxGroup /\ todo \in BOOLEAN
  BY <1>1 DEF LoopIndInv, Numbers
<1>3. m \in Plain /\ m \in Message /\ m.kind # "calls" /\ ~IsReply(m) /\ m.kind # "summary"
  BY <1>2, MessageFacts
<1>4. /\ InPairs(r, Open, groups) /\ Len(r) >= 1
      /\ Contents(scratch) \cup {m} \subseteq Contents(r)
  BY <1>3, ScratchAnd
<1> HIDE DEF r
<1>5. (cutOff \ mended) \cup {} = Open
  BY <1>1 DEF Open
<1>6. read' \subseteq Plain
  BY <1>1, ReadIsPlain
<1>7. groups' \in Nat /\ groups' \in 0 .. MaxGroup /\ groups <= groups' /\ todo' \in BOOLEAN
  BY <1>1, <1>2, LoopBounds
<1>8. InPairs(r, (cutOff \ mended) \cup {}, groups')
  BY <1>1, <1>4, <1>5
<1>9. {m} \in SUBSET Plain /\ {} \in SUBSET (1 .. MaxGroup)
  BY <1>3
<1>10. Pairs' /\ Keeps' /\ RequestStands' /\ UnreadAreLast'
  BY <1>1, <1>4, <1>7, <1>8, <1>9, CommitKeeps
<1>11. Numbers' /\ PrunedWereMade'
  BY <1>1, <1>6, <1>7, <1>9, CommitNumbers
<1>12. QED
  BY <1>10, <1>11 DEF LoopIndInv

LEMMA ReplyCutOffKeeps == LoopIndInv /\ ReplyCutOff => LoopIndInv'
<1> SUFFICES ASSUME LoopIndInv, ReplyCutOff PROVE LoopIndInv'
  OBVIOUS
<1> DEFINE m == Calls(groups + 1)
           r == Append(scratch, m)
<1>1. /\ Running /\ phase # "tools" /\ groups < MaxGroup /\ groups' = groups + 1
      /\ Commit(r, {m}, {groups'}) /\ Shown
      /\ UNCHANGED <<turn, round, todo, pruned, compactions, noted, earlier, summaryVars>>
  BY DEF ReplyCutOff, Running
<1>2. groups \in 0 .. MaxGroup /\ todo \in BOOLEAN
  BY DEF LoopIndInv, Numbers
<1>3. /\ InPairs(r, Open \cup {groups + 1}, groups + 1) /\ Len(r) >= 1
      /\ Contents(scratch) \cup {m} \subseteq Contents(r)
      /\ m \in Plain /\ groups + 1 \in 1 .. MaxGroup
  BY <1>1, ScratchAndCalls
<1> HIDE DEF m, r
<1>4. Open = cutOff \ mended
  BY <1>1 DEF Open
<1>5. read' \subseteq Plain
  BY <1>1, ReadIsPlain
<1>6. groups' \in Nat /\ groups' \in 0 .. MaxGroup /\ groups <= groups' /\ todo' \in BOOLEAN
  BY <1>1, <1>2, <1>3, LoopBounds
<1>7. InPairs(r, (cutOff \ mended) \cup {groups'}, groups')
  BY <1>1, <1>3, <1>4
<1>8. {m} \in SUBSET Plain /\ {groups'} \in SUBSET (1 .. MaxGroup)
  BY <1>1, <1>3
<1>9. Pairs' /\ Keeps' /\ RequestStands' /\ UnreadAreLast'
  BY <1>1, <1>3, <1>6, <1>7, <1>8, CommitKeeps
<1>10. Numbers' /\ PrunedWereMade'
  BY <1>1, <1>5, <1>6, <1>8, CommitNumbers
<1>11. QED
  BY <1>9, <1>10 DEF LoopIndInv

LEMMA TerminalToolReturnsKeeps == LoopIndInv /\ TerminalToolReturns => LoopIndInv'
<1> SUFFICES ASSUME LoopIndInv, TerminalToolReturns PROVE LoopIndInv'
  OBVIOUS
<1> DEFINE m == Results(groups)
<1>1. /\ Running /\ phase = "tools" /\ Commit(WithResults, {m}, {}) /\ todo' \in BOOLEAN
      /\ UNCHANGED <<turn, round, groups, pruned, compactions, noted, read, earlier, summaryVars>>
  BY DEF TerminalToolReturns, Running
<1>2. groups' \in 0 .. MaxGroup /\ groups' \in Nat /\ groups <= groups' /\ read' \subseteq Plain
  BY <1>1, LoopBounds DEF LoopIndInv, Numbers
<1>3. /\ InPairs(WithResults, cutOff \ mended, groups) /\ Len(WithResults) >= 1
      /\ Contents(scratch) \cup {m} \subseteq Contents(WithResults)
      /\ m \in Plain
  BY <1>1, WithResultsIs
<1> HIDE DEF m
<1>4. InPairs(WithResults, (cutOff \ mended) \cup {}, groups')
  BY <1>1, <1>3
<1>5. {m} \in SUBSET Plain /\ {} \in SUBSET (1 .. MaxGroup)
  BY <1>3
<1>6. Pairs' /\ Keeps' /\ RequestStands' /\ UnreadAreLast'
  BY <1>1, <1>2, <1>3, <1>4, <1>5, CommitKeeps
<1>7. Numbers' /\ PrunedWereMade'
  BY <1>1, <1>2, <1>5, CommitNumbers
<1>8. QED
  BY <1>6, <1>7 DEF LoopIndInv

LEMMA ReplyCallsKeeps == LoopIndInv /\ ReplyCalls => LoopIndInv'
<1> SUFFICES ASSUME LoopIndInv, ReplyCalls PROVE LoopIndInv'
  OBVIOUS
<1> DEFINE m == Calls(groups + 1)
           r == Append(scratch, m)
<1>1. /\ Running /\ Running' /\ phase # "tools" /\ phase' = "tools"
      /\ groups < MaxGroup /\ groups' = groups + 1
      /\ scratch' = r /\ uttered' = uttered \cup {m} /\ Shown
      /\ UNCHANGED <<history, turn, round, todo, pruned, compactions, said, noted, lost, mended,
                     dropped, cutOff, earlier, summaryVars>>
  BY DEF ReplyCalls, Running
<1>2. /\ InPairs(r, Open \cup {groups + 1}, groups + 1) /\ Len(r) >= 1
      /\ Contents(scratch) \cup {m} \subseteq Contents(r)
      /\ EndsWith(r, m) /\ m \in Plain /\ groups + 1 \in 1 .. MaxGroup
      /\ \A t : LastTextAt(scratch, t) => LastTextAt(r, t) /\ r[t] = scratch[t]
  BY <1>1, ScratchAndCalls
<1>3. m = Calls(groups') /\ m.kind = "calls"
  BY <1>1, MessageFacts
<1> HIDE DEF m, r
<1>4. read' \subseteq Plain
  BY <1>1, ReadIsPlain
<1>5. groups \in 0 .. MaxGroup /\ groups' \in 1 .. MaxGroup
  BY <1>1, <1>2 DEF LoopIndInv, Numbers
<1>6. Open' = Open \cup {groups + 1}
  BY <1>1 DEF Open
<1>7. InPairs(history, cutOff, groups')
  <2>1. InPairs(history, cutOff, groups)
    BY DEF LoopIndInv, Pairs
  <2>2. ASSUME NEW i \in 1 .. Len(history), history[i].kind = "calls"
        PROVE  history[i].id <= groups'
    <3>1. history[i].id <= groups /\ history[i].id \in 1 .. MaxGroup
      BY <2>1, <2>2, MessageFacts, ElementOfSeq DEF InPairs
    <3>2. QED
      BY <1>1, <1>5, <3>1, LoopBounds
  <2>3. QED
    BY <2>1, <2>2 DEF InPairs
<1>8. Pairs'
  BY <1>1, <1>2, <1>3, <1>6, <1>7 DEF Pairs
<1>9. Numbers'
  <2>1. todo' \in BOOLEAN /\ cooling' \in BOOLEAN /\ noted' \in BOOLEAN
    BY <1>1, Zenon DEF LoopIndInv, Numbers, summaryVars
  <2>2. scratch' # <<>>
    BY <1>1, <1>2
  <2>3. groups' \in 0 .. MaxGroup
    BY <1>5, LoopBounds
  <2>4. uttered' \subseteq Plain
    BY <1>1, <1>2 DEF LoopIndInv, Numbers
  <2>5. QED
    BY <1>1, <1>4, <2>1, <2>2, <2>3, <2>4 DEF LoopIndInv, Numbers, summaryVars
<1>10. Keeps'
  BY <1>1, <1>2 DEF LoopIndInv, Keeps
<1>11. Excused' <=> Excused
  BY <1>1 DEF Excused
<1>12. RequestStands'
  BY <1>1, <1>2, <1>11 DEF LoopIndInv, RequestStands
<1>13. UnreadAreLast'
  <2> SUFFICES ASSUME ~Excused', NEW m0 \in uttered' \ read', m0.kind = "results" PROVE FALSE
    BY DEF UnreadAreLast
  <2>1. m0 \in uttered \ read'
    BY <1>1, <1>3
  <2>2. QED
    BY <1>1, <1>11, <2>1, ShownIsAll
<1>14. PrunedWereMade'
  <2>1. ASSUME NEW p \in pruned, p.kind = "results" PROVE p.id <= groups' /\ p.id # groups'
    <3>1. p \in Message /\ IsReply(p)
      BY <2>1, MessageFacts DEF LoopIndInv, Numbers, IsReply
    <3>2. p.id <= groups /\ p.id \in 1 .. MaxGroup
      BY <2>1, <3>1, MessageFacts DEF LoopIndInv, PrunedWereMade
    <3>3. QED
      BY <1>1, <1>5, <3>2, LoopBounds
  <2>2. Results(groups') \notin pruned
    BY <2>1, MessageFacts
  <2>3. QED
    BY <1>1, <2>1, <2>2 DEF PrunedWereMade
<1>15. QED
  BY <1>8, <1>9, <1>10, <1>12, <1>13, <1>14 DEF LoopIndInv

LEMMA ToolsConcludeKeeps == LoopIndInv /\ ToolsConclude => LoopIndInv'
<1> SUFFICES ASSUME LoopIndInv, ToolsConclude PROVE LoopIndInv'
  OBVIOUS
<1> DEFINE m == Results(groups)
<1>1. /\ Running /\ Running' /\ phase = "tools" /\ phase' = "concluding" /\ todo' \in BOOLEAN
      /\ scratch' = WithResults /\ uttered' = uttered \cup {m}
      /\ UNCHANGED <<history, turn, round, groups, pruned, compactions, said, noted, lost, mended,
                     read, dropped, cutOff, earlier, summaryVars>>
  BY DEF ToolsConclude, Running
<1>2. /\ InPairs(WithResults, cutOff \ mended, groups) /\ Len(WithResults) >= 1
      /\ Contents(scratch) \cup {m} \subseteq Contents(WithResults)
      /\ EndsWith(WithResults, m) /\ m \in Plain
      /\ \A t : LastTextAt(scratch, t) => LastTextAt(WithResults, t) /\ WithResults[t] = scratch[t]
  BY <1>1, WithResultsIs
<1>3. Open' = cutOff \ mended
  BY <1>1 DEF Open
<1>4. Pairs'
  BY <1>1, <1>2, <1>3 DEF LoopIndInv, Pairs
<1>5. Numbers'
  <2>1. cooling' \in BOOLEAN /\ noted' \in BOOLEAN
    BY <1>1, Zenon DEF LoopIndInv, Numbers, summaryVars
  <2>2. scratch' # <<>>
    BY <1>1, <1>2
  <2>3. uttered' \subseteq Plain
    BY <1>1, <1>2 DEF LoopIndInv, Numbers
  <2>4. QED
    BY <1>1, <2>1, <2>2, <2>3 DEF LoopIndInv, Numbers, summaryVars
<1>6. Keeps'
  BY <1>1, <1>2 DEF LoopIndInv, Keeps
<1>7. Excused' <=> Excused
  BY <1>1 DEF Excused
<1>8. RequestStands'
  BY <1>1, <1>2, <1>7 DEF LoopIndInv, RequestStands
<1>9. UnreadAreLast'
  BY <1>1, <1>2, <1>7 DEF LoopIndInv, UnreadAreLast, PrunedWereMade
<1>10. PrunedWereMade'
  BY <1>1 DEF LoopIndInv, PrunedWereMade
<1>11. QED
  BY <1>4, <1>5, <1>6, <1>8, <1>9, <1>10 DEF LoopIndInv

LEMMA ToolsReturnKeeps == LoopIndInv /\ ToolsReturn => LoopIndInv'
<1> SUFFICES ASSUME LoopIndInv, ToolsReturn PROVE LoopIndInv'
  OBVIOUS
<1> DEFINE m == Results(groups)
<1>1. /\ Running /\ Running' /\ phase = "tools" /\ phase' = "round" /\ todo' \in BOOLEAN
      /\ round < MaxIterations /\ round' = round + 1
      /\ uttered' = uttered \cup {m}
      /\ UNCHANGED <<history, turn, groups, pruned, compactions, said, lost, mended,
                     read, dropped, cutOff, earlier, summaryVars>>
  BY DEF ToolsReturn, Running
<1>2. PICK n \in 0 .. MaxNotes : /\ scratch' = WithResults \o [i \in 1 .. n |-> Note]
                                 /\ noted' = (noted \/ n > 0)
  BY DEF ToolsReturn
<1>3. n \in Nat
  BY LoopBounds
<1>4. /\ InPairs(WithResults, cutOff \ mended, groups) /\ Len(WithResults) >= 1
      /\ Contents(scratch) \cup {m} \subseteq Contents(WithResults)
      /\ EndsWith(WithResults, m) /\ m \in Plain
      /\ \A t : LastTextAt(scratch, t) => LastTextAt(WithResults, t) /\ WithResults[t] = scratch[t]
  BY <1>1, WithResultsIs
<1>5. /\ scratch' \in Seq(Message) /\ Len(scratch') = Len(WithResults) + n
      /\ RepliesFollow(scratch') /\ CallsOnce(scratch')
      /\ CallsAnswered(scratch', cutOff \ mended)
      /\ \A j \in 1 .. Len(scratch') : scratch'[j].kind = "calls" =>
             \E i \in 1 .. Len(WithResults) : scratch'[j] = WithResults[i]
      /\ Contents(WithResults) \subseteq Contents(scratch')
      /\ n = 0 => scratch' = WithResults
  BY <1>2, <1>3, <1>4, NotesBehind DEF InPairs
<1>6. Len(WithResults) \in Nat
  BY <1>4, LenProperties DEF InPairs
<1>7. Open' = cutOff \ mended
  BY <1>1 DEF Open
<1>8. InPairs(scratch', cutOff \ mended, groups)
  <2>1. \A j \in 1 .. Len(scratch') : scratch'[j].kind = "calls" => scratch'[j].id <= groups
    BY <1>4, <1>5 DEF InPairs
  <2>2. QED
    BY <1>5, <2>1 DEF InPairs
<1>9. Pairs'
  BY <1>1, <1>7, <1>8 DEF LoopIndInv, Pairs
<1>10. noted' \in BOOLEAN /\ (~noted' => ~noted /\ n = 0)
  <2>1. noted' \in BOOLEAN
    BY <1>2, Zenon
  <2>2. ~noted' => ~noted /\ ~(n > 0)
    BY <1>2, Zenon
  <2>3. QED
    BY <1>3, <2>1, <2>2
<1>11. Numbers'
  <2>1. cooling' \in BOOLEAN
    BY <1>1, Zenon DEF LoopIndInv, Numbers, summaryVars
  <2>2. scratch' # <<>>
    BY <1>3, <1>4, <1>5, <1>6
  <2>3. uttered' \subseteq Plain
    BY <1>1, <1>4 DEF LoopIndInv, Numbers
  <2>4. round' \in 1 .. MaxIterations
    BY <1>1, LoopBounds DEF LoopIndInv, Numbers
  <2>5. QED
    BY <1>1, <1>10, <2>1, <2>2, <2>3, <2>4 DEF LoopIndInv, Numbers, summaryVars
<1>12. Keeps'
  BY <1>1, <1>4, <1>5 DEF LoopIndInv, Keeps
<1>13. ~Excused' => ~Excused /\ scratch' = WithResults
  BY <1>1, <1>5, <1>10 DEF Excused
<1>14. RequestStands'
  BY <1>1, <1>4, <1>13 DEF LoopIndInv, RequestStands
<1>15. UnreadAreLast'
  BY <1>1, <1>4, <1>13 DEF LoopIndInv, UnreadAreLast, PrunedWereMade
<1>16. PrunedWereMade'
  BY <1>1 DEF LoopIndInv, PrunedWereMade
<1>17. QED
  BY <1>9, <1>11, <1>12, <1>14, <1>15, <1>16 DEF LoopIndInv

LEMMA TurnStopsKeeps == LoopIndInv /\ TurnStops => LoopIndInv'
<1> SUFFICES ASSUME LoopIndInv, TurnStops PROVE LoopIndInv'
  OBVIOUS
<1>1. /\ phase' = "idle" /\ ~Running' /\ phase' # "tools"
      /\ scratch' = <<>> /\ uttered' = {} /\ lost' = {} /\ mended' = {}
      /\ UNCHANGED <<history, turn, round, groups, todo, pruned, compactions, said, noted, read,
                     dropped, cutOff, earlier, summaryVars>>
  BY DEF TurnStops, Running
<1>2. InPairs(scratch', Open', groups')
  BY <1>1, EmptyInPairs
<1>3. Pairs'
  BY <1>1, <1>2 DEF LoopIndInv, Pairs
<1>4. Numbers'
  <2>1. cooling' \in BOOLEAN /\ noted' \in BOOLEAN /\ todo' \in BOOLEAN
    BY <1>1, Zenon DEF LoopIndInv, Numbers, summaryVars
  <2>2. QED
    BY <1>1, <2>1 DEF LoopIndInv, Numbers, summaryVars
<1>5. Keeps' /\ RequestStands' /\ UnreadAreLast' /\ PrunedWereMade'
  BY <1>1 DEF LoopIndInv, Keeps, RequestStands, UnreadAreLast, PrunedWereMade
<1>6. QED
  BY <1>3, <1>4, <1>5 DEF LoopIndInv

LEMMA SessionsCompactKeeps == LoopIndInv /\ SessionsCompact => LoopIndInv'
<1> SUFFICES ASSUME LoopIndInv, SessionsCompact PROVE LoopIndInv'
  OBVIOUS
<1> DEFINE h == history
           cut == SevereCut(h)
<1>1. /\ phase = "idle" /\ phase' = "idle" /\ ~Running /\ ~Running' /\ scratch' = scratch
      /\ compactions < MaxCompaction /\ compactions' = compactions + 1
      /\ Prunes(h) /\ cutOff' = {}
      /\ UNCHANGED <<turn, groups, todo, said, read, earlier, turnVars, summaryVars>>
  BY DEF SessionsCompact, turnVars, Running
<1>2. PICK outcome \in {"text", "empty", "raises"} :
          LET folded == Folded(h, cut, FALSE, outcome, {})
          IN  /\ history' = Reminded(folded.history, outcome)
              /\ dropped' = dropped \cup folded.lost
  BY DEF SessionsCompact
<1> DEFINE f == Folded(h, cut, FALSE, outcome, {})
           s == f.history
<1>3. history' = Reminded(s, outcome) /\ dropped' = dropped \cup f.lost
  BY <1>2
<1>4. InPairs(h, cutOff, groups)
  BY DEF LoopIndInv, Pairs
<1>5. CleanCut(h, cut)
  BY <1>4, CutsAreClean DEF InPairs
<1> HIDE DEF cut
<1>6. /\ s \in Seq(Message) /\ Len(s) >= 1
      /\ RepliesFollow(s) /\ CallsOnce(s) /\ CallsAnswered(s, {})
      /\ \A j \in 1 .. Len(s) : s[j].kind = "calls" => \E i \in 1 .. Len(h) : s[j] = h[i]
      /\ f.lost \subseteq Plain
      /\ Contents(h) \subseteq Contents(s) \cup f.lost
  <2> DEFINE g(trim) == Folded(h, cut, trim, outcome, {})
             r(trim) == g(trim).history
  <2>1. ASSUME NEW trim \in BOOLEAN
        PROVE  /\ r(trim) \in Seq(Message) /\ Len(r(trim)) >= 1
               /\ RepliesFollow(r(trim)) /\ CallsOnce(r(trim)) /\ CallsAnswered(r(trim), {})
               /\ \A j \in 1 .. Len(r(trim)) : r(trim)[j].kind = "calls" =>
                      \E i \in 1 .. Len(h) : r(trim)[j] = h[i]
               /\ g(trim).lost \subseteq Plain
               /\ Contents(h) \subseteq Contents(r(trim)) \cup g(trim).lost
    <3>1. {} \in SUBSET Plain
      OBVIOUS
    <3>2. QED
      BY <1>4, <1>5, <3>1, FoldedIs DEF InPairs
  <2>2. f = g(FALSE) /\ s = r(FALSE) /\ FALSE \in BOOLEAN
    BY Zenon
  <2> HIDE DEF g, f
  <2>3. QED
    BY <2>1, <2>2, Zenon
<1> HIDE DEF f
<1>7. InPairs(s, {}, groups)
  <2>1. \A j \in 1 .. Len(s) : s[j].kind = "calls" => s[j].id <= groups
    BY <1>4, <1>6 DEF InPairs
  <2>2. QED
    BY <1>6, <2>1 DEF InPairs
<1>8. /\ InPairs(history', {}, groups) /\ Len(history') >= Len(s)
      /\ Contents(s) \subseteq Contents(history')
  BY <1>3, <1>7, RemindedIs
<1>9. history' # <<>>
  <2>1. Len(s) \in Nat
    BY <1>6, LenProperties
  <2>2. QED
    BY <1>6, <1>8, <2>1
<1>10. scratch = <<>>
  BY <1>1 DEF LoopIndInv, Numbers
<1>11. Pairs'
  BY <1>1, <1>8, <1>10, EmptyInPairs DEF Pairs
<1>12. pruned' = pruned \cup Prunable(h)
  BY <1>1 DEF Prunes
<1>13. \A m \in Prunable(h) : m \in Plain /\ m.id <= groups
  BY <1>4, PrunableWereMade
<1>14. Numbers'
  <2>1. cooling' \in BOOLEAN /\ noted' \in BOOLEAN /\ todo' \in BOOLEAN
    BY <1>1, Zenon DEF LoopIndInv, Numbers, summaryVars, turnVars
  <2>2. pruned' \subseteq Plain
    BY <1>12, <1>13 DEF LoopIndInv, Numbers
  <2>3. dropped' \subseteq Plain
    BY <1>3, <1>6 DEF LoopIndInv, Numbers
  <2>4. compactions' \in 0 .. MaxCompaction
    BY <1>1, LoopBounds DEF LoopIndInv, Numbers
  <2>5. QED
    BY <1>1, <1>10, <2>1, <2>2, <2>3, <2>4 DEF LoopIndInv, Numbers, summaryVars, turnVars
<1>15. Keeps'
  <2>1. said' \subseteq Contents(history') \cup dropped'
    BY <1>1, <1>3, <1>6, <1>8 DEF LoopIndInv, Keeps
  <2>2. QED
    BY <1>1, <1>9, <2>1 DEF LoopIndInv, Keeps, turnVars
<1>16. RequestStands' /\ UnreadAreLast'
  BY <1>1 DEF RequestStands, UnreadAreLast
<1>17. PrunedWereMade'
  BY <1>1, <1>12, <1>13 DEF LoopIndInv, PrunedWereMade
<1>18. QED
  BY <1>11, <1>14, <1>15, <1>16, <1>17 DEF LoopIndInv

LEMMA SessionsResetKeeps == LoopIndInv /\ SessionsReset => LoopIndInv'
<1> SUFFICES ASSUME LoopIndInv, SessionsReset PROVE LoopIndInv'
  OBVIOUS
<1>1. /\ phase = "idle" /\ phase' = "idle" /\ ~Running /\ ~Running' /\ scratch' = scratch
      /\ history' = <<>> /\ todo' = FALSE
      /\ said' = {} /\ earlier' = said /\ dropped' = {} /\ cutOff' = {}
      /\ UNCHANGED <<turn, groups, pruned, compactions, read, turnVars, summaryVars>>
  BY DEF SessionsReset, turnVars, Running
<1>2. scratch = <<>>
  BY <1>1 DEF LoopIndInv, Numbers
<1>3. Pairs'
  BY <1>1, <1>2, EmptyInPairs DEF Pairs
<1>4. Numbers'
  <2>1. cooling' \in BOOLEAN /\ noted' \in BOOLEAN /\ todo' \in BOOLEAN
    BY <1>1, Zenon DEF LoopIndInv, Numbers, summaryVars, turnVars
  <2>2. QED
    BY <1>1, <1>2, <2>1 DEF LoopIndInv, Numbers, summaryVars, turnVars
<1>5. Keeps'
  BY <1>1 DEF LoopIndInv, Keeps, turnVars
<1>6. RequestStands' /\ UnreadAreLast' /\ PrunedWereMade'
  BY <1>1 DEF LoopIndInv, RequestStands, UnreadAreLast, PrunedWereMade
<1>7. QED
  BY <1>3, <1>4, <1>5, <1>6 DEF LoopIndInv

LEMMA LoopStep == LoopIndInv /\ [Next]_vars => LoopIndInv'
<1> SUFFICES ASSUME LoopIndInv, [Next]_vars PROVE LoopIndInv'
  OBVIOUS
<1>1. CASE Next
  BY <1>1, AskKeeps, RoundStartsKeeps, ReplyTextKeeps, ReplyCallsKeeps, ReplyTruncatedKeeps,
     ReplyCutOffKeeps, TerminalToolReturnsKeeps, ToolsConcludeKeeps, ToolsReturnKeeps,
     TurnStopsKeeps, SessionsCompactKeeps, SessionsResetKeeps DEF Next
<1>2. CASE UNCHANGED vars
  <2> USE <1>2 DEF LoopIndInv, vars, turnVars, summaryVars
  <2>1. Numbers'
    BY Zenon DEF Numbers, Running
  <2>2. Pairs'
    BY DEF Pairs, Open
  <2>3. Keeps' /\ PrunedWereMade'
    BY DEF Keeps, Running, PrunedWereMade
  <2>4. Excused' <=> Excused
    BY DEF Excused
  <2>5. RequestStands' /\ UnreadAreLast'
    BY <2>4 DEF RequestStands, UnreadAreLast, Running
  <2>6. QED
    BY <2>1, <2>2, <2>3, <2>5
<1>3. QED
  BY <1>1, <1>2

LEMMA LoopInvariant == Spec => []LoopIndInv
BY LoopInit, LoopStep, PTL DEF Spec

--------------------------------------------------------------------------------
(* The theorems.                                                                *)

\* Whatever was cut, folded, stubbed, trimmed or pruned, the calls and the results
\* in what the model is sent follow one another, but for calls a reply was cut off
\* with and no compaction has mended.
THEOREM LoopWireIsPaired == Spec => []WireIsPaired
<1>1. ASSUME LoopIndInv PROVE WireIsPaired
  <2> SUFFICES ASSUME Calling, NEW i \in DOMAIN scratch
               PROVE  /\ scratch[i].kind = "calls" /\ scratch[i].id \notin cutOff \ mended =>
                             /\ i < Len(scratch)
                             /\ IsReply(scratch[i + 1]) /\ scratch[i + 1].id = scratch[i].id
                      /\ IsReply(scratch[i]) => i > 1 /\ scratch[i - 1] = Calls(scratch[i].id)
    BY DEF WireIsPaired
  <2>1. InPairs(scratch, Open, groups)
    BY <1>1 DEF LoopIndInv, Pairs
  <2>2. Open = cutOff \ mended
    BY DEF Calling, Open
  <2>3. i \in 1 .. Len(scratch)
    BY <2>1, LenProperties DEF InPairs
  <2>4. scratch[i].kind = "calls" /\ scratch[i].id \notin cutOff \ mended =>
            i < Len(scratch) /\ IsReply(scratch[i + 1]) /\ scratch[i + 1].id = scratch[i].id
    BY <2>1, <2>2, <2>3 DEF InPairs, CallsAnswered
  <2>5. IsReply(scratch[i]) => i > 1 /\ scratch[i - 1] = Calls(scratch[i].id)
    BY <2>1, <2>3 DEF InPairs, RepliesFollow
  <2>6. QED
    BY <2>4, <2>5
<1>2. QED
  BY <1>1, LoopInvariant, PTL

\* Over any number of turns, rounds and compactions what was said is kept, folded or
\* owned up to as lost, the model sees the request it answers and every result once in
\* full, with the two exceptions of the code.
THEOREM LoopKeepsConversation == Spec => []ConversationIsKept
<1>1. ASSUME LoopIndInv PROVE ConversationIsKept
  <2> USE <1>1 DEF LoopIndInv
  <2>1. history \in Seq(Message) /\ scratch \in Seq(Message) /\ Len(scratch) \in Nat
    BY LenProperties DEF Pairs, InPairs
  <2>2. LoopTypeOK
    <3>1. ASSUME NEW h \in {history, scratch}, NEW m \in ToSet(h)
          PROVE  /\ m.kind = "summary" => m.from \subseteq Plain
                 /\ m.kind # "summary" => m \in Plain
      <4>1. m \in Message
        BY <2>1, InSet, ElementOfSeq
      <4>2. QED
        BY <4>1, MessageFacts
    <3>2. /\ phase \in {"idle", "round", "calling", "retrying", "tools", "concluding"}
          /\ phase = "idle" <=> scratch = <<>>
          /\ turn \in 0 .. MaxTurn /\ round \in 1 .. MaxIterations /\ groups \in 0 .. MaxGroup
          /\ failures \in 0 .. MaxFailures /\ compactions \in 0 .. MaxCompaction
          /\ cutOff \cup mended \subseteq 1 .. MaxGroup
      BY DEF Numbers
    <3>3. {todo, cooling, noted} \subseteq BOOLEAN
      BY Zenon DEF Numbers
    <3>4. UNION {lost, pruned, previous, said, uttered, read, dropped, earlier} \subseteq Plain
      BY DEF Numbers
    <3>5. QED
      BY <3>1, <3>2, <3>3, <3>4 DEF LoopTypeOK
  <2>3. Calling => Running
    BY DEF Calling, Running
  <2>4. NothingVanishes
    BY <2>3 DEF NothingVanishes, Keeps
  <2>5. RequestKept
    <3> SUFFICES ASSUME Calling, ~Excused PROVE Request(turn) \in ToSet(scratch)
      BY DEF RequestKept, Excused
    <3>1. PICK t : LastTextAt(scratch, t) /\ scratch[t] = Request(turn)
      BY <2>3 DEF RequestStands
    <3>2. QED
      BY <2>1, <3>1, InSet DEF LastTextAt
  <2>6. ResultsAreRead
    <3> SUFFICES ASSUME Calling, ~Excused, NEW m \in uttered \ read, m.kind = "results"
                 PROVE  m \in ToSet(scratch) \ pruned
      BY DEF ResultsAreRead, Excused
    <3>1. m \notin pruned /\ EndsWith(scratch, m)
      BY <2>3 DEF UnreadAreLast
    <3>2. QED
      BY <2>1, <3>1, InSet DEF EndsWith
  <2>7. QED
    BY <2>2, <2>4, <2>5, <2>6 DEF ConversationIsKept
<1>2. QED
  BY <1>1, LoopInvariant, PTL
================================================================================
