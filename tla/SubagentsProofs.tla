----------------------------- MODULE SubagentsProofs -----------------------------
(* Proofs about Subagents, for any runs, sessions, slots and number of turns.     *)
EXTENDS Subagents, SequenceTheorems, TLAPS

(* What ResultsArrive needs to be inductive. *)

\* A run has a requester from its spawn on, for good.
Requested ==
    \A r \in Run : IF status[r] = "none" THEN requester[r] = NoSession
                                         ELSE requester[r] \in Session

\* Only what was announced can be discarded.
DiscardedAreOver == \A r \in discarded : status[r] = "over"

\* A turn waits for runs of its own session, and for none before it has begun.
WaitsForItsOwn ==
    \A s \in Session : /\ awaited[s] \subseteq RunsOf(s) \ Review
                       /\ turn[s] = "idle" => awaited[s] = {}

SubagentIndInv ==
    /\ SubagentTypeOK /\ Requested /\ DiscardedAreOver /\ WaitsForItsOwn
    /\ ParentKnowsItsRuns /\ AnnouncedOnce

--------------------------------------------------------------------------------
(* Sequences: an announcement moves from part to part of what is known. *)

LEMMA PartsOfKnown ==
    ASSUME NEW S, NEW c \in Seq(S), NEW d \in Seq(S), NEW p \in Seq(S)
    PROVE  /\ c \o d \o p \in Seq(S)
           /\ DOMAIN (c \o d \o p) = 1 .. Len(c) + Len(d) + Len(p)
           /\ \A i \in 1 .. Len(c) + Len(d) + Len(p) :
                (c \o d \o p)[i] = IF i <= Len(c) THEN c[i]
                                   ELSE IF i <= Len(c) + Len(d) THEN d[i - Len(c)]
                                   ELSE p[i - Len(c) - Len(d)]
<1>1. Len(c) \in Nat /\ Len(d) \in Nat /\ Len(p) \in Nat
  BY LenProperties
<1>2. /\ c \o d \in Seq(S) /\ Len(c \o d) = Len(c) + Len(d)
      /\ \A i \in 1 .. Len(c) + Len(d) :
            (c \o d)[i] = IF i <= Len(c) THEN c[i] ELSE d[i - Len(c)]
  BY ConcatProperties
<1> DEFINE cd == c \o d
<1> HIDE DEF cd
<1>3. /\ cd \o p \in Seq(S) /\ Len(cd \o p) = Len(cd) + Len(p)
      /\ \A i \in 1 .. Len(cd) + Len(p) :
            (cd \o p)[i] = IF i <= Len(cd) THEN cd[i] ELSE p[i - Len(cd)]
  BY <1>2, ConcatProperties DEF cd
<1>4. DOMAIN (cd \o p) = 1 .. Len(cd) + Len(p)
  BY <1>3, LenProperties
<1>5. Len(cd) = Len(c) + Len(d)
  BY <1>2 DEF cd
<1>6. ASSUME NEW i \in 1 .. Len(c) + Len(d) + Len(p)
      PROVE  (cd \o p)[i] = IF i <= Len(c) THEN c[i]
                            ELSE IF i <= Len(c) + Len(d) THEN d[i - Len(c)]
                            ELSE p[i - Len(c) - Len(d)]
  <2>1. (cd \o p)[i] = IF i <= Len(cd) THEN cd[i] ELSE p[i - Len(cd)]
    BY <1>1, <1>3, <1>5
  <2>2. CASE i <= Len(c) + Len(d)
    <3>1. cd[i] = IF i <= Len(c) THEN c[i] ELSE d[i - Len(c)]
      BY <1>1, <1>2, <2>2 DEF cd
    <3>2. QED
      BY <1>1, <1>5, <2>1, <2>2, <3>1
  <2>3. CASE ~ (i <= Len(c) + Len(d))
    BY <1>1, <1>5, <2>1, <2>3
  <2>4. QED
    BY <2>2, <2>3
<1>7. QED
  BY <1>3, <1>4, <1>5, <1>6 DEF cd

\* A run that ends announces itself behind what is known.
LEMMA KnownGrows ==
    ASSUME NEW S, NEW c \in Seq(S), NEW d \in Seq(S), NEW p \in Seq(S), NEW e \in S
    PROVE  c \o d \o Append(p, e) = Append(c \o d \o p, e)
<1>1. /\ c \o d \in Seq(S) /\ <<e>> \in Seq(S) /\ c \o d \o p \in Seq(S)
  BY ConcatProperties
<1>2. Append(p, e) = p \o <<e>>
  BY AppendIsConcat
<1>3. Append(c \o d \o p, e) = (c \o d \o p) \o <<e>>
  BY <1>1, AppendIsConcat
<1>4. ((c \o d) \o p) \o <<e>> = (c \o d) \o (p \o <<e>>)
  BY <1>1, ConcatAssociative
<1>5. QED
  BY <1>2, <1>3, <1>4

\* A part that is moved into the one before it leaves all as it was.
LEMMA KnownMoves ==
    ASSUME NEW S, NEW c \in Seq(S), NEW d \in Seq(S), NEW p \in Seq(S)
    PROVE  /\ c \o (d \o p) \o <<>> = c \o d \o p
           /\ (c \o d) \o <<>> \o p = c \o d \o p
<1>1. c \o d \in Seq(S) /\ d \o p \in Seq(S) /\ c \o (d \o p) \in Seq(S)
  BY ConcatProperties
<1>2. (c \o (d \o p)) \o <<>> = c \o (d \o p)
  BY <1>1, ConcatEmptySeq
<1>3. (c \o d) \o p = c \o (d \o p)
  BY ConcatAssociative
<1>4. (c \o d) \o <<>> = c \o d
  BY <1>1, ConcatEmptySeq
<1>5. QED
  BY <1>2, <1>3, <1>4

\* A turn that stops takes the middle part with it: the others stay, in order.
LEMMA KnownShrinks ==
    ASSUME NEW S, NEW c \in Seq(S), NEW d \in Seq(S), NEW p \in Seq(S),
           IsInjective(c \o d \o p)
    PROVE  /\ IsInjective(c \o <<>> \o p)
           /\ ToSet(c \o <<>> \o p) = ToSet(c \o d \o p) \ ToSet(d)
           /\ ToSet(d) \subseteq ToSet(c \o d \o p)
<1> DEFINE all == c \o d \o p
           left == c \o <<>> \o p
<1>0. IsInjective(all)
  OBVIOUS
<1>1. Len(c) \in Nat /\ Len(d) \in Nat /\ Len(p) \in Nat /\ DOMAIN d = 1 .. Len(d)
  BY LenProperties
<1>2. <<>> \in Seq(S) /\ Len(<<>>) = 0
  BY EmptySeq
<1>3. /\ DOMAIN all = 1 .. Len(c) + Len(d) + Len(p)
      /\ \A i \in 1 .. Len(c) + Len(d) + Len(p) :
            all[i] = IF i <= Len(c) THEN c[i]
                     ELSE IF i <= Len(c) + Len(d) THEN d[i - Len(c)]
                     ELSE p[i - Len(c) - Len(d)]
  BY PartsOfKnown
<1>4. /\ DOMAIN left = 1 .. Len(c) + 0 + Len(p)
      /\ \A i \in 1 .. Len(c) + 0 + Len(p) :
            left[i] = IF i <= Len(c) THEN c[i]
                      ELSE IF i <= Len(c) + 0 THEN <<>>[i - Len(c)]
                      ELSE p[i - Len(c) - 0]
  <2>1. /\ DOMAIN (c \o <<>> \o p) = 1 .. Len(c) + Len(<<>>) + Len(p)
        /\ \A i \in 1 .. Len(c) + Len(<<>>) + Len(p) :
              (c \o <<>> \o p)[i] = IF i <= Len(c) THEN c[i]
                                    ELSE IF i <= Len(c) + Len(<<>>) THEN <<>>[i - Len(c)]
                                    ELSE p[i - Len(c) - Len(<<>>)]
    BY <1>2, PartsOfKnown
  <2>2. QED
    BY <1>2, <2>1
<1> HIDE DEF all, left
<1> DEFINE at(i) == IF i <= Len(c) THEN i ELSE i + Len(d)
<1>5. \A i \in DOMAIN left : /\ at(i) \in DOMAIN all /\ left[i] = all[at(i)]
                             /\ ~ (Len(c) < at(i) /\ at(i) <= Len(c) + Len(d))
                             /\ \A j \in DOMAIN left : at(i) = at(j) => i = j
  <2> SUFFICES ASSUME NEW i \in DOMAIN left
               PROVE  /\ at(i) \in DOMAIN all /\ left[i] = all[at(i)]
                      /\ ~ (Len(c) < at(i) /\ at(i) <= Len(c) + Len(d))
                      /\ \A j \in DOMAIN left : at(i) = at(j) => i = j
    OBVIOUS
  <2>1. i \in 1 .. Len(c) + Len(p)
    BY <1>1, <1>4
  <2>2. CASE i <= Len(c)
    BY <1>1, <1>3, <1>4, <2>1, <2>2
  <2>3. CASE ~ (i <= Len(c))
    <3>1. left[i] = p[i - Len(c)]
      BY <1>1, <1>4, <2>1, <2>3
    <3>2. all[i + Len(d)] = p[(i + Len(d)) - Len(c) - Len(d)] /\ i + Len(d) \in DOMAIN all
      BY <1>1, <1>3, <2>1, <2>3
    <3>3. (i + Len(d)) - Len(c) - Len(d) = i - Len(c)
      BY <1>1, <2>1
    <3>4. QED
      BY <1>1, <1>4, <2>1, <2>3, <3>1, <3>2, <3>3
  <2>4. QED
    BY <2>2, <2>3
<1> HIDE DEF at
<1>6. ASSUME NEW n \in DOMAIN d
      PROVE  Len(c) + n \in DOMAIN all /\ all[Len(c) + n] = d[n]
             /\ Len(c) < Len(c) + n /\ Len(c) + n <= Len(c) + Len(d)
  <2>1. /\ Len(c) + n \in DOMAIN all /\ ~ (Len(c) + n <= Len(c))
        /\ Len(c) + n <= Len(c) + Len(d) /\ (Len(c) + n) - Len(c) = n
    BY <1>1, <1>3
  <2>2. QED
    BY <1>1, <1>3, <2>1
<1>7. ASSUME NEW i \in DOMAIN left PROVE left[i] \notin ToSet(d)
  <2> SUFFICES ASSUME NEW n \in DOMAIN d, left[i] = d[n] PROVE FALSE
    BY DEF ToSet
  <2>1. at(i) = Len(c) + n
    BY <1>0, <1>5, <1>6 DEF IsInjective
  <2>2. QED
    BY <1>5, <1>6, <2>1
<1>8. ASSUME NEW k \in DOMAIN all
      PROVE  all[k] \in ToSet(d) \/ \E i \in DOMAIN left : left[i] = all[k]
  <2>1. CASE k <= Len(c)
    <3>1. k \in DOMAIN left /\ left[k] = all[k]
      BY <1>1, <1>3, <1>4, <2>1
    <3>2. QED
      BY <3>1
  <2>2. CASE ~ (k <= Len(c)) /\ k <= Len(c) + Len(d)
    <3>1. k - Len(c) \in DOMAIN d /\ all[k] = d[k - Len(c)]
      BY <1>1, <1>3, <2>2
    <3>2. QED
      BY <3>1 DEF ToSet
  <2>3. CASE ~ (k <= Len(c) + Len(d))
    <3>1. /\ k - Len(d) \in DOMAIN left /\ ~ (k - Len(d) <= Len(c))
          /\ (k - Len(d)) - Len(c) - 0 = k - Len(c) - Len(d)
      BY <1>1, <1>3, <1>4, <2>3
    <3>2. left[k - Len(d)] = p[(k - Len(d)) - Len(c) - 0]
      BY <1>1, <1>3, <1>4, <2>3, <3>1
    <3>3. all[k] = p[k - Len(c) - Len(d)]
      BY <1>1, <1>3, <2>3
    <3>4. QED
      BY <3>1, <3>2, <3>3
  <2>4. QED
    BY <1>1, <1>3, <2>1, <2>2, <2>3
<1>9. ASSUME NEW e \in ToSet(d) PROVE \E k \in DOMAIN all : all[k] = e
  <2>1. PICK n \in DOMAIN d : d[n] = e
    BY DEF ToSet
  <2>2. Len(c) + n \in DOMAIN all /\ all[Len(c) + n] = d[n]
    BY <1>6
  <2>3. QED
    BY <2>1, <2>2
<1>10. ASSUME NEW i \in DOMAIN left, NEW j \in DOMAIN left, left[i] = left[j] PROVE i = j
  <2>1. /\ at(i) \in DOMAIN all /\ left[i] = all[at(i)]
        /\ at(j) \in DOMAIN all /\ left[j] = all[at(j)]
    BY <1>5
  <2>2. at(i) = at(j)
    BY <1>0, <1>10, <2>1 DEF IsInjective
  <2>3. QED
    BY <1>5, <2>2
<1>11. \A i \in DOMAIN left : \E k \in DOMAIN all : all[k] = left[i]
  BY <1>5
<1>12. IsInjective(left)
  BY <1>10 DEF IsInjective
<1>13. ToSet(d) \subseteq ToSet(all)
  BY <1>9 DEF ToSet
<1>14. ToSet(left) = ToSet(all) \ ToSet(d)
  <2>1. \A e \in ToSet(left) : e \in ToSet(all) /\ e \notin ToSet(d)
    BY <1>7, <1>11 DEF ToSet
  <2>2. ASSUME NEW e \in ToSet(all) PROVE e \in ToSet(d) \/ e \in ToSet(left)
    <3>1. PICK k \in DOMAIN all : all[k] = e
      BY DEF ToSet
    <3>2. CASE \E i \in DOMAIN left : left[i] = all[k]
      BY <3>1, <3>2 DEF ToSet
    <3>3. QED
      BY <1>8, <3>1, <3>2
  <2>3. QED
    BY <2>1, <2>2
<1>15. QED
  BY <1>12, <1>13, <1>14 DEF all, left

\* What is known of a session is what is in its parts.
LEMMA KnownSet ==
    ASSUME NEW S, NEW c \in Seq(S), NEW d \in Seq(S), NEW p \in Seq(S)
    PROVE  /\ c \o d \o p \in Seq(S)
           /\ ToSet(c \o d \o p) = ToSet(c) \cup ToSet(d) \cup ToSet(p)
           /\ ToSet(c \o d) = ToSet(c) \cup ToSet(d)
<1>1. /\ c \o d \in Seq(S) /\ c \o d \o p \in Seq(S)
  BY ConcatProperties
<1>2. \A q \in Seq(S) : ToSet(q) = Range(q)
  BY DEF ToSet, Range
<1>3. Range(c \o d) = Range(c) \cup Range(d)
  BY RangeConcatenation
<1>4. Range((c \o d) \o p) = Range(c \o d) \cup Range(p)
  BY <1>1, RangeConcatenation, ZenonT(60)
<1>5. QED
  BY <1>1, <1>2, <1>3, <1>4

\* And of a sequence one longer.
LEMMA InjectiveAppend ==
    ASSUME NEW S, NEW q \in Seq(S), NEW e \in S, IsInjective(q), e \notin ToSet(q)
    PROVE  IsInjective(Append(q, e)) /\ ToSet(Append(q, e)) = ToSet(q) \cup {e}
<1>1. /\ Append(q, e) \in Seq(S) /\ Len(Append(q, e)) = Len(q) + 1 /\ Len(q) \in Nat
      /\ \A i \in 1 .. Len(q) : Append(q, e)[i] = q[i]
      /\ Append(q, e)[Len(q) + 1] = e
  BY AppendProperties, LenProperties
<1>2. DOMAIN Append(q, e) = 1 .. Len(q) + 1 /\ DOMAIN q = 1 .. Len(q)
  BY <1>1, LenProperties
<1>3. \A i \in 1 .. Len(q) + 1 : i \in 1 .. Len(q) \/ i = Len(q) + 1
  BY <1>1
<1>4. \A i \in 1 .. Len(q) : i \in 1 .. Len(q) + 1 /\ q[i] # e
  BY <1>1, <1>2 DEF ToSet
<1>5. IsInjective(Append(q, e))
  BY <1>1, <1>2, <1>3, <1>4 DEF IsInjective
<1>6. Len(q) + 1 \in 1 .. Len(q) + 1
  BY <1>1
<1>7. ToSet(Append(q, e)) = ToSet(q) \cup {e}
  BY <1>1, <1>2, <1>3, <1>4, <1>6 DEF ToSet
<1>8. QED
  BY <1>5, <1>7


--------------------------------------------------------------------------------
(* The invariant. *)

LEMMA SubagentInit == Init => SubagentIndInv
<1> SUFFICES ASSUME Init PROVE SubagentIndInv
  OBVIOUS
<1>1. <<>> \in Seq(Run) /\ ToSet(<<>>) = {} /\ <<>> \o <<>> = <<>> /\ IsInjective(<<>>)
  <2>1. <<>> \in Seq(Run) /\ Len(<<>>) = 0
    BY EmptySeq
  <2>2. DOMAIN <<>> = {}
    BY <2>1, LenProperties
  <2>3. <<>> \o <<>> = <<>>
    BY <2>1, ConcatEmptySeq
  <2>4. QED
    BY <2>1, <2>2, <2>3 DEF ToSet, IsInjective
<1>2. SubagentTypeOK
  <2>1. pending \in [Session -> Seq(Run)] /\ scratch \in [Session -> Seq(Run)]
        /\ conversation \in [Session -> Seq(Run)]
    BY <1>1 DEF Init
  <2>2. QED
    BY <2>1, SlotsAreNumbers DEF Init, SubagentTypeOK
<1>3. Requested /\ DiscardedAreOver /\ WaitsForItsOwn
  BY DEF Init, Requested, DiscardedAreOver, WaitsForItsOwn
<1>4. ParentKnowsItsRuns
  BY DEF Init, ParentKnowsItsRuns
<1>5. \A s \in Session : Known(s) = <<>>
  BY <1>1 DEF Init, Known
<1>6. \A r \in Run : ~ IsDue(r)
  BY DEF Init, IsDue
<1>7. AnnouncedOnce
  BY <1>1, <1>5, <1>6 DEF AnnouncedOnce
<1>8. QED
  BY <1>2, <1>3, <1>4, <1>7 DEF SubagentIndInv

LEMMA StillAnnounced ==
    ASSUME AnnouncedOnce,
           \A s \in Session : Known(s)' = Known(s),
           \A r \in Run : (IsDue(r)' <=> IsDue(r)) /\ (IsDue(r) => requester'[r] = requester[r])
    PROVE  AnnouncedOnce'
BY DEF AnnouncedOnce

\* What a turn in a round knows is not forgotten.
LEMMA StillKnows ==
    ASSUME WaitsForItsOwn, ParentKnowsItsRuns,
           \A s \in Session : turn'[s] = "round" =>
                \/ awaited'[s] = {}
                \/ /\ turn[s] = "round" /\ awaited'[s] = awaited[s]
                   /\ conversation'[s] = conversation[s] /\ scratch'[s] = scratch[s],
           \A r \in Run : status[r] \in Ended => status'[r] = status[r],
           discarded \subseteq discarded'
    PROVE  ParentKnowsItsRuns'
<1> SUFFICES ASSUME NEW s \in Session, turn'[s] = "round", NEW r \in awaited'[s]
             PROVE  /\ status'[r] \in Ended
                    /\ status'[r] = "killed" \/ r \in discarded'
                         \/ r \in ToSet(conversation'[s] \o scratch'[s])
  BY DEF ParentKnowsItsRuns, Ended
<1>1. /\ turn[s] = "round" /\ r \in awaited[s]
      /\ conversation'[s] = conversation[s] /\ scratch'[s] = scratch[s]
  OBVIOUS
<1>2. r \in Run
  BY <1>1 DEF WaitsForItsOwn, RunsOf
<1>3. /\ status[r] \in Ended
      /\ status[r] = "killed" \/ r \in discarded \/ r \in ToSet(conversation[s] \o scratch[s])
  BY <1>1 DEF ParentKnowsItsRuns
<1>4. QED
  BY <1>1, <1>2, <1>3

\* A run of whatever use is spawned for s.
LEMMA SpawnKeeps ==
    ASSUME SubagentIndInv, NEW r \in Run, NEW s \in Session, Spawn(r, s),
           UNCHANGED <<pending, conversation, scratch, discarded, awaited>>,
           \A t \in Session : \/ turn'[t] = turn[t]
                              \/ turn[t] # "idle" /\ turn'[t] = "spawning",
           turn' \in [Session -> {"idle", "round", "spawning", "waiting"}],
           UNCHANGED turns
    PROVE  SubagentIndInv'
<1>1. /\ status[r] = "none" /\ status' = [status EXCEPT ![r] = "running"]
      /\ requester' = [requester EXCEPT ![r] = s] /\ UNCHANGED stopped
  BY DEF Spawn
<1>2. SubagentTypeOK'
  BY <1>1 DEF SubagentIndInv, SubagentTypeOK
<1>3. Requested' /\ DiscardedAreOver'
  BY <1>1 DEF SubagentIndInv, SubagentTypeOK, Requested, DiscardedAreOver
<1>4. \A t \in Session : requester[r] # t
  BY <1>1, NoSessionIsNone DEF SubagentIndInv, Requested
<1>5. \A t \in Session : RunsOf(t) \subseteq RunsOf(t)'
  BY <1>1, <1>4 DEF SubagentIndInv, SubagentTypeOK, RunsOf
<1>6. WaitsForItsOwn'
  BY <1>5 DEF SubagentIndInv, WaitsForItsOwn
<1>7. \A q \in Run : status[q] \in Ended => status'[q] = status[q]
  BY <1>1 DEF SubagentIndInv, SubagentTypeOK, Ended
<1>8. ParentKnowsItsRuns'
  BY <1>7, StillKnows DEF SubagentIndInv
<1>9. \A q \in Run : (IsDue(q)' <=> IsDue(q)) /\ (IsDue(q) => requester'[q] = requester[q])
  BY <1>1 DEF SubagentIndInv, SubagentTypeOK, IsDue
<1>10. \A t \in Session : Known(t)' = Known(t)
  BY DEF Known
<1>11. AnnouncedOnce'
  BY <1>9, <1>10, StillAnnounced DEF SubagentIndInv
<1>12. QED
  BY <1>2, <1>3, <1>6, <1>8, <1>11 DEF SubagentIndInv

\* What a turn does without the runner, and a kill, which only sets a token.
LEMMA TurnKeeps ==
    ASSUME SubagentIndInv,
           UNCHANGED <<status, requester, pending, conversation, scratch, discarded>>,
           stopped' \in [Run -> BOOLEAN], turns' \in 0 .. MaxTurn,
           turn' \in [Session -> {"idle", "round", "spawning", "waiting"}],
           awaited' \in [Session -> SUBSET Run],
           \A s \in Session :
              /\ awaited'[s] = awaited[s] \/ awaited'[s] = RunsOf(s) \ Review
              /\ \/ turn'[s] = turn[s] /\ awaited'[s] = awaited[s]
                 \/ turn'[s] \in {"spawning", "waiting"}
                 \/ turn[s] = "idle" /\ turn'[s] = "round" /\ awaited'[s] = awaited[s]
    PROVE  SubagentIndInv'
<1>1. SubagentTypeOK' /\ Requested' /\ DiscardedAreOver'
  BY DEF SubagentIndInv, SubagentTypeOK, Requested, DiscardedAreOver
<1>2. \A s \in Session : RunsOf(s)' = RunsOf(s)
  BY DEF RunsOf
<1>3. WaitsForItsOwn'
  BY <1>2 DEF SubagentIndInv, WaitsForItsOwn
<1>4. \A s \in Session : turn[s] = "idle" => awaited[s] = {}
  BY DEF SubagentIndInv, WaitsForItsOwn
<1>5. ParentKnowsItsRuns'
  BY <1>4, StillKnows DEF SubagentIndInv
<1>6. \A r \in Run : (IsDue(r)' <=> IsDue(r)) /\ (IsDue(r) => requester'[r] = requester[r])
  BY DEF IsDue
<1>7. \A s \in Session : Known(s)' = Known(s)
  BY DEF Known
<1>8. AnnouncedOnce'
  BY <1>6, <1>7, StillAnnounced DEF SubagentIndInv
<1>9. QED
  BY <1>1, <1>3, <1>5, <1>8 DEF SubagentIndInv

\* A run that is over and no review of its session is announced behind all the others.
LEMMA EndsKeeps ==
    ASSUME SubagentIndInv, NEW r \in Run, NEW how \in Ended, Ends(r, how)
    PROVE  SubagentIndInv'
<1>0. PICK s \in Session : s = requester[r]
  BY DEF SubagentIndInv, Requested, Ends, Running
<1>1. /\ status[r] = "running" /\ status' = [status EXCEPT ![r] = how]
      /\ stopped' = [stopped EXCEPT ![r] = FALSE]
      /\ pending' = IF how = "killed" \/ r \in Review THEN pending
                    ELSE [pending EXCEPT ![s] = Append(@, r)]
      /\ UNCHANGED <<requester, turn, turns, awaited, scratch, conversation, discarded>>
  BY <1>0 DEF Ends, Running, turnVars
<1>2. /\ status \in [Run -> {"none", "running", "over", "killed"}]
      /\ pending \in [Session -> Seq(Run)] /\ scratch \in [Session -> Seq(Run)]
      /\ conversation \in [Session -> Seq(Run)]
  BY DEF SubagentIndInv, SubagentTypeOK
<1>3. PICK c \in Seq(Run), d \in Seq(Run), p \in Seq(Run) :
          c = conversation[s] /\ d = scratch[s] /\ p = pending[s]
  BY <1>2
<1>4. pending' \in [Session -> Seq(Run)]
  <2>1. Append(pending[s], r) \in Seq(Run)
    BY <1>3, AppendProperties
  <2>2. QED
    BY <1>1, <1>2, <2>1
<1>5. SubagentTypeOK'
  <2>1. {pending', scratch', conversation'} \subseteq [Session -> Seq(Run)]
    BY <1>1, <1>2, <1>4
  <2>2. status' \in [Run -> {"none", "running", "over", "killed"}] /\ stopped' \in [Run -> BOOLEAN]
    BY <1>1, <1>2 DEF SubagentIndInv, SubagentTypeOK, Ended
  <2>3. QED
    BY <1>1, <2>1, <2>2 DEF SubagentIndInv, SubagentTypeOK
<1>6. Requested' /\ DiscardedAreOver'
  BY <1>1, <1>2 DEF SubagentIndInv, Requested, DiscardedAreOver, Ended
<1>7. \A t \in Session : RunsOf(t)' = RunsOf(t)
  BY <1>1 DEF RunsOf
<1>8. WaitsForItsOwn'
  BY <1>1, <1>7 DEF SubagentIndInv, WaitsForItsOwn
<1>9. \A q \in Run : status[q] \in Ended => status'[q] = status[q]
  BY <1>1, <1>2 DEF Ended
<1>10. ParentKnowsItsRuns'
  BY <1>1, <1>9, StillKnows DEF SubagentIndInv
<1>11. r \notin discarded /\ ~ IsDue(r)
  BY <1>1 DEF SubagentIndInv, DiscardedAreOver, IsDue
<1>12. \A q \in Run \ {r} : (IsDue(q)' <=> IsDue(q)) /\ requester'[q] = requester[q]
  BY <1>1, <1>2 DEF IsDue
<1>13. IsDue(r)' <=> how = "over" /\ r \notin Review
  BY <1>1, <1>2, <1>11 DEF IsDue, Announced
<1>14. CASE how = "killed" \/ r \in Review
  <2>1. \A t \in Session : Known(t)' = Known(t)
    BY <1>1, <1>14 DEF Known
  <2>2. AnnouncedOnce'
    BY <1>11, <1>12, <1>13, <1>14, <2>1, StillAnnounced DEF SubagentIndInv
  <2>3. QED
    BY <1>5, <1>6, <1>8, <1>10, <2>2 DEF SubagentIndInv
<1>15. CASE how = "over" /\ r \notin Review
  <2>1. pending' = [pending EXCEPT ![s] = Append(@, r)]
    BY <1>1, <1>15
  <2>2. \A t \in Session \ {s} : Known(t)' = Known(t)
    BY <1>1, <1>2, <2>1 DEF Known
  <2>3. Known(s)' = Append(Known(s), r)
    <3>1. Known(s)' = conversation[s] \o scratch[s] \o Append(pending[s], r)
      BY <1>1, <1>2, <2>1 DEF Known
    <3>2. c \o d \o Append(p, r) = Append(c \o d \o p, r)
      BY KnownGrows
    <3>3. QED
      BY <1>3, <3>1, <3>2 DEF Known
  <2>4. \A t \in Session : r \notin ToSet(Known(t))
    BY <1>11 DEF SubagentIndInv, AnnouncedOnce
  <2>5. Known(s) \in Seq(Run) /\ IsInjective(Known(s)) /\ r \notin ToSet(Known(s))
    <3>1. Known(s) \in Seq(Run)
      BY <1>3, KnownSet DEF Known
    <3>2. QED
      BY <2>4, <3>1 DEF SubagentIndInv, AnnouncedOnce
  <2> DEFINE K == Known(s)
  <2>6. IsInjective(Append(K, r)) /\ ToSet(Append(K, r)) = ToSet(K) \cup {r}
    <3> HIDE DEF K
    <3>1. K \in Seq(Run) /\ IsInjective(K) /\ r \notin ToSet(K)
      BY <2>5 DEF K
    <3>2. QED
      BY <3>1, InjectiveAppend
  <2>7. \A q \in Run, t \in Session :
            q \in ToSet(Known(t)') <=> q \in ToSet(Known(t)) \/ (q = r /\ t = s)
    <3> SUFFICES ASSUME NEW q \in Run, NEW t \in Session
                 PROVE  q \in ToSet(Known(t)') <=> q \in ToSet(Known(t)) \/ (q = r /\ t = s)
      OBVIOUS
    <3>1. CASE t = s
      BY <2>3, <2>6, <3>1
    <3>2. CASE t # s
      BY <2>2, <3>2
    <3>3. QED
      BY <3>1, <3>2
  <2>8. IsDue(r)' /\ requester'[r] = s
    BY <1>0, <1>1, <1>13, <1>15
  <2>9. AnnouncedOnce'
    <3>1. ASSUME NEW q \in Run, IsDue(q)' PROVE \E t \in Session : q \in ToSet(Known(t)')
      <4>1. CASE q = r
        BY <2>7, <4>1
      <4>2. CASE q # r
        BY <1>12, <2>7, <3>1, <4>2 DEF SubagentIndInv, AnnouncedOnce
      <4>3. QED
        BY <4>1, <4>2
    <3>2. ASSUME NEW t \in Session, NEW q \in Run, q \in ToSet(Known(t)')
          PROVE  IsDue(q)' /\ requester'[q] = t
      <4>1. CASE q = r
        BY <2>4, <2>7, <2>8, <3>2, <4>1
      <4>2. CASE q # r
        <5>1. IsDue(q) /\ requester[q] = t
          BY <2>7, <3>2, <4>2 DEF SubagentIndInv, AnnouncedOnce
        <5>2. QED
          BY <1>12, <4>2, <5>1
      <4>3. QED
        BY <4>1, <4>2
    <3>3. ASSUME NEW t \in Session PROVE IsInjective(Known(t)')
      <4>1. CASE t = s
        BY <2>3, <2>6, <4>1
      <4>2. CASE t # s
        BY <2>2, <4>2 DEF SubagentIndInv, AnnouncedOnce
      <4>3. QED
        BY <4>1, <4>2
    <3>4. QED
      BY <3>1, <3>2, <3>3 DEF AnnouncedOnce
  <2>10. QED
    BY <1>5, <1>6, <1>8, <1>10, <2>9 DEF SubagentIndInv
<1>16. QED
  BY <1>14, <1>15 DEF Ended

\* Nobody of s runs any more: each of its runs is killed, discarded, or announced, and what is
\* announced is drained.
LEMMA WaitEndsKeeps ==
    ASSUME SubagentIndInv, NEW s \in Session, WaitEnds(s)
    PROVE  SubagentIndInv'
<1>1. /\ turn[s] = "waiting" /\ Quiet(s)
      /\ scratch' = [scratch EXCEPT ![s] = @ \o pending[s]]
      /\ pending' = [pending EXCEPT ![s] = <<>>]
      /\ turn' = [turn EXCEPT ![s] = "round"]
      /\ UNCHANGED <<status, requester, stopped, turns, awaited, conversation, discarded>>
  BY DEF WaitEnds, Drain, runVars
<1>2. /\ pending \in [Session -> Seq(Run)] /\ scratch \in [Session -> Seq(Run)]
      /\ conversation \in [Session -> Seq(Run)]
      /\ status \in [Run -> {"none", "running", "over", "killed"}]
      /\ turn \in [Session -> {"idle", "round", "spawning", "waiting"}]
  BY DEF SubagentIndInv, SubagentTypeOK
<1>3. PICK c \in Seq(Run), d \in Seq(Run), p \in Seq(Run) :
          c = conversation[s] /\ d = scratch[s] /\ p = pending[s]
  BY <1>2
<1>4. scratch[s] \o pending[s] \in Seq(Run) /\ <<>> \in Seq(Run)
  BY <1>3, ConcatProperties, EmptySeq
<1>5. SubagentTypeOK'
  <2>1. {pending', scratch', conversation'} \subseteq [Session -> Seq(Run)]
    BY <1>1, <1>2, <1>4
  <2>2. QED
    BY <1>1, <2>1 DEF SubagentIndInv, SubagentTypeOK
<1>6. Requested' /\ DiscardedAreOver'
  BY <1>1 DEF SubagentIndInv, Requested, DiscardedAreOver
<1>7. \A t \in Session : RunsOf(t)' = RunsOf(t)
  BY <1>1 DEF RunsOf
<1>8. WaitsForItsOwn'
  BY <1>1, <1>2, <1>7 DEF SubagentIndInv, WaitsForItsOwn
<1>9. \A t \in Session : Known(t)' = Known(t)
  <2> SUFFICES ASSUME NEW t \in Session PROVE Known(t)' = Known(t)
    OBVIOUS
  <2>1. CASE t = s
    <3>1. Known(s)' = conversation[s] \o (scratch[s] \o pending[s]) \o <<>>
      BY <1>1, <1>2 DEF Known
    <3>2. c \o (d \o p) \o <<>> = c \o d \o p /\ (c \o d) \o <<>> \o p = c \o d \o p
      BY KnownMoves
    <3>3. QED
      BY <1>3, <2>1, <3>1, <3>2 DEF Known
  <2>2. CASE t # s
    BY <1>1, <1>2, <2>2 DEF Known
  <2>3. QED
    BY <2>1, <2>2
<1>10. \A r \in Run : (IsDue(r)' <=> IsDue(r)) /\ (IsDue(r) => requester'[r] = requester[r])
  BY <1>1 DEF IsDue
<1>11. AnnouncedOnce'
  BY <1>9, <1>10, StillAnnounced DEF SubagentIndInv
<1>12. ASSUME NEW r \in awaited[s]
       PROVE  /\ status[r] \in Ended
              /\ status[r] = "killed" \/ r \in discarded
                   \/ r \in ToSet(conversation'[s] \o scratch'[s])
  <2>1. r \in Run /\ requester[r] = s /\ r \notin Review
    BY DEF SubagentIndInv, WaitsForItsOwn, RunsOf
  <2>2. status[r] # "none" /\ status[r] # "running"
    BY <1>1, <2>1, NoSessionIsNone DEF SubagentIndInv, Requested, Quiet, RunsOf, Running
  <2>3. status[r] \in Ended
    BY <1>2, <2>1, <2>2 DEF Ended
  <2>4. CASE status[r] = "over" /\ r \notin discarded
    <3>1. IsDue(r)
      BY <2>1, <2>4 DEF IsDue, Announced
    <3>2. r \in ToSet(Known(s))
      BY <2>1, <3>1 DEF SubagentIndInv, AnnouncedOnce
    <3>3. r \in ToSet(conversation[s]) \cup ToSet(scratch[s]) \cup ToSet(pending[s])
      BY <1>3, <3>2, KnownSet DEF Known
    <3>4. conversation'[s] \o scratch'[s] = conversation[s] \o (scratch[s] \o pending[s])
      BY <1>1, <1>2
    <3>5. c \o (d \o p) = c \o d \o p
      BY ConcatAssociative
    <3>6. r \in ToSet(conversation'[s] \o scratch'[s])
      BY <1>3, <3>2, <3>4, <3>5 DEF Known
    <3>7. QED
      BY <2>3, <3>6
  <2>5. QED
    BY <2>3, <2>4 DEF Ended
<1>13. ParentKnowsItsRuns'
  <2> SUFFICES ASSUME NEW t \in Session, turn'[t] = "round", NEW r \in awaited'[t]
               PROVE  /\ status'[r] \in Ended
                      /\ status'[r] = "killed" \/ r \in discarded'
                           \/ r \in ToSet(conversation'[t] \o scratch'[t])
    BY DEF ParentKnowsItsRuns, Ended
  <2>1. CASE t = s
    BY <1>1, <1>12, <2>1
  <2>2. CASE t # s
    <3>1. turn[t] = "round" /\ r \in awaited[t] /\ scratch'[t] = scratch[t]
      BY <1>1, <1>2, <2>2
    <3>2. QED
      BY <1>1, <3>1 DEF SubagentIndInv, ParentKnowsItsRuns
  <2>3. QED
    BY <2>1, <2>2
<1>14. QED
  BY <1>5, <1>6, <1>8, <1>11, <1>13 DEF SubagentIndInv

\* The turn is committed: its scratch history is the conversation.
LEMMA TurnEndsKeeps ==
    ASSUME SubagentIndInv, NEW s \in Session, TurnEnds(s)
    PROVE  SubagentIndInv'
<1>1. /\ conversation' = [conversation EXCEPT ![s] = @ \o scratch[s]]
      /\ scratch' = [scratch EXCEPT ![s] = <<>>]
      /\ turn' = [turn EXCEPT ![s] = "idle"]
      /\ awaited' = [awaited EXCEPT ![s] = {}]
      /\ UNCHANGED <<status, requester, stopped, turns, pending, discarded>>
  BY DEF TurnEnds, runVars
<1>2. /\ pending \in [Session -> Seq(Run)] /\ scratch \in [Session -> Seq(Run)]
      /\ conversation \in [Session -> Seq(Run)] /\ awaited \in [Session -> SUBSET Run]
      /\ turn \in [Session -> {"idle", "round", "spawning", "waiting"}]
  BY DEF SubagentIndInv, SubagentTypeOK
<1>3. PICK c \in Seq(Run), d \in Seq(Run), p \in Seq(Run) :
          c = conversation[s] /\ d = scratch[s] /\ p = pending[s]
  BY <1>2
<1>4. conversation[s] \o scratch[s] \in Seq(Run) /\ <<>> \in Seq(Run)
  BY <1>3, ConcatProperties, EmptySeq
<1>5. SubagentTypeOK'
  <2>1. {pending', scratch', conversation'} \subseteq [Session -> Seq(Run)]
    BY <1>1, <1>2, <1>4
  <2>2. QED
    BY <1>1, <2>1 DEF SubagentIndInv, SubagentTypeOK
<1>6. Requested' /\ DiscardedAreOver'
  BY <1>1 DEF SubagentIndInv, Requested, DiscardedAreOver
<1>7. \A t \in Session : RunsOf(t)' = RunsOf(t)
  BY <1>1 DEF RunsOf
<1>8. WaitsForItsOwn'
  BY <1>1, <1>2, <1>7 DEF SubagentIndInv, WaitsForItsOwn
<1>9. \A t \in Session : Known(t)' = Known(t)
  <2> SUFFICES ASSUME NEW t \in Session PROVE Known(t)' = Known(t)
    OBVIOUS
  <2>1. CASE t = s
    <3>1. Known(s)' = (conversation[s] \o scratch[s]) \o <<>> \o pending[s]
      BY <1>1, <1>2 DEF Known
    <3>2. c \o (d \o p) \o <<>> = c \o d \o p /\ (c \o d) \o <<>> \o p = c \o d \o p
      BY KnownMoves
    <3>3. QED
      BY <1>3, <2>1, <3>1, <3>2 DEF Known
  <2>2. CASE t # s
    BY <1>1, <1>2, <2>2 DEF Known
  <2>3. QED
    BY <2>1, <2>2
<1>10. \A r \in Run : (IsDue(r)' <=> IsDue(r)) /\ (IsDue(r) => requester'[r] = requester[r])
  BY <1>1 DEF IsDue
<1>11. AnnouncedOnce'
  BY <1>9, <1>10, StillAnnounced DEF SubagentIndInv
<1>12. ParentKnowsItsRuns'
  <2>1. \A t \in Session : turn'[t] = "round" =>
            /\ turn[t] = "round" /\ awaited'[t] = awaited[t]
            /\ conversation'[t] = conversation[t] /\ scratch'[t] = scratch[t]
    BY <1>1, <1>2
  <2>2. QED
    BY <1>1, <2>1, StillKnows DEF SubagentIndInv
<1>13. QED
  BY <1>5, <1>6, <1>8, <1>11, <1>12 DEF SubagentIndInv

\* A turn that stops discards what it has drained, and nothing else.
LEMMA TurnStopsKeeps ==
    ASSUME SubagentIndInv, NEW s \in Session, TurnStops(s)
    PROVE  SubagentIndInv'
<1>1. /\ discarded' = discarded \cup ToSet(scratch[s])
      /\ scratch' = [scratch EXCEPT ![s] = <<>>]
      /\ turn' = [turn EXCEPT ![s] = "idle"]
      /\ awaited' = [awaited EXCEPT ![s] = {}]
      /\ UNCHANGED <<status, requester, stopped, turns, pending, conversation>>
  BY DEF TurnStops, runVars
<1>2. /\ pending \in [Session -> Seq(Run)] /\ scratch \in [Session -> Seq(Run)]
      /\ conversation \in [Session -> Seq(Run)] /\ awaited \in [Session -> SUBSET Run]
      /\ turn \in [Session -> {"idle", "round", "spawning", "waiting"}] /\ discarded \subseteq Run
  BY DEF SubagentIndInv, SubagentTypeOK
<1>3. PICK c \in Seq(Run), d \in Seq(Run), p \in Seq(Run) :
          c = conversation[s] /\ d = scratch[s] /\ p = pending[s]
  BY <1>2
<1> DEFINE left == c \o <<>> \o p
<1>4. /\ IsInjective(left) /\ ToSet(left) = ToSet(Known(s)) \ ToSet(d)
      /\ ToSet(d) \subseteq ToSet(Known(s))
  <2>1. Known(s) = c \o d \o p
    BY <1>3 DEF Known
  <2>2. IsInjective(c \o d \o p)
    BY <2>1 DEF SubagentIndInv, AnnouncedOnce
  <2>3. /\ IsInjective(c \o <<>> \o p)
        /\ ToSet(c \o <<>> \o p) = ToSet(c \o d \o p) \ ToSet(d)
        /\ ToSet(d) \subseteq ToSet(c \o d \o p)
    BY <2>2, KnownShrinks
  <2>4. QED
    BY <2>1, <2>3
<1>5. Known(s)' = left
  BY <1>1, <1>2, <1>3 DEF Known
<1>6. \A t \in Session \ {s} : Known(t)' = Known(t)
  BY <1>1, <1>2 DEF Known
<1> HIDE DEF left
<1>7. \A r \in ToSet(d) : r \in Run /\ IsDue(r) /\ requester[r] = s
  <2>1. DOMAIN d = 1 .. Len(d) /\ \A i \in 1 .. Len(d) : d[i] \in Run
    BY <1>3, LenProperties
  <2>2. \A r \in ToSet(d) : r \in Run
    BY <2>1 DEF ToSet
  <2>3. QED
    BY <1>4, <2>2 DEF SubagentIndInv, AnnouncedOnce
<1>8. SubagentTypeOK'
  <2>1. {pending', scratch', conversation'} \subseteq [Session -> Seq(Run)]
    BY <1>1, <1>2, EmptySeq
  <2>2. discarded' \subseteq Run
    BY <1>1, <1>2, <1>3, <1>7
  <2>3. QED
    BY <1>1, <2>1, <2>2 DEF SubagentIndInv, SubagentTypeOK
<1>9. Requested' /\ DiscardedAreOver'
  <2>1. \A r \in discarded' : status[r] = "over"
    BY <1>1, <1>3, <1>7 DEF SubagentIndInv, DiscardedAreOver, IsDue
  <2>2. QED
    BY <1>1, <2>1 DEF SubagentIndInv, Requested, DiscardedAreOver
<1>10. \A t \in Session : RunsOf(t)' = RunsOf(t)
  BY <1>1 DEF RunsOf
<1>11. WaitsForItsOwn'
  BY <1>1, <1>2, <1>10 DEF SubagentIndInv, WaitsForItsOwn
<1>12. \A r \in Run : IsDue(r)' <=> IsDue(r) /\ r \notin ToSet(d)
  BY <1>1, <1>3 DEF IsDue
<1>13. \A t \in Session, r \in Run :
          r \in ToSet(Known(t)') <=> r \in ToSet(Known(t)) /\ r \notin ToSet(d)
  <2> SUFFICES ASSUME NEW t \in Session, NEW r \in Run
               PROVE  r \in ToSet(Known(t)') <=> r \in ToSet(Known(t)) /\ r \notin ToSet(d)
    OBVIOUS
  <2>1. CASE t = s
    BY <1>4, <1>5, <2>1
  <2>2. CASE t # s
    <3>1. r \in ToSet(Known(t)) => r \notin ToSet(d)
      BY <1>7, <2>2 DEF SubagentIndInv, AnnouncedOnce
    <3>2. QED
      BY <1>6, <2>2, <3>1
  <2>3. QED
    BY <2>1, <2>2
<1>14. AnnouncedOnce'
  <2>1. ASSUME NEW r \in Run, IsDue(r)' PROVE \E t \in Session : r \in ToSet(Known(t)')
    BY <1>12, <1>13, <2>1 DEF SubagentIndInv, AnnouncedOnce
  <2>2. ASSUME NEW t \in Session, NEW r \in Run, r \in ToSet(Known(t)')
        PROVE  IsDue(r)' /\ requester'[r] = t
    <3>1. IsDue(r) /\ requester[r] = t /\ r \notin ToSet(d)
      BY <1>13, <2>2 DEF SubagentIndInv, AnnouncedOnce
    <3>2. QED
      BY <1>1, <1>12, <3>1
  <2>3. ASSUME NEW t \in Session PROVE IsInjective(Known(t)')
    <3>1. CASE t = s
      BY <1>4, <1>5, <3>1
    <3>2. CASE t # s
      BY <1>6, <3>2 DEF SubagentIndInv, AnnouncedOnce
    <3>3. QED
      BY <3>1, <3>2
  <2>4. QED
    BY <2>1, <2>2, <2>3 DEF AnnouncedOnce
<1>15. ParentKnowsItsRuns'
  <2>1. \A t \in Session : turn'[t] = "round" =>
            /\ turn[t] = "round" /\ awaited'[t] = awaited[t]
            /\ conversation'[t] = conversation[t] /\ scratch'[t] = scratch[t]
    BY <1>1, <1>2
  <2>2. QED
    BY <1>1, <2>1, StillKnows DEF SubagentIndInv
<1>16. QED
  BY <1>8, <1>9, <1>11, <1>14, <1>15 DEF SubagentIndInv

LEMMA SubagentStep == SubagentIndInv /\ [Next]_vars => SubagentIndInv'
<1> SUFFICES ASSUME SubagentIndInv, [Next]_vars PROVE SubagentIndInv'
  OBVIOUS
<1>1. ASSUME NEW r \in Run, RunEnds(r) \/ ResearchCancelled(r) PROVE SubagentIndInv'
  <2>1. PICK how \in Ended : Ends(r, how)
    BY <1>1 DEF RunEnds, ResearchCancelled, Ended
  <2>2. QED
    BY <2>1, EndsKeeps
<1>2. ASSUME NEW r \in Run, Kill(r) PROVE SubagentIndInv'
  BY <1>2, TurnKeeps DEF Kill, turnVars, SubagentIndInv, SubagentTypeOK
<1>3. ASSUME NEW s \in Session, NEW r \in Run, PodcastResearches(r, s) \/ ReviewForks(r, s)
      PROVE  SubagentIndInv'
  BY <1>3, SpawnKeeps DEF PodcastResearches, ReviewForks, turnVars, SubagentIndInv, SubagentTypeOK
<1>4. ASSUME NEW s \in Session, NEW r \in Run, TurnSpawns(s, r) PROVE SubagentIndInv'
  BY <1>4, SpawnKeeps DEF TurnSpawns, SubagentIndInv, SubagentTypeOK
<1>5. ASSUME NEW s \in Session, TurnStarts(s) PROVE SubagentIndInv'
  <2>1. turns' \in 0 .. MaxTurn
    BY <1>5, SlotsAreNumbers DEF TurnStarts, SubagentIndInv, SubagentTypeOK
  <2>2. QED
    BY <1>5, <2>1, TurnKeeps DEF TurnStarts, runVars, SubagentIndInv, SubagentTypeOK
<1>6. ASSUME NEW s \in Session, TurnSpawnsInVain(s) PROVE SubagentIndInv'
  BY <1>6, TurnKeeps DEF TurnSpawnsInVain, runVars, SubagentIndInv, SubagentTypeOK
<1>7. ASSUME NEW s \in Session, WaitStarts(s) PROVE SubagentIndInv'
  <2>1. RunsOf(s) \ Review \subseteq Run
    BY DEF RunsOf
  <2>2. QED
    BY <1>7, <2>1, TurnKeeps DEF WaitStarts, runVars, SubagentIndInv, SubagentTypeOK
<1>8. ASSUME NEW s \in Session, WaitEnds(s) PROVE SubagentIndInv'
  BY <1>8, WaitEndsKeeps
<1>9. ASSUME NEW s \in Session, TurnEnds(s) PROVE SubagentIndInv'
  BY <1>9, TurnEndsKeeps
<1>10. ASSUME NEW s \in Session, TurnStops(s) PROVE SubagentIndInv'
  BY <1>10, TurnStopsKeeps
<1>11. CASE UNCHANGED vars
  BY <1>11, TurnKeeps DEF vars, runVars, turnVars, SubagentIndInv, SubagentTypeOK
<1>12. QED
  BY <1>1, <1>2, <1>3, <1>4, <1>5, <1>6, <1>7, <1>8, <1>9, <1>10, <1>11 DEF Next

\* However turns wait, stop and follow one another, and however their runs end: a turn that
\* goes on knows the outcome of each run it has waited for, and a result is announced once, to
\* its requester (wait_for_requester, drain_announcements, _run_subagent).
THEOREM SubagentsReport == Spec => []ResultsArrive
<1>1. Init => SubagentIndInv
  BY SubagentInit
<1>2. SubagentIndInv /\ [Next]_vars => SubagentIndInv'
  BY SubagentStep
<1>3. SubagentIndInv => ResultsArrive
  BY DEF SubagentIndInv, ResultsArrive
<1>4. QED
  BY <1>1, <1>2, <1>3, PTL DEF Spec
================================================================================
