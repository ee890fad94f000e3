------------------------------ MODULE GatewayProofs ------------------------------
(* Proofs about what a daemon offers to those outside, module MCGateway: its      *)
(* channels and its pidfile, for any accounts, adapters and processes, and the    *)
(* stream of its events, for any sessions, queue sizes and bounds.                *)
EXTENDS MCGateway, FiniteSetTheorems, SequenceTheorems, WellFoundedInduction, TLAPS

--------------------------------------------------------------------------------
(* The channels.  An entry of the manager is an adapter made for its account; who waits *)
(* for the stop of an adapter knows the one its account has, unless two of them wait.   *)

ChannelTypes ==
    /\ instances \in [Account -> Adapter \cup {NoAdapter}]
    /\ state \in [Adapter -> {"off", "up", "stuck"}]
    /\ belongs \in [Adapter -> Account \cup {NoAccount}]
    /\ stopping \in SUBSET (Actor \X Account \X Adapter)
    /\ phase \in [Update -> Phase]
    /\ DOMAIN new = Update
    /\ todo \in [Update -> Seq(Account)]
    /\ stopped \in [Update -> SUBSET Account]

EntriesBelong == \A c \in Account : instances[c] # NoAdapter => belongs[instances[c]] = c
LiveBelong == \A x \in Adapter : state[x] # "off" => belongs[x] \in Account
StopsKnow ==
    \A s \in stopping : /\ belongs[s[3]] = s[2]
                        /\ s[2] \notin overlapped => instances[s[2]] = s[3]
OverlapsAreKnown ==
    \A s, q \in stopping : s # q /\ s[2] = q[2] => s[2] \in overlapped

ChannelsInv ==
    /\ ChannelTypes /\ EntriesBelong /\ LiveBelong
    /\ StopsKnow /\ OverlapsAreKnown /\ LiveIsRegistered

\* An adapter of an older runtime is one that the restart still has to stop, or is
\* stopping.
Reached(u, x) ==
    \/ \E i \in DOMAIN todo[u] : todo[u][i] = belongs[x]
    \/ <<u, belongs[x], x>> \in stopping
Stale(x) == state[x] = "up" /\ belongs[x] \notin overlapped /\ holds[x] # runtime
RestartInv ==
    /\ \A u \in Update : phase[u] = "restarting" => runtime = new[u]
    /\ \A s \in stopping : s[1] \in Update => phase[s[1]] = "restarting"
    /\ \A s, q \in stopping : s[1] \in Update /\ s[1] = q[1] => s = q
    /\ \A x \in Adapter : Stale(x) => \E u \in Update : phase[u] = "restarting" /\ Reached(u, x)

OneUpdate == \A u, v \in Update : u = v

--------------------------------------------------------------------------------

\* A set of numbers that is not empty has a smallest one.
LEMMA SmallestIs ==
    ASSUME NEW T, T \subseteq Nat, T # {}
    PROVE  \E x \in T : x = (CHOOSE i \in T : \A j \in T : i <= j) /\ \A j \in T : x <= j
<1>1. PICK x \in T : \A y \in T : ~(<<y, x>> \in OpToRel(<, Nat))
  BY NatLessThanWellFounded, WFMin
<1>2. \A y \in T : ~(y < x)
  <2> SUFFICES ASSUME NEW y \in T, y < x PROVE FALSE
    OBVIOUS
  <2> <<y, x>> \in OpToRel(<, Nat)
    BY DEF OpToRel
  <2> QED
    BY <1>1
<1>3. \A y \in T : x <= y
  BY <1>2
<1>4. \A z \in T : (\A y \in T : z <= y) => z = x
  BY <1>3
<1>5. QED
  BY <1>3, <1>4

\* An order of a finite set has each of its elements.
LEMMA OrderHasAll ==
    ASSUME NEW cs \in SUBSET Account, NEW q \in Orders(cs)
    PROVE  /\ q \in Seq(Account)
           /\ \A c \in cs : \E i \in DOMAIN q : q[i] = c
<1>1. IsFiniteSet(cs) /\ Cardinality(cs) \in Nat
  BY AccountsAreFinite, FS_Subset, FS_CardinalityType
<1> DEFINE places == 1 .. Cardinality(cs)
<1>2. q \in [places -> cs] /\ \A i, j \in places : i # j => q[i] # q[j]
  BY DEF Orders
<1>3. q \in Injection(places, cs)
  BY <1>2 DEF Injection, IsInjective
<1>4. Cardinality(places) = Cardinality(cs)
  BY <1>1, FS_Interval
<1>5. q \in Surjection(places, cs)
  <2> HIDE DEF places
  <2> QED
    BY <1>1, <1>3, <1>4, FS_Injection
<1>6. q \in Seq(Account)
  BY <1>1, <1>2
<1>7. \A c \in cs : \E i \in places : q[i] = c
  BY <1>5 DEF Surjection
<1>8. QED
  BY <1>2, <1>6, <1>7

\* What the manager has while it starts channels: the entries less some, the adapters as
\* they are or down; nothing that is up is lost by it.
Shrunk(ins, st) ==
    /\ ins \in [Account -> Adapter \cup {NoAdapter}]
    /\ \A c \in Account : ins[c] = instances[c] \/ ins[c] = NoAdapter
    /\ st \in [Adapter -> {"off", "up", "stuck"}]
    /\ \A x \in Adapter : st[x] # "off" =>
           /\ belongs[x] \in Account
           /\ belongs[x] \notin overlapped => ins[belongs[x]] = x

\* The adapters that are started get an account without an entry; the others stay.
LEMMA StartAllIs ==
    ASSUME ChannelsInv, NEW cs \in SUBSET Account, NEW ins, NEW st, NEW g, Shrunk(ins, st),
           StartAll(cs, ins, st, g)
    PROVE  /\ instances' \in [Account -> Adapter \cup {NoAdapter}]
           /\ state' \in [Adapter -> {"off", "up", "stuck"}]
           /\ belongs' \in [Adapter -> Account \cup {NoAccount}]
           /\ EntriesBelong' /\ LiveBelong'
           /\ \A c \in Account : ins[c] # NoAdapter => instances'[c] = ins[c]
           /\ \A x \in Awaited : belongs'[x] = belongs[x]
           /\ \A x \in Adapter : state'[x] = "up" =>
                  \/ holds'[x] = g
                  \/ st[x] = "up" /\ holds'[x] = holds[x] /\ belongs'[x] = belongs[x]
           /\ \A x \in Adapter : state'[x] # "off" /\ belongs'[x] \notin overlapped =>
                  instances'[belongs'[x]] = x
<1> USE DEF ChannelsInv, ChannelTypes
<1>0. PICK made \in SUBSET {c \in cs : ins[c] = NoAdapter} : \E f \in [made -> Unused] :
          LET makes(c, x) == c \in made /\ f[c] = x
              isMade(x) == \E c \in made : f[c] = x
          IN  /\ \A c, d \in made : c # d => f[c] # f[d]
              /\ instances' = [c \in Account |-> IF c \in made THEN f[c] ELSE ins[c]]
              /\ state' = [x \in Adapter |-> IF isMade(x) THEN "up" ELSE st[x]]
              /\ belongs' = [x \in Adapter |-> IF isMade(x) THEN CHOOSE c \in made : makes(c, x)
                                                            ELSE belongs[x]]
              /\ holds' = [x \in Adapter |-> IF isMade(x) THEN g ELSE holds[x]]
  BY DEF StartAll
<1>1. PICK f \in [made -> Unused] :
          LET makes(c, x) == c \in made /\ f[c] = x
              isMade(x) == \E c \in made : f[c] = x
          IN  /\ \A c, d \in made : c # d => f[c] # f[d]
              /\ instances' = [c \in Account |-> IF c \in made THEN f[c] ELSE ins[c]]
              /\ state' = [x \in Adapter |-> IF isMade(x) THEN "up" ELSE st[x]]
              /\ belongs' = [x \in Adapter |-> IF isMade(x) THEN CHOOSE c \in made : makes(c, x)
                                                            ELSE belongs[x]]
              /\ holds' = [x \in Adapter |-> IF isMade(x) THEN g ELSE holds[x]]
  BY <1>0
<1> DEFINE isMade(x) == \E c \in made : f[c] = x
<1>2. made \in SUBSET Account /\ \A c \in made : ins[c] = NoAdapter
  OBVIOUS
<1>3. \A c \in made : /\ f[c] \in Adapter /\ f[c] \notin Awaited
                      /\ \A d \in Account : instances[d] # f[c]
  BY DEF Unused
<1>4. \A c \in made : belongs'[f[c]] = c
  <2> SUFFICES ASSUME NEW c \in made PROVE belongs'[f[c]] = c
    OBVIOUS
  <2>1. \A d \in made : f[d] = f[c] => d = c
    BY <1>1
  <2>2. f[c] \in Adapter /\ isMade(f[c])
    BY <1>3
  <2>3. belongs'[f[c]] = CHOOSE d \in made : d \in made /\ f[d] = f[c]
    BY <1>1, <2>2
  <2>4. QED
    BY <2>1, <2>3
<1>5. \A x \in Adapter : ~isMade(x) =>
          state'[x] = st[x] /\ belongs'[x] = belongs[x] /\ holds'[x] = holds[x]
  BY <1>1
<1>6. \A x \in Adapter : isMade(x) => state'[x] = "up" /\ holds'[x] = g /\ belongs'[x] \in Account
                                      /\ instances'[belongs'[x]] = x
  BY <1>1, <1>2, <1>4
<1>7. \A c \in Account : instances'[c] = IF c \in made THEN f[c] ELSE ins[c]
  BY <1>1
<1>8. instances' \in [Account -> Adapter \cup {NoAdapter}]
  BY <1>1, <1>3 DEF Shrunk
<1>9. state' \in [Adapter -> {"off", "up", "stuck"}]
  BY <1>1 DEF Shrunk
<1>10. belongs' \in [Adapter -> Account \cup {NoAccount}]
  <2>1. DOMAIN belongs' = Adapter /\ belongs' = [x \in Adapter |-> belongs'[x]]
    BY <1>1
  <2>2. \A x \in Adapter : belongs'[x] \in Account \cup {NoAccount}
    BY <1>5, <1>6
  <2>3. QED
    BY <2>1, <2>2
<1>11. EntriesBelong'
  <2> SUFFICES ASSUME NEW c \in Account, instances'[c] # NoAdapter
               PROVE  belongs'[instances'[c]] = c
    BY DEF EntriesBelong
  <2>1. CASE c \in made
    BY <1>4, <1>7, <2>1
  <2>2. CASE c \notin made
    <3>1. instances'[c] = ins[c] /\ ins[c] = instances[c] /\ ins[c] \in Adapter
      BY <1>7, <2>2 DEF Shrunk
    <3>2. ~isMade(ins[c])
      BY <1>3, <3>1
    <3>3. QED
      BY <1>5, <3>1, <3>2 DEF EntriesBelong
  <2>3. QED
    BY <2>1, <2>2
<1>12. \A c \in Account : ins[c] # NoAdapter => instances'[c] = ins[c]
  BY <1>2, <1>7
<1>13. \A x \in Awaited : belongs'[x] = belongs[x]
  BY <1>3, <1>5 DEF Awaited
<1>14. \A x \in Adapter : state'[x] # "off" /\ belongs'[x] \notin overlapped =>
           instances'[belongs'[x]] = x
  <2> SUFFICES ASSUME NEW x \in Adapter, state'[x] # "off", belongs'[x] \notin overlapped, ~isMade(x)
               PROVE  instances'[belongs'[x]] = x
    BY <1>6
  <2>1. st[x] # "off" /\ belongs'[x] = belongs[x] /\ ins[belongs[x]] = x
    BY <1>5 DEF Shrunk
  <2>2. QED
    BY <1>12, <2>1, NoneIsNone DEF Shrunk
<1>15. LiveBelong'
  BY <1>5, <1>6 DEF LiveBelong, Shrunk
<1>16. QED
  BY <1>15, <1>5, <1>6, <1>8, <1>9, <1>10, <1>11, <1>12, <1>13, <1>14

\* Overlaps are noted when stops begin and when they end.
LEMMA StoppingIs ==
    ASSUME NEW ss \in SUBSET (Actor \X Account \X Adapter), Stopping(ss)
    PROVE  /\ stopping' = ss /\ OverlapsAreKnown'
           /\ overlapped \subseteq overlapped'
           /\ \A s, q \in ss : s # q /\ s[2] = q[2] => s[2] \in overlapped'
<1>1. /\ stopping' = ss
      /\ overlapped' = overlapped \cup
             {c \in Account : \E s, q \in ss : s # q /\ s[2] = c /\ q[2] = c}
  BY DEF Stopping
<1>2. \A s \in ss : s[2] \in Account
  OBVIOUS
<1>3. \A s, q \in ss : s # q /\ s[2] = q[2] => s[2] \in overlapped'
  BY <1>1, <1>2
<1>4. QED
  BY <1>1, <1>3 DEF OverlapsAreKnown

--------------------------------------------------------------------------------
(* restart_all: it stops the next account of q that has an adapter, or starts. *)

Live(q, ins) == {i \in DOMAIN q : ins[q[i]] # NoAdapter}
NextToStop(q, ins) == CHOOSE i \in Live(q, ins) : \A j \in Live(q, ins) : i <= j
Awaits(u, q, ins) == <<u, q[NextToStop(q, ins)], ins[q[NextToStop(q, ins)]]>>
QueueIsKept(u, q, ins) ==
    \A i \in Live(q, ins) : \/ <<u, q[i], ins[q[i]]>> \in stopping'
                            \/ \E j \in DOMAIN todo'[u] : todo'[u][j] = q[i]
OthersKnown(u, ins) ==
    \A s \in stopping \ Own(u) : s[2] \notin overlapped => ins[s[2]] = s[3]

\* It waits for the first adapter of the queue, and keeps the rest of it.
LEMMA RestartStops ==
    ASSUME ChannelsInv, NEW u \in Update, NEW q \in Seq(Account), NEW done \in SUBSET Account,
           NEW ins, NEW st, Shrunk(ins, st), OthersKnown(u, ins), new' = new,
           RestartGoesOn(u, q, done, ins, st), Live(q, ins) # {}
    PROVE  /\ ChannelsInv'
           /\ overlapped \subseteq overlapped'
           /\ phase' = [phase EXCEPT ![u] = "restarting"]
           /\ state' = st /\ holds' = holds /\ belongs' = belongs
           /\ stopping' = (stopping \ Own(u)) \cup {Awaits(u, q, ins)}
           /\ QueueIsKept(u, q, ins)
<1> USE DEF ChannelsInv, ChannelTypes
<1> DEFINE n == NextToStop(q, ins)
           skipped == {q[i] : i \in {j \in DOMAIN q : \A i \in Live(q, ins) : j < i}}
           new1 == Awaits(u, q, ins)
           ss == (stopping \ Own(u)) \cup {new1}
<1>1. /\ Stopping(ss)
      /\ todo' = [todo EXCEPT ![u] = SubSeq(q, n + 1, Len(q))]
      /\ stopped' = [stopped EXCEPT ![u] = done \cup skipped]
      /\ instances' = ins /\ state' = st
      /\ phase' = [phase EXCEPT ![u] = "restarting"]
      /\ belongs' = belongs /\ holds' = holds
  BY DEF RestartGoesOn, Live, NextToStop, Awaits
<1>2. DOMAIN q = 1 .. Len(q) /\ Len(q) \in Nat
  OBVIOUS
<1>3. n \in Live(q, ins) /\ \A i \in Live(q, ins) : n <= i
  <2>1. Live(q, ins) \subseteq Nat
    BY <1>2 DEF Live
  <2>2. QED
    BY <2>1, SmallestIs DEF NextToStop
<1>4. n \in DOMAIN q /\ n \in Nat /\ q[n] \in Account /\ ins[q[n]] # NoAdapter
  BY <1>2, <1>3 DEF Live
<1>5. ins[q[n]] = instances[q[n]] /\ ins[q[n]] \in Adapter
  BY <1>4 DEF Shrunk
<1>6. ss \in SUBSET (Actor \X Account \X Adapter)
  <2>1. new1 \in Actor \X Account \X Adapter
    BY <1>4, <1>5 DEF Actor, Awaits
  <2>2. QED
    BY <2>1
<1>7. skipped \in SUBSET Account
  BY <1>2
<1>8. SubSeq(q, n + 1, Len(q)) \in Seq(Account)
  BY <1>2, <1>4
<1>9. /\ stopping' = ss /\ OverlapsAreKnown' /\ overlapped \subseteq overlapped'
  <2> HIDE DEF ss
  <2> QED
    BY <1>1, <1>6, StoppingIs
<1>10. ChannelTypes'
  <2> HIDE DEF skipped, n, ss
  <2>1. todo' \in [Update -> Seq(Account)]
    BY <1>1, <1>8
  <2>2. stopped' \in [Update -> SUBSET Account]
    BY <1>1, <1>7
  <2>3. phase' \in [Update -> Phase]
    BY <1>1 DEF Phase
  <2>4. /\ instances' \in [Account -> Adapter \cup {NoAdapter}]
        /\ state' \in [Adapter -> {"off", "up", "stuck"}]
        /\ belongs' \in [Adapter -> Account \cup {NoAccount}]
    BY <1>1 DEF Shrunk
  <2>5. QED
    BY <1>6, <1>9, <2>1, <2>2, <2>3, <2>4
<1>11. EntriesBelong'
  BY <1>1 DEF EntriesBelong, Shrunk
<1>12. LiveBelong'
  BY <1>1 DEF LiveBelong, Shrunk
<1>13. StopsKnow'
  <2> SUFFICES ASSUME NEW s \in ss
               PROVE  /\ belongs[s[3]] = s[2]
                      /\ s[2] \notin overlapped' => ins[s[2]] = s[3]
    BY <1>1, <1>9 DEF StopsKnow
  <2>1. CASE s \in stopping \ Own(u)
    BY <1>9, <2>1 DEF OthersKnown, StopsKnow
  <2>2. CASE s = new1
    BY <1>4, <1>5, <2>2 DEF EntriesBelong, Awaits
  <2>3. QED
    BY <2>1, <2>2
<1>14. LiveIsRegistered'
  BY <1>1, <1>9 DEF LiveIsRegistered, Shrunk
<1>15. QueueIsKept(u, q, ins)
  <2> SUFFICES ASSUME NEW i \in Live(q, ins), i # n
               PROVE  \E j \in DOMAIN todo'[u] : todo'[u][j] = q[i]
    BY <1>9 DEF Awaits, QueueIsKept
  <2>1. i \in 1 .. Len(q) /\ n < i
    BY <1>2, <1>3, <1>4 DEF Live
  <2> DEFINE rest == SubSeq(q, n + 1, Len(q))
  <2>2. todo'[u] = rest
    BY <1>1
  <2>3. Len(rest) = Len(q) - n /\ i - n \in 1 .. Len(rest) /\ DOMAIN rest = 1 .. Len(rest)
    BY <1>2, <1>4, <2>1
  <2>4. rest[i - n] = q[i]
    BY <1>2, <1>4, <2>1, SMTT(30)
  <2>5. QED
    BY <2>2, <2>3, <2>4
<1>16. QED
  BY <1>1, <1>9, <1>10, <1>11, <1>12, <1>13, <1>14, <1>15

\* No adapter is left: what was stopped is started with the new runtime.
LEMMA RestartStarts ==
    ASSUME ChannelsInv, NEW u \in Update, NEW q \in Seq(Account), NEW done \in SUBSET Account,
           NEW ins, NEW st, Shrunk(ins, st), OthersKnown(u, ins), new' = new,
           RestartGoesOn(u, q, done, ins, st), Live(q, ins) = {}
    PROVE  /\ ChannelsInv'
           /\ overlapped \subseteq overlapped'
           /\ phase' = [phase EXCEPT ![u] = "closing"]
           /\ stopping' = stopping \ Own(u)
           /\ \A x \in Adapter : state'[x] = "up" =>
                  \/ holds'[x] = new[u]
                  \/ st[x] = "up" /\ holds'[x] = holds[x] /\ belongs'[x] = belongs[x]
<1> USE DEF ChannelsInv, ChannelTypes
<1> DEFINE skipped == {q[i] : i \in {j \in DOMAIN q : \A i \in Live(q, ins) : j < i}}
           cs == done \cup skipped
           ss == stopping \ Own(u)
<1>1. /\ StartAll(cs, ins, st, new[u])
      /\ Stopping(ss)
      /\ todo' = [todo EXCEPT ![u] = <<>>]
      /\ stopped' = [stopped EXCEPT ![u] = {}]
      /\ phase' = [phase EXCEPT ![u] = "closing"]
  BY DEF RestartGoesOn, Live
<1>2. cs \in SUBSET Account
  OBVIOUS
<1>3. ss \in SUBSET (Actor \X Account \X Adapter)
  OBVIOUS
<1>4. /\ stopping' = ss /\ OverlapsAreKnown' /\ overlapped \subseteq overlapped'
  BY <1>1, <1>3, StoppingIs
<1>5. /\ instances' \in [Account -> Adapter \cup {NoAdapter}]
      /\ state' \in [Adapter -> {"off", "up", "stuck"}]
      /\ belongs' \in [Adapter -> Account \cup {NoAccount}]
      /\ EntriesBelong' /\ LiveBelong'
      /\ \A c \in Account : ins[c] # NoAdapter => instances'[c] = ins[c]
      /\ \A x \in Awaited : belongs'[x] = belongs[x]
      /\ \A x \in Adapter : state'[x] = "up" =>
             \/ holds'[x] = new[u]
             \/ st[x] = "up" /\ holds'[x] = holds[x] /\ belongs'[x] = belongs[x]
      /\ \A x \in Adapter : state'[x] # "off" /\ belongs'[x] \notin overlapped =>
             instances'[belongs'[x]] = x
  <2> HIDE DEF cs
  <2> QED
    BY <1>1, <1>2, StartAllIs
<1>6. ChannelTypes'
  <2>1. todo' \in [Update -> Seq(Account)] /\ stopped' \in [Update -> SUBSET Account]
    BY <1>1
  <2>2. phase' \in [Update -> Phase]
    BY <1>1 DEF Phase
  <2>3. QED
    BY <1>3, <1>4, <1>5, <2>1, <2>2
<1>7. StopsKnow'
  <2> SUFFICES ASSUME NEW s \in ss
               PROVE  /\ belongs'[s[3]] = s[2]
                      /\ s[2] \notin overlapped' => instances'[s[2]] = s[3]
    BY <1>4 DEF StopsKnow
  <2>1. belongs'[s[3]] = s[2]
    BY <1>5 DEF StopsKnow, Awaited
  <2>2. ASSUME s[2] \notin overlapped' PROVE instances'[s[2]] = s[3]
    <3>1. ins[s[2]] = s[3] /\ s[2] \in Account /\ s[3] \in Adapter
      BY <1>3, <1>4, <2>2 DEF OthersKnown
    <3>2. QED
      BY <1>5, <3>1, NoneIsNone
  <2>3. QED
    BY <2>1, <2>2
<1>8. LiveIsRegistered'
  BY <1>4, <1>5 DEF LiveIsRegistered
<1>9. QED
  BY <1>1, <1>4, <1>5, <1>6, <1>7, <1>8

\* With one update at a time, restart_all gets to each adapter of an older runtime, if
\* its queue has their accounts.
LEMMA RestartReaches ==
    ASSUME OneUpdate,
           ChannelsInv, NEW u \in Update, NEW q \in Seq(Account), NEW done \in SUBSET Account,
           NEW ins, NEW st, Shrunk(ins, st), OthersKnown(u, ins), new' = new,
           RestartGoesOn(u, q, done, ins, st), runtime' = new[u],
           \A x \in Adapter : st[x] = "up" /\ belongs[x] \notin overlapped /\ holds[x] # new[u] =>
               \E i \in DOMAIN q : q[i] = belongs[x]
    PROVE  RestartInv'
<1> USE DEF ChannelsInv, ChannelTypes
<1>1. \A v \in Update : v = u
  BY DEF OneUpdate
<1>2. \A s \in stopping \ Own(u) : s[1] \notin Update
  BY <1>1 DEF Own
<1>3. \A x \in Adapter : st[x] = "up" /\ belongs[x] \notin overlapped /\ holds[x] # new[u] =>
          \E i \in Live(q, ins) : q[i] = belongs[x] /\ ins[q[i]] = x
  <2> SUFFICES ASSUME NEW x \in Adapter, st[x] = "up", belongs[x] \notin overlapped, holds[x] # new[u]
               PROVE  \E i \in Live(q, ins) : q[i] = belongs[x] /\ ins[q[i]] = x
    OBVIOUS
  <2>1. PICK i \in DOMAIN q : q[i] = belongs[x]
    OBVIOUS
  <2>2. ins[belongs[x]] = x
    BY DEF Shrunk
  <2>3. QED
    BY <2>1, <2>2, NoneIsNone DEF Live
<1>4. CASE Live(q, ins) # {}
  <2>1. /\ overlapped \subseteq overlapped'
        /\ phase' = [phase EXCEPT ![u] = "restarting"]
        /\ state' = st /\ holds' = holds /\ belongs' = belongs
        /\ stopping' = (stopping \ Own(u)) \cup {Awaits(u, q, ins)}
        /\ QueueIsKept(u, q, ins)
    <3> HIDE DEF ChannelsInv, ChannelTypes
    <3> QED
      BY <1>4, RestartStops
  <2>3. phase'[u] = "restarting"
    BY <2>1
  <2>4. \A v \in Update : phase'[v] = "restarting" => runtime' = new'[v]
    BY <1>1
  <2>5. \A s \in stopping' : s[1] \in Update => phase'[s[1]] = "restarting"
    BY <1>1, <2>3
  <2>6. \A s, r \in stopping' : s[1] \in Update /\ s[1] = r[1] => s = r
    <3> SUFFICES ASSUME NEW s \in stopping', NEW r \in stopping', s[1] \in Update, s[1] = r[1]
                 PROVE  s = r
      OBVIOUS
    <3>1. s = Awaits(u, q, ins) /\ r = Awaits(u, q, ins)
      BY <1>2, <2>1
    <3>2. QED
      BY <3>1
  <2>7. \A x \in Adapter : Stale(x)' =>
            \E v \in Update : phase'[v] = "restarting" /\ Reached(v, x)'
    <3> SUFFICES ASSUME NEW x \in Adapter, Stale(x)'
                 PROVE  Reached(u, x)'
      BY <2>3
    <3>1. st[x] = "up" /\ belongs[x] \notin overlapped /\ holds[x] # new[u]
      BY <2>1 DEF Stale
    <3>2. PICK i \in Live(q, ins) : q[i] = belongs[x] /\ ins[q[i]] = x
      BY <1>3, <3>1
    <3>3. \/ <<u, belongs[x], x>> \in stopping'
          \/ \E j \in DOMAIN todo'[u] : todo'[u][j] = belongs[x]
      BY <2>1, <3>2, ZenonT(60) DEF QueueIsKept
    <3>4. QED
      BY <2>1, <3>3 DEF Reached
  <2>8. QED
    BY <2>4, <2>5, <2>6, <2>7 DEF RestartInv
<1>5. CASE Live(q, ins) = {}
  <2>1. /\ overlapped \subseteq overlapped'
        /\ phase' = [phase EXCEPT ![u] = "closing"]
        /\ stopping' = stopping \ Own(u)
        /\ \A x \in Adapter : state'[x] = "up" =>
               \/ holds'[x] = new[u]
               \/ st[x] = "up" /\ holds'[x] = holds[x] /\ belongs'[x] = belongs[x]
    <3> HIDE DEF ChannelsInv, ChannelTypes
    <3> QED
      BY <1>5, RestartStarts, ZenonT(60)
  <2>2. \A v \in Update : phase'[v] = "closing"
    BY <1>1, <2>1
  <2>3. \A x \in Adapter : ~ Stale(x)'
    BY <1>3, <1>5, <2>1 DEF Stale
  <2>4. \A s \in stopping' : s[1] \notin Update
    BY <1>2, <2>1
  <2>5. QED
    BY <2>2, <2>3, <2>4 DEF RestartInv
<1>6. QED
  BY <1>4, <1>5

\* A step of restart_all keeps the channels, and gets on with the adapters of the old one.
LEMMA SwapAndRestartKeeps ==
    ASSUME ChannelsInv, NEW u \in Update, SwapAndRestart(u)
    PROVE  ChannelsInv' /\ (OneUpdate => RestartInv')
<1> USE DEF ChannelsInv, ChannelTypes
<1>1. PICK q \in Orders(Running) : RestartGoesOn(u, q, {}, instances, state)
  BY DEF SwapAndRestart
<1>2. runtime' = new[u] /\ new' = new
  BY DEF SwapAndRestart
<1>3. Running \in SUBSET Account
  BY DEF Running
<1>4. q \in Seq(Account) /\ \A c \in Running : \E i \in DOMAIN q : q[i] = c
  BY <1>3, OrderHasAll
<1>5. Shrunk(instances, state)
  BY DEF Shrunk, LiveBelong, LiveIsRegistered
<1>6. OthersKnown(u, instances)
  BY DEF OthersKnown, StopsKnow
<1>7. ChannelsInv'
  <2>1. CASE Live(q, instances) # {}
    BY <1>1, <1>2, <1>4, <1>5, <1>6, <2>1, RestartStops
  <2>2. CASE Live(q, instances) = {}
    BY <1>1, <1>2, <1>4, <1>5, <1>6, <2>2, RestartStarts
  <2>3. QED
    BY <2>1, <2>2
<1>8. \A x \in Adapter : state[x] = "up" /\ belongs[x] \notin overlapped /\ holds[x] # new[u] =>
          \E i \in DOMAIN q : q[i] = belongs[x]
  <2> SUFFICES ASSUME NEW x \in Adapter, state[x] = "up", belongs[x] \notin overlapped
               PROVE  \E i \in DOMAIN q : q[i] = belongs[x]
    OBVIOUS
  <2>1. belongs[x] \in Account /\ instances[belongs[x]] = x
    BY DEF LiveBelong, LiveIsRegistered
  <2>2. QED
    BY <1>4, <2>1, NoneIsNone DEF Running
<1>9. ASSUME OneUpdate PROVE RestartInv'
  BY <1>1, <1>2, <1>4, <1>5, <1>6, <1>8, <1>9, RestartReaches, ZenonT(60)
<1>10. QED
  BY <1>7, <1>9

\* What an update waits for is its own.
LEMMA OwnIs ==
    ASSUME ChannelsInv, NEW u \in Update, NEW s \in Own(u)
    PROVE  /\ s \in stopping /\ s[1] = u /\ s[2] \in Account /\ s[3] \in Adapter
           /\ s = <<u, s[2], s[3]>>
           /\ belongs[s[3]] = s[2]
           /\ \A r \in stopping \ Own(u) : r[2] = s[2] => s[2] \in overlapped
           /\ RestartInv => Own(u) = {s} /\ runtime = new[u]
<1>1. s \in stopping /\ s[1] = u /\ s \in Actor \X Account \X Adapter
  BY DEF Own, ChannelsInv, ChannelTypes
<1>2. belongs[s[3]] = s[2]
  BY <1>1 DEF ChannelsInv, StopsKnow
<1>3. \A r \in stopping \ Own(u) : r[2] = s[2] => s[2] \in overlapped
  BY <1>1 DEF ChannelsInv, OverlapsAreKnown
<1>4. RestartInv => Own(u) = {s} /\ runtime = new[u]
  BY <1>1 DEF RestartInv, Own
<1>5. QED
  BY <1>1, <1>2, <1>3, <1>4

\* Where restart_all goes on after a stop, whether it returned or raised.
LEMMA RestartGoesOnKeeps ==
    ASSUME ChannelsInv, NEW u \in Update, NEW s \in Own(u), NEW done \in SUBSET Account,
           NEW ins, NEW st, Shrunk(ins, st), OthersKnown(u, ins), new' = new, runtime' = runtime,
           \A x \in Adapter : st[x] = "up" => state[x] = "up" /\ x # s[3],
           RestartGoesOn(u, todo[u], done, ins, st)
    PROVE  ChannelsInv' /\ (OneUpdate /\ RestartInv => RestartInv')
<1>1. todo[u] \in Seq(Account)
  BY DEF ChannelsInv, ChannelTypes
<1>2. ChannelsInv'
  <2>1. CASE Live(todo[u], ins) # {}
    BY <1>1, <2>1, RestartStops
  <2>2. CASE Live(todo[u], ins) = {}
    BY <1>1, <2>2, RestartStarts
  <2>3. QED
    BY <2>1, <2>2
<1>3. ASSUME OneUpdate, RestartInv PROVE RestartInv'
  <2>1. Own(u) = {s} /\ runtime = new[u]
    BY <1>3, OwnIs
  <2>2. \A x \in Adapter : st[x] = "up" /\ belongs[x] \notin overlapped /\ holds[x] # new[u] =>
            \E i \in DOMAIN todo[u] : todo[u][i] = belongs[x]
    <3> SUFFICES ASSUME NEW x \in Adapter, st[x] = "up", belongs[x] \notin overlapped, holds[x] # new[u]
                 PROVE  \E i \in DOMAIN todo[u] : todo[u][i] = belongs[x]
      OBVIOUS
    <3>1. Stale(x) /\ x # s[3]
      BY <2>1 DEF Stale
    <3>2. Reached(u, x)
      BY <1>3, <3>1 DEF RestartInv, OneUpdate
    <3>3. <<u, belongs[x], x>> \notin stopping
      <4>1. <<u, belongs[x], x>> \in stopping => <<u, belongs[x], x>> \in Own(u)
        BY DEF Own
      <4>2. QED
        BY <2>1, <3>1, <4>1
    <3>4. QED
      BY <3>2, <3>3 DEF Reached
  <2>3. runtime' = new[u]
    BY <2>1
  <2>4. QED
    BY <1>1, <1>3, <2>2, <2>3, RestartReaches
<1>4. QED
  BY <1>2, <1>3

LEMMA RestartStopReturnsKeeps ==
    ASSUME ChannelsInv, NEW u \in Update, NEW s, RestartStopReturns(u, s)
    PROVE  ChannelsInv' /\ (OneUpdate /\ RestartInv => RestartInv')
<1> DEFINE ins == [instances EXCEPT ![s[2]] = NoAdapter]
           st == [state EXCEPT ![s[3]] = "off"]
           done == stopped[u] \cup {s[2]}
<1>1. /\ s \in Own(u) /\ RestartGoesOn(u, todo[u], done, ins, st)
      /\ new' = new /\ runtime' = runtime
  BY DEF RestartStopReturns
<1>2. /\ s \in stopping /\ s[1] = u /\ s[2] \in Account /\ s[3] \in Adapter
      /\ belongs[s[3]] = s[2]
      /\ \A r \in stopping \ Own(u) : r[2] = s[2] => s[2] \in overlapped
  BY <1>1, OwnIs
<1>3. done \in SUBSET Account
  BY <1>2 DEF ChannelsInv, ChannelTypes
<1>4. Shrunk(ins, st)
  <2>1. /\ ins \in [Account -> Adapter \cup {NoAdapter}]
        /\ \A c \in Account : ins[c] = instances[c] \/ ins[c] = NoAdapter
        /\ st \in [Adapter -> {"off", "up", "stuck"}]
    BY DEF ChannelsInv, ChannelTypes
  <2>2. ASSUME NEW x \in Adapter, st[x] # "off"
        PROVE  belongs[x] \in Account /\ (belongs[x] \notin overlapped => ins[belongs[x]] = x)
    <3>1. x # s[3] /\ state[x] # "off"
      BY <1>2, <2>2 DEF ChannelsInv, ChannelTypes
    <3>2. belongs[x] \in Account /\ (belongs[x] \notin overlapped => instances[belongs[x]] = x)
      BY <3>1 DEF ChannelsInv, LiveBelong, LiveIsRegistered
    <3>3. belongs[x] \notin overlapped => belongs[x] # s[2]
      BY <1>2, <3>1, <3>2 DEF ChannelsInv, StopsKnow
    <3>4. QED
      BY <3>2, <3>3 DEF ChannelsInv, ChannelTypes
  <2>3. QED
    BY <2>1, <2>2 DEF Shrunk
<1>5. OthersKnown(u, ins)
  <2> SUFFICES ASSUME NEW r \in stopping \ Own(u), r[2] \notin overlapped
               PROVE  ins[r[2]] = r[3]
    BY DEF OthersKnown
  <2>1. r[2] # s[2] /\ r[2] \in Account
    BY <1>2 DEF ChannelsInv, ChannelTypes
  <2>2. instances[r[2]] = r[3]
    BY DEF ChannelsInv, StopsKnow
  <2>3. QED
    BY <2>1, <2>2 DEF ChannelsInv, ChannelTypes
<1>6. \A x \in Adapter : st[x] = "up" => state[x] = "up" /\ x # s[3]
  BY <1>2 DEF ChannelsInv, ChannelTypes
<1>7. QED
  <2> HIDE DEF ins, st, done
  <2> QED
    BY <1>1, <1>3, <1>4, <1>5, <1>6, RestartGoesOnKeeps

LEMMA RestartStopRaisesKeeps ==
    ASSUME ChannelsInv, NEW u \in Update, NEW s, RestartStopRaises(u, s)
    PROVE  ChannelsInv' /\ (OneUpdate /\ RestartInv => RestartInv')
<1> DEFINE st == Stuck(s[3])
<1>1. /\ s \in Own(u) /\ RestartGoesOn(u, todo[u], stopped[u], instances, st)
      /\ new' = new /\ runtime' = runtime
  BY DEF RestartStopRaises
<1>2. s[3] \in Adapter
  BY <1>1, OwnIs
<1>3. stopped[u] \in SUBSET Account
  BY DEF ChannelsInv, ChannelTypes
<1>4. /\ st \in [Adapter -> {"off", "up", "stuck"}]
      /\ \A x \in Adapter : st[x] # "off" => state[x] # "off"
      /\ \A x \in Adapter : st[x] = "up" => state[x] = "up" /\ x # s[3]
  BY <1>2 DEF ChannelsInv, ChannelTypes, Stuck
<1> HIDE DEF st
<1>5. Shrunk(instances, st)
  BY <1>4 DEF Shrunk, ChannelsInv, ChannelTypes, LiveBelong, LiveIsRegistered
<1>6. OthersKnown(u, instances)
  BY DEF OthersKnown, ChannelsInv, StopsKnow
<1>7. QED
  BY <1>1, <1>3, <1>4, <1>5, <1>6, RestartGoesOnKeeps

--------------------------------------------------------------------------------
(* The other steps. *)

ChannelsKept == ChannelsInv' /\ (RestartInv => RestartInv')

\* What the restarts rest on is kept by what leaves them alone.
LEMMA RestartUntouched ==
    ASSUME RestartInv, ChannelsInv,
           runtime' = runtime, overlapped \subseteq overlapped', todo' = todo,
           \A u \in Update : phase'[u] = "restarting" <=> phase[u] = "restarting",
           \A u \in Update : phase[u] = "restarting" => new'[u] = new[u],
           \A s \in stopping' : s[1] \in Update => s \in stopping,
           \A s \in stopping : s[1] \in Update => s \in stopping',
           \A x \in Adapter : Stale(x)' => Stale(x) /\ belongs'[x] = belongs[x]
    PROVE  RestartInv'
<1>1. \A u \in Update : phase'[u] = "restarting" => runtime' = new'[u]
  BY DEF RestartInv
<1>2. \A s \in stopping' : s[1] \in Update => phase'[s[1]] = "restarting"
  BY DEF RestartInv
<1>3. \A s, q \in stopping' : s[1] \in Update /\ s[1] = q[1] => s = q
  BY DEF RestartInv
<1>4. \A x \in Adapter : Stale(x)' =>
          \E u \in Update : phase'[u] = "restarting" /\ Reached(u, x)'
  <2> SUFFICES ASSUME NEW x \in Adapter, Stale(x)'
               PROVE  \E u \in Update : phase'[u] = "restarting" /\ Reached(u, x)'
    OBVIOUS
  <2>1. Stale(x) /\ belongs'[x] = belongs[x]
    OBVIOUS
  <2>2. PICK u \in Update : phase[u] = "restarting" /\ Reached(u, x)
    BY <2>1 DEF RestartInv
  <2>3. CASE \E i \in DOMAIN todo[u] : todo[u][i] = belongs[x]
    BY <2>1, <2>2, <2>3 DEF Reached
  <2>4. CASE <<u, belongs[x], x>> \in stopping
    <3>1. <<u, belongs[x], x>>[1] \in Update
      OBVIOUS
    <3>2. <<u, belongs[x], x>> \in stopping'
      BY <2>4, <3>1
    <3>3. QED
      BY <2>1, <2>2, <3>2 DEF Reached
  <2>5. QED
    BY <2>2, <2>3, <2>4 DEF Reached
<1>5. QED
  BY <1>1, <1>2, <1>3, <1>4 DEF RestartInv

\* The guard, with the channels untouched.
LEMMA GuardKeepsChannels ==
    ASSUME ChannelsInv, UNCHANGED <<channelVars, restartVars>>,
           phase' \in [Update -> Phase], DOMAIN new' = Update, runtime' = runtime,
           \A u \in Update : phase'[u] = "restarting" <=> phase[u] = "restarting",
           \A u \in Update : phase[u] = "restarting" => new'[u] = new[u]
    PROVE  ChannelsKept
<1>1. ChannelsInv'
  BY DEF channelVars, restartVars, ChannelsInv, ChannelTypes, EntriesBelong, LiveBelong,
         StopsKnow, OverlapsAreKnown, LiveIsRegistered
<1>2. \A x \in Adapter : Stale(x)' => Stale(x) /\ belongs'[x] = belongs[x]
  BY DEF Stale, channelVars
<1>3. RestartInv => RestartInv'
  BY <1>2, RestartUntouched DEF channelVars, restartVars
<1>4. QED
  BY <1>1, <1>3 DEF ChannelsKept

LEMMA GuardStepKeeps == ChannelsInv /\ GuardStep => ChannelsKept
<1> SUFFICES ASSUME ChannelsInv, GuardStep PROVE ChannelsKept
  OBVIOUS
<1>1. UNCHANGED <<channelVars, restartVars>>
  BY DEF GuardStep
<1>2. phase \in [Update -> Phase] /\ DOMAIN new = Update
  BY DEF ChannelsInv, ChannelTypes
<1>3. CASE UNCHANGED <<runtime, phase, new>>
  BY <1>1, <1>2, <1>3, GuardKeepsChannels
<1>4. CASE \E u \in Update : UpdateStart(u)
  <2>1. PICK u \in Update : UpdateStart(u)
    BY <1>4
  <2>2. /\ phase[u] = "idle" /\ runtime' = runtime
        /\ phase' = [phase EXCEPT ![u] = "building"]
        /\ new' = [new EXCEPT ![u] = built + 1]
    BY <2>1 DEF UpdateStart
  <2>3. QED
    BY <1>1, <1>2, <2>2, GuardKeepsChannels DEF Phase
<1>5. CASE \E u \in Update : UpdateReject(u) \/ UpdateStopsScheduler(u) \/ UpdateClosesClient(u)
  <2>1. PICK u \in Update : UpdateReject(u) \/ UpdateStopsScheduler(u) \/ UpdateClosesClient(u)
    BY <1>5
  <2>2. /\ phase[u] # "restarting" /\ runtime' = runtime /\ new' = new
        /\ \E f \in {"rejecting", "discarding", "draining", "idle"} : phase' = [phase EXCEPT ![u] = f]
    BY <2>1 DEF UpdateReject, UpdateStopsScheduler, UpdateClosesClient
  <2>3. PICK f \in {"rejecting", "discarding", "draining", "idle"} : phase' = [phase EXCEPT ![u] = f]
    BY <2>2
  <2>4. QED
    BY <1>1, <1>2, <2>2, <2>3, GuardKeepsChannels DEF Phase
<1>6. QED
  BY <1>3, <1>4, <1>5
     DEF GuardStep, Enter, CronEnter, EnterGuard, Leave, LeaveGuard, RecoveryDone

LEMMA ChannelsStartKeeps ==
    ASSUME ChannelsInv, NEW c \in Account, ChannelsStart(c)
    PROVE  ChannelsKept
<1>1. /\ StartAll({c}, instances, state, runtime)
      /\ UNCHANGED <<guardVars, stopping, overlapped, restartVars>>
  BY DEF ChannelsStart
<1>2. Shrunk(instances, state)
  BY DEF Shrunk, ChannelsInv, ChannelTypes, LiveBelong, LiveIsRegistered
<1>3. /\ instances' \in [Account -> Adapter \cup {NoAdapter}]
      /\ state' \in [Adapter -> {"off", "up", "stuck"}]
      /\ belongs' \in [Adapter -> Account \cup {NoAccount}]
      /\ EntriesBelong' /\ LiveBelong'
      /\ \A d \in Account : instances[d] # NoAdapter => instances'[d] = instances[d]
      /\ \A x \in Awaited : belongs'[x] = belongs[x]
      /\ \A x \in Adapter : state'[x] = "up" =>
             \/ holds'[x] = runtime
             \/ state[x] = "up" /\ holds'[x] = holds[x] /\ belongs'[x] = belongs[x]
      /\ \A x \in Adapter : state'[x] # "off" /\ belongs'[x] \notin overlapped =>
             instances'[belongs'[x]] = x
  BY <1>1, <1>2, StartAllIs
<1>4. ChannelTypes'
  BY <1>1, <1>3 DEF ChannelsInv, ChannelTypes, guardVars, restartVars
<1>5. StopsKnow'
  <2> SUFFICES ASSUME NEW s \in stopping
               PROVE  /\ belongs'[s[3]] = s[2]
                      /\ s[2] \notin overlapped => instances'[s[2]] = s[3]
    BY <1>1 DEF StopsKnow
  <2>1. /\ s[2] \in Account /\ s[3] \in Adapter /\ belongs[s[3]] = s[2]
        /\ s[2] \notin overlapped => instances[s[2]] = s[3]
    BY DEF ChannelsInv, ChannelTypes, StopsKnow
  <2>2. QED
    BY <1>3, <2>1, NoneIsNone DEF Awaited
<1>6. OverlapsAreKnown' /\ LiveIsRegistered'
  BY <1>1, <1>3 DEF ChannelsInv, OverlapsAreKnown, LiveIsRegistered
<1>7. \A x \in Adapter : Stale(x)' => Stale(x) /\ belongs'[x] = belongs[x]
  BY <1>1, <1>3 DEF Stale, guardVars
<1>8. RestartInv => RestartInv'
  BY <1>1, <1>7, RestartUntouched DEF guardVars, restartVars
<1>9. QED
  BY <1>3, <1>4, <1>5, <1>6, <1>8 DEF ChannelsKept, ChannelsInv

\* More stops, of adapters that are registered, by somebody who is no update.
LEMMA MoreStopsKeep ==
    ASSUME ChannelsInv, NEW ss \in SUBSET (Actor \X Account \X Adapter), Stopping(ss),
           stopping \subseteq ss,
           \A s \in ss \ stopping : s[1] \notin Update /\ instances[s[2]] = s[3],
           UNCHANGED <<instances, state, belongs, holds, restartVars, runtime, phase, new>>
    PROVE  ChannelsKept
<1>1. /\ stopping' = ss /\ OverlapsAreKnown'
      /\ overlapped \subseteq overlapped'
  BY StoppingIs
<1>2. ChannelTypes'
  BY <1>1 DEF ChannelsInv, ChannelTypes, restartVars
<1>3. EntriesBelong' /\ LiveBelong' /\ LiveIsRegistered'
  BY <1>1 DEF ChannelsInv, EntriesBelong, LiveBelong, LiveIsRegistered
<1>4. StopsKnow'
  <2> SUFFICES ASSUME NEW s \in ss
               PROVE  /\ belongs[s[3]] = s[2]
                      /\ s[2] \notin overlapped' => instances[s[2]] = s[3]
    BY <1>1 DEF StopsKnow
  <2>1. CASE s \in stopping
    BY <1>1, <2>1 DEF ChannelsInv, StopsKnow
  <2>2. CASE s \notin stopping
    <3>1. s[2] \in Account /\ s[3] \in Adapter /\ instances[s[2]] = s[3]
      BY <2>2
    <3>2. QED
      BY <3>1, NoneIsNone DEF ChannelsInv, EntriesBelong
  <2>3. QED
    BY <2>1, <2>2
<1>5. \A x \in Adapter : Stale(x)' => Stale(x) /\ belongs'[x] = belongs[x]
  BY <1>1 DEF Stale
<1>6. \A s \in stopping' : s[1] \in Update => s \in stopping
  BY <1>1
<1>7. RestartInv => RestartInv'
  BY <1>1, <1>5, <1>6, RestartUntouched DEF restartVars
<1>8. QED
  BY <1>1, <1>2, <1>3, <1>4, <1>7 DEF ChannelsKept, ChannelsInv

LEMMA ChannelsStopKeeps ==
    ASSUME ChannelsInv, NEW k \in StopCall, NEW c \in Account, ChannelsStop(k, c)
    PROVE  ChannelsKept
<1> DEFINE s == <<k, c, instances[c]>>
           ss == stopping \cup {s}
<1>1. /\ instances[c] # NoAdapter /\ Stopping(ss)
      /\ UNCHANGED <<guardVars, instances, state, belongs, holds, restartVars>>
  BY DEF ChannelsStop
<1>2. s \in Actor \X Account \X Adapter /\ s[1] \notin Update /\ s[2] = c /\ s[3] = instances[c]
  BY <1>1, ActorsAreDistinct DEF Actor, ChannelsInv, ChannelTypes
<1>3. ss \in SUBSET (Actor \X Account \X Adapter) /\ stopping \subseteq ss
  BY <1>2 DEF ChannelsInv, ChannelTypes
<1>4. \A r \in ss \ stopping : r[1] \notin Update /\ instances[r[2]] = r[3]
  BY <1>2
<1>5. QED
  <2> HIDE DEF ss
  <2> QED
    BY <1>1, <1>3, <1>4, MoreStopsKeep DEF guardVars

LEMMA StopAllKeeps == ChannelsInv /\ StopAll => ChannelsKept
<1> SUFFICES ASSUME ChannelsInv, StopAll PROVE ChannelsKept
  OBVIOUS
<1> DEFINE more == {<<Daemon, c, instances[c]>> : c \in Running}
           ss == stopping \cup more
<1>1. Stopping(ss) /\ UNCHANGED <<guardVars, instances, state, belongs, holds, restartVars>>
  BY DEF StopAll
<1>2. \A s \in more : /\ s \in Actor \X Account \X Adapter
                      /\ s[1] \notin Update /\ instances[s[2]] = s[3]
  <2> SUFFICES ASSUME NEW c \in Running
               PROVE  /\ <<Daemon, c, instances[c]>> \in Actor \X Account \X Adapter
                      /\ Daemon \notin Update
    OBVIOUS
  <2> QED
    BY ActorsAreDistinct DEF Running, Actor, ChannelsInv, ChannelTypes
<1>3. ss \in SUBSET (Actor \X Account \X Adapter) /\ stopping \subseteq ss
  <2> HIDE DEF more
  <2> QED
    BY <1>2 DEF ChannelsInv, ChannelTypes
<1>4. \A r \in ss \ stopping : r[1] \notin Update /\ instances[r[2]] = r[3]
  <2> HIDE DEF more
  <2> QED
    BY <1>2
<1>5. QED
  <2> HIDE DEF ss
  <2> QED
    BY <1>1, <1>3, <1>4, MoreStopsKeep DEF guardVars

\* A stop of somebody who is no update comes back; the adapter is down, or not.
LEMMA StopReturnsKeeps ==
    ASSUME ChannelsInv, NEW s \in stopping, StopReturns(s)
    PROVE  ChannelsKept
<1> DEFINE ss == stopping \ {s}
<1>1. /\ s[1] \notin Update /\ Stopping(ss)
      /\ state' = [state EXCEPT ![s[3]] = "off"]
      /\ instances' = [instances EXCEPT ![s[2]] = NoAdapter]
      /\ UNCHANGED <<guardVars, belongs, holds, restartVars>>
  BY DEF StopReturns
<1>2. s[2] \in Account /\ s[3] \in Adapter /\ ss \in SUBSET (Actor \X Account \X Adapter)
  BY DEF ChannelsInv, ChannelTypes
<1>3. stopping' = ss /\ OverlapsAreKnown' /\ overlapped \subseteq overlapped'
  BY <1>1, <1>2, StoppingIs
<1>4. ChannelTypes'
  BY <1>1, <1>2, <1>3 DEF ChannelsInv, ChannelTypes, guardVars, restartVars
<1>5. EntriesBelong' /\ LiveBelong'
  BY <1>1, <1>2 DEF ChannelsInv, ChannelTypes, EntriesBelong, LiveBelong
<1>6. StopsKnow'
  <2> SUFFICES ASSUME NEW q \in ss
               PROVE  /\ belongs[q[3]] = q[2]
                      /\ q[2] \notin overlapped' => instances'[q[2]] = q[3]
    BY <1>1, <1>3 DEF StopsKnow
  <2>1. /\ belongs[q[3]] = q[2] /\ q[2] \in Account
        /\ q[2] \notin overlapped => instances[q[2]] = q[3]
        /\ q[2] = s[2] => q[2] \in overlapped
    BY DEF ChannelsInv, ChannelTypes, StopsKnow, OverlapsAreKnown
  <2>2. QED
    BY <1>1, <1>3, <2>1 DEF ChannelsInv, ChannelTypes
<1>7. LiveIsRegistered'
  <2> SUFFICES ASSUME NEW x \in Adapter, state'[x] # "off", belongs[x] \notin overlapped
               PROVE  instances'[belongs[x]] = x
    BY <1>1, <1>3 DEF LiveIsRegistered
  <2>1. x # s[3] /\ state[x] # "off"
    BY <1>1, <1>2 DEF ChannelsInv, ChannelTypes
  <2>2. belongs[x] \in Account /\ instances[belongs[x]] = x
    BY <2>1 DEF ChannelsInv, LiveBelong, LiveIsRegistered
  <2>3. belongs[x] # s[2]
    BY <2>1, <2>2 DEF ChannelsInv, StopsKnow
  <2>4. QED
    BY <1>1, <2>2, <2>3 DEF ChannelsInv, ChannelTypes
<1>8. \A x \in Adapter : Stale(x)' => Stale(x) /\ belongs'[x] = belongs[x]
  BY <1>1, <1>2, <1>3 DEF Stale, guardVars, ChannelsInv, ChannelTypes
<1>9. /\ \A q \in stopping' : q[1] \in Update => q \in stopping
      /\ \A q \in stopping : q[1] \in Update => q \in stopping'
  BY <1>1, <1>3
<1>10. RestartInv => RestartInv'
  BY <1>1, <1>3, <1>8, <1>9, RestartUntouched DEF guardVars, restartVars
<1>11. QED
  BY <1>3, <1>4, <1>5, <1>6, <1>7, <1>10 DEF ChannelsKept, ChannelsInv

LEMMA StopRaisesKeeps ==
    ASSUME ChannelsInv, NEW s \in stopping, StopRaises(s)
    PROVE  ChannelsKept
<1> DEFINE ss == stopping \ {s}
<1>1. /\ s[1] \notin Update /\ Stopping(ss)
      /\ state' = Stuck(s[3])
      /\ UNCHANGED <<guardVars, instances, belongs, holds, restartVars>>
  BY DEF StopRaises
<1>2. s[2] \in Account /\ s[3] \in Adapter /\ ss \in SUBSET (Actor \X Account \X Adapter)
  BY DEF ChannelsInv, ChannelTypes
<1>3. stopping' = ss /\ OverlapsAreKnown' /\ overlapped \subseteq overlapped'
  BY <1>1, <1>2, StoppingIs
<1>4. /\ state' \in [Adapter -> {"off", "up", "stuck"}]
      /\ \A x \in Adapter : state'[x] # "off" => state[x] # "off"
      /\ \A x \in Adapter : state'[x] = "up" => state[x] = "up"
  BY <1>1, <1>2 DEF ChannelsInv, ChannelTypes, Stuck
<1>5. ChannelTypes'
  BY <1>1, <1>2, <1>3, <1>4 DEF ChannelsInv, ChannelTypes, guardVars, restartVars
<1>6. EntriesBelong' /\ LiveBelong' /\ StopsKnow' /\ LiveIsRegistered'
  BY <1>1, <1>3, <1>4
     DEF ChannelsInv, EntriesBelong, LiveBelong, StopsKnow, LiveIsRegistered
<1>7. \A x \in Adapter : Stale(x)' => Stale(x) /\ belongs'[x] = belongs[x]
  BY <1>1, <1>3, <1>4 DEF Stale, guardVars
<1>8. /\ \A q \in stopping' : q[1] \in Update => q \in stopping
      /\ \A q \in stopping : q[1] \in Update => q \in stopping'
  BY <1>1, <1>3
<1>9. RestartInv => RestartInv'
  BY <1>1, <1>3, <1>7, <1>8, RestartUntouched DEF guardVars, restartVars
<1>10. QED
  BY <1>3, <1>5, <1>6, <1>9 DEF ChannelsKept, ChannelsInv

--------------------------------------------------------------------------------

LEMMA ChannelsInitially == Init => ChannelsInv /\ RestartInv
<1> SUFFICES ASSUME Init PROVE ChannelsInv /\ RestartInv
  OBVIOUS
<1>1. ChannelTypes
  BY DEF Init, GuardInit, ChannelTypes, Phase
<1>2. EntriesBelong /\ LiveBelong /\ StopsKnow /\ OverlapsAreKnown /\ LiveIsRegistered
  BY DEF Init, EntriesBelong, LiveBelong, StopsKnow, OverlapsAreKnown, LiveIsRegistered
<1>3. RestartInv
  BY DEF Init, GuardInit, RestartInv, Stale
<1>4. QED
  BY <1>1, <1>2, <1>3 DEF ChannelsInv

LEMMA ChannelsStep ==
    ASSUME ChannelsInv, Next
    PROVE  ChannelsInv' /\ (OneUpdate /\ RestartInv => RestartInv')
<1>1. CASE GuardStep
  BY <1>1, GuardStepKeeps DEF ChannelsKept
<1>2. CASE \E u \in Update : RestartStep(u)
  <2>1. PICK u \in Update : RestartStep(u)
    BY <1>2
  <2>2. CASE SwapAndRestart(u)
    BY <2>2, SwapAndRestartKeeps
  <2>3. CASE \E s \in stopping : RestartStopReturns(u, s)
    BY <2>3, RestartStopReturnsKeeps
  <2>4. CASE \E s \in stopping : RestartStopRaises(u, s)
    BY <2>4, RestartStopRaisesKeeps
  <2>5. QED
    BY <2>1, <2>2, <2>3, <2>4 DEF RestartStep
<1>3. CASE \E c \in Account : ChannelsStart(c)
  BY <1>3, ChannelsStartKeeps DEF ChannelsKept
<1>4. CASE \E k \in StopCall, c \in Account : ChannelsStop(k, c)
  BY <1>4, ChannelsStopKeeps DEF ChannelsKept
<1>5. CASE \E s \in stopping : StopReturns(s) \/ StopRaises(s)
  BY <1>5, StopReturnsKeeps, StopRaisesKeeps DEF ChannelsKept
<1>6. CASE ShutdownStep
  <2>1. CASE StopAll
    BY <2>1, StopAllKeeps DEF ChannelsKept
  <2>2. CASE BackendCloses \/ RuntimeCloses
    <3>1. UNCHANGED <<channelVars, restartVars, runtime, phase, new>>
      BY <2>2 DEF BackendCloses, RuntimeCloses
    <3>2. QED
      BY <3>1, GuardKeepsChannels DEF ChannelsKept, ChannelsInv, ChannelTypes
  <2>3. QED
    BY <1>6, <2>1, <2>2 DEF ShutdownStep
<1>7. QED
  BY <1>1, <1>2, <1>3, <1>4, <1>5, <1>6 DEF Next

--------------------------------------------------------------------------------
(* The processes of the daemon, for one terminal and any number of processes.        *)

OneTerminal == \A o, p \in Operator : o = p

ProcessState == {"unborn", "building", "opening", "serving", "closing", "dead"}
CommandState == {"idle", "probe", "stale", "polling", "waiting", "clearing"}
Process == D!Proc \cup {D!None}
Command == [pc : CommandState, entry : Process, child : Process]
ControlTypes ==
    /\ proc \in [D!Proc -> [pc : ProcessState, term : BOOLEAN]]
    /\ pidfile \in D!Proc \cup {D!None}
    /\ op \in [Operator -> Command]

OneProcess == \A p, q \in D!Proc : D!Alive(p) /\ D!Alive(q) => p = q
FileNamesIt == \A p \in D!Proc : proc[p].pc \in {"opening", "serving"} => pidfile = p
NoProcess == \A p \in D!Proc : ~ D!Alive(p)
CommandsKnow ==
    \A o \in Operator :
        /\ op[o].pc \in {"stale", "clearing"} => NoProcess
        /\ op[o].pc = "waiting" => \A p \in D!Proc : D!Alive(p) => p = op[o].entry

\* While nobody has started a daemon over another one: there is one process, its pid is in
\* the file from before it takes the port, and a command that is about to remove the file
\* or waits for the process knows what it does.
ControlInv == ControlTypes /\ (alone => OneProcess /\ FileNamesIt /\ CommandsKnow)

LEMMA ControlInitially == D!DaemonInit => ControlInv
<1> SUFFICES ASSUME D!DaemonInit PROVE ControlInv
  OBVIOUS
<1>1. /\ proc = [p \in D!Proc |-> [pc |-> "unborn", term |-> FALSE]]
      /\ pidfile = D!None
      /\ op = [o \in Operator |-> [pc |-> "idle", entry |-> D!None, child |-> D!None]]
  BY DEF D!DaemonInit, D!Idle
<1>2. ControlTypes
  <2>1. [pc |-> "idle", entry |-> D!None, child |-> D!None] \in Command
    BY DEF Command, CommandState, Process
  <2>2. QED
    BY <1>1, <2>1 DEF ControlTypes, ProcessState
<1>3. NoProcess
  BY <1>1 DEF NoProcess, D!Alive
<1>4. OneProcess /\ FileNamesIt /\ CommandsKnow
  BY <1>1, <1>3 DEF OneProcess, FileNamesIt, CommandsKnow, NoProcess
<1>5. QED
  BY <1>2, <1>4 DEF ControlInv

\* A process that lives goes on to another state, and the file may come to name it.
LEMMA ProcessMoves ==
    ASSUME ControlInv, NEW p \in D!Proc, D!Alive(p),
           NEW r \in [pc : ProcessState, term : BOOLEAN],
           proc' = [proc EXCEPT ![p] = r],
           pidfile' \in D!Proc \cup {D!None}, UNCHANGED <<op, alone>>,
           r.pc \in {"opening", "serving"} => pidfile' = p
    PROVE  ControlInv'
<1> USE DEF ControlInv
<1>1. ControlTypes'
  BY DEF ControlTypes
<1>2. \A q \in D!Proc : D!Alive(q)' => D!Alive(q)
  BY DEF D!Alive, ControlTypes
<1>3. ASSUME alone PROVE OneProcess' /\ FileNamesIt' /\ CommandsKnow'
  <2>1. OneProcess'
    BY <1>2, <1>3 DEF OneProcess
  <2>2. \A q \in D!Proc : q # p => ~ D!Alive(q)
    BY <1>3 DEF OneProcess
  <2>3. FileNamesIt'
    <3> SUFFICES ASSUME NEW q \in D!Proc, proc'[q].pc \in {"opening", "serving"}
                 PROVE  pidfile' = q
      BY DEF FileNamesIt
    <3>1. q = p
      BY <1>2, <2>2 DEF D!Alive
    <3>2. QED
      BY <3>1 DEF ControlTypes
  <2>4. CommandsKnow'
    BY <1>2, <1>3 DEF CommandsKnow, NoProcess
  <2>5. QED
    BY <2>1, <2>3, <2>4
<1>4. QED
  BY <1>1, <1>3

LEMMA ProcessKeeps ==
    ASSUME ControlInv, NEW p \in D!Proc,
           \/ D!Builds(p) \/ D!Opens(p) \/ D!Terminates(p)
           \/ D!Closes(p) \/ D!Dies(p) \/ D!Restarts(p)
    PROVE  ControlInv'
<1> DEFINE Goes(s) == [proc EXCEPT ![p].pc = s]
<1>1. /\ proc[p] \in [pc : ProcessState, term : BOOLEAN]
      /\ pidfile \in D!Proc \cup {D!None}
      /\ proc \in [D!Proc -> [pc : ProcessState, term : BOOLEAN]]
  BY DEF ControlInv, ControlTypes
<1>2. D!Alive(p)
  BY DEF D!Builds, D!Opens, D!Terminates, D!Closes, D!Dies, D!Restarts, D!Alive, ControlInv,
         ControlTypes, ProcessState
<1>3. UNCHANGED <<op, alone>>
  BY DEF D!Builds, D!Opens, D!Terminates, D!Closes, D!Dies, D!Restarts
<1>4. \A s \in ProcessState : D!Goes(p, s) =>
          \E r \in [pc : ProcessState, term : BOOLEAN] :
              r.pc = s /\ proc' = [proc EXCEPT ![p] = r]
  <2> SUFFICES ASSUME NEW s \in ProcessState, D!Goes(p, s)
               PROVE  \E r \in [pc : ProcessState, term : BOOLEAN] :
                          r.pc = s /\ proc' = [proc EXCEPT ![p] = r]
    OBVIOUS
  <2>1. [proc[p] EXCEPT !.pc = s] \in [pc : ProcessState, term : BOOLEAN]
    BY <1>1
  <2>2. proc' = [proc EXCEPT ![p] = [proc[p] EXCEPT !.pc = s]]
    BY DEF D!Goes
  <2>3. [proc[p] EXCEPT !.pc = s].pc = s
    BY <1>1
  <2>4. QED
    BY <2>1, <2>2, <2>3
<1>5. ASSUME NEW s \in ProcessState, D!Goes(p, s), pidfile' \in D!Proc \cup {D!None},
             s \in {"opening", "serving"} => pidfile' = p
      PROVE  ControlInv'
  <2>1. PICK r \in [pc : ProcessState, term : BOOLEAN] : r.pc = s /\ proc' = [proc EXCEPT ![p] = r]
    BY <1>4, <1>5
  <2>2. QED
    BY <1>2, <1>3, <1>5, <2>1, ProcessMoves
<1>6. CASE D!Builds(p)
  <2>1. \/ D!Goes(p, "dead") /\ pidfile' = pidfile
        \/ D!Goes(p, "opening") /\ pidfile' = p
    BY <1>6 DEF D!Builds
  <2>2. QED
    BY <1>1, <1>5, <2>1 DEF ProcessState
<1>7. CASE D!Opens(p)
  <2>1. /\ proc[p].pc = "opening" /\ pidfile' = pidfile
        /\ D!Goes(p, "closing") \/ D!Goes(p, "serving")
    BY <1>7 DEF D!Opens
  <2>2. CASE alone
    <3>1. pidfile = p
      BY <2>1, <2>2 DEF ControlInv, FileNamesIt
    <3>2. QED
      BY <1>1, <1>5, <2>1, <3>1 DEF ProcessState
  <2>3. CASE ~ alone
    <3>1. ControlTypes'
      BY <1>1, <1>3, <1>4, <2>1 DEF ControlInv, ControlTypes, ProcessState
    <3>2. QED
      BY <1>3, <2>3, <3>1 DEF ControlInv
  <2>4. QED
    BY <2>2, <2>3
<1>8. CASE D!Terminates(p)
  BY <1>1, <1>5, <1>8 DEF D!Terminates, ProcessState
<1>9. CASE D!Closes(p)
  BY <1>1, <1>5, <1>9 DEF D!Closes, ProcessState
<1>10. CASE D!Dies(p)
  BY <1>1, <1>5, <1>10 DEF D!Dies, ProcessState
<1>11. CASE D!Restarts(p)
  <2> DEFINE r == [pc |-> "building", term |-> FALSE]
  <2>1. r \in [pc : ProcessState, term : BOOLEAN] /\ r.pc = "building"
    BY DEF ProcessState
  <2>2. proc' = [proc EXCEPT ![p] = r] /\ pidfile' = pidfile
    BY <1>11 DEF D!Restarts
  <2> HIDE DEF r
  <2>3. QED
    BY <1>1, <1>2, <1>3, <2>1, <2>2, ProcessMoves
<1>12. QED
  BY <1>6, <1>7, <1>8, <1>9, <1>10, <1>11

\* A command of the only terminal, with the processes as they are.
LEMMA CommandMoves ==
    ASSUME OneTerminal, ControlInv, NEW o \in Operator,
           NEW c \in Command,
           proc' = proc, op' = [op EXCEPT ![o] = c], alone' => alone,
           pidfile' = pidfile \/ (pidfile' = D!None /\ (alone => NoProcess)),
           c.pc \in {"stale", "clearing"} => (alone' => NoProcess),
           c.pc = "waiting" => (alone' => \A p \in D!Proc : D!Alive(p) => p = c.entry)
    PROVE  ControlInv'
<1> USE DEF ControlInv
<1>1. ControlTypes'
  BY DEF ControlTypes
<1>2. \A q \in D!Proc : D!Alive(q)' <=> D!Alive(q)
  BY DEF D!Alive
<1>3. ASSUME alone' PROVE OneProcess' /\ FileNamesIt' /\ CommandsKnow'
  <2>1. OneProcess'
    BY <1>2, <1>3 DEF OneProcess
  <2>2. FileNamesIt'
    BY <1>3 DEF FileNamesIt, NoProcess, D!Alive
  <2>3. \A t \in Operator : t = o /\ op'[t] = c
    BY DEF OneTerminal, ControlTypes
  <2>4. CommandsKnow'
    BY <1>2, <1>3, <2>3 DEF CommandsKnow, NoProcess
  <2>5. QED
    BY <2>1, <2>2, <2>4
<1>4. QED
  BY <1>1, <1>3

\* A process is started, and the only command goes on with no promise.
LEMMA SpawnKeeps ==
    ASSUME ControlInv, NEW p \in D!Proc, D!Spawned(p), pidfile' = pidfile,
           op' \in [Operator -> Command],
           \A o \in Operator : op'[o].pc \notin {"stale", "clearing", "waiting"}
    PROVE  ControlInv'
<1> USE DEF ControlInv
<1>1. /\ proc' = [proc EXCEPT ![p].pc = "building"]
      /\ alone' => alone /\ NoProcess
  BY DEF D!Spawned, D!Goes, NoProcess
<1>2. \A q \in D!Proc : q # p => proc'[q] = proc[q]
  BY <1>1 DEF ControlTypes
<1>3. proc'[p].pc = "building" /\ proc' \in [D!Proc -> [pc : ProcessState, term : BOOLEAN]]
  BY <1>1 DEF ControlTypes, ProcessState
<1>4. ControlTypes'
  BY <1>3 DEF ControlTypes
<1>5. ASSUME alone' PROVE OneProcess' /\ FileNamesIt' /\ CommandsKnow'
  <2>1. \A q \in D!Proc : q # p => ~ D!Alive(q)' /\ proc'[q].pc \notin {"opening", "serving"}
    BY <1>1, <1>2, <1>5 DEF NoProcess, D!Alive
  <2>2. OneProcess' /\ FileNamesIt'
    BY <1>3, <2>1 DEF OneProcess, FileNamesIt
  <2>3. CommandsKnow'
    BY DEF CommandsKnow
  <2>4. QED
    BY <2>2, <2>3
<1>6. QED
  BY <1>4, <1>5

\* A command goes on.  SIGKILL ends the process it waits for, which is the only one.
LEMMA VerbKeeps ==
    ASSUME OneTerminal, ControlInv, NEW o \in Operator, D!VerbStep(o)
    PROVE  ControlInv'
<1>1. op \in [Operator -> Command] /\ op[o] \in Command
  BY DEF ControlInv, ControlTypes
<1>2. \A t \in Operator : t = o
  BY DEF OneTerminal
<1>3. D!Idle \in Command /\ D!Idle.pc = "idle"
  BY DEF D!Idle, Command, CommandState, Process
<1>4. alone /\ op[o].pc \in {"stale", "clearing"} => NoProcess
  BY DEF ControlInv, CommandsKnow
<1>5. \A s \in CommandState : [op[o] EXCEPT !.pc = s] \in Command /\ [op[o] EXCEPT !.pc = s].pc = s
                        /\ [op[o] EXCEPT !.pc = s].entry = op[o].entry
  BY <1>1 DEF Command
<1>6. \A s \in CommandState : D!Turns(o, s) => op' = [op EXCEPT ![o] = [op[o] EXCEPT !.pc = s]]
  BY DEF D!Turns
<1>7. CASE D!ClearsStale(o)
  <2>1. /\ pidfile' = D!None /\ proc' = proc /\ alone' = alone /\ op[o].pc = "stale"
        /\ op' = [op EXCEPT ![o] = [op[o] EXCEPT !.pc = "probe"]]
    BY <1>6, <1>7 DEF D!ClearsStale, CommandState
  <2>2. QED
    BY <1>4, <1>5, <2>1, CommandMoves DEF CommandState
<1>8. CASE D!Spawns(o)
  <2>1. CASE D!Ends(o) /\ UNCHANGED <<proc, alone>>
    <3>1. op' = [op EXCEPT ![o] = D!Idle] /\ proc' = proc /\ alone' = alone /\ pidfile' = pidfile
      BY <1>8, <2>1 DEF D!Ends, D!Spawns
    <3>2. QED
      BY <1>3, <3>1, CommandMoves
  <2>2. CASE \E p \in D!Proc : D!Spawned(p) /\ op' = [op EXCEPT ![o] = [D!Idle EXCEPT !.pc = "polling", !.child = p]]
    <3>1. PICK p \in D!Proc : D!Spawned(p) /\ op' = [op EXCEPT ![o] = [D!Idle EXCEPT !.pc = "polling", !.child = p]]
      BY <2>2
    <3> DEFINE c == [D!Idle EXCEPT !.pc = "polling", !.child = p]
    <3>2. c \in Command /\ c.pc = "polling"
      BY <1>3 DEF Command, CommandState, Process
    <3> HIDE DEF c
    <3>3. op' \in [Operator -> Command] /\ op'[o].pc = "polling"
      BY <1>1, <3>1, <3>2 DEF c
    <3>4. pidfile' = pidfile
      BY <1>8 DEF D!Spawns
    <3>5. QED
      BY <1>2, <3>1, <3>3, <3>4, SpawnKeeps
  <2>3. QED
    BY <1>8, <2>1, <2>2 DEF D!Spawns
<1>9. CASE D!StartEnds(o)
  <2>1. op' = [op EXCEPT ![o] = D!Idle] /\ proc' = proc /\ alone' = alone /\ pidfile' = pidfile
    BY <1>9 DEF D!StartEnds, D!Ends
  <2>2. QED
    BY <1>3, <2>1, CommandMoves
<1>10. CASE D!Stopped(o)
  <2>1. /\ pidfile' = pidfile /\ proc' = proc /\ alone' = alone /\ op[o].pc = "waiting"
        /\ op' = [op EXCEPT ![o] = [op[o] EXCEPT !.pc = "clearing"]]
        /\ ~ D!Alive(op[o].entry)
    BY <1>6, <1>10 DEF D!Stopped, CommandState
  <2>2. alone => NoProcess
    BY <2>1 DEF ControlInv, CommandsKnow, NoProcess
  <2>3. QED
    BY <1>5, <2>1, <2>2, CommandMoves DEF CommandState
<1>11. CASE D!Kills(o)
  <2>1. /\ pidfile' = pidfile /\ alone' = alone /\ op[o].pc = "waiting"
        /\ proc' = [proc EXCEPT ![op[o].entry].pc = "dead"]
        /\ op' = [op EXCEPT ![o] = [op[o] EXCEPT !.pc = "clearing"]]
    BY <1>6, <1>11 DEF D!Kills, CommandState
  <2>2. \A q \in D!Proc : proc'[q].pc = IF q = op[o].entry THEN "dead" ELSE proc[q].pc
    BY <2>1 DEF ControlInv, ControlTypes
  <2>3. ControlTypes'
    <3>1. op' \in [Operator -> Command]
      BY <1>1, <1>5, <2>1 DEF CommandState
    <3>2. proc' \in [D!Proc -> [pc : ProcessState, term : BOOLEAN]]
      BY <2>1 DEF ControlInv, ControlTypes, ProcessState
    <3>3. QED
      BY <2>1, <3>1, <3>2 DEF ControlInv, ControlTypes
  <2>4. alone => NoProcess'
    BY <2>1, <2>2 DEF ControlInv, CommandsKnow, NoProcess, D!Alive
  <2>5. alone => OneProcess' /\ FileNamesIt'
    BY <2>4 DEF OneProcess, FileNamesIt, NoProcess, D!Alive
  <2>6. alone => CommandsKnow'
    BY <2>4 DEF CommandsKnow, NoProcess
  <2>7. QED
    BY <2>1, <2>3, <2>5, <2>6 DEF ControlInv
<1>12. CASE D!Clears(o)
  <2>1. /\ op' = [op EXCEPT ![o] = D!Idle] /\ proc' = proc /\ alone' = alone
        /\ pidfile' = D!None /\ op[o].pc = "clearing"
    BY <1>12 DEF D!Clears, D!Ends
  <2>2. QED
    BY <1>3, <1>4, <2>1, CommandMoves
<1>13. QED
  BY <1>7, <1>8, <1>9, <1>10, <1>11, <1>12 DEF D!VerbStep

LEMMA RunKeeps ==
    ASSUME OneTerminal, ControlInv, NEW o \in Operator, D!Run(o)
    PROVE  ControlInv'
<1>1. PICK p \in D!Proc : D!Spawned(p)
  BY DEF D!Run
<1>2. op' = op /\ pidfile' = pidfile /\ op[o].pc = "idle" /\ op \in [Operator -> Command]
  BY DEF D!Run, D!Types, ControlInv, ControlTypes
<1>3. \A t \in Operator : op'[t].pc \notin {"stale", "clearing", "waiting"}
  BY <1>2 DEF OneTerminal
<1>4. QED
  BY <1>1, <1>2, <1>3, SpawnKeeps

\* A pidfile is stale only if no process lives: the one that serves would be named by it.
LEMMA StartKeeps ==
    ASSUME OneTerminal, ControlInv, NEW o \in Operator, D!Start(o)
    PROVE  ControlInv'
<1>1. /\ proc' = proc /\ pidfile' = pidfile /\ op[o] \in Command /\ op \in [Operator -> Command]
      /\ op[o].pc = "idle"
      /\ alone' = (alone /\ (pidfile # D!None /\ ~ D!PortOpen => NoProcess))
  BY DEF D!Start, D!Types, NoProcess, ControlInv, ControlTypes
<1>2. \A s \in CommandState : [op[o] EXCEPT !.pc = s] \in Command /\ [op[o] EXCEPT !.pc = s].pc = s
  BY <1>1 DEF Command
<1>3. CASE D!Turns(o, "probe")
  <2>1. op' = [op EXCEPT ![o] = [op[o] EXCEPT !.pc = "probe"]]
    BY <1>3 DEF D!Turns
  <2>2. QED
    BY <1>1, <1>2, <2>1, CommandMoves DEF CommandState
<1>4. CASE pidfile # D!None /\ D!Alive(pidfile) /\ D!PortOpen /\ op' = op
  <2>1. op' = [op EXCEPT ![o] = op[o]]
    BY <1>1, <1>4
  <2>2. QED
    BY <1>1, <2>1, CommandMoves
<1>5. CASE pidfile # D!None /\ ~(D!Alive(pidfile) /\ D!PortOpen) /\ D!Turns(o, "stale")
  <2>1. op' = [op EXCEPT ![o] = [op[o] EXCEPT !.pc = "stale"]]
    BY <1>5 DEF D!Turns
  <2>2. ASSUME alone' PROVE NoProcess
    <3>1. CASE D!PortOpen
      <4>1. PICK p \in D!Proc : proc[p].pc = "serving"
        BY <3>1 DEF D!PortOpen
      <4>2. pidfile = p /\ D!Alive(p)
        BY <1>1, <2>2, <4>1 DEF ControlInv, FileNamesIt, D!Alive
      <4>3. QED
        BY <1>5, <3>1, <4>2
    <3>2. CASE ~ D!PortOpen
      BY <1>1, <1>5, <2>2, <3>2
    <3>3. QED
      BY <3>1, <3>2
  <2>3. QED
    BY <1>1, <1>2, <2>1, <2>2, CommandMoves DEF CommandState
<1>6. QED
  BY <1>3, <1>4, <1>5 DEF D!Start

LEMMA StopKeeps ==
    ASSUME OneTerminal, ControlInv, NEW o \in Operator, D!Stop(o)
    PROVE  ControlInv'
<1>1. /\ pidfile' = pidfile /\ pidfile \in D!Proc /\ op[o] \in Command
      /\ op \in [Operator -> Command]
      /\ alone' = (alone /\ (~ D!Alive(pidfile) => NoProcess))
  BY DEF D!Stop, NoProcess, ControlInv, ControlTypes
<1>2. CASE D!Alive(pidfile)
  <2> DEFINE c == [D!Idle EXCEPT !.pc = "waiting", !.entry = pidfile]
  <2>1. /\ proc' = [proc EXCEPT ![pidfile].term = TRUE]
        /\ op' = [op EXCEPT ![o] = c] /\ (alone' => alone)
    <3>1. op' = [op EXCEPT ![o] = [D!Idle EXCEPT !.pc = "waiting", !.entry = pidfile]]
      BY <1>2 DEF D!Stop
    <3>2. proc' = [proc EXCEPT ![pidfile].term = TRUE]
      BY <1>2 DEF D!Stop
    <3>3. QED
      BY <1>1, <1>2, <3>1, <3>2
  <2>2. c \in Command /\ c.pc = "waiting" /\ c.entry = pidfile
    BY <1>1 DEF D!Idle, Command, CommandState, Process
  <2> HIDE DEF c
  <2>3. ControlTypes'
    <3>1. proc' \in [D!Proc -> [pc : ProcessState, term : BOOLEAN]]
      BY <1>1, <2>1 DEF ControlInv, ControlTypes
    <3>2. op' \in [Operator -> Command]
      BY <1>1, <2>1, <2>2
    <3>3. QED
      BY <1>1, <3>1, <3>2 DEF ControlInv, ControlTypes
  <2>4. \A p \in D!Proc : proc'[p].pc = proc[p].pc
    BY <1>1, <2>1 DEF ControlInv, ControlTypes
  <2>5. \A p \in D!Proc : D!Alive(p)' <=> D!Alive(p)
    BY <2>4 DEF D!Alive
  <2>6. ASSUME alone PROVE OneProcess' /\ FileNamesIt' /\ CommandsKnow'
    <3>1. OneProcess' /\ FileNamesIt'
      BY <1>1, <2>4, <2>5, <2>6 DEF ControlInv, OneProcess, FileNamesIt
    <3>2. \A t \in Operator : op'[t] = c
      BY <1>1, <2>1 DEF OneTerminal
    <3>3. \A p \in D!Proc : D!Alive(p) => p = pidfile
      BY <1>1, <1>2, <2>6 DEF ControlInv, OneProcess
    <3>4. CommandsKnow'
      BY <2>2, <2>5, <3>2, <3>3 DEF CommandsKnow
    <3>5. QED
      BY <3>1, <3>4
  <2>7. QED
    BY <2>1, <2>3, <2>6 DEF ControlInv
<1>3. CASE ~ D!Alive(pidfile)
  <2>1. op' = [op EXCEPT ![o] = [op[o] EXCEPT !.pc = "clearing"]] /\ proc' = proc
    BY <1>3 DEF D!Stop, D!Turns
  <2>2. [op[o] EXCEPT !.pc = "clearing"] \in Command /\ [op[o] EXCEPT !.pc = "clearing"].pc = "clearing"
    BY <1>1 DEF Command, CommandState
  <2>3. QED
    BY <1>1, <1>3, <2>1, <2>2, CommandMoves
<1>4. QED
  BY <1>2, <1>3

LEMMA ControlStep ==
    ASSUME OneTerminal, ControlInv, D!DaemonNext
    PROVE  ControlInv'
  BY ProcessKeeps, RunKeeps, StartKeeps, StopKeeps, VerbKeeps DEF D!DaemonNext

LEMMA ControlStutters == ControlInv /\ UNCHANGED control => ControlInv'
  BY DEF control, ControlInv, ControlTypes, OneProcess, FileNamesIt, CommandsKnow, NoProcess, D!Alive

LEMMA ChannelsStutter == UNCHANGED gatewayVars /\ ChannelsInv => ChannelsKept
<1> SUFFICES ASSUME UNCHANGED gatewayVars, ChannelsInv PROVE ChannelsKept
  OBVIOUS
<1>1. UNCHANGED <<channelVars, restartVars, runtime, phase, new>>
  BY DEF gatewayVars, guardVars
<1>2. QED
  BY <1>1, GuardKeepsChannels DEF ChannelsInv, ChannelTypes

--------------------------------------------------------------------------------

\* Whatever updates, calls of channels_stop and the shutdown do at the same time, for any
\* accounts and adapters: an adapter that is at work is the one the ChannelManager has for
\* its account, unless two actors were stopping that account's adapter at once.
THEOREM AdaptersRegistered == MCSpec => []LiveIsRegistered
<1>1. MCInit => ChannelsInv
  BY ChannelsInitially DEF MCInit
<1>2. ChannelsInv /\ [MCChannels \/ MCEvents \/ MCControl]_<<gatewayVars, streamVars, control, about>>
          => ChannelsInv'
  BY ChannelsStep, ChannelsStutter DEF MCChannels, MCEvents, MCControl, ChannelsKept
<1>3. ChannelsInv => LiveIsRegistered
  BY DEF ChannelsInv
<1>4. QED
  BY <1>1, <1>2, <1>3, PTL DEF MCSpec

\* With one update and one command at a time, for any accounts, adapters and processes: the
\* adapters at work are registered and, between updates, on the runtime of the backend, and
\* gateway.pid names the daemon that serves.
THEOREM DaemonSound == OneUpdate /\ OneTerminal /\ MCSpec => []DaemonIsSound
<1> SUFFICES ASSUME OneUpdate, OneTerminal PROVE MCSpec => []DaemonIsSound
  OBVIOUS
<1> DEFINE Inv == ChannelsInv /\ RestartInv /\ ControlInv
<1>1. MCInit => Inv
  BY ChannelsInitially, ControlInitially DEF MCInit
<1>2. Inv /\ [MCChannels \/ MCEvents \/ MCControl]_<<gatewayVars, streamVars, control, about>>
          => Inv'
  <2> SUFFICES ASSUME Inv, [MCChannels \/ MCEvents \/ MCControl]_<<gatewayVars, streamVars, control, about>>
               PROVE  Inv'
    OBVIOUS
  <2>1. CASE MCChannels
    BY <2>1, ChannelsStep, ControlStutters DEF MCChannels
  <2>2. CASE MCControl
    BY <2>2, ChannelsStutter, ControlStep DEF MCControl, ChannelsKept
  <2>3. CASE UNCHANGED <<gatewayVars, control>>
    BY <2>3, ChannelsStutter, ControlStutters DEF ChannelsKept
  <2>4. QED
    BY <2>1, <2>2, <2>3 DEF MCEvents
<1>3. Inv => DaemonIsSound
  <2>1. RestartInv => AdaptersOnCurrent
    BY DEF RestartInv, AdaptersOnCurrent, Stale
  <2>2. ControlInv => D!ServingIsRecorded
    BY DEF ControlInv, FileNamesIt, D!ServingIsRecorded
  <2>3. QED
    BY <2>1, <2>2 DEF ChannelsInv, DaemonIsSound, AdaptersAreSound
<1>4. QED
  BY <1>1, <1>2, <1>3, PTL DEF MCSpec

--------------------------------------------------------------------------------
(* Order and loss, part by part of the way. *)

Elems(q) == {q[i] : i \in 1 .. Len(q)}

\* x may come before y.
Prec(x, y) ==
    /\ x.seq <= y.seq
    /\ x.kind = "event" /\ y.kind = "event" => x.seq < y.seq

Ordered(q) == \A i, j \in 1 .. Len(q) : i < j => Prec(q[i], q[j])
Before(p, q) == \A x \in Elems(p), y \in Elems(q) : Prec(x, y)

\* Each part is in order, and the parts follow one another.
PartsInOrder ==
    /\ Ordered(received) /\ Ordered(remoteQueue) /\ Ordered(wire) /\ Ordered(queue)
    /\ Before(received, remoteQueue) /\ Before(received, wire) /\ Before(received, queue)
    /\ Before(remoteQueue, wire) /\ Before(remoteQueue, queue)
    /\ Before(wire, queue)

UnderWay == Elems(received) \cup Elems(remoteQueue) \cup Elems(wire) \cup Elems(queue)

NothingAhead == \A x \in UnderWay : x.seq <= seq

\* A consumer in the daemon has neither a connection nor a queue of its own.
LocalIsLocal == ~ remote => remoteQueue = <<>> /\ wire = <<>> /\ ~ remoteOpen

AllAccounted == Connected => \A n \in offered : \E x \in UnderWay : Accounts(x, n)

OrderInv == StreamTypeOK /\ PartsInOrder /\ NothingAhead /\ LocalIsLocal

--------------------------------------------------------------------------------
(* Sequences. *)

LEMMA ElemsOf ==
    ASSUME NEW S, NEW q \in Seq(S)
    PROVE  /\ Elems(q) \subseteq S
           /\ Elems(q) = {} <=> q = <<>>
           /\ \A i \in 1 .. Len(q) : q[i] \in Elems(q)
<1>1. Len(q) \in Nat /\ (Len(q) = 0 <=> q = <<>>) /\ \A i \in 1 .. Len(q) : q[i] \in S
  BY LenProperties, EmptySeq
<1>2. Len(q) # 0 => 1 \in 1 .. Len(q)
  BY <1>1
<1>3. QED
  BY <1>1, <1>2 DEF Elems

LEMMA ElemsAppend ==
    ASSUME NEW S, NEW q \in Seq(S), NEW e \in S
    PROVE  /\ Append(q, e) \in Seq(S) /\ Len(Append(q, e)) = Len(q) + 1
           /\ Elems(Append(q, e)) = Elems(q) \cup {e}
<1>1. /\ Append(q, e) \in Seq(S) /\ Len(Append(q, e)) = Len(q) + 1 /\ Len(q) \in Nat
      /\ \A i \in 1 .. Len(q) : Append(q, e)[i] = q[i]
      /\ Append(q, e)[Len(q) + 1] = e
  BY AppendProperties, LenProperties
<1>2. \A i \in 1 .. Len(q) + 1 : i \in 1 .. Len(q) \/ i = Len(q) + 1
  BY <1>1
<1>3. QED
  BY <1>1, <1>2 DEF Elems

LEMMA OrderedAppend ==
    ASSUME NEW S, NEW q \in Seq(S), NEW e \in S, Ordered(q), \A x \in Elems(q) : Prec(x, e)
    PROVE  Ordered(Append(q, e))
<1>1. /\ Len(Append(q, e)) = Len(q) + 1 /\ Len(q) \in Nat
      /\ \A i \in 1 .. Len(q) : Append(q, e)[i] = q[i]
      /\ Append(q, e)[Len(q) + 1] = e
  BY AppendProperties, LenProperties
<1>2. ASSUME NEW i \in 1 .. Len(q) + 1, NEW j \in 1 .. Len(q) + 1, i < j
      PROVE  Prec(Append(q, e)[i], Append(q, e)[j])
  <2>1. i \in 1 .. Len(q)
    BY <1>1, <1>2
  <2>2. CASE j \in 1 .. Len(q)
    BY <1>1, <1>2, <2>1, <2>2 DEF Ordered
  <2>3. CASE j = Len(q) + 1
    BY <1>1, <2>1, <2>3 DEF Elems
  <2>4. QED
    BY <1>1, <2>2, <2>3
<1>3. QED
  BY <1>1, <1>2 DEF Ordered

LEMMA HeadTail ==
    ASSUME NEW S, NEW q \in Seq(S), q # <<>>
    PROVE  /\ Tail(q) \in Seq(S) /\ Len(Tail(q)) = Len(q) - 1 /\ Len(q) \in Nat
           /\ Head(q) \in S /\ Elems(q) = {Head(q)} \cup Elems(Tail(q))
           /\ Ordered(q) => /\ Ordered(Tail(q))
                            /\ \A x \in Elems(Tail(q)) : Prec(Head(q), x)
<1>1. Len(q) \in Nat /\ Len(q) >= 1 /\ Head(q) = q[1] /\ q[1] \in S
  BY LenProperties, EmptySeq
<1>2. /\ Tail(q) \in Seq(S) /\ Len(Tail(q)) = Len(q) - 1
      /\ \A i \in 1 .. Len(q) - 1 : Tail(q)[i] = q[i + 1]
  BY <1>1, HeadTailProperties
<1>3. \A i \in 1 .. Len(q) : i = 1 \/ (i - 1 \in 1 .. Len(q) - 1 /\ (i - 1) + 1 = i)
  BY <1>1
<1>4. \A i \in 1 .. Len(q) - 1 : i + 1 \in 1 .. Len(q) /\ 1 < i + 1
  BY <1>1
<1>5. Elems(q) = {Head(q)} \cup Elems(Tail(q))
  <2>1. ASSUME NEW x \in Elems(q) PROVE x = Head(q) \/ x \in Elems(Tail(q))
    <3>1. PICK i \in 1 .. Len(q) : x = q[i]
      BY DEF Elems
    <3>2. CASE i = 1
      BY <1>1, <3>1, <3>2
    <3>3. CASE i # 1
      <4>1. i - 1 \in 1 .. Len(Tail(q)) /\ Tail(q)[i - 1] = x
        BY <1>2, <1>3, <3>1, <3>3
      <4>2. QED
        BY <4>1 DEF Elems
    <3>4. QED
      BY <3>2, <3>3
  <2>2. Head(q) \in Elems(q)
    BY <1>1 DEF Elems
  <2>3. Elems(Tail(q)) \subseteq Elems(q)
    BY <1>2, <1>4 DEF Elems
  <2>4. QED
    BY <2>1, <2>2, <2>3
<1>6. ASSUME Ordered(q)
      PROVE  Ordered(Tail(q)) /\ \A x \in Elems(Tail(q)) : Prec(Head(q), x)
  <2>1. ASSUME NEW i \in 1 .. Len(q) - 1, NEW j \in 1 .. Len(q) - 1, i < j
        PROVE  Prec(Tail(q)[i], Tail(q)[j])
    <3>1. i + 1 < j + 1 /\ i + 1 \in 1 .. Len(q) /\ j + 1 \in 1 .. Len(q)
      BY <1>1, <1>4, <2>1
    <3>2. QED
      BY <1>2, <1>6, <3>1 DEF Ordered
  <2>2. ASSUME NEW i \in 1 .. Len(q) - 1 PROVE Prec(Head(q), Tail(q)[i])
    <3>1. 1 \in 1 .. Len(q) /\ i + 1 \in 1 .. Len(q) /\ 1 < i + 1
      BY <1>1, <1>4
    <3>2. QED
      BY <1>1, <1>2, <1>6, <3>1 DEF Ordered
  <2>3. QED
    BY <1>2, <2>1, <2>2 DEF Ordered, Elems
<1>7. QED
  BY <1>1, <1>2, <1>5, <1>6

LEMMA ElemsConcat ==
    ASSUME NEW S, NEW a \in Seq(S), NEW b \in Seq(S)
    PROVE  /\ a \o b \in Seq(S) /\ Len(a \o b) = Len(a) + Len(b)
           /\ \A i \in 1 .. Len(b) : (a \o b)[Len(a) + i] = b[i]
           /\ Elems(a \o b) = Elems(a) \cup Elems(b)
           /\ Ordered(a) /\ Ordered(b) /\ Before(a, b) => Ordered(a \o b)
<1>1. /\ a \o b \in Seq(S) /\ Len(a \o b) = Len(a) + Len(b)
      /\ Len(a) \in Nat /\ Len(b) \in Nat
  BY ConcatProperties, LenProperties
<1>2. \A i \in 1 .. Len(a) : (a \o b)[i] = a[i]
  BY <1>1
<1>3. ASSUME NEW i \in 1 .. Len(b) PROVE (a \o b)[Len(a) + i] = b[i]
  <2>1. Len(a) + i \in 1 .. Len(a) + Len(b) /\ ~ (Len(a) + i <= Len(a))
        /\ (Len(a) + i) - Len(a) = i
    BY <1>1
  <2>2. (a \o b)[Len(a) + i] = b[(Len(a) + i) - Len(a)]
    BY <1>1, <2>1
  <2>3. QED
    BY <2>1, <2>2
<1>4. \A i \in 1 .. Len(a) + Len(b) :
        i \in 1 .. Len(a) \/ (i - Len(a) \in 1 .. Len(b) /\ Len(a) + (i - Len(a)) = i)
  BY <1>1
<1>5. Elems(a \o b) = Elems(a) \cup Elems(b)
  <2>1. ASSUME NEW i \in 1 .. Len(a) + Len(b)
        PROVE  (a \o b)[i] \in Elems(a) \cup Elems(b)
    <3>1. CASE i \in 1 .. Len(a)
      BY <1>2, <3>1 DEF Elems
    <3>2. CASE i - Len(a) \in 1 .. Len(b) /\ Len(a) + (i - Len(a)) = i
      <4>1. (a \o b)[i] = b[i - Len(a)]
        BY <1>3, <3>2
      <4>2. QED
        BY <3>2, <4>1 DEF Elems
    <3>3. QED
      BY <1>4, <3>1, <3>2
  <2>2. ASSUME NEW i \in 1 .. Len(a) PROVE a[i] \in Elems(a \o b)
    <3>1. i \in 1 .. Len(a \o b)
      BY <1>1
    <3>2. QED
      BY <1>2, <3>1 DEF Elems
  <2>3. ASSUME NEW i \in 1 .. Len(b) PROVE b[i] \in Elems(a \o b)
    <3>1. Len(a) + i \in 1 .. Len(a \o b)
      BY <1>1
    <3>2. QED
      BY <1>3, <3>1 DEF Elems
  <2>4. QED
    BY <1>1, <2>1, <2>2, <2>3 DEF Elems
<1>6. ASSUME Ordered(a), Ordered(b), Before(a, b) PROVE Ordered(a \o b)
  <2> SUFFICES ASSUME NEW i \in 1 .. Len(a) + Len(b), NEW j \in 1 .. Len(a) + Len(b), i < j
               PROVE  Prec((a \o b)[i], (a \o b)[j])
    BY <1>1 DEF Ordered
  <2>1. CASE i \in 1 .. Len(a) /\ j \in 1 .. Len(a)
    BY <1>2, <1>6, <2>1 DEF Ordered
  <2>2. CASE i \in 1 .. Len(a) /\ j - Len(a) \in 1 .. Len(b) /\ Len(a) + (j - Len(a)) = j
    <3>1. (a \o b)[i] \in Elems(a)
      BY <1>2, <2>2 DEF Elems
    <3>2. (a \o b)[j] = b[j - Len(a)]
      BY <1>3, <2>2
    <3>3. QED
      BY <1>6, <2>2, <3>1, <3>2 DEF Before, Elems
  <2>3. CASE /\ i - Len(a) \in 1 .. Len(b) /\ Len(a) + (i - Len(a)) = i
             /\ j - Len(a) \in 1 .. Len(b) /\ Len(a) + (j - Len(a)) = j
    <3>1. (a \o b)[i] = b[i - Len(a)] /\ (a \o b)[j] = b[j - Len(a)]
      BY <1>3, <2>3
    <3>2. i - Len(a) < j - Len(a)
      BY <1>1
    <3>3. QED
      BY <1>6, <2>3, <3>1, <3>2 DEF Ordered
  <2>4. QED
    BY <1>1, <1>4, <2>1, <2>2, <2>3
<1>7. QED
  BY <1>1, <1>3, <1>5, <1>6

\* What is left of a sequence whose front, or whose end, is cut off.
LEMMA ElemsSubSeq ==
    ASSUME NEW S, NEW q \in Seq(S), NEW m \in 1 .. Len(q) + 1, NEW n \in 0 .. Len(q), m <= n + 1
    PROVE  /\ SubSeq(q, m, n) \in Seq(S)
           /\ Len(SubSeq(q, m, n)) = n - m + 1
           /\ Elems(SubSeq(q, m, n)) = {q[i] : i \in m .. n}
           /\ Ordered(q) => Ordered(SubSeq(q, m, n))
<1>1. Len(q) \in Nat
  BY LenProperties
<1>2. /\ SubSeq(q, m, n) \in Seq(S)
      /\ Len(SubSeq(q, m, n)) = n - m + 1
      /\ \A i \in 1 .. n - m + 1 : SubSeq(q, m, n)[i] = q[m + i - 1]
  BY <1>1, SubSeqProperties
<1>3. \A i \in 1 .. n - m + 1 : m + i - 1 \in m .. n /\ m + i - 1 \in 1 .. Len(q)
  BY <1>1
<1>4. \A i \in m .. n : i - m + 1 \in 1 .. n - m + 1 /\ m + (i - m + 1) - 1 = i
  BY <1>1
<1>5. Elems(SubSeq(q, m, n)) = {q[i] : i \in m .. n}
  <2>1. ASSUME NEW i \in 1 .. n - m + 1 PROVE SubSeq(q, m, n)[i] \in {q[k] : k \in m .. n}
    BY <1>2, <1>3
  <2>2. ASSUME NEW i \in m .. n PROVE q[i] \in Elems(SubSeq(q, m, n))
    <3>1. SubSeq(q, m, n)[i - m + 1] = q[i]
      BY <1>2, <1>4
    <3>2. QED
      BY <1>2, <1>4, <3>1 DEF Elems
  <2>3. QED
    BY <1>2, <2>1, <2>2 DEF Elems
<1>6. ASSUME Ordered(q) PROVE Ordered(SubSeq(q, m, n))
  <2> SUFFICES ASSUME NEW i \in 1 .. n - m + 1, NEW j \in 1 .. n - m + 1, i < j
               PROVE  Prec(SubSeq(q, m, n)[i], SubSeq(q, m, n)[j])
    BY <1>2 DEF Ordered
  <2>1. m + i - 1 < m + j - 1
    BY <1>1
  <2>2. QED
    BY <1>2, <1>3, <1>6, <2>1 DEF Ordered
<1>7. QED
  BY <1>2, <1>5, <1>6

--------------------------------------------------------------------------------
(* _Subscriber.push and close. *)

LEMMA ItemsAreItems ==
    ASSUME NEW n \in 0 .. MaxSeq
    PROVE  /\ Gap(n) \in Item /\ Gap(n).kind = "gap" /\ Gap(n).seq = n
           /\ \A s \in Session : /\ Event(n, s) \in Item /\ Event(n, s).kind = "event"
                                 /\ Event(n, s).seq = n /\ Event(n, s).session = s
           /\ n = seq => /\ End \in Item /\ End.kind = "end" /\ End.seq = seq
BY DEF Gap, Event, End, Item

LEMMA TruncatedEffect ==
    ASSUME StreamAssumption, NEW q \in Seq(Item)
    PROVE  /\ Truncated(q) \in Seq(Item) /\ Len(Truncated(q)) <= QueueMax
           /\ Elems(Truncated(q)) = {q[i] : i \in {k \in 1 .. Len(q) : k <= QueueMax}}
           /\ Ordered(q) => Ordered(Truncated(q))
<1> DEFINE n == IF Len(q) <= QueueMax THEN Len(q) ELSE QueueMax
<1>1. Len(q) \in Nat /\ QueueMax \in Nat
  BY LenProperties DEF StreamAssumption
<1>2. n \in 0 .. Len(q) /\ 1 \in 1 .. Len(q) + 1 /\ 1 <= n + 1 /\ n - 1 + 1 = n /\ n <= QueueMax
  BY <1>1
<1>3. {k \in 1 .. Len(q) : k <= QueueMax} = 1 .. n
  BY <1>1
<1>4. Truncated(q) = SubSeq(q, 1, n)
  BY DEF Truncated
<1> HIDE DEF n
<1>5. QED
  BY <1>2, <1>3, <1>4, ElemsSubSeq

\* An overflowing queue drops the oldest and says so right before the newest; what it
\* accounted for, it still accounts for.
LEMMA PushEffect ==
    ASSUME StreamAssumption, NEW q \in Seq(Item), Len(q) <= QueueMax, NEW item \in Item,
           Ordered(q), \A x \in Elems(q) : Prec(x, item)
    PROVE  /\ Push(q, item) \in Seq(Item) /\ Len(Push(q, item)) <= QueueMax
           /\ Elems(Push(q, item)) \subseteq Elems(q) \cup {Gap(item.seq), item}
           /\ Ordered(Push(q, item))
           /\ \A n \in Nat :
                Accounts(item, n) \/ (\E x \in Elems(q) : Accounts(x, n))
                    => \E x \in Elems(Push(q, item)) : Accounts(x, n)
<1>0. /\ QueueMax \in Nat /\ GapDrop \in Nat /\ 1 <= GapDrop /\ GapDrop <= QueueMax
      /\ MaxSeq \in Nat /\ Len(q) \in Nat /\ item.seq \in 0 .. MaxSeq
      /\ Elems(q) \subseteq Item
  <2>1. Elems(q) \subseteq Item /\ Len(q) \in Nat
    BY ElemsOf, LenProperties
  <2>2. item.seq \in 0 .. MaxSeq
    BY DEF Item
  <2>3. QED
    BY <2>1, <2>2 DEF StreamAssumption
<1>1. CASE Len(q) < QueueMax
  <2>1. Push(q, item) = Append(q, item)
    BY <1>1 DEF Push
  <2>2. QED
    BY <1>0, <1>1, <2>1, ElemsAppend, OrderedAppend
<1>2. CASE ~ (Len(q) < QueueMax)
  <2> DEFINE gap == Gap(item.seq)
             a == SubSeq(q, GapDrop + 1, Len(q))
             b == <<gap, item>>
  <2>1. /\ Len(q) = QueueMax /\ GapDrop + 1 \in 1 .. Len(q) + 1 /\ Len(q) \in 0 .. Len(q)
        /\ GapDrop + 1 <= Len(q) + 1 /\ Len(q) - (GapDrop + 1) + 1 = QueueMax - GapDrop
        /\ GapDrop + 1 .. Len(q) \subseteq 1 .. Len(q)
    BY <1>0, <1>2
  <2>2. /\ a \in Seq(Item) /\ Len(a) = QueueMax - GapDrop
        /\ Elems(a) = {q[i] : i \in GapDrop + 1 .. Len(q)}
        /\ Ordered(a)
    BY <2>1, ElemsSubSeq
  <2>3. Elems(a) \subseteq Elems(q)
    BY <2>1, <2>2 DEF Elems
  <2>4. gap \in Item /\ gap.kind = "gap" /\ gap.seq = item.seq
    BY <1>0, ItemsAreItems
  <2>5. b \in Seq(Item) /\ Len(b) = 2 /\ b[1] = gap /\ b[2] = item
    BY <2>4
  <2> HIDE DEF gap, b
  <2>6. Elems(b) = {gap, item} /\ Ordered(b)
    <3>1. 1 .. Len(b) = {1, 2}
      BY <2>5
    <3>2. Prec(gap, item)
      BY <1>0, <2>4 DEF Prec
    <3>3. QED
      BY <2>5, <3>1, <3>2 DEF Elems, Ordered
  <2>7. Before(a, b)
    <3>1. \A x \in Elems(q) : Prec(x, item) /\ Prec(x, gap)
      BY <1>0, <2>4 DEF Prec, Item
    <3>2. QED
      BY <2>3, <2>6, <3>1 DEF Before
  <2> HIDE DEF a
  <2>8. /\ a \o b \in Seq(Item) /\ Ordered(a \o b)
        /\ Elems(a \o b) = Elems(a) \cup {gap, item}
        /\ Len(a \o b) = Len(a) + 2 /\ (a \o b)[Len(a) + 1] = gap
    <3>1. /\ a \o b \in Seq(Item) /\ Len(a \o b) = Len(a) + Len(b)
          /\ \A i \in 1 .. Len(b) : (a \o b)[Len(a) + i] = b[i]
          /\ Elems(a \o b) = Elems(a) \cup Elems(b)
          /\ Ordered(a) /\ Ordered(b) /\ Before(a, b) => Ordered(a \o b)
      <4>1. a \in Seq(Item) /\ b \in Seq(Item)
        BY <2>2, <2>5
      <4>2. QED
        BY ONLY <4>1, ElemsConcat
    <3>2. 1 \in 1 .. Len(b)
      BY <2>5
    <3>3. QED
      BY <2>2, <2>5, <2>6, <2>7, <3>1, <3>2
  <2>9. Push(q, item) = Truncated(a \o b)
    BY <1>2 DEF Push, a, b, gap
  <2>10. /\ Push(q, item) \in Seq(Item) /\ Len(Push(q, item)) <= QueueMax
         /\ Ordered(Push(q, item))
         /\ Elems(Push(q, item)) =
                {(a \o b)[i] : i \in {k \in 1 .. Len(a \o b) : k <= QueueMax}}
    BY <2>8, <2>9, TruncatedEffect
  <2>11. Elems(Push(q, item)) \subseteq Elems(q) \cup {gap, item}
    <3>1. Elems(Push(q, item)) \subseteq Elems(a \o b)
      BY <2>10 DEF Elems
    <3>2. QED
      BY <2>3, <2>8, <3>1
  <2>12. gap \in Elems(Push(q, item))
    <3>1. Len(a) + 1 \in {k \in 1 .. Len(a \o b) : k <= QueueMax}
      BY <1>0, <2>2, <2>8
    <3>2. QED
      BY <2>8, <2>10, <3>1
  <2>13. ASSUME NEW n \in Nat, Accounts(item, n) \/ \E x \in Elems(q) : Accounts(x, n)
         PROVE  Accounts(gap, n)
    <3>1. \A x \in Elems(q) : x.seq <= item.seq /\ x.seq \in Nat
      BY <1>0 DEF Prec, Item
    <3>2. n <= item.seq
      BY <1>0, <2>13, <3>1 DEF Accounts
    <3>3. QED
      BY <1>0, <2>4, <3>2 DEF Accounts
  <2>14. QED
    BY <2>10, <2>11, <2>12, <2>13 DEF gap
<1>3. QED
  BY <1>1, <1>2

\* The end marker goes behind everything, or nowhere.
LEMMA ClosedEffect ==
    ASSUME StreamAssumption, NEW q \in Seq(Item), Len(q) <= QueueMax, Ordered(q),
           seq \in 0 .. MaxSeq, \A x \in Elems(q) : x.seq <= seq
    PROVE  /\ Closed(q) \in Seq(Item) /\ Len(Closed(q)) <= QueueMax
           /\ Ordered(Closed(q))
           /\ Elems(q) \subseteq Elems(Closed(q))
           /\ Elems(Closed(q)) \subseteq Elems(q) \cup {End}
<1>1. End \in Item /\ End.kind = "end" /\ End.seq = seq
  BY ItemsAreItems
<1>2. \A x \in Elems(q) : Prec(x, End)
  BY <1>1 DEF Prec
<1>3. /\ Append(q, End) \in Seq(Item) /\ Elems(Append(q, End)) = Elems(q) \cup {End}
      /\ Ordered(Append(q, End)) /\ Len(Append(q, End)) = Len(q) + 1
  BY <1>1, <1>2, ElemsAppend, OrderedAppend
<1>4. /\ Closed(q) \in Seq(Item) /\ Len(Closed(q)) <= QueueMax /\ Ordered(Closed(q))
      /\ Elems(Closed(q)) =
            {Append(q, End)[i] : i \in {k \in 1 .. Len(q) + 1 : k <= QueueMax}}
  BY <1>3, TruncatedEffect DEF Closed
<1>5. Elems(Closed(q)) \subseteq Elems(Append(q, End))
  BY <1>3, <1>4 DEF Elems
<1>6. Elems(q) \subseteq Elems(Closed(q))
  <2>1. Len(q) \in Nat /\ QueueMax \in Nat
    BY LenProperties DEF StreamAssumption
  <2>2. \A i \in 1 .. Len(q) : /\ i \in {k \in 1 .. Len(q) + 1 : k <= QueueMax}
                               /\ Append(q, End)[i] = q[i]
    BY <1>1, <2>1, AppendProperties
  <2>3. QED
    BY <1>4, <2>2 DEF Elems
<1>7. QED
  BY <1>3, <1>4, <1>5, <1>6

--------------------------------------------------------------------------------
(* Steps. *)

LEMMA UnderWayItems ==
    ASSUME StreamTypeOK
    PROVE  /\ UnderWay \subseteq Item
           /\ \A x \in UnderWay : x.seq \in Nat
<1>1. /\ Elems(received) \subseteq Item /\ Elems(remoteQueue) \subseteq Item
      /\ Elems(wire) \subseteq Item /\ Elems(queue) \subseteq Item
  BY ElemsOf DEF StreamTypeOK
<1>2. QED
  BY <1>1 DEF UnderWay, Item

\* At the start nothing is on its way.
LEMMA OrderInvInit == StreamAssumption /\ StreamInit => OrderInv
<1> SUFFICES ASSUME StreamAssumption, StreamInit PROVE OrderInv
  OBVIOUS
<1>1. <<>> \in Seq(Item) /\ Len(<<>>) = 0 /\ Elems(<<>>) = {}
  BY EmptySeq, ElemsOf
<1>2. StreamTypeOK
  <2>1. filter \in Session \cup {NoSession} /\ remote \in BOOLEAN
    BY DEF StreamAssumption, StreamInit
  <2>2. 0 \in 0 .. MaxSeq /\ 0 <= QueueMax /\ 0 <= WireMax
    BY DEF StreamAssumption
  <2>3. QED
    BY <1>1, <2>1, <2>2 DEF StreamInit, StreamTypeOK
<1>3. PartsInOrder /\ NothingAhead /\ LocalIsLocal
  BY <1>1 DEF StreamInit, PartsInOrder, Ordered, Before, NothingAhead, UnderWay, LocalIsLocal
<1>4. QED
  BY <1>2, <1>3 DEF OrderInv

\* _emit: the newest event is behind everything that is under way.
LEMMA EmitKeeps ==
    ASSUME StreamAssumption, OrderInv, NEW s \in Session, Emit(s)
    PROVE  /\ OrderInv'
           /\ AllAccounted => AllAccounted'
<1> DEFINE item == Event(seq + 1, s)
<1>1. /\ seq \in Nat /\ seq + 1 \in 0 .. MaxSeq /\ seq' = seq + 1
      /\ item \in Item /\ item.kind = "event" /\ item.seq = seq + 1 /\ item.session = s
  BY ItemsAreItems DEF Emit, OrderInv, StreamTypeOK, StreamAssumption
<1>2. UnderWay \subseteq Item /\ \A x \in UnderWay : x.seq \in Nat /\ x.seq <= seq
  BY UnderWayItems DEF OrderInv, NothingAhead
<1>3. /\ UNCHANGED <<remote, filter, unended, subscribed, wire, remoteQueue, remoteOpen,
                     received, reading>>
      /\ offered' = IF subscribed /\ Matches(filter, item) THEN offered \cup {seq + 1}
                                                          ELSE offered
  BY <1>1 DEF Emit, consumerVars
<1>4. LocalIsLocal'
  BY <1>3 DEF OrderInv, LocalIsLocal
<1>5. CASE ~ (subscribed /\ Matches(DaemonFilter, item))
  <2>1. UNCHANGED queue
    BY <1>5 DEF Emit
  <2>2. StreamTypeOK'
    BY <1>1, <1>3, <2>1 DEF OrderInv, StreamTypeOK
  <2>3. PartsInOrder'
    BY <1>3, <2>1 DEF OrderInv, PartsInOrder, Ordered, Before
  <2>4. UnderWay' = UnderWay
    BY <1>3, <2>1 DEF UnderWay
  <2>5. NothingAhead'
    BY <1>1, <1>2, <2>4 DEF NothingAhead
  <2>6. UNCHANGED offered
    BY <1>3, <1>5 DEF DaemonFilter, Matches
  <2>7. QED
    BY <1>3, <1>4, <2>2, <2>3, <2>4, <2>5, <2>6 DEF OrderInv, AllAccounted, Connected
<1>6. CASE subscribed /\ Matches(DaemonFilter, item)
  <2>1. queue' = Push(queue, item)
    BY <1>6 DEF Emit
  <2>2. queue \in Seq(Item) /\ Len(queue) <= QueueMax /\ Ordered(queue)
    BY DEF OrderInv, StreamTypeOK, PartsInOrder
  <2>3. Gap(seq + 1).kind = "gap" /\ Gap(seq + 1).seq = seq + 1
    BY <1>1, ItemsAreItems
  <2> HIDE DEF item
  <2>4. \A x \in UnderWay : Prec(x, item) /\ Prec(x, Gap(seq + 1))
    BY <1>1, <1>2, <2>3 DEF Prec
  <2>5. Elems(queue) \subseteq UnderWay
    BY DEF UnderWay
  <2>6. /\ queue' \in Seq(Item) /\ Len(queue') <= QueueMax
        /\ Elems(queue') \subseteq Elems(queue) \cup {Gap(seq + 1), item}
        /\ Ordered(queue')
        /\ \A n \in Nat : Accounts(item, n) \/ (\E x \in Elems(queue) : Accounts(x, n))
                             => \E x \in Elems(queue') : Accounts(x, n)
    BY <1>1, <2>1, <2>2, <2>4, <2>5, PushEffect
  <2>7. StreamTypeOK'
    BY <1>1, <1>3, <2>6 DEF OrderInv, StreamTypeOK
  <2>8. PartsInOrder'
    BY <1>3, <2>4, <2>6 DEF OrderInv, PartsInOrder, Ordered, Before, UnderWay
  <2>9. NothingAhead'
    <3>1. UnderWay' \subseteq UnderWay \cup {Gap(seq + 1), item}
      BY <1>3, <2>6 DEF UnderWay
    <3>2. QED
      BY <1>1, <1>2, <2>3, <3>1 DEF NothingAhead
  <2>10. ASSUME AllAccounted PROVE AllAccounted'
    <3> SUFFICES ASSUME Connected', NEW n \in offered' PROVE \E x \in UnderWay' : Accounts(x, n)
      BY DEF AllAccounted
    <3>1. n \in Nat
      BY <1>1, <1>3 DEF OrderInv, StreamTypeOK
    <3>2. CASE n = seq + 1
      BY <1>1, <2>6, <3>1, <3>2 DEF Accounts, UnderWay
    <3>3. CASE n \in offered
      <4>1. PICK x \in UnderWay : Accounts(x, n)
        BY <1>3, <2>10, <3>3 DEF AllAccounted, Connected
      <4>2. QED
        BY <1>3, <2>6, <3>1, <4>1 DEF UnderWay
    <3>4. QED
      BY <1>3, <3>2, <3>3
  <2>11. QED
    BY <1>4, <2>7, <2>8, <2>9, <2>10 DEF OrderInv
<1>7. QED
  BY <1>5, <1>6

\* aclose of the backend.
LEMMA SubscribersCloseKeeps ==
    ASSUME StreamAssumption, OrderInv, SubscribersClose
    PROVE  /\ OrderInv'
           /\ AllAccounted => AllAccounted'
<1>1. /\ queue' = Closed(queue) /\ subscribed' = FALSE /\ unended' \in BOOLEAN
      /\ UNCHANGED <<remote, filter, seq, wire, remoteQueue, remoteOpen, received, reading, offered>>
  BY DEF SubscribersClose, consumerVars
<1>2. UnderWay \subseteq Item /\ \A x \in UnderWay : x.seq \in Nat /\ x.seq <= seq
  BY UnderWayItems DEF OrderInv, NothingAhead
<1>3. /\ queue \in Seq(Item) /\ Len(queue) <= QueueMax /\ Ordered(queue) /\ seq \in 0 .. MaxSeq
      /\ Elems(queue) \subseteq UnderWay
  BY DEF OrderInv, StreamTypeOK, PartsInOrder, UnderWay
<1>4. /\ queue' \in Seq(Item) /\ Len(queue') <= QueueMax /\ Ordered(queue')
      /\ Elems(queue) \subseteq Elems(queue')
      /\ Elems(queue') \subseteq Elems(queue) \cup {End}
  BY <1>1, <1>2, <1>3, ClosedEffect
<1>5. End.kind = "end" /\ End.seq = seq
  BY <1>3, ItemsAreItems
<1>6. \A x \in UnderWay : Prec(x, End)
  BY <1>2, <1>5 DEF Prec
<1>7. StreamTypeOK' /\ LocalIsLocal'
  BY <1>1, <1>4 DEF OrderInv, StreamTypeOK, LocalIsLocal
<1>8. PartsInOrder'
  BY <1>1, <1>4, <1>6 DEF OrderInv, PartsInOrder, Ordered, Before, UnderWay
<1>9. UnderWay \subseteq UnderWay' /\ UnderWay' \subseteq UnderWay \cup {End}
  BY <1>1, <1>4 DEF UnderWay
<1>10. NothingAhead'
  BY <1>1, <1>2, <1>3, <1>5, <1>9 DEF NothingAhead
<1>11. AllAccounted => AllAccounted'
  BY <1>1, <1>9 DEF AllAccounted, Connected
<1>12. QED
  BY <1>7, <1>8, <1>10, <1>11 DEF OrderInv

\* push_pump: the oldest item of the daemon's queue becomes the newest frame.
LEMMA PumpKeeps ==
    ASSUME StreamAssumption, OrderInv, Pump
    PROVE  /\ OrderInv'
           /\ AllAccounted => AllAccounted'
<1> DEFINE h == Head(queue)
<1>1. /\ remote /\ queue # <<>> /\ Len(wire) < WireMax
      /\ queue' = Tail(queue)
      /\ wire' = IF h.kind = "end" THEN wire ELSE Append(wire, h)
      /\ UNCHANGED <<remote, filter, unended, seq, subscribed, remoteQueue, remoteOpen, received,
                     reading, offered>>
  BY DEF Pump, consumerVars
<1>2. queue \in Seq(Item) /\ Ordered(queue) /\ wire \in Seq(Item) /\ Ordered(wire)
      /\ Len(queue) <= QueueMax /\ Len(wire) \in Nat /\ WireMax \in Nat /\ QueueMax \in Nat
  BY LenProperties DEF OrderInv, StreamTypeOK, PartsInOrder, StreamAssumption
<1>3. /\ Tail(queue) \in Seq(Item) /\ Len(Tail(queue)) = Len(queue) - 1 /\ Len(queue) \in Nat
      /\ h \in Item /\ Elems(queue) = {h} \cup Elems(Tail(queue))
      /\ Ordered(Tail(queue)) /\ \A x \in Elems(Tail(queue)) : Prec(h, x)
  BY <1>1, <1>2, HeadTail
<1> HIDE DEF h
<1>4. \A x \in Elems(wire) : Prec(x, h)
  BY <1>3 DEF OrderInv, PartsInOrder, Before
<1>5. /\ wire' \in Seq(Item) /\ Len(wire') <= WireMax /\ Ordered(wire')
      /\ Elems(wire') = IF h.kind = "end" THEN Elems(wire) ELSE Elems(wire) \cup {h}
  <2>1. CASE h.kind = "end"
    BY <1>1, <1>2, <2>1
  <2>2. CASE h.kind # "end"
    BY <1>1, <1>2, <1>3, <1>4, <2>2, ElemsAppend, OrderedAppend
  <2>3. QED
    BY <2>1, <2>2
<1>6. StreamTypeOK' /\ LocalIsLocal'
  BY <1>1, <1>2, <1>3, <1>5 DEF OrderInv, StreamTypeOK, LocalIsLocal
<1>7. PartsInOrder'
  BY <1>1, <1>3, <1>5 DEF OrderInv, PartsInOrder, Before
<1>8. UnderWay' \subseteq UnderWay /\ \A x \in UnderWay : x \in UnderWay' \/ x.kind = "end"
  BY <1>1, <1>3, <1>5 DEF UnderWay
<1>9. NothingAhead'
  BY <1>1, <1>8 DEF OrderInv, NothingAhead
<1>10. AllAccounted => AllAccounted'
  BY <1>1, <1>8 DEF AllAccounted, Connected, Accounts
<1>11. QED
  BY <1>6, <1>7, <1>9, <1>10 DEF OrderInv

\* _dispatch_push: the oldest frame is pushed to the client's subscriber.
LEMMA DispatchKeeps ==
    ASSUME StreamAssumption, OrderInv, Dispatch
    PROVE  /\ OrderInv'
           /\ AllAccounted /\ (remote => filter = NoSession) => AllAccounted'
<1> DEFINE h == Head(wire)
<1>1. /\ wire # <<>> /\ wire' = Tail(wire)
      /\ remoteQueue' = IF reading /\ Matches(filter, h) THEN Push(remoteQueue, h) ELSE remoteQueue
      /\ UNCHANGED <<remote, filter, unended, seq, queue, subscribed, remoteOpen, received,
                     reading, offered>>
  BY DEF Dispatch, consumerVars
<1>2. /\ wire \in Seq(Item) /\ Ordered(wire) /\ remoteQueue \in Seq(Item)
      /\ Len(remoteQueue) <= QueueMax /\ Ordered(remoteQueue) /\ Len(wire) <= WireMax
      /\ WireMax \in Nat
  BY DEF OrderInv, StreamTypeOK, PartsInOrder, StreamAssumption
<1>3. /\ Tail(wire) \in Seq(Item) /\ Len(Tail(wire)) = Len(wire) - 1 /\ Len(wire) \in Nat
      /\ h \in Item /\ Elems(wire) = {h} \cup Elems(Tail(wire))
      /\ Ordered(Tail(wire)) /\ \A x \in Elems(Tail(wire)) : Prec(h, x)
  BY <1>1, <1>2, HeadTail
<1>4. remote
  BY <1>1 DEF OrderInv, LocalIsLocal
<1> HIDE DEF h
<1>5. \A x \in Elems(remoteQueue) : Prec(x, h)
  BY <1>3 DEF OrderInv, PartsInOrder, Before
<1>6. UnderWay \subseteq Item /\ \A x \in UnderWay : x.seq \in Nat /\ x.seq <= seq
  BY UnderWayItems DEF OrderInv, NothingAhead
<1>7. h \in UnderWay /\ h.seq \in 0 .. MaxSeq
  BY <1>3 DEF UnderWay, Item
<1>8. Gap(h.seq).kind = "gap" /\ Gap(h.seq).seq = h.seq
  BY <1>7, ItemsAreItems
<1> DEFINE g == Gap(h.seq)
<1> HIDE DEF g
<1>9. /\ remoteQueue' \in Seq(Item) /\ Len(remoteQueue') <= QueueMax /\ Ordered(remoteQueue')
      /\ Elems(remoteQueue') \subseteq Elems(remoteQueue) \cup {g, h}
      /\ reading /\ Matches(filter, h) => \A n \in Nat :
            Accounts(h, n) \/ (\E x \in Elems(remoteQueue) : Accounts(x, n))
                => \E x \in Elems(remoteQueue') : Accounts(x, n)
  <2>1. CASE reading /\ Matches(filter, h)
    BY <1>1, <1>2, <1>3, <1>5, <2>1, PushEffect DEF g
  <2>2. CASE ~ (reading /\ Matches(filter, h))
    BY <1>1, <1>2, <2>2
  <2>3. QED
    BY <2>1, <2>2
<1>10. /\ \A x \in Elems(received) : Prec(x, h) /\ Prec(x, g)
       /\ \A x \in Elems(Tail(wire)) \cup Elems(queue) : Prec(h, x) /\ Prec(g, x)
  <2>1. \A x \in Elems(received) : Prec(x, h) /\ x \in UnderWay
    BY <1>3 DEF OrderInv, PartsInOrder, Before, UnderWay
  <2>2. \A x \in Elems(Tail(wire)) \cup Elems(queue) : Prec(h, x) /\ x \in UnderWay
    BY <1>3 DEF OrderInv, PartsInOrder, Before, UnderWay
  <2>3. QED
    BY <1>6, <1>7, <1>8, <2>1, <2>2 DEF Prec, g
<1>11. StreamTypeOK' /\ LocalIsLocal'
  BY <1>1, <1>2, <1>3, <1>4, <1>9 DEF OrderInv, StreamTypeOK, LocalIsLocal
<1>12. PartsInOrder'
  BY <1>1, <1>3, <1>9, <1>10 DEF OrderInv, PartsInOrder, Before
<1>13. NothingAhead'
  <2>1. UnderWay' \subseteq UnderWay \cup {g, h}
    BY <1>1, <1>3, <1>9 DEF UnderWay
  <2>2. QED
    BY <1>1, <1>6, <1>7, <1>8, <2>1 DEF NothingAhead, g
<1>14. ASSUME AllAccounted, filter = NoSession PROVE AllAccounted'
  <2> SUFFICES ASSUME Connected', NEW n \in offered' PROVE \E x \in UnderWay' : Accounts(x, n)
    BY DEF AllAccounted
  <2>1. n \in Nat /\ reading /\ Matches(filter, h)
    BY <1>1, <1>14 DEF OrderInv, StreamTypeOK, Connected, Matches
  <2>2. PICK x \in UnderWay : Accounts(x, n)
    BY <1>1, <1>14 DEF AllAccounted, Connected
  <2>3. QED
    BY <1>1, <1>3, <1>9, <2>1, <2>2 DEF UnderWay
<1>15. QED
  BY <1>4, <1>11, <1>12, <1>13, <1>14 DEF OrderInv

\* The connection is lost: what the client has is closed, the rest is gone.
LEMMA ConnectionEndsKeeps ==
    ASSUME StreamAssumption, OrderInv, ConnectionEnds
    PROVE  OrderInv' /\ AllAccounted'
<1>1. /\ remoteOpen /\ remoteOpen' = FALSE /\ subscribed' = FALSE /\ queue' = <<>> /\ wire' = <<>>
      /\ remoteQueue' = IF reading THEN Closed(remoteQueue) ELSE remoteQueue
      /\ UNCHANGED <<remote, filter, unended, seq, received, reading, offered>>
  BY DEF ConnectionEnds, consumerVars
<1>2. /\ remoteQueue \in Seq(Item) /\ Len(remoteQueue) <= QueueMax /\ Ordered(remoteQueue)
      /\ seq \in 0 .. MaxSeq /\ Elems(remoteQueue) \subseteq UnderWay /\ remote
  BY <1>1 DEF OrderInv, StreamTypeOK, PartsInOrder, UnderWay, LocalIsLocal
<1>3. UnderWay \subseteq Item /\ \A x \in UnderWay : x.seq \in Nat /\ x.seq <= seq
  BY UnderWayItems DEF OrderInv, NothingAhead
<1>4. /\ remoteQueue' \in Seq(Item) /\ Len(remoteQueue') <= QueueMax /\ Ordered(remoteQueue')
      /\ Elems(remoteQueue') \subseteq Elems(remoteQueue) \cup {End}
  BY <1>1, <1>2, <1>3, ClosedEffect
<1>5. End.kind = "end" /\ End.seq = seq
  BY <1>2, ItemsAreItems
<1>6. \A x \in UnderWay : Prec(x, End)
  BY <1>3, <1>5 DEF Prec
<1>7. <<>> \in Seq(Item) /\ Len(<<>>) = 0 /\ Elems(<<>>) = {} /\ Ordered(<<>>)
  BY EmptySeq, ElemsOf DEF Ordered
<1>8. StreamTypeOK' /\ LocalIsLocal'
  <2>1. 0 <= QueueMax /\ 0 <= WireMax
    BY DEF StreamAssumption
  <2>2. QED
    BY <1>1, <1>2, <1>4, <1>7, <2>1 DEF OrderInv, StreamTypeOK, LocalIsLocal
<1>9. PartsInOrder'
  BY <1>1, <1>4, <1>6, <1>7 DEF OrderInv, PartsInOrder, Before, UnderWay
<1>10. UnderWay' \subseteq UnderWay \cup {End}
  BY <1>1, <1>4, <1>7 DEF UnderWay
<1>11. NothingAhead'
  BY <1>1, <1>2, <1>3, <1>5, <1>10 DEF NothingAhead
<1>12. AllAccounted'
  BY <1>1, <1>2 DEF AllAccounted, Connected
<1>13. QED
  BY <1>8, <1>9, <1>11, <1>12 DEF OrderInv

\* The iterator yields the oldest item of the consumer's queue, or returns.
LEMMA TakeKeeps ==
    ASSUME StreamAssumption, OrderInv, Take
    PROVE  /\ OrderInv'
           /\ AllAccounted => AllAccounted'
<1>1. UNCHANGED <<remote, filter, unended, seq, subscribed, wire, remoteOpen, offered>>
  BY DEF Take, consumerVars
<1>2. /\ received \in Seq(Item) /\ Ordered(received)
      /\ queue \in Seq(Item) /\ Ordered(queue) /\ Len(queue) <= QueueMax
      /\ remoteQueue \in Seq(Item) /\ Ordered(remoteQueue) /\ Len(remoteQueue) <= QueueMax
      /\ QueueMax \in Nat
  BY DEF OrderInv, StreamTypeOK, PartsInOrder, StreamAssumption
<1>3. ASSUME NEW h \in Item, Consumed(h), \A x \in Elems(received) : Prec(x, h)
      PROVE  /\ received' \in Seq(Item) /\ Ordered(received') /\ reading' \in BOOLEAN
             /\ Elems(received') = IF h.kind = "end" THEN Elems(received)
                                                   ELSE Elems(received) \cup {h}
             /\ reading' <=> h.kind # "end"
  <2>1. CASE h.kind = "end"
    BY <1>2, <1>3, <2>1 DEF Consumed
  <2>2. CASE h.kind # "end"
    <3>1. received' = Append(received, h) /\ reading' = TRUE
      BY <1>3, <2>2 DEF Consumed
    <3>2. Append(received, h) \in Seq(Item) /\ Elems(Append(received, h)) = Elems(received) \cup {h}
      BY <1>2, ElemsAppend
    <3>3. Ordered(Append(received, h))
      BY <1>2, <1>3, OrderedAppend
    <3>4. QED
      BY <2>2, <3>1, <3>2, <3>3
  <2>3. QED
    BY <2>1, <2>2
<1>4. CASE /\ ~ remote /\ queue # <<>> /\ Consumed(Head(queue)) /\ queue' = Tail(queue)
           /\ UNCHANGED remoteQueue
  <2> DEFINE h == Head(queue)
  <2>1. /\ Tail(queue) \in Seq(Item) /\ Len(Tail(queue)) = Len(queue) - 1 /\ Len(queue) \in Nat
        /\ h \in Item /\ Elems(queue) = {h} \cup Elems(Tail(queue))
        /\ Ordered(Tail(queue)) /\ \A x \in Elems(Tail(queue)) : Prec(h, x)
    BY <1>2, <1>4, HeadTail
  <2>2. Consumed(h)
    BY <1>4
  <2> HIDE DEF h
  <2>3. /\ received' \in Seq(Item) /\ Ordered(received') /\ reading' \in BOOLEAN
        /\ Elems(received') = IF h.kind = "end" THEN Elems(received) ELSE Elems(received) \cup {h}
        /\ reading' <=> h.kind # "end"
    <3>1. \A x \in Elems(received) : Prec(x, h)
      BY <2>1 DEF OrderInv, PartsInOrder, Before
    <3>2. QED
      BY <1>3, <2>1, <2>2, <3>1
  <2>4. StreamTypeOK' /\ LocalIsLocal'
    BY <1>1, <1>2, <1>4, <2>1, <2>3 DEF OrderInv, StreamTypeOK, LocalIsLocal
  <2>5. Elems(<<>>) = {}
    BY EmptySeq, ElemsOf
  <2>6. PartsInOrder'
    BY <1>1, <1>4, <2>1, <2>3, <2>5 DEF OrderInv, PartsInOrder, Before, LocalIsLocal
  <2>7. UnderWay' \subseteq UnderWay /\ (reading' => UnderWay' = UnderWay)
    BY <1>1, <1>4, <2>1, <2>3 DEF UnderWay
  <2>8. NothingAhead'
    BY <1>1, <2>7 DEF OrderInv, NothingAhead
  <2>9. AllAccounted => AllAccounted'
    BY <1>1, <2>7 DEF AllAccounted, Connected, Take
  <2>10. QED
    BY <2>4, <2>6, <2>8, <2>9 DEF OrderInv
<1>5. CASE /\ remote /\ remoteQueue # <<>> /\ Consumed(Head(remoteQueue))
           /\ remoteQueue' = Tail(remoteQueue) /\ UNCHANGED queue
  <2> DEFINE h == Head(remoteQueue)
  <2>1. /\ Tail(remoteQueue) \in Seq(Item) /\ Len(Tail(remoteQueue)) = Len(remoteQueue) - 1
        /\ Len(remoteQueue) \in Nat
        /\ h \in Item /\ Elems(remoteQueue) = {h} \cup Elems(Tail(remoteQueue))
        /\ Ordered(Tail(remoteQueue)) /\ \A x \in Elems(Tail(remoteQueue)) : Prec(h, x)
    BY <1>2, <1>5, HeadTail
  <2>2. Consumed(h)
    BY <1>5
  <2> HIDE DEF h
  <2>3. /\ received' \in Seq(Item) /\ Ordered(received') /\ reading' \in BOOLEAN
        /\ Elems(received') = IF h.kind = "end" THEN Elems(received) ELSE Elems(received) \cup {h}
        /\ reading' <=> h.kind # "end"
    <3>1. \A x \in Elems(received) : Prec(x, h)
      BY <2>1 DEF OrderInv, PartsInOrder, Before
    <3>2. QED
      BY <1>3, <2>1, <2>2, <3>1
  <2>4. StreamTypeOK' /\ LocalIsLocal'
    BY <1>1, <1>2, <1>5, <2>1, <2>3 DEF OrderInv, StreamTypeOK, LocalIsLocal
  <2>5. PartsInOrder'
    BY <1>1, <1>5, <2>1, <2>3 DEF OrderInv, PartsInOrder, Before
  <2>6. UnderWay' \subseteq UnderWay /\ (reading' => UnderWay' = UnderWay)
    BY <1>1, <1>5, <2>1, <2>3 DEF UnderWay
  <2>7. NothingAhead'
    BY <1>1, <2>6 DEF OrderInv, NothingAhead
  <2>8. AllAccounted => AllAccounted'
    BY <1>1, <2>6 DEF AllAccounted, Connected, Take
  <2>9. QED
    BY <2>4, <2>5, <2>7, <2>8 DEF OrderInv
<1>6. QED
  BY <1>4, <1>5 DEF Take

\* The consumer breaks out of its loop.
LEMMA ConsumerLeavesKeeps ==
    ASSUME StreamAssumption, OrderInv, ConsumerLeaves
    PROVE  OrderInv' /\ AllAccounted'
<1>1. /\ reading' = FALSE
      /\ subscribed' \in BOOLEAN
      /\ UNCHANGED <<remote, filter, unended, seq, wire, remoteOpen, received, offered>>
      /\ queue' \in {queue, <<>>} /\ remoteQueue' \in {remoteQueue, <<>>}
  BY DEF ConsumerLeaves, consumerVars, OrderInv, StreamTypeOK
<1>2. <<>> \in Seq(Item) /\ Len(<<>>) = 0 /\ Elems(<<>>) = {} /\ Ordered(<<>>)
  BY EmptySeq, ElemsOf DEF Ordered
<1>3. /\ Elems(queue') \subseteq Elems(queue) /\ Ordered(queue') /\ queue' \in Seq(Item)
      /\ Len(queue') <= QueueMax
      /\ Elems(remoteQueue') \subseteq Elems(remoteQueue) /\ Ordered(remoteQueue')
      /\ remoteQueue' \in Seq(Item) /\ Len(remoteQueue') <= QueueMax
  <2>1. 0 <= QueueMax
    BY DEF StreamAssumption
  <2>2. /\ queue \in Seq(Item) /\ Len(queue) <= QueueMax /\ Ordered(queue)
        /\ remoteQueue \in Seq(Item) /\ Len(remoteQueue) <= QueueMax /\ Ordered(remoteQueue)
    BY DEF OrderInv, StreamTypeOK, PartsInOrder
  <2>3. /\ Elems(queue') \subseteq Elems(queue) /\ Ordered(queue') /\ queue' \in Seq(Item)
        /\ Len(queue') <= QueueMax
    BY <1>1, <1>2, <2>1, <2>2
  <2>4. /\ Elems(remoteQueue') \subseteq Elems(remoteQueue) /\ Ordered(remoteQueue')
        /\ remoteQueue' \in Seq(Item) /\ Len(remoteQueue') <= QueueMax
    BY <1>1, <1>2, <2>1, <2>2
  <2>5. QED
    BY <2>3, <2>4
<1>4. StreamTypeOK' /\ LocalIsLocal'
  BY <1>1, <1>3 DEF OrderInv, StreamTypeOK, LocalIsLocal
<1>5. PartsInOrder'
  BY <1>1, <1>3 DEF OrderInv, PartsInOrder, Before
<1>6. NothingAhead'
  BY <1>1, <1>3 DEF OrderInv, NothingAhead, UnderWay
<1>7. AllAccounted'
  BY <1>1 DEF AllAccounted, Connected
<1>8. QED
  BY <1>4, <1>5, <1>6, <1>7 DEF OrderInv

LEMMA OrderInvStep ==
    ASSUME StreamAssumption, OrderInv, [StreamNext]_streamVars
    PROVE  /\ OrderInv'
           /\ AllAccounted /\ (remote => filter = NoSession) => AllAccounted'
           /\ UNCHANGED consumerVars
<1>1. ASSUME NEW s \in Session, Emit(s)
      PROVE  OrderInv' /\ (AllAccounted => AllAccounted') /\ UNCHANGED consumerVars
  <2>1. OrderInv' /\ (AllAccounted => AllAccounted')
    BY <1>1, EmitKeeps
  <2>2. UNCHANGED consumerVars
    BY <1>1 DEF Emit, consumerVars
  <2>3. QED
    BY <2>1, <2>2
<1>2. CASE SubscribersClose
  BY <1>2, SubscribersCloseKeeps DEF SubscribersClose
<1>3. CASE Pump
  BY <1>3, PumpKeeps DEF Pump
<1>4. CASE Dispatch
  BY <1>4, DispatchKeeps DEF Dispatch
<1>5. CASE ConnectionEnds
  BY <1>5, ConnectionEndsKeeps DEF ConnectionEnds
<1>6. CASE Take
  BY <1>6, TakeKeeps DEF Take
<1>7. CASE ConsumerLeaves
  BY <1>7, ConsumerLeavesKeeps DEF ConsumerLeaves
<1>8. CASE UNCHANGED streamVars
  BY <1>8 DEF streamVars, consumerVars, OrderInv, StreamTypeOK, PartsInOrder, NothingAhead, LocalIsLocal,
     UnderWay, AllAccounted, Connected
<1>9. QED
  BY <1>1, <1>2, <1>3, <1>4, <1>5, <1>6, <1>7, <1>8 DEF StreamNext

--------------------------------------------------------------------------------
(* From the parts to the whole stream. *)

LEMMA StreamOfParts ==
    ASSUME OrderInv
    PROVE  Stream \in Seq(Item) /\ Ordered(Stream) /\ Elems(Stream) = UnderWay
<1> DEFINE a == received \o remoteQueue
           b == a \o wire
<1>1. /\ received \in Seq(Item) /\ remoteQueue \in Seq(Item) /\ wire \in Seq(Item)
      /\ queue \in Seq(Item)
  BY DEF OrderInv, StreamTypeOK
<1>2. a \in Seq(Item) /\ Elems(a) = Elems(received) \cup Elems(remoteQueue) /\ Ordered(a)
  <2>1. Ordered(received) /\ Ordered(remoteQueue) /\ Before(received, remoteQueue)
    BY DEF OrderInv, PartsInOrder
  <2>2. QED
    BY ONLY <1>1, <2>1, ElemsConcat
<1> HIDE DEF a
<1>3. b \in Seq(Item) /\ Elems(b) = Elems(a) \cup Elems(wire) /\ Ordered(b)
  <2>1. Ordered(wire) /\ Before(a, wire)
    BY <1>2 DEF OrderInv, PartsInOrder, Before
  <2>2. QED
    BY ONLY <1>1, <1>2, <2>1, ElemsConcat
<1> HIDE DEF b
<1>4. b \o queue \in Seq(Item) /\ Elems(b \o queue) = Elems(b) \cup Elems(queue) /\ Ordered(b \o queue)
  <2>1. Ordered(queue) /\ Before(b, queue)
    BY <1>2, <1>3 DEF OrderInv, PartsInOrder, Before
  <2>2. QED
    BY ONLY <1>1, <1>3, <2>1, ElemsConcat
<1>5. Stream = b \o queue
  BY DEF Stream, b, a
<1>6. QED
  BY <1>2, <1>3, <1>4, <1>5 DEF UnderWay

LEMMA StreamSafety ==
    ASSUME OrderInv
    PROVE  StreamInOrder /\ (AllAccounted => LossIsAnnounced)
<1>1. Stream \in Seq(Item) /\ Ordered(Stream) /\ Elems(Stream) = UnderWay
  BY StreamOfParts
<1>2. DOMAIN Stream = 1 .. Len(Stream)
  BY <1>1, LenProperties
<1> HIDE DEF Stream
<1>3. StreamInOrder
  BY <1>1, <1>2 DEF StreamInOrder, Ordered, Prec
<1>4. ASSUME AllAccounted PROVE LossIsAnnounced
  <2> SUFFICES ASSUME Connected, NEW n \in offered
               PROVE  \E i \in DOMAIN Stream : Accounts(Stream[i], n)
    BY DEF LossIsAnnounced
  <2>1. PICK x \in Elems(Stream) : Accounts(x, n)
    BY <1>1, <1>4 DEF AllAccounted
  <2>2. PICK i \in 1 .. Len(Stream) : x = Stream[i]
    BY DEF Elems
  <2>3. QED
    BY <1>2, <2>1, <2>2
<1>5. QED
  BY <1>3, <1>4

\* Whatever overflows on the way, and wherever the connection is cut: a consumer, in the
\* daemon or behind a WebSocket, gets the events in the order of their numbers and
\* none twice (_Subscriber.push, push_pump, _dispatch_push).
THEOREM StreamOrdered ==
    ASSUME StreamAssumption
    PROVE  StreamSpec => []StreamInOrder
<1>1. StreamInit => OrderInv
  BY OrderInvInit
<1>2. OrderInv /\ [StreamNext]_streamVars => OrderInv'
  BY OrderInvStep
<1>3. OrderInv => StreamInOrder
  BY StreamSafety
<1>4. QED
  BY <1>1, <1>2, <1>3, PTL DEF StreamSpec

\* And what it misses it is told of by a gap later in its stream, provided that a consumer
\* behind a WebSocket asks for every session, as the remote terminal and the web page do:
\* the filter of one session takes the gaps of the daemon out (_dispatch_push).
THEOREM StreamComplete ==
    ASSUME StreamAssumption, RemoteFilter \subseteq {NoSession}
    PROVE  StreamSpec => []StreamIsComplete
<1> DEFINE CompleteInv == OrderInv /\ AllAccounted /\ (remote => filter = NoSession)
<1>1. StreamInit => CompleteInv
  <2>1. ASSUME StreamInit PROVE AllAccounted /\ (remote => filter = NoSession)
    BY <2>1 DEF StreamInit, AllAccounted
  <2>2. QED
    BY <2>1, OrderInvInit
<1>2. CompleteInv /\ [StreamNext]_streamVars => CompleteInv'
  BY OrderInvStep DEF consumerVars
<1>3. CompleteInv => StreamIsComplete
  BY StreamSafety DEF StreamIsComplete
<1> HIDE DEF CompleteInv
<1>4. QED
  BY <1>1, <1>2, <1>3, PTL DEF StreamSpec
================================================================================
