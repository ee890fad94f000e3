--------------------------- MODULE SessionStoreProofs ---------------------------
(* Proofs about SessionStore, for any sessions, turns, calls and bounds.          *)
EXTENDS SessionStore, SequenceTheorems, FiniteSetTheorems, WellFoundedInduction, TLAPS

(* What SessionsAreSound needs to be inductive: of the variables, those that say   *)
(* where things are, and of the transcripts only whether they exist and are more    *)
(* than a header.                                                                   *)

PlaceTypes ==
    /\ loaded \in [Session -> Object \cup {NoObject}]
    /\ id \in [Object -> Session \cup {NoSession}]
    /\ fresh \in [Object -> BOOLEAN]
    /\ active \in [Object -> Turn \cup {NoTurn}]
    /\ turn \in [Turn -> Live \cup {"unsent", "done", "stopped"}]
    /\ on \in [Turn -> Object \cup {NoObject}]
    /\ call \in [Call -> {"uncalled", "waiting", "running", "over"}]
    /\ does \in [Call -> {"reset", "compact"}]
    /\ at \in [Call -> Object \cup {NoObject}]
    /\ deleted \subseteq Session

\* The manager finds a session's object under its id; the object's writer knows
\* whether there is a file, and the file of such a session is listed.
ManagerKnows ==
    \A s \in Session : loaded[s] # NoObject =>
        /\ id[loaded[s]] = s
        /\ fresh[loaded[s]] <=> ~Exists(s)
        /\ Exists(s) => s \in index

\* A session in memory that has no file yet was never given up, so nobody holds
\* another object of it.
UnwrittenHasOneObject ==
    \A s \in Session : loaded[s] # NoObject /\ ~Exists(s) =>
        \A o \in Object : id[o] = s => o = loaded[s]

\* An id is given out once.
IdsAreCreated ==
    /\ \A o \in Object : id[o] # NoSession => id[o] \in created
    /\ DOMAIN disk \subseteq created
    /\ deleted \subseteq created

\* Only the header of a first write that was cut short is not listed.
FilesAreListed == \A s \in DOMAIN disk : s \in index \/ disk[s] = <<Marker("session")>>

PendingIsUnwritten == \A s \in pending : ~Exists(s)

\* What sessions_delete removed is out of the memory too.
DeletedIsGone == \A s \in deleted : ~Exists(s) /\ s \notin index /\ loaded[s] = NoObject

StoreIsInOrder ==
    /\ ManagerKnows /\ UnwrittenHasOneObject /\ IdsAreCreated
    /\ FilesAreListed /\ PendingIsUnwritten /\ DeletedIsGone

\* A turn at work is the active one of its object; its prompt is in the file.
TurnsAtWork ==
    \A t \in Turn : turn[t] \in Live =>
        /\ on[t] \in Object
        /\ active[on[t]] = t
        /\ turn[t] \in {"prompted", "committed"} => Exists(id[on[t]])

\* An object with an active turn is the one the manager has for its session.
ActiveIsLoaded ==
    \A o \in Object : active[o] # NoTurn =>
        /\ turn[active[o]] \in Live
        /\ on[active[o]] = o
        /\ id[o] \in Session
        /\ loaded[id[o]] = o

\* A reset or compaction under way has an object of a session, and a compaction
\* has none of a session that counts as deleted.
CallsAtWork ==
    \A k \in Call : call[k] \in {"waiting", "running"} =>
        /\ at[k] \in Object
        /\ id[at[k]] \in Session
        /\ call[k] = "running" => does[k] = "compact"
        /\ does[k] = "compact" => id[at[k]] \notin deleted

StoreIndInv == PlaceTypes /\ StoreIsInOrder /\ TurnsAtWork /\ ActiveIsLoaded /\ CallsAtWork

--------------------------------------------------------------------------------
(* The operations on the manager and the files, one lemma each.                   *)

\* get_or_load and create: what is known of the object they return.
Opens(s, o) ==
    /\ loaded' = [loaded EXCEPT ![s] = o]
    /\ id' = [id EXCEPT ![o] = s]
    /\ fresh' = [fresh EXCEPT ![o] = ~Exists(s)]
    /\ created \subseteq created' /\ s \in created'
    /\ s \notin deleted
    /\ \/ loaded[s] = o
       \/ loaded[s] = NoObject /\ ~Held(o) /\ \A q \in Session : loaded[q] # o
    /\ ~Exists(s) => \A p \in Object : id[p] = s => p = o

LEMMA ObjectIsOpened ==
    ASSUME StoreIndInv, NEW s \in Session, NEW o \in Object,
           GetOrLoad(s, o) \/ Create(s, o)
    PROVE  Opens(s, o) /\ Known(s, o)
<1> USE NamesAreDistinct
<1> USE DEF StoreIndInv, PlaceTypes, StoreIsInOrder
<1>1. Known(s, o) /\ fresh' = [fresh EXCEPT ![o] = ~Exists(s)]
  BY DEF GetOrLoad, Create, Known
<1>2. ASSUME ObjectsLeft, o = NextObject
      PROVE  ~Held(o) /\ \A q \in Session : loaded[q] # o
  <2>1. Unused(o)
    BY <1>2 DEF ObjectsLeft, NextObject
  <2>2. QED
    BY <2>1 DEF Unused
<1>3. CASE InMemory(s, o)
  <2>1. loaded[s] = o /\ id[o] = s /\ UNCHANGED <<loaded, created, id>>
    BY <1>3 DEF InMemory, ManagerKnows
  <2>2. loaded' = [loaded EXCEPT ![s] = o] /\ id' = [id EXCEPT ![o] = s]
    BY <2>1
  <2>3. s \in created' /\ s \notin deleted
    BY <2>1 DEF IdsAreCreated, DeletedIsGone
  <2>4. ~Exists(s) => \A p \in Object : id[p] = s => p = o
    BY <2>1 DEF UnwrittenHasOneObject
  <2>5. QED
    BY <1>1, <2>1, <2>2, <2>3, <2>4 DEF Opens
<1>4. CASE FromDisk(s, o)
  <2>1. /\ loaded[s] = NoObject /\ Exists(s)
        /\ loaded' = [loaded EXCEPT ![s] = o] /\ id' = [id EXCEPT ![o] = s]
        /\ created' = created
        /\ ~Held(o) /\ \A q \in Session : loaded[q] # o
    BY <1>2, <1>4 DEF FromDisk
  <2>2. s \notin deleted /\ s \in created
    BY <2>1 DEF DeletedIsGone, IdsAreCreated, Exists
  <2>3. QED
    BY <1>1, <2>1, <2>2 DEF Opens
<1>5. CASE Blank(s, o)
  <2>1. /\ s \notin created /\ created' = created \cup {s}
        /\ loaded' = [loaded EXCEPT ![s] = o] /\ id' = [id EXCEPT ![o] = s]
        /\ ~Held(o) /\ \A q \in Session : loaded[q] # o
    BY <1>2, <1>5 DEF Blank
  <2>2. s \notin deleted /\ \A p \in Object : id[p] # s
    BY <2>1 DEF IdsAreCreated
  <2>3. loaded[s] = NoObject
    BY <2>2 DEF ManagerKnows
  <2>4. QED
    BY <1>1, <2>1, <2>2, <2>3 DEF Opens
<1>6. QED
  BY <1>3, <1>4, <1>5 DEF GetOrLoad, Create

\* Opening an object leaves the manager and the files in order.
LEMMA OpenKeepsOrder ==
    ASSUME StoreIndInv, NEW s \in Session, NEW o \in Object, Opens(s, o), Known(s, o),
           deleted' = deleted
    PROVE  StoreIsInOrder'
<1> USE NamesAreDistinct
<1> USE DEF StoreIndInv, PlaceTypes, StoreIsInOrder
<1>1. /\ disk' = disk
      /\ \A q : Exists(q)' <=> Exists(q)
      /\ index' = IF Exists(s) THEN index \cup {s} ELSE index
      /\ pending' = IF Exists(s) THEN pending \ {s} ELSE pending \cup {s}
  BY DEF Known, Exists
<1>2. /\ loaded'[s] = o /\ id'[o] = s /\ (fresh'[o] <=> ~Exists(s))
      /\ \A q \in Session \ {s} : loaded'[q] = loaded[q]
      /\ \A p \in Object \ {o} : id'[p] = id[p] /\ fresh'[p] = fresh[p]
  BY DEF Opens
<1>3. \A q \in Session \ {s} : loaded[q] # o
  BY DEF Opens, ManagerKnows
<1>4. \A q \in Session : loaded'[q] # NoObject => loaded'[q] \in Object
  BY DEF Opens
<1>5. ManagerKnows'
  <2> SUFFICES ASSUME NEW q \in Session, loaded'[q] # NoObject
               PROVE  /\ id'[loaded'[q]] = q
                      /\ fresh'[loaded'[q]] <=> ~Exists(q)
                      /\ Exists(q) => q \in index'
    BY <1>1 DEF ManagerKnows
  <2>1. CASE q = s
    BY <1>1, <1>2, <2>1 DEF Opens
  <2>2. CASE q # s
    <3>1. loaded'[q] = loaded[q] /\ loaded[q] \in Object \ {o}
      BY <1>2, <1>3, <2>2
    <3>2. /\ id[loaded[q]] = q
          /\ fresh[loaded[q]] <=> ~Exists(q)
          /\ Exists(q) => q \in index
      BY <3>1 DEF ManagerKnows
    <3>3. QED
      BY <1>1, <1>2, <3>1, <3>2 DEF Opens
  <2>3. QED
    BY <2>1, <2>2
<1>6. UnwrittenHasOneObject'
  <2> SUFFICES ASSUME NEW q \in Session, loaded'[q] # NoObject, ~Exists(q),
                      NEW p \in Object, id'[p] = q
               PROVE  p = loaded'[q]
    BY <1>1 DEF UnwrittenHasOneObject
  <2>1. CASE q = s
    BY <1>2, <2>1 DEF Opens
  <2>2. CASE q # s
    BY <1>2, <2>2 DEF UnwrittenHasOneObject
  <2>3. QED
    BY <2>1, <2>2
<1>7. IdsAreCreated'
  BY <1>1, <1>2 DEF IdsAreCreated, Opens
<1>8. FilesAreListed'
  BY <1>1 DEF FilesAreListed, Exists, Marker
<1>9. PendingIsUnwritten'
  BY <1>1 DEF PendingIsUnwritten
<1>10. DeletedIsGone'
  BY <1>1, <1>2 DEF DeletedIsGone, Opens
<1>11. QED
  BY <1>5, <1>6, <1>7, <1>8, <1>9, <1>10

\* It leaves the turns, and the calls, as they were.
LEMMA OpenKeepsTurns ==
    ASSUME StoreIndInv, NEW s \in Session, NEW o \in Object, Opens(s, o), Known(s, o),
           UNCHANGED <<active, turn, on>>
    PROVE  TurnsAtWork' /\ ActiveIsLoaded'
<1> USE NamesAreDistinct
<1> USE DEF StoreIndInv, PlaceTypes
<1>1. \A q : Exists(q)' <=> Exists(q)
  BY DEF Known, Exists
<1>2. \A p \in Object : active[p] # NoTurn => id'[p] = id[p] /\ loaded'[id[p]] = loaded[id[p]]
  <2> SUFFICES ASSUME NEW p \in Object, active[p] # NoTurn
               PROVE  id'[p] = id[p] /\ loaded'[id[p]] = loaded[id[p]]
    OBVIOUS
  <2>1. /\ id[p] \in Session /\ loaded[id[p]] = p
        /\ active[p] \in Turn /\ turn[active[p]] \in Live /\ on[active[p]] = p
    BY DEF ActiveIsLoaded
  <2>2. Held(p)
    BY <2>1 DEF Held
  <2>3. CASE loaded[s] = o
    BY <2>1, <2>3 DEF Opens, StoreIsInOrder, ManagerKnows
  <2>4. CASE loaded[s] = NoObject /\ ~Held(o)
    BY <2>1, <2>2, <2>4 DEF Opens
  <2>5. QED
    BY <2>3, <2>4 DEF Opens
<1>3. TurnsAtWork'
  BY <1>1, <1>2 DEF TurnsAtWork
<1>4. ActiveIsLoaded'
  BY <1>2 DEF ActiveIsLoaded
<1>5. QED
  BY <1>3, <1>4

LEMMA OpenKeepsCalls ==
    ASSUME StoreIndInv, NEW s \in Session, NEW o \in Object, Opens(s, o),
           UNCHANGED <<call, does, at, deleted>>
    PROVE  CallsAtWork'
<1> USE NamesAreDistinct
<1> USE DEF StoreIndInv, PlaceTypes
<1> SUFFICES ASSUME NEW k \in Call, call[k] \in {"waiting", "running"}
             PROVE  /\ at[k] \in Object
                    /\ id'[at[k]] \in Session
                    /\ call[k] = "running" => does[k] = "compact"
                    /\ does[k] = "compact" => id'[at[k]] \notin deleted
  BY DEF CallsAtWork
<1>1. /\ at[k] \in Object /\ id[at[k]] \in Session
      /\ call[k] = "running" => does[k] = "compact"
      /\ does[k] = "compact" => id[at[k]] \notin deleted
      /\ Held(at[k])
  BY DEF CallsAtWork, Held
<1>2. QED
  BY <1>1 DEF Opens

\* A write to the file of an object of s, which is not deleted: either the metadata
\* are saved with it, or the file was there and listed.
Writes(s, o) ==
    /\ id[o] = s
    /\ s \notin deleted
    /\ \E lines : disk' = Written(s, lines)
    /\ \/ SaveMetadata(o)
       \/ /\ Exists(s) /\ s \in index /\ ~fresh[o]
          /\ UNCHANGED <<index, pending, fresh>>

LEMMA WriteKeepsOrder ==
    ASSUME StoreIndInv, NEW s \in Session, NEW o \in Object, Writes(s, o),
           UNCHANGED <<loaded, created, id, deleted>>
    PROVE  StoreIsInOrder'
<1> USE NamesAreDistinct
<1> USE DEF StoreIndInv, PlaceTypes, StoreIsInOrder
<1>1. /\ DOMAIN disk' = DOMAIN disk \cup {s}
      /\ \A q \in DOMAIN disk : q # s => disk'[q] = disk[q]
      /\ \A q : Exists(q)' <=> q = s \/ Exists(q)
  <2>1. PICK lines : disk' = Written(s, lines)
    BY DEF Writes
  <2>2. /\ DOMAIN disk' = DOMAIN disk \cup {s}
        /\ \A q \in DOMAIN disk : q # s => disk'[q] = disk[q]
    BY <2>1 DEF Written
  <2>3. QED
    BY <2>2 DEF Exists
<1>2. /\ index' = index \cup {s}
      /\ pending' = pending \ {s}
      /\ \A p \in Object : fresh'[p] = IF p = o THEN FALSE ELSE fresh[p]
  <2>1. CASE SaveMetadata(o)
    BY <2>1 DEF SaveMetadata, Writes
  <2>2. CASE /\ Exists(s) /\ s \in index /\ ~fresh[o]
             /\ UNCHANGED <<index, pending, fresh>>
    <3>1. s \notin pending
      BY <2>2 DEF PendingIsUnwritten
    <3>2. index' = index \cup {s} /\ pending' = pending \ {s}
      BY <2>2, <3>1
    <3>3. \A p \in Object : fresh'[p] = IF p = o THEN FALSE ELSE fresh[p]
      BY <2>2, Zenon
    <3>4. QED
      BY <3>2, <3>3
  <2>3. QED
    BY <2>1, <2>2 DEF Writes
<1>3. ManagerKnows'
  <2> SUFFICES ASSUME NEW q \in Session, loaded[q] # NoObject
               PROVE  /\ id[loaded[q]] = q
                      /\ fresh'[loaded[q]] <=> ~ (q = s \/ Exists(q))
                      /\ q = s \/ Exists(q) => q \in index'
    BY <1>1 DEF ManagerKnows
  <2>1. /\ loaded[q] \in Object /\ id[loaded[q]] = q
        /\ fresh[loaded[q]] <=> ~Exists(q)
        /\ Exists(q) => q \in index
    BY DEF ManagerKnows
  <2>2. q = s /\ ~Exists(q) => loaded[q] = o
    BY DEF UnwrittenHasOneObject, Writes
  <2>3. q # s => loaded[q] # o
    BY <2>1 DEF Writes
  <2>4. QED
    BY <1>2, <2>1, <2>2, <2>3
<1>4. UnwrittenHasOneObject'
  BY <1>1 DEF UnwrittenHasOneObject
<1>5. IdsAreCreated'
  BY <1>1 DEF IdsAreCreated, Writes
<1>6. FilesAreListed'
  BY <1>1, <1>2 DEF FilesAreListed, Marker
<1>7. PendingIsUnwritten'
  BY <1>1, <1>2 DEF PendingIsUnwritten
<1>8. DeletedIsGone'
  BY <1>1, <1>2 DEF DeletedIsGone, Writes
<1>9. QED
  BY <1>3, <1>4, <1>5, <1>6, <1>7, <1>8

\* What does not touch the files, the index or the manager leaves them in order.
LEMMA OrderStays ==
    ASSUME StoreIsInOrder, UNCHANGED <<storeVars, managerVars, id, fresh, deleted>>
    PROVE  StoreIsInOrder'
<1>1. UNCHANGED <<disk, index, loaded, pending, created, id, fresh, deleted>>
  BY DEF storeVars, managerVars
<1>2. QED
  BY <1>1 DEF StoreIsInOrder, ManagerKnows, UnwrittenHasOneObject, IdsAreCreated,
              FilesAreListed, PendingIsUnwritten, DeletedIsGone, Exists

\* Turns and calls stay where they are while no file goes.
LEMMA TurnsStay ==
    ASSUME TurnsAtWork, ActiveIsLoaded, DOMAIN disk \subseteq DOMAIN disk',
           UNCHANGED <<loaded, id, active, turn, on>>
    PROVE  TurnsAtWork' /\ ActiveIsLoaded'
BY DEF TurnsAtWork, ActiveIsLoaded, Exists

LEMMA CallsStay ==
    ASSUME CallsAtWork, UNCHANGED <<id, call, does, at, deleted>>
    PROVE  CallsAtWork'
BY DEF CallsAtWork

\* A turn lets go of its object.
LEMMA TurnLetsGo ==
    ASSUME StoreIndInv, NEW t \in Turn, turn[t] \in Live,
           NEW outcome \in {"done", "stopped"}, LetGo(t, outcome),
           DOMAIN disk \subseteq DOMAIN disk', UNCHANGED <<loaded, id>>
    PROVE  TurnsAtWork' /\ ActiveIsLoaded'
<1> USE NamesAreDistinct
<1> USE DEF StoreIndInv, PlaceTypes
<1>1. on[t] \in Object /\ active[on[t]] = t
  BY DEF TurnsAtWork
<1>2. /\ turn' = [turn EXCEPT ![t] = outcome]
      /\ active' = [active EXCEPT ![on[t]] = NoTurn]
      /\ on' = on
  BY DEF LetGo
<1>3. \A u \in Turn : turn'[u] \in Live => u # t /\ turn[u] \in Live /\ turn'[u] = turn[u]
  BY <1>2 DEF Live
<1>4. TurnsAtWork'
  BY <1>1, <1>2, <1>3 DEF TurnsAtWork, Exists
<1>5. ActiveIsLoaded'
  BY <1>1, <1>2 DEF ActiveIsLoaded
<1>6. QED
  BY <1>4, <1>5

--------------------------------------------------------------------------------
(* Every step keeps the invariant.                                                *)

\* A turn that has its prompt in the file works on a file that is listed.
LEMMA PromptedIsListed ==
    ASSUME StoreIndInv, NEW t \in Turn, turn[t] \in Live
    PROVE  /\ on[t] \in Object /\ active[on[t]] = t
           /\ id[on[t]] \in Session /\ loaded[id[on[t]]] = on[t]
           /\ id[on[t]] \notin deleted
           /\ fresh[on[t]] <=> ~Exists(id[on[t]])
           /\ Exists(id[on[t]]) => id[on[t]] \in index
           /\ turn[t] \in {"prompted", "committed"} => Exists(id[on[t]])
<1> USE NamesAreDistinct
<1> USE DEF StoreIndInv, PlaceTypes, StoreIsInOrder
<1>1. /\ on[t] \in Object /\ active[on[t]] = t
      /\ turn[t] \in {"prompted", "committed"} => Exists(id[on[t]])
  BY DEF TurnsAtWork
<1>2. id[on[t]] \in Session /\ loaded[id[on[t]]] = on[t]
  BY <1>1 DEF ActiveIsLoaded
<1>3. id[on[t]] \notin deleted
  BY <1>1, <1>2 DEF DeletedIsGone
<1>4. /\ fresh[on[t]] <=> ~Exists(id[on[t]])
      /\ Exists(id[on[t]]) => id[on[t]] \in index
  BY <1>1, <1>2 DEF ManagerKnows
<1>5. QED
  BY <1>1, <1>2, <1>3, <1>4

LEMMA ChatSendKeeps ==
    ASSUME StoreIndInv, NEW t \in Turn, NEW s \in Session, ChatSend(t, s)
    PROVE  StoreIndInv'
<1> USE NamesAreDistinct
<1> USE DEF StoreIndInv, PlaceTypes
<1>1. PICK o \in Object :
        /\ turn[t] = "unsent"
        /\ GetOrLoad(s, o) \/ Create(s, o)
        /\ active[o] = NoTurn
        /\ active' = [active EXCEPT ![o] = t]
        /\ turn' = [turn EXCEPT ![t] = "sent"]
        /\ on' = [on EXCEPT ![t] = o]
        /\ UNCHANGED <<call, does, at, deleted>>
  BY DEF ChatSend, callVars
<1>2. Opens(s, o) /\ Known(s, o)
  BY <1>1, ObjectIsOpened
<1>3. PlaceTypes'
  BY <1>1, <1>2 DEF Opens, Live
<1>4. StoreIsInOrder'
  BY <1>1, <1>2, OpenKeepsOrder
<1>5. CallsAtWork'
  BY <1>1, <1>2, OpenKeepsCalls
<1>6. \A u \in Turn \ {t} : turn'[u] = turn[u]
  BY <1>1
<1>7. \A q : Exists(q)' <=> Exists(q)
  BY <1>2 DEF Known, Exists
<1>8. \A u \in Turn : turn[u] \in Live => on[u] # o
  BY <1>1 DEF TurnsAtWork
<1>9. TurnsAtWork'
  <2> SUFFICES ASSUME NEW u \in Turn, turn'[u] \in Live
               PROVE  /\ on'[u] \in Object
                      /\ active'[on'[u]] = u
                      /\ turn'[u] \in {"prompted", "committed"} => Exists(id'[on'[u]])
    BY <1>7 DEF TurnsAtWork
  <2>1. CASE u = t
    BY <1>1, <2>1
  <2>2. CASE u # t
    BY <1>1, <1>2, <1>6, <1>8, <2>2 DEF TurnsAtWork, Opens
  <2>3. QED
    BY <2>1, <2>2
<1>10. ActiveIsLoaded'
  <2> SUFFICES ASSUME NEW p \in Object, active'[p] # NoTurn
               PROVE  /\ turn'[active'[p]] \in Live
                      /\ on'[active'[p]] = p
                      /\ id'[p] \in Session
                      /\ loaded'[id'[p]] = p
    BY DEF ActiveIsLoaded
  <2>1. CASE p = o
    BY <1>1, <1>2, <2>1 DEF Opens, Live
  <2>2. CASE p # o
    <3>1. /\ active'[p] = active[p] /\ active[p] \in Turn /\ active[p] # t
          /\ turn[active[p]] \in Live /\ on[active[p]] = p
          /\ id[p] \in Session /\ loaded[id[p]] = p
      BY <1>1, <2>2 DEF ActiveIsLoaded, Live
    <3>2. id[p] # s
      BY <1>2, <2>2, <3>1 DEF Opens
    <3>3. QED
      BY <1>1, <1>2, <2>2, <3>1, <3>2 DEF Opens
  <2>3. QED
    BY <2>1, <2>2
<1>11. QED
  BY <1>3, <1>4, <1>5, <1>9, <1>10

\* A turn that goes on: another place among those at work, on the same object.
LEMMA TurnGoesOn ==
    ASSUME StoreIndInv, NEW t \in Turn, turn[t] \in Live,
           NEW place \in Live, turn' = [turn EXCEPT ![t] = place],
           place \in {"prompted", "committed"} => Exists(id[on[t]])',
           DOMAIN disk \subseteq DOMAIN disk', UNCHANGED <<loaded, id, active, on>>
    PROVE  TurnsAtWork' /\ ActiveIsLoaded'
<1> USE DEF StoreIndInv, PlaceTypes
<1>1. \A u \in Turn : turn'[u] \in Live <=> turn[u] \in Live
  OBVIOUS
<1>2. TurnsAtWork'
  BY <1>1 DEF TurnsAtWork, Exists
<1>3. ActiveIsLoaded'
  BY <1>1 DEF ActiveIsLoaded
<1>4. QED
  BY <1>2, <1>3

LEMMA WriteKeepsFiles ==
    ASSUME NEW s \in Session, NEW lines, disk' = Written(s, lines)
    PROVE  DOMAIN disk \subseteq DOMAIN disk' /\ Exists(s)'
BY DEF Written, Exists

LEMMA TurnStepKeeps ==
    ASSUME StoreIndInv, NEW t \in Turn, TurnStep(t)
    PROVE  StoreIndInv'
<1> USE NamesAreDistinct
<1> USE DEF StoreIndInv, PlaceTypes
<1> DEFINE o == on[t]
<1>1. CASE \E s \in Session : ChatSend(t, s)
  BY <1>1, ChatSendKeeps
<1>2. CASE TurnLocks(t)
  <2>1. /\ turn[t] = "sent" /\ turn' = [turn EXCEPT ![t] = "locked"]
        /\ UNCHANGED <<storeVars, managerVars, id, fresh, active, on, call, does, at, deleted>>
    BY <1>2 DEF TurnLocks, objectVars, callVars, historyVars
  <2>2. PlaceTypes'
    BY <2>1 DEF managerVars, Live
  <2>3. StoreIsInOrder'
    BY <2>1, OrderStays
  <2>4. TurnsAtWork' /\ ActiveIsLoaded'
    BY <2>1, TurnGoesOn DEF Live, storeVars, managerVars
  <2>5. CallsAtWork'
    BY <2>1, CallsStay
  <2>6. QED
    BY <2>2, <2>3, <2>4, <2>5
<1>3. CASE TurnPrompts(t)
  <2>1. /\ turn[t] = "locked" /\ turn' = [turn EXCEPT ![t] = "prompted"]
        /\ \E lines : disk' = Written(id[o], lines)
        /\ IF fresh[o] THEN SaveMetadata(o) ELSE UNCHANGED <<index, pending, fresh>>
        /\ UNCHANGED <<loaded, created, id, active, on, call, does, at, deleted>>
    BY <1>3 DEF TurnPrompts, callVars, historyVars
  <2>2. /\ o \in Object /\ id[o] \in Session /\ id[o] \notin deleted
        /\ ~fresh[o] => Exists(id[o]) /\ id[o] \in index
    BY <2>1, PromptedIsListed DEF Live
  <2>3. PlaceTypes'
    BY <2>1 DEF SaveMetadata, Live
  <2>4. StoreIsInOrder'
    <3>1. Writes(id[o], o)
      BY <2>1, <2>2 DEF Writes
    <3>2. PICK s \in Session : s = id[o]
      BY <2>2
    <3>3. PICK p \in Object : p = o
      BY <2>2
    <3>4. QED
      BY <2>1, <3>1, <3>2, <3>3, WriteKeepsOrder
  <2>5. TurnsAtWork' /\ ActiveIsLoaded'
    <3>1. DOMAIN disk \subseteq DOMAIN disk' /\ Exists(id[on[t]])'
      BY <2>1, <2>2 DEF Written, Exists
    <3>2. QED
      BY <2>1, <3>1, TurnGoesOn DEF Live
  <2>6. CallsAtWork'
    BY <2>1, CallsStay
  <2>7. QED
    BY <2>3, <2>4, <2>5, <2>6
<1>4. CASE TurnCallsTools(t) \/ TurnCompacts(t)
  <2>1. UNCHANGED <<storeVars, managerVars, id, fresh, active, turn, on, call, does, at, deleted>>
    BY <1>4 DEF TurnCallsTools, TurnCompacts, objectVars, callVars, historyVars
  <2>2. PlaceTypes'
    BY <2>1 DEF managerVars
  <2>3. StoreIsInOrder'
    BY <2>1, OrderStays
  <2>4. TurnsAtWork' /\ ActiveIsLoaded'
    BY <2>1, TurnsStay DEF storeVars, managerVars
  <2>5. CallsAtWork'
    BY <2>1, CallsStay
  <2>6. QED
    BY <2>2, <2>3, <2>4, <2>5
<1>5. CASE TurnCommits(t)
  <2>1. /\ turn[t] = "prompted" /\ turn' = [turn EXCEPT ![t] = "committed"]
        /\ \E lines : disk' = Written(id[o], lines)
        /\ UNCHANGED <<index, managerVars, id, fresh, active, on, call, does, at, deleted>>
    BY <1>5 DEF TurnCommits, WriteTurn, callVars
  <2>2. /\ o \in Object /\ id[o] \in Session /\ id[o] \notin deleted
        /\ ~fresh[o] /\ Exists(id[o]) /\ id[o] \in index
    BY <2>1, PromptedIsListed DEF Live
  <2>3. PlaceTypes'
    BY <2>1 DEF managerVars, Live
  <2>4. StoreIsInOrder'
    <3>1. Writes(id[o], o)
      BY <2>1, <2>2 DEF Writes, managerVars
    <3>2. PICK s \in Session : s = id[o]
      BY <2>2
    <3>3. PICK p \in Object : p = o
      BY <2>2
    <3>4. QED
      BY <2>1, <3>1, <3>2, <3>3, WriteKeepsOrder DEF managerVars
  <2>5. TurnsAtWork' /\ ActiveIsLoaded'
    <3>1. DOMAIN disk \subseteq DOMAIN disk' /\ Exists(id[on[t]])'
      BY <2>1, <2>2 DEF Written, Exists
    <3>2. QED
      BY <2>1, <3>1, TurnGoesOn DEF Live, managerVars
  <2>6. CallsAtWork'
    BY <2>1, CallsStay
  <2>7. QED
    BY <2>3, <2>4, <2>5, <2>6
<1>6. CASE TurnEnds(t)
  <2>1. /\ turn[t] = "committed" /\ LetGo(t, "done")
        /\ \E lines : disk' = Written(id[o], lines)
        /\ SaveMetadata(o)
        /\ UNCHANGED <<loaded, created, id, call, does, at, deleted>>
    BY <1>6 DEF TurnEnds, callVars, historyVars
  <2>2. o \in Object /\ id[o] \in Session /\ id[o] \notin deleted
    BY <2>1, PromptedIsListed DEF Live
  <2>3. PlaceTypes'
    BY <2>1, <2>2 DEF SaveMetadata, LetGo
  <2>4. StoreIsInOrder'
    <3>1. Writes(id[o], o)
      BY <2>1, <2>2 DEF Writes
    <3>2. PICK s \in Session : s = id[o]
      BY <2>2
    <3>3. PICK p \in Object : p = o
      BY <2>2
    <3>4. QED
      BY <2>1, <3>1, <3>2, <3>3, WriteKeepsOrder
  <2>5. TurnsAtWork' /\ ActiveIsLoaded'
    <3>1. DOMAIN disk \subseteq DOMAIN disk'
      BY <2>1, <2>2 DEF Written
    <3>2. QED
      BY <2>1, <3>1, TurnLetsGo DEF Live
  <2>6. CallsAtWork'
    BY <2>1, CallsStay
  <2>7. QED
    BY <2>3, <2>4, <2>5, <2>6
<1>7. CASE TurnStops(t)
  <2>1. /\ turn[t] \in Live /\ LetGo(t, "stopped")
        /\ UNCHANGED <<storeVars, managerVars, id, fresh, call, does, at, deleted>>
    BY <1>7 DEF TurnStops, objectVars, callVars, historyVars
  <2>2. PlaceTypes'
    BY <2>1, PromptedIsListed DEF LetGo, managerVars
  <2>3. StoreIsInOrder'
    BY <2>1, OrderStays
  <2>4. TurnsAtWork' /\ ActiveIsLoaded'
    BY <2>1, TurnLetsGo DEF storeVars, managerVars
  <2>5. CallsAtWork'
    BY <2>1, CallsStay
  <2>6. QED
    BY <2>2, <2>3, <2>4, <2>5
<1>8. QED
  BY <1>1, <1>2, <1>3, <1>4, <1>5, <1>6, <1>7 DEF TurnStep

LEMMA CallStartsKeeps ==
    ASSUME StoreIndInv, NEW k \in Call, NEW op \in {"reset", "compact"}, NEW s \in Session,
           CallStarts(k, op, s)
    PROVE  StoreIndInv'
<1> USE NamesAreDistinct
<1> USE DEF StoreIndInv, PlaceTypes
<1>1. PICK o \in Object :
        /\ GetOrLoad(s, o)
        /\ call' = [call EXCEPT ![k] = "waiting"]
        /\ does' = [does EXCEPT ![k] = op]
        /\ at' = [at EXCEPT ![k] = o]
        /\ UNCHANGED <<active, turn, on, deleted>>
  BY DEF CallStarts, turnVars
<1>2. Opens(s, o) /\ Known(s, o)
  BY <1>1, ObjectIsOpened
<1>3. PlaceTypes'
  BY <1>1, <1>2 DEF Opens
<1>4. StoreIsInOrder'
  BY <1>1, <1>2, OpenKeepsOrder
<1>5. TurnsAtWork' /\ ActiveIsLoaded'
  BY <1>1, <1>2, OpenKeepsTurns
<1>6. CallsAtWork'
  <2> SUFFICES ASSUME NEW c \in Call, call'[c] \in {"waiting", "running"}
               PROVE  /\ at'[c] \in Object
                      /\ id'[at'[c]] \in Session
                      /\ call'[c] = "running" => does'[c] = "compact"
                      /\ does'[c] = "compact" => id'[at'[c]] \notin deleted'
    BY DEF CallsAtWork
  <2>1. CASE c = k
    BY <1>1, <1>2, <2>1 DEF Opens
  <2>2. CASE c # k
    <3>1. /\ call[c] \in {"waiting", "running"} /\ at'[c] = at[c] /\ does'[c] = does[c]
          /\ at[c] \in Object /\ id[at[c]] \in Session
          /\ call'[c] = "running" => does[c] = "compact"
          /\ does[c] = "compact" => id[at[c]] \notin deleted
      BY <1>1, <2>2 DEF CallsAtWork
    <3>2. QED
      BY <1>1, <1>2, <3>1 DEF Opens
  <2>3. QED
    BY <2>1, <2>2
<1>7. QED
  BY <1>3, <1>4, <1>5, <1>6

LEMMA CallStepKeeps ==
    ASSUME StoreIndInv, NEW k \in Call, CallStep(k)
    PROVE  StoreIndInv'
<1> USE NamesAreDistinct
<1> USE DEF StoreIndInv, PlaceTypes
<1> DEFINE o == at[k]
<1>1. CASE \E op \in {"reset", "compact"}, s \in Session : CallStarts(k, op, s)
  BY <1>1, CallStartsKeeps
<1>2. CASE ResetRuns(k)
  <2>1. /\ call[k] = "waiting" /\ call' = [call EXCEPT ![k] = "over"]
        /\ \/ Exists(id[o]) /\ SaveMetadata(o) /\ \E lines : disk' = Written(id[o], lines)
           \/ UNCHANGED <<disk, index, pending, fresh>>
        /\ UNCHANGED <<loaded, created, id, active, turn, on, does, at, deleted>>
    BY <1>2 DEF ResetRuns, CallEnds, turnVars
  <2>2. o \in Object /\ id[o] \in Session
    BY <2>1 DEF CallsAtWork
  <2>3. PlaceTypes'
    BY <2>1, <2>2 DEF SaveMetadata
  <2>4. StoreIsInOrder' /\ DOMAIN disk \subseteq DOMAIN disk'
    <3>1. CASE Exists(id[o]) /\ SaveMetadata(o) /\ \E lines : disk' = Written(id[o], lines)
      <4>1. Writes(id[o], o)
        BY <3>1 DEF Writes, StoreIsInOrder, DeletedIsGone
      <4>2. PICK s \in Session : s = id[o]
        BY <2>2
      <4>3. PICK p \in Object : p = o
        BY <2>2
      <4>4. QED
        BY <2>1, <3>1, <4>1, <4>2, <4>3, WriteKeepsOrder, WriteKeepsFiles
    <3>2. CASE UNCHANGED <<disk, index, pending, fresh>>
      BY <2>1, <3>2, OrderStays DEF storeVars, managerVars
    <3>3. QED
      BY <2>1, <3>1, <3>2
  <2>5. TurnsAtWork' /\ ActiveIsLoaded'
    BY <2>1, <2>4, TurnsStay
  <2>6. CallsAtWork'
    BY <2>1 DEF CallsAtWork
  <2>7. QED
    BY <2>3, <2>4, <2>5, <2>6
<1>3. CASE CompactLocks(k)
  <2>1. /\ call[k] = "waiting" /\ does[k] = "compact"
        /\ call' = [call EXCEPT ![k] = "running"]
        /\ UNCHANGED <<storeVars, managerVars, id, fresh, active, turn, on, does, at, deleted>>
    BY <1>3 DEF CompactLocks, objectVars, turnVars, historyVars
  <2>2. PlaceTypes'
    BY <2>1 DEF managerVars
  <2>3. StoreIsInOrder'
    BY <2>1, OrderStays
  <2>4. TurnsAtWork' /\ ActiveIsLoaded'
    BY <2>1, TurnsStay DEF storeVars, managerVars
  <2>5. CallsAtWork'
    BY <2>1 DEF CallsAtWork
  <2>6. QED
    BY <2>2, <2>3, <2>4, <2>5
<1>4. CASE CompactEnds(k)
  <2>1. /\ call[k] = "running" /\ call' = [call EXCEPT ![k] = "over"]
        /\ \/ SaveMetadata(o) /\ \E lines : disk' = Written(id[o], lines)
           \/ UNCHANGED <<disk, index, pending, fresh>>
        /\ UNCHANGED <<loaded, created, id, active, turn, on, does, at, deleted>>
    BY <1>4 DEF CompactEnds, CallEnds, turnVars
  <2>2. o \in Object /\ id[o] \in Session /\ id[o] \notin deleted
    BY <2>1 DEF CallsAtWork
  <2>3. PlaceTypes'
    BY <2>1, <2>2 DEF SaveMetadata
  <2>4. StoreIsInOrder' /\ DOMAIN disk \subseteq DOMAIN disk'
    <3>1. CASE SaveMetadata(o) /\ \E lines : disk' = Written(id[o], lines)
      <4>1. Writes(id[o], o)
        BY <2>2, <3>1 DEF Writes
      <4>2. PICK s \in Session : s = id[o]
        BY <2>2
      <4>3. PICK p \in Object : p = o
        BY <2>2
      <4>4. QED
        BY <2>1, <3>1, <4>1, <4>2, <4>3, WriteKeepsOrder, WriteKeepsFiles
    <3>2. CASE UNCHANGED <<disk, index, pending, fresh>>
      BY <2>1, <3>2, OrderStays DEF storeVars, managerVars
    <3>3. QED
      BY <2>1, <3>1, <3>2
  <2>5. TurnsAtWork' /\ ActiveIsLoaded'
    BY <2>1, <2>4, TurnsStay
  <2>6. CallsAtWork'
    BY <2>1 DEF CallsAtWork
  <2>7. QED
    BY <2>3, <2>4, <2>5, <2>6
<1>5. QED
  BY <1>1, <1>2, <1>3, <1>4 DEF CallStep

\* sessions_delete: the session goes, and no turn was at work on it.
LEMMA DeleteKeeps ==
    ASSUME StoreIndInv, NEW s \in Session, SessionDelete(s)
    PROVE  StoreIndInv'
<1> USE NamesAreDistinct
<1> USE DEF StoreIndInv, PlaceTypes
<1>1. /\ loaded[s] # NoObject \/ Exists(s)
      /\ loaded[s] # NoObject => active[loaded[s]] = NoTurn
      /\ loaded' = [loaded EXCEPT ![s] = NoObject]
      /\ pending' = pending \ {s}
      /\ disk' = Restrict(disk, DOMAIN disk \ {s})
      /\ index' = index \ {s}
      /\ deleted' = deleted \cup {q \in {s} : ~Compacting(q)}
      /\ UNCHANGED <<created, id, fresh, active, turn, on, call, does, at>>
  BY DEF SessionDelete, objectVars, turnVars, callVars
<1>2. /\ DOMAIN disk' = DOMAIN disk \ {s}
      /\ \A q \in DOMAIN disk \ {s} : disk'[q] = disk[q]
  BY <1>1 DEF Restrict
<1>3. \A q : Exists(q)' <=> q # s /\ Exists(q)
  BY <1>2 DEF Exists
<1>4. deleted' \subseteq deleted \cup {s} /\ (s \in deleted' => s \in deleted \/ ~Compacting(s))
  BY <1>1
<1>5. s \notin deleted /\ s \in created
  <2>1. CASE loaded[s] # NoObject
    BY <2>1 DEF StoreIsInOrder, DeletedIsGone, ManagerKnows, IdsAreCreated
  <2>2. CASE Exists(s)
    BY <2>2 DEF StoreIsInOrder, DeletedIsGone, IdsAreCreated, Exists
  <2>3. QED
    BY <1>1, <2>1, <2>2
<1>6. PlaceTypes'
  BY <1>1, <1>4
<1>7. StoreIsInOrder'
  <2> USE DEF StoreIsInOrder
  <2>1. ManagerKnows'
    BY <1>1, <1>3 DEF ManagerKnows
  <2>2. UnwrittenHasOneObject'
    BY <1>1, <1>3 DEF UnwrittenHasOneObject
  <2>3. IdsAreCreated'
    BY <1>1, <1>2, <1>4, <1>5 DEF IdsAreCreated
  <2>4. FilesAreListed'
    BY <1>1, <1>2 DEF FilesAreListed, Marker
  <2>5. PendingIsUnwritten'
    BY <1>1, <1>3 DEF PendingIsUnwritten
  <2>6. DeletedIsGone'
    BY <1>1, <1>3, <1>4 DEF DeletedIsGone
  <2>7. QED
    BY <2>1, <2>2, <2>3, <2>4, <2>5, <2>6
<1>8. \A p \in Object : active[p] # NoTurn => id[p] # s
  BY <1>1 DEF ActiveIsLoaded
<1>9. TurnsAtWork'
  BY <1>1, <1>3, <1>8 DEF TurnsAtWork
<1>10. ActiveIsLoaded'
  BY <1>1, <1>8 DEF ActiveIsLoaded
<1>11. CallsAtWork'
  <2> SUFFICES ASSUME NEW k \in Call, call[k] \in {"waiting", "running"}
               PROVE  /\ at[k] \in Object
                      /\ id[at[k]] \in Session
                      /\ call[k] = "running" => does[k] = "compact"
                      /\ does[k] = "compact" => id[at[k]] \notin deleted'
    BY <1>1 DEF CallsAtWork
  <2>1. /\ at[k] \in Object /\ id[at[k]] \in Session
        /\ call[k] = "running" => does[k] = "compact"
        /\ does[k] = "compact" => id[at[k]] \notin deleted
    BY DEF CallsAtWork
  <2>2. does[k] = "compact" /\ id[at[k]] = s => Compacting(s)
    BY DEF Compacting
  <2>3. QED
    BY <1>4, <1>5, <2>1, <2>2
<1>12. QED
  BY <1>6, <1>7, <1>9, <1>10, <1>11

LEMMA SelectKeeps ==
    ASSUME StoreIndInv, NEW s \in Session, Select(s)
    PROVE  StoreIndInv'
<1> USE NamesAreDistinct
<1> USE DEF StoreIndInv, PlaceTypes
<1>1. /\ loaded' = [p \in Session |-> IF p \in Prune(s) THEN NoObject ELSE loaded[p]]
      /\ pending' = pending \ Prune(s)
      /\ UNCHANGED <<disk, index, created, id, fresh, active, turn, on, call, does, at, deleted>>
  BY DEF Select, storeVars, objectVars, turnVars, callVars, historyVars
<1>2. \A p \in Session : loaded'[p] # NoObject => loaded'[p] = loaded[p]
  BY <1>1
<1>3. \A q : Exists(q)' <=> Exists(q)
  BY <1>1 DEF Exists
<1>4. PlaceTypes'
  BY <1>1
<1>5. StoreIsInOrder'
  <2> USE DEF StoreIsInOrder
  <2>1. ManagerKnows'
    BY <1>1, <1>2, <1>3 DEF ManagerKnows
  <2>2. UnwrittenHasOneObject'
    BY <1>1, <1>2, <1>3 DEF UnwrittenHasOneObject
  <2>3. IdsAreCreated' /\ FilesAreListed' /\ PendingIsUnwritten'
    BY <1>1, <1>3 DEF IdsAreCreated, FilesAreListed, PendingIsUnwritten
  <2>4. DeletedIsGone'
    BY <1>1, <1>3 DEF DeletedIsGone
  <2>5. QED
    BY <2>1, <2>2, <2>3, <2>4
<1>6. TurnsAtWork'
  BY <1>1, <1>3 DEF TurnsAtWork
<1>7. ActiveIsLoaded'
  <2> SUFFICES ASSUME NEW o \in Object, active[o] # NoTurn
               PROVE  /\ turn[active[o]] \in Live
                      /\ on[active[o]] = o
                      /\ id[o] \in Session
                      /\ loaded'[id[o]] = o
    BY <1>1 DEF ActiveIsLoaded
  <2>1. /\ turn[active[o]] \in Live /\ on[active[o]] = o
        /\ id[o] \in Session /\ loaded[id[o]] = o
    BY DEF ActiveIsLoaded
  <2>2. id[o] \notin Prune(s)
    BY <2>1 DEF Prune
  <2>3. QED
    BY <1>1, <2>1, <2>2
<1>8. CallsAtWork'
  BY <1>1, CallsStay
<1>9. QED
  BY <1>4, <1>5, <1>6, <1>7, <1>8

LEMMA SessionStepKeeps ==
    ASSUME StoreIndInv, NEW s \in Session, SessionStep(s)
    PROVE  StoreIndInv'
<1> USE DEF StoreIndInv
<1>1. CASE SessionGet(s) \/ SessionNew(s)
  <2>1. PICK o \in Object : GetOrLoad(s, o) \/ Create(s, o)
    BY <1>1 DEF SessionGet, SessionNew
  <2>2. UNCHANGED <<active, turn, on, call, does, at, deleted>>
    BY <1>1 DEF SessionGet, SessionNew, turnVars, callVars
  <2>3. Opens(s, o) /\ Known(s, o)
    BY <2>1, ObjectIsOpened
  <2>4. PlaceTypes'
    BY <2>2, <2>3 DEF Opens, PlaceTypes
  <2>5. StoreIsInOrder' /\ TurnsAtWork' /\ ActiveIsLoaded' /\ CallsAtWork'
    BY <2>2, <2>3, OpenKeepsOrder, OpenKeepsTurns, OpenKeepsCalls
  <2>6. QED
    BY <2>4, <2>5
<1>2. QED
  BY <1>1, SelectKeeps, DeleteKeeps DEF SessionStep

\* The daemon dies: nothing is in memory any more.  Of the files, one may have been
\* written that was there and listed, or have got its header.
LEMMA CrashKeeps ==
    ASSUME StoreIndInv, CrashStep
    PROVE  StoreIndInv'
<1> USE NamesAreDistinct
<1> USE DEF StoreIndInv, PlaceTypes
<1>1. /\ Restarted
      /\ \/ UNCHANGED <<disk, index>>
         \/ \E s \in Session : /\ s \in created /\ s \notin deleted
                               /\ index' \in {index, index \cup {s}}
                               /\ \/ s \in index /\ \E lines : disk' = Written(s, lines)
                                  \/ disk' = Written(s, <<Marker("session")>>)
  <2>1. CASE Crash
    BY <2>1 DEF Crash, storeVars
  <2>2. ASSUME NEW t \in Turn, turn[t] \in Live
        PROVE  /\ id[on[t]] \in Session /\ id[on[t]] \in created /\ id[on[t]] \notin deleted
               /\ turn[t] = "prompted" => id[on[t]] \in index
    BY <2>2, PromptedIsListed DEF StoreIsInOrder, IdsAreCreated
  <2>3. ASSUME NEW t \in Turn, CrashInCommit(t) \/ CrashInLine(t)
        PROVE  /\ Restarted /\ index' = index /\ turn[t] = "prompted"
               /\ \E lines : disk' = Written(id[on[t]], lines)
    BY <2>3 DEF CrashInCommit, CrashInLine
  <2>4. ASSUME NEW t \in Turn, CrashInFirstWrite(t)
        PROVE  /\ Restarted /\ turn[t] = "locked"
               /\ disk' = Written(id[on[t]], <<Marker("session")>>)
               /\ index' \in {index, index \cup {id[on[t]]}}
    BY <2>4 DEF CrashInFirstWrite
  <2>5. QED
    BY <2>1, <2>2, <2>3, <2>4 DEF CrashStep, Live
<1>2. /\ loaded' = [s \in Session |-> NoObject] /\ pending' = {}
      /\ id' = [o \in Object |-> NoSession]
      /\ fresh' = [o \in Object |-> FALSE]
      /\ active' = [o \in Object |-> NoTurn]
      /\ turn' = [t \in Turn |-> IF turn[t] \in Live THEN "stopped" ELSE turn[t]]
      /\ on' = [t \in Turn |-> NoObject]
      /\ call' = [k \in Call |-> IF call[k] \in {"waiting", "running"} THEN "over" ELSE call[k]]
      /\ at' = [k \in Call |-> NoObject]
      /\ UNCHANGED <<created, does, deleted>>
  BY <1>1 DEF Restarted
<1>3. PlaceTypes'
  BY <1>2 DEF Live
<1>4. ManagerKnows' /\ UnwrittenHasOneObject' /\ PendingIsUnwritten'
  BY <1>2 DEF ManagerKnows, UnwrittenHasOneObject, PendingIsUnwritten
<1>5. IdsAreCreated' /\ FilesAreListed' /\ DeletedIsGone'
  <2>1. CASE UNCHANGED <<disk, index>>
    BY <1>2, <2>1 DEF StoreIsInOrder, IdsAreCreated, FilesAreListed, DeletedIsGone, Exists, Marker
  <2>2. CASE ~UNCHANGED <<disk, index>>
    <3>1. PICK s \in Session : /\ s \in created /\ s \notin deleted
                               /\ index' \in {index, index \cup {s}}
                               /\ \/ s \in index /\ \E lines : disk' = Written(s, lines)
                                  \/ disk' = Written(s, <<Marker("session")>>)
      BY <1>1, <2>2
    <3>2. /\ DOMAIN disk' = DOMAIN disk \cup {s}
          /\ \A q \in DOMAIN disk \ {s} : disk'[q] = disk[q]
          /\ s \in index \/ disk'[s] = <<Marker("session")>>
      BY <3>1 DEF Written
    <3>3. IdsAreCreated'
      BY <1>2, <3>1, <3>2 DEF StoreIsInOrder, IdsAreCreated
    <3>4. FilesAreListed'
      BY <3>1, <3>2 DEF StoreIsInOrder, FilesAreListed, Marker
    <3>5. DeletedIsGone'
      BY <1>2, <3>1, <3>2 DEF StoreIsInOrder, DeletedIsGone, Exists
    <3>6. QED
      BY <3>3, <3>4, <3>5
  <2>3. QED
    BY <2>1, <2>2
<1>6. TurnsAtWork' /\ ActiveIsLoaded' /\ CallsAtWork'
  BY <1>2 DEF TurnsAtWork, ActiveIsLoaded, CallsAtWork, Live
<1>7. QED
  BY <1>3, <1>4, <1>5, <1>6 DEF StoreIsInOrder

LEMMA StoreInit == Init => StoreIndInv
BY NamesAreDistinct
   DEF Init, StoreIndInv, PlaceTypes, StoreIsInOrder, ManagerKnows, UnwrittenHasOneObject,
       IdsAreCreated, FilesAreListed, PendingIsUnwritten, DeletedIsGone, TurnsAtWork,
       ActiveIsLoaded, CallsAtWork, Exists, Live

LEMMA StoreStep == StoreIndInv /\ [Next]_vars => StoreIndInv'
<1> SUFFICES ASSUME StoreIndInv, [Next]_vars PROVE StoreIndInv'
  OBVIOUS
<1>1. CASE Next
  BY <1>1, TurnStepKeeps, CallStepKeeps, SessionStepKeeps, CrashKeeps DEF Next
<1>2. CASE UNCHANGED vars
  <2>1. UNCHANGED <<storeVars, managerVars, objectVars, active, turnVars, callVars, historyVars>>
    BY <1>2 DEF vars
  <2>2. UNCHANGED <<disk, index, loaded, pending, created, id, fresh, active, turn, on, call,
                    does, at, deleted>>
    BY <2>1 DEF storeVars, managerVars, objectVars, turnVars, callVars, historyVars
  <2>3. StoreIsInOrder'
    BY <2>2, OrderStays DEF StoreIndInv, storeVars, managerVars
  <2>4. TurnsAtWork' /\ ActiveIsLoaded' /\ CallsAtWork'
    BY <2>2, TurnsStay, CallsStay DEF StoreIndInv
  <2>5. PlaceTypes'
    BY <2>2 DEF StoreIndInv, PlaceTypes
  <2>6. QED
    BY <2>3, <2>4, <2>5 DEF StoreIndInv
<1>3. QED
  BY <1>1, <1>2

\* Sessions have one writer, what is written is listed, and what is deleted stays
\* deleted, whatever turns, resets, compactions, deletions and crashes do.
THEOREM SessionsSafe == Spec => []SessionsAreSound
<1>1. StoreIndInv => SessionsAreSound
  <2> SUFFICES ASSUME StoreIndInv PROVE SessionsAreSound
    OBVIOUS
  <2> USE DEF StoreIndInv, StoreIsInOrder
  <2>1. OneWriterPerSession
    BY DEF OneWriterPerSession, ActiveIsLoaded
  <2>2. WrittenIsListed
    <3> SUFFICES ASSUME NEW s \in Session
                 PROVE  /\ (\E i \in DOMAIN Lines(s) : Lines(s)[i].type # "session") => s \in index
                        /\ s \in pending => ~Exists(s)
      BY DEF WrittenIsListed
    <3>1. s \in pending => ~Exists(s)
      BY DEF PendingIsUnwritten
    <3>2. ASSUME NEW i \in DOMAIN Lines(s), Lines(s)[i].type # "session"
          PROVE  s \in index
      <4>1. CASE Exists(s)
        <5>1. Lines(s) = disk[s]
          BY <4>1 DEF Lines
        <5>2. disk[s] # <<Marker("session")>>
          BY <3>2, <5>1 DEF Marker
        <5>3. QED
          BY <4>1, <5>2 DEF FilesAreListed, Exists
      <4>2. CASE ~Exists(s)
        BY <4>2 DEF Lines
      <4>3. QED
        BY <4>1, <4>2
    <3>3. QED
      BY <3>1, <3>2
  <2>3. DeletedStaysDeleted
    BY DEF DeletedStaysDeleted, DeletedIsGone
  <2>4. QED
    BY <2>1, <2>2, <2>3 DEF SessionsAreSound
<1>2. QED
  BY <1>1, StoreInit, StoreStep, PTL DEF Spec

--------------------------------------------------------------------------------
(* What TranscriptIsKept needs beyond that: what the messages and the lines say.   *)

DataTypes ==
    /\ \A s \in Session : Lines(s) \in Seq(Entry)
    /\ history \in [Object -> Seq(Message)]
    /\ lock \in [Object -> Turn \cup Call \cup {Nobody}]
    /\ scratch \in [Turn -> Seq(Message)]
    /\ ops \in [Turn -> Seq(Entry)]
    /\ shortened \subseteq Object
    /\ gone \subseteq Turn

\* Who works on a session has its lock; a turn that has not begun has nothing pending.
LocksHeld ==
    /\ \A t \in Turn : turn[t] \in {"locked", "prompted", "committed"} => lock[on[t]] = t
    /\ \A t \in Turn : turn[t] \in {"unsent", "sent", "locked"} => ops[t] = <<>>
    /\ \A k \in Call : call[k] = "running" => lock[at[k]] = k

\* What a restart makes of a file.
Heard(lines) == Said(Load(lines))

\* A turn says nothing before its prompt, and its reply is the last it says.
Uttered(m) ==
    m.by \in Turn => /\ turn[m.by] \in {"prompted", "committed", "done", "stopped"}
                     /\ m.kind = "reply" => turn[m.by] # "prompted"
Closed(msgs) ==
    \A i, j \in DOMAIN msgs : i < j /\ msgs[i].kind = "reply" => msgs[j].by # msgs[i].by
ClosedLines(lines) ==
    \A i, j \in DOMAIN lines :
        i < j /\ lines[i].type = "message" /\ lines[j].type = "message" /\ lines[i].msg.kind = "reply"
            => lines[j].msg.by # lines[i].msg.by
MessagesInOrder ==
    \A o \in Object :
        Closed(history[o]) /\ \A m \in Message : Contains(history[o], m) => Uttered(m)
LinesInOrder ==
    \A s \in Session :
        ClosedLines(Lines(s)) /\ \A m \in Message : Contains(Lines(s), Line(m)) => Uttered(m)

\* A turn that calls the model began with its prompt; its copy is that and what it said
\* since, or what a compaction left of the two.
Full(t) == history[on[t]] \o Heard(ops[t])
OpsOf(t) == {Marker("compaction"), Line(Msg("call", t)), Line(Msg("result", t))}
NotTorn(lines) == lines = <<>> \/ Last(lines).type # "torn"
TurnSpeaks(t) ==
    LET h == history[on[t]]
    IN  /\ Len(h) >= 1 /\ h[Len(h)] = Msg("prompt", t)
        /\ \A i \in 1 .. Len(h) - 1 : h[i].by # t
        /\ \A i \in DOMAIN ops[t] : ops[t][i] \in OpsOf(t)
        /\ \/ scratch[t] = Full(t)
           \/ \E k \in 1 .. Len(Full(t)) : scratch[t] = Compacted(Full(t), k)
        /\ NotTorn(Lines(id[on[t]]))
TurnsSpeak == \A t \in Turn : turn[t] = "prompted" => TurnSpeaks(t)

\* An answer in the file of a session in memory is in memory, or was given up.
Reply(t) == Msg("reply", t)
RepliesKept ==
    \A s \in Session, t \in Turn :
        loaded[s] # NoObject /\ Contains(Lines(s), Line(Reply(t))) =>
            t \in gone \/ Contains(history[loaded[s]], Reply(t))
AnswersStay ==
    \A t \in Turn : turn[t] \in {"committed", "done"} =>
        t \in gone \/ \E s \in Session : Contains(Lines(s), Line(Reply(t)))

KeepIndInv ==
    /\ DataTypes /\ LocksHeld /\ MessagesInOrder /\ LinesInOrder /\ TurnsSpeak
    /\ RepliesKept /\ AnswersStay /\ ReloadKeepsMessages
--------------------------------------------------------------------------------
(* Recursion over sequences.                                                       *)

LEMMA UpToEach ==
    ASSUME NEW n \in Nat, NEW S \in SUBSET (0 .. n), 0 \in S,
           \A k \in 1 .. n : k - 1 \in S => k \in S
    PROVE  S = 0 .. n
<1> DEFINE T == (0 .. n) \ S
<1> SUFFICES ASSUME T # {} PROVE FALSE
  OBVIOUS
<1>1. T \in SUBSET Nat
  OBVIOUS
<1>2. PICK x \in T : \A y \in T : ~(<<y, x>> \in OpToRel(<, Nat))
  <2> HIDE DEF T
  <2> QED
    BY <1>1, NatLessThanWellFounded, WFMin
<1>3. x \in 1 .. n
  OBVIOUS
<1>4. x - 1 \in T
  BY <1>3
<1>5. <<x - 1, x>> \in OpToRel(<, Nat)
  BY <1>3 DEF OpToRel
<1>6. QED
  BY <1>2, <1>4, <1>5

\* n steps of g in V from base.
HasSteps(n, V, base, g) ==
    \E f \in [0 .. n -> V] : f[0] = base /\ \A k \in 1 .. n : f[k] = g[<<f[k - 1], k>>]

LEMMA Recursion ==
    ASSUME NEW n \in Nat, NEW V, NEW base \in V, NEW g \in [V \X (1 .. n) -> V]
    PROVE  HasSteps(n, V, base, g)
<1> DEFINE Solves(f, j) == f[0] = base /\ \A k \in 1 .. j : f[k] = g[<<f[k - 1], k>>]
           S == {j \in 0 .. n : \E f \in [0 .. j -> V] : Solves(f, j)}
<1>1. 0 \in S
  <2> DEFINE f == [k \in 0 .. 0 |-> base]
  <2>1. f \in [0 .. 0 -> V] /\ Solves(f, 0)
    OBVIOUS
  <2> HIDE DEF f, Solves
  <2>2. 0 \in 0 .. n
    OBVIOUS
  <2>3. QED
    BY <2>1, <2>2
<1>2. ASSUME NEW j \in 1 .. n, j - 1 \in S PROVE j \in S
  <2>1. PICK f \in [0 .. j - 1 -> V] : Solves(f, j - 1)
    BY <1>2
  <2> DEFINE v == g[<<f[j - 1], j>>]
             h == [k \in 0 .. j |-> IF k = j THEN v ELSE f[k]]
  <2>2. j - 1 \in 0 .. j - 1 /\ f[j - 1] \in V
    BY <2>1
  <2>3. v \in V
    BY <2>2
  <2> HIDE DEF v
  <2>4. h \in [0 .. j -> V]
    BY <2>1, <2>3
  <2>5. Solves(h, j)
    <3>1. h[0] = base
      BY <2>1
    <3>2. ASSUME NEW k \in 1 .. j PROVE h[k] = g[<<h[k - 1], k>>]
      <4>1. h[k - 1] = f[k - 1]
        OBVIOUS
      <4>2. CASE k = j
        <5>1. h[k] = v /\ h[k - 1] = f[j - 1]
          BY <4>1, <4>2
        <5> HIDE DEF h
        <5>2. QED
          BY <4>2, <5>1 DEF v
      <4>3. CASE k # j
        BY <2>1, <4>1, <4>3
      <4>4. QED
        BY <4>2, <4>3
    <3>3. QED
      BY <3>1, <3>2
  <2> HIDE DEF h, Solves
  <2>6. j \in 0 .. n
    OBVIOUS
  <2>7. QED
    BY <2>4, <2>5, <2>6
<1>3. S = 0 .. n
  <2> HIDE DEF S
  <2>1. S \in SUBSET (0 .. n)
    BY DEF S
  <2>2. QED
    BY <1>1, <1>2, <2>1, UpToEach
<1>4. n \in S
  BY <1>3, SMTT(30)
<1>5. QED
  BY <1>4 DEF HasSteps

\* The parts of an append and of a concatenation.
LEMMA Parts ==
    ASSUME NEW T, NEW a \in Seq(T), NEW b \in Seq(T)
    PROVE  /\ a \o b \in Seq(T) /\ Len(a) \in Nat /\ Len(b) \in Nat
           /\ DOMAIN a = 1 .. Len(a) /\ DOMAIN b = 1 .. Len(b)
           /\ Len(a \o b) = Len(a) + Len(b) /\ DOMAIN (a \o b) = 1 .. Len(a) + Len(b)
           /\ \A i \in 1 .. Len(a) : (a \o b)[i] = a[i] /\ a[i] \in T
           /\ \A i \in 1 .. Len(b) : (a \o b)[Len(a) + i] = b[i] /\ b[i] \in T
           /\ a \o <<>> = a /\ <<>> \o a = a
<1>1. a \o b \in Seq(T) /\ Len(a) \in Nat /\ Len(b) \in Nat /\ Len(a \o b) = Len(a) + Len(b)
  BY LenProperties, ConcatProperties
<1>2. DOMAIN a = 1 .. Len(a) /\ DOMAIN b = 1 .. Len(b) /\ DOMAIN (a \o b) = 1 .. Len(a) + Len(b)
  BY <1>1, LenProperties
<1>3. \A i \in 1 .. Len(a) : (a \o b)[i] = a[i] /\ a[i] \in T
  BY <1>1, ConcatProperties, ElementOfSeq
<1>4. \A i \in 1 .. Len(b) : (a \o b)[Len(a) + i] = b[i] /\ b[i] \in T
  <2> TAKE i \in 1 .. Len(b)
  <2>1. Len(a) + i \in 1 .. Len(a) + Len(b) /\ ~(Len(a) + i <= Len(a)) /\ Len(a) + i - Len(a) = i
    BY <1>1
  <2>2. QED
    BY <1>1, <2>1, ConcatProperties, ElementOfSeq
<1>5. a \o <<>> = a /\ <<>> \o a = a
  BY ConcatEmptySeq
<1>6. QED
  BY <1>1, <1>2, <1>3, <1>4, <1>5

LEMMA SpokenType == \A m \in Message : Spoken(m) \in Seq(Message)
BY DEF Spoken

LEMMA ReadsType ==
    \A h \in Seq(Message), e \in Entry : Reads(h, e) \in Seq(Message)
<1> SUFFICES ASSUME NEW h \in Seq(Message), NEW e \in Entry PROVE Reads(h, e) \in Seq(Message)
  OBVIOUS
<1>1. e.type = "message" => e.msg \in Message
  BY DEF Entry
<1>2. Restored \in Message
  BY DEF Restored, Msg, Message
<1>3. QED
  BY <1>1, <1>2 DEF Reads

\* Concatenation without its definition, for facts about longer terms.
Joined(a, b) == a \o b

LEMMA JoinedFacts ==
    /\ \A a, b \in Seq(Message) : Joined(a, b) \in Seq(Message) /\ Joined(a, b) = a \o b
    /\ \A a \in Seq(Message) : Joined(a, <<>>) = a /\ Joined(<<>>, a) = a
    /\ \A a, b, c \in Seq(Message) : Joined(Joined(a, b), c) = Joined(a, Joined(b, c))
<1>1. \A a, b \in Seq(Message) : Joined(a, b) \in Seq(Message) /\ Joined(a, b) = a \o b
  BY ConcatProperties DEF Joined
<1>2. \A a \in Seq(Message) : Joined(a, <<>>) = a /\ Joined(<<>>, a) = a
  BY ConcatEmptySeq DEF Joined
<1>3. ASSUME NEW a \in Seq(Message), NEW b \in Seq(Message), NEW c \in Seq(Message)
      PROVE  Joined(Joined(a, b), c) = Joined(a, Joined(b, c))
  BY ConcatAssociative DEF Joined
<1>4. QED
  BY <1>1, <1>2, <1>3

\* What Said and Load go through, message by message and line by line.
SaidBy(msgs, f) ==
    /\ f \in [0 .. Len(msgs) -> Seq(Message)]
    /\ f[0] = <<>>
    /\ \A k \in 1 .. Len(msgs) : f[k] = Joined(f[k - 1], Spoken(msgs[k]))
    /\ Said(msgs) = f[Len(msgs)]
LoadedBy(lines, f) ==
    /\ f \in [0 .. Len(lines) -> Seq(Message)]
    /\ f[0] = <<>>
    /\ \A k \in 1 .. Len(lines) : f[k] = Reads(f[k - 1], lines[k])
    /\ Load(lines) = f[Len(lines)]

LEMMA SaidIs ==
    ASSUME NEW msgs \in Seq(Message)
    PROVE  \E f : SaidBy(msgs, f)
<1> DEFINE V == Seq(Message)
           n == Len(msgs)
           g == [x \in V \X (1 .. n) |-> x[1] \o Spoken(msgs[x[2]])]
           Entries(s) == [k \in 0 .. n |-> IF k = 0 THEN <<>> ELSE s[k - 1] \o Spoken(msgs[k])]
           upTo == CHOOSE s : s = Entries(s)
<1>1. n \in Nat /\ \A k \in 1 .. n : msgs[k] \in Message
  BY LenProperties, ElementOfSeq
<1>2. g \in [V \X (1 .. n) -> V]
  <2> SUFFICES ASSUME NEW x \in V \X (1 .. n) PROVE x[1] \o Spoken(msgs[x[2]]) \in V
    OBVIOUS
  <2>1. x[1] \in V /\ Spoken(msgs[x[2]]) \in V
    BY <1>1, SpokenType
  <2>2. QED
    BY <2>1, ConcatProperties
<1>3. <<>> \in V
  OBVIOUS
<1>4. PICK f \in [0 .. n -> V] : f[0] = <<>> /\ \A k \in 1 .. n : f[k] = g[<<f[k - 1], k>>]
  <2>1. n \in Nat
    BY <1>1
  <2> HIDE DEF V, g, n
  <2>2. HasSteps(n, V, <<>>, g)
    BY <1>2, <1>3, <2>1, Recursion
  <2>3. QED
    BY <2>2 DEF HasSteps
<1>5. \A k \in 1 .. n : f[k] = f[k - 1] \o Spoken(msgs[k])
  <2> TAKE k \in 1 .. n
  <2>1. f[k - 1] \in V /\ f[k] = g[<<f[k - 1], k>>]
    <3>1. k - 1 \in 0 .. n
      BY <1>1
    <3> HIDE DEF g, V
    <3>2. QED
      BY <1>4, <3>1
  <2>2. <<f[k - 1], k>> \in V \X (1 .. n)
    BY <2>1
  <2>3. QED
    BY <2>1, <2>2
<1>6. f = Entries(f)
  <2>1. ASSUME NEW k \in 0 .. n PROVE f[k] = Entries(f)[k]
    <3>1. CASE k = 0
      BY <1>4, <3>1
    <3>2. CASE k # 0
      <4>1. k \in 1 .. n
        BY <1>1, <3>2
      <4>2. QED
        BY <1>5, <3>2, <4>1
    <3>3. QED
      BY <3>1, <3>2
  <2>2. QED
    BY <1>4, <2>1
<1>7. upTo = Entries(upTo)
  BY <1>6, Zenon
<1>8. Said(msgs) = upTo[n]
  BY Zenon DEF Said
<1>9. upTo[0] = <<>> /\ \A k \in 1 .. n : upTo[k] = upTo[k - 1] \o Spoken(msgs[k])
  <2> HIDE DEF upTo, n
  <2>1. n \in Nat
    BY <1>1
  <2>2. \A k \in 0 .. n : upTo[k] = IF k = 0 THEN <<>> ELSE upTo[k - 1] \o Spoken(msgs[k])
    BY <1>7
  <2>3. 0 \in 0 .. n /\ \A k \in 1 .. n : k \in 0 .. n /\ k # 0
    BY <2>1
  <2>4. QED
    BY <2>2, <2>3
<1>10. upTo \in [0 .. n -> V]
  <2> HIDE DEF upTo
  <2> DEFINE S == {k \in 0 .. n : upTo[k] \in V}
  <2>1. 0 \in S
    <3>1. 0 \in 0 .. n /\ upTo[0] \in V
      BY <1>1, <1>3, <1>9
    <3> HIDE DEF V
    <3>2. QED
      BY <3>1
  <2>2. ASSUME NEW k \in 1 .. n, k - 1 \in S PROVE k \in S
    <3>1. upTo[k - 1] \in V /\ Spoken(msgs[k]) \in V
      BY <1>1, <2>2, SpokenType
    <3>2. upTo[k] = upTo[k - 1] \o Spoken(msgs[k])
      BY <1>9, Zenon
    <3>3. upTo[k] \in V /\ k \in 0 .. n
      BY <1>1, <3>1, <3>2, ConcatProperties
    <3> HIDE DEF V
    <3>4. QED
      BY <3>3
  <2>3. S = 0 .. n
    <3>1. S \in SUBSET (0 .. n)
      OBVIOUS
    <3> HIDE DEF S
    <3> QED
      BY <1>1, <2>1, <2>2, <3>1, UpToEach
  <2>4. QED
    BY <1>7, <2>3
<1>11. QED
  <2> HIDE DEF upTo
  <2> QED
    BY <1>8, <1>9, <1>10 DEF SaidBy, Joined

LEMMA LoadIs ==
    ASSUME NEW lines \in Seq(Entry)
    PROVE  \E f : LoadedBy(lines, f)
<1> DEFINE V == Seq(Message)
           n == Len(lines)
           g == [x \in V \X (1 .. n) |-> Reads(x[1], lines[x[2]])]
           Entries(s) == [k \in 0 .. n |-> IF k = 0 THEN <<>> ELSE Reads(s[k - 1], lines[k])]
           upTo == CHOOSE s : s = Entries(s)
<1>1. n \in Nat /\ \A k \in 1 .. n : lines[k] \in Entry
  BY LenProperties, ElementOfSeq
<1>2. g \in [V \X (1 .. n) -> V]
  BY <1>1, ReadsType
<1>3. <<>> \in V
  OBVIOUS
<1>4. PICK f \in [0 .. n -> V] : f[0] = <<>> /\ \A k \in 1 .. n : f[k] = g[<<f[k - 1], k>>]
  <2>1. n \in Nat
    BY <1>1
  <2> HIDE DEF V, g, n
  <2>2. HasSteps(n, V, <<>>, g)
    BY <1>2, <1>3, <2>1, Recursion
  <2>3. QED
    BY <2>2 DEF HasSteps
<1>5. \A k \in 1 .. n : f[k] = Reads(f[k - 1], lines[k])
  <2> TAKE k \in 1 .. n
  <2>1. f[k - 1] \in V /\ f[k] = g[<<f[k - 1], k>>]
    <3>1. k - 1 \in 0 .. n
      BY <1>1
    <3> HIDE DEF g, V
    <3>2. QED
      BY <1>4, <3>1
  <2>2. <<f[k - 1], k>> \in V \X (1 .. n)
    BY <2>1
  <2>3. QED
    BY <2>1, <2>2
<1>6. f = Entries(f)
  <2>1. ASSUME NEW k \in 0 .. n PROVE f[k] = Entries(f)[k]
    <3>1. CASE k = 0
      BY <1>4, <3>1
    <3>2. CASE k # 0
      <4>1. k \in 1 .. n
        BY <1>1, <3>2
      <4>2. QED
        BY <1>5, <3>2, <4>1
    <3>3. QED
      BY <3>1, <3>2
  <2>2. QED
    BY <1>4, <2>1
<1>7. upTo = Entries(upTo)
  BY <1>6, Zenon
<1>8. Load(lines) = upTo[n]
  BY Zenon DEF Load
<1>9. upTo[0] = <<>> /\ \A k \in 1 .. n : upTo[k] = Reads(upTo[k - 1], lines[k])
  <2> HIDE DEF upTo, n
  <2>1. n \in Nat
    BY <1>1
  <2>2. \A k \in 0 .. n : upTo[k] = IF k = 0 THEN <<>> ELSE Reads(upTo[k - 1], lines[k])
    BY <1>7
  <2>3. 0 \in 0 .. n /\ \A k \in 1 .. n : k \in 0 .. n /\ k # 0
    BY <2>1
  <2>4. QED
    BY <2>2, <2>3
<1>10. upTo \in [0 .. n -> V]
  <2> HIDE DEF upTo
  <2> DEFINE S == {k \in 0 .. n : upTo[k] \in V}
  <2>1. 0 \in S
    <3>1. 0 \in 0 .. n /\ upTo[0] \in V
      BY <1>1, <1>3, <1>9
    <3> HIDE DEF V
    <3>2. QED
      BY <3>1
  <2>2. ASSUME NEW k \in 1 .. n, k - 1 \in S PROVE k \in S
    <3>1. upTo[k - 1] \in V /\ lines[k] \in Entry
      BY <1>1, <2>2
    <3>2. upTo[k] = Reads(upTo[k - 1], lines[k])
      BY <1>9, Zenon
    <3>3. upTo[k] \in V /\ k \in 0 .. n
      BY <1>1, <3>1, <3>2, ReadsType
    <3> HIDE DEF V
    <3>4. QED
      BY <3>3
  <2>3. S = 0 .. n
    <3>1. S \in SUBSET (0 .. n)
      OBVIOUS
    <3> HIDE DEF S
    <3> QED
      BY <1>1, <2>1, <2>2, <3>1, UpToEach
  <2>4. QED
    BY <1>7, <2>3
<1>11. QED
  <2> HIDE DEF upTo
  <2> QED
    BY <1>8, <1>9, <1>10 DEF LoadedBy

LEMMA SaidType ==
    ASSUME NEW msgs \in Seq(Message)
    PROVE  Said(msgs) \in Seq(Message)
<1>1. PICK f : SaidBy(msgs, f)
  BY SaidIs
<1>2. Len(msgs) \in 0 .. Len(msgs)
  BY LenProperties
<1>3. QED
  BY <1>1, <1>2 DEF SaidBy

LEMMA LoadType ==
    ASSUME NEW lines \in Seq(Entry)
    PROVE  Load(lines) \in Seq(Message) /\ Heard(lines) \in Seq(Message)
<1>1. PICK f : LoadedBy(lines, f)
  BY LoadIs
<1>2. Len(lines) \in 0 .. Len(lines)
  BY LenProperties
<1>3. QED
  BY <1>1, <1>2, SaidType DEF LoadedBy, Heard

LEMMA Empty ==
    /\ <<>> \in Seq(Message) /\ <<>> \in Seq(Entry)
    /\ Said(<<>>) = <<>> /\ Load(<<>>) = <<>> /\ Heard(<<>>) = <<>>
<1>1. <<>> \in Seq(Message) /\ <<>> \in Seq(Entry) /\ Len(<<>>) = 0
  OBVIOUS
<1>2. PICK f : SaidBy(<<>>, f)
  BY <1>1, SaidIs
<1>3. PICK g : LoadedBy(<<>>, g)
  BY <1>1, LoadIs
<1>4. QED
  BY <1>1, <1>2, <1>3 DEF SaidBy, LoadedBy, Heard

\* What is said in two parts is said in the one and then in the other.
LEMMA SaidConcat ==
    ASSUME NEW a \in Seq(Message), NEW b \in Seq(Message)
    PROVE  Said(a \o b) = Joined(Said(a), Said(b))
<1> DEFINE c == a \o b
<1>1. /\ c \in Seq(Message) /\ Len(a) \in Nat /\ Len(b) \in Nat /\ Len(c) = Len(a) + Len(b)
      /\ \A i \in 1 .. Len(a) : c[i] = a[i]
      /\ \A i \in 1 .. Len(b) : c[Len(a) + i] = b[i] /\ b[i] \in Message
  BY Parts
<1> HIDE DEF c
<1>2. PICK f : SaidBy(a, f)
  BY SaidIs
<1>3. PICK g : SaidBy(b, g)
  BY SaidIs
<1>4. PICK h : SaidBy(c, h)
  BY <1>1, SaidIs
<1> DEFINE A == {k \in 0 .. Len(a) : h[k] = f[k]}
           B == {k \in 0 .. Len(b) : h[Len(a) + k] = Joined(Said(a), g[k])}
<1>5. A = 0 .. Len(a)
  <2>1. 0 \in A
    BY <1>1, <1>2, <1>4 DEF SaidBy
  <2>2. ASSUME NEW k \in 1 .. Len(a), k - 1 \in A PROVE k \in A
    <3>1. k \in 1 .. Len(c) /\ k \in 0 .. Len(a)
      BY <1>1
    <3>2. h[k] = Joined(h[k - 1], Spoken(c[k])) /\ f[k] = Joined(f[k - 1], Spoken(a[k]))
      BY <1>2, <1>4, <3>1 DEF SaidBy
    <3>3. h[k - 1] = f[k - 1] /\ c[k] = a[k]
      BY <1>1, <2>2
    <3>4. h[k] = f[k]
      BY <3>2, <3>3
    <3>5. QED
      BY <3>1, <3>4
  <2>3. A \in SUBSET (0 .. Len(a))
    OBVIOUS
  <2> HIDE DEF A
  <2>4. QED
    BY <1>1, <2>1, <2>2, <2>3, UpToEach
<1>6. h[Len(a)] = Said(a)
  <2>1. Len(a) \in A
    BY <1>1, <1>5, SMTT(30)
  <2>2. QED
    BY <1>2, <2>1 DEF SaidBy
<1>7. B = 0 .. Len(b)
  <2>1. 0 \in B
    <3>1. Joined(Said(a), <<>>) = Said(a) /\ g[0] = <<>>
      BY <1>3, SaidType, JoinedFacts DEF SaidBy
    <3>2. Len(a) + 0 = Len(a) /\ 0 \in 0 .. Len(b)
      BY <1>1
    <3>3. QED
      BY <1>6, <3>1, <3>2
  <2>2. ASSUME NEW k \in 1 .. Len(b), k - 1 \in B PROVE k \in B
    <3>1. Len(a) + k \in 1 .. Len(c) /\ k \in 0 .. Len(b) /\ Len(a) + k - 1 = Len(a) + (k - 1)
      BY <1>1
    <3>2. h[Len(a) + k] = Joined(h[Len(a) + (k - 1)], Spoken(c[Len(a) + k])) /\ g[k] = Joined(g[k - 1], Spoken(b[k]))
      BY <1>3, <1>4, <3>1 DEF SaidBy
    <3>3. h[Len(a) + (k - 1)] = Joined(Said(a), g[k - 1]) /\ c[Len(a) + k] = b[k]
      BY <1>1, <2>2
    <3>4. g[k - 1] \in Seq(Message) /\ Spoken(b[k]) \in Seq(Message) /\ Said(a) \in Seq(Message)
      <4>1. k - 1 \in 0 .. Len(b)
        BY <1>1
      <4>2. QED
        BY <1>1, <1>3, <4>1, SpokenType, SaidType DEF SaidBy
    <3>5. h[Len(a) + k] = Joined(Said(a), g[k])
      <4>1. h[Len(a) + k] = Joined(Joined(Said(a), g[k - 1]), Spoken(b[k]))
        BY <3>2, <3>3
      <4>2. Joined(Joined(Said(a), g[k - 1]), Spoken(b[k])) = Joined(Said(a), Joined(g[k - 1], Spoken(b[k])))
        BY <3>4, JoinedFacts, ZenonT(60)
      <4>3. QED
        BY <3>2, <4>1, <4>2
    <3>6. QED
      BY <3>1, <3>5
  <2>3. B \in SUBSET (0 .. Len(b))
    OBVIOUS
  <2> HIDE DEF B
  <2>4. QED
    BY <1>1, <2>1, <2>2, <2>3, UpToEach
<1>8. Len(b) \in B
  <2>1. Len(b) \in 0 .. Len(b)
    BY <1>1
  <2> HIDE DEF B
  <2>2. QED
    BY <1>7, <2>1
<1>9. Said(c) = Joined(Said(a), Said(b))
  BY <1>1, <1>3, <1>4, <1>8 DEF SaidBy
<1>10. QED
  BY <1>9 DEF c

LEMMA SaidOne ==
    ASSUME NEW m \in Message
    PROVE  Said(<<m>>) = Spoken(m)
<1>1. <<m>> \in Seq(Message) /\ Len(<<m>>) = 1 /\ <<m>>[1] = m
  OBVIOUS
<1>2. PICK f : SaidBy(<<m>>, f)
  BY <1>1, SaidIs
<1>3. Said(<<m>>) = Joined(<<>>, Spoken(m))
  <2>1. f[1] = Joined(f[1 - 1], Spoken(m)) /\ f[0] = <<>> /\ Said(<<m>>) = f[1]
    BY <1>1, <1>2 DEF SaidBy
  <2>2. 1 - 1 = 0
    OBVIOUS
  <2>3. QED
    BY <2>1, <2>2
<1>4. QED
  BY <1>3, SpokenType, JoinedFacts

LEMMA SaidAppend ==
    ASSUME NEW a \in Seq(Message), NEW m \in Message
    PROVE  Append(a, m) = a \o <<m>> /\ Said(Append(a, m)) = Joined(Said(a), Spoken(m))
<1>1. <<m>> \in Seq(Message) /\ Append(a, m) = a \o <<m>>
  BY AppendIsConcat
<1>2. QED
  BY <1>1, SaidConcat, SaidOne

\* A line adds the message in it.
SpokenIn(e) == IF e.type = "message" THEN Spoken(e.msg) ELSE <<>>

LEMMA EntryFacts ==
    /\ \A e \in Entry : (e.type = "message" => e.msg \in Message) /\ SpokenIn(e) \in Seq(Message)
    /\ Restored \in Message /\ Spoken(Restored) = <<>>
    /\ \A m \in Message : Line(m) \in Entry /\ Line(m).type = "message" /\ Line(m).msg = m
                          /\ SpokenIn(Line(m)) = Spoken(m)
    /\ \A e \in Entry : e.type = "message" => e = Line(e.msg)
    /\ \A x \in {"session", "compaction", "activity", "torn", "garbled"} :
           Marker(x) \in Entry /\ Marker(x).type = x /\ SpokenIn(Marker(x)) = <<>>
<1>1. \A e \in Entry : e.type = "message" => e.msg \in Message
  BY DEF Entry
<1>2. \A e \in Entry : SpokenIn(e) \in Seq(Message)
  BY <1>1, SpokenType DEF SpokenIn
<1>3. Restored \in Message /\ Spoken(Restored) = <<>>
  BY DEF Restored, Msg, Message, Spoken
<1>4. \A m \in Message : Line(m) \in Entry /\ Line(m).type = "message" /\ Line(m).msg = m
  BY DEF Line, Entry
<1>5. \A m \in Message : SpokenIn(Line(m)) = Spoken(m)
  BY <1>4 DEF SpokenIn
<1>6. \A e \in Entry : e.type = "message" => e = Line(e.msg)
  BY DEF Entry, Line
<1>7. \A x \in {"session", "compaction", "activity", "torn", "garbled"} :
           Marker(x) \in Entry /\ Marker(x).type = x
  BY DEF Marker, Entry
<1>8. \A x \in {"session", "compaction", "activity", "torn", "garbled"} : SpokenIn(Marker(x)) = <<>>
  BY <1>7 DEF SpokenIn
<1>9. QED
  BY <1>1, <1>2, <1>3, <1>4, <1>5, <1>6, <1>7, <1>8

LEMMA SaidReads ==
    ASSUME NEW h \in Seq(Message), NEW e \in Entry
    PROVE  Said(Reads(h, e)) = Joined(Said(h), SpokenIn(e))
<1>1. Joined(Said(h), <<>>) = Said(h)
  BY SaidType, JoinedFacts
<1>2. CASE e.type = "message"
  BY <1>2, EntryFacts, SaidAppend DEF Reads, SpokenIn
<1>3. CASE e.type # "message"
  <2>1. SpokenIn(e) = <<>>
    BY <1>3 DEF SpokenIn
  <2>2. Reads(h, e) = h \/ Reads(h, e) = Append(h, Restored)
    BY <1>3 DEF Reads
  <2>3. QED
    BY <1>1, <2>1, <2>2, EntryFacts, SaidAppend
<1>4. QED
  BY <1>2, <1>3

\* What a restart makes of a file grows with its lines.
LEMMA HeardConcat ==
    ASSUME NEW a \in Seq(Entry), NEW b \in Seq(Entry)
    PROVE  Heard(a \o b) = Joined(Heard(a), Heard(b))
<1> DEFINE c == a \o b
<1>1. /\ c \in Seq(Entry) /\ Len(a) \in Nat /\ Len(b) \in Nat /\ Len(c) = Len(a) + Len(b)
      /\ \A i \in 1 .. Len(a) : c[i] = a[i]
      /\ \A i \in 1 .. Len(b) : c[Len(a) + i] = b[i] /\ b[i] \in Entry
  BY Parts
<1> HIDE DEF c
<1>2. PICK f : LoadedBy(a, f)
  BY LoadIs
<1>3. PICK g : LoadedBy(b, g)
  BY LoadIs
<1>4. PICK h : LoadedBy(c, h)
  BY <1>1, LoadIs
<1> DEFINE A == {k \in 0 .. Len(a) : h[k] = f[k]}
           B == {k \in 0 .. Len(b) : Said(h[Len(a) + k]) = Joined(Heard(a), Said(g[k]))}
<1>5. A = 0 .. Len(a)
  <2>1. 0 \in A
    BY <1>1, <1>2, <1>4 DEF LoadedBy
  <2>2. ASSUME NEW k \in 1 .. Len(a), k - 1 \in A PROVE k \in A
    <3>1. k \in 1 .. Len(c) /\ k \in 0 .. Len(a)
      BY <1>1
    <3>2. h[k] = Reads(h[k - 1], c[k]) /\ f[k] = Reads(f[k - 1], a[k])
      BY <1>2, <1>4, <3>1 DEF LoadedBy
    <3>3. h[k - 1] = f[k - 1] /\ c[k] = a[k]
      BY <1>1, <2>2
    <3>4. h[k] = f[k]
      BY <3>2, <3>3
    <3>5. QED
      BY <3>1, <3>4
  <2>3. A \in SUBSET (0 .. Len(a))
    OBVIOUS
  <2> HIDE DEF A
  <2>4. QED
    BY <1>1, <2>1, <2>2, <2>3, UpToEach
<1>6. Said(h[Len(a)]) = Heard(a)
  <2>1. Len(a) \in A
    BY <1>1, <1>5, SMTT(30)
  <2>2. QED
    BY <1>2, <2>1 DEF LoadedBy, Heard
<1>7. B = 0 .. Len(b)
  <2>1. 0 \in B
    <3>1. Joined(Heard(a), <<>>) = Heard(a) /\ g[0] = <<>> /\ Said(<<>>) = <<>>
      BY <1>3, LoadType, JoinedFacts, Empty DEF LoadedBy
    <3>2. Len(a) + 0 = Len(a) /\ 0 \in 0 .. Len(b)
      BY <1>1
    <3>3. QED
      BY <1>6, <3>1, <3>2
  <2>2. ASSUME NEW k \in 1 .. Len(b), k - 1 \in B PROVE k \in B
    <3>1. Len(a) + k \in 1 .. Len(c) /\ k \in 0 .. Len(b) /\ Len(a) + k - 1 = Len(a) + (k - 1)
      BY <1>1
    <3>2. h[Len(a) + k] = Reads(h[Len(a) + (k - 1)], c[Len(a) + k]) /\ g[k] = Reads(g[k - 1], b[k])
      BY <1>3, <1>4, <3>1 DEF LoadedBy
    <3>3. Said(h[Len(a) + (k - 1)]) = Joined(Heard(a), Said(g[k - 1])) /\ c[Len(a) + k] = b[k]
      BY <1>1, <2>2
    <3>4. /\ g[k - 1] \in Seq(Message) /\ h[Len(a) + (k - 1)] \in Seq(Message)
          /\ SpokenIn(b[k]) \in Seq(Message) /\ Heard(a) \in Seq(Message)
      <4>1. k - 1 \in 0 .. Len(b) /\ Len(a) + (k - 1) \in 0 .. Len(c)
        BY <1>1
      <4>2. QED
        BY <1>1, <1>3, <1>4, <4>1, EntryFacts, LoadType DEF LoadedBy
    <3>5. Said(g[k - 1]) \in Seq(Message) /\ Said(g[k]) = Joined(Said(g[k - 1]), SpokenIn(b[k]))
      BY <1>1, <3>2, <3>4, SaidReads, SaidType
    <3>6. Said(h[Len(a) + k]) = Joined(Joined(Heard(a), Said(g[k - 1])), SpokenIn(b[k]))
      BY <1>1, <3>2, <3>3, <3>4, SaidReads
    <3>7. Said(h[Len(a) + k]) = Joined(Heard(a), Said(g[k]))
      BY <3>4, <3>5, <3>6, JoinedFacts
    <3>8. QED
      BY <3>1, <3>7
  <2>3. B \in SUBSET (0 .. Len(b))
    OBVIOUS
  <2> HIDE DEF B
  <2>4. QED
    BY <1>1, <2>1, <2>2, <2>3, UpToEach
<1>8. Len(b) \in B
  <2>1. Len(b) \in 0 .. Len(b)
    BY <1>1
  <2> HIDE DEF B
  <2>2. QED
    BY <1>7, <2>1
<1>9. Heard(c) = Joined(Heard(a), Heard(b))
  BY <1>1, <1>3, <1>4, <1>8 DEF LoadedBy, Heard
<1>10. QED
  BY <1>9 DEF c

LEMMA HeardOne ==
    ASSUME NEW e \in Entry
    PROVE  Heard(<<e>>) = SpokenIn(e)
<1>1. <<e>> \in Seq(Entry) /\ Len(<<e>>) = 1 /\ <<e>>[1] = e
  OBVIOUS
<1>2. PICK f : LoadedBy(<<e>>, f)
  BY <1>1, LoadIs
<1>3. Load(<<e>>) = Reads(<<>>, e)
  <2>1. f[1] = Reads(f[1 - 1], e) /\ f[0] = <<>> /\ Load(<<e>>) = f[1]
    BY <1>1, <1>2 DEF LoadedBy
  <2>2. 1 - 1 = 0
    OBVIOUS
  <2>3. QED
    BY <2>1, <2>2
<1>4. Heard(<<e>>) = Joined(<<>>, SpokenIn(e))
  BY <1>3, SaidReads, Empty DEF Heard
<1>5. QED
  BY <1>4, EntryFacts, JoinedFacts

LEMMA HeardAppend ==
    ASSUME NEW a \in Seq(Entry), NEW e \in Entry
    PROVE  /\ Append(a, e) = a \o <<e>> /\ Append(a, e) \in Seq(Entry)
           /\ Heard(Append(a, e)) = Joined(Heard(a), SpokenIn(e))
           /\ Heard(a) \in Seq(Message) /\ SpokenIn(e) \in Seq(Message)
<1>1. <<e>> \in Seq(Entry) /\ Append(a, e) = a \o <<e>> /\ Append(a, e) \in Seq(Entry)
  BY AppendIsConcat, AppendProperties
<1>2. QED
  BY <1>1, HeardConcat, HeardOne, LoadType, EntryFacts, ZenonT(60)

\* A file of messages says what they say.
LinesOf(msgs) == [i \in DOMAIN msgs |-> Line(msgs[i])]

LEMMA HeardLines ==
    ASSUME NEW msgs \in Seq(Message)
    PROVE  LinesOf(msgs) \in Seq(Entry) /\ Heard(LinesOf(msgs)) = Said(msgs)
<1> DEFINE l == LinesOf(msgs)
<1>1. Len(msgs) \in Nat /\ DOMAIN msgs = 1 .. Len(msgs) /\ \A k \in 1 .. Len(msgs) : msgs[k] \in Message
  BY LenProperties, ElementOfSeq
<1>2. l \in Seq(Entry) /\ Len(l) = Len(msgs) /\ \A k \in 1 .. Len(msgs) : l[k] = Line(msgs[k])
  <2>1. l = [i \in 1 .. Len(msgs) |-> Line(msgs[i])] /\ l \in [1 .. Len(msgs) -> Entry]
    BY <1>1, EntryFacts DEF LinesOf
  <2>2. l \in Seq(Entry)
    BY <1>1, <2>1, IsASeq
  <2>3. QED
    BY <1>1, <2>1, <2>2, LenProperties
<1> HIDE DEF l
<1>3. PICK f : LoadedBy(l, f)
  BY <1>2, LoadIs
<1>4. PICK g : SaidBy(msgs, g)
  BY SaidIs
<1> DEFINE A == {k \in 0 .. Len(msgs) : Said(f[k]) = g[k]}
<1>5. 0 \in A
  BY <1>1, <1>3, <1>4, Empty DEF LoadedBy, SaidBy
<1>6. ASSUME NEW k \in 1 .. Len(msgs), k - 1 \in A PROVE k \in A
  <2>1. k \in 0 .. Len(msgs) /\ k - 1 \in 0 .. Len(msgs)
    BY <1>1
  <2>2. f[k] = Reads(f[k - 1], l[k]) /\ g[k] = Joined(g[k - 1], Spoken(msgs[k])) /\ f[k - 1] \in Seq(Message)
    BY <1>2, <1>3, <1>4, <2>1 DEF LoadedBy, SaidBy
  <2>3. msgs[k] \in Message /\ l[k] = Line(msgs[k]) /\ Said(f[k - 1]) = g[k - 1]
    BY <1>1, <1>2, <1>6
  <2>4. Said(f[k]) = Joined(Said(f[k - 1]), Spoken(msgs[k]))
    BY <2>2, <2>3, EntryFacts, SaidReads
  <2>5. Said(f[k]) = g[k]
    BY <2>2, <2>3, <2>4
  <2>6. QED
    BY <2>1, <2>5
<1>7. Len(msgs) \in A
  <2>1. A \in SUBSET (0 .. Len(msgs)) /\ Len(msgs) \in 0 .. Len(msgs)
    BY <1>1
  <2> HIDE DEF A
  <2>2. A = 0 .. Len(msgs)
    BY <1>1, <1>5, <1>6, <2>1, UpToEach
  <2>3. QED
    BY <2>1, <2>2
<1>8. QED
  BY <1>2, <1>3, <1>4, <1>7 DEF LoadedBy, SaidBy, Heard, l

\* What is loaded stands in the file, in its order, and nothing else is missing.
FromLines(lines, n, h) ==
    /\ \A i \in DOMAIN h : h[i] = Restored \/ \E p \in 1 .. n : lines[p] = Line(h[i])
    /\ \A i, j \in DOMAIN h : i < j /\ h[i] # Restored /\ h[j] # Restored =>
           \E p, q \in 1 .. n : p < q /\ lines[p] = Line(h[i]) /\ lines[q] = Line(h[j])
    /\ \A p \in 1 .. n : lines[p].type = "message" => \E i \in DOMAIN h : h[i] = lines[p].msg

LEMMA LoadFacts ==
    ASSUME NEW lines \in Seq(Entry)
    PROVE  FromLines(lines, Len(lines), Load(lines))
<1>1. PICK f : LoadedBy(lines, f)
  BY LoadIs
<1>2. Len(lines) \in Nat /\ \A k \in 1 .. Len(lines) : lines[k] \in Entry
  BY LenProperties, ElementOfSeq
<1> DEFINE A == {k \in 0 .. Len(lines) : FromLines(lines, k, f[k])}
<1>3. 0 \in A
  <2>1. f[0] = <<>> /\ DOMAIN <<>> = {} /\ 1 .. 0 = {}
    BY <1>1 DEF LoadedBy
  <2>2. QED
    BY <1>2, <2>1 DEF FromLines
<1>4. ASSUME NEW k \in 1 .. Len(lines), k - 1 \in A PROVE k \in A
  <2> DEFINE h == f[k - 1]
             e == lines[k]
             m == IF e.type = "message" THEN e.msg ELSE Restored
  <2>1. k \in 0 .. Len(lines) /\ f[k] = Reads(h, e) /\ h \in Seq(Message) /\ e \in Entry
    <3>1. k - 1 \in 0 .. Len(lines)
      BY <1>2
    <3>2. QED
      BY <1>1, <1>2, <3>1 DEF LoadedBy
  <2>2. FromLines(lines, k - 1, h)
    BY <1>4
  <2>3. m \in Message
    BY <2>1, EntryFacts
  <2>4. (f[k] = h /\ e.type # "message") \/ f[k] = Append(h, m)
    BY <2>1 DEF Reads
  <2>5. /\ Len(h) \in Nat /\ DOMAIN h = 1 .. Len(h)
        /\ DOMAIN Append(h, m) = 1 .. Len(h) + 1
        /\ \A i \in 1 .. Len(h) : Append(h, m)[i] = h[i]
        /\ Append(h, m)[Len(h) + 1] = m
    BY <2>1, <2>3, LenProperties, AppendProperties
  <2>6. m # Restored => e.type = "message" /\ lines[k] = Line(m)
    BY <2>1, EntryFacts
  <2> HIDE DEF h, m
  <2>7. CASE f[k] = h /\ e.type # "message"
    <3>1. FromLines(lines, k, h)
      BY <1>2, <2>2, <2>7 DEF FromLines
    <3>2. QED
      BY <2>1, <2>7, <3>1
  <2>8. CASE f[k] = Append(h, m)
    <3> DEFINE g == Append(h, m)
    <3>1. \A i \in DOMAIN g : g[i] = Restored \/ \E p \in 1 .. k : lines[p] = Line(g[i])
      <4> SUFFICES ASSUME NEW i \in 1 .. Len(h) + 1, g[i] # Restored
                   PROVE  \E p \in 1 .. k : lines[p] = Line(g[i])
        BY <2>5
      <4>1. CASE i = Len(h) + 1
        BY <1>2, <2>5, <2>6, <4>1
      <4>2. CASE i # Len(h) + 1
        <5>1. i \in 1 .. Len(h) /\ g[i] = h[i]
          BY <2>5, <4>2
        <5>2. PICK p \in 1 .. k - 1 : lines[p] = Line(h[i])
          BY <2>2, <2>5, <5>1 DEF FromLines
        <5>3. p \in 1 .. k
          BY <1>2
        <5>4. QED
          BY <5>1, <5>2, <5>3
      <4>3. QED
        BY <4>1, <4>2
    <3>2. ASSUME NEW i \in DOMAIN g, NEW j \in DOMAIN g, i < j, g[i] # Restored, g[j] # Restored
          PROVE  \E p, q \in 1 .. k : p < q /\ lines[p] = Line(g[i]) /\ lines[q] = Line(g[j])
      <4>1. i \in 1 .. Len(h) /\ g[i] = h[i] /\ j \in 1 .. Len(h) + 1
        BY <2>5, <3>2
      <4>2. CASE j = Len(h) + 1
        <5>1. PICK p \in 1 .. k - 1 : lines[p] = Line(h[i])
          BY <2>2, <2>5, <3>2, <4>1 DEF FromLines
        <5>2. p \in 1 .. k /\ k \in 1 .. k /\ p < k
          BY <1>2
        <5>3. lines[k] = Line(g[j])
          BY <2>5, <2>6, <3>2, <4>2
        <5>4. QED
          BY <4>1, <5>1, <5>2, <5>3
      <4>3. CASE j # Len(h) + 1
        <5>1. j \in 1 .. Len(h) /\ g[j] = h[j]
          BY <2>5, <4>1, <4>3
        <5>2. PICK p \in 1 .. k - 1, q \in 1 .. k - 1 : p < q /\ lines[p] = Line(h[i]) /\ lines[q] = Line(h[j])
          BY <2>2, <2>5, <3>2, <4>1, <5>1 DEF FromLines
        <5>3. p \in 1 .. k /\ q \in 1 .. k
          BY <1>2
        <5>4. QED
          BY <4>1, <5>1, <5>2, <5>3
      <4>4. QED
        BY <4>2, <4>3
    <3>3. ASSUME NEW p \in 1 .. k, lines[p].type = "message"
          PROVE  \E i \in DOMAIN g : g[i] = lines[p].msg
      <4>1. CASE p = k
        <5>1. m = lines[p].msg
          BY <3>3, <4>1 DEF m
        <5>2. QED
          BY <2>5, <5>1
      <4>2. CASE p # k
        <5>1. p \in 1 .. k - 1
          BY <1>2, <4>2
        <5>2. PICK i \in 1 .. Len(h) : h[i] = lines[p].msg
          BY <2>2, <2>5, <3>3, <5>1 DEF FromLines
        <5>3. i \in 1 .. Len(h) + 1
          BY <2>5
        <5>4. QED
          BY <2>5, <5>2, <5>3
      <4>3. QED
        BY <4>1, <4>2
    <3>4. FromLines(lines, k, g)
      BY <3>1, <3>2, <3>3 DEF FromLines
    <3>5. QED
      BY <2>1, <2>8, <3>4
  <2>9. QED
    BY <2>4, <2>7, <2>8
<1>5. Len(lines) \in A
  <2>1. A \in SUBSET (0 .. Len(lines)) /\ Len(lines) \in 0 .. Len(lines)
    BY <1>2
  <2> HIDE DEF A
  <2>2. A = 0 .. Len(lines)
    BY <1>2, <1>3, <1>4, <2>1, UpToEach
  <2>3. QED
    BY <2>1, <2>2
<1>6. QED
  BY <1>1, <1>5 DEF LoadedBy

\* What is said is among the messages.
LEMMA SaidFacts ==
    ASSUME NEW msgs \in Seq(Message), NEW i \in DOMAIN Said(msgs)
    PROVE  \E p \in DOMAIN msgs : Said(msgs)[i] = msgs[p]
<1>1. PICK f : SaidBy(msgs, f)
  BY SaidIs
<1>2. Len(msgs) \in Nat /\ DOMAIN msgs = 1 .. Len(msgs) /\ \A k \in 1 .. Len(msgs) : msgs[k] \in Message
  BY LenProperties, ElementOfSeq
<1> DEFINE A == {k \in 0 .. Len(msgs) : \A j \in DOMAIN f[k] : \E p \in DOMAIN msgs : f[k][j] = msgs[p]}
<1>3. 0 \in A
  <2>1. f[0] = <<>> /\ DOMAIN <<>> = {}
    BY <1>1 DEF SaidBy
  <2>2. QED
    BY <1>2, <2>1
<1>4. ASSUME NEW k \in 1 .. Len(msgs), k - 1 \in A PROVE k \in A
  <2> DEFINE h == f[k - 1]
  <2>1. k \in 0 .. Len(msgs) /\ f[k] = Joined(h, Spoken(msgs[k])) /\ h \in Seq(Message) /\ k \in DOMAIN msgs
    <3>1. k - 1 \in 0 .. Len(msgs) /\ k \in 0 .. Len(msgs)
      BY <1>2
    <3>2. QED
      BY <1>1, <1>2, <3>1 DEF SaidBy
  <2>2. ASSUME NEW j \in DOMAIN h PROVE \E p \in DOMAIN msgs : h[j] = msgs[p]
    BY <1>4
  <2> HIDE DEF h
  <2>3. f[k] = h \/ f[k] = Append(h, msgs[k])
    <3>1. CASE Spoken(msgs[k]) = <<>>
      BY <2>1, <3>1, JoinedFacts
    <3>2. CASE Spoken(msgs[k]) = <<msgs[k]>>
      BY <1>2, <2>1, <3>2, AppendIsConcat DEF Joined
    <3>3. QED
      BY <3>1, <3>2 DEF Spoken
  <2>4. ASSUME NEW j \in DOMAIN f[k] PROVE \E p \in DOMAIN msgs : f[k][j] = msgs[p]
    <3>1. CASE f[k] = h
      BY <2>2, <3>1
    <3>2. CASE f[k] = Append(h, msgs[k])
      <4>1. /\ Len(h) \in Nat /\ DOMAIN h = 1 .. Len(h) /\ msgs[k] \in Message
            /\ DOMAIN f[k] = 1 .. Len(h) + 1
            /\ \A i_1 \in 1 .. Len(h) : f[k][i_1] = h[i_1]
            /\ f[k][Len(h) + 1] = msgs[k]
        BY <1>2, <2>1, <3>2, LenProperties, AppendProperties
      <4>2. CASE j = Len(h) + 1
        BY <2>1, <4>1, <4>2
      <4>3. CASE j # Len(h) + 1
        <5>1. j \in 1 .. Len(h)
          BY <4>1, <4>3
        <5>2. QED
          BY <2>2, <4>1, <5>1
      <4>4. QED
        BY <4>2, <4>3
    <3>3. QED
      BY <2>3, <3>1, <3>2
  <2>5. QED
    BY <2>1, <2>4
<1>5. Len(msgs) \in A
  <2>1. A \in SUBSET (0 .. Len(msgs)) /\ Len(msgs) \in 0 .. Len(msgs)
    BY <1>2
  <2> HIDE DEF A
  <2>2. A = 0 .. Len(msgs)
    BY <1>2, <1>3, <1>4, <2>1, UpToEach
  <2>3. QED
    BY <2>1, <2>2
<1>6. QED
  BY <1>1, <1>5 DEF SaidBy

--------------------------------------------------------------------------------
(* Lines that are appended to a file.                                              *)

LEMMA SubSeqIs ==
    ASSUME NEW T, NEW s \in Seq(T), NEW m \in 1 .. Len(s) + 1, NEW n \in 0 .. Len(s), m <= n + 1
    PROVE  /\ SubSeq(s, m, n) \in Seq(T) /\ Len(SubSeq(s, m, n)) = n - m + 1
           /\ DOMAIN SubSeq(s, m, n) = 1 .. n - m + 1
           /\ \A i \in 1 .. n - m + 1 : SubSeq(s, m, n)[i] = s[m + i - 1]
<1>1. Len(s) \in Nat /\ m \in Int /\ n \in Int
  BY LenProperties
<1>2. \A i \in m .. n : s[i] \in T
  BY <1>1, ElementOfSeq
<1>3. /\ SubSeq(s, m, n) \in Seq(T)
      /\ Len(SubSeq(s, m, n)) = IF m <= n THEN n - m + 1 ELSE 0
      /\ \A i \in 1 .. n - m + 1 : SubSeq(s, m, n)[i] = s[m + i - 1]
  BY <1>1, <1>2, SubSeqProperties
<1>4. Len(SubSeq(s, m, n)) = n - m + 1
  BY <1>1, <1>3
<1>5. QED
  BY <1>3, <1>4, LenProperties

\* The one line behind others.
LEMMA FirstBehind ==
    ASSUME NEW a \in Seq(Entry), NEW b \in Seq(Entry), Len(b) = 1
    PROVE  (a \o b)[Len(a) + 1] = b[1]
<1>1. \A i \in 1 .. Len(a) + Len(b) : (a \o b)[i] = IF i <= Len(a) THEN a[i] ELSE b[i - Len(a)]
  BY ConcatProperties
<1>2. Len(a) \in Nat
  BY LenProperties
<1> DEFINE c == a \o b
<1> HIDE DEF c
<1>3. c[Len(a) + 1] = b[1]
  <2>1. \A i \in 1 .. Len(a) + 1 : c[i] = IF i <= Len(a) THEN a[i] ELSE b[i - Len(a)]
    BY <1>1 DEF c
  <2>2. Len(a) + 1 \in 1 .. Len(a) + 1 /\ ~ (Len(a) + 1 <= Len(a)) /\ Len(a) + 1 - Len(a) = 1
    BY <1>2
  <2>3. QED
    BY <2>1, <2>2
<1>4. QED
  BY <1>3 DEF c

Torn(lines) == \E e \in {"torn", "garbled"} : Contains(lines, Marker(e))

\* es, appended to lines, behind them or, less its first, behind what was a torn one.
Behind(lines, es, r) ==
    LET n == Len(lines)
    IN  /\ r \in Seq(Entry) /\ Len(r) = n + Len(es)
        /\ \A i \in 1 .. n : r[i] = lines[i]
        /\ \A i \in 1 .. Len(es) : r[n + i] = es[i]
BehindTorn(lines, es, r) ==
    LET n == Len(lines)
    IN  /\ r \in Seq(Entry) /\ Len(r) = n + Len(es) - 1 /\ n >= 1
        /\ lines[n] = Marker("torn") /\ r[n] = Marker("garbled")
        /\ \A i \in 1 .. n - 1 : r[i] = lines[i]
        /\ \A i \in 2 .. Len(es) : r[n + i - 1] = es[i]

LEMMA ExtendIs ==
    ASSUME NEW lines \in Seq(Entry), NEW es \in Seq(Entry), es # <<>>
    PROVE  /\ NotTorn(lines) => Extend(lines, es) = lines \o es /\ Behind(lines, es, lines \o es)
           /\ ~NotTorn(lines) => BehindTorn(lines, es, Extend(lines, es))
<1> DEFINE n == Len(lines)
           k == Len(es)
<1>1. n \in Nat /\ k \in Nat /\ k >= 1 /\ (lines # <<>> => n >= 1)
  BY EmptySeq, LenProperties
<1>2. CASE NotTorn(lines)
  <2>1. Extend(lines, es) = lines \o es
    BY <1>2 DEF Extend, NotTorn
  <2>2. QED
    BY <1>2, <2>1, Parts DEF Behind
<1>3. CASE ~NotTorn(lines)
  <2>1. lines # <<>> /\ lines[n].type = "torn" /\ n >= 1
    BY <1>1, <1>3 DEF NotTorn, Last
  <2>2. lines[n] = Marker("torn")
    <3>1. lines[n] \in Entry
      BY <1>1, <2>1, ElementOfSeq
    <3>2. QED
      BY <2>1, <3>1 DEF Entry, Marker
  <2> DEFINE f == SubSeq(lines, 1, n - 1)
             g == <<Marker("garbled")>>
             t == Tail(es)
  <2>3. f \in Seq(Entry) /\ Len(f) = n - 1 /\ \A i \in 1 .. n - 1 : f[i] = lines[i]
    <3>1. 1 \in 1 .. n + 1 /\ n - 1 \in 0 .. n /\ 1 <= n - 1 + 1
      BY <1>1, <2>1
    <3>2. /\ f \in Seq(Entry) /\ Len(f) = n - 1 - 1 + 1
          /\ \A i \in 1 .. n - 1 - 1 + 1 : f[i] = lines[1 + i - 1]
      BY <3>1, SubSeqIs, ZenonT(60)
    <3>3. n - 1 - 1 + 1 = n - 1 /\ \A i \in 1 .. n - 1 : 1 + i - 1 = i
      BY <1>1
    <3> HIDE DEF f
    <3>4. QED
      BY <3>2, <3>3
  <2>4. g \in Seq(Entry) /\ Len(g) = 1 /\ 1 \in 1 .. Len(g) /\ g[1] = Marker("garbled")
    BY EntryFacts
  <2>5. t \in Seq(Entry) /\ Len(t) = k - 1 /\ \A i \in 1 .. k - 1 : t[i] = es[i + 1]
    BY <1>1, HeadTailProperties
  <2>6. Extend(lines, es) = (f \o g) \o t
    BY <2>1 DEF Extend, Front, Last
  <2> HIDE DEF f, g, t
  <2> DEFINE h == f \o g
             r == h \o t
  <2>7. /\ h \in Seq(Entry) /\ Len(h) = n /\ h[n] = Marker("garbled")
        /\ \A i \in 1 .. n - 1 : h[i] = lines[i]
    <3>1. h \in Seq(Entry) /\ Len(h) = n - 1 + 1 /\ (\A i \in 1 .. n - 1 : h[i] = f[i]) /\ h[n - 1 + 1] = g[1]
      <4>1. h \in Seq(Entry) /\ Len(h) = Len(f) + Len(g)
        BY <2>3, <2>4, Parts
      <4>2. \A i \in 1 .. Len(f) : h[i] = f[i]
        BY <2>3, <2>4, Parts
      <4>3. h[Len(f) + 1] = g[1]
        BY <2>3, <2>4, FirstBehind
      <4>4. QED
        BY <2>3, <2>4, <4>1, <4>2, <4>3
    <3>2. n - 1 + 1 = n
      BY <1>1
    <3>3. QED
      BY <2>3, <2>4, <3>1, <3>2
  <2> HIDE DEF h
  <2>8. r \in Seq(Entry) /\ Len(r) = n + (k - 1) /\ (\A i \in 1 .. n : r[i] = h[i]) /\ \A i \in 1 .. k - 1 : r[n + i] = t[i]
    <3>1. r \in Seq(Entry) /\ Len(r) = Len(h) + Len(t)
      BY <2>5, <2>7, Parts
    <3>2. \A i \in 1 .. Len(h) : r[i] = h[i]
      BY <2>5, <2>7, Parts
    <3>3. \A i \in 1 .. Len(t) : r[Len(h) + i] = t[i]
      BY <2>5, <2>7, Parts
    <3>4. QED
      BY <2>5, <2>7, <3>1, <3>2, <3>3
  <2> HIDE DEF r
  <2>9. \A i \in 2 .. k : r[n + i - 1] = es[i]
    <3> TAKE i \in 2 .. k
    <3>1. i - 1 \in 1 .. k - 1 /\ n + (i - 1) = n + i - 1 /\ i - 1 + 1 = i
      BY <1>1
    <3>2. r[n + (i - 1)] = t[i - 1] /\ t[i - 1] = es[i - 1 + 1]
      BY <2>5, <2>8, <3>1
    <3>3. QED
      BY <3>1, <3>2
  <2>10. Len(r) = n + k - 1 /\ r[n] = Marker("garbled") /\ \A i \in 1 .. n - 1 : r[i] = lines[i]
    BY <1>1, <2>1, <2>7, <2>8
  <2>11. BehindTorn(lines, es, r)
    BY <1>1, <2>1, <2>2, <2>8, <2>9, <2>10 DEF BehindTorn
  <2>12. QED
    BY <1>3, <2>6, <2>11 DEF r, h
<1>4. QED
  BY <1>2, <1>3

\* What is in a file stays there, and nothing comes in but what is appended.
LEMMA ExtendKeeps ==
    ASSUME NEW lines \in Seq(Entry), NEW es \in Seq(Entry), es # <<>>
    PROVE  LET r == Extend(lines, es)
           IN  /\ r \in Seq(Entry)
               /\ \A m \in Message : Contains(lines, Line(m)) => Contains(r, Line(m))
               /\ NotTorn(lines) => \A m \in Message : Contains(es, Line(m)) => Contains(r, Line(m))
               /\ \A e \in Entry : Contains(r, e) => \/ Contains(lines, e) \/ Contains(es, e)
                                                     \/ e = Marker("garbled")
               /\ ~Torn(r) => ~Torn(lines) /\ ~Torn(es) /\ r = lines \o es
               /\ Last(es).type # "torn" => NotTorn(r)
<1> DEFINE n == Len(lines)
           k == Len(es)
           r == Extend(lines, es)
<1>1. n \in Nat /\ k \in Nat /\ k >= 1
  BY EmptySeq, LenProperties
<1>2. \A m \in Message : Line(m) # Marker("torn")
  BY EntryFacts
<1>3. Marker("torn").type = "torn" /\ Marker("garbled").type = "garbled"
  BY EntryFacts
<1>4. CASE NotTorn(lines)
  <2>1. Behind(lines, es, r) /\ r = lines \o es
    BY <1>4, ExtendIs
  <2> HIDE DEF r
  <2>2. \A e : Contains(r, e) <=> Contains(lines, e) \/ Contains(es, e)
    <3> TAKE e
    <3>1. ASSUME NEW i \in 1 .. n, lines[i] = e PROVE Contains(r, e)
      <4>1. i \in 1 .. Len(r) /\ r[i] = e
        BY <1>1, <2>1, <3>1 DEF Behind
      <4>2. QED
        BY <4>1 DEF Contains
    <3>2. ASSUME NEW i \in 1 .. k, es[i] = e PROVE Contains(r, e)
      <4>1. n + i \in 1 .. Len(r) /\ r[n + i] = e
        BY <1>1, <2>1, <3>2 DEF Behind
      <4>2. QED
        BY <4>1 DEF Contains
    <3>3. ASSUME NEW i \in 1 .. Len(r), r[i] = e PROVE Contains(lines, e) \/ Contains(es, e)
      <4>1. CASE i \in 1 .. n
        BY <2>1, <3>3, <4>1 DEF Behind, Contains
      <4>2. CASE i \notin 1 .. n
        <5>1. i - n \in 1 .. k /\ n + (i - n) = i
          BY <1>1, <2>1, <4>2 DEF Behind
        <5>2. es[i - n] = e
          BY <2>1, <3>3, <5>1 DEF Behind
        <5>3. QED
          BY <5>1, <5>2 DEF Contains
      <4>3. QED
        BY <4>1, <4>2
    <3>4. QED
      BY <3>1, <3>2, <3>3 DEF Contains
  <2>3. ~Torn(r) => ~Torn(lines) /\ ~Torn(es)
    BY <2>2 DEF Torn
  <2>4. r[Len(r)] = es[k]
    <3>1. k \in 1 .. k /\ n + k = Len(r)
      BY <1>1, <2>1 DEF Behind
    <3>2. QED
      BY <2>1, <3>1 DEF Behind
  <2>5. QED
    BY <1>4, <2>1, <2>2, <2>3, <2>4 DEF Behind, NotTorn, Last, r
<1>5. CASE ~NotTorn(lines)
  <2>1. BehindTorn(lines, es, r)
    BY <1>5, ExtendIs
  <2> HIDE DEF r
  <2>2. Torn(r)
    <3>1. n \in 1 .. Len(r) /\ r[n] = Marker("garbled")
      BY <1>1, <2>1 DEF BehindTorn
    <3>2. QED
      BY <3>1 DEF Torn, Contains
  <2>3. ASSUME NEW m \in Message, Contains(lines, Line(m)) PROVE Contains(r, Line(m))
    <3>1. PICK i \in 1 .. n : lines[i] = Line(m)
      BY <2>3 DEF Contains
    <3>2. i # n
      BY <1>2, <2>1, <3>1 DEF BehindTorn
    <3>3. i \in 1 .. n - 1 /\ i \in 1 .. Len(r)
      BY <1>1, <2>1, <3>2 DEF BehindTorn
    <3>4. r[i] = Line(m)
      BY <2>1, <3>1, <3>3 DEF BehindTorn
    <3>5. QED
      BY <3>3, <3>4 DEF Contains
  <2>4. ASSUME NEW i \in 1 .. Len(r)
        PROVE  Contains(lines, r[i]) \/ Contains(es, r[i]) \/ r[i] = Marker("garbled")
    <3>1. CASE i \in 1 .. n - 1
      <4>1. i \in 1 .. n
        BY <1>1, <3>1
      <4>2. r[i] = lines[i]
        BY <2>1, <3>1 DEF BehindTorn
      <4>3. QED
        BY <4>1, <4>2 DEF Contains
    <3>2. CASE i = n
      BY <2>1, <3>2 DEF BehindTorn
    <3>3. CASE i > n
      <4>1. i - n + 1 \in 2 .. k /\ n + (i - n + 1) - 1 = i /\ i - n + 1 \in 1 .. k
        BY <1>1, <2>1, <3>3 DEF BehindTorn
      <4>2. r[i] = es[i - n + 1]
        BY <2>1, <4>1 DEF BehindTorn
      <4>3. QED
        BY <4>1, <4>2 DEF Contains
    <3>4. QED
      BY <1>1, <3>1, <3>2, <3>3
  <2>5. \A e \in Entry : Contains(r, e) => Contains(lines, e) \/ Contains(es, e) \/ e = Marker("garbled")
    <3> SUFFICES ASSUME NEW e \in Entry, NEW i \in 1 .. Len(r), r[i] = e
                 PROVE  Contains(lines, e) \/ Contains(es, e) \/ e = Marker("garbled")
      BY DEF Contains
    <3> QED
      BY <2>4
  <2>6. r[Len(r)] = es[k] \/ r[Len(r)] = Marker("garbled")
    <3>1. CASE k = 1
      BY <1>1, <2>1, <3>1 DEF BehindTorn
    <3>2. CASE k # 1
      <4>1. n \in Nat /\ k \in Nat /\ k >= 1 /\ k # 1
        BY <1>1, <3>2
      <4>2. Len(r) = n + k - 1 /\ \A i \in 2 .. k : r[n + i - 1] = es[i]
        BY <2>1 DEF BehindTorn
      <4> HIDE DEF k, n
      <4>3. k \in 2 .. k
        BY <4>1
      <4>4. QED
        BY <4>2, <4>3
    <3>3. QED
      BY <3>1, <3>2
  <2>7. Last(es).type # "torn" => NotTorn(r)
    BY <1>3, <2>6 DEF NotTorn, Last
  <2>8. r \in Seq(Entry)
    BY <2>1 DEF BehindTorn
  <2>9. QED
    BY <1>5, <2>2, <2>3, <2>5, <2>7, <2>8 DEF r
<1>6. QED
  BY <1>4, <1>5

\* A reply stays the last word of its turn.
LEMMA ExtendCloses ==
    ASSUME NEW lines \in Seq(Entry), NEW es \in Seq(Entry), es # <<>>,
           ClosedLines(lines), ClosedLines(es),
           \A p \in 1 .. Len(lines), q \in 1 .. Len(es) :
               lines[p].type = "message" /\ es[q].type = "message" /\ lines[p].msg.kind = "reply"
                   => es[q].msg.by # lines[p].msg.by
    PROVE  ClosedLines(Extend(lines, es))
<1> DEFINE n == Len(lines)
           k == Len(es)
           r == Extend(lines, es)
<1>1. n \in Nat /\ k \in Nat /\ k >= 1 /\ DOMAIN lines = 1 .. n /\ DOMAIN es = 1 .. k
  BY EmptySeq, LenProperties
<1> SUFFICES ASSUME NEW i \in DOMAIN r, NEW j \in DOMAIN r, i < j,
                    r[i].type = "message", r[j].type = "message", r[i].msg.kind = "reply"
             PROVE  r[j].msg.by # r[i].msg.by
  BY DEF ClosedLines
<1>2. CASE NotTorn(lines)
  <2>1. Behind(lines, es, r)
    BY <1>2, ExtendIs
  <2> HIDE DEF r
  <2>2. DOMAIN r = 1 .. n + k
    BY <2>1, LenProperties DEF Behind
  <2>3. CASE j \in 1 .. n
    <3>1. i \in 1 .. n /\ r[i] = lines[i] /\ r[j] = lines[j]
      BY <1>1, <2>1, <2>2, <2>3 DEF Behind
    <3>2. QED
      BY <1>1, <2>3, <3>1 DEF ClosedLines
  <2>4. CASE i \in 1 .. n /\ j \notin 1 .. n
    <3>1. j - n \in 1 .. k /\ n + (j - n) = j
      BY <1>1, <2>2, <2>4
    <3>2. r[i] = lines[i] /\ r[j] = es[j - n]
      BY <2>1, <2>4, <3>1 DEF Behind
    <3>3. QED
      BY <2>4, <3>1, <3>2
  <2>5. CASE i \notin 1 .. n /\ j \notin 1 .. n
    <3>1. /\ j - n \in 1 .. k /\ n + (j - n) = j /\ i - n \in 1 .. k /\ n + (i - n) = i
          /\ i - n < j - n
      BY <1>1, <2>2, <2>5
    <3>2. r[i] = es[i - n] /\ r[j] = es[j - n]
      BY <2>1, <3>1 DEF Behind
    <3>3. QED
      BY <1>1, <3>1, <3>2 DEF ClosedLines
  <2>6. QED
    BY <2>3, <2>4, <2>5
<1>3. CASE ~NotTorn(lines)
  <2>1. BehindTorn(lines, es, r)
    BY <1>3, ExtendIs
  <2> HIDE DEF r
  <2>2. DOMAIN r = 1 .. n + k - 1 /\ r[n].type # "message"
    BY <2>1, LenProperties, EntryFacts, ZenonT(60) DEF BehindTorn
  <2>3. i # n /\ j # n
    BY <2>2
  <2>4. CASE j < n
    <3>1. i \in 1 .. n - 1 /\ j \in 1 .. n - 1 /\ i \in 1 .. n /\ j \in 1 .. n
      BY <1>1, <2>2, <2>4
    <3>2. r[i] = lines[i] /\ r[j] = lines[j]
      BY <2>1, <3>1 DEF BehindTorn
    <3>3. QED
      BY <1>1, <3>1, <3>2 DEF ClosedLines
  <2>5. CASE i < n /\ j > n
    <3>1. /\ i \in 1 .. n - 1 /\ i \in 1 .. n
          /\ j - n + 1 \in 2 .. k /\ j - n + 1 \in 1 .. k /\ n + (j - n + 1) - 1 = j
      BY <1>1, <2>2, <2>5
    <3>2. r[i] = lines[i] /\ r[j] = es[j - n + 1]
      BY <2>1, <3>1 DEF BehindTorn
    <3>3. QED
      BY <3>1, <3>2
  <2>6. CASE i > n
    <3>1. i \in Int /\ j \in Int /\ i <= n + k - 1 /\ j <= n + k - 1 /\ i < j /\ n < i
      BY <1>1, <2>2, <2>6
    <3> DEFINE p == i - n + 1
               q == j - n + 1
    <3>2. p \in 2 .. k /\ p \in 1 .. k /\ n + p - 1 = i
      BY <1>1, <3>1
    <3>3. q \in 2 .. k /\ q \in 1 .. k /\ n + q - 1 = j /\ p < q
      BY <1>1, <3>1
    <3> HIDE DEF p, q
    <3>4. r[i] = es[p] /\ r[j] = es[q]
      BY <2>1, <3>2, <3>3 DEF BehindTorn
    <3>5. QED
      BY <1>1, <3>2, <3>3, <3>4 DEF ClosedLines
  <2>7. QED
    BY <1>1, <2>2, <2>3, <2>4, <2>5, <2>6
<1>4. QED
  BY <1>2, <1>3

LEMMA ConcatIsBehind ==
    ASSUME NEW a \in Seq(Entry), NEW b \in Seq(Entry)
    PROVE  Behind(a, b, a \o b)
BY Parts DEF Behind

\* A header line in front changes nothing of what lines say.
LEMMA HeaderIsQuiet ==
    ASSUME NEW es \in Seq(Entry), es # <<>>, ClosedLines(es)
    PROVE  LET h == <<Marker("session")>> \o es
           IN  /\ h \in Seq(Entry) /\ h # <<>> /\ ClosedLines(h) /\ Heard(h) = Heard(es)
               /\ Last(h) = Last(es)
               /\ \A m \in Message : Contains(h, Line(m)) <=> Contains(es, Line(m))
<1> DEFINE e == Marker("session")
           a == <<e>>
           h == a \o es
           n == Len(es)
<1>1. /\ a \in Seq(Entry) /\ Len(a) = 1 /\ a[1] = e /\ e \in Entry /\ e.type = "session"
      /\ SpokenIn(e) = <<>> /\ \A m \in Message : Line(m) # e
  BY EntryFacts
<1>2. Heard(h) = Joined(Heard(a), Heard(es)) /\ Heard(a) = <<>> /\ Heard(es) \in Seq(Message)
  BY <1>1, HeardConcat, HeardOne, LoadType
<1>3. Heard(h) = Heard(es)
  BY <1>2, JoinedFacts
<1>4. Behind(a, es, h)
  BY <1>1, ConcatIsBehind
<1> HIDE DEF a, h, e
<1>5. n \in Nat /\ n >= 1 /\ DOMAIN es = 1 .. n
  BY EmptySeq, LenProperties
<1>6. /\ h \in Seq(Entry) /\ Len(h) = 1 + n /\ h[1] = e /\ DOMAIN h = 1 .. 1 + n
      /\ \A i \in 1 .. n : h[1 + i] = es[i]
  <2>1. h \in Seq(Entry) /\ Len(h) = 1 + n /\ \A i \in 1 .. n : h[1 + i] = es[i]
    BY <1>1, <1>4 DEF Behind
  <2>2. h[1] = a[1]
    BY <1>1, <1>4 DEF Behind
  <2>3. QED
    BY <1>1, <2>1, <2>2, LenProperties
<1>7. \A i \in DOMAIN h : h[i].type = "message" => i - 1 \in 1 .. n /\ h[i] = es[i - 1]
  <2> SUFFICES ASSUME NEW i \in 1 .. 1 + n, h[i].type = "message"
               PROVE  i - 1 \in 1 .. n /\ h[i] = es[i - 1]
    BY <1>6
  <2>1. i # 1
    BY <1>1, <1>6
  <2>2. i - 1 \in 1 .. n /\ 1 + (i - 1) = i
    BY <1>5, <2>1
  <2>3. QED
    BY <1>6, <2>2
<1>8. ClosedLines(h)
  <2> SUFFICES ASSUME NEW i \in DOMAIN h, NEW j \in DOMAIN h, i < j, h[i].type = "message",
                      h[j].type = "message", h[i].msg.kind = "reply"
               PROVE  h[j].msg.by # h[i].msg.by
    BY DEF ClosedLines
  <2>1. i - 1 \in DOMAIN es /\ j - 1 \in DOMAIN es /\ h[i] = es[i - 1] /\ h[j] = es[j - 1] /\ i - 1 < j - 1
    BY <1>5, <1>6, <1>7
  <2>2. QED
    BY <2>1 DEF ClosedLines
<1>9. ASSUME NEW m \in Message PROVE Contains(h, Line(m)) <=> Contains(es, Line(m))
  <2>1. ASSUME NEW i \in 1 .. Len(h), h[i] = Line(m) PROVE Contains(es, Line(m))
    <3>1. i \in DOMAIN h /\ h[i].type = "message"
      BY <1>6, <2>1, EntryFacts
    <3>2. i - 1 \in 1 .. n /\ es[i - 1] = Line(m)
      BY <1>7, <2>1, <3>1
    <3>3. QED
      BY <3>2 DEF Contains
  <2>2. ASSUME NEW i \in 1 .. n, es[i] = Line(m) PROVE Contains(h, Line(m))
    <3>1. 1 + i \in 1 .. Len(h) /\ h[1 + i] = Line(m)
      BY <1>5, <1>6, <2>2
    <3>2. QED
      BY <3>1 DEF Contains
  <2>3. QED
    BY <2>1, <2>2 DEF Contains
<1>10. Last(h) = Last(es)
  BY <1>5, <1>6 DEF Last
<1>11. h # <<>>
  BY <1>5, <1>6, EmptySeq
<1>12. QED
  BY <1>3, <1>6, <1>8, <1>9, <1>10, <1>11 DEF h, a, e

\* What appending es to lines makes of them.
AppendOf(lines, es, r) ==
    /\ r \in Seq(Entry) /\ ClosedLines(r)
    /\ \A m \in Message : Contains(lines, Line(m)) => Contains(r, Line(m))
    /\ NotTorn(lines) => \A m \in Message : Contains(es, Line(m)) => Contains(r, Line(m))
    /\ \A m \in Message : Contains(r, Line(m)) => Contains(lines, Line(m)) \/ Contains(es, Line(m))
    /\ ~Torn(r) => ~Torn(lines) /\ Heard(r) = Joined(Heard(lines), Heard(es))
    /\ Last(es).type # "torn" => NotTorn(r)

\* Nothing in es is said by a turn whose reply is in lines.
Follows(lines, es) ==
    \A m, n \in Message :
        m.kind = "reply" /\ Contains(lines, Line(m)) /\ Contains(es, Line(n)) => n.by # m.by

LEMMA ExtendFacts ==
    ASSUME NEW lines \in Seq(Entry), NEW es \in Seq(Entry), es # <<>>,
           ClosedLines(lines), ClosedLines(es), Follows(lines, es)
    PROVE  AppendOf(lines, es, Extend(lines, es))
<1> DEFINE r == Extend(lines, es)
<1>1. /\ r \in Seq(Entry)
      /\ \A m \in Message : Contains(lines, Line(m)) => Contains(r, Line(m))
      /\ NotTorn(lines) => \A m \in Message : Contains(es, Line(m)) => Contains(r, Line(m))
      /\ \A e \in Entry : Contains(r, e) => Contains(lines, e) \/ Contains(es, e) \/ e = Marker("garbled")
      /\ ~Torn(r) => ~Torn(lines) /\ ~Torn(es) /\ r = lines \o es
      /\ Last(es).type # "torn" => NotTorn(r)
  BY ExtendKeeps
<1>2. ClosedLines(r)
  <2>1. ASSUME NEW p \in 1 .. Len(lines), NEW q \in 1 .. Len(es),
               lines[p].type = "message", es[q].type = "message", lines[p].msg.kind = "reply"
        PROVE  es[q].msg.by # lines[p].msg.by
    <3>1. lines[p] \in Entry /\ es[q] \in Entry
      BY ElementOfSeq
    <3>2. lines[p].msg \in Message /\ es[q].msg \in Message /\ lines[p] = Line(lines[p].msg) /\ es[q] = Line(es[q].msg)
      BY <2>1, <3>1, EntryFacts
    <3>3. Contains(lines, Line(lines[p].msg)) /\ Contains(es, Line(es[q].msg))
      BY <3>2 DEF Contains
    <3>4. QED
      BY <2>1, <3>2, <3>3 DEF Follows
  <2>2. QED
    BY <2>1, ExtendCloses
<1>3. Heard(lines \o es) = Joined(Heard(lines), Heard(es))
  BY HeardConcat
<1> HIDE DEF r
<1>4. \A m \in Message : Contains(r, Line(m)) => Contains(lines, Line(m)) \/ Contains(es, Line(m))
  <2> TAKE m \in Message
  <2>1. Line(m) \in Entry /\ Line(m) # Marker("garbled")
    BY EntryFacts
  <2>2. QED
    BY <1>1, <2>1
<1>5. ~Torn(r) => ~Torn(lines) /\ Heard(r) = Joined(Heard(lines), Heard(es))
  BY <1>1, <1>3
<1>6. QED
  BY <1>1, <1>2, <1>4, <1>5 DEF AppendOf, r

LEMMA AppendedFacts ==
    ASSUME NEW o \in Object, NEW es \in Seq(Entry), es # <<>>, Lines(id[o]) \in Seq(Entry),
           ClosedLines(Lines(id[o])), ClosedLines(es), Follows(Lines(id[o]), es)
    PROVE  AppendOf(Lines(id[o]), es, Appended(o, es))
<1> DEFINE l == Lines(id[o])
<1> HIDE DEF l
<1>0. l \in Seq(Entry) /\ ClosedLines(l) /\ Follows(l, es)
  BY DEF l
<1>1. CASE ~fresh[o]
  <2>1. <<>> \o es = es
    BY ConcatEmptySeq
  <2>2. Appended(o, es) = Extend(l, es)
    BY <1>1, <2>1 DEF Appended, Header, l
  <2>3. QED
    BY <1>0, <2>2, ExtendFacts DEF l
<1>2. CASE fresh[o]
  <2> DEFINE h == <<Marker("session")>> \o es
  <2>1. Appended(o, es) = Extend(l, h)
    BY <1>2 DEF Appended, Header, l
  <2>2. /\ h \in Seq(Entry) /\ h # <<>> /\ ClosedLines(h) /\ Heard(h) = Heard(es)
        /\ Last(h) = Last(es)
        /\ \A m \in Message : Contains(h, Line(m)) <=> Contains(es, Line(m))
    BY HeaderIsQuiet
  <2> HIDE DEF h
  <2>3. Follows(l, h)
    BY <1>0, <2>2 DEF Follows
  <2>4. AppendOf(l, h, Extend(l, h))
    BY <1>0, <2>2, <2>3, ExtendFacts
  <2>5. AppendOf(l, es, Extend(l, h))
    BY <2>2, <2>4 DEF AppendOf
  <2>6. QED
    BY <2>1, <2>5 DEF l
<1>3. QED
  BY <1>1, <1>2

--------------------------------------------------------------------------------
(* Messages: what is said, what a compaction leaves, what a file gives back.       *)

LEMMA SummaryFacts ==
    /\ Summary \in Message /\ Restored \in Message /\ Summary.kind = "summary"
    /\ Restored.kind = "restored" /\ Summary.by = NoTurn /\ Restored.by = NoTurn
    /\ \A t \in Turn : /\ Reply(t) \in Message /\ Reply(t).kind = "reply" /\ Reply(t).by = t
                       /\ Msg("prompt", t) \in Message /\ Msg("prompt", t).kind = "prompt"
                       /\ Msg("prompt", t).by = t
                       /\ Msg("call", t) \in Message /\ Msg("call", t).kind = "call"
                       /\ Msg("call", t).by = t
                       /\ Msg("result", t) \in Message /\ Msg("result", t).kind = "result"
                       /\ Msg("result", t).by = t
                       /\ t # NoTurn
    /\ \A m \in Message : m.kind = "reply" => m.by \in Turn /\ m = Reply(m.by)
    /\ \A m \in Message : m.by \in Turn \cup {NoTurn}
BY NamesAreDistinct DEF Summary, Restored, Reply, Msg, Message

MsgsBehind(a, b, c) ==
    /\ c \in Seq(Message) /\ Len(c) = Len(a) + Len(b)
    /\ \A i \in 1 .. Len(a) : c[i] = a[i]
    /\ \A i \in 1 .. Len(b) : c[Len(a) + i] = b[i]

LEMMA ConcatIsMsgsBehind ==
    ASSUME NEW a \in Seq(Message), NEW b \in Seq(Message)
    PROVE  MsgsBehind(a, b, a \o b)
BY Parts DEF MsgsBehind

\* What is said, said again, is the same.
LEMMA SaidTwice ==
    ASSUME NEW msgs \in Seq(Message)
    PROVE  Said(Said(msgs)) = Said(msgs)
<1>1. PICK f : SaidBy(msgs, f)
  BY SaidIs
<1>2. Len(msgs) \in Nat /\ \A k \in 1 .. Len(msgs) : msgs[k] \in Message
  BY LenProperties, ElementOfSeq
<1> DEFINE A == {k \in 0 .. Len(msgs) : Said(f[k]) = f[k]}
<1>3. 0 \in A
  BY <1>1, <1>2, Empty DEF SaidBy
<1>4. ASSUME NEW k \in 1 .. Len(msgs), k - 1 \in A PROVE k \in A
  <2>1. k \in 0 .. Len(msgs) /\ k - 1 \in 0 .. Len(msgs)
    BY <1>2
  <2> DEFINE a == f[k - 1]
             b == Spoken(msgs[k])
  <2>2. f[k] = Joined(a, b) /\ a \in Seq(Message) /\ Said(a) = a
    BY <1>1, <1>4, <2>1 DEF SaidBy
  <2>3. b \in Seq(Message) /\ Said(b) = b
    <3>1. msgs[k] \in Message
      BY <1>2
    <3>2. b = <<>> \/ b = <<msgs[k]>>
      BY DEF Spoken
    <3>3. b = <<msgs[k]>> => Said(b) = b
      <4>1. Said(<<msgs[k]>>) = Spoken(msgs[k])
        BY <3>1, SaidOne
      <4>2. QED
        BY <4>1
    <3>4. QED
      BY <3>1, <3>2, <3>3, Empty, SpokenType
  <2> HIDE DEF a, b
  <2>4. Said(a \o b) = Joined(Said(a), Said(b)) /\ Joined(a, b) = a \o b
    BY <2>2, <2>3, SaidConcat, JoinedFacts
  <2>5. Said(f[k]) = f[k]
    BY <2>2, <2>3, <2>4
  <2>6. QED
    BY <2>1, <2>5
<1>5. Len(msgs) \in A
  <2>1. A \in SUBSET (0 .. Len(msgs)) /\ Len(msgs) \in 0 .. Len(msgs)
    BY <1>2
  <2> HIDE DEF A
  <2>2. A = 0 .. Len(msgs)
    BY <1>2, <1>3, <1>4, <2>1, UpToEach
  <2>3. QED
    BY <2>1, <2>2
<1>6. QED
  BY <1>1, <1>5 DEF SaidBy

\* Lines without a message say nothing.
LEMMA QuietLines ==
    ASSUME NEW lines \in Seq(Entry), \A i \in DOMAIN lines : lines[i].type # "message"
    PROVE  Heard(lines) = <<>>
<1>1. PICK f : LoadedBy(lines, f)
  BY LoadIs
<1>2. Len(lines) \in Nat /\ DOMAIN lines = 1 .. Len(lines) /\ \A k \in 1 .. Len(lines) : lines[k] \in Entry
  BY LenProperties, ElementOfSeq
<1> DEFINE A == {k \in 0 .. Len(lines) : Said(f[k]) = <<>>}
<1>3. 0 \in A
  BY <1>1, <1>2, Empty DEF LoadedBy
<1>4. ASSUME NEW k \in 1 .. Len(lines), k - 1 \in A PROVE k \in A
  <2>1. k \in 0 .. Len(lines) /\ k - 1 \in 0 .. Len(lines)
    BY <1>2
  <2>2. f[k] = Reads(f[k - 1], lines[k]) /\ f[k - 1] \in Seq(Message) /\ Said(f[k - 1]) = <<>>
    BY <1>1, <1>4, <2>1 DEF LoadedBy
  <2>3. lines[k] \in Entry /\ SpokenIn(lines[k]) = <<>>
    BY <1>2 DEF SpokenIn
  <2>4. Said(Reads(f[k - 1], lines[k])) = Joined(Said(f[k - 1]), SpokenIn(lines[k]))
    BY <2>2, <2>3, SaidReads
  <2>5. Joined(<<>>, <<>>) = <<>>
    BY JoinedFacts, Empty
  <2>6. QED
    BY <2>1, <2>2, <2>3, <2>4, <2>5
<1>5. Len(lines) \in A
  <2>1. A \in SUBSET (0 .. Len(lines)) /\ Len(lines) \in 0 .. Len(lines)
    BY <1>2
  <2> HIDE DEF A
  <2>2. A = 0 .. Len(lines)
    BY <1>2, <1>3, <1>4, <2>1, UpToEach
  <2>3. QED
    BY <2>1, <2>2
<1>6. QED
  BY <1>1, <1>5 DEF LoadedBy, Heard

\* A compaction that keeps what is behind k.
CutAt(full, k, c) ==
    /\ c \in Seq(Message) /\ Len(c) = Len(full) - k + 1
    /\ c[1] = Summary /\ \A j \in 2 .. Len(c) : c[j] = full[k + j - 1]

LEMMA CompactedIs ==
    ASSUME NEW full \in Seq(Message), NEW k \in 1 .. Len(full)
    PROVE  CutAt(full, k, Compacted(full, k))
<1> DEFINE n == Len(full)
           b == SubSeq(full, k + 1, n)
           a == <<Summary>>
           c == a \o b
<1>1. n \in Nat /\ k \in Nat /\ 1 <= k /\ k <= n
  BY LenProperties
<1>2. b \in Seq(Message) /\ Len(b) = n - k /\ \A i \in 1 .. n - k : b[i] = full[k + i]
  <2>1. k + 1 \in 1 .. n + 1 /\ n \in 0 .. n /\ k + 1 <= n + 1
    BY <1>1
  <2>2. /\ b \in Seq(Message) /\ Len(b) = n - (k + 1) + 1
        /\ \A i \in 1 .. n - (k + 1) + 1 : b[i] = full[k + 1 + i - 1]
    BY <2>1, SubSeqIs
  <2>3. n - (k + 1) + 1 = n - k /\ \A i \in 1 .. n - k : k + 1 + i - 1 = k + i
    BY <1>1
  <2> HIDE DEF b, n
  <2>4. QED
    BY <2>2, <2>3
<1>3. a \in Seq(Message) /\ Len(a) = 1 /\ a[1] = Summary
  BY SummaryFacts
<1> HIDE DEF b, a
<1>4. MsgsBehind(a, b, c)
  BY <1>2, <1>3, ConcatIsMsgsBehind
<1> HIDE DEF c, n
<1>5. c \in Seq(Message) /\ Len(c) = n - k + 1 /\ c[1] = Summary
  BY <1>1, <1>2, <1>3, <1>4 DEF MsgsBehind
<1>6. \A j \in 2 .. Len(c) : c[j] = full[k + j - 1]
  <2> TAKE j \in 2 .. Len(c)
  <2>1. j - 1 \in 1 .. n - k /\ 1 + (j - 1) = j /\ k + (j - 1) = k + j - 1
    BY <1>1, <1>5
  <2>2. c[1 + (j - 1)] = b[j - 1] /\ b[j - 1] = full[k + (j - 1)]
    BY <1>2, <1>3, <1>4, <2>1 DEF MsgsBehind
  <2>3. QED
    BY <2>1, <2>2
<1>7. QED
  BY <1>5, <1>6 DEF CutAt, Compacted, c, a, b, n

\* It leaves the order of what it keeps, and of a turn whose reply it drops nothing.
CutKeepsOf(full, c) ==
    /\ Closed(c)
    /\ \A m \in Message : Contains(c, m) => m = Summary \/ Contains(full, m)
    /\ \A u \in Turn : Contains(full, Reply(u)) =>
           Contains(c, Reply(u)) \/ \A m \in Message : Contains(c, m) => m.by # u

LEMMA CutKeeps ==
    ASSUME NEW full \in Seq(Message), Closed(full), NEW k \in 1 .. Len(full), NEW c, CutAt(full, k, c)
    PROVE  CutKeepsOf(full, c)
<1>1. Len(full) \in Nat /\ k \in Nat /\ 1 <= k /\ k <= Len(full) /\ DOMAIN full = 1 .. Len(full)
  BY LenProperties
<1>2. /\ c \in Seq(Message) /\ DOMAIN c = 1 .. Len(c) /\ Len(c) = Len(full) - k + 1
      /\ c[1] = Summary /\ \A j \in 2 .. Len(c) : c[j] = full[k + j - 1]
  BY LenProperties DEF CutAt
<1>3. \A j \in 2 .. Len(c) : k + j - 1 \in 1 .. Len(full) /\ k + j - 1 > k
  BY <1>1, <1>2
<1>4. \A j \in 1 .. Len(c) : j # 1 => j \in 2 .. Len(c)
  BY <1>1, <1>2
<1>5. Closed(c)
  <2> SUFFICES ASSUME NEW i \in 1 .. Len(c), NEW j \in 1 .. Len(c), i < j, c[i].kind = "reply"
               PROVE  c[j].by # c[i].by
    BY <1>2 DEF Closed
  <2>1. i # 1
    BY <1>2, SummaryFacts
  <2>2. i \in 2 .. Len(c) /\ j \in 2 .. Len(c) /\ k + i - 1 < k + j - 1
    BY <1>1, <1>2, <2>1
  <2>3. c[i] = full[k + i - 1] /\ c[j] = full[k + j - 1]
    BY <1>2, <2>2
  <2>4. QED
    BY <1>1, <1>3, <2>2, <2>3 DEF Closed
<1>6. ASSUME NEW m \in Message, Contains(c, m) PROVE m = Summary \/ Contains(full, m)
  <2>1. PICK j \in 1 .. Len(c) : c[j] = m
    BY <1>6 DEF Contains
  <2>2. j = 1 \/ (j \in 2 .. Len(c) /\ c[j] = full[k + j - 1] /\ k + j - 1 \in 1 .. Len(full))
    BY <1>2, <1>3, <1>4
  <2>3. QED
    BY <1>2, <2>1, <2>2 DEF Contains
<1>7. ASSUME NEW u \in Turn, Contains(full, Reply(u)), ~Contains(c, Reply(u)),
             NEW m \in Message, Contains(c, m)
      PROVE  m.by # u
  <2>1. PICK i \in 1 .. Len(full) : full[i] = Reply(u)
    BY <1>7 DEF Contains
  <2>2. PICK j \in 1 .. Len(c) : c[j] = m
    BY <1>7 DEF Contains
  <2>3. i <= k
    <3> SUFFICES ASSUME i > k PROVE FALSE
      BY <1>1
    <3>1. i - k + 1 \in 2 .. Len(c) /\ k + (i - k + 1) - 1 = i
      BY <1>1, <1>2
    <3>2. c[i - k + 1] = Reply(u) /\ i - k + 1 \in 1 .. Len(c)
      BY <1>1, <1>2, <2>1, <3>1
    <3>3. QED
      BY <1>7, <3>2 DEF Contains
  <2>4. CASE j = 1
    BY <1>2, <2>2, <2>4, SummaryFacts
  <2>5. CASE j # 1
    <3>1. j \in 2 .. Len(c) /\ k + j - 1 \in 1 .. Len(full) /\ i < k + j - 1 /\ full[k + j - 1] = m
      <4>1. j \in 2 .. Len(c)
        BY <1>4, <2>5
      <4>2. k + j - 1 \in 1 .. Len(full) /\ k + j - 1 > k /\ c[j] = full[k + j - 1]
        BY <1>2, <1>3, <4>1
      <4>3. QED
        BY <1>1, <2>2, <2>3, <4>1, <4>2
    <3>2. full[i].kind = "reply" /\ full[i].by = u
      BY <2>1, SummaryFacts
    <3>3. QED
      BY <1>1, <3>1, <3>2 DEF Closed
  <2>6. QED
    BY <2>4, <2>5
<1>8. QED
  BY <1>5, <1>6, <1>7 DEF CutKeepsOf

\* A cut of a cut is a cut, and so is a cut with more behind it.
LEMMA CutOfCut ==
    ASSUME NEW full \in Seq(Message), NEW k \in 1 .. Len(full), NEW cut \in 1 .. Len(full) - k + 1
    PROVE  /\ k + cut - 1 \in 1 .. Len(full)
           /\ Compacted(Compacted(full, k), cut) = Compacted(full, k + cut - 1)
<1> DEFINE c == Compacted(full, k)
           d == Compacted(c, cut)
           e == Compacted(full, k + cut - 1)
<1>1. Len(full) \in Nat /\ k \in Nat /\ 1 <= k /\ k <= Len(full) /\ cut \in Nat /\ 1 <= cut
  BY LenProperties
<1>2. k + cut - 1 \in 1 .. Len(full)
  BY <1>1
<1>3. CutAt(full, k, c) /\ CutAt(full, k + cut - 1, e)
  BY <1>2, CompactedIs
<1> HIDE DEF c, e
<1>4. CutAt(c, cut, d)
  <2>1. c \in Seq(Message) /\ cut \in 1 .. Len(c)
    BY <1>1, <1>3 DEF CutAt
  <2>2. QED
    BY <2>1, CompactedIs
<1> HIDE DEF d
<1>5. d \in Seq(Message) /\ e \in Seq(Message) /\ Len(d) = Len(e) /\ d[1] = e[1]
  BY <1>1, <1>3, <1>4 DEF CutAt
<1>6. \A j \in 1 .. Len(d) : d[j] = e[j]
  <2> TAKE j \in 1 .. Len(d)
  <2>1. CASE j = 1
    BY <1>5, <2>1
  <2>2. CASE j # 1
    <3>1. Len(d) = Len(c) - cut + 1 /\ Len(c) = Len(full) - k + 1
      BY <1>3, <1>4 DEF CutAt
    <3>2. j \in 2 .. Len(d) /\ j \in 2 .. Len(e) /\ cut + j - 1 \in 2 .. Len(c)
      BY <1>1, <1>5, <2>2, <3>1
    <3>3. d[j] = c[cut + j - 1] /\ e[j] = full[k + cut - 1 + j - 1] /\ c[cut + j - 1] = full[k + (cut + j - 1) - 1]
      BY <1>3, <1>4, <3>2 DEF CutAt
    <3>4. k + cut - 1 + j - 1 = k + (cut + j - 1) - 1
      BY <1>1, <3>2
    <3>5. QED
      BY <3>3, <3>4
  <2>3. QED
    BY <2>1, <2>2
<1>7. d = e
  BY <1>5, <1>6, SeqEqual
<1>8. QED
  BY <1>2, <1>7 DEF c, d, e

LEMMA CutAndMore ==
    ASSUME NEW full \in Seq(Message), NEW k \in 1 .. Len(full), NEW ms \in Seq(Message)
    PROVE  /\ k \in 1 .. Len(full \o ms)
           /\ Compacted(full, k) \o ms = Compacted(full \o ms, k)
<1> DEFINE f == full \o ms
           c == Compacted(full, k)
           d == c \o ms
           e == Compacted(f, k)
<1>1. Len(full) \in Nat /\ k \in Nat /\ 1 <= k /\ k <= Len(full) /\ Len(ms) \in Nat
  BY LenProperties
<1>2. MsgsBehind(full, ms, f)
  BY ConcatIsMsgsBehind
<1>3. CutAt(full, k, c)
  BY CompactedIs
<1> HIDE DEF f, c
<1>4. MsgsBehind(c, ms, d)
  BY <1>3, ConcatIsMsgsBehind DEF CutAt
<1>5. f \in Seq(Message) /\ k \in 1 .. Len(f)
  BY <1>1, <1>2 DEF MsgsBehind
<1>6. CutAt(f, k, e)
  BY <1>5, CompactedIs
<1> HIDE DEF d, e
<1>7. /\ Len(c) = Len(full) - k + 1 /\ Len(d) = Len(c) + Len(ms) /\ Len(e) = Len(f) - k + 1
      /\ Len(f) = Len(full) + Len(ms) /\ d \in Seq(Message) /\ e \in Seq(Message)
  BY <1>2, <1>3, <1>4, <1>6 DEF CutAt, MsgsBehind
<1>8. \A j \in 1 .. Len(d) : d[j] = e[j]
  <2> TAKE j \in 1 .. Len(d)
  <2>1. CASE j = 1
    <3>1. 1 \in 1 .. Len(c)
      BY <1>1, <1>7
    <3>2. d[1] = c[1] /\ c[1] = Summary /\ e[1] = Summary
      BY <1>3, <1>4, <1>6, <3>1 DEF CutAt, MsgsBehind
    <3>3. QED
      BY <2>1, <3>2
  <2>2. CASE j \in 2 .. Len(c)
    <3>1. j \in 1 .. Len(c) /\ j \in 2 .. Len(e) /\ k + j - 1 \in 1 .. Len(full)
      BY <1>1, <1>7, <2>2
    <3>2. d[j] = c[j] /\ c[j] = full[k + j - 1] /\ e[j] = f[k + j - 1] /\ f[k + j - 1] = full[k + j - 1]
      BY <1>2, <1>3, <1>4, <1>6, <2>2, <3>1 DEF CutAt, MsgsBehind
    <3>3. QED
      BY <3>2
  <2>3. CASE j > Len(c)
    <3>1. /\ j - Len(c) \in 1 .. Len(ms) /\ Len(c) + (j - Len(c)) = j /\ j \in 2 .. Len(e)
          /\ k + j - 1 = Len(full) + (j - Len(c))
      BY <1>1, <1>7, <2>3
    <3>2. d[j] = ms[j - Len(c)] /\ e[j] = f[k + j - 1] /\ f[k + j - 1] = ms[j - Len(c)]
      BY <1>2, <1>4, <1>6, <3>1 DEF CutAt, MsgsBehind
    <3>3. QED
      BY <3>2
  <2>4. QED
    BY <1>1, <1>7, <2>1, <2>2, <2>3
<1>9. Len(d) = Len(e)
  BY <1>1, <1>7
<1>10. d = e
  BY <1>7, <1>8, <1>9, SeqEqual
<1>11. QED
  BY <1>5, <1>10 DEF f, c, d, e

\* A rewritten file says what was in memory.
RotatedOf(msgs, r) ==
    /\ r \in Seq(Entry) /\ ClosedLines(r) /\ Heard(r) = Said(msgs)
    /\ \A m \in Message : Contains(r, Line(m)) => Contains(msgs, m)
    /\ \A u \in Turn : Contains(msgs, Reply(u)) => Contains(r, Line(Reply(u)))

LEMMA KeptFacts ==
    ASSUME NEW msgs \in Seq(Message), Closed(msgs)
    PROVE  /\ Kept(msgs) \in Seq(Message) /\ Closed(Kept(msgs)) /\ Said(Kept(msgs)) = Said(msgs)
           /\ \A m \in Message : Contains(Kept(msgs), m) => Contains(msgs, m)
           /\ \A u \in Turn : Contains(msgs, Reply(u)) => Contains(Kept(msgs), Reply(u))
<1>1. CASE ~(msgs # <<>> /\ Head(msgs) = Restored)
  BY <1>1 DEF Kept
<1>2. CASE msgs # <<>> /\ Head(msgs) = Restored
  <2> DEFINE n == Len(msgs)
             t == Tail(msgs)
             a == <<Restored>>
  <2>1. /\ n \in Nat /\ n >= 1 /\ DOMAIN msgs = 1 .. n /\ msgs[1] = Restored
        /\ t \in Seq(Message) /\ Len(t) = n - 1 /\ DOMAIN t = 1 .. n - 1
        /\ \A i \in 1 .. n - 1 : t[i] = msgs[i + 1]
    <3>1. n \in Nat /\ n >= 1 /\ DOMAIN msgs = 1 .. n
      BY <1>2, EmptySeq, LenProperties
    <3>2. t \in Seq(Message) /\ Len(t) = n - 1 /\ \A i \in 1 .. Len(t) : t[i] = msgs[i + 1]
      BY <1>2, HeadTailProperties
    <3>3. msgs[1] = Restored
      BY <1>2
    <3>4. DOMAIN t = 1 .. Len(t)
      BY <3>2, LenProperties
    <3>5. QED
      BY <3>1, <3>2, <3>3, <3>4
  <2>2. Kept(msgs) = t
    BY <1>2 DEF Kept
  <2>3. Said(t) = Said(msgs)
    <3>1. a \in Seq(Message) /\ Said(a) = Spoken(Restored) /\ Spoken(Restored) = <<>> /\ Len(a) = 1 /\ a[1] = Restored
      BY SummaryFacts, SaidOne, EntryFacts
    <3> HIDE DEF a, t
    <3>2. MsgsBehind(a, t, a \o t)
      BY <2>1, <3>1, ConcatIsMsgsBehind
    <3> DEFINE b == a \o t
    <3>3. Said(b) = Joined(Said(a), Said(t)) /\ Said(t) \in Seq(Message)
      BY <2>1, <3>1, SaidConcat, SaidType
    <3> HIDE DEF b, n
    <3>4. b \in Seq(Message) /\ Len(b) = n /\ b[1] = Restored /\ \A i \in 1 .. n - 1 : b[1 + i] = msgs[i + 1]
      <4>1. b \in Seq(Message) /\ Len(b) = 1 + (n - 1)
        BY <2>1, <3>1, <3>2 DEF MsgsBehind, b
      <4>2. b[1] = a[1]
        BY <3>1, <3>2 DEF MsgsBehind, b
      <4>3. \A i \in 1 .. n - 1 : b[1 + i] = t[i]
        BY <2>1, <3>1, <3>2 DEF MsgsBehind, b
      <4>4. Len(b) = n
        BY <2>1, <4>1
      <4>5. \A i \in 1 .. n - 1 : b[1 + i] = msgs[i + 1]
        BY <2>1, <4>3
      <4>6. QED
        BY <3>1, <4>1, <4>2, <4>4, <4>5
    <3>5. \A i \in 1 .. n : b[i] = msgs[i]
      <4> TAKE i \in 1 .. n
      <4>1. CASE i = 1
        BY <2>1, <3>4, <4>1
      <4>2. CASE i # 1
        <5>1. i - 1 \in 1 .. n - 1 /\ 1 + (i - 1) = i /\ i - 1 + 1 = i
          BY <2>1, <4>2
        <5>2. b[1 + (i - 1)] = msgs[i - 1 + 1]
          BY <3>4, <5>1
        <5>3. QED
          BY <5>1, <5>2
      <4>3. QED
        BY <4>1, <4>2
    <3>6. b = msgs
      BY <3>4, <3>5, SeqEqual DEF n
    <3>7. Joined(<<>>, Said(t)) = Said(t)
      BY <3>3, JoinedFacts
    <3>8. QED
      BY <3>1, <3>3, <3>6, <3>7
  <2> HIDE DEF t, n
  <2>4. Closed(t)
    <3> SUFFICES ASSUME NEW i \in 1 .. n - 1, NEW j \in 1 .. n - 1, i < j, t[i].kind = "reply"
                 PROVE  t[j].by # t[i].by
      BY <2>1 DEF Closed
    <3>1. i + 1 \in 1 .. n /\ j + 1 \in 1 .. n /\ i + 1 < j + 1
      BY <2>1
    <3>2. t[i] = msgs[i + 1] /\ t[j] = msgs[j + 1]
      BY <2>1
    <3>3. QED
      BY <2>1, <3>1, <3>2 DEF Closed
  <2>5. ASSUME NEW m \in Message, Contains(t, m) PROVE Contains(msgs, m)
    <3>1. PICK i \in 1 .. n - 1 : t[i] = m
      BY <2>1, <2>5 DEF Contains
    <3>2. i + 1 \in 1 .. n /\ msgs[i + 1] = m
      BY <2>1, <3>1
    <3>3. QED
      BY <3>2 DEF Contains, n
  <2>6. ASSUME NEW u \in Turn, Contains(msgs, Reply(u)) PROVE Contains(t, Reply(u))
    <3>1. PICK i \in 1 .. n : msgs[i] = Reply(u)
      BY <2>6 DEF Contains, n
    <3>2. i # 1
      BY <2>1, <3>1, SummaryFacts
    <3>3. i - 1 \in 1 .. n - 1 /\ i - 1 + 1 = i
      BY <2>1, <3>2
    <3>4. t[i - 1] = msgs[i - 1 + 1]
      BY <2>1, <3>3
    <3>5. QED
      BY <2>1, <3>1, <3>3, <3>4 DEF Contains
  <2>7. QED
    BY <2>1, <2>2, <2>3, <2>4, <2>5, <2>6
<1>3. QED
  BY <1>1, <1>2

LEMMA LinesOfFacts ==
    ASSUME NEW msgs \in Seq(Message), Closed(msgs)
    PROVE  /\ ClosedLines(LinesOf(msgs)) /\ LinesOf(msgs) \in Seq(Entry)
           /\ \A m \in Message : Contains(LinesOf(msgs), Line(m)) <=> Contains(msgs, m)
<1> DEFINE l == LinesOf(msgs)
           n == Len(msgs)
<1>1. /\ l \in Seq(Entry) /\ DOMAIN msgs = 1 .. n /\ n \in Nat
      /\ \A i \in 1 .. n : msgs[i] \in Message
  BY HeardLines, LenProperties, ElementOfSeq
<1>2. DOMAIN l = 1 .. n /\ Len(l) = n /\ \A i \in 1 .. n : l[i] = Line(msgs[i])
  BY <1>1, LenProperties DEF LinesOf
<1> HIDE DEF l, n
<1>3. ClosedLines(l)
  BY <1>1, <1>2, EntryFacts DEF ClosedLines, Closed
<1>4. \A m, w \in Message : Line(m) = Line(w) => m = w
  BY EntryFacts
<1>5. \A m \in Message : Contains(l, Line(m)) <=> Contains(msgs, m)
  BY <1>1, <1>2, <1>4 DEF Contains, n
<1>6. QED
  BY <1>1, <1>3, <1>5 DEF l

LEMMA RotatedFacts ==
    ASSUME NEW msgs \in Seq(Message), Closed(msgs)
    PROVE  RotatedOf(msgs, Rotated(msgs))
<1> DEFINE k == Kept(msgs)
           l == LinesOf(k)
           a == <<Marker("session"), Marker("compaction")>>
           r == a \o l
<1>1. /\ k \in Seq(Message) /\ Closed(k) /\ Said(k) = Said(msgs)
      /\ \A m \in Message : Contains(k, m) => Contains(msgs, m)
      /\ \A u \in Turn : Contains(msgs, Reply(u)) => Contains(k, Reply(u))
  BY KeptFacts
<1> HIDE DEF k
<1>2. /\ l \in Seq(Entry) /\ ClosedLines(l) /\ Heard(l) = Said(k)
      /\ \A m \in Message : Contains(l, Line(m)) <=> Contains(k, m)
  BY <1>1, LinesOfFacts, HeardLines
<1>3. Rotated(msgs) = r
  BY DEF Rotated, LinesOf, k
<1>4. a \in Seq(Entry) /\ Len(a) = 2 /\ \A i \in 1 .. 2 : a[i].type # "message"
  BY EntryFacts
<1>5. Heard(a) = <<>>
  <2>1. \A i \in DOMAIN a : a[i].type # "message"
    BY <1>4, LenProperties
  <2>2. QED
    BY <1>4, <2>1, QuietLines
<1> HIDE DEF l, a
<1>6. Behind(a, l, r) /\ Heard(r) = Joined(Heard(a), Heard(l)) /\ Heard(l) \in Seq(Message)
  BY <1>2, <1>4, ConcatIsBehind, HeardConcat, LoadType
<1> HIDE DEF r
<1>7. Heard(r) = Said(msgs)
  BY <1>1, <1>2, <1>5, <1>6, JoinedFacts
<1> DEFINE n == Len(l)
<1>8. n \in Nat /\ DOMAIN l = 1 .. n /\ r \in Seq(Entry) /\ Len(r) = 2 + n /\ DOMAIN r = 1 .. 2 + n
  BY <1>2, <1>4, <1>6, LenProperties DEF Behind
<1>9. /\ \A i \in 1 .. 2 : r[i].type # "message"
      /\ \A i \in 1 .. n : r[2 + i] = l[i]
  <2>1. (\A i \in 1 .. 2 : r[i] = a[i]) /\ \A i \in 1 .. n : r[2 + i] = l[i]
    BY <1>4, <1>6 DEF Behind
  <2>2. QED
    BY <1>4, <2>1
<1> HIDE DEF n
<1>10. \A i \in 1 .. 2 + n : r[i].type = "message" => i - 2 \in 1 .. n /\ l[i - 2] = r[i]
  <2> SUFFICES ASSUME NEW i \in 1 .. 2 + n, r[i].type = "message"
               PROVE  i - 2 \in 1 .. n /\ l[i - 2] = r[i]
    OBVIOUS
  <2>1. i \notin 1 .. 2
    BY <1>9
  <2>2. i - 2 \in 1 .. n /\ 2 + (i - 2) = i
    BY <1>8, <2>1
  <2>3. r[2 + (i - 2)] = l[i - 2]
    BY <1>9, <2>2
  <2>4. QED
    BY <2>2, <2>3
<1>11. ClosedLines(r)
  <2> SUFFICES ASSUME NEW i \in 1 .. 2 + n, NEW j \in 1 .. 2 + n, i < j, r[i].type = "message",
                      r[j].type = "message", r[i].msg.kind = "reply"
               PROVE  r[j].msg.by # r[i].msg.by
    BY <1>8 DEF ClosedLines
  <2>1. i - 2 \in 1 .. n /\ j - 2 \in 1 .. n /\ l[i - 2] = r[i] /\ l[j - 2] = r[j] /\ i - 2 < j - 2
    BY <1>8, <1>10
  <2>2. QED
    BY <1>2, <1>8, <2>1 DEF ClosedLines
<1>12. ASSUME NEW m \in Message PROVE Contains(r, Line(m)) <=> Contains(l, Line(m))
  <2>1. ASSUME NEW i \in 1 .. 2 + n, r[i] = Line(m) PROVE Contains(l, Line(m))
    <3>1. r[i].type = "message"
      BY <2>1, EntryFacts
    <3>2. i - 2 \in 1 .. n /\ l[i - 2] = Line(m)
      BY <1>10, <2>1, <3>1
    <3>3. QED
      BY <3>2 DEF Contains, n
  <2>2. ASSUME NEW i \in 1 .. n, l[i] = Line(m) PROVE Contains(r, Line(m))
    <3>1. 2 + i \in 1 .. 2 + n /\ r[2 + i] = Line(m)
      BY <1>8, <1>9, <2>2
    <3>2. QED
      BY <1>8, <3>1 DEF Contains
  <2>3. QED
    BY <1>8, <2>1, <2>2 DEF Contains, n
<1>13. \A u \in Turn : Reply(u) \in Message
  BY SummaryFacts
<1>14. QED
  BY <1>1, <1>2, <1>3, <1>7, <1>8, <1>11, <1>12, <1>13 DEF RotatedOf

\* What a file gives back.
LoadedOf(lines, h) ==
    /\ h \in Seq(Message) /\ Closed(h) /\ Said(h) = Heard(lines)
    /\ \A m \in Message : Contains(h, m) => m = Restored \/ Contains(lines, Line(m))
    /\ \A m \in Message : Contains(lines, Line(m)) => Contains(h, m)

LEMMA LoadedFacts ==
    ASSUME NEW lines \in Seq(Entry), ClosedLines(lines)
    PROVE  LoadedOf(lines, Load(lines))
<1> DEFINE h == Load(lines)
<1>1. h \in Seq(Message) /\ Said(h) = Heard(lines) /\ FromLines(lines, Len(lines), h)
  BY LoadType, LoadFacts DEF Heard
<1> HIDE DEF h
<1>2. /\ DOMAIN h = 1 .. Len(h) /\ DOMAIN lines = 1 .. Len(lines)
      /\ \A i \in DOMAIN h : h[i] \in Message
  BY <1>1, LenProperties, ElementOfSeq
<1>3. Closed(h)
  <2> SUFFICES ASSUME NEW i \in DOMAIN h, NEW j \in DOMAIN h, i < j, h[i].kind = "reply"
               PROVE  h[j].by # h[i].by
    BY DEF Closed
  <2>1. h[i] # Restored /\ h[i].by \in Turn
    BY <1>2, SummaryFacts
  <2>2. CASE h[j] = Restored
    BY <2>1, <2>2, SummaryFacts
  <2>3. CASE h[j] # Restored
    <3>1. PICK p \in 1 .. Len(lines), q \in 1 .. Len(lines) : p < q /\ lines[p] = Line(h[i]) /\ lines[q] = Line(h[j])
      BY <1>1, <2>1, <2>3 DEF FromLines
    <3>2. /\ lines[p].type = "message" /\ lines[q].type = "message"
          /\ lines[p].msg = h[i] /\ lines[q].msg = h[j]
      BY <1>2, <3>1, EntryFacts
    <3>3. QED
      BY <1>2, <3>1, <3>2 DEF ClosedLines
  <2>4. QED
    BY <2>2, <2>3
<1>4. ASSUME NEW m \in Message, Contains(h, m) PROVE m = Restored \/ Contains(lines, Line(m))
  BY <1>1, <1>2, <1>4 DEF FromLines, Contains
<1>5. ASSUME NEW m \in Message, Contains(lines, Line(m)) PROVE Contains(h, m)
  <2>1. PICK p \in 1 .. Len(lines) : lines[p] = Line(m)
    BY <1>5 DEF Contains
  <2>2. lines[p].type = "message" /\ lines[p].msg = m
    BY <2>1, EntryFacts
  <2>3. PICK i \in DOMAIN h : h[i] = m
    BY <1>1, <2>2 DEF FromLines
  <2>4. QED
    BY <1>2, <2>3 DEF Contains
<1>6. QED
  BY <1>1, <1>3, <1>4, <1>5 DEF LoadedOf, h

\* TranscriptWriter.clear leaves headers.
LEMMA HeadersFacts ==
    ASSUME NEW lines \in Seq(Entry)
    PROVE  /\ Headers(lines) \in Seq(Entry) /\ ClosedLines(Headers(lines)) /\ Heard(Headers(lines)) = <<>>
           /\ \A m \in Message : ~Contains(Headers(lines), Line(m))
           /\ NotTorn(Headers(lines))
<1> DEFINE D == {j \in DOMAIN lines : lines[j].type = "session"}
           n == Cardinality(D)
           r == Headers(lines)
<1>1. n \in Nat
  <2>1. DOMAIN lines = 1 .. Len(lines) /\ Len(lines) \in Nat
    BY LenProperties
  <2>2. IsFiniteSet(1 .. Len(lines))
    BY <2>1, FS_Interval
  <2>3. D \in SUBSET (1 .. Len(lines))
    BY <2>1
  <2> HIDE DEF D
  <2>4. IsFiniteSet(D)
    BY <2>2, <2>3, FS_Subset
  <2>5. QED
    BY <2>4, FS_CardinalityType
<1>2. r = [i \in 1 .. n |-> Marker("session")]
  BY DEF Headers
<1> HIDE DEF r, n
<1>3. Marker("session") \in Entry /\ Marker("session").type = "session"
  BY EntryFacts
<1>4. r \in Seq(Entry) /\ DOMAIN r = 1 .. n /\ Len(r) = n
  <2>1. r \in Seq(Entry)
    BY <1>1, <1>2, <1>3, IsASeq
  <2>2. QED
    BY <1>1, <1>2, <2>1, LenProperties
<1>5. \A i \in DOMAIN r : r[i].type = "session"
  BY <1>2, <1>3, <1>4
<1>6. Heard(r) = <<>> /\ ClosedLines(r)
  BY <1>4, <1>5, QuietLines DEF ClosedLines
<1>7. ASSUME NEW m \in Message PROVE ~Contains(r, Line(m))
  <2>1. Line(m).type = "message"
    BY EntryFacts
  <2>2. QED
    BY <1>4, <1>5, <2>1 DEF Contains
<1>8. NotTorn(r)
  BY <1>1, <1>4, <1>5, EmptySeq DEF NotTorn, Last
<1>9. QED
  BY <1>4, <1>6, <1>7, <1>8 DEF r

--------------------------------------------------------------------------------
(* A turn's copy of the history.                                                   *)

\* What the pending lines of a turn say.
SpeaksFor(t, x) ==
    /\ x \in Seq(Message) /\ Said(x) = x
    /\ \A i \in 1 .. Len(x) : x[i].kind \notin {"prompt", "reply"} /\ x[i].by \in {t, NoTurn}

LEMMA OpsFacts ==
    ASSUME NEW t \in Turn, NEW es \in Seq(Entry), \A i \in DOMAIN es : es[i] \in OpsOf(t)
    PROVE  /\ SpeaksFor(t, Heard(es)) /\ ClosedLines(es)
           /\ \A m \in Message : Contains(es, Line(m)) => m.by = t /\ m.kind # "reply"
<1> DEFINE l == Load(es)
           x == Heard(es)
<1>1. DOMAIN es = 1 .. Len(es) /\ \A i \in 1 .. Len(es) : es[i] \in Entry
  BY LenProperties, ElementOfSeq
<1>2. ASSUME NEW i \in DOMAIN es, es[i].type = "message"
      PROVE  /\ es[i].msg.kind \in {"call", "result"} /\ es[i].msg.by = t
             /\ es[i].msg \in Message /\ es[i] = Line(es[i].msg)
  <2>1. es[i] \in OpsOf(t) /\ es[i] \in Entry
    BY <1>1
  <2>2. es[i] # Marker("compaction")
    BY <1>2, EntryFacts
  <2>3. es[i] = Line(Msg("call", t)) \/ es[i] = Line(Msg("result", t))
    BY <2>1, <2>2 DEF OpsOf
  <2>4. es[i].msg = Msg("call", t) \/ es[i].msg = Msg("result", t)
    BY <2>3, SummaryFacts, EntryFacts
  <2>5. QED
    BY <1>2, <2>1, <2>4, SummaryFacts, EntryFacts
<1>3. ClosedLines(es)
  BY <1>2 DEF ClosedLines
<1>4. ASSUME NEW m \in Message, Contains(es, Line(m)) PROVE m.by = t /\ m.kind \in {"call", "result"}
  <2>1. PICK i \in DOMAIN es : es[i] = Line(m)
    BY <1>1, <1>4 DEF Contains
  <2>2. es[i].type = "message" /\ es[i].msg = m
    BY <2>1, EntryFacts
  <2>3. QED
    BY <1>2, <2>2
<1>5. l \in Seq(Message) /\ x \in Seq(Message) /\ x = Said(l) /\ FromLines(es, Len(es), l)
  BY LoadType, LoadFacts DEF Heard
<1>6. Said(x) = x
  BY <1>5, SaidTwice
<1> HIDE DEF l, x
<1>7. ASSUME NEW i \in 1 .. Len(x) PROVE x[i].kind \notin {"prompt", "reply"} /\ x[i].by \in {t, NoTurn}
  <2>1. i \in DOMAIN Said(l) /\ \A p \in DOMAIN l : l[p] \in Message
    BY <1>5, LenProperties, ElementOfSeq
  <2>2. PICK p \in DOMAIN l : Said(l)[i] = l[p]
    BY <1>5, <2>1, SaidFacts
  <2>3. l[p] = Restored \/ Contains(es, Line(l[p]))
    BY <1>5, <2>2 DEF FromLines, Contains
  <2>4. x[i] = l[p] /\ l[p] \in Message
    BY <1>5, <2>1, <2>2
  <2>5. QED
    BY <1>4, <2>3, <2>4, SummaryFacts
<1>8. QED
  BY <1>3, <1>4, <1>5, <1>6, <1>7 DEF SpeaksFor, x

\* The history with the turn's own messages behind it.
FullOf(h, x, full) ==
    /\ MsgsBehind(h, x, full) /\ Closed(full)
    /\ Said(full) = Joined(Said(h), x)
    /\ \A m \in Message : Contains(full, m) =>
           Contains(h, m) \/ \E i \in 1 .. Len(x) : x[i] = m
    /\ \A m \in Message : Contains(h, m) => Contains(full, m)

LEMMA FullFacts ==
    ASSUME NEW t \in Turn, NEW h \in Seq(Message), Closed(h), NEW x, SpeaksFor(t, x),
           ~Contains(h, Reply(t))
    PROVE  FullOf(h, x, h \o x)
<1> DEFINE f == h \o x
           n == Len(h)
           k == Len(x)
<1>1. MsgsBehind(h, x, f) /\ Said(f) = Joined(Said(h), Said(x)) /\ Said(x) = x
  BY ConcatIsMsgsBehind, SaidConcat DEF SpeaksFor
<1> HIDE DEF f
<1>2. /\ n \in Nat /\ k \in Nat /\ DOMAIN h = 1 .. n /\ f \in Seq(Message) /\ Len(f) = n + k
      /\ DOMAIN f = 1 .. n + k /\ \A i \in 1 .. n : h[i] \in Message
  BY <1>1, LenProperties, ElementOfSeq DEF MsgsBehind, SpeaksFor
<1>3. /\ \A i \in 1 .. n : f[i] = h[i]
      /\ \A i \in 1 .. k : f[n + i] = x[i]
  BY <1>1 DEF MsgsBehind
<1>4. \A i \in 1 .. k : x[i].kind \notin {"prompt", "reply"} /\ x[i].by \in {t, NoTurn}
  BY DEF SpeaksFor
<1>5. \A i \in 1 .. n : ~ (h[i].kind = "reply" /\ h[i].by = t)
  BY <1>2, SummaryFacts DEF Contains
<1> HIDE DEF n, k
<1>6. \A i \in 1 .. n + k : ~ (i \in 1 .. n) => i - n \in 1 .. k /\ f[i] = x[i - n]
  <2> SUFFICES ASSUME NEW i \in 1 .. n + k, i \notin 1 .. n PROVE i - n \in 1 .. k /\ f[i] = x[i - n]
    OBVIOUS
  <2>1. i - n \in 1 .. k /\ n + (i - n) = i
    BY <1>2
  <2>2. f[n + (i - n)] = x[i - n]
    BY <1>3, <2>1
  <2>3. QED
    BY <2>1, <2>2
<1>7. Closed(f)
  <2> SUFFICES ASSUME NEW i \in 1 .. n + k, NEW j \in 1 .. n + k, i < j, f[i].kind = "reply"
               PROVE  f[j].by # f[i].by
    BY <1>2 DEF Closed
  <2>1. i \in 1 .. n /\ f[i] = h[i]
    BY <1>3, <1>4, <1>6
  <2>2. f[i].by \in Turn /\ f[i].by # t
    <3>1. h[i] \in Message /\ h[i].kind = "reply"
      BY <1>2, <2>1
    <3>2. h[i].by \in Turn
      BY <3>1, SummaryFacts
    <3>3. QED
      BY <1>5, <2>1, <3>1, <3>2
  <2>3. CASE j \in 1 .. n
    BY <1>2, <1>3, <2>1, <2>3 DEF Closed
  <2>4. CASE j \notin 1 .. n
    <3>1. f[j].by \in {t, NoTurn}
      BY <1>4, <1>6, <2>4
    <3>2. QED
      BY <2>2, <3>1, NamesAreDistinct
  <2>5. QED
    BY <2>3, <2>4
<1>8. \A m \in Message : Contains(f, m) => Contains(h, m) \/ \E i \in 1 .. k : x[i] = m
  <2> SUFFICES ASSUME NEW m \in Message, NEW i \in 1 .. n + k, f[i] = m
               PROVE  Contains(h, m) \/ \E p \in 1 .. k : x[p] = m
    BY <1>2 DEF Contains
  <2>1. CASE i \in 1 .. n
    BY <1>3, <2>1 DEF Contains, n
  <2>2. CASE i \notin 1 .. n
    BY <1>6, <2>2
  <2>3. QED
    BY <2>1, <2>2
<1>9. \A m \in Message : Contains(h, m) => Contains(f, m)
  <2> SUFFICES ASSUME NEW m \in Message, NEW i \in 1 .. n, h[i] = m PROVE Contains(f, m)
    BY DEF Contains, n
  <2>1. i \in 1 .. n + k /\ f[i] = m
    BY <1>2, <1>3
  <2>2. QED
    BY <1>2, <2>1 DEF Contains
<1>10. QED
  BY <1>1, <1>7, <1>8, <1>9 DEF FullOf, f, k

\* What a turn commits: its copy and the answer.
AnswerOf(h, t, sc, msgs) ==
    /\ msgs \in Seq(Message) /\ Closed(msgs) /\ Said(msgs) = Joined(Said(sc), <<Reply(t)>>)
    /\ Contains(msgs, Reply(t))
    /\ \A m \in Message : Contains(msgs, m) => \/ Contains(h, m) \/ m = Summary
                                               \/ m.by = t \/ m.by = NoTurn
    /\ \A u \in Turn : Contains(h, Reply(u)) => Contains(msgs, Reply(u)) \/ u \in Dropped(h, msgs)

LEMMA AppendMsgFacts ==
    ASSUME NEW sc \in Seq(Message), NEW m \in Message
    PROVE  /\ MsgsBehind(sc, <<m>>, Append(sc, m)) /\ Append(sc, m) \in Seq(Message)
           /\ Len(Append(sc, m)) = Len(sc) + 1 /\ Append(sc, m)[Len(sc) + 1] = m
           /\ \A i \in 1 .. Len(sc) : Append(sc, m)[i] = sc[i]
           /\ \A w : Contains(Append(sc, m), w) <=> Contains(sc, w) \/ w = m
<1>1. /\ Append(sc, m) \in Seq(Message)
      /\ Len(Append(sc, m)) = Len(sc) + 1 /\ Append(sc, m)[Len(sc) + 1] = m
      /\ \A i \in 1 .. Len(sc) : Append(sc, m)[i] = sc[i]
  BY AppendProperties
<1> DEFINE a == Append(sc, m)
           n == Len(sc)
           b == <<m>>
<1> HIDE DEF a
<1>2. n \in Nat /\ b \in Seq(Message) /\ Len(b) = 1 /\ b[1] = m
  BY LenProperties
<1>3. a \in Seq(Message) /\ Len(a) = n + 1 /\ a[n + 1] = m /\ \A i \in 1 .. n : a[i] = sc[i]
  BY <1>1 DEF a
<1> HIDE DEF n, b
<1>4. MsgsBehind(sc, b, a)
  <2>1. \A i \in 1 .. 1 : a[n + i] = b[i]
    BY <1>2, <1>3
  <2>2. QED
    BY <1>2, <1>3, <2>1 DEF MsgsBehind, n
<1>5. ASSUME NEW w PROVE Contains(a, w) <=> Contains(sc, w) \/ w = m
  <2>1. 1 .. n + 1 = 1 .. n \cup {n + 1}
    BY <1>2
  <2>2. QED
    BY <1>3, <2>1 DEF Contains, n
<1>6. QED
  BY <1>1, <1>4, <1>5 DEF a, n, b

LEMMA AnswerFacts ==
    ASSUME NEW t \in Turn, NEW h \in Seq(Message), Closed(h), NEW x, SpeaksFor(t, x),
           ~Contains(h, Reply(t)), NEW sc,
           sc = h \o x \/ \E k \in 1 .. Len(h \o x) : sc = Compacted(h \o x, k)
    PROVE  sc \in Seq(Message) /\ AnswerOf(h, t, sc, Append(sc, Reply(t)))
<1> DEFINE f == h \o x
           msgs == Append(sc, Reply(t))
<1>1. FullOf(h, x, f)
  BY FullFacts
<1> HIDE DEF f
<1>2. sc = f \/ \E k \in 1 .. Len(f) : sc = Compacted(f, k)
  BY DEF f
<1>3. f \in Seq(Message) /\ Closed(f)
  BY <1>1 DEF FullOf, MsgsBehind
<1>4. /\ sc \in Seq(Message) /\ Closed(sc)
      /\ \A m \in Message : Contains(sc, m) => m = Summary \/ Contains(f, m)
      /\ \A u \in Turn : Contains(f, Reply(u)) =>
             Contains(sc, Reply(u)) \/ \A m \in Message : Contains(sc, m) => m.by # u
  <2>1. CASE sc = f
    BY <1>3, <2>1
  <2>2. CASE \E k \in 1 .. Len(f) : sc = Compacted(f, k)
    <3>1. PICK k \in 1 .. Len(f) : sc = Compacted(f, k)
      BY <2>2
    <3>2. CutAt(f, k, sc)
      BY <1>3, <3>1, CompactedIs
    <3>3. CutKeepsOf(f, sc) /\ sc \in Seq(Message)
      BY <1>3, <3>2, CutKeeps DEF CutAt
    <3>4. QED
      BY <3>3 DEF CutKeepsOf
  <2>3. QED
    BY <1>2, <2>1, <2>2
<1>5. \A m \in Message : Contains(sc, m) =>
          m = Summary \/ Contains(h, m) \/ (m.by \in {t, NoTurn} /\ m.kind # "reply")
  BY <1>1, <1>4 DEF FullOf, SpeaksFor
<1>6. Reply(t) \in Message /\ Reply(t).by = t /\ Reply(t).kind = "reply"
  BY SummaryFacts
<1>7. /\ msgs \in Seq(Message) /\ Len(msgs) = Len(sc) + 1 /\ msgs[Len(sc) + 1] = Reply(t)
      /\ \A i \in 1 .. Len(sc) : msgs[i] = sc[i]
      /\ \A w : Contains(msgs, w) <=> Contains(sc, w) \/ w = Reply(t)
  BY <1>4, <1>6, AppendMsgFacts, ZenonT(60)
<1>8. Said(msgs) = Joined(Said(sc), <<Reply(t)>>)
  BY <1>4, <1>6, SaidAppend DEF Spoken
<1> HIDE DEF msgs
<1>9. Closed(msgs)
  <2>1. DOMAIN msgs = 1 .. Len(sc) + 1 /\ DOMAIN sc = 1 .. Len(sc) /\ Len(sc) \in Nat
    BY <1>4, <1>7, LenProperties
  <2> SUFFICES ASSUME NEW i \in 1 .. Len(sc) + 1, NEW j \in 1 .. Len(sc) + 1, i < j, msgs[i].kind = "reply"
               PROVE  msgs[j].by # msgs[i].by
    BY <2>1 DEF Closed
  <2>2. i \in 1 .. Len(sc) /\ msgs[i] = sc[i]
    <3> DEFINE n == Len(sc)
    <3> HIDE DEF n
    <3>1. i \in 1 .. n + 1 /\ j \in 1 .. n + 1 /\ n \in Nat
      BY <2>1 DEF n
    <3>2. i \in 1 .. n
      BY <3>1
    <3>3. QED
      BY <1>7, <3>2 DEF n
  <2>3. CASE j \in 1 .. Len(sc)
    BY <1>4, <1>7, <2>1, <2>2, <2>3 DEF Closed
  <2>4. CASE j \notin 1 .. Len(sc)
    <3>1. msgs[j] = Reply(t)
      <4> DEFINE n == Len(sc)
      <4> HIDE DEF n
      <4>3. j \in 1 .. n + 1 /\ j \notin 1 .. n /\ n \in Nat
        BY <2>1, <2>4 DEF n
      <4>4. j = n + 1
        BY <4>3
      <4>1. j = Len(sc) + 1
        BY <4>4 DEF n
      <4>2. QED
        BY <1>7, <4>1
    <3>2. sc[i] \in Message /\ Contains(sc, sc[i]) /\ sc[i].kind = "reply"
      BY <1>4, <2>2, ElementOfSeq DEF Contains
    <3>3. Contains(h, sc[i])
      BY <1>5, <3>2, SummaryFacts
    <3>4. sc[i].by # t
      BY <3>2, <3>3, SummaryFacts
    <3>5. QED
      BY <1>6, <2>2, <3>1, <3>4
  <2>5. QED
    BY <2>3, <2>4
<1>10. ASSUME NEW u \in Turn, Contains(h, Reply(u)), ~Contains(msgs, Reply(u))
       PROVE  u \in Dropped(h, msgs)
  <2>1. u # t /\ Reply(u) \in Message /\ Reply(u).by = u /\ u # NoTurn
    BY <1>10, SummaryFacts
  <2>2. Contains(f, Reply(u)) /\ ~Contains(sc, Reply(u))
    BY <1>1, <1>7, <1>10, <2>1 DEF FullOf
  <2>3. \A m \in Message : Contains(sc, m) => m.by # u
    BY <1>4, <2>2
  <2>4. \A m \in Message : Contains(msgs, m) => m.by # u
    BY <1>6, <1>7, <2>1, <2>3
  <2>5. \A i \in DOMAIN msgs : msgs[i].by # u
    <3>1. DOMAIN msgs = 1 .. Len(msgs) /\ \A i \in 1 .. Len(msgs) : msgs[i] \in Message
      BY <1>7, LenProperties, ElementOfSeq
    <3>2. QED
      BY <2>4, <3>1 DEF Contains
  <2>6. \E i \in DOMAIN h : h[i].by = u
    <3>1. DOMAIN h = 1 .. Len(h)
      BY LenProperties
    <3>2. QED
      BY <1>10, <2>1, <3>1 DEF Contains
  <2>7. QED
    BY <2>5, <2>6 DEF Dropped
<1>11. \A m \in Message : Contains(msgs, m) => Contains(h, m) \/ m = Summary \/ m.by = t \/ m.by = NoTurn
  BY <1>5, <1>6, <1>7
<1>12. QED
  BY <1>4, <1>7, <1>8, <1>9, <1>10, <1>11 DEF AnswerOf, msgs

\* A shortened copy does not begin like the history, unless nothing but a summary
\* was taken for a summary.
LEMMA PrefixIsFull ==
    ASSUME NEW t \in Turn, NEW h \in Seq(Message), NEW x, SpeaksFor(t, x),
           Len(h) >= 1, h[Len(h)] = Msg("prompt", t), \A i \in 1 .. Len(h) - 1 : h[i].by # t,
           NEW k \in 1 .. Len(h \o x), IsPrefix(h, Append(Compacted(h \o x, k), Reply(t)))
    PROVE  Compacted(h \o x, k) = h \o x
<1> DEFINE f == h \o x
           c == Compacted(f, k)
           n == Len(h)
           p == Len(x)
           msgs == Append(c, Reply(t))
<1>1. MsgsBehind(h, x, f)
  BY ConcatIsMsgsBehind DEF SpeaksFor
<1> HIDE DEF f
<1>2. /\ n \in Nat /\ n >= 1 /\ p \in Nat /\ f \in Seq(Message) /\ Len(f) = n + p
      /\ (\A i \in 1 .. n : f[i] = h[i]) /\ \A i \in 1 .. p : f[n + i] = x[i]
  BY <1>1, LenProperties DEF MsgsBehind, SpeaksFor
<1>3. k \in 1 .. Len(f)
  BY DEF f
<1>4. CutAt(f, k, c)
  BY <1>2, <1>3, CompactedIs
<1> HIDE DEF c
<1>5. /\ c \in Seq(Message) /\ Len(c) = n + p - k + 1 /\ c[1] = Summary
      /\ \A j \in 2 .. Len(c) : c[j] = f[k + j - 1]
  BY <1>2, <1>4 DEF CutAt
<1>6. /\ Reply(t) \in Message /\ Reply(t).kind = "reply"
      /\ Msg("prompt", t).kind = "prompt" /\ Msg("prompt", t).by = t /\ Summary.kind = "summary"
  BY SummaryFacts
<1>7. /\ msgs \in Seq(Message) /\ Len(msgs) = Len(c) + 1 /\ msgs[Len(c) + 1] = Reply(t)
      /\ \A i \in 1 .. Len(c) : msgs[i] = c[i]
  BY <1>5, <1>6, AppendMsgFacts
<1>8. IsPrefix(h, msgs)
  BY DEF f, c
<1> HIDE DEF msgs, n, p
<1>9. n <= Len(msgs) /\ \A i \in 1 .. n : h[i] = msgs[i]
  <2>1. n <= Len(msgs) /\ SubSeq(h, 1, n) = SubSeq(msgs, 1, n)
    BY <1>8 DEF IsPrefix, n
  <2>2. /\ 1 \in 1 .. Len(h) + 1 /\ n \in 0 .. Len(h) /\ 1 <= n + 1
        /\ 1 \in 1 .. Len(msgs) + 1 /\ n \in 0 .. Len(msgs)
    BY <1>2, <2>1 DEF n
  <2>3. \A i \in 1 .. n - 1 + 1 : SubSeq(h, 1, n)[i] = h[1 + i - 1]
    BY <2>2, SubSeqIs
  <2>4. \A i \in 1 .. n - 1 + 1 : SubSeq(msgs, 1, n)[i] = msgs[1 + i - 1]
    BY <1>7, <2>2, SubSeqIs
  <2> DEFINE a == SubSeq(h, 1, n)
             b == SubSeq(msgs, 1, n)
  <2> HIDE DEF a, b
  <2>5. \A i \in 1 .. n : i \in 1 .. n - 1 + 1 /\ 1 + i - 1 = i
    BY <1>2
  <2>6. \A i \in 1 .. n : a[i] = h[i] /\ b[i] = msgs[i]
    BY <2>3, <2>4, <2>5 DEF a, b
  <2>7. QED
    BY <2>1, <2>6 DEF a, b
<1>10. h[n] = Msg("prompt", t) /\ \A i \in 1 .. n - 1 : h[i].by # t
  BY DEF n
<1>11. \A i \in 1 .. p : x[i].kind \notin {"prompt", "reply"}
  BY DEF SpeaksFor, p
<1>12. n # 1
  <2> SUFFICES ASSUME n = 1 PROVE FALSE
    OBVIOUS
  <2>1. h[1] = msgs[1] /\ 1 \in 1 .. Len(c)
    BY <1>2, <1>3, <1>5, <1>9
  <2>2. QED
    BY <1>5, <1>6, <1>7, <1>10, <2>1
<1>13. n <= Len(c)
  <2> SUFFICES ASSUME n > Len(c) PROVE FALSE
    <3>1. Len(c) \in Int
      BY <1>2, <1>3, <1>5
    <3>2. QED
      BY <1>2, <3>1
  <2>1. n = Len(c) + 1
    BY <1>2, <1>3, <1>5, <1>7, <1>9
  <2>2. n \in 1 .. n
    BY <1>2
  <2>3. h[n] = msgs[n]
    BY <1>9, <2>2
  <2>4. QED
    BY <1>6, <1>7, <1>10, <2>1, <2>3
<1>14. f[k + n - 1] = Msg("prompt", t)
  <2>1. n \in 2 .. Len(c) /\ n \in 1 .. Len(c) /\ n \in 1 .. n
    BY <1>2, <1>5, <1>12, <1>13
  <2>2. h[n] = msgs[n] /\ msgs[n] = c[n] /\ c[n] = f[k + n - 1]
    BY <1>5, <1>7, <1>9, <2>1
  <2>3. QED
    BY <1>10, <2>2
<1>15. k = 1
  <2> SUFFICES ASSUME k # 1 PROVE FALSE
    OBVIOUS
  <2>1. /\ k - 1 \in 1 .. p /\ n + (k - 1) = k + n - 1
    BY <1>2, <1>3, <1>5, <1>13
  <2>2. f[k + n - 1] = x[k - 1]
    BY <1>2, <2>1
  <2>3. QED
    BY <1>6, <1>11, <1>14, <2>1, <2>2
<1>16. Len(c) = Len(f) /\ \A i \in 1 .. Len(c) : c[i] = f[i]
  <2>1. Len(c) = Len(f)
    BY <1>2, <1>5, <1>15
  <2>2. f[1] = Summary
    <3>1. 1 \in 1 .. n /\ 1 \in 1 .. Len(c)
      BY <1>2, <1>13, <1>5
    <3>2. f[1] = h[1] /\ h[1] = msgs[1] /\ msgs[1] = c[1]
      BY <1>2, <1>7, <1>9, <3>1
    <3>3. QED
      BY <1>5, <3>2
  <2>3. ASSUME NEW i \in 1 .. Len(c) PROVE c[i] = f[i]
    <3>1. CASE i = 1
      BY <1>5, <2>2, <3>1
    <3>2. CASE i # 1
      <4>1. i \in 2 .. Len(c) /\ k + i - 1 = i
        BY <1>2, <1>3, <1>5, <1>15, <3>2
      <4>2. QED
        BY <1>5, <4>1
    <3>3. QED
      BY <3>1, <3>2
  <2>4. QED
    BY <2>1, <2>3
<1>17. c = f
  BY <1>2, <1>5, <1>16, SeqEqual
<1>18. QED
  BY <1>17 DEF c, f

--------------------------------------------------------------------------------
(* What a step leaves as it is.                                                    *)

\* A turn only goes on.
Forward ==
    \A u \in Turn :
        /\ turn[u] \in {"prompted", "committed", "done", "stopped"} =>
               turn'[u] \in {"prompted", "committed", "done", "stopped"}
        /\ turn'[u] = "prompted" => turn[u] \in {"locked", "prompted"}

LEMMA UtteredStays ==
    ASSUME Forward
    PROVE  \A m \in Message : Uttered(m) => Uttered(m)'
BY DEF Forward, Uttered

\* A step that touches what is kept of session s only.
Touches(s) ==
    /\ id' = id
    /\ \A q \in Session : loaded'[q] \in {loaded[q], NoObject}
    /\ \A q \in Session \ {s} : Lines(q)' = Lines(q)
    /\ \A p \in Object : id[p] # s =>
           history'[p] = history[p] /\ (p \in shortened' <=> p \in shortened)
    /\ gone \subseteq gone'
    /\ Forward
    /\ \A u \in Turn : turn'[u] = "prompted" /\ turn[u] = "prompted" /\ id[on[u]] # s =>
           on'[u] = on[u] /\ ops'[u] = ops[u] /\ scratch'[u] = scratch[u]

\* What it has to keep of that session.
FileKept(s) ==
    /\ ClosedLines(Lines(s)')
    /\ \A m \in Message : Contains(Lines(s)', Line(m)) => Uttered(m)'
    /\ \A u \in Turn : Contains(Lines(s), Line(Reply(u))) =>
           u \in gone' \/ Contains(Lines(s)', Line(Reply(u)))
    /\ \A u \in Turn : turn'[u] \in {"committed", "done"} =>
           \/ turn[u] \in {"committed", "done"} \/ u \in gone'
           \/ Contains(Lines(s)', Line(Reply(u)))
MemoryKept(s) ==
    \A p \in Object : id[p] = s =>
        Closed(history'[p]) /\ \A m \in Message : Contains(history'[p], m) => Uttered(m)'
BothKept(s) ==
    loaded'[s] # NoObject =>
        /\ \A u \in Turn : Contains(Lines(s)', Line(Reply(u))) =>
               u \in gone' \/ Contains(history'[loaded'[s]], Reply(u))
        /\ \/ loaded'[s] \in shortened' \/ Torn(Lines(s)')
           \/ Heard(Lines(s)') = Said(history'[loaded'[s]])
TurnsKept(s) ==
    \A u \in Turn : turn'[u] = "prompted" /\ (turn[u] # "prompted" \/ id[on[u]] = s) => TurnSpeaks(u)'

LEMMA TouchedKeeps ==
    ASSUME StoreIndInv, KeepIndInv, NEW s \in Session, DataTypes', LocksHeld', Touches(s),
           FileKept(s), MemoryKept(s), BothKept(s), TurnsKept(s)
    PROVE  KeepIndInv'
<1> USE DEF KeepIndInv
<1>1. \A m \in Message : Uttered(m) => Uttered(m)'
  BY UtteredStays DEF Touches
<1>2. MessagesInOrder'
  <2> SUFFICES ASSUME NEW p \in Object
               PROVE  Closed(history'[p]) /\ \A m \in Message : Contains(history'[p], m) => Uttered(m)'
    BY DEF MessagesInOrder
  <2>1. CASE id[p] = s
    BY <2>1 DEF MemoryKept
  <2>2. CASE id[p] # s
    BY <1>1, <2>2 DEF Touches, MessagesInOrder
  <2>3. QED
    BY <2>1, <2>2
<1>3. LinesInOrder'
  <2> SUFFICES ASSUME NEW q \in Session
               PROVE  ClosedLines(Lines(q)') /\ \A m \in Message : Contains(Lines(q)', Line(m)) => Uttered(m)'
    BY DEF LinesInOrder
  <2>1. CASE q = s
    BY <2>1 DEF FileKept
  <2>2. CASE q # s
    <3>1. Lines(q)' = Lines(q)
      BY <2>2 DEF Touches
    <3>2. QED
      BY <1>1, <3>1 DEF LinesInOrder
  <2>3. QED
    BY <2>1, <2>2
<1>4. TurnsSpeak'
  <2> SUFFICES ASSUME NEW u \in Turn, turn'[u] = "prompted" PROVE TurnSpeaks(u)'
    BY DEF TurnsSpeak
  <2>1. CASE turn[u] # "prompted" \/ id[on[u]] = s
    BY <2>1 DEF TurnsKept
  <2>2. CASE turn[u] = "prompted" /\ id[on[u]] # s
    <3>1. /\ on[u] \in Object /\ id[on[u]] \in Session
      BY <2>2, PromptedIsListed DEF Live
    <3>2. /\ on'[u] = on[u] /\ ops'[u] = ops[u] /\ scratch'[u] = scratch[u] /\ id' = id
          /\ history'[on[u]] = history[on[u]] /\ Lines(id[on[u]])' = Lines(id[on[u]])
      BY <2>2, <3>1 DEF Touches
    <3>3. TurnSpeaks(u)
      BY <2>2 DEF TurnsSpeak
    <3>4. Full(u)' = Full(u)
      BY <3>2 DEF Full
    <3>5. QED
      BY <3>2, <3>3, <3>4 DEF TurnSpeaks
  <2>3. QED
    BY <2>1, <2>2
<1>5. ASSUME NEW q \in Session, q # s, loaded'[q] # NoObject
      PROVE  /\ loaded'[q] = loaded[q] /\ Lines(q)' = Lines(q)
             /\ history'[loaded[q]] = history[loaded[q]] /\ (loaded[q] \in shortened' <=> loaded[q] \in shortened)
  <2>1. loaded'[q] = loaded[q] /\ Lines(q)' = Lines(q)
    BY <1>5 DEF Touches
  <2>2. loaded[q] \in Object /\ id[loaded[q]] = q
    BY <1>5, <2>1 DEF StoreIndInv, PlaceTypes, StoreIsInOrder, ManagerKnows
  <2>3. QED
    BY <1>5, <2>1, <2>2 DEF Touches
<1>6. RepliesKept'
  <2> SUFFICES ASSUME NEW q \in Session, NEW u \in Turn, loaded'[q] # NoObject,
                      Contains(Lines(q)', Line(Reply(u)))
               PROVE  u \in gone' \/ Contains(history'[loaded'[q]], Reply(u))
    BY DEF RepliesKept, Reply, Line, Msg
  <2>1. CASE q = s
    BY <2>1 DEF BothKept
  <2>2. CASE q # s
    BY <1>5, <2>2 DEF RepliesKept, Touches
  <2>3. QED
    BY <2>1, <2>2
<1>7. AnswersStay'
  <2> SUFFICES ASSUME NEW u \in Turn, turn'[u] \in {"committed", "done"}, u \notin gone'
               PROVE  \E q \in Session : Contains(Lines(q)', Line(Reply(u)))
    BY DEF AnswersStay, Reply, Line, Msg
  <2>1. CASE turn[u] \in {"committed", "done"}
    <3>1. PICK q \in Session : Contains(Lines(q), Line(Reply(u)))
      BY <2>1 DEF AnswersStay, Touches
    <3>2. CASE q = s
      BY <3>1, <3>2 DEF FileKept
    <3>3. CASE q # s
      BY <3>1, <3>3 DEF Touches
    <3>4. QED
      BY <3>2, <3>3
  <2>2. CASE turn[u] \notin {"committed", "done"}
    BY <2>2 DEF FileKept
  <2>3. QED
    BY <2>1, <2>2
<1>8. ReloadKeepsMessages'
  <2> SUFFICES ASSUME NEW q \in Session, loaded'[q] # NoObject
               PROVE  \/ loaded'[q] \in shortened' \/ Torn(Lines(q)')
                      \/ Heard(Lines(q)') = Said(history'[loaded'[q]])
    BY DEF ReloadKeepsMessages, Torn, Heard, Marker
  <2>1. CASE q = s
    BY <2>1 DEF BothKept
  <2>2. CASE q # s
    <3>1. loaded[q] = NoObject \/ loaded[q] \in shortened \/ Torn(Lines(q)) \/ Heard(Lines(q)) = Said(history[loaded[q]])
      BY DEF ReloadKeepsMessages, Torn, Heard
    <3>2. QED
      BY <1>5, <2>2, <3>1
  <2>3. QED
    BY <2>1, <2>2
<1>9. QED
  BY <1>2, <1>3, <1>4, <1>6, <1>7, <1>8

\* A step that touches nothing that is kept, but may take sessions out of memory.
StaysPut ==
    /\ UNCHANGED <<id, history, shortened, gone>>
    /\ \A q \in Session : loaded'[q] \in {loaded[q], NoObject}
    /\ \A q \in Session : Lines(q)' = Lines(q)
    /\ Forward
    /\ \A u \in Turn : turn'[u] \in {"committed", "done"} => turn[u] \in {"committed", "done"}
    /\ \A u \in Turn : turn'[u] = "prompted" => TurnSpeaks(u)'

LEMMA StayKeeps ==
    ASSUME StoreIndInv, KeepIndInv, DataTypes', LocksHeld', StaysPut
    PROVE  KeepIndInv'
<1> USE DEF KeepIndInv
<1>1. \A m \in Message : Uttered(m) => Uttered(m)'
  BY UtteredStays DEF StaysPut
<1>2. /\ history' = history /\ shortened' = shortened /\ gone' = gone
      /\ \A q \in Session : Lines(q)' = Lines(q)
      /\ \A q \in Session : loaded'[q] # NoObject => loaded'[q] = loaded[q]
  BY DEF StaysPut
<1>3. MessagesInOrder'
  BY <1>1, <1>2 DEF MessagesInOrder
<1>4. LinesInOrder'
  BY <1>1, <1>2 DEF LinesInOrder
<1>5. TurnsSpeak'
  BY DEF StaysPut, TurnsSpeak
<1>6. RepliesKept'
  <2> SUFFICES ASSUME NEW q \in Session, NEW u \in Turn, loaded'[q] # NoObject,
                      Contains(Lines(q)', Line(Reply(u)))
               PROVE  u \in gone' \/ Contains(history'[loaded'[q]], Reply(u))
    BY DEF RepliesKept, Reply, Line, Msg
  <2>1. QED
    BY <1>2 DEF RepliesKept
<1>7. AnswersStay'
  <2> SUFFICES ASSUME NEW u \in Turn, turn'[u] \in {"committed", "done"}, u \notin gone'
               PROVE  \E q \in Session : Contains(Lines(q)', Line(Reply(u)))
    BY DEF AnswersStay, Reply, Line, Msg
  <2>1. QED
    BY <1>2 DEF AnswersStay, StaysPut
<1>8. ReloadKeepsMessages'
  <2> SUFFICES ASSUME NEW q \in Session, loaded'[q] # NoObject
               PROVE  \/ loaded'[q] \in shortened' \/ Torn(Lines(q)')
                      \/ Heard(Lines(q)') = Said(history'[loaded'[q]])
    BY DEF ReloadKeepsMessages, Torn, Heard, Marker
  <2>1. loaded[q] = NoObject \/ loaded[q] \in shortened \/ Torn(Lines(q)) \/ Heard(Lines(q)) = Said(history[loaded[q]])
    BY DEF ReloadKeepsMessages, Torn, Heard
  <2>2. QED
    BY <1>2, <2>1
<1>9. QED
  BY <1>3, <1>4, <1>5, <1>6, <1>7, <1>8

--------------------------------------------------------------------------------
(* get_or_load, create, and a daemon that dies.                                    *)

\* An object that was there, or one that takes what the file says.
OpenedFrom(s, o) ==
    /\ loaded' = [loaded EXCEPT ![s] = o] /\ id' = [id EXCEPT ![o] = s]
    /\ \A q \in Session : Lines(q)' = Lines(q)
    /\ \/ loaded[s] = o /\ UNCHANGED <<history, shortened>>
       \/ /\ loaded[s] = NoObject /\ ~Held(o) /\ \A q \in Session : loaded[q] # o
          /\ history' = [history EXCEPT ![o] = Load(Lines(s))]
          /\ shortened' = shortened \ {o}

LEMMA OpenedIs ==
    ASSUME StoreIndInv, NEW s \in Session, NEW o \in Object, GetOrLoad(s, o) \/ Create(s, o)
    PROVE  OpenedFrom(s, o)
<1>1. Opens(s, o) /\ Known(s, o)
  BY ObjectIsOpened
<1>2. \A q \in Session : Lines(q)' = Lines(q)
  BY <1>1 DEF Known, Lines, Exists
<1>3. CASE InMemory(s, o)
  BY <1>1, <1>2, <1>3 DEF InMemory, Opens, OpenedFrom
<1>4. ASSUME ObjectsLeft, o = NextObject
      PROVE  ~Held(o) /\ \A q \in Session : loaded[q] # o
  <2>1. Unused(o)
    BY <1>4 DEF ObjectsLeft, NextObject
  <2>2. QED
    BY <2>1 DEF Unused
<1>5. CASE FromDisk(s, o)
  <2>1. /\ loaded[s] = NoObject /\ Exists(s)
        /\ history' = [history EXCEPT ![o] = Load(disk[s])]
        /\ shortened' = shortened \ {o}
        /\ ~Held(o) /\ \A q \in Session : loaded[q] # o
    BY <1>4, <1>5 DEF FromDisk
  <2>2. Lines(s) = disk[s]
    BY <2>1 DEF Lines
  <2>3. QED
    BY <1>1, <1>2, <2>1, <2>2 DEF Opens, OpenedFrom
<1>6. CASE Blank(s, o)
  <2>1. /\ s \notin created /\ history' = [history EXCEPT ![o] = <<>>]
        /\ shortened' = shortened \ {o}
        /\ ~Held(o) /\ \A q \in Session : loaded[q] # o
    BY <1>4, <1>6 DEF Blank
  <2>2. ~Exists(s) /\ loaded[s] = NoObject
    <3> USE DEF StoreIndInv, PlaceTypes, StoreIsInOrder
    <3>1. ~Exists(s)
      BY <2>1 DEF IdsAreCreated, Exists
    <3>2. \A p \in Object : id[p] # s
      BY <2>1, NamesAreDistinct DEF IdsAreCreated
    <3>3. QED
      BY <3>1, <3>2 DEF ManagerKnows
  <2>3. Load(Lines(s)) = <<>>
    BY <2>2, Empty DEF Lines
  <2>4. QED
    BY <1>1, <1>2, <2>1, <2>2, <2>3 DEF Opens, OpenedFrom
<1>7. QED
  BY <1>3, <1>5, <1>6 DEF GetOrLoad, Create

\* Turns and calls that are as far as they were.
NobodyMoves ==
    /\ Forward /\ UNCHANGED <<scratch, ops, lock, gone>>
    /\ \A u \in Turn : turn'[u] \in {"locked", "prompted", "committed"} =>
           turn'[u] = turn[u] /\ on'[u] = on[u]
    /\ \A u \in Turn : turn'[u] = "done" => turn[u] = "done"
    /\ \A u \in Turn : turn'[u] \in {"unsent", "sent"} => turn[u] \in {"unsent", "sent"}
    /\ \A k \in Call : call'[k] = "running" => call[k] = "running" /\ at'[k] = at[k]

LEMMA OpenKeepsAll ==
    ASSUME StoreIndInv, KeepIndInv, NEW s \in Session, NEW o \in Object,
           GetOrLoad(s, o) \/ Create(s, o), NobodyMoves
    PROVE  KeepIndInv'
<1> USE DEF KeepIndInv
<1>1. OpenedFrom(s, o)
  BY OpenedIs
<1>2. \A m \in Message : Uttered(m) => Uttered(m)'
  BY UtteredStays DEF NobodyMoves
<1>3. Lines(s) \in Seq(Entry) /\ ClosedLines(Lines(s)) /\ \A m \in Message : Contains(Lines(s), Line(m)) => Uttered(m)
  BY DEF DataTypes, LinesInOrder
<1>4. LoadedOf(Lines(s), Load(Lines(s)))
  BY <1>3, LoadedFacts
<1> DEFINE h == Load(Lines(s))
<1>5. /\ h \in Seq(Message) /\ Closed(h) /\ Said(h) = Heard(Lines(s))
      /\ \A m \in Message : Contains(h, m) => m = Restored \/ Contains(Lines(s), Line(m))
      /\ \A m \in Message : Contains(Lines(s), Line(m)) => Contains(h, m)
  BY <1>4 DEF LoadedOf
<1> HIDE DEF h
<1>6. /\ \A q \in Session : Lines(q)' = Lines(q)
      /\ loaded' = [loaded EXCEPT ![s] = o]
      /\ \/ loaded[s] = o /\ UNCHANGED <<history, shortened>>
         \/ /\ loaded[s] = NoObject /\ ~Held(o) /\ \A q \in Session : loaded[q] # o
            /\ history' = [history EXCEPT ![o] = h] /\ shortened' = shortened \ {o}
  BY <1>1 DEF OpenedFrom, h
<1>7. /\ history \in [Object -> Seq(Message)] /\ shortened \subseteq Object
      /\ loaded \in [Session -> Object \cup {NoObject}] /\ NoObject \notin Object
  BY NamesAreDistinct DEF DataTypes, StoreIndInv, PlaceTypes
<1>8. DataTypes'
  <2>1. history' \in [Object -> Seq(Message)] /\ shortened' \subseteq Object
    BY <1>5, <1>6, <1>7
  <2>2. QED
    BY <1>6, <2>1 DEF DataTypes, NobodyMoves
<1>9. LocksHeld'
  BY DEF LocksHeld, NobodyMoves
<1>10. MessagesInOrder'
  <2> SUFFICES ASSUME NEW p \in Object
               PROVE  Closed(history'[p]) /\ \A m \in Message : Contains(history'[p], m) => Uttered(m)'
    BY DEF MessagesInOrder
  <2>1. CASE history'[p] = history[p]
    BY <1>2, <2>1 DEF MessagesInOrder
  <2>2. CASE history'[p] = h
    <3>1. \A m \in Message : Contains(h, m) => Uttered(m)'
      <4> SUFFICES ASSUME NEW m \in Message, Contains(h, m) PROVE Uttered(m)'
        OBVIOUS
      <4>1. m = Restored \/ Uttered(m)
        BY <1>3, <1>5
      <4>2. Uttered(Restored)
        BY SummaryFacts, NamesAreDistinct DEF Uttered
      <4>3. QED
        BY <1>2, <4>1, <4>2
    <3>2. QED
      BY <1>5, <2>2, <3>1
  <2>3. history'[p] = history[p] \/ history'[p] = h
    BY <1>6, <1>7
  <2>4. QED
    BY <2>1, <2>2, <2>3
<1>11. LinesInOrder'
  <2> SUFFICES ASSUME NEW q \in Session
               PROVE  ClosedLines(Lines(q)') /\ \A m \in Message : Contains(Lines(q)', Line(m)) => Uttered(m)'
    BY DEF LinesInOrder
  <2>1. QED
    BY <1>2, <1>6 DEF LinesInOrder
<1>12. TurnsSpeak'
  <2> SUFFICES ASSUME NEW u \in Turn, turn'[u] = "prompted" PROVE TurnSpeaks(u)'
    BY DEF TurnsSpeak
  <2>1. turn[u] = "prompted" /\ on'[u] = on[u] /\ ops' = ops /\ scratch' = scratch
    BY DEF NobodyMoves
  <2>2. on[u] \in Object /\ id[on[u]] \in Session /\ loaded[id[on[u]]] = on[u]
    BY <2>1, PromptedIsListed DEF Live
  <2>3. Held(on[u])
    BY <2>1 DEF Held, Live
  <2>4. history'[on[u]] = history[on[u]]
    BY <1>6, <1>7, <2>2, <2>3
  <2>5. id'[on[u]] = id[on[u]]
    <3>1. id' = [id EXCEPT ![o] = s] /\ id \in [Object -> Session \cup {NoSession}]
      BY <1>1 DEF OpenedFrom, StoreIndInv, PlaceTypes
    <3>2. CASE on[u] = o
      <4>1. loaded[s] = o
        BY <1>6, <2>3, <3>2
      <4>2. id[o] = s
        BY <1>7, <4>1 DEF StoreIndInv, StoreIsInOrder, ManagerKnows
      <4>3. QED
        BY <2>2, <3>1, <3>2, <4>2
    <3>3. CASE on[u] # o
      BY <2>2, <3>1, <3>3
    <3>4. QED
      BY <3>2, <3>3
  <2>6. Lines(id[on[u]])' = Lines(id[on[u]])
    BY <1>6, <2>1, <2>2, <2>5
  <2>7. TurnSpeaks(u)
    BY <2>1 DEF TurnsSpeak
  <2>8. Full(u)' = Full(u)
    BY <2>1, <2>4 DEF Full
  <2>9. QED
    BY <2>1, <2>4, <2>6, <2>7, <2>8 DEF TurnSpeaks
<1>13. ASSUME NEW q \in Session, loaded'[q] # NoObject
       PROVE  \/ loaded'[q] = loaded[q] /\ history'[loaded'[q]] = history[loaded[q]]
                 /\ (loaded'[q] \in shortened' <=> loaded[q] \in shortened)
              \/ q = s /\ history'[loaded'[q]] = h
  <2>1. CASE loaded[s] = o /\ UNCHANGED <<history, shortened>>
    BY <1>6, <1>7, <2>1
  <2>2. CASE /\ loaded[s] = NoObject /\ ~Held(o) /\ \A p \in Session : loaded[p] # o
             /\ history' = [history EXCEPT ![o] = h] /\ shortened' = shortened \ {o}
    <3>1. CASE q = s
      BY <1>6, <1>7, <2>2, <3>1
    <3>2. CASE q # s
      <4>1. loaded'[q] = loaded[q] /\ loaded[q] # o
        BY <1>6, <1>7, <2>2, <3>2
      <4>2. QED
        BY <1>7, <1>13, <2>2, <4>1
    <3>3. QED
      BY <3>1, <3>2
  <2>3. QED
    BY <1>6, <2>1, <2>2
<1>14. RepliesKept'
  <2> SUFFICES ASSUME NEW q \in Session, NEW u \in Turn, loaded'[q] # NoObject,
                      Contains(Lines(q)', Line(Reply(u)))
               PROVE  u \in gone' \/ Contains(history'[loaded'[q]], Reply(u))
    BY DEF RepliesKept, Reply, Line, Msg
  <2>1. Contains(Lines(q), Line(Reply(u))) /\ gone' = gone
    BY <1>6 DEF NobodyMoves
  <2>2. CASE loaded'[q] = loaded[q] /\ history'[loaded'[q]] = history[loaded[q]]
    BY <2>1, <2>2 DEF RepliesKept
  <2>3. CASE q = s /\ history'[loaded'[q]] = h
    BY <1>5, <2>1, <2>3, SummaryFacts
  <2>4. QED
    BY <1>13, <2>2, <2>3
<1>15. AnswersStay'
  <2> SUFFICES ASSUME NEW u \in Turn, turn'[u] \in {"committed", "done"}, u \notin gone'
               PROVE  \E q \in Session : Contains(Lines(q)', Line(Reply(u)))
    BY DEF AnswersStay, Reply, Line, Msg
  <2>1. turn[u] \in {"committed", "done"} /\ u \notin gone
    BY DEF NobodyMoves
  <2>2. PICK q \in Session : Contains(Lines(q), Line(Reply(u)))
    BY <2>1 DEF AnswersStay
  <2>3. QED
    BY <1>6, <2>2
<1>16. ReloadKeepsMessages'
  <2> SUFFICES ASSUME NEW q \in Session, loaded'[q] # NoObject
               PROVE  \/ loaded'[q] \in shortened' \/ Torn(Lines(q)')
                      \/ Heard(Lines(q)') = Said(history'[loaded'[q]])
    BY DEF ReloadKeepsMessages, Torn, Heard, Marker
  <2>1. Lines(q)' = Lines(q)
    BY <1>6
  <2>2. CASE loaded'[q] = loaded[q] /\ history'[loaded'[q]] = history[loaded[q]] /\ (loaded'[q] \in shortened' <=> loaded[q] \in shortened)
    <3>1. loaded[q] \in shortened \/ Torn(Lines(q)) \/ Heard(Lines(q)) = Said(history[loaded[q]])
      BY <2>2 DEF ReloadKeepsMessages, Torn, Heard
    <3>2. QED
      BY <2>1, <2>2, <3>1
  <2>3. CASE q = s /\ history'[loaded'[q]] = h
    BY <1>5, <2>1, <2>3
  <2>4. QED
    BY <1>13, <2>2, <2>3
<1>17. QED
  BY <1>8, <1>9, <1>10, <1>11, <1>12, <1>14, <1>15, <1>16

\* A file when the daemon dies: it may have got more lines.
FileStays(s) ==
    /\ Lines(s)' \in Seq(Entry) /\ ClosedLines(Lines(s)')
    /\ \A m \in Message : Contains(Lines(s)', Line(m)) => Contains(Lines(s), Line(m)) \/ Uttered(m)'
    /\ \A m \in Message : Contains(Lines(s), Line(m)) => Contains(Lines(s)', Line(m))

LEMMA RestartKeeps ==
    ASSUME StoreIndInv, KeepIndInv, Restarted, \A s \in Session : FileStays(s)
    PROVE  KeepIndInv'
<1> USE DEF KeepIndInv
<1>1. /\ loaded' = [s \in Session |-> NoObject]
      /\ history' = [o \in Object |-> <<>>]
      /\ lock' = [o \in Object |-> Nobody]
      /\ turn' = [t \in Turn |-> IF turn[t] \in Live THEN "stopped" ELSE turn[t]]
      /\ scratch' = [t \in Turn |-> <<>>] /\ ops' = [t \in Turn |-> <<>>]
      /\ call' = [k \in Call |-> IF call[k] \in {"waiting", "running"} THEN "over" ELSE call[k]]
      /\ shortened' = {} /\ gone' = gone
  BY DEF Restarted
<1>2. Forward
  BY <1>1 DEF Forward, Live
<1>3. \A m \in Message : Uttered(m) => Uttered(m)'
  BY <1>2, UtteredStays
<1>4. DataTypes'
  BY <1>1, Empty DEF DataTypes, FileStays
<1>5. LocksHeld'
  BY <1>1 DEF LocksHeld, Live
<1>6. MessagesInOrder'
  BY <1>1, Empty, LenProperties DEF MessagesInOrder, Closed, Contains
<1>7. LinesInOrder'
  <2> SUFFICES ASSUME NEW q \in Session
               PROVE  ClosedLines(Lines(q)') /\ \A m \in Message : Contains(Lines(q)', Line(m)) => Uttered(m)'
    BY DEF LinesInOrder
  <2>1. QED
    BY <1>3 DEF LinesInOrder, FileStays
<1>8. TurnsSpeak'
  BY <1>1 DEF TurnsSpeak, Live
<1>9. RepliesKept' /\ ReloadKeepsMessages'
  BY <1>1 DEF RepliesKept, ReloadKeepsMessages
<1>10. AnswersStay'
  <2> SUFFICES ASSUME NEW u \in Turn, turn'[u] \in {"committed", "done"}, u \notin gone'
               PROVE  \E q \in Session : Contains(Lines(q)', Line(Reply(u)))
    BY DEF AnswersStay, Reply, Line, Msg
  <2>1. turn[u] \in {"committed", "done"} /\ u \notin gone
    BY <1>1 DEF Live
  <2>2. PICK q \in Session : Contains(Lines(q), Line(Reply(u)))
    BY <2>1 DEF AnswersStay
  <2>3. QED
    BY <2>2, SummaryFacts DEF FileStays
<1>11. QED
  BY <1>4, <1>5, <1>6, <1>7, <1>8, <1>9, <1>10

--------------------------------------------------------------------------------
(* The steps of a turn.                                                            *)

LEMMA WrittenLines ==
    ASSUME NEW s \in Session, NEW lines, disk' = Written(s, lines)
    PROVE  Lines(s)' = lines /\ \A q \in Session \ {s} : Lines(q)' = Lines(q)
BY DEF Written, Lines, Exists

\* What holds of the session a turn works on.
WorksOn(t, o, s) ==
    /\ o \in Object /\ s \in Session /\ on[t] = o /\ id[o] = s /\ loaded[s] = o
    /\ \A u \in Turn : turn[u] \in Live /\ (on[u] = o \/ id[on[u]] = s) => u = t
    /\ Lines(s) \in Seq(Entry) /\ ClosedLines(Lines(s))
    /\ \A m \in Message : Contains(Lines(s), Line(m)) => Uttered(m)
    /\ history[o] \in Seq(Message) /\ Closed(history[o])
    /\ \A m \in Message : Contains(history[o], m) => Uttered(m)
    /\ \A u \in Turn : Contains(Lines(s), Line(Reply(u))) => u \in gone \/ Contains(history[o], Reply(u))
    /\ o \in shortened \/ Torn(Lines(s)) \/ Heard(Lines(s)) = Said(history[o])

LEMMA TurnWorks ==
    ASSUME StoreIndInv, KeepIndInv, NEW t \in Turn, turn[t] \in Live
    PROVE  WorksOn(t, on[t], id[on[t]])
<1> DEFINE o == on[t]
           s == id[o]
<1>1. /\ o \in Object /\ active[o] = t /\ s \in Session /\ loaded[s] = o /\ o # NoObject
  BY PromptedIsListed, NamesAreDistinct
<1>2. ASSUME NEW u \in Turn, turn[u] \in Live, on[u] = o \/ id[on[u]] = s PROVE u = t
  <2>1. on[u] \in Object /\ active[on[u]] = u /\ loaded[id[on[u]]] = on[u]
    BY <1>2, PromptedIsListed
  <2>2. on[u] = o
    BY <1>1, <1>2, <2>1
  <2>3. QED
    BY <1>1, <2>1, <2>2
<1>3. /\ Lines(s) \in Seq(Entry) /\ ClosedLines(Lines(s))
      /\ \A m \in Message : Contains(Lines(s), Line(m)) => Uttered(m)
      /\ history[o] \in Seq(Message) /\ Closed(history[o])
      /\ \A m \in Message : Contains(history[o], m) => Uttered(m)
  BY <1>1 DEF KeepIndInv, DataTypes, LinesInOrder, MessagesInOrder
<1>4. \A u \in Turn : Contains(Lines(s), Line(Reply(u))) => u \in gone \/ Contains(history[o], Reply(u))
  BY <1>1 DEF KeepIndInv, RepliesKept
<1>5. o \in shortened \/ Torn(Lines(s)) \/ Heard(Lines(s)) = Said(history[o])
  BY <1>1 DEF KeepIndInv, ReloadKeepsMessages, Torn, Heard
<1>6. QED
  BY <1>1, <1>2, <1>3, <1>4, <1>5 DEF WorksOn

LEMMA TurnPromptsKeepsAll ==
    ASSUME StoreIndInv, KeepIndInv, NEW t \in Turn, NEW o \in Object, NEW s \in Session,
           o = on[t], s = id[o], TurnPrompts(t)
    PROVE  KeepIndInv'
<1> DEFINE m == Msg("prompt", t)
           e == <<Line(m)>>
           r == Appended(o, e)
           h == Append(history[o], m)
<1>1. /\ turn[t] = "locked" /\ turn' = [turn EXCEPT ![t] = "prompted"]
      /\ history' = [history EXCEPT ![o] = h]
      /\ scratch' = [scratch EXCEPT ![t] = h]
      /\ disk' = Written(s, r)
      /\ UNCHANGED <<loaded, id, lock, on, ops, call, at, shortened, gone>>
  BY DEF TurnPrompts, callVars, historyVars
<1>2. WorksOn(t, o, s) /\ turn[t] \in Live
  <2>1. WorksOn(t, on[t], id[on[t]]) /\ turn[t] \in Live
    BY <1>1, TurnWorks DEF Live
  <2>2. QED
    BY <2>1
<1>3. /\ m \in Message /\ m.kind = "prompt" /\ m.by = t /\ t # NoTurn
      /\ \A u \in Turn : Reply(u) \in Message /\ Reply(u).kind = "reply" /\ Reply(u).by = u
  BY SummaryFacts
<1>4. /\ e \in Seq(Entry) /\ e # <<>> /\ Len(e) = 1 /\ e[1] = Line(m) /\ Line(m) \in Entry
      /\ Line(m).type = "message" /\ Line(m).msg = m /\ Heard(e) = <<m>>
  BY <1>3, EntryFacts, HeardOne DEF Spoken
<1>5. ASSUME NEW w \in Message, Uttered(w) PROVE w.by # t
  BY <1>1, <1>5 DEF Uttered
<1>6. ClosedLines(e) /\ Last(e).type # "torn" /\ \A w \in Message : Contains(e, Line(w)) => w = m
  <2>1. DOMAIN e = 1 .. 1
    BY <1>4
  <2>2. \A w \in Message : Line(w) = Line(m) => w = m
    BY <1>3, EntryFacts
  <2> HIDE DEF e
  <2>3. QED
    BY <1>4, <2>1, <2>2 DEF ClosedLines, Last, Contains
<1>7. Follows(Lines(s), e)
  BY <1>2, <1>3, <1>5, <1>6 DEF Follows, WorksOn
<1>8. AppendOf(Lines(s), e, r)
  BY <1>2, <1>4, <1>6, <1>7, AppendedFacts DEF WorksOn
<1>9. /\ h \in Seq(Message) /\ Len(h) = Len(history[o]) + 1 /\ h[Len(history[o]) + 1] = m
      /\ \A i \in 1 .. Len(history[o]) : h[i] = history[o][i]
      /\ \A w : Contains(h, w) <=> Contains(history[o], w) \/ w = m
      /\ Said(h) = Joined(Said(history[o]), <<m>>)
  BY <1>2, <1>3, AppendMsgFacts, SaidAppend DEF WorksOn, Spoken
<1>10. /\ o \in Object /\ s \in Session /\ id[o] = s /\ loaded[s] = o
  BY <1>2 DEF WorksOn
<1>11. Lines(s)' = r /\ \A q \in Session \ {s} : Lines(q)' = Lines(q)
  BY <1>1, <1>10, WrittenLines
<1> HIDE DEF r, h, e, m
<1>12. /\ history'[o] = h /\ \A p \in Object \ {o} : history'[p] = history[p]
  BY <1>1, <1>10 DEF KeepIndInv, DataTypes
<1>13. turn'[t] = "prompted" /\ \A u \in Turn \ {t} : turn'[u] = turn[u]
  BY <1>1 DEF StoreIndInv, PlaceTypes
<1>14. DataTypes'
  BY <1>1, <1>8, <1>9, <1>11 DEF KeepIndInv, DataTypes, AppendOf
<1>15. LocksHeld'
  BY <1>1, <1>13 DEF KeepIndInv, LocksHeld
<1>16. Forward
  BY <1>1, <1>13 DEF Forward
<1>17. Touches(s)
  BY <1>1, <1>10, <1>11, <1>12, <1>16 DEF Touches
<1>18. \A w \in Message : Uttered(w) => Uttered(w)'
  BY <1>16, UtteredStays
<1>19. Uttered(m)'
  BY <1>3, <1>13 DEF Uttered
<1>20. FileKept(s)
  <2>1. ClosedLines(r) /\ \A w \in Message : Contains(r, Line(w)) => Uttered(w)'
    BY <1>2, <1>6, <1>8, <1>18, <1>19 DEF AppendOf, WorksOn
  <2>2. \A u \in Turn : Contains(Lines(s), Line(Reply(u))) => Contains(r, Line(Reply(u)))
    BY <1>3, <1>8 DEF AppendOf
  <2>3. QED
    BY <1>11, <1>13, <2>1, <2>2 DEF FileKept
<1>21. MemoryKept(s)
  <2>1. Closed(h)
    <3> DEFINE n == Len(history[o])
    <3>1. DOMAIN h = 1 .. n + 1 /\ n \in Nat /\ DOMAIN history[o] = 1 .. n
      BY <1>2, <1>9, LenProperties DEF WorksOn
    <3> SUFFICES ASSUME NEW i \in 1 .. n + 1, NEW j \in 1 .. n + 1, i < j, h[i].kind = "reply"
                 PROVE  h[j].by # h[i].by
      BY <3>1 DEF Closed
    <3> HIDE DEF n
    <3>2. i \in 1 .. n
      BY <3>1
    <3>3. h[i] = history[o][i]
      BY <1>9, <3>2 DEF n
    <3>4. CASE j \in 1 .. n
      BY <1>2, <1>9, <3>1, <3>2, <3>3, <3>4 DEF Closed, WorksOn, n
    <3>5. CASE j \notin 1 .. n
      <4>1. j = n + 1
        BY <3>1, <3>5
      <4>2. h[j] = m
        BY <1>9, <4>1 DEF n
      <4>3. history[o][i] \in Message /\ Contains(history[o], history[o][i])
        BY <1>2, <3>2, ElementOfSeq DEF WorksOn, Contains, n
      <4>4. Uttered(history[o][i])
        BY <1>2, <4>3 DEF WorksOn
      <4>5. QED
        BY <1>3, <1>5, <3>3, <4>2, <4>3, <4>4
    <3>6. QED
      BY <3>4, <3>5
  <2>2. \A w \in Message : Contains(h, w) => Uttered(w)'
    BY <1>2, <1>9, <1>18, <1>19 DEF WorksOn
  <2>3. QED
    BY <1>12, <1>18, <2>1, <2>2 DEF MemoryKept, KeepIndInv, MessagesInOrder
<1>22. BothKept(s)
  <2>1. \A u \in Turn : Contains(r, Line(Reply(u))) => u \in gone \/ Contains(h, Reply(u))
    <3> SUFFICES ASSUME NEW u \in Turn, Contains(r, Line(Reply(u))) PROVE u \in gone \/ Contains(h, Reply(u))
      OBVIOUS
    <3>1. Contains(Lines(s), Line(Reply(u)))
      BY <1>3, <1>6, <1>8 DEF AppendOf
    <3>2. QED
      BY <1>2, <1>9, <3>1 DEF WorksOn
  <2>2. o \in shortened \/ Torn(r) \/ Heard(r) = Said(h)
    BY <1>2, <1>4, <1>8, <1>9 DEF AppendOf, WorksOn
  <2>3. QED
    BY <1>1, <1>10, <1>11, <1>12, <2>1, <2>2 DEF BothKept
<1>23. TurnsKept(s)
  <2> SUFFICES ASSUME NEW u \in Turn, turn'[u] = "prompted", turn[u] # "prompted" \/ id[on[u]] = s
               PROVE  TurnSpeaks(u)'
    BY DEF TurnsKept
  <2>1. u = t
    <3>1. turn[u] = "prompted" => u = t
      BY <1>2 DEF WorksOn, Live
    <3>2. QED
      BY <1>13, <3>1
  <2>2. Len(h) >= 1 /\ h[Len(h)] = m
    <3>1. Len(history[o]) \in Nat
      BY <1>2, LenProperties DEF WorksOn
    <3>2. QED
      BY <1>9, <3>1
  <2>3. \A i \in 1 .. Len(h) - 1 : h[i].by # t
    <3> SUFFICES ASSUME NEW i \in 1 .. Len(h) - 1 PROVE h[i].by # t
      OBVIOUS
    <3>1. i \in 1 .. Len(history[o])
      <4>1. Len(history[o]) \in Nat
        BY <1>2, LenProperties DEF WorksOn
      <4>2. QED
        BY <1>9, <4>1
    <3>2. history[o][i] \in Message /\ Contains(history[o], history[o][i]) /\ h[i] = history[o][i]
      BY <1>2, <1>9, <3>1, ElementOfSeq DEF WorksOn, Contains
    <3>3. QED
      BY <1>2, <1>5, <3>2 DEF WorksOn
  <2>4. ops'[t] = <<>> /\ ops[t] = <<>>
    BY <1>1 DEF KeepIndInv, LocksHeld
  <2>5. scratch'[t] = h
    BY <1>1 DEF KeepIndInv, DataTypes
  <2>6. Full(t)' = h
    <3>1. h \o <<>> = h
      BY <1>9, ConcatEmptySeq
    <3>2. QED
      BY <1>1, <1>12, <2>4, <3>1, Empty DEF Full
  <2>7. NotTorn(r)
    BY <1>6, <1>8 DEF AppendOf
  <2>8. Lines(id[on[t]])' = r
    <3>1. id'[on'[t]] = s
      BY <1>1
    <3>2. QED
      BY <1>11, <3>1
  <2>9. history'[on'[t]] = h
    BY <1>1, <1>12
  <2>10. TurnSpeaks(t)'
    BY <2>2, <2>3, <2>4, <2>5, <2>6, <2>7, <2>8, <2>9 DEF TurnSpeaks, m
  <2>11. QED
    BY <2>1, <2>10
<1>24. QED
  BY <1>10, <1>14, <1>15, <1>17, <1>20, <1>21, <1>22, <1>23, TouchedKeeps

LEMMA TurnLocksKeepsAll ==
    ASSUME StoreIndInv, KeepIndInv, NEW t \in Turn, TurnLocks(t)
    PROVE  KeepIndInv'
<1>1. /\ turn[t] = "sent" /\ lock[on[t]] = Nobody
      /\ lock' = [lock EXCEPT ![on[t]] = t] /\ turn' = [turn EXCEPT ![t] = "locked"]
      /\ UNCHANGED <<disk, loaded, id, history, on, scratch, ops, call, at, shortened, gone>>
  BY DEF TurnLocks, storeVars, managerVars, objectVars, callVars, historyVars
<1>2. WorksOn(t, on[t], id[on[t]])
  BY <1>1, TurnWorks DEF Live
<1>3. turn'[t] = "locked" /\ \A u \in Turn \ {t} : turn'[u] = turn[u]
  BY <1>1 DEF StoreIndInv, PlaceTypes
<1>4. on[t] \in Object /\ lock \in [Object -> Turn \cup Call \cup {Nobody}]
  BY <1>2 DEF WorksOn, KeepIndInv, DataTypes
<1>5. \A q \in Session : Lines(q)' = Lines(q)
  BY <1>1 DEF Lines, Exists
<1>6. DataTypes'
  BY <1>1, <1>4, <1>5 DEF KeepIndInv, DataTypes
<1>7. LocksHeld'
  <2>1. ASSUME NEW u \in Turn, turn'[u] \in {"locked", "prompted", "committed"} PROVE lock'[on'[u]] = u
    <3>1. CASE u = t
      BY <1>1, <1>4, <3>1
    <3>2. CASE u # t
      <4>1. turn[u] \in {"locked", "prompted", "committed"} /\ on[u] \in Object
        BY <1>3, <2>1, <3>2, PromptedIsListed DEF Live
      <4>2. on[u] # on[t] /\ lock[on[u]] = u
        BY <1>2, <3>2, <4>1 DEF WorksOn, Live, KeepIndInv, LocksHeld
      <4>3. QED
        BY <1>1, <1>4, <4>1, <4>2
    <3>3. QED
      BY <3>1, <3>2
  <2>2. ASSUME NEW k \in Call, call'[k] = "running" PROVE lock'[at'[k]] = k
    <3>1. lock[at[k]] = k /\ at[k] \in Object
      BY <1>1, <2>2 DEF KeepIndInv, LocksHeld, StoreIndInv, CallsAtWork
    <3>2. at[k] # on[t]
      BY <1>1, <3>1, NamesAreDistinct
    <3>3. QED
      BY <1>1, <1>4, <3>1, <3>2
  <2>3. \A u \in Turn : turn'[u] \in {"unsent", "sent", "locked"} => ops'[u] = <<>>
    BY <1>1, <1>3 DEF KeepIndInv, LocksHeld
  <2>4. QED
    BY <2>1, <2>2, <2>3 DEF LocksHeld
<1>8. Forward
  BY <1>1, <1>3 DEF Forward
<1>9. \A u \in Turn : turn'[u] = "prompted" => TurnSpeaks(u)'
  <2> SUFFICES ASSUME NEW u \in Turn, turn'[u] = "prompted" PROVE TurnSpeaks(u)'
    OBVIOUS
  <2>1. TurnSpeaks(u)
    BY <1>3 DEF KeepIndInv, TurnsSpeak
  <2>2. QED
    BY <1>1, <2>1 DEF TurnSpeaks, Full, Lines, Exists
<1>10. StaysPut
  BY <1>1, <1>3, <1>5, <1>8, <1>9 DEF StaysPut
<1>11. QED
  BY <1>6, <1>7, <1>10, StayKeeps

\* What a prompted turn has: its copy is the history with what it said, or what a
\* compaction left of them.
SpeaksOn(t, o, s) ==
    LET h == history[o]
        x == Heard(ops[t])
    IN  /\ WorksOn(t, o, s) /\ ops[t] \in Seq(Entry) /\ SpeaksFor(t, x)
        /\ ClosedLines(ops[t]) /\ (\A m \in Message : Contains(ops[t], Line(m)) => m.by = t /\ m.kind # "reply")
        /\ ~Contains(h, Reply(t))
        /\ Len(h) >= 1 /\ h[Len(h)] = Msg("prompt", t) /\ \A i \in 1 .. Len(h) - 1 : h[i].by # t
        /\ scratch[t] = h \o x \/ \E k \in 1 .. Len(h \o x) : scratch[t] = Compacted(h \o x, k)
        /\ NotTorn(Lines(s))
        /\ \A m \in Message : Contains(Lines(s), Line(m)) /\ m.kind = "reply" => m.by # t

LEMMA PromptedSpeaks ==
    ASSUME StoreIndInv, KeepIndInv, NEW t \in Turn, turn[t] = "prompted"
    PROVE  SpeaksOn(t, on[t], id[on[t]])
<1>1. WorksOn(t, on[t], id[on[t]])
  BY TurnWorks DEF Live
<1>2. TurnSpeaks(t)
  BY DEF KeepIndInv, TurnsSpeak
<1>3. ops[t] \in Seq(Entry) /\ \A i \in DOMAIN ops[t] : ops[t][i] \in OpsOf(t)
  BY <1>2 DEF TurnSpeaks, KeepIndInv, DataTypes
<1>4. /\ SpeaksFor(t, Heard(ops[t])) /\ ClosedLines(ops[t])
      /\ \A m \in Message : Contains(ops[t], Line(m)) => m.by = t /\ m.kind # "reply"
  BY <1>3, OpsFacts
<1>5. \A m \in Message : Uttered(m) /\ m.kind = "reply" => m.by # t
  BY DEF Uttered
<1>6. /\ ~Contains(history[on[t]], Reply(t))
      /\ \A m \in Message : Contains(Lines(id[on[t]]), Line(m)) /\ m.kind = "reply" => m.by # t
  BY <1>1, <1>5, SummaryFacts DEF WorksOn
<1>7. QED
  BY <1>1, <1>2, <1>3, <1>4, <1>6 DEF SpeaksOn, TurnSpeaks, Full

\* A turn says more to itself.
LEMMA MoreToSpeak ==
    ASSUME StoreIndInv, KeepIndInv, NEW t \in Turn, turn[t] = "prompted",
           UNCHANGED <<storeVars, managerVars, objectVars, lock, turn, on, callVars, historyVars>>,
           \A u \in Turn \ {t} : ops'[u] = ops[u] /\ scratch'[u] = scratch[u],
           DataTypes', TurnSpeaks(t)'
    PROVE  KeepIndInv'
<1>1. UNCHANGED <<disk, loaded, id, history, lock, turn, on, call, at, shortened, gone>>
  BY DEF storeVars, managerVars, objectVars, callVars, historyVars
<1>2. \A q \in Session : Lines(q)' = Lines(q)
  BY <1>1 DEF Lines, Exists
<1>3. LocksHeld'
  BY <1>1 DEF KeepIndInv, LocksHeld
<1>4. Forward
  BY <1>1 DEF Forward
<1>5. \A u \in Turn : turn'[u] = "prompted" => TurnSpeaks(u)'
  <2> SUFFICES ASSUME NEW u \in Turn, u # t, turn[u] = "prompted" PROVE TurnSpeaks(u)'
    BY <1>1
  <2>1. TurnSpeaks(u) /\ ops'[u] = ops[u] /\ scratch'[u] = scratch[u]
    BY DEF KeepIndInv, TurnsSpeak
  <2>2. QED
    BY <1>1, <2>1 DEF TurnSpeaks, Full, Lines, Exists
<1>6. StaysPut
  BY <1>1, <1>2, <1>4, <1>5 DEF StaysPut
<1>7. QED
  BY <1>3, <1>6, StayKeeps

LEMMA AppendIs ==
    ASSUME NEW T, NEW s \in Seq(T), NEW e \in T
    PROVE  /\ Append(s, e) \in Seq(T) /\ Len(Append(s, e)) = Len(s) + 1
           /\ \A i \in 1 .. Len(s) : Append(s, e)[i] = s[i]
           /\ Append(s, e)[Len(s) + 1] = e
<1>1. Append(s, e) \in Seq(T)
  BY AppendProperties
<1>2. Len(Append(s, e)) = Len(s) + 1
  BY AppendProperties
<1>3. \A i \in 1 .. Len(s) : Append(s, e)[i] = s[i]
  BY AppendProperties
<1>4. Append(s, e)[Len(s) + 1] = e
  BY AppendProperties
<1>5. QED
  BY <1>1, <1>2, <1>3, <1>4

LEMMA PairIs ==
    ASSUME NEW T, NEW p \in T, NEW q \in T
    PROVE  Append(<<p>>, q) = <<p, q>> /\ <<p, q>> \in Seq(T)
<1>a. <<p>> \in Seq(T) /\ <<p, q>> \in Seq(T)
  OBVIOUS
<1>1. PICK a \in Seq(T) : a = <<p>>
  BY <1>a
<1>2. PICK b \in Seq(T) : b = <<p, q>>
  BY <1>a
<1>3. Len(a) = 1 /\ a[1] = p
  BY <1>1
<1>4. Len(b) = 2 /\ b[1] = p /\ b[2] = q
  BY <1>2
<1>5. PICK c \in Seq(T) : c = Append(a, q)
  BY AppendIs
<1>6. Len(c) = Len(a) + 1 /\ c[Len(a) + 1] = q /\ \A i \in 1 .. Len(a) : c[i] = a[i]
  BY <1>5, AppendIs
<1>7. Len(c) = 2 /\ c[1] = p /\ c[2] = q
  BY <1>3, <1>6
<1>8. \A i \in 1 .. Len(c) : c[i] = b[i]
  BY <1>4, <1>7
<1>9. c = b
  BY <1>4, <1>7, <1>8, SeqEqual
<1>10. QED
  BY <1>1, <1>2, <1>5, <1>9

LEMMA TwoLines ==
    ASSUME NEW a \in Message, NEW b \in Message, a.kind \in {"call", "result"}, b.kind \in {"call", "result"}
    PROVE  /\ <<a, b>> \in Seq(Message) /\ <<Line(a), Line(b)>> \in Seq(Entry)
           /\ Heard(<<Line(a), Line(b)>>) = <<a, b>>
<1>1. Line(a) \in Entry /\ Line(b) \in Entry /\ SpokenIn(Line(a)) = <<a>> /\ SpokenIn(Line(b)) = <<b>>
  BY EntryFacts DEF Spoken
<1>2. <<Line(a)>> \in Seq(Entry) /\ Heard(<<Line(a)>>) = <<a>>
  BY <1>1, HeardOne
<1>3. Append(<<Line(a)>>, Line(b)) = <<Line(a), Line(b)>>
  BY <1>1, PairIs
<1>4. /\ Append(<<Line(a)>>, Line(b)) \in Seq(Entry)
      /\ Heard(Append(<<Line(a)>>, Line(b))) = Joined(<<a>>, <<b>>)
  BY <1>1, <1>2, HeardAppend
<1>5. Joined(<<a>>, <<b>>) = <<a, b>>
  <2>1. <<a>> \in Seq(Message)
    OBVIOUS
  <2>2. <<a>> \o <<b>> = Append(<<a>>, b)
    BY <2>1, AppendIsConcat
  <2>3. QED
    BY <2>2, PairIs DEF Joined
<1>6. <<a, b>> \in Seq(Message)
  BY PairIs
<1>7. QED
  BY <1>3, <1>4, <1>5, <1>6

LEMMA TurnCallsToolsKeepsAll ==
    ASSUME StoreIndInv, KeepIndInv, NEW t \in Turn, TurnCallsTools(t)
    PROVE  KeepIndInv'
<1> DEFINE a == Msg("call", t)
           b == Msg("result", t)
           ms == <<a, b>>
           ls == <<Line(a), Line(b)>>
           h == history[on[t]]
           x == Heard(ops[t])
<1>1. /\ turn[t] = "prompted"
      /\ scratch' = [scratch EXCEPT ![t] = scratch[t] \o ms]
      /\ ops' = [ops EXCEPT ![t] = ops[t] \o ls]
      /\ UNCHANGED <<storeVars, managerVars, objectVars, lock, turn, on, callVars, historyVars>>
  BY DEF TurnCallsTools
<1>2. SpeaksOn(t, on[t], id[on[t]])
  BY <1>1, PromptedSpeaks
<1>3. a \in Message /\ b \in Message /\ a.kind = "call" /\ b.kind = "result"
  BY SummaryFacts
<1>4. ms \in Seq(Message) /\ ls \in Seq(Entry) /\ Heard(ls) = ms /\ Len(ls) = 2 /\ ls[1] = Line(a) /\ ls[2] = Line(b)
  BY <1>3, TwoLines
<1>5. Line(a) \in OpsOf(t) /\ Line(b) \in OpsOf(t)
  BY DEF OpsOf
<1>6. /\ h \in Seq(Message) /\ x \in Seq(Message) /\ ops[t] \in Seq(Entry)
      /\ (scratch[t] = h \o x \/ \E k \in 1 .. Len(h \o x) : scratch[t] = Compacted(h \o x, k))
  BY <1>2 DEF SpeaksOn, WorksOn, SpeaksFor
<1>7. UNCHANGED <<disk, loaded, id, history, on, shortened, gone>>
  BY <1>1 DEF storeVars, managerVars, objectVars, historyVars
<1> HIDE DEF ms, ls, a, b
<1> DEFINE f == h \o x
           y == ops[t] \o ls
           z == scratch[t] \o ms
<1>8. f \in Seq(Message) /\ f = Joined(h, x)
  <2>1. h \in Seq(Message) /\ x \in Seq(Message)
    BY <1>6
  <2> HIDE DEF h, x
  <2>2. Joined(h, x) \in Seq(Message) /\ Joined(h, x) = h \o x
    BY <2>1, JoinedFacts
  <2>3. QED
    BY <2>2
<1>9. Heard(y) = Joined(x, ms) /\ Behind(ops[t], ls, y)
  BY <1>4, <1>6, HeardConcat, ConcatIsBehind
<1>10. h \o Heard(y) = f \o ms
  <2>1. Joined(Joined(h, x), ms) = Joined(h, Joined(x, ms)) /\ Joined(x, ms) \in Seq(Message)
    BY <1>4, <1>6, JoinedFacts, ZenonT(60)
  <2> HIDE DEF f, y
  <2>2. Joined(f, ms) = Joined(h, Heard(y)) /\ Heard(y) \in Seq(Message)
    BY <1>8, <1>9, <2>1
  <2>3. Joined(f, ms) = f \o ms
    BY <1>4, <1>8, JoinedFacts
  <2>4. Joined(h, Heard(y)) = h \o Heard(y)
    BY <1>6, <2>2, JoinedFacts
  <2>5. QED
    BY <2>2, <2>3, <2>4
<1> HIDE DEF y
<1>11. z \in Seq(Message) /\ (z = f \o ms \/ \E k \in 1 .. Len(f \o ms) : z = Compacted(f \o ms, k))
  <2>1. CASE scratch[t] = f
    BY <1>4, <1>8, <2>1, ConcatProperties
  <2>2. CASE \E k \in 1 .. Len(f) : scratch[t] = Compacted(f, k)
    <3>1. PICK k \in 1 .. Len(f) : scratch[t] = Compacted(f, k)
      BY <2>2
    <3> HIDE DEF f
    <3>2. k \in 1 .. Len(f \o ms) /\ Compacted(f, k) \o ms = Compacted(f \o ms, k)
      BY <1>4, <1>8, CutAndMore
    <3>3. scratch[t] \in Seq(Message)
      BY DEF KeepIndInv, DataTypes
    <3>4. z \in Seq(Message)
      BY <1>4, <3>3, ConcatProperties
    <3>5. QED
      BY <3>1, <3>2, <3>4
  <2>3. QED
    BY <1>6, <2>1, <2>2
<1> HIDE DEF f, z
<1>12. \A u \in Turn \ {t} : ops'[u] = ops[u] /\ scratch'[u] = scratch[u]
  BY <1>1 DEF KeepIndInv, DataTypes
<1>13. ops'[t] = y /\ scratch'[t] = z
  BY <1>1 DEF KeepIndInv, DataTypes, y, z
<1>14. DataTypes'
  <2>1. scratch' \in [Turn -> Seq(Message)] /\ ops' \in [Turn -> Seq(Entry)]
    BY <1>1, <1>9, <1>11 DEF KeepIndInv, DataTypes, Behind, y, z
  <2>2. QED
    BY <1>1, <1>7, <2>1 DEF KeepIndInv, DataTypes, Lines, Exists
<1>15. \A i \in DOMAIN y : y[i] \in OpsOf(t)
  <2> DEFINE n == Len(ops[t])
  <2>1. \A i \in 1 .. n : ops[t][i] \in OpsOf(t)
    <3>1. DOMAIN ops[t] = 1 .. n
      BY <1>6, LenProperties
    <3>2. QED
      BY <1>1, <3>1 DEF KeepIndInv, TurnsSpeak, TurnSpeaks
  <2>2. /\ n \in Nat /\ DOMAIN y = 1 .. n + 2 /\ (\A i \in 1 .. n : y[i] = ops[t][i])
        /\ \A i \in 1 .. 2 : y[n + i] = ls[i]
    BY <1>4, <1>6, <1>9, LenProperties DEF Behind
  <2> HIDE DEF n
  <2>3. y[n + 1] = Line(a) /\ y[n + 2] = Line(b)
    BY <1>4, <2>2
  <2>4. \A i \in 1 .. n + 2 : i \in 1 .. n \/ i = n + 1 \/ i = n + 2
    BY <2>2
  <2>5. QED
    BY <1>5, <2>1, <2>2, <2>3, <2>4
<1>16. Full(t)' = f \o ms
  BY <1>7, <1>10, <1>13 DEF Full
<1>17. TurnSpeaks(t)'
  <2>1. TurnSpeaks(t)
    BY <1>1 DEF KeepIndInv, TurnsSpeak
  <2>2. Lines(id[on[t]])' = Lines(id[on[t]])
    BY <1>7 DEF Lines, Exists
  <2>3. OpsOf(t)' = OpsOf(t)
    BY DEF OpsOf
  <2>4. QED
    BY <1>7, <1>11, <1>13, <1>15, <1>16, <2>1, <2>2 DEF TurnSpeaks
<1>18. QED
  BY <1>1, <1>12, <1>14, <1>17, MoreToSpeak

\* A turn that compacts its copy: a cut of the copy is a cut of the history.
LEMMA TurnCompactsKeepsAll ==
    ASSUME StoreIndInv, KeepIndInv, NEW t \in Turn, TurnCompacts(t)
    PROVE  KeepIndInv'
<1> DEFINE h == history[on[t]]
           x == Heard(ops[t])
           f == h \o x
           e == Marker("compaction")
<1>1. /\ turn[t] = "prompted"
      /\ \E msgs \in Compactions(scratch[t]) : scratch' = [scratch EXCEPT ![t] = msgs]
      /\ ops' = [ops EXCEPT ![t] = Append(ops[t], e)] \/ ops' = ops
      /\ UNCHANGED <<storeVars, managerVars, objectVars, lock, turn, on, callVars, historyVars>>
  BY DEF TurnCompacts
<1>2. SpeaksOn(t, on[t], id[on[t]])
  BY <1>1, PromptedSpeaks
<1>3. /\ h \in Seq(Message) /\ x \in Seq(Message) /\ ops[t] \in Seq(Entry) /\ Len(h) >= 1
      /\ (scratch[t] = f \/ \E k \in 1 .. Len(f) : scratch[t] = Compacted(f, k))
      /\ TurnSpeaks(t)
  BY <1>1, <1>2 DEF SpeaksOn, WorksOn, SpeaksFor, KeepIndInv, TurnsSpeak
<1>4. UNCHANGED <<disk, loaded, id, history, on, shortened, gone>>
  BY <1>1 DEF storeVars, managerVars, objectVars, historyVars
<1>5. f \in Seq(Message) /\ Len(f) >= 1
  <2>1. f \in Seq(Message) /\ Len(f) = Len(h) + Len(x)
    BY <1>3, ConcatProperties
  <2>2. Len(x) \in Nat /\ Len(h) \in Nat
    BY <1>3, LenProperties
  <2> HIDE DEF f, h, x
  <2>3. QED
    BY <1>3, <2>1, <2>2
<1> HIDE DEF f
<1>6. PICK z \in Compactions(scratch[t]) : scratch' = [scratch EXCEPT ![t] = z]
  BY <1>1
<1>7. z \in Seq(Message) /\ \E k \in 1 .. Len(f) : z = Compacted(f, k)
  <2>1. scratch[t] # <<>> /\ scratch[t] \in Seq(Message)
    <3>1. CASE scratch[t] = f
      BY <1>5, <3>1
    <3>2. CASE \E k \in 1 .. Len(f) : scratch[t] = Compacted(f, k)
      <4>1. PICK k \in 1 .. Len(f) : scratch[t] = Compacted(f, k)
        BY <3>2
      <4>2. CutAt(f, k, scratch[t])
        BY <1>5, <4>1, CompactedIs
      <4>3. scratch[t] \in Seq(Message) /\ Len(scratch[t]) >= 1
        BY <1>5, <4>2 DEF CutAt
      <4>4. QED
        BY <4>3
    <3>3. QED
      BY <1>3, <3>1, <3>2
  <2>2. PICK cut \in Cuts(scratch[t]) : z = Compacted(scratch[t], cut)
    BY <1>6, <2>1 DEF Compactions
  <2>3. cut \in 1 .. Len(scratch[t])
    BY <2>1, LenProperties DEF Cuts
  <2>4. \E k \in 1 .. Len(f) : z = Compacted(f, k)
    <3>1. CASE scratch[t] = f
      BY <2>2, <2>3, <3>1
    <3>2. CASE \E k \in 1 .. Len(f) : scratch[t] = Compacted(f, k)
      <4>1. PICK k \in 1 .. Len(f) : scratch[t] = Compacted(f, k)
        BY <3>2
      <4>2. CutAt(f, k, scratch[t])
        BY <1>5, <4>1, CompactedIs
      <4>3. cut \in 1 .. Len(f) - k + 1
        BY <2>3, <4>2 DEF CutAt
      <4>4. /\ k + cut - 1 \in 1 .. Len(f)
            /\ Compacted(Compacted(f, k), cut) = Compacted(f, k + cut - 1)
        BY <1>5, <4>3, CutOfCut
      <4>5. QED
        BY <2>2, <4>1, <4>4
    <3>3. QED
      BY <1>3, <3>1, <3>2
  <2>5. QED
    BY <1>5, <2>4, CompactedIs DEF CutAt
<1>8. \A i \in DOMAIN ops[t] : ops[t][i] \in OpsOf(t)
  BY <1>3 DEF TurnSpeaks
<1>9. \E y \in Seq(Entry) : /\ ops' = [ops EXCEPT ![t] = y] /\ Heard(y) = x
                            /\ \A i \in DOMAIN y : y[i] \in OpsOf(t)
  <2>1. CASE ops' = ops
    <3>1. ops' = [ops EXCEPT ![t] = ops[t]]
      BY <2>1 DEF KeepIndInv, DataTypes
    <3>2. QED
      BY <1>3, <1>8, <3>1
  <2>2. CASE ops' = [ops EXCEPT ![t] = Append(ops[t], e)]
    <3> DEFINE n == Len(ops[t])
               y == Append(ops[t], e)
    <3>1. e \in Entry /\ e \in OpsOf(t) /\ SpokenIn(e) = <<>>
      BY EntryFacts DEF OpsOf
    <3>2. y \in Seq(Entry) /\ Heard(y) = Joined(x, <<>>)
      BY <1>3, <3>1, HeardAppend
    <3>3. Joined(x, <<>>) = x
      BY <1>3, ConcatEmptySeq, Empty, JoinedFacts
    <3>4. Len(y) = n + 1 /\ (\A i \in 1 .. n : y[i] = ops[t][i]) /\ y[n + 1] = e
      BY <1>3, <3>1, AppendIs
    <3>5. n \in Nat /\ DOMAIN y = 1 .. Len(y) /\ DOMAIN ops[t] = 1 .. n
      BY <1>3, <3>2, LenProperties
    <3> HIDE DEF y, n, e, x
    <3>6. \A i \in DOMAIN y : i \in 1 .. n \/ i = n + 1
      BY <3>4, <3>5
    <3>7. \A i \in DOMAIN y : y[i] \in OpsOf(t)
      BY <1>8, <3>1, <3>4, <3>5, <3>6
    <3>8. QED
      BY <2>2, <3>2, <3>3, <3>7 DEF y
  <2>3. QED
    BY <1>1, <2>1, <2>2
<1>10. PICK y \in Seq(Entry) : /\ ops' = [ops EXCEPT ![t] = y] /\ Heard(y) = x
                               /\ \A i \in DOMAIN y : y[i] \in OpsOf(t)
  BY <1>9
<1>11. \A u \in Turn \ {t} : ops'[u] = ops[u] /\ scratch'[u] = scratch[u]
  BY <1>6, <1>10 DEF KeepIndInv, DataTypes
<1>12. ops'[t] = y /\ scratch'[t] = z
  BY <1>6, <1>10 DEF KeepIndInv, DataTypes
<1>13. DataTypes'
  <2>1. scratch' \in [Turn -> Seq(Message)] /\ ops' \in [Turn -> Seq(Entry)]
    BY <1>6, <1>7, <1>10 DEF KeepIndInv, DataTypes
  <2>2. QED
    BY <1>1, <1>4, <2>1 DEF KeepIndInv, DataTypes, Lines, Exists
<1>14. Full(t)' = f
  BY <1>4, <1>10, <1>12 DEF Full, f
<1>15. TurnSpeaks(t)'
  <2>1. Lines(id[on[t]])' = Lines(id[on[t]]) /\ OpsOf(t)' = OpsOf(t)
    BY <1>4 DEF Lines, Exists, OpsOf
  <2>2. QED
    BY <1>3, <1>4, <1>7, <1>10, <1>12, <1>14, <2>1 DEF TurnSpeaks
<1>16. QED
  BY <1>1, <1>11, <1>13, <1>15, MoreToSpeak

\* A task that lets go leaves the other locks.
LEMMA LetGoKeepsLocks ==
    ASSUME StoreIndInv, KeepIndInv, NEW t \in Turn, turn[t] \in Live,
           NEW outcome \in {"done", "stopped"}, LetGo(t, outcome), UNCHANGED callVars
    PROVE  /\ LocksHeld' /\ on' = on /\ scratch' = [scratch EXCEPT ![t] = <<>>]
           /\ ops' = [ops EXCEPT ![t] = <<>>]
           /\ lock' \in [Object -> Turn \cup Call \cup {Nobody}]
           /\ scratch' \in [Turn -> Seq(Message)] /\ ops' \in [Turn -> Seq(Entry)]
           /\ turn'[t] = outcome /\ (\A u \in Turn \ {t} : turn'[u] = turn[u])
           /\ turn[t] \in {"prompted", "committed"} \/ outcome = "stopped" => Forward
<1>1. /\ turn' = [turn EXCEPT ![t] = outcome]
      /\ lock' = [lock EXCEPT ![on[t]] = IF lock[on[t]] = t THEN Nobody ELSE lock[on[t]]]
      /\ scratch' = [scratch EXCEPT ![t] = <<>>]
      /\ ops' = [ops EXCEPT ![t] = <<>>]
      /\ UNCHANGED <<on, call, at>>
  BY DEF LetGo, callVars
<1>2. WorksOn(t, on[t], id[on[t]])
  BY TurnWorks
<1>3. turn'[t] = outcome /\ \A u \in Turn \ {t} : turn'[u] = turn[u]
  BY <1>1 DEF StoreIndInv, PlaceTypes
<1>4. on[t] \in Object /\ lock \in [Object -> Turn \cup Call \cup {Nobody}]
  BY <1>2 DEF WorksOn, KeepIndInv, DataTypes
<1>5. /\ lock' \in [Object -> Turn \cup Call \cup {Nobody}]
      /\ scratch' \in [Turn -> Seq(Message)] /\ ops' \in [Turn -> Seq(Entry)]
  BY <1>1, <1>4, Empty DEF KeepIndInv, DataTypes
<1>6. LocksHeld'
  <2>1. ASSUME NEW u \in Turn, turn'[u] \in {"locked", "prompted", "committed"} PROVE lock'[on'[u]] = u
    <3>1. u # t /\ turn[u] \in {"locked", "prompted", "committed"}
      BY <1>3, <2>1
    <3>2. on[u] \in Object
      BY <3>1, PromptedIsListed DEF Live
    <3>3. on[u] # on[t] /\ lock[on[u]] = u
      BY <1>2, <3>1 DEF WorksOn, Live, KeepIndInv, LocksHeld
    <3>4. QED
      BY <1>1, <1>4, <3>2, <3>3
  <2>2. ASSUME NEW k \in Call, call'[k] = "running" PROVE lock'[at'[k]] = k
    <3>1. lock[at[k]] = k /\ at[k] \in Object
      BY <1>1, <2>2 DEF KeepIndInv, LocksHeld, StoreIndInv, CallsAtWork
    <3>2. k # t
      BY NamesAreDistinct
    <3>3. QED
      BY <1>1, <1>4, <3>1, <3>2
  <2>3. ASSUME NEW u \in Turn, turn'[u] \in {"unsent", "sent", "locked"} PROVE ops'[u] = <<>>
    BY <1>1, <1>3, <2>3 DEF KeepIndInv, LocksHeld
  <2>4. QED
    BY <2>1, <2>2, <2>3 DEF LocksHeld
<1>7. turn[t] \in {"prompted", "committed"} \/ outcome = "stopped" => Forward
  BY <1>3 DEF Forward
<1>8. QED
  BY <1>1, <1>3, <1>5, <1>6, <1>7

LEMMA TurnStopsKeepsAll ==
    ASSUME StoreIndInv, KeepIndInv, NEW t \in Turn, TurnStops(t)
    PROVE  KeepIndInv'
<1>1. /\ turn[t] \in Live /\ LetGo(t, "stopped") /\ UNCHANGED callVars
      /\ UNCHANGED <<disk, loaded, id, history, shortened, gone>>
  BY DEF TurnStops, storeVars, managerVars, objectVars, historyVars
<1>2. /\ LocksHeld' /\ on' = on /\ scratch' = [scratch EXCEPT ![t] = <<>>]
      /\ ops' = [ops EXCEPT ![t] = <<>>]
      /\ lock' \in [Object -> Turn \cup Call \cup {Nobody}]
      /\ scratch' \in [Turn -> Seq(Message)] /\ ops' \in [Turn -> Seq(Entry)]
      /\ turn'[t] = "stopped" /\ (\A u \in Turn \ {t} : turn'[u] = turn[u])
      /\ Forward
  BY <1>1, LetGoKeepsLocks
<1>3. \A q \in Session : Lines(q)' = Lines(q)
  BY <1>1 DEF Lines, Exists
<1>4. DataTypes'
  BY <1>1, <1>2, <1>3 DEF KeepIndInv, DataTypes
<1>5. \A u \in Turn : turn'[u] = "prompted" => TurnSpeaks(u)'
  <2> SUFFICES ASSUME NEW u \in Turn, turn'[u] = "prompted" PROVE TurnSpeaks(u)'
    OBVIOUS
  <2>1. u # t /\ turn[u] = "prompted"
    BY <1>2
  <2>2. TurnSpeaks(u) /\ ops'[u] = ops[u] /\ scratch'[u] = scratch[u]
    BY <1>2, <2>1 DEF KeepIndInv, TurnsSpeak
  <2>3. QED
    BY <1>1, <1>2, <2>2 DEF TurnSpeaks, Full, Lines, Exists
<1>6. StaysPut
  BY <1>1, <1>2, <1>3, <1>5 DEF StaysPut
<1>7. QED
  BY <1>2, <1>4, <1>6, StayKeeps

\* A line that is no message.
LEMMA QuietLine ==
    ASSUME NEW x \in {"session", "compaction", "activity", "torn"}
    PROVE  /\ <<Marker(x)>> \in Seq(Entry) /\ <<Marker(x)>> # <<>> /\ ClosedLines(<<Marker(x)>>)
           /\ Heard(<<Marker(x)>>) = <<>> /\ Last(<<Marker(x)>>).type = x
           /\ \A m \in Message : ~Contains(<<Marker(x)>>, Line(m))
<1> DEFINE e == <<Marker(x)>>
<1>1. /\ Marker(x) \in Entry /\ Marker(x).type = x /\ SpokenIn(Marker(x)) = <<>>
      /\ \A m \in Message : Line(m).type = "message"
  BY EntryFacts
<1>2. e \in Seq(Entry) /\ e # <<>> /\ Len(e) = 1 /\ DOMAIN e = 1 .. 1 /\ e[1] = Marker(x)
  BY <1>1
<1>3. Heard(e) = <<>>
  BY <1>1, HeardOne
<1> HIDE DEF e
<1>4. \A i \in DOMAIN e : e[i].type = x
  BY <1>1, <1>2
<1>5. ClosedLines(e) /\ \A m \in Message : ~Contains(e, Line(m))
  BY <1>1, <1>2, <1>4 DEF ClosedLines, Contains
<1>6. Last(e).type = x
  BY <1>1, <1>2 DEF Last
<1>7. QED
  BY <1>2, <1>3, <1>5, <1>6 DEF e

\* A file gets a line that is no message, and the memory stays.
LEMMA QuietWriteKeeps ==
    ASSUME StoreIndInv, KeepIndInv, NEW o \in Object, NEW s \in Session, id[o] = s,
           NEW x \in {"session", "compaction", "activity", "torn"},
           disk' = Written(s, Appended(o, <<Marker(x)>>))
    PROVE  /\ AppendOf(Lines(s), <<Marker(x)>>, Lines(s)')
           /\ \A q \in Session \ {s} : Lines(q)' = Lines(q)
           /\ \A q \in Session : Lines(q)' \in Seq(Entry)
           /\ \A m \in Message : Contains(Lines(s)', Line(m)) <=> Contains(Lines(s), Line(m))
           /\ ~Torn(Lines(s)') => ~Torn(Lines(s)) /\ Heard(Lines(s)') = Heard(Lines(s))
<1>1. /\ <<Marker(x)>> \in Seq(Entry) /\ <<Marker(x)>> # <<>> /\ ClosedLines(<<Marker(x)>>)
      /\ Heard(<<Marker(x)>>) = <<>>
      /\ \A m \in Message : ~Contains(<<Marker(x)>>, Line(m))
  BY QuietLine
<1>2. Lines(s) \in Seq(Entry) /\ ClosedLines(Lines(s)) /\ \A q \in Session : Lines(q) \in Seq(Entry)
  BY DEF KeepIndInv, DataTypes, LinesInOrder
<1>3. Follows(Lines(s), <<Marker(x)>>)
  BY <1>1 DEF Follows
<1>4. AppendOf(Lines(s), <<Marker(x)>>, Appended(o, <<Marker(x)>>))
  BY <1>1, <1>2, <1>3, AppendedFacts
<1>5. Lines(s)' = Appended(o, <<Marker(x)>>) /\ \A q \in Session \ {s} : Lines(q)' = Lines(q)
  BY WrittenLines
<1>6. Heard(Lines(s)) \in Seq(Message)
  BY <1>2, LoadType
<1> DEFINE r == Appended(o, <<Marker(x)>>)
<1> HIDE DEF r
<1>7. ~Torn(r) => ~Torn(Lines(s)) /\ Heard(r) = Heard(Lines(s))
  BY <1>1, <1>4, <1>6, JoinedFacts DEF AppendOf, r
<1>8. \A m \in Message : Contains(r, Line(m)) <=> Contains(Lines(s), Line(m))
  BY <1>1, <1>4 DEF AppendOf, r
<1>9. r \in Seq(Entry) /\ Lines(s)' = r
  BY <1>4, <1>5 DEF AppendOf, r
<1>10. QED
  BY <1>2, <1>4, <1>5, <1>7, <1>8, <1>9

LEMMA TurnEndsKeepsAll ==
    ASSUME StoreIndInv, KeepIndInv, NEW t \in Turn, NEW o \in Object, NEW s \in Session,
           o = on[t], s = id[o], TurnEnds(t)
    PROVE  KeepIndInv'
<1>1. /\ turn[t] = "committed" /\ LetGo(t, "done") /\ UNCHANGED callVars
      /\ disk' = Written(s, Appended(o, <<Marker("activity")>>))
      /\ UNCHANGED <<loaded, id, history, shortened, gone>>
  BY DEF TurnEnds, historyVars
<1>2. WorksOn(t, o, s) /\ turn[t] \in Live
  <2>1. turn[t] \in Live /\ WorksOn(t, on[t], id[on[t]])
    BY <1>1, TurnWorks DEF Live
  <2>2. QED
    BY <2>1
<1>3. /\ LocksHeld' /\ on' = on /\ scratch' = [scratch EXCEPT ![t] = <<>>]
      /\ ops' = [ops EXCEPT ![t] = <<>>]
      /\ lock' \in [Object -> Turn \cup Call \cup {Nobody}]
      /\ scratch' \in [Turn -> Seq(Message)] /\ ops' \in [Turn -> Seq(Entry)]
      /\ turn'[t] = "done" /\ (\A u \in Turn \ {t} : turn'[u] = turn[u])
      /\ Forward
  BY <1>1, <1>2, LetGoKeepsLocks
<1>4. /\ AppendOf(Lines(s), <<Marker("activity")>>, Lines(s)')
      /\ \A q \in Session \ {s} : Lines(q)' = Lines(q)
      /\ \A q \in Session : Lines(q)' \in Seq(Entry)
      /\ \A m \in Message : Contains(Lines(s)', Line(m)) <=> Contains(Lines(s), Line(m))
      /\ ~Torn(Lines(s)') => ~Torn(Lines(s)) /\ Heard(Lines(s)') = Heard(Lines(s))
  BY <1>1, QuietWriteKeeps
<1>5. \A u \in Turn : Reply(u) \in Message
  BY SummaryFacts
<1>6. DataTypes'
  BY <1>1, <1>3, <1>4 DEF KeepIndInv, DataTypes
<1>7. \A w \in Message : Uttered(w) => Uttered(w)'
  BY <1>3, UtteredStays
<1>8. Touches(s)
  BY <1>1, <1>3, <1>4 DEF Touches
<1>9. FileKept(s)
  <2>1. ClosedLines(Lines(s)')
    BY <1>4 DEF AppendOf
  <2>2. \A m \in Message : Contains(Lines(s)', Line(m)) => Uttered(m)'
    BY <1>2, <1>4, <1>7 DEF WorksOn
  <2>3. \A u \in Turn : Contains(Lines(s), Line(Reply(u))) => Contains(Lines(s)', Line(Reply(u)))
    BY <1>4, <1>5
  <2>4. \A u \in Turn : turn'[u] \in {"committed", "done"} => turn[u] \in {"committed", "done"}
    BY <1>1, <1>3
  <2>5. QED
    BY <2>1, <2>2, <2>3, <2>4 DEF FileKept
<1>10. MemoryKept(s)
  BY <1>1, <1>7 DEF MemoryKept, KeepIndInv, MessagesInOrder
<1>11. BothKept(s)
  <2>1. loaded'[s] = o /\ history'[o] = history[o]
    BY <1>1, <1>2 DEF WorksOn
  <2>2. \A u \in Turn : Contains(Lines(s)', Line(Reply(u))) => u \in gone' \/ Contains(history[o], Reply(u))
    BY <1>1, <1>2, <1>4, <1>5 DEF WorksOn
  <2>3. o \in shortened' \/ Torn(Lines(s)') \/ Heard(Lines(s)') = Said(history[o])
    BY <1>1, <1>2, <1>4 DEF WorksOn
  <2>4. QED
    BY <2>1, <2>2, <2>3 DEF BothKept
<1>12. TurnsKept(s)
  <2> SUFFICES ASSUME NEW u \in Turn, turn'[u] = "prompted", turn[u] # "prompted" \/ id[on[u]] = s
               PROVE  FALSE
    BY DEF TurnsKept
  <2>1. u # t /\ turn[u] = "prompted"
    BY <1>3
  <2>2. QED
    BY <1>2, <2>1 DEF WorksOn, Live
<1>13. QED
  BY <1>3, <1>6, <1>8, <1>9, <1>10, <1>11, <1>12, TouchedKeeps

--------------------------------------------------------------------------------
(* A turn commits.                                                                 *)

\* What the transcript of a committing turn gets: the lines of its tool rounds and the answer.
LEMMA CommitLines ==
    ASSUME NEW t \in Turn, NEW ls \in Seq(Entry), ClosedLines(ls),
           \A m \in Message : Contains(ls, Line(m)) => m.by = t /\ m.kind # "reply"
    PROVE  LET es == Append(ls, Line(Reply(t)))
           IN  /\ es \in Seq(Entry) /\ es # <<>> /\ ClosedLines(es) /\ Last(es).type # "torn"
               /\ Heard(es) = Joined(Heard(ls), <<Reply(t)>>)
               /\ \A m \in Message : Contains(es, Line(m)) => m.by = t
               /\ Contains(es, Line(Reply(t)))
               /\ Contains(es, Marker("compaction")) <=> Contains(ls, Marker("compaction"))
<1> DEFINE a == Reply(t)
           e == Line(a)
           es == Append(ls, e)
           n == Len(ls)
<1>1. a \in Message /\ a.kind = "reply" /\ a.by = t
  BY SummaryFacts
<1>2. /\ e \in Entry /\ e.type = "message" /\ e.msg = a /\ SpokenIn(e) = <<a>>
      /\ \A m \in Message : Line(m) = e => m = a
      /\ Marker("compaction").type = "compaction"
      /\ \A m \in Message : Line(m).type = "message" /\ Line(m).msg = m
      /\ \A l \in Entry : l.type = "message" => l = Line(l.msg) /\ l.msg \in Message
  BY <1>1, EntryFacts DEF Spoken
<1>3. /\ es \in Seq(Entry) /\ Len(es) = n + 1 /\ (\A i \in 1 .. n : es[i] = ls[i]) /\ es[n + 1] = e
      /\ Heard(es) = Joined(Heard(ls), <<a>>)
  <2>1. e \in Entry /\ SpokenIn(e) = <<a>>
    BY <1>2
  <2> HIDE DEF e, a
  <2>2. Heard(es) = Joined(Heard(ls), <<a>>)
    BY <2>1, HeardAppend
  <2>3. es \in Seq(Entry) /\ Len(es) = n + 1 /\ (\A i \in 1 .. n : es[i] = ls[i]) /\ es[n + 1] = e
    BY <2>1, AppendIs
  <2>4. QED
    BY <2>2, <2>3
<1>4. n \in Nat /\ DOMAIN ls = 1 .. n /\ DOMAIN es = 1 .. n + 1 /\ \A i \in 1 .. n : ls[i] \in Entry
  BY <1>3, LenProperties, ElementOfSeq
<1> HIDE DEF es, n, e, a
<1>5. \A i \in 1 .. n + 1 : i \in 1 .. n \/ i = n + 1
  BY <1>4
<1>6. \A l : Contains(es, l) <=> Contains(ls, l) \/ l = e
  <2> SUFFICES ASSUME NEW l PROVE (\E i \in 1 .. n + 1 : es[i] = l) <=> (\E i \in 1 .. n : ls[i] = l) \/ l = e
    BY <1>3, <1>4 DEF Contains, n
  <2>1. n + 1 \in 1 .. n + 1 /\ 1 .. n \subseteq 1 .. n + 1
    BY <1>4
  <2>2. QED
    BY <1>3, <1>5, <2>1
<1>7. ClosedLines(es)
  <2> SUFFICES ASSUME NEW i \in 1 .. n + 1, NEW j \in 1 .. n + 1, i < j, es[i].type = "message",
                      es[j].type = "message", es[i].msg.kind = "reply"
               PROVE  es[j].msg.by # es[i].msg.by
    BY <1>4 DEF ClosedLines
  <2>1. i \in 1 .. n
    BY <1>4
  <2>2. es[i] = ls[i] /\ ls[i] \in Entry
    BY <1>3, <1>4, <2>1
  <2>3. es[i].msg \in Message /\ Contains(ls, Line(es[i].msg))
    BY <1>2, <1>4, <2>1, <2>2 DEF Contains, n
  <2>4. QED
    BY <2>3
<1>8. es # <<>> /\ Last(es) = e
  BY <1>3, <1>4 DEF Last
<1>9. QED
  BY <1>1, <1>2, <1>3, <1>6, <1>7, <1>8 DEF es, e, a

LEMMA DroppedAre ==
    ASSUME NEW h \in Seq(Message), NEW msgs
    PROVE  Dropped(h, msgs) \ {NoTurn} \subseteq Turn
<1>1. \A i \in DOMAIN h : h[i].by \in Turn \cup {NoTurn}
  <2>1. \A i \in DOMAIN h : h[i] \in Message
    BY ElementOfSeq, LenProperties
  <2>2. QED
    BY <2>1, SummaryFacts
<1>2. QED
  BY <1>1 DEF Dropped

\* What a commit makes of the file, and of the memory beside it.
Committed(t, o, s, msgs, r) ==
    /\ r \in Seq(Entry) /\ ClosedLines(r)
    /\ \A m \in Message : Contains(r, Line(m)) =>
           Contains(Lines(s), Line(m)) \/ Contains(msgs, m) \/ m.by = t
    /\ \A u \in Turn : Contains(Lines(s), Line(Reply(u))) =>
           u \in gone' \/ Contains(r, Line(Reply(u)))
    /\ Contains(r, Line(Reply(t)))
    /\ \A u \in Turn : Contains(r, Line(Reply(u))) => u \in gone' \/ Contains(msgs, Reply(u))
    /\ o \in shortened' \/ Torn(r) \/ Heard(r) = Said(msgs)

LEMMA CommitWrites ==
    ASSUME StoreIndInv, KeepIndInv, NEW t \in Turn, NEW o \in Object, NEW s \in Session,
           o = on[t], s = id[o], TurnCommits(t), NEW msgs, msgs = Append(scratch[t], Reply(t))
    PROVE  /\ AnswerOf(history[o], t, scratch[t], msgs)
           /\ \E r : disk' = Written(s, r) /\ Committed(t, o, s, msgs, r)
<1> DEFINE h == history[o]
           x == Heard(ops[t])
           es == Append(ops[t], Line(Reply(t)))
<1>1. /\ turn[t] = "prompted"
      /\ disk' = Written(s, IF Contains(es, Marker("compaction")) THEN Rotated(msgs)
                                                                  ELSE Appended(o, es))
      /\ gone' = gone \cup (Dropped(h, msgs) \ {NoTurn})
      /\ shortened' = IF Contains(ops[t], Marker("compaction")) THEN shortened \ {o}
                       ELSE IF IsPrefix(h, msgs) THEN shortened
                       ELSE shortened \cup {o}
  BY DEF TurnCommits, WriteTurn, Reply
<1>2. SpeaksOn(t, o, s)
  BY <1>1, PromptedSpeaks
<1>3. /\ h \in Seq(Message) /\ Closed(h) /\ SpeaksFor(t, x) /\ ~Contains(h, Reply(t))
      /\ (scratch[t] = h \o x \/ \E k \in 1 .. Len(h \o x) : scratch[t] = Compacted(h \o x, k))
      /\ ops[t] \in Seq(Entry) /\ ClosedLines(ops[t])
      /\ \A m \in Message : Contains(ops[t], Line(m)) => m.by = t /\ m.kind # "reply"
  BY <1>2 DEF SpeaksOn, WorksOn
<1>4. AnswerOf(h, t, scratch[t], msgs)
  BY <1>3, AnswerFacts
<1>5. /\ es \in Seq(Entry) /\ es # <<>> /\ ClosedLines(es) /\ Last(es).type # "torn"
      /\ Heard(es) = Joined(x, <<Reply(t)>>)
      /\ (\A m \in Message : Contains(es, Line(m)) => m.by = t)
      /\ Contains(es, Line(Reply(t)))
      /\ Contains(es, Marker("compaction")) <=> Contains(ops[t], Marker("compaction"))
  BY <1>3, CommitLines
<1>6. \A u \in Turn : /\ Reply(u) \in Message /\ Reply(u).kind = "reply" /\ Reply(u).by = u
                      /\ u # NoTurn
  BY SummaryFacts
<1>7. \A u \in Turn : Contains(h, Reply(u)) => u \in gone' \/ Contains(msgs, Reply(u))
  BY <1>1, <1>4, <1>6 DEF AnswerOf
<1>8. \A u \in Turn : Contains(Lines(s), Line(Reply(u))) => u \in gone' \/ Contains(msgs, Reply(u))
  BY <1>1, <1>2, <1>7 DEF SpeaksOn, WorksOn
<1> HIDE DEF h, x, es
<1>9. CASE Contains(es, Marker("compaction"))
  <2> DEFINE r == Rotated(msgs)
  <2>1. RotatedOf(msgs, r)
    BY <1>4, RotatedFacts DEF AnswerOf
  <2> HIDE DEF r
  <2>2. \A u \in Turn : Contains(msgs, Reply(u)) => Contains(r, Line(Reply(u)))
    BY <2>1 DEF RotatedOf
  <2>3. \A u \in Turn : Contains(r, Line(Reply(u))) => Contains(msgs, Reply(u))
    BY <1>6, <2>1 DEF RotatedOf
  <2>4. Contains(r, Line(Reply(t)))
    BY <1>4, <2>2 DEF AnswerOf
  <2>5. Committed(t, o, s, msgs, r)
    BY <1>8, <2>1, <2>2, <2>3, <2>4 DEF Committed, RotatedOf
  <2>6. QED
    BY <1>1, <1>4, <1>9, <2>5 DEF r, h
<1>10. CASE ~Contains(es, Marker("compaction"))
  <2> DEFINE r == Appended(o, es)
  <2>1. /\ Lines(s) \in Seq(Entry) /\ ClosedLines(Lines(s)) /\ NotTorn(Lines(s))
        /\ \A m \in Message : Contains(Lines(s), Line(m)) /\ m.kind = "reply" => m.by # t
        /\ o \in shortened \/ Torn(Lines(s)) \/ Heard(Lines(s)) = Said(h)
    BY <1>2 DEF SpeaksOn, WorksOn, h
  <2>2. Follows(Lines(s), es)
    BY <1>5, <2>1 DEF Follows
  <2>3. AppendOf(Lines(s), es, r)
    BY <1>5, <2>1, <2>2, AppendedFacts
  <2> HIDE DEF r
  <2>4. /\ \A m \in Message : Contains(r, Line(m)) => Contains(Lines(s), Line(m)) \/ m.by = t
        /\ \A u \in Turn : Contains(Lines(s), Line(Reply(u))) => Contains(r, Line(Reply(u)))
        /\ Contains(r, Line(Reply(t)))
    BY <1>5, <1>6, <2>1, <2>3 DEF AppendOf
  <2>5. \A u \in Turn : Contains(r, Line(Reply(u))) => u \in gone' \/ Contains(msgs, Reply(u))
    <3> SUFFICES ASSUME NEW u \in Turn, Contains(r, Line(Reply(u)))
                 PROVE  u \in gone' \/ Contains(msgs, Reply(u))
      OBVIOUS
    <3>1. CASE Contains(Lines(s), Line(Reply(u)))
      BY <1>8, <3>1
    <3>2. CASE ~Contains(Lines(s), Line(Reply(u)))
      <4>1. u = t
        BY <1>6, <2>4, <3>2
      <4>2. QED
        BY <1>4, <4>1 DEF AnswerOf
    <3>3. QED
      BY <3>1, <3>2
  <2>6. o \in shortened' \/ Torn(r) \/ Heard(r) = Said(msgs)
    <3> SUFFICES ASSUME o \notin shortened', ~Torn(r) PROVE Heard(r) = Said(msgs)
      OBVIOUS
    <3>1. o \notin shortened /\ IsPrefix(h, msgs)
      BY <1>1, <1>5, <1>10
    <3>2. ~Torn(Lines(s)) /\ Heard(r) = Joined(Heard(Lines(s)), Heard(es))
      BY <2>3 DEF AppendOf
    <3>3. Heard(Lines(s)) = Said(h)
      BY <2>1, <3>1, <3>2
    <3>4. scratch[t] = h \o x
      <4>1. CASE \E k \in 1 .. Len(h \o x) : scratch[t] = Compacted(h \o x, k)
        <5>1. PICK k \in 1 .. Len(h \o x) : scratch[t] = Compacted(h \o x, k)
          BY <4>1
        <5>2. /\ Len(h) >= 1 /\ h[Len(h)] = Msg("prompt", t)
              /\ \A i \in 1 .. Len(h) - 1 : h[i].by # t
          BY <1>2 DEF SpeaksOn, h
        <5>3. IsPrefix(h, Append(Compacted(h \o x, k), Reply(t)))
          BY <3>1, <5>1
        <5>4. Compacted(h \o x, k) = h \o x
          BY <1>3, <5>2, <5>3, PrefixIsFull
        <5>5. QED
          BY <5>1, <5>4
      <4>2. QED
        BY <1>3, <4>1
    <3>5. Said(scratch[t]) = Joined(Said(h), x)
      <4>1. FullOf(h, x, h \o x)
        BY <1>3, FullFacts
      <4>2. QED
        BY <3>4, <4>1 DEF FullOf
    <3>6. Said(msgs) = Joined(Joined(Said(h), x), <<Reply(t)>>)
      BY <1>4, <3>5 DEF AnswerOf
    <3>7. /\ Said(h) \in Seq(Message) /\ x \in Seq(Message) /\ <<Reply(t)>> \in Seq(Message)
      BY <1>3, <1>6, SaidType DEF SpeaksFor
    <3>8. Joined(Joined(Said(h), x), <<Reply(t)>>) = Joined(Said(h), Joined(x, <<Reply(t)>>))
      BY <3>7, JoinedFacts, ZenonT(60)
    <3>9. QED
      BY <1>5, <3>2, <3>3, <3>6, <3>8
  <2>7. Committed(t, o, s, msgs, r)
    BY <2>3, <2>4, <2>5, <2>6 DEF Committed, AppendOf
  <2>8. QED
    BY <1>1, <1>4, <1>10, <2>7 DEF r, h
<1>11. QED
  BY <1>9, <1>10

LEMMA TurnCommitsKeepsAll ==
    ASSUME StoreIndInv, KeepIndInv, NEW t \in Turn, NEW o \in Object, NEW s \in Session,
           o = on[t], s = id[o], TurnCommits(t)
    PROVE  KeepIndInv'
<1>1. PICK msgs : msgs = Append(scratch[t], Reply(t))
  OBVIOUS
<1>2. /\ turn[t] = "prompted" /\ turn' = [turn EXCEPT ![t] = "committed"]
      /\ history' = [history EXCEPT ![o] = msgs]
      /\ gone' = gone \cup (Dropped(history[o], msgs) \ {NoTurn})
      /\ shortened' \in {shortened, shortened \cup {o}, shortened \ {o}}
      /\ UNCHANGED <<loaded, id, lock, on, scratch, ops, call, at>>
  BY <1>1 DEF TurnCommits, Reply, managerVars, callVars
<1>3. AnswerOf(history[o], t, scratch[t], msgs)
  BY <1>1, CommitWrites
<1>4. PICK r : disk' = Written(s, r) /\ Committed(t, o, s, msgs, r)
  BY <1>1, CommitWrites
<1>5. SpeaksOn(t, o, s) /\ WorksOn(t, o, s)
  <2>1. SpeaksOn(t, on[t], id[on[t]])
    BY <1>2, PromptedSpeaks
  <2>2. QED
    BY <2>1 DEF SpeaksOn
<1>6. /\ loaded[s] = o /\ history[o] \in Seq(Message)
      /\ (\A m \in Message : Contains(Lines(s), Line(m)) => Uttered(m))
      /\ (\A m \in Message : Contains(history[o], m) => Uttered(m))
      /\ \A u \in Turn : turn[u] \in Live /\ (on[u] = o \/ id[on[u]] = s) => u = t
  BY <1>5 DEF WorksOn
<1>7. Lines(s)' = r /\ \A q \in Session \ {s} : Lines(q)' = Lines(q)
  BY <1>4, WrittenLines
<1>8. history'[o] = msgs /\ \A p \in Object \ {o} : history'[p] = history[p]
  BY <1>2 DEF KeepIndInv, DataTypes
<1>9. turn'[t] = "committed" /\ \A u \in Turn \ {t} : turn'[u] = turn[u]
  BY <1>2 DEF StoreIndInv, PlaceTypes
<1>10. DataTypes'
  <2>1. gone' \subseteq Turn
    BY <1>2, <1>6, DroppedAre DEF KeepIndInv, DataTypes
  <2>2. history' \in [Object -> Seq(Message)]
    BY <1>2, <1>3 DEF KeepIndInv, DataTypes, AnswerOf
  <2>3. \A q \in Session : Lines(q)' \in Seq(Entry)
    BY <1>4, <1>7 DEF KeepIndInv, DataTypes, Committed
  <2>4. shortened' \subseteq Object
    BY <1>2 DEF KeepIndInv, DataTypes
  <2>5. QED
    BY <1>2, <2>1, <2>2, <2>3, <2>4 DEF KeepIndInv, DataTypes
<1>11. LocksHeld'
  BY <1>2, <1>9 DEF KeepIndInv, LocksHeld
<1>12. Forward
  BY <1>2, <1>9 DEF Forward
<1>13. \A w \in Message : Uttered(w) => Uttered(w)'
  BY <1>12, UtteredStays
<1>14. \A w \in Message : w.by \in {t, NoTurn} \/ w = Summary => Uttered(w)'
  BY <1>9, SummaryFacts, NamesAreDistinct DEF Uttered
<1>15. \A w \in Message : Contains(msgs, w) => Uttered(w)'
  BY <1>3, <1>6, <1>13, <1>14 DEF AnswerOf
<1>16. Touches(s)
  BY <1>2, <1>7, <1>8, <1>12 DEF Touches
<1>17. FileKept(s)
  <2>1. \A w \in Message : Contains(r, Line(w)) => Uttered(w)'
    BY <1>4, <1>6, <1>13, <1>14, <1>15 DEF Committed
  <2>2. \A u \in Turn : turn'[u] \in {"committed", "done"} =>
           turn[u] \in {"committed", "done"} \/ Contains(r, Line(Reply(u)))
    BY <1>4, <1>9 DEF Committed
  <2>3. QED
    BY <1>4, <1>7, <2>1, <2>2 DEF FileKept, Committed
<1>18. MemoryKept(s)
  <2>1. Closed(msgs)
    BY <1>3 DEF AnswerOf
  <2>2. QED
    BY <1>8, <1>13, <1>15, <2>1 DEF MemoryKept, KeepIndInv, MessagesInOrder
<1>19. BothKept(s)
  BY <1>2, <1>4, <1>6, <1>7, <1>8 DEF BothKept, Committed
<1>20. TurnsKept(s)
  BY <1>6, <1>9 DEF TurnsKept, Live
<1>21. QED
  BY <1>10, <1>11, <1>16, <1>17, <1>18, <1>19, <1>20, TouchedKeeps

--------------------------------------------------------------------------------
(* The sessions and the calls.                                                    *)

\* A turn whose object and copy stay as they are, and whose file has no torn end, goes on.
LEMMA SpeaksOnwards ==
    ASSUME NEW u \in Turn, NEW p \in Object, NEW q \in Session, TurnSpeaks(u), p = on[u], q = id[p],
           on'[u] = on[u], id'[p] = id[p], history'[p] = history[p], ops'[u] = ops[u],
           scratch'[u] = scratch[u], NotTorn(Lines(q)')
    PROVE  TurnSpeaks(u)'
<1>1. on'[u] = p /\ id'[p] = q
  OBVIOUS
<1>2. Full(u)' = Full(u)
  BY <1>1 DEF Full
<1>3. Lines(id[on[u]])' = Lines(q)'
  BY <1>1
<1>4. OpsOf(u)' = OpsOf(u)
  BY DEF OpsOf
<1>5. QED
  BY <1>1, <1>2, <1>3, <1>4 DEF TurnSpeaks

LEMMA ChatSendKeepsAll ==
    ASSUME StoreIndInv, KeepIndInv, NEW t \in Turn, NEW s \in Session, ChatSend(t, s)
    PROVE  KeepIndInv'
<1>1. PICK o \in Object :
          /\ turn[t] = "unsent" /\ (GetOrLoad(s, o) \/ Create(s, o))
          /\ turn' = [turn EXCEPT ![t] = "sent"] /\ on' = [on EXCEPT ![t] = o]
          /\ UNCHANGED <<lock, scratch, ops, call, at, gone>>
  BY DEF ChatSend, callVars
<1>2. /\ turn'[t] = "sent"
      /\ \A u \in Turn \ {t} : turn'[u] = turn[u] /\ on'[u] = on[u]
  BY <1>1 DEF StoreIndInv, PlaceTypes
<1>3. NobodyMoves
  BY <1>1, <1>2 DEF NobodyMoves, Forward
<1>4. QED
  BY <1>1, <1>3, OpenKeepsAll

LEMMA CallStartsKeepsAll ==
    ASSUME StoreIndInv, KeepIndInv, NEW k \in Call, NEW op \in {"reset", "compact"}, NEW s \in Session,
           CallStarts(k, op, s)
    PROVE  KeepIndInv'
<1>1. PICK o \in Object :
          /\ GetOrLoad(s, o) /\ call' = [call EXCEPT ![k] = "waiting"]
          /\ at' = [at EXCEPT ![k] = o]
          /\ UNCHANGED <<turn, on, lock, scratch, ops, gone>>
  BY DEF CallStarts, turnVars
<1>2. \A c \in Call : call'[c] = "running" => call[c] = "running" /\ at'[c] = at[c]
  BY <1>1 DEF StoreIndInv, PlaceTypes
<1>3. NobodyMoves
  BY <1>1, <1>2 DEF NobodyMoves, Forward
<1>4. QED
  BY <1>1, <1>3, OpenKeepsAll

LEMMA GetsKeepAll ==
    ASSUME StoreIndInv, KeepIndInv, NEW s \in Session, SessionGet(s) \/ SessionNew(s)
    PROVE  KeepIndInv'
<1>1. PICK o \in Object : GetOrLoad(s, o) \/ Create(s, o)
  BY DEF SessionGet, SessionNew
<1>2. UNCHANGED <<turn, on, scratch, ops, lock, call, at, gone>>
  BY DEF SessionGet, SessionNew, turnVars, callVars
<1>3. NobodyMoves
  BY <1>2 DEF NobodyMoves, Forward
<1>4. QED
  BY <1>1, <1>3, OpenKeepsAll

LEMMA SelectKeepsAll ==
    ASSUME StoreIndInv, KeepIndInv, NEW s \in Session, Select(s)
    PROVE  KeepIndInv'
<1>1. /\ loaded' = [p \in Session |-> IF p \in Prune(s) THEN NoObject ELSE loaded[p]]
      /\ UNCHANGED <<disk, id, history, lock, turn, on, scratch, ops, call, at, shortened, gone>>
  BY DEF Select, storeVars, objectVars, turnVars, callVars, historyVars
<1>2. \A q \in Session : Lines(q)' = Lines(q)
  BY <1>1 DEF Lines, Exists
<1>3. DataTypes'
  BY <1>1, <1>2 DEF KeepIndInv, DataTypes
<1>4. LocksHeld'
  BY <1>1 DEF KeepIndInv, LocksHeld
<1>5. \A u \in Turn : turn'[u] = "prompted" => TurnSpeaks(u)'
  <2> SUFFICES ASSUME NEW u \in Turn, turn'[u] = "prompted" PROVE TurnSpeaks(u)'
    OBVIOUS
  <2>1. TurnSpeaks(u)
    BY <1>1 DEF KeepIndInv, TurnsSpeak
  <2>2. QED
    BY <1>1, <2>1 DEF TurnSpeaks, Full, Lines, Exists
<1>6. StaysPut
  BY <1>1, <1>2, <1>5 DEF StaysPut, Forward
<1>7. QED
  BY <1>3, <1>4, <1>6, StayKeeps

\* The turns in a file.
LEMMA TurnsInFacts ==
    ASSUME NEW lines
    PROVE  /\ TurnsIn(lines) \subseteq Turn
           /\ \A u \in Turn : Contains(lines, Line(Reply(u))) => u \in TurnsIn(lines)
<1>1. ASSUME NEW u \in Turn, Contains(lines, Line(Reply(u))) PROVE u \in TurnsIn(lines)
  <2>1. PICK i \in DOMAIN lines : lines[i] = Line(Reply(u))
    BY <1>1 DEF Contains
  <2>2. Line(Reply(u)).type = "message" /\ Line(Reply(u)).msg.by = u
    BY SummaryFacts, EntryFacts
  <2>3. QED
    BY <2>1, <2>2 DEF TurnsIn
<1>2. QED
  BY <1>1 DEF TurnsIn

LEMMA NoMessages ==
    /\ Closed(<<>>) /\ ClosedLines(<<>>) /\ (\A m : ~Contains(<<>>, m)) /\ NotTorn(<<>>)
BY DEF Closed, ClosedLines, Contains, NotTorn

LEMMA SessionDeleteKeepsAll ==
    ASSUME StoreIndInv, KeepIndInv, NEW s \in Session, SessionDelete(s)
    PROVE  KeepIndInv'
<1>1. /\ loaded[s] # NoObject => active[loaded[s]] = NoTurn
      /\ loaded' = [loaded EXCEPT ![s] = NoObject]
      /\ disk' = Restrict(disk, DOMAIN disk \ {s})
      /\ gone' = gone \cup TurnsIn(Lines(s))
      /\ UNCHANGED <<id, history, lock, turn, on, scratch, ops, call, at, shortened>>
  BY DEF SessionDelete, objectVars, turnVars, callVars
<1>2. Lines(s)' = <<>> /\ \A q \in Session \ {s} : Lines(q)' = Lines(q)
  BY <1>1 DEF Restrict, Lines, Exists
<1>3. loaded'[s] = NoObject /\ \A q \in Session \ {s} : loaded'[q] = loaded[q]
  BY <1>1 DEF StoreIndInv, PlaceTypes
<1>4. TurnsIn(Lines(s)) \subseteq Turn /\ \A u \in Turn : Contains(Lines(s), Line(Reply(u))) => u \in gone'
  BY <1>1, TurnsInFacts
<1>5. DataTypes'
  <2>1. \A q \in Session : Lines(q)' \in Seq(Entry)
    BY <1>2, Empty DEF KeepIndInv, DataTypes
  <2>2. QED
    BY <1>1, <1>4, <2>1 DEF KeepIndInv, DataTypes
<1>6. LocksHeld'
  BY <1>1 DEF KeepIndInv, LocksHeld
<1>7. Forward
  BY <1>1 DEF Forward
<1>8. \A w \in Message : Uttered(w) => Uttered(w)'
  BY <1>7, UtteredStays
<1>9. Touches(s)
  BY <1>1, <1>2, <1>3, <1>7 DEF Touches
<1>10. FileKept(s)
  BY <1>1, <1>2, <1>4, NoMessages DEF FileKept
<1>11. MemoryKept(s)
  BY <1>1, <1>8 DEF MemoryKept, KeepIndInv, MessagesInOrder
<1>12. BothKept(s)
  BY <1>3 DEF BothKept
<1>13. TurnsKept(s)
  <2> SUFFICES ASSUME NEW u \in Turn, turn[u] = "prompted", id[on[u]] = s PROVE FALSE
    BY <1>1 DEF TurnsKept
  <2>1. active[on[u]] = u /\ loaded[s] = on[u] /\ on[u] \in Object
    BY PromptedIsListed DEF Live
  <2>2. QED
    BY <1>1, <2>1, NamesAreDistinct
<1>14. QED
  BY <1>5, <1>6, <1>9, <1>10, <1>11, <1>12, <1>13, TouchedKeeps

LEMMA CompactLocksKeepsAll ==
    ASSUME StoreIndInv, KeepIndInv, NEW k \in Call, CompactLocks(k)
    PROVE  KeepIndInv'
<1>1. /\ call[k] = "waiting" /\ lock[at[k]] = Nobody
      /\ lock' = [lock EXCEPT ![at[k]] = k] /\ call' = [call EXCEPT ![k] = "running"]
      /\ UNCHANGED <<disk, loaded, id, history, turn, on, scratch, ops, at, shortened, gone>>
  BY DEF CompactLocks, storeVars, managerVars, objectVars, turnVars, historyVars
<1>2. at[k] \in Object /\ lock \in [Object -> Turn \cup Call \cup {Nobody}]
  BY <1>1 DEF StoreIndInv, CallsAtWork, KeepIndInv, DataTypes
<1>3. \A q \in Session : Lines(q)' = Lines(q)
  BY <1>1 DEF Lines, Exists
<1>4. DataTypes'
  BY <1>1, <1>2, <1>3 DEF KeepIndInv, DataTypes
<1>5. LocksHeld'
  <2>1. ASSUME NEW u \in Turn, turn[u] \in {"locked", "prompted", "committed"} PROVE lock'[on[u]] = u
    <3>1. lock[on[u]] = u /\ on[u] \in Object
      BY <2>1, PromptedIsListed DEF KeepIndInv, LocksHeld, Live
    <3>2. QED
      BY <1>1, <1>2, <3>1, NamesAreDistinct
  <2>2. ASSUME NEW c \in Call, call'[c] = "running" PROVE lock'[at[c]] = c
    <3>1. CASE c = k
      BY <1>1, <1>2, <3>1
    <3>2. CASE c # k
      <4>1. call[c] = "running"
        BY <1>1, <2>2, <3>2 DEF StoreIndInv, PlaceTypes
      <4>2. lock[at[c]] = c /\ at[c] \in Object
        BY <4>1 DEF KeepIndInv, LocksHeld, StoreIndInv, CallsAtWork
      <4>3. QED
        BY <1>1, <1>2, <4>2, NamesAreDistinct
    <3>3. QED
      BY <3>1, <3>2
  <2>3. QED
    BY <1>1, <2>1, <2>2 DEF KeepIndInv, LocksHeld
<1>6. \A u \in Turn : turn'[u] = "prompted" => TurnSpeaks(u)'
  <2> SUFFICES ASSUME NEW u \in Turn, turn'[u] = "prompted" PROVE TurnSpeaks(u)'
    OBVIOUS
  <2>1. TurnSpeaks(u)
    BY <1>1 DEF KeepIndInv, TurnsSpeak
  <2>2. QED
    BY <1>1, <2>1 DEF TurnSpeaks, Full, Lines, Exists
<1>7. StaysPut
  BY <1>1, <1>3, <1>6 DEF StaysPut, Forward
<1>8. QED
  BY <1>4, <1>5, <1>7, StayKeeps

LEMMA ResetRunsKeepsAll ==
    ASSUME StoreIndInv, KeepIndInv, NEW k \in Call, NEW o \in Object, NEW s \in Session,
           o = at[k], s = id[o], ResetRuns(k)
    PROVE  KeepIndInv'
<1>1. /\ call[k] = "waiting" /\ lock[o] = Nobody
      /\ history' = [history EXCEPT ![o] = <<>>]
      /\ shortened' = IF loaded[s] \in {o, NoObject} THEN shortened \ {o}
                       ELSE (shortened \ {o}) \cup {loaded[s]}
      /\ gone' = gone \cup (Dropped(history[o], <<>>) \ {NoTurn}) \cup TurnsIn(Lines(s))
      /\ \/ Exists(s) /\ disk' = Written(s, Headers(disk[s]))
         \/ ~Exists(s) /\ disk' = disk
      /\ call' = [call EXCEPT ![k] = "over"]
      /\ UNCHANGED <<loaded, id, lock, turn, on, scratch, ops, at>>
  BY DEF ResetRuns, CallEnds, turnVars
<1>2. Lines(s) \in Seq(Entry) /\ history[o] \in Seq(Message)
  BY DEF KeepIndInv, DataTypes
<1>3. \E r : /\ Lines(s)' = r /\ r \in Seq(Entry) /\ ClosedLines(r) /\ Heard(r) = <<>> /\ NotTorn(r)
             /\ (\A m \in Message : ~Contains(r, Line(m)))
             /\ \A q \in Session \ {s} : Lines(q)' = Lines(q)
  <2>1. CASE Exists(s) /\ disk' = Written(s, Headers(disk[s]))
    <3>1. Lines(s) = disk[s]
      BY <2>1 DEF Lines
    <3>2. PICK r : r = Headers(Lines(s))
      OBVIOUS
    <3>3. /\ r \in Seq(Entry) /\ ClosedLines(r) /\ Heard(r) = <<>> /\ NotTorn(r)
          /\ \A m \in Message : ~Contains(r, Line(m))
      BY <1>2, <3>2, HeadersFacts
    <3>4. disk' = Written(s, r)
      BY <2>1, <3>1, <3>2
    <3>5. Lines(s)' = r /\ \A q \in Session \ {s} : Lines(q)' = Lines(q)
      BY <3>4, WrittenLines
    <3>6. QED
      BY <3>3, <3>5
  <2>2. CASE ~Exists(s) /\ disk' = disk
    <3>1. Lines(s)' = <<>> /\ \A q \in Session : Lines(q)' = Lines(q)
      BY <2>2 DEF Lines, Exists
    <3>2. QED
      BY <3>1, NoMessages, Empty
  <2>3. QED
    BY <1>1, <2>1, <2>2
<1>4. PICK r : /\ Lines(s)' = r /\ r \in Seq(Entry) /\ ClosedLines(r) /\ Heard(r) = <<>> /\ NotTorn(r)
               /\ (\A m \in Message : ~Contains(r, Line(m)))
               /\ \A q \in Session \ {s} : Lines(q)' = Lines(q)
  BY <1>3
<1>5. history'[o] = <<>> /\ \A p \in Object \ {o} : history'[p] = history[p]
  BY <1>1 DEF KeepIndInv, DataTypes
<1>6. \A u \in Turn : Contains(Lines(s), Line(Reply(u))) => u \in gone'
  BY <1>1, TurnsInFacts
<1>7. loaded[s] # NoObject => loaded[s] \in Object /\ id[loaded[s]] = s
  BY DEF StoreIndInv, PlaceTypes, StoreIsInOrder, ManagerKnows
<1>8. DataTypes'
  <2>1. gone' \subseteq Turn
    BY <1>1, <1>2, DroppedAre, TurnsInFacts DEF KeepIndInv, DataTypes
  <2>2. history' \in [Object -> Seq(Message)]
    BY <1>1, Empty DEF KeepIndInv, DataTypes
  <2>3. \A q \in Session : Lines(q)' \in Seq(Entry)
    BY <1>4 DEF KeepIndInv, DataTypes
  <2>4. shortened' \subseteq Object
    BY <1>1, <1>7 DEF KeepIndInv, DataTypes
  <2>5. QED
    BY <1>1, <2>1, <2>2, <2>3, <2>4 DEF KeepIndInv, DataTypes
<1>9. \A c \in Call : call'[c] = "running" => call[c] = "running"
  BY <1>1 DEF StoreIndInv, PlaceTypes
<1>10. LocksHeld'
  BY <1>1, <1>9 DEF KeepIndInv, LocksHeld
<1>11. Forward
  BY <1>1 DEF Forward
<1>12. \A w \in Message : Uttered(w) => Uttered(w)'
  BY <1>11, UtteredStays
<1>13. Touches(s)
  <2>1. \A p \in Object : id[p] # s => p # o /\ p # loaded[s]
    BY <1>7, NamesAreDistinct
  <2>2. \A p \in Object : id[p] # s => history'[p] = history[p] /\ (p \in shortened' <=> p \in shortened)
    BY <1>1, <1>5, <2>1
  <2>3. QED
    BY <1>1, <1>4, <1>11, <2>2 DEF Touches
<1>14. FileKept(s)
  <2>1. \A u \in Turn : Reply(u) \in Message
    BY SummaryFacts
  <2>2. QED
    BY <1>1, <1>4, <1>6, <2>1 DEF FileKept
<1>15. MemoryKept(s)
  BY <1>5, <1>12, NoMessages DEF MemoryKept, KeepIndInv, MessagesInOrder
<1>16. BothKept(s)
  <2> SUFFICES ASSUME loaded[s] # NoObject
               PROVE  /\ \A u \in Turn : Contains(r, Line(Reply(u))) =>
                             u \in gone' \/ Contains(history'[loaded[s]], Reply(u))
                      /\ loaded[s] \in shortened' \/ Torn(r) \/ Heard(r) = Said(history'[loaded[s]])
    BY <1>1, <1>4 DEF BothKept
  <2>1. \A u \in Turn : ~Contains(r, Line(Reply(u)))
    BY <1>4, SummaryFacts
  <2>2. CASE loaded[s] = o
    BY <1>4, <1>5, <2>1, <2>2, Empty
  <2>3. CASE loaded[s] # o
    <3>1. loaded[s] \in shortened'
      BY <1>1, <2>3
    <3>2. QED
      BY <2>1, <3>1
  <2>4. QED
    BY <2>2, <2>3
<1>17. TurnsKept(s)
  <2> SUFFICES ASSUME NEW u \in Turn, turn[u] = "prompted", id[on[u]] = s PROVE TurnSpeaks(u)'
    BY <1>1 DEF TurnsKept
  <2>1. PICK p \in Object : p = on[u]
    BY PromptedIsListed DEF Live
  <2>2. lock[p] = u /\ TurnSpeaks(u)
    BY <2>1 DEF KeepIndInv, LocksHeld, TurnsSpeak
  <2>3. p # o
    BY <1>1, <2>2, NamesAreDistinct
  <2>4. history'[p] = history[p] /\ NotTorn(Lines(s)')
    BY <1>4, <1>5, <2>3
  <2>5. on'[u] = on[u] /\ id'[p] = id[p] /\ ops'[u] = ops[u] /\ scratch'[u] = scratch[u]
    BY <1>1
  <2>6. QED
    BY <2>1, <2>2, <2>4, <2>5, SpeaksOnwards
<1>18. QED
  BY <1>8, <1>10, <1>13, <1>14, <1>15, <1>16, <1>17, TouchedKeeps

\* A forced compaction of a history.
LEMMA CompactionKeeps ==
    ASSUME NEW h \in Seq(Message), Closed(h), NEW msgs \in Compactions(h)
    PROVE  /\ msgs \in Seq(Message) /\ Closed(msgs)
           /\ \A m \in Message : Contains(msgs, m) => m = Summary \/ Contains(h, m)
           /\ \A u \in Turn : Contains(h, Reply(u)) => Contains(msgs, Reply(u)) \/ u \in Dropped(h, msgs)
           /\ h = <<>> => msgs = <<>>
<1>1. CASE h = <<>>
  BY <1>1, NoMessages DEF Compactions
<1>2. CASE h # <<>>
  <2>1. PICK cut \in Cuts(h) : msgs = Compacted(h, cut)
    BY <1>2 DEF Compactions
  <2>2. cut \in 1 .. Len(h)
    BY <2>1, LenProperties DEF Cuts
  <2>3. CutAt(h, cut, msgs)
    BY <2>1, <2>2, CompactedIs
  <2>4. CutKeepsOf(h, msgs)
    BY <2>2, <2>3, CutKeeps
  <2>5. msgs \in Seq(Message)
    BY <2>3 DEF CutAt
  <2>6. ASSUME NEW u \in Turn, Contains(h, Reply(u)), ~Contains(msgs, Reply(u))
        PROVE  u \in Dropped(h, msgs)
    <3>1. \A m \in Message : Contains(msgs, m) => m.by # u
      BY <2>4, <2>6 DEF CutKeepsOf
    <3>2. \A i \in DOMAIN msgs : msgs[i] \in Message /\ Contains(msgs, msgs[i])
      BY <2>5, ElementOfSeq, LenProperties DEF Contains
    <3>3. PICK i \in DOMAIN h : h[i] = Reply(u)
      BY <2>6 DEF Contains
    <3>4. h[i].by = u
      BY <3>3, SummaryFacts
    <3>5. QED
      BY <3>1, <3>2, <3>4 DEF Dropped
  <2>7. QED
    BY <1>2, <2>4, <2>5, <2>6 DEF CutKeepsOf
<1>3. QED
  BY <1>1, <1>2

LEMMA CompactEndsKeepsAll ==
    ASSUME StoreIndInv, KeepIndInv, NEW k \in Call, NEW o \in Object, NEW s \in Session,
           o = at[k], s = id[o], CompactEnds(k)
    PROVE  KeepIndInv'
<1>1. /\ call[k] = "running"
      /\ \/ history[o] # <<>> /\ disk' = Written(s, Appended(o, <<Marker("compaction")>>))
         \/ disk' = disk
      /\ shortened' = shortened \cup {q \in {o} : history[q] # <<>>}
      /\ lock' = [lock EXCEPT ![o] = Nobody]
      /\ call' = [call EXCEPT ![k] = "over"]
      /\ UNCHANGED <<loaded, id, turn, on, scratch, ops, at>>
  BY DEF CompactEnds, CallEnds, turnVars
<1>2. PICK msgs \in Compactions(history[o]) :
          /\ history' = [history EXCEPT ![o] = msgs]
          /\ gone' = gone \cup (Dropped(history[o], msgs) \ {NoTurn})
  BY DEF CompactEnds
<1>3. /\ history[o] \in Seq(Message) /\ Closed(history[o]) /\ lock[o] = k
      /\ Lines(s) \in Seq(Entry) /\ ClosedLines(Lines(s))
  BY <1>1 DEF KeepIndInv, DataTypes, MessagesInOrder, LinesInOrder, LocksHeld
<1>4. /\ msgs \in Seq(Message) /\ Closed(msgs)
      /\ (\A m \in Message : Contains(msgs, m) => m = Summary \/ Contains(history[o], m))
      /\ (\A u \in Turn : Contains(history[o], Reply(u)) =>
              Contains(msgs, Reply(u)) \/ u \in Dropped(history[o], msgs))
      /\ history[o] = <<>> => msgs = <<>>
  BY <1>3, CompactionKeeps
<1>5. /\ ClosedLines(Lines(s)') /\ (\A q \in Session \ {s} : Lines(q)' = Lines(q))
      /\ (\A q \in Session : Lines(q)' \in Seq(Entry))
      /\ (\A m \in Message : Contains(Lines(s)', Line(m)) <=> Contains(Lines(s), Line(m)))
      /\ (~Torn(Lines(s)') => ~Torn(Lines(s)) /\ Heard(Lines(s)') = Heard(Lines(s)))
      /\ NotTorn(Lines(s)) => NotTorn(Lines(s)')
  <2>1. CASE disk' = Written(s, Appended(o, <<Marker("compaction")>>))
    <3>1. /\ AppendOf(Lines(s), <<Marker("compaction")>>, Lines(s)')
          /\ \A q \in Session \ {s} : Lines(q)' = Lines(q)
          /\ \A q \in Session : Lines(q)' \in Seq(Entry)
          /\ \A m \in Message : Contains(Lines(s)', Line(m)) <=> Contains(Lines(s), Line(m))
          /\ ~Torn(Lines(s)') => ~Torn(Lines(s)) /\ Heard(Lines(s)') = Heard(Lines(s))
      BY <2>1, QuietWriteKeeps
    <3>2. Last(<<Marker("compaction")>>).type # "torn"
      BY QuietLine
    <3>3. ClosedLines(Lines(s)') /\ NotTorn(Lines(s)')
      BY <3>1, <3>2 DEF AppendOf
    <3>4. QED
      BY <3>1, <3>3
  <2>2. CASE disk' = disk
    <3>1. \A q \in Session : Lines(q)' = Lines(q)
      BY <2>2 DEF Lines, Exists
    <3>2. \A q \in Session : Lines(q) \in Seq(Entry)
      BY DEF KeepIndInv, DataTypes
    <3>3. QED
      BY <1>3, <3>1, <3>2
  <2>3. QED
    BY <1>1, <2>1, <2>2
<1>6. history'[o] = msgs /\ \A p \in Object \ {o} : history'[p] = history[p]
  BY <1>2 DEF KeepIndInv, DataTypes
<1>7. \A u \in Turn : Reply(u) \in Message /\ u # NoTurn
  BY SummaryFacts
<1>8. DataTypes'
  <2>1. gone' \subseteq Turn
    BY <1>2, <1>3, DroppedAre DEF KeepIndInv, DataTypes
  <2>2. history' \in [Object -> Seq(Message)] /\ lock' \in [Object -> Turn \cup Call \cup {Nobody}]
    BY <1>1, <1>2, <1>4 DEF KeepIndInv, DataTypes
  <2>3. shortened' \subseteq Object
    BY <1>1 DEF KeepIndInv, DataTypes
  <2>4. QED
    BY <1>1, <1>5, <2>1, <2>2, <2>3 DEF KeepIndInv, DataTypes
<1>9. \A u \in Turn : turn[u] \in {"locked", "prompted", "committed"} =>
          on[u] \in Object /\ on[u] # o /\ lock[on[u]] = u
  <2> SUFFICES ASSUME NEW u \in Turn, turn[u] \in {"locked", "prompted", "committed"}
               PROVE  on[u] \in Object /\ on[u] # o /\ lock[on[u]] = u
    OBVIOUS
  <2>1. on[u] \in Object /\ lock[on[u]] = u
    BY PromptedIsListed DEF Live, KeepIndInv, LocksHeld
  <2>2. QED
    BY <1>3, <2>1, NamesAreDistinct
<1>10. LocksHeld'
  <2>1. \A u \in Turn : turn[u] \in {"locked", "prompted", "committed"} => lock'[on[u]] = u
    BY <1>1, <1>9 DEF KeepIndInv, DataTypes
  <2>2. ASSUME NEW c \in Call, call'[c] = "running" PROVE lock'[at[c]] = c
    <3>1. c # k /\ call[c] = "running"
      BY <1>1, <2>2 DEF StoreIndInv, PlaceTypes
    <3>2. lock[at[c]] = c /\ at[c] \in Object
      BY <3>1 DEF KeepIndInv, LocksHeld, StoreIndInv, CallsAtWork
    <3>3. at[c] # o
      BY <1>3, <3>1, <3>2
    <3>4. QED
      BY <1>1, <3>2, <3>3 DEF KeepIndInv, DataTypes
  <2>3. QED
    BY <1>1, <2>1, <2>2 DEF KeepIndInv, LocksHeld
<1>11. Forward
  BY <1>1 DEF Forward
<1>12. \A w \in Message : Uttered(w) => Uttered(w)'
  BY <1>11, UtteredStays
<1>13. Touches(s)
  BY <1>1, <1>2, <1>5, <1>6, <1>11 DEF Touches
<1>14. FileKept(s)
  <2>1. \A m \in Message : Contains(Lines(s)', Line(m)) => Uttered(m)'
    BY <1>5, <1>12 DEF KeepIndInv, LinesInOrder
  <2>2. \A u \in Turn : Contains(Lines(s), Line(Reply(u))) => Contains(Lines(s)', Line(Reply(u)))
    BY <1>5, <1>7
  <2>3. QED
    BY <1>1, <1>5, <2>1, <2>2 DEF FileKept
<1>15. MemoryKept(s)
  <2>1. \A w \in Message : Contains(history[o], w) => Uttered(w)
    BY DEF KeepIndInv, MessagesInOrder
  <2>2. \A w \in Message : Contains(msgs, w) => Uttered(w)'
    <3>1. Uttered(Summary)'
      BY SummaryFacts, NamesAreDistinct DEF Uttered
    <3>2. QED
      BY <1>4, <1>12, <2>1, <3>1
  <2>3. QED
    BY <1>4, <1>6, <1>12, <2>2 DEF MemoryKept, KeepIndInv, MessagesInOrder
<1>16. BothKept(s)
  <2> SUFFICES ASSUME loaded[s] # NoObject
               PROVE  /\ \A u \in Turn : Contains(Lines(s)', Line(Reply(u))) =>
                             u \in gone' \/ Contains(history'[loaded[s]], Reply(u))
                      /\ loaded[s] \in shortened' \/ Torn(Lines(s)') \/ Heard(Lines(s)') = Said(history'[loaded[s]])
    BY <1>1 DEF BothKept
  <2>1. loaded[s] \in Object
    BY DEF StoreIndInv, PlaceTypes
  <2>2. \A u \in Turn : Contains(Lines(s)', Line(Reply(u))) =>
            u \in gone \/ Contains(history[loaded[s]], Reply(u))
    BY <1>5, <1>7 DEF KeepIndInv, RepliesKept
  <2>3. loaded[s] \in shortened \/ Torn(Lines(s)) \/ Heard(Lines(s)) = Said(history[loaded[s]])
    BY DEF KeepIndInv, ReloadKeepsMessages, Torn, Heard
  <2>4. CASE loaded[s] = o
    <3>1. \A u \in Turn : Contains(history[o], Reply(u)) => u \in gone' \/ Contains(msgs, Reply(u))
      BY <1>2, <1>4, <1>7
    <3>2. history[o] # <<>> => o \in shortened'
      BY <1>1
    <3>3. history[o] = <<>> => msgs = history[o]
      BY <1>4
    <3>4. QED
      BY <1>1, <1>2, <1>5, <1>6, <2>2, <2>3, <2>4, <3>1, <3>2, <3>3
  <2>5. CASE loaded[s] # o
    BY <1>1, <1>2, <1>5, <1>6, <2>1, <2>2, <2>3, <2>5
  <2>6. QED
    BY <2>4, <2>5
<1>17. TurnsKept(s)
  <2> SUFFICES ASSUME NEW u \in Turn, turn[u] = "prompted", id[on[u]] = s PROVE TurnSpeaks(u)'
    BY <1>1 DEF TurnsKept
  <2>1. PICK p \in Object : p = on[u] /\ p # o
    BY <1>9
  <2>2. TurnSpeaks(u) /\ NotTorn(Lines(s))
    BY DEF KeepIndInv, TurnsSpeak, TurnSpeaks
  <2>3. history'[p] = history[p] /\ NotTorn(Lines(s)')
    BY <1>5, <1>6, <2>1, <2>2
  <2>4. on'[u] = on[u] /\ id'[p] = id[p] /\ ops'[u] = ops[u] /\ scratch'[u] = scratch[u]
    BY <1>1
  <2>5. QED
    BY <2>1, <2>2, <2>3, <2>4, SpeaksOnwards
<1>18. QED
  BY <1>8, <1>10, <1>13, <1>14, <1>15, <1>16, <1>17, TouchedKeeps

--------------------------------------------------------------------------------
(* The daemon dies.                                                                *)

LEMMA OtherFilesStay ==
    ASSUME KeepIndInv, NEW q \in Session, Lines(q)' = Lines(q)
    PROVE  FileStays(q)
BY DEF KeepIndInv, DataTypes, LinesInOrder, FileStays

LEMMA CrashInCommitKeepsAll ==
    ASSUME StoreIndInv, KeepIndInv, NEW t \in Turn, NEW o \in Object, NEW s \in Session,
           o = on[t], s = id[o], CrashInCommit(t)
    PROVE  KeepIndInv'
<1>1. turn[t] = "prompted" /\ Restarted
  BY DEF CrashInCommit
<1>2. PICK n \in DOMAIN ops[t] : disk' = Written(s, Appended(o, SubSeq(ops[t], 1, n)))
  BY DEF CrashInCommit
<1>3. SpeaksOn(t, o, s)
  BY <1>1, PromptedSpeaks
<1>4. /\ ops[t] \in Seq(Entry) /\ ClosedLines(ops[t])
      /\ (\A m \in Message : Contains(ops[t], Line(m)) => m.by = t /\ m.kind # "reply")
      /\ Lines(s) \in Seq(Entry) /\ ClosedLines(Lines(s))
      /\ \A m \in Message : Contains(Lines(s), Line(m)) /\ m.kind = "reply" => m.by # t
  BY <1>3 DEF SpeaksOn, WorksOn
<1>5. n \in 1 .. Len(ops[t])
  BY <1>4, LenProperties
<1>6. PICK es : es = SubSeq(ops[t], 1, n)
  OBVIOUS
<1>7. /\ es \in Seq(Entry) /\ Len(es) = n /\ DOMAIN es = 1 .. n
      /\ \A i \in 1 .. n : es[i] = ops[t][i]
  <2>1. Len(ops[t]) \in Nat
    BY <1>4, LenProperties
  <2>2. 1 \in 1 .. Len(ops[t]) + 1 /\ n \in 0 .. Len(ops[t]) /\ 1 <= n + 1
    BY <1>5, <2>1
  <2>3. /\ es \in Seq(Entry) /\ Len(es) = n - 1 + 1
        /\ DOMAIN es = 1 .. n - 1 + 1
        /\ \A i \in 1 .. n - 1 + 1 : es[i] = ops[t][1 + i - 1]
    BY <1>4, <1>6, <2>2, SubSeqIs
  <2>4. n - 1 + 1 = n /\ \A i \in 1 .. n : 1 + i - 1 = i
    BY <1>5
  <2>5. QED
    BY <2>3, <2>4
<1>8. DOMAIN ops[t] = 1 .. Len(ops[t]) /\ 1 .. n \subseteq 1 .. Len(ops[t]) /\ es # <<>>
  BY <1>4, <1>5, <1>7, LenProperties
<1>9. ClosedLines(es) /\ \A m \in Message : Contains(es, Line(m)) => m.by = t
  <2>1. \A l : Contains(es, l) => Contains(ops[t], l)
    BY <1>7, <1>8 DEF Contains
  <2>2. ClosedLines(es)
    BY <1>4, <1>7, <1>8 DEF ClosedLines
  <2>3. QED
    BY <1>4, <2>1, <2>2
<1>10. Follows(Lines(s), es)
  BY <1>4, <1>9 DEF Follows
<1>11. AppendOf(Lines(s), es, Appended(o, es))
  BY <1>4, <1>7, <1>8, <1>9, <1>10, AppendedFacts
<1>12. Lines(s)' = Appended(o, es) /\ \A q \in Session \ {s} : Lines(q)' = Lines(q)
  BY <1>2, <1>6, WrittenLines
<1>13. \A m \in Message : m.by = t => Uttered(m)'
  <2>1. turn'[t] = "stopped"
    BY <1>1 DEF Restarted, Live
  <2>2. QED
    BY <2>1 DEF Uttered
<1>14. FileStays(s)
  BY <1>9, <1>11, <1>12, <1>13 DEF FileStays, AppendOf
<1>15. \A q \in Session : FileStays(q)
  BY <1>12, <1>14, OtherFilesStay
<1>16. QED
  BY <1>1, <1>15, RestartKeeps

LEMMA CrashInFirstWriteKeepsAll ==
    ASSUME StoreIndInv, KeepIndInv, NEW t \in Turn, NEW s \in Session, s = id[on[t]],
           CrashInFirstWrite(t)
    PROVE  KeepIndInv'
<1>1. /\ turn[t] = "locked" /\ fresh[on[t]] /\ Restarted
      /\ disk' = Written(s, <<Marker("session")>>)
  BY DEF CrashInFirstWrite
<1>2. ~Exists(s)
  BY <1>1, PromptedIsListed DEF Live
<1>3. Lines(s) = <<>>
  BY <1>2 DEF Lines
<1>4. Lines(s)' = <<Marker("session")>> /\ \A q \in Session \ {s} : Lines(q)' = Lines(q)
  BY <1>1, WrittenLines
<1>5. FileStays(s)
  BY <1>3, <1>4, NoMessages, QuietLine DEF FileStays
<1>6. QED
  BY <1>1, <1>4, <1>5, OtherFilesStay, RestartKeeps

LEMMA CrashInLineKeepsAll ==
    ASSUME StoreIndInv, KeepIndInv, NEW t \in Turn, NEW o \in Object, NEW s \in Session,
           o = on[t], s = id[o], CrashInLine(t)
    PROVE  KeepIndInv'
<1>1. disk' = Written(s, Appended(o, <<Marker("torn")>>)) /\ Restarted
  BY DEF CrashInLine
<1>2. /\ AppendOf(Lines(s), <<Marker("torn")>>, Lines(s)')
      /\ \A q \in Session \ {s} : Lines(q)' = Lines(q)
      /\ \A q \in Session : Lines(q)' \in Seq(Entry)
      /\ \A m \in Message : Contains(Lines(s)', Line(m)) <=> Contains(Lines(s), Line(m))
  BY <1>1, QuietWriteKeeps
<1>3. FileStays(s)
  BY <1>2 DEF FileStays, AppendOf
<1>4. QED
  BY <1>1, <1>2, <1>3, OtherFilesStay, RestartKeeps

LEMMA CrashKeepsAll ==
    ASSUME StoreIndInv, KeepIndInv, CrashStep
    PROVE  KeepIndInv'
<1>1. CASE Crash
  <2>1. Restarted /\ \A q \in Session : Lines(q)' = Lines(q)
    BY <1>1 DEF Crash, storeVars, Lines, Exists
  <2>2. QED
    BY <2>1, OtherFilesStay, RestartKeeps
<1>2. ASSUME NEW t \in Turn, CrashInCommit(t) \/ CrashInFirstWrite(t) \/ CrashInLine(t)
      PROVE  KeepIndInv'
  <2>1. turn[t] \in Live
    BY <1>2 DEF CrashInCommit, CrashInFirstWrite, CrashInLine, Live
  <2>2. PICK o \in Object, s \in Session : o = on[t] /\ s = id[o]
    BY <2>1, PromptedIsListed
  <2>3. QED
    BY <1>2, <2>2, CrashInCommitKeepsAll, CrashInFirstWriteKeepsAll, CrashInLineKeepsAll
<1>3. QED
  BY <1>1, <1>2 DEF CrashStep

--------------------------------------------------------------------------------
(* Every step keeps the invariant.                                                 *)

LEMMA TurnStepKeepsAll ==
    ASSUME StoreIndInv, KeepIndInv, NEW t \in Turn, TurnStep(t)
    PROVE  KeepIndInv'
<1>1. ASSUME TurnPrompts(t) \/ TurnCommits(t) \/ TurnEnds(t) PROVE KeepIndInv'
  <2>1. turn[t] \in Live
    BY <1>1 DEF TurnPrompts, TurnCommits, TurnEnds, Live
  <2>2. PICK o \in Object, s \in Session : o = on[t] /\ s = id[o]
    BY <2>1, PromptedIsListed
  <2>3. QED
    BY <1>1, <2>2, TurnPromptsKeepsAll, TurnCommitsKeepsAll, TurnEndsKeepsAll
<1>2. ASSUME NEW s \in Session, ChatSend(t, s) PROVE KeepIndInv'
  BY <1>2, ChatSendKeepsAll
<1>3. QED
  BY <1>1, <1>2, TurnLocksKeepsAll, TurnCallsToolsKeepsAll, TurnCompactsKeepsAll,
     TurnStopsKeepsAll DEF TurnStep

LEMMA CallStepKeepsAll ==
    ASSUME StoreIndInv, KeepIndInv, NEW k \in Call, CallStep(k)
    PROVE  KeepIndInv'
<1>1. ASSUME ResetRuns(k) \/ CompactEnds(k) PROVE KeepIndInv'
  <2>1. call[k] \in {"waiting", "running"}
    BY <1>1 DEF ResetRuns, CompactEnds
  <2>2. PICK o \in Object, s \in Session : o = at[k] /\ s = id[o]
    BY <2>1 DEF StoreIndInv, CallsAtWork
  <2>3. QED
    BY <1>1, <2>2, ResetRunsKeepsAll, CompactEndsKeepsAll
<1>2. ASSUME NEW op \in {"reset", "compact"}, NEW s \in Session, CallStarts(k, op, s)
      PROVE  KeepIndInv'
  BY <1>2, CallStartsKeepsAll
<1>3. QED
  BY <1>1, <1>2, CompactLocksKeepsAll DEF CallStep

LEMMA SessionStepKeepsAll ==
    ASSUME StoreIndInv, KeepIndInv, NEW s \in Session, SessionStep(s)
    PROVE  KeepIndInv'
BY GetsKeepAll, SelectKeepsAll, SessionDeleteKeepsAll DEF SessionStep

LEMMA KeepInit == Init => KeepIndInv
<1> SUFFICES ASSUME Init PROVE KeepIndInv
  OBVIOUS
<1>1. \A s \in Session : Lines(s) = <<>>
  BY DEF Init, Lines, Exists
<1>2. DataTypes
  BY <1>1, Empty DEF Init, DataTypes
<1>3. LocksHeld
  BY DEF Init, LocksHeld
<1>4. MessagesInOrder /\ LinesInOrder
  BY <1>1, NoMessages DEF Init, MessagesInOrder, LinesInOrder
<1>5. TurnsSpeak /\ RepliesKept /\ AnswersStay /\ ReloadKeepsMessages
  BY DEF Init, TurnsSpeak, RepliesKept, AnswersStay, ReloadKeepsMessages
<1>6. QED
  BY <1>2, <1>3, <1>4, <1>5 DEF KeepIndInv

LEMMA KeepStep == StoreIndInv /\ KeepIndInv /\ [Next]_vars => KeepIndInv'
<1> SUFFICES ASSUME StoreIndInv, KeepIndInv, [Next]_vars PROVE KeepIndInv'
  OBVIOUS
<1>1. CASE Next
  BY <1>1, TurnStepKeepsAll, CallStepKeepsAll, SessionStepKeepsAll, CrashKeepsAll DEF Next
<1>2. CASE UNCHANGED vars
  <2>1. UNCHANGED <<disk, loaded, id, history, lock, turn, on, scratch, ops, call, at, shortened, gone>>
    BY <1>2 DEF vars, storeVars, managerVars, objectVars, turnVars, callVars, historyVars
  <2>2. \A q \in Session : Lines(q)' = Lines(q)
    BY <2>1 DEF Lines, Exists
  <2>3. DataTypes' /\ LocksHeld'
    BY <2>1, <2>2 DEF KeepIndInv, DataTypes, LocksHeld
  <2>4. \A u \in Turn : turn'[u] = "prompted" => TurnSpeaks(u)'
    BY <2>1 DEF KeepIndInv, TurnsSpeak, TurnSpeaks, Full, Lines, Exists
  <2>5. StaysPut
    BY <2>1, <2>2, <2>4 DEF StaysPut, Forward
  <2>6. QED
    BY <2>3, <2>5, StayKeeps
<1>3. QED
  BY <1>1, <1>2

\* A restart finds every conversation as it is in memory, and an answer a client was told
\* about outlives every crash, for any number of sessions, turns, calls and restarts.
THEOREM TranscriptsAreKept == Spec => []TranscriptIsKept
<1>1. KeepIndInv => TranscriptIsKept
  <2> SUFFICES ASSUME KeepIndInv PROVE TranscriptIsKept
    OBVIOUS
  <2>1. ReloadKeepsMessages
    BY DEF KeepIndInv
  <2>2. DoneIsDurable
    BY DEF KeepIndInv, AnswersStay, DoneIsDurable, Reply
  <2>3. QED
    BY <2>1, <2>2 DEF TranscriptIsKept
<1>2. QED
  BY <1>1, StoreInit, StoreStep, KeepInit, KeepStep, PTL DEF Spec

================================================================================
