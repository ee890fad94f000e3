--------------------------- MODULE McpRuntimeProofs ---------------------------
(* Proofs about McpRuntime, for any servers, tools, names and calls.               *)
EXTENDS McpRuntime, WellFoundedInduction, TLAPS

--------------------------------------------------------------------------------
(* The names.                                                                      *)

\* A set of places of a list has a last one.
LEMMA LastPlace ==
    ASSUME NEW b \in Nat, NEW S \in SUBSET (1..b), S # {}
    PROVE  \E m \in S : \A k \in S : k <= m
<1> DEFINE T == {b - k : k \in S}
<1>1. T \subseteq Nat /\ T # {}
  <2>1. \A k \in S : b - k \in Nat
    OBVIOUS
  <2>2. PICK k \in S : TRUE
    OBVIOUS
  <2>3. QED
    BY <2>1, <2>2
<1>2. PICK x \in T : \A y \in T : ~(<<y, x>> \in OpToRel(<, Nat))
  <2> HIDE DEF T
  <2> QED
    BY <1>1, NatLessThanWellFounded, WFMin
<1>3. \A y \in T : ~(y < x)
  <2> SUFFICES ASSUME NEW y \in T, y < x PROVE FALSE
    OBVIOUS
  <2> <<y, x>> \in OpToRel(<, Nat)
    BY <1>1 DEF OpToRel
  <2> QED
    BY <1>2
<1>4. PICK m \in S : x = b - m
  OBVIOUS
<1>5. \A k \in S : ~(b - k < b - m)
  BY <1>3, <1>4
<1>6. QED
  BY <1>5

\* materialize_mcp_tools and the registration: a tool of the list stands for each name, and no
\* name was taken.
LEMMA MaterializedNames ==
    ASSUME infos \in Seq(Info)
    PROVE  /\ DOMAIN Materialized \subseteq Name \ Builtin
           /\ \A n \in DOMAIN Materialized :
                 Materialized[n] \in Info /\ Named[Materialized[n]] = n
<1> DEFINE Free(i) == Named[infos[i]] \notin Builtin
           Of(n) == {i \in DOMAIN infos : Named[infos[i]] = n}
           IsLast(n, i) == /\ Named[infos[i]] = n
                           /\ \A j \in DOMAIN infos : Named[infos[j]] = n => j <= i
           Last(n) == CHOOSE i \in DOMAIN infos : IsLast(n, i)
           Names == {Named[infos[i]] : i \in {i \in DOMAIN infos : Free(i)}}
<1>1. Materialized = [n \in Names |-> infos[Last(n)]]
  BY DEF Materialized
<1>2. \A i \in DOMAIN infos : infos[i] \in Info
  OBVIOUS
<1>3. Names \subseteq Name \ Builtin
  BY <1>2 DEF Name
<1>4. ASSUME NEW n \in Names PROVE Last(n) \in DOMAIN infos /\ Named[infos[Last(n)]] = n
  <2>1. Len(infos) \in Nat /\ DOMAIN infos = 1..Len(infos)
    OBVIOUS
  <2>2. Of(n) \in SUBSET (1..Len(infos)) /\ Of(n) # {}
    BY <2>1
  <2>3. PICK m \in Of(n) : \A k \in Of(n) : k <= m
    BY <2>1, <2>2, LastPlace
  <2>4. \E i \in DOMAIN infos : IsLast(n, i)
    BY <2>3
  <2>5. QED
    BY <2>4
<1>5. QED
  <2> HIDE DEF Names, Last
  <2> QED
    BY <1>1, <1>2, <1>3, <1>4

--------------------------------------------------------------------------------
(* The inductive invariant.                                                        *)

Working == {"idle", "waiting", "reaping", "started"}
Up == {"started", "closing", "closed"}

\* A connected server holds its session and nobody has cancelled it: what a close or a timeout
\* makes of it is not told by its status.
ConnectedIsHeld ==
    hook \in Working =>
        \A s \in Server : status[s] = "connected" =>
            task[s] = "holding" /\ s \in session /\ s \notin cancelled

\* A server with which initialize is done is starting no more.
PassedAreDecided ==
    /\ hook = "idle" => at = 1 /\ ready = {} /\ \A s \in Server : task[s] = "none"
    /\ \A s \in ready : status[s] # "starting"
    /\ hook \in {"waiting", "reaping"} =>
          \A i \in DOMAIN Order : i < at => status[Order[i]] # "starting"
    /\ hook = "reaping" => Waited \in cancelled /\ status[Waited] # "starting"

McpIndInv == McpIsSound /\ ConnectedIsHeld /\ PassedAreDecided

--------------------------------------------------------------------------------
(* What the assumptions say of the order.                                          *)

LEMMA OrderFacts ==
    ASSUME McpAssumption
    PROVE  /\ Len(Order) \in Nat /\ DOMAIN Order = 1..Len(Order) /\ 1 \in DOMAIN Order
           /\ \A i \in DOMAIN Order : Order[i] \in Server
           /\ \A s \in Server : \E i \in DOMAIN Order : Order[i] = s
BY DEF McpAssumption

\* What an invariant that holds before a step may use.
LEMMA Places ==
    ASSUME McpAssumption, McpTypeOK
    PROVE  at \in DOMAIN Order /\ Waited \in Server
BY OrderFacts DEF McpTypeOK, Waited

--------------------------------------------------------------------------------
(* It holds at the start.                                                          *)

LEMMA McpInvInit ==
    ASSUME McpAssumption, McpInit
    PROVE  McpIndInv
<1>1. McpTypeOK
  <2>1. NoCall \in [st : {"none", "sent", "answered", "failed", "refused"}, server : Server]
    BY OrderFacts DEF NoCall
  <2>2. tools = <<>> /\ DOMAIN tools = {}
    BY DEF McpInit
  <2>3. QED
    BY <2>1, <2>2, OrderFacts DEF McpInit, McpTypeOK, Open
<1>2. NothingLeaks /\ StatusIsTrue /\ ConnectedIsHeld /\ PassedAreDecided
  BY DEF McpInit, NothingLeaks, StatusIsTrue, ConnectedIsHeld, PassedAreDecided, Working
<1>3. NamesAreKept
  BY DEF McpInit, NamesAreKept
<1>4. QED
  BY <1>1, <1>2, <1>3 DEF McpIndInv, McpIsSound

--------------------------------------------------------------------------------
(* The tasks of the servers keep it.                                               *)

\* A server that connects was not given up: it is the only one whose status changes, and its
\* tools join the list.
LEMMA ConnectsKeeps ==
    ASSUME McpAssumption, McpIndInv, NEW s \in Server, Connects(s)
    PROVE  McpIndInv'
<1> USE DEF McpIndInv, McpIsSound
<1>1. at \in DOMAIN Order /\ Waited \in Server
  BY Places
<1>2. McpTypeOK'
  <2>1. Offers[s] \in Seq(Info)
    BY DEF McpAssumption
  <2>2. infos' \in Seq(Info)
    BY <2>1 DEF Connects, McpTypeOK
  <2>3. QED
    BY <2>2 DEF Connects, McpTypeOK, Open
<1>3. NothingLeaks'
  BY DEF Connects, NothingLeaks
<1>4. StatusIsTrue'
  BY <1>1 DEF Connects, StatusIsTrue, McpTypeOK, Waited
<1>5. NamesAreKept'
  BY DEF Connects, NamesAreKept
<1>6. ConnectedIsHeld'
  BY DEF Connects, ConnectedIsHeld, McpTypeOK
<1>7. PassedAreDecided'
  <2>1. hook # "idle"
    BY DEF Connects, PassedAreDecided, Open
  <2>2. \A o \in ready' : status'[o] # "starting"
    BY DEF Connects, PassedAreDecided, McpTypeOK
  <2>3. \A o \in Server : status[o] # "starting" => status'[o] # "starting"
    BY DEF Connects, McpTypeOK
  <2>4. QED
    BY <1>1, <2>1, <2>2, <2>3, OrderFacts DEF Connects, PassedAreDecided, Waited
<1>8. QED
  BY <1>2, <1>3, <1>4, <1>5, <1>6, <1>7

\* A connection that breaks leaves a task that is done.
LEMMA BreaksKeeps ==
    ASSUME McpAssumption, McpIndInv, NEW s \in Server, Breaks(s)
    PROVE  McpIndInv'
<1> USE DEF McpIndInv, McpIsSound
<1>1. at \in DOMAIN Order /\ Waited \in Server
  BY Places
<1>2. McpTypeOK'
  BY DEF Breaks, Failed, McpTypeOK, Open
<1>3. NothingLeaks'
  BY DEF Breaks, NothingLeaks, McpTypeOK
<1>4. StatusIsTrue'
  BY <1>1 DEF Breaks, Failed, StatusIsTrue, McpTypeOK, Waited
<1>5. NamesAreKept'
  BY DEF Breaks, NamesAreKept
<1>6. ConnectedIsHeld'
  BY DEF Breaks, Failed, ConnectedIsHeld, McpTypeOK
<1>7. PassedAreDecided'
  <2>1. hook # "idle"
    BY DEF Breaks, PassedAreDecided, Open
  <2>2. \A o \in ready' : status'[o] # "starting"
    BY DEF Breaks, Failed, PassedAreDecided, McpTypeOK
  <2>3. \A o \in Server : status[o] # "starting" => status'[o] # "starting"
    BY DEF Breaks, Failed, McpTypeOK
  <2>4. QED
    BY <1>1, <2>1, <2>2, <2>3, OrderFacts DEF Breaks, PassedAreDecided, Waited
<1>8. QED
  BY <1>2, <1>3, <1>4, <1>5, <1>6, <1>7

\* No part of the invariant looks at what a task does not see.
LEMMA IsLostKeeps ==
    ASSUME McpAssumption, McpIndInv, NEW s \in Server, IsLost(s)
    PROVE  McpIndInv'
<1> USE DEF McpIndInv, McpIsSound
<1>1. McpTypeOK'
  BY DEF IsLost, McpTypeOK, Open
<1>2. NothingLeaks' /\ StatusIsTrue' /\ NamesAreKept'
  BY DEF IsLost, NothingLeaks, StatusIsTrue, NamesAreKept, Waited
<1>3. ConnectedIsHeld' /\ PassedAreDecided'
  BY DEF IsLost, ConnectedIsHeld, PassedAreDecided, Waited
<1>4. QED
  BY <1>1, <1>2, <1>3

\* A cancelled task that ends is not one of a connected server, but for a close.
LEMMA EndsKeeps ==
    ASSUME McpAssumption, McpIndInv, NEW s \in Server, Ends(s)
    PROVE  McpIndInv'
<1> USE DEF McpIndInv, McpIsSound
<1>1. at \in DOMAIN Order /\ Waited \in Server
  BY Places
<1>2. McpTypeOK'
  BY DEF Ends, Failed, McpTypeOK, Open
<1>3. NothingLeaks'
  BY DEF Ends, NothingLeaks, McpTypeOK
<1>4. StatusIsTrue'
  <2>1. \A o \in Server : status'[o] = "failed" =>
            \/ task'[o] = "done"
            \/ hook' = "reaping" /\ o = Waited'
    BY <1>1 DEF Ends, Failed, StatusIsTrue, McpTypeOK, Waited
  <2>2. hook' \in {"started", "closing", "closed"} =>
            \A o \in Server : status'[o] # "starting"
    BY DEF Ends, Failed, StatusIsTrue, McpTypeOK
  <2>3. hook' = "started" => \A o \in Server : status'[o] = "connected" =>
            task'[o] = "holding" /\ o \in session'
    BY DEF Ends, Failed, StatusIsTrue, ConnectedIsHeld, Working, McpTypeOK
  <2>4. QED
    BY <2>1, <2>2, <2>3 DEF StatusIsTrue
<1>5. NamesAreKept'
  BY DEF Ends, NamesAreKept
<1>6. ConnectedIsHeld'
  BY DEF Ends, Failed, ConnectedIsHeld, McpTypeOK
<1>7. PassedAreDecided'
  <2>1. hook # "idle"
    BY DEF Ends, PassedAreDecided, Open
  <2>2. \A o \in ready' : status'[o] # "starting"
    BY DEF Ends, Failed, PassedAreDecided, McpTypeOK
  <2>3. \A o \in Server : status[o] # "starting" => status'[o] # "starting"
    BY DEF Ends, Failed, McpTypeOK
  <2>4. QED
    BY <1>1, <2>1, <2>2, <2>3, OrderFacts DEF Ends, PassedAreDecided, Waited
<1>8. QED
  BY <1>2, <1>3, <1>4, <1>5, <1>6, <1>7

--------------------------------------------------------------------------------
(* initialize keeps it.                                                            *)

\* All servers are starting, and none was there before.
LEMMA SessionStartKeeps ==
    ASSUME McpAssumption, McpIndInv, SessionStart
    PROVE  McpIndInv'
<1> USE DEF McpIndInv, McpIsSound
<1>1. McpTypeOK'
  BY DEF SessionStart, McpTypeOK, Open
<1>2. NothingLeaks' /\ StatusIsTrue' /\ NamesAreKept'
  BY DEF SessionStart, NothingLeaks, StatusIsTrue, NamesAreKept
<1>3. ConnectedIsHeld'
  BY DEF SessionStart, ConnectedIsHeld
<1>4. PassedAreDecided'
  <2>1. \A i \in DOMAIN Order : ~(i < at)
    BY OrderFacts DEF SessionStart, PassedAreDecided
  <2>2. QED
    BY <2>1 DEF SessionStart, PassedAreDecided
<1>5. QED
  BY <1>1, <1>2, <1>3, <1>4

\* initialize has done with a server that starts no more: it waits for the next one, or the
\* registry gets what was listed.
LEMMA GoesKeeps ==
    ASSUME McpAssumption, McpIndInv, Goes, UNCHANGED <<connections, calls>>,
           hook \in {"waiting", "reaping"}, status[Waited] # "starting",
           hook = "reaping" => task[Waited] = "done"
    PROVE  McpIndInv'
<1> USE DEF McpIndInv, McpIsSound
<1>1. at \in DOMAIN Order /\ Waited \in Server
  BY Places
<1>2. UNCHANGED <<task, cancelled, ready, status, session, infos, lost, calls>>
  BY DEF connections
<1>3. \A i \in DOMAIN Order : i <= at => status[Order[i]] # "starting"
  BY <1>1, OrderFacts DEF PassedAreDecided, Waited
<1>4. \A s \in Server : status[s] = "failed" => task[s] = "done"
  BY DEF StatusIsTrue
<1>5. CASE at < Len(Order)
  <2>1. hook' = "waiting" /\ at' = at + 1 /\ UNCHANGED tools
    BY <1>5 DEF Goes
  <2>2. at + 1 \in 1..Len(Order)
    BY <1>1, <1>5, OrderFacts
  <2>3. McpTypeOK'
    BY <1>2, <2>1, <2>2 DEF McpTypeOK
  <2>4. NothingLeaks' /\ StatusIsTrue' /\ NamesAreKept' /\ ConnectedIsHeld'
    BY <1>2, <1>4, <2>1 DEF NothingLeaks, StatusIsTrue, NamesAreKept, ConnectedIsHeld, Working
  <2>5. \A i \in DOMAIN Order : i < at + 1 => status[Order[i]] # "starting"
    BY <1>1, <1>3, OrderFacts
  <2>6. PassedAreDecided'
    BY <1>2, <2>1, <2>5 DEF PassedAreDecided
  <2>7. QED
    BY <2>3, <2>4, <2>6
<1>6. CASE ~(at < Len(Order))
  <2>1. hook' = "started" /\ tools' = Materialized /\ UNCHANGED at
    BY <1>6 DEF Goes
  <2>2. /\ DOMAIN tools' \subseteq Name \ Builtin
        /\ \A n \in DOMAIN tools' : tools'[n] \in Info /\ Named[tools'[n]] = n
    BY <2>1, MaterializedNames DEF McpTypeOK
  <2>3. McpTypeOK'
    BY <1>2, <2>1, <2>2 DEF McpTypeOK
  <2>4. \A s \in Server : status[s] # "starting"
    BY <1>1, <1>3, <1>6, OrderFacts
  <2>5. ConnectedIsHeld'
    BY <1>2, <2>1 DEF ConnectedIsHeld, Working
  <2>6. StatusIsTrue'
    BY <1>2, <1>4, <2>1, <2>4, <2>5 DEF StatusIsTrue, ConnectedIsHeld, Working
  <2>7. NothingLeaks' /\ NamesAreKept'
    BY <2>1, <2>2 DEF NothingLeaks, NamesAreKept
  <2>8. PassedAreDecided'
    BY <1>2, <2>1 DEF PassedAreDecided
  <2>9. QED
    BY <2>3, <2>5, <2>6, <2>7, <2>8
<1>7. QED
  BY <1>5, <1>6

LEMMA WaitEndsKeeps ==
    ASSUME McpAssumption, McpIndInv, WaitEnds
    PROVE  McpIndInv'
<1>1. status[Waited] # "starting"
  BY DEF WaitEnds, McpIndInv, PassedAreDecided
<1>2. QED
  BY <1>1, GoesKeeps DEF WaitEnds

LEMMA ReapedKeeps ==
    ASSUME McpAssumption, McpIndInv, Reaped
    PROVE  McpIndInv'
<1>1. status[Waited] # "starting"
  BY DEF Reaped, McpIndInv, PassedAreDecided
<1>2. QED
  BY <1>1, GoesKeeps DEF Reaped

\* A server that is given up has failed, and initialize waits for its task.
LEMMA WaitExpiresKeeps ==
    ASSUME McpAssumption, McpIndInv, WaitExpires
    PROVE  McpIndInv'
<1> USE DEF McpIndInv, McpIsSound
<1>1. at \in DOMAIN Order /\ Waited \in Server
  BY Places
<1>2. McpTypeOK'
  BY <1>1 DEF WaitExpires, Failed, McpTypeOK
<1>3. Waited' = Waited
  BY DEF WaitExpires, Waited
<1>4. NothingLeaks' /\ NamesAreKept'
  BY DEF WaitExpires, NothingLeaks, NamesAreKept
<1>5. StatusIsTrue'
  BY <1>1, <1>3 DEF WaitExpires, Failed, StatusIsTrue, McpTypeOK
<1>6. ConnectedIsHeld'
  BY <1>1 DEF WaitExpires, Failed, ConnectedIsHeld, Working, McpTypeOK
<1>7. PassedAreDecided'
  <2>1. status' = Failed(Waited) /\ status'[Waited] = "failed"
    BY <1>1 DEF WaitExpires, Failed, McpTypeOK
  <2>2. \A s \in Server : status[s] # "starting" => status'[s] # "starting"
    BY <2>1 DEF Failed, McpTypeOK
  <2>3. QED
    BY <1>1, <1>3, <2>1, <2>2, OrderFacts DEF WaitExpires, PassedAreDecided, McpTypeOK
<1>8. QED
  BY <1>2, <1>4, <1>5, <1>6, <1>7

--------------------------------------------------------------------------------
(* Calls and the end keep it.                                                      *)

LEMMA CallToolKeeps ==
    ASSUME McpAssumption, McpIndInv, NEW c \in Call, NEW n, CallTool(c, n)
    PROVE  McpIndInv'
<1> USE DEF McpIndInv, McpIsSound
<1>1. tools[n].server \in Server
  BY DEF CallTool, McpTypeOK, McpAssumption
<1>2. McpTypeOK'
  BY <1>1 DEF CallTool, connections, McpTypeOK
<1>3. NothingLeaks' /\ StatusIsTrue' /\ NamesAreKept'
  BY DEF CallTool, connections, NothingLeaks, StatusIsTrue, NamesAreKept, Waited
<1>4. ConnectedIsHeld' /\ PassedAreDecided'
  BY DEF CallTool, connections, ConnectedIsHeld, PassedAreDecided, Waited
<1>5. QED
  BY <1>2, <1>3, <1>4

LEMMA CallReturnsKeeps ==
    ASSUME McpAssumption, McpIndInv, NEW c \in Call, CallReturns(c)
    PROVE  McpIndInv'
<1> USE DEF McpIndInv, McpIsSound
<1>1. PICK st \in {"answered", "failed"} : calls' = [calls EXCEPT ![c].st = st]
  BY DEF CallReturns
<1>2. McpTypeOK'
  BY <1>1 DEF CallReturns, connections, McpTypeOK
<1>3. NothingLeaks' /\ StatusIsTrue' /\ NamesAreKept'
  BY DEF CallReturns, connections, NothingLeaks, StatusIsTrue, NamesAreKept, Waited
<1>4. ConnectedIsHeld' /\ PassedAreDecided'
  BY DEF CallReturns, connections, ConnectedIsHeld, PassedAreDecided, Waited
<1>5. QED
  BY <1>2, <1>3, <1>4

LEMMA SessionEndKeeps ==
    ASSUME McpAssumption, McpIndInv, SessionEnd
    PROVE  McpIndInv'
<1> USE DEF McpIndInv, McpIsSound
<1>1. McpTypeOK'
  BY DEF SessionEnd, McpTypeOK
<1>2. NothingLeaks' /\ StatusIsTrue' /\ NamesAreKept'
  BY DEF SessionEnd, NothingLeaks, StatusIsTrue, NamesAreKept
<1>3. ConnectedIsHeld' /\ PassedAreDecided'
  BY DEF SessionEnd, ConnectedIsHeld, PassedAreDecided, Working
<1>4. QED
  BY <1>1, <1>2, <1>3

LEMMA ClosedKeeps ==
    ASSUME McpAssumption, McpIndInv, Closed
    PROVE  McpIndInv'
<1> USE DEF McpIndInv, McpIsSound
<1>1. McpTypeOK'
  BY DEF Closed, McpTypeOK
<1>2. NothingLeaks' /\ StatusIsTrue' /\ NamesAreKept'
  BY DEF Closed, NothingLeaks, StatusIsTrue, NamesAreKept
<1>3. ConnectedIsHeld' /\ PassedAreDecided'
  BY DEF Closed, ConnectedIsHeld, PassedAreDecided, Working
<1>4. QED
  BY <1>1, <1>2, <1>3

--------------------------------------------------------------------------------

LEMMA McpInvNext ==
    ASSUME McpAssumption, McpIndInv, [McpNext]_mcpVars
    PROVE  McpIndInv'
<1>1. CASE UNCHANGED mcpVars
  <2> USE <1>1 DEF mcpVars, McpIndInv, McpIsSound
  <2>1. McpTypeOK'
    BY DEF McpTypeOK
  <2>2. NothingLeaks' /\ StatusIsTrue' /\ NamesAreKept'
    BY DEF NothingLeaks, StatusIsTrue, NamesAreKept, Waited
  <2>3. ConnectedIsHeld' /\ PassedAreDecided'
    BY DEF ConnectedIsHeld, PassedAreDecided, Waited
  <2>4. QED
    BY <2>1, <2>2, <2>3
<1>2. CASE SessionStart
  BY <1>2, SessionStartKeeps
<1>3. CASE WaitEnds
  BY <1>3, WaitEndsKeeps
<1>4. CASE WaitExpires
  BY <1>4, WaitExpiresKeeps
<1>5. CASE Reaped
  BY <1>5, ReapedKeeps
<1>6. CASE SessionEnd
  BY <1>6, SessionEndKeeps
<1>7. CASE Closed
  BY <1>7, ClosedKeeps
<1>8. CASE \E s \in Server : ServerStep(s)
  BY <1>8, ConnectsKeeps, BreaksKeeps, IsLostKeeps, EndsKeeps DEF ServerStep
<1>9. CASE \E c \in Call : CallReturns(c) \/ \E n \in DOMAIN tools : CallTool(c, n)
  BY <1>9, CallReturnsKeeps, CallToolKeeps
<1>10. QED
  BY <1>1, <1>2, <1>3, <1>4, <1>5, <1>6, <1>7, <1>8, <1>9 DEF McpNext

\* The connections of a runtime, for any servers, tools and names: none outlives the close,
\* what is said of a server is so, and no tool of a server takes a name that was there
\* (features/mcp/runtime.py, plugin.py, materialize.py).
THEOREM ServersSafe ==
    ASSUME McpAssumption
    PROVE  McpSpec => []McpIsSound
<1>1. McpInit => McpIndInv
  BY McpInvInit
<1>2. McpIndInv /\ [McpNext]_mcpVars => McpIndInv'
  BY McpInvNext
<1>3. McpIndInv => McpIsSound
  BY DEF McpIndInv
<1>4. QED
  BY <1>1, <1>2, <1>3, PTL DEF McpSpec
================================================================================
