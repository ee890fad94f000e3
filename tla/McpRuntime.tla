------------------------------ MODULE McpRuntime ------------------------------
(* The connections of a runtime to its MCP servers (McpRuntime), from the hook    *)
(* session_start that opens them to session_end that closes them (McpPlugin), and  *)
(* the tools of the servers in the registry of the runtime                         *)
(* (materialize_mcp_tools).  One task holds each connection open.                   *)
EXTENDS Naturals, Sequences

CONSTANTS
    Server,         \* the configured servers
    Order,          \* the servers in the order of the configuration
    Valid,          \* those whose configuration names a command or a url
    Info,           \* the tools that servers have: records with server and tool
    Offers,         \* what a server answers to list_tools: a sequence of Info
    Named,          \* the registry's name of a tool, sanitised: names may collide
    Builtin,        \* the names that are in the registry before session_start
    Call            \* the calls that turns make, bounded

McpAssumption ==
    /\ Order \in Seq(Server) /\ Order # <<>>
    /\ \A s \in Server : \E i \in DOMAIN Order : Order[i] = s
    /\ \A i, j \in DOMAIN Order : Order[i] = Order[j] => i = j
    /\ Valid \subseteq Server
    /\ \A x \in Info : x.server \in Server
    /\ Offers \in [Server -> Seq(Info)]
    /\ \A s \in Server : \A i \in DOMAIN Offers[s] : Offers[s][i].server = s

VARIABLES
    hook,           \* where the life of the runtime stands
    at,             \* the place in Order of the server that initialize waits for
    task,           \* what the task of a server does
    cancelled,      \* the servers whose task was cancelled
    ready,          \* the servers whose ready event is set
    status,         \* _server_status
    session,        \* the servers in _sessions
    infos,          \* _tool_infos
    tools,          \* the names that session_start registered, with what they call
    lost,           \* the servers that are gone, though their task does not know
    calls           \* what became of a call, and its server

mcpVars == <<hook, at, task, cancelled, ready, status, session, infos, tools, lost, calls>>
connections == <<task, cancelled, ready, status, session, infos, lost>>

NoCall == [st |-> "none", server |-> Order[1]]
Name == {Named[x] : x \in Info}
Open == {"connecting", "holding"}
Waited == Order[at]

McpTypeOK ==
    /\ hook \in {"idle", "waiting", "reaping", "started", "closing", "closed"}
    /\ at \in 1..Len(Order)
    /\ task \in [Server -> Open \cup {"none", "done"}]
    /\ {cancelled, ready, session, lost} \subseteq SUBSET Server
    /\ status \in [Server -> {"none", "starting", "connected", "failed"}]
    /\ infos \in Seq(Info)
    /\ DOMAIN tools \subseteq Name /\ \A n \in DOMAIN tools : tools[n] \in Info
    /\ calls \in [Call -> [st : {"none", "sent", "answered", "failed", "refused"},
                           server : Server]]

McpInit ==
    /\ hook = "idle" /\ at = 1
    /\ task = [s \in Server |-> "none"]
    /\ cancelled = {} /\ ready = {} /\ session = {} /\ lost = {}
    /\ status = [s \in Server |-> "none"]
    /\ infos = <<>> /\ tools = <<>>
    /\ calls = [c \in Call |-> NoCall]

--------------------------------------------------------------------------------
(* The tasks of the servers.                                                       *)

\* _mark_failed.
Failed(s) == [status EXCEPT ![s] = "failed"]

\* A server answers initialize and list_tools: its tools are listed, and the task holds
\* the connection until it is cancelled.
Connects(s) ==
    /\ task[s] = "connecting" /\ s \in Valid /\ s \notin cancelled
    /\ infos' = infos \o Offers[s]
    /\ session' = session \cup {s}
    /\ status' = [status EXCEPT ![s] = "connected"]
    /\ ready' = ready \cup {s}
    /\ task' = [task EXCEPT ![s] = "holding"]
    /\ UNCHANGED <<hook, at, cancelled, tools, lost, calls>>

\* The configuration has no transport, connecting raises, or the transport of an open
\* connection does: what the server has listed, and its session, stay.
Breaks(s) ==
    /\ task[s] \in Open /\ s \notin cancelled
    /\ task' = [task EXCEPT ![s] = "done"]
    /\ status' = Failed(s)
    /\ ready' = ready \cup {s}
    /\ UNCHANGED <<hook, at, cancelled, session, infos, tools, lost, calls>>

\* The process of a stdio server ends, or a server stops to answer: its task sees nothing.
IsLost(s) ==
    /\ task[s] = "holding" /\ s \notin lost
    /\ lost' = lost \cup {s}
    /\ UNCHANGED <<hook, at, task, cancelled, ready, status, session, infos, tools, calls>>

\* A cancelled task has left its contexts; leaving them may raise.
Ends(s) ==
    /\ task[s] \in Open /\ s \in cancelled
    /\ task' = [task EXCEPT ![s] = "done"]
    /\ \/ UNCHANGED <<ready, status>>
       \/ ready' = ready \cup {s} /\ status' = Failed(s)
    /\ UNCHANGED <<hook, at, cancelled, session, infos, tools, lost, calls>>

--------------------------------------------------------------------------------
(* initialize, and the registration of the tools.                                  *)

\* A task for each server; none has run when initialize comes to its first wait.
SessionStart ==
    /\ hook = "idle"
    /\ hook' = "waiting"
    /\ task' = [s \in Server |-> "connecting"]
    /\ status' = [s \in Server |-> "starting"]
    /\ UNCHANGED <<at, cancelled, ready, session, infos, tools, lost, calls>>

\* materialize_mcp_tools and the registration: a name of the registry is skipped, among
\* equal names of servers the last one stays.
Materialized ==
    LET Free(i) == Named[infos[i]] \notin Builtin
        Last(n) == CHOOSE i \in DOMAIN infos :
                      /\ Named[infos[i]] = n
                      /\ \A j \in DOMAIN infos : Named[infos[j]] = n => j <= i
    IN [n \in {Named[infos[i]] : i \in {i \in DOMAIN infos : Free(i)}} |-> infos[Last(n)]]

\* initialize has done with the server it waited for.
Goes ==
    IF at < Len(Order)
    THEN hook' = "waiting" /\ at' = at + 1 /\ UNCHANGED tools
    ELSE hook' = "started" /\ tools' = Materialized /\ UNCHANGED at

WaitEnds ==
    /\ hook = "waiting" /\ Waited \in ready
    /\ Goes
    /\ UNCHANGED <<connections, calls>>

\* Mutant: initialize does not wait for a task it gave up.
WaitExpiresAtOnce ==
    /\ hook = "waiting"
    /\ status' = Failed(Waited)
    /\ cancelled' = cancelled \cup {Waited}
    /\ Goes
    /\ UNCHANGED <<task, ready, session, infos, lost, calls>>

\* connectionTimeoutMs is over.  A server may have become ready in the same pass of the
\* event loop: wait_for raises nevertheless.
WaitExpires ==
    /\ hook = "waiting"
    /\ hook' = "reaping"
    /\ status' = Failed(Waited)
    /\ cancelled' = cancelled \cup {Waited}
    /\ UNCHANGED <<at, task, ready, session, infos, tools, lost, calls>>

\* The gather over the cancelled task returns.
Reaped ==
    /\ hook = "reaping" /\ task[Waited] = "done"
    /\ Goes
    /\ UNCHANGED <<connections, calls>>

--------------------------------------------------------------------------------
(* Calls of the tools, and the end.                                                *)

\* The tool of a name is called (call_tool): a server without a session is refused.
CallTool(c, n) ==
    /\ hook \in {"started", "closing", "closed"}
    /\ calls[c].st = "none" /\ n \in DOMAIN tools
    /\ LET s == tools[n].server
       IN calls' = [calls EXCEPT ![c] =
                      [st |-> IF s \in session THEN "sent" ELSE "refused", server |-> s]]
    /\ UNCHANGED <<hook, at, connections, tools>>

Alive(s) == task[s] = "holding" /\ s \notin lost

\* A call has no timeout: it is answered by a live connection, and fails with a dead one.
CallReturns(c) ==
    /\ calls[c].st = "sent"
    /\ \E st \in IF Alive(calls[c].server) THEN {"answered", "failed"} ELSE {"failed"} :
          calls' = [calls EXCEPT ![c].st = st]
    /\ UNCHANGED <<hook, at, connections, tools>>

\* close, from AgentRuntime.close: all tasks are cancelled and waited for.
SessionEnd ==
    /\ hook = "started"
    /\ hook' = "closing"
    /\ cancelled' = Server
    /\ UNCHANGED <<at, task, ready, status, session, infos, tools, lost, calls>>

Closed ==
    /\ hook = "closing" /\ \A s \in Server : task[s] = "done"
    /\ hook' = "closed"
    /\ session' = {} /\ infos' = <<>> /\ ready' = {}
    /\ UNCHANGED <<at, task, cancelled, status, tools, lost, calls>>

ServerStep(s) == Connects(s) \/ Breaks(s) \/ IsLost(s) \/ Ends(s)
McpNext ==
    \/ SessionStart \/ WaitEnds \/ WaitExpires \/ Reaped \/ SessionEnd \/ Closed
    \/ \E s \in Server : ServerStep(s)
    \/ \E c \in Call : CallReturns(c) \/ \E n \in DOMAIN tools : CallTool(c, n)

\* The loop resumes what waits, timers expire, and a cancelled task ends (stdio_client kills
\* a server that does not).  No server need answer.
McpFairness ==
    /\ WF_mcpVars(WaitEnds) /\ WF_mcpVars(WaitExpires) /\ WF_mcpVars(Reaped)
    /\ WF_mcpVars(Closed) /\ \A s \in Server : WF_mcpVars(Ends(s))

McpSpec == McpInit /\ [][McpNext]_mcpVars /\ McpFairness

--------------------------------------------------------------------------------
(* Properties.                                                                     *)

\* After close of the runtime no connection is open: no task, session or tool of it is left,
\* however its servers came and went (runtime.py close).
NothingLeaks ==
    hook = "closed" => /\ \A s \in Server : task[s] = "done"
                       /\ session = {} /\ infos = <<>>

\* What the status says is so: a failed server has no task, but for the one initialize is
\* giving up; when initialize is done no server is "starting"; a connected one holds its
\* session until close (runtime.py _mark_failed, _manage_session, initialize).
StatusIsTrue ==
    /\ \A s \in Server :
          status[s] = "failed" => \/ task[s] = "done"
                                  \/ hook = "reaping" /\ s = Waited
    /\ hook \in {"started", "closing", "closed"} => \A s \in Server : status[s] # "starting"
    /\ hook = "started" =>
          \A s \in Server : status[s] = "connected" => task[s] = "holding" /\ s \in session

\* A server's tools never take a name the registry had, and each name of a server's tool that
\* is registered calls a tool of that name (materialize_mcp_tools).
NamesAreKept ==
    \A n \in DOMAIN tools : n \notin Builtin /\ Named[tools[n]] = n

McpIsSound == McpTypeOK /\ NothingLeaks /\ StatusIsTrue /\ NamesAreKept

\* A server that hangs delays the start of the runtime, and its close, but ends neither.
StartEnds == hook = "waiting" ~> hook = "started"
CloseEnds == hook = "closing" ~> hook = "closed"
================================================================================
