---- MODULE MCRuntimeUpdate ----
(* The hot swap of the daemon's runtime, the MCP servers of one runtime, and a remote TUI  *)
(* with the connection that a daemon keeps through the swap.  The swap touches neither    *)
(* connections nor queues, and each runtime has servers of its own, so a behaviour is     *)
(* about one of the three.                                                                *)
EXTENDS RuntimeUpdate, McpRuntime

CONSTANTS MaxTurn, MaxRequest, MaxEvent, QueueMax, GapDrop, a, b, c
VARIABLES link, up, down, handled, turns, outbox, rpc, pending, sub, repl, esc, view,
          dropped, about

T == INSTANCE RemoteTui WITH calls <- rpc

ASSUME {MaxTurn, MaxRequest, MaxEvent, QueueMax, GapDrop} \subseteq Nat

Tool(server, name) == [server |-> server, tool |-> name]

\* Two servers whose tools get one name, and a tool with the name of a built-in one.
MCOrder == <<a, b, c>>
MCInfo == {Tool(a, "x"), Tool(a, "y"), Tool(b, "x"), Tool(c, "x")}
MCOffers == [s \in Server |-> IF s = a THEN <<Tool(a, "x"), Tool(a, "y")>> ELSE <<Tool(s, "x")>>]
MCNamed == [i \in MCInfo |-> IF i = Tool(a, "y") THEN "bash"
                             ELSE IF i.server = c THEN "c__x" ELSE "ab__x"]

ASSUME McpAssumption

tui == <<link, up, down, handled, turns, outbox, rpc, pending, sub, repl, esc, view, dropped>>

MCInit == GuardInit /\ T!TuiInit /\ McpInit /\ about \in {"swap", "tui", "mcp"}

MCSwap == about = "swap" /\ GuardNext /\ UNCHANGED <<tui, mcpVars, about>>
MCTui == about = "tui" /\ T!TuiNext /\ UNCHANGED <<guardVars, mcpVars, about>>
MCServers == about = "mcp" /\ McpNext /\ UNCHANGED <<guardVars, tui, about>>

MCSpec ==
    /\ MCInit
    /\ [][MCSwap \/ MCTui \/ MCServers]_<<guardVars, tui, mcpVars, about>>
    /\ \A u \in Update : WF_guardVars(UpdateProgress(u))
    /\ WF_tui(about = "tui" /\ T!ClientStep)
    /\ WF_tui(about = "tui" /\ T!DaemonStep)
    /\ WF_tui(about = "tui" /\ T!TimeoutStep)
    /\ McpFairness

\* The TUI shows the whole of its own turn, and every request of its table is awaited or
\* is being answered.
TuiIsSound == T!OwnTurnIsShown /\ T!PendingIsAnswered

\* An update ends, the prompt of the TUI comes back, and servers that hang end neither the
\* start of a runtime nor its close.
WaitersGoOn == UpdateEnds /\ T!PromptReturns /\ StartEnds /\ CloseEnds
====
