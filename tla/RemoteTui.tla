------------------------------- MODULE RemoteTui -------------------------------
(* A TUI in remote mode (ws_repl) and the daemon it talks to: requests and their  *)
(* answers over one WebSocket (WebSocketBackend._call, rpc_endpoint), which        *)
(* carries the push events, too; the turns of the session that the TUI is in; Esc  *)
(* and Ctrl+C, which abort a turn; and the trees the renderer draws.               *)
EXTENDS Integers, Sequences, FiniteSets

CONSTANTS
    MaxTurn,        \* bound on the turns of the session, those of other clients included
    MaxRequest,     \* bound on the requests of the TUI
    MaxEvent,       \* bound on the events of a turn but its end
    QueueMax,       \* SUBSCRIBER_QUEUE_MAX, of the daemon's queue and of the client's
    GapDrop         \* SUBSCRIBER_GAP_DROP

VARIABLES
    link,           \* "open", "lost" or "closed"
    up, down,       \* frames on their way to the daemon and to the client
    handled,        \* the request the connection's read loop is awaiting
    turns,          \* the turns of the session, in the order they began
    outbox,         \* the queue of the connection's subscriber
    calls,          \* the requests: what became of each _call
    pending,        \* _pending_requests
    sub,            \* the client's subscriber of this turn: open, queue, unended
    repl,           \* where ws_repl stands, its request, its turn
    esc,            \* where _abort_on_escape stands, and its request
    view,           \* the renderer: events shown, gap shown, the trees
    dropped         \* history: the turns of which a queue has dropped an event
tuiVars == <<link, up, down, handled, turns, outbox, calls, pending, sub, repl, esc, view, dropped>>

None == 0
Request == DOMAIN calls
Turn == DOMAIN turns
Latest == Len(turns)
Running == {t \in Turn : turns[t].runs}
NewView == [shown |-> 0, gap |-> FALSE, over |-> FALSE, tool |-> "none", toolLive |-> FALSE,
            run |-> "none", runLive |-> FALSE]
NoSub == [open |-> FALSE, queue |-> <<>>, unended |-> FALSE]

TuiInit ==
    /\ link = "open"
    /\ up = <<>> /\ down = <<>>
    /\ handled = None
    /\ turns = <<>>
    /\ outbox = <<>>
    /\ calls = <<>>
    /\ pending = {}
    /\ sub = NoSub
    /\ repl = [pc |-> "prompt", call |-> None, turn |-> None]
    /\ esc = [pc |-> "off", call |-> None]
    /\ view = NewView
    /\ dropped = {}

--------------------------------------------------------------------------------
(* The queues.                                                                    *)

Event(type, t) == [kind |-> "event", type |-> type, turn |-> t]
Gap == [kind |-> "gap", type |-> "gap", turn |-> None]

Truncated(q) == SubSeq(q, 1, IF Len(q) <= QueueMax THEN Len(q) ELSE QueueMax)

\* _Subscriber.push.
Push(q, item) ==
    IF Len(q) < QueueMax THEN Append(q, item)
    ELSE Truncated(SubSeq(q, GapDrop + 1, Len(q)) \o <<Gap, item>>)

\* The turns of the events that a push drops.
Lost(q) == IF Len(q) < QueueMax THEN {} ELSE {q[i].turn : i \in 1 .. GapDrop}

\* _Subscriber.close: a full queue gets no end.
Closed(s) ==
    IF ~s.open THEN s
    ELSE [open |-> FALSE, queue |-> Truncated(Append(s.queue, [Gap EXCEPT !.kind = "end"])),
          unended |-> Len(s.queue) >= QueueMax]

--------------------------------------------------------------------------------
(* _call.                                                                         *)

Over == [pc |-> "over", answer |-> None]

\* What is pending has failed.
Failed == [r \in Request |-> IF r \in pending /\ calls[r].pc = "waiting" THEN Over ELSE calls[r]]

\* Mutant: a request that cannot be sent stays in the table.
AskedInVain(method, t) ==
    /\ Len(calls) < MaxRequest
    /\ calls' = Append(calls, IF link = "open" THEN [Over EXCEPT !.pc = "waiting"] ELSE Over)
    /\ pending' = pending \cup {Len(calls) + 1}
    /\ up' = IF link = "open" THEN Append(up, [id |-> Len(calls) + 1, method |-> method, turn |-> t]) ELSE up

Ask(method, t) ==
    /\ Len(calls) < MaxRequest
    /\ IF link = "open"
       THEN /\ calls' = Append(calls, [pc |-> "waiting", answer |-> None])
            /\ pending' = pending \cup {Len(calls) + 1}
            /\ up' = Append(up, [id |-> Len(calls) + 1, method |-> method, turn |-> t])
       ELSE \* send raises: the entry is taken back.
            /\ calls' = Append(calls, Over)
            /\ UNCHANGED <<pending, up>>

\* wait_for gives up: the entry is taken back, an answer that comes later is ignored.
TimesOut(r) ==
    /\ calls[r].pc = "waiting"
    /\ calls' = [calls EXCEPT ![r] = Over]
    /\ pending' = pending \ {r}
    /\ UNCHANGED <<link, up, down, handled, turns, outbox, sub, repl, esc, view, dropped>>

--------------------------------------------------------------------------------
(* The daemon.                                                                    *)

\* _emit.
Emits(type, t) ==
    IF link = "open"
    THEN outbox' = Push(outbox, Event(type, t)) /\ dropped' = dropped \cup Lost(outbox)
    ELSE UNCHANGED <<outbox, dropped>>

NewTurn(own) == Append(turns, [runs |-> TRUE, own |-> own, said |-> 0, tool |-> "none", run |-> "none"])

Respond(r, answer) == down' = Append(down, [kind |-> "response", type |-> "response",
                                            id |-> r, turn |-> answer])

\* The read loop takes the next request when the last one is answered. chat.send begins a
\* turn, or is told BUSY; chat.abort of a turn that is over has nothing to do.
Handle ==
    /\ link = "open" /\ handled = None /\ up # <<>>
    /\ LET request == Head(up)
       IN  /\ up' = Tail(up)
           /\ IF request.method = "chat.send"
              THEN /\ IF Running = {} /\ Latest < MaxTurn
                      THEN turns' = NewTurn(TRUE) /\ Respond(request.id, Latest + 1)
                      ELSE UNCHANGED turns /\ Respond(request.id, None)
                   /\ UNCHANGED handled
              ELSE /\ IF request.turn \in Running THEN handled' = request.id /\ UNCHANGED down
                      ELSE Respond(request.id, request.turn) /\ UNCHANGED handled
                   /\ UNCHANGED turns
    /\ UNCHANGED <<link, outbox, calls, pending, sub, repl, esc, view, dropped>>

\* chat.abort has cancelled the task of its turn and awaited it.
AbortEnds ==
    /\ link = "open" /\ handled # None
    /\ Running = {}
    /\ Respond(handled, Latest)
    /\ handled' = None
    /\ UNCHANGED <<link, up, turns, outbox, calls, pending, sub, repl, esc, view, dropped>>

\* Another client of the daemon begins a turn of the session.
OtherTurn ==
    /\ Running = {} /\ Latest < MaxTurn
    /\ turns' = NewTurn(FALSE)
    /\ UNCHANGED <<link, up, down, handled, outbox, calls, pending, sub, repl, esc, view, dropped>>

\* A turn streams text or calls, runs tools, and spawns subagents; of one of another client
\* it is enough that it says something.
TurnSays(t) ==
    /\ turns[t].runs /\ turns[t].said < MaxEvent
    /\ \E type \in {"text", "tool", "result", "spawned", "announced"} :
        /\ ~turns[t].own => type = "text"
        /\ turns[t].said > 0 => type \in {"result", "announced", "spawned"}
        /\ type = "result" => turns[t].tool = "open"
        /\ type = "announced" => turns[t].run = "open"
        /\ turns' = [turns EXCEPT ![t].said = @ + 1,
                                  ![t].tool = CASE type = "tool" -> "open"
                                                [] type = "result" -> "none"
                                                [] OTHER -> @,
                                  ![t].run = CASE type = "spawned" -> "open"
                                               [] type = "announced" -> "none"
                                               [] OTHER -> @]
        /\ Emits(type, t)
    /\ UNCHANGED <<link, up, down, handled, calls, pending, sub, repl, esc, view>>

\* turn.done, turn.error or turn.cancelled, whatever tools are open.
TurnEnds(t) ==
    /\ turns[t].runs
    /\ turns' = [turns EXCEPT ![t].runs = FALSE, ![t].said = @ + 1,
                              ![t].tool = "none", ![t].run = "none"]
    /\ Emits("end", t)
    /\ UNCHANGED <<link, up, down, handled, calls, pending, sub, repl, esc, view>>

\* push_pump.
Pump ==
    /\ link = "open" /\ outbox # <<>>
    /\ down' = Append(down, Head(outbox))
    /\ outbox' = Tail(outbox)
    /\ UNCHANGED <<link, up, handled, turns, calls, pending, sub, repl, esc, view, dropped>>

\* The connection breaks: the daemon's read loop and push task end, the client's receive
\* loop fails what is pending and closes the subscribers.
LinkBreaks ==
    /\ link = "open"
    /\ link' = "lost"
    /\ up' = <<>> /\ down' = <<>> /\ handled' = None /\ outbox' = <<>>
    /\ calls' = Failed
    /\ pending' = {}
    /\ sub' = Closed(sub)
    /\ UNCHANGED <<turns, repl, esc, view, dropped>>

--------------------------------------------------------------------------------
(* The client's receive loop.                                                     *)

\* _resolve_response, _dispatch_push.
Receive ==
    /\ link = "open" /\ down # <<>>
    /\ LET frame == Head(down)
       IN  IF frame.kind = "response"
           THEN /\ calls' = IF frame.id \in pending /\ calls[frame.id].pc = "waiting"
                            THEN [calls EXCEPT ![frame.id] = [pc |-> "over", answer |-> frame.turn]]
                            ELSE calls
                /\ pending' = pending \ {frame.id}
                /\ UNCHANGED <<sub, dropped>>
           ELSE /\ IF sub.open /\ frame.kind = "event"    \* a gap names no session
                   THEN /\ sub' = [sub EXCEPT !.queue = Push(@, frame)]
                        /\ dropped' = dropped \cup Lost(sub.queue)
                   ELSE UNCHANGED <<sub, dropped>>
                /\ UNCHANGED <<calls, pending>>
    /\ down' = Tail(down)
    /\ UNCHANGED <<link, up, handled, turns, outbox, repl, esc, view>>

--------------------------------------------------------------------------------
(* ws_repl.                                                                       *)

Opened == [open |-> TRUE, queue |-> <<>>, unended |-> FALSE]

\* A line of the user: the TUI subscribes, then sends it.
Send ==
    /\ repl.pc = "prompt"
    /\ Ask("chat.send", None)
    /\ repl' = [pc |-> "sending", call |-> Len(calls) + 1, turn |-> None]
    /\ sub' = Opened
    /\ view' = NewView
    /\ UNCHANGED <<link, down, handled, turns, outbox, esc, dropped>>

\* chat_send has returned the turn, or raised.
Sent ==
    /\ repl.pc = "sending" /\ calls[repl.call].pc # "waiting"
    /\ IF calls[repl.call].answer = None
       THEN repl' = [repl EXCEPT !.pc = "prompt"] /\ UNCHANGED <<esc, sub>>
       ELSE /\ repl' = [repl EXCEPT !.pc = "streaming", !.turn = calls[repl.call].answer]
            /\ esc' = [pc |-> "watching", call |-> None]
            /\ sub' = IF sub.open \/ sub.queue # <<>> THEN sub ELSE Opened
    /\ calls' = [calls EXCEPT ![repl.call] = Over]
    /\ UNCHANGED <<link, up, down, handled, turns, outbox, pending, view, dropped>>

\* The tree of subagents; a spawn takes over from the tree of tools.
SubagentDrawn(v, type) ==
    CASE type = "spawned" -> [v EXCEPT !.tool = IF v.toolLive THEN "none" ELSE @, !.toolLive = FALSE,
                                       !.run = "open", !.runLive = TRUE]
      [] type = "announced" -> [v EXCEPT !.run = "none", !.runLive = FALSE]
      [] OTHER -> v

\* The tree of tools, drawn until every tool in it has a result.
ToolDrawn(v, type) ==
    CASE type = "tool" -> [v EXCEPT !.tool = "open", !.toolLive = TRUE]
      [] type = "result" /\ v.tool = "open" -> [v EXCEPT !.tool = "done", !.toolLive = FALSE]
      [] OTHER -> v

\* At the end of the turn each tree is closed if everything in it is done; then it is already.
Rendered(v, type) ==
    [SubagentDrawn(ToolDrawn(v, type), type) EXCEPT !.shown = @ + 1, !.over = (type = "end")]

\* The task of _abort_on_escape is cancelled; a request of it stays in the table until its
\* answer comes.
StopsWatching ==
    /\ esc' = [pc |-> "off", call |-> None]
    /\ calls' = IF esc.call = None THEN calls ELSE [calls EXCEPT ![esc.call] = Over]

\* Of the session's events those of this turn.
Own(item) == item.kind = "event" /\ item.turn = repl.turn

\* The next event of the iterator, or its end.
Take ==
    /\ repl.pc = "streaming" /\ sub.queue # <<>>
    /\ LET item == Head(sub.queue)
       IN  IF item.kind = "end" \/ (Own(item) /\ item.type = "end")
           THEN /\ repl' = [repl EXCEPT !.pc = "prompt"]
                /\ StopsWatching
                /\ sub' = NoSub
                /\ view' = IF item.kind = "end" THEN view ELSE Rendered(view, "end")
           ELSE /\ sub' = [sub EXCEPT !.queue = Tail(@)]
                /\ view' = IF item.kind = "gap" THEN [view EXCEPT !.gap = TRUE]
                           ELSE IF Own(item) THEN Rendered(view, item.type) ELSE view
                /\ UNCHANGED <<repl, esc, calls>>
    /\ UNCHANGED <<link, up, down, handled, turns, outbox, pending, dropped>>

\* Esc: the token flips, and the poller sends chat.abort.
Escape ==
    /\ esc.pc = "watching"
    /\ Ask("chat.abort", repl.turn)
    /\ esc' = [pc |-> "aborting", call |-> Len(calls) + 1]
    /\ UNCHANGED <<link, down, handled, turns, outbox, sub, repl, view, dropped>>

\* Ctrl+C: the stream is left, and its turn aborted.
Interrupt ==
    /\ repl.pc = "streaming"
    /\ Len(calls) < MaxRequest
    /\ repl' = [repl EXCEPT !.pc = "interrupted"]
    /\ StopsWatching
    /\ UNCHANGED <<link, up, down, handled, turns, outbox, pending, sub, view, dropped>>

Aborts ==
    /\ repl.pc = "interrupted"
    /\ Ask("chat.abort", repl.turn)
    /\ repl' = [repl EXCEPT !.pc = "aborting", !.call = Len(calls) + 1]
    /\ UNCHANGED <<link, down, handled, turns, outbox, sub, esc, view, dropped>>

Aborted ==
    /\ repl.pc = "aborting" /\ calls[repl.call].pc # "waiting"
    /\ repl' = [repl EXCEPT !.pc = "prompt", !.call = None]
    /\ sub' = NoSub
    /\ UNCHANGED <<link, up, down, handled, turns, outbox, calls, pending, esc, view, dropped>>

\* /quit: aclose.
Quit ==
    /\ repl.pc = "prompt"
    /\ repl' = [repl EXCEPT !.pc = "gone"]
    /\ link' = "closed"
    /\ up' = <<>> /\ down' = <<>> /\ handled' = None /\ outbox' = <<>>
    /\ calls' = Failed
    /\ pending' = {}
    /\ sub' = NoSub
    /\ UNCHANGED <<turns, esc, view, dropped>>

ClientStep == Receive \/ Sent \/ Take \/ Aborts \/ Aborted
DaemonStep == Handle \/ AbortEnds \/ Pump \/ (\E t \in Turn : TurnEnds(t))
TimeoutStep == \E r \in Request : TimesOut(r)

TuiNext ==
    \/ ClientStep \/ DaemonStep \/ TimeoutStep
    \/ Send \/ Escape \/ Interrupt \/ Quit
    \/ OtherTurn \/ LinkBreaks
    \/ \E t \in Turn : TurnSays(t)

\* Both event loops go on, turns end, and requests time out.
TuiSpec == TuiInit /\ [][TuiNext]_tuiVars /\ WF_tuiVars(ClientStep) /\ WF_tuiVars(DaemonStep) /\ WF_tuiVars(TimeoutStep)

--------------------------------------------------------------------------------

\* A stream that came to its end has shown the whole of the turn its own line began: no
\* event that came before the answer of chat.send is missed, none of another turn counts.
OwnTurnIsShown ==
    view.over =>
        /\ turns[repl.turn].own /\ ~turns[repl.turn].runs
        /\ repl.turn \notin dropped => view.shown = turns[repl.turn].said

\* An entry of the table is awaited, or its answer is under way.
PendingIsAnswered ==
    \A r \in pending :
        \/ calls[r].pc = "waiting"
        \/ r = handled
        \/ \E i \in DOMAIN up : up[i].id = r
        \/ \E i \in DOMAIN down : down[i].kind = "response" /\ down[i].id = r

\* ws_repl: "Make sure any half-open Live trees flush before we move on."
LiveIsFlushed == repl.pc = "prompt" => ~view.toolLive /\ ~view.runLive

\* The prompt comes back.
PromptReturns == repl.pc # "prompt" ~> \/ repl.pc \in {"prompt", "gone"}
                                       \/ sub.unended
                                       \/ repl.turn \in dropped
================================================================================
