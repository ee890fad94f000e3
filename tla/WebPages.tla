------------------------------- MODULE WebPages -------------------------------
(* The sessions of the daemon as the pages of the web UI see them: the websocket of *)
(* a page and the routes of the sessions (adapters/webui/server.py), the commands   *)
(* about sessions (services/slash.py), and what the page makes of it (app.js).      *)
(* A page talks over two ways at once: a request of HTTP may be answered before or  *)
(* after what its socket carries.  Queues do not overflow here; what an overflow    *)
(* does is in EventStream.                                                          *)
EXTENDS Naturals, Sequences, SequencesExt, FiniteSets

CONSTANTS Page, MaxSession, MaxTurn, MaxAct, MaxDrop

VARIABLES
    store,   \* the manager: sessions made, blank ones in order, those on disk, the last one
    turns,   \* the turns: their session, how far, whether they were aborted
    conn,    \* per page its socket, and what the endpoint of the daemon keeps for it
    page,    \* per page the session it shows, the turns it takes for running, those it knows
    answer,  \* per page the answer to a request of HTTP that is on its way
    acts,    \* what users have done so far, bounded
    drops    \* sockets that were lost so far, bounded

pagesVars == <<store, turns, conn, page, answer, acts, drops>>

Sessions == 1 .. MaxSession
None == 0
NoAnswer == [session |-> None, active |-> None]

\* The daemon starts with or without a session on disk.
PagesInit ==
    /\ store \in {[made |-> n, blank |-> <<>>, kept |-> 1 .. n, last |-> n] : n \in 0 .. 1}
    /\ turns = <<>>
    /\ conn = [p \in Page |-> [st |-> "off", asked |-> None, up |-> <<>>, down |-> <<>>,
                               queue |-> <<>>, current |-> None, knows |-> {},
                               stops |-> None, deletes |-> None, hasty |-> FALSE]]
    /\ page = [p \in Page |-> [shown |-> None, running |-> [s \in Sessions |-> None],
                               known |-> {}]]
    /\ answer = [p \in Page |-> NoAnswer]
    /\ acts = 0 /\ drops = 0

--------------------------------------------------------------------------------
(* The sessions.                                                                   *)

Exists(m, s) == s \in m.kept \cup ToSet(m.blank)

Live(t) == turns[t].st \in {"new", "running"}
\* active_turn_id
Active(s) ==
    LET on == {t \in DOMAIN turns : turns[t].session = s /\ Live(t)}
    IN  IF on = {} THEN None ELSE CHOOSE t \in on : TRUE

Created(m) == [m EXCEPT !.made = @ + 1, !.blank = Append(@, m.made + 1)]

\* get_or_load without an id: the newest blank session, the last one, or a new one.
Fallback(m) ==
    IF m.blank # <<>> THEN [store |-> m, session |-> Last(m.blank)]
    ELSE IF m.last # None THEN [store |-> m, session |-> m.last]
    ELSE [store |-> Created(m), session |-> m.made + 1]

\* What a connection falls back on when its session is gone.
FoundOr(m, s) == IF Exists(m, s) THEN [store |-> m, session |-> s] ELSE Fallback(m)

Saved(m, s) == IF s \in m.kept THEN [m EXCEPT !.last = s] ELSE m

\* select: the other blank sessions go, unless a turn runs in them.
Selected(m, s) ==
    Saved([m EXCEPT !.blank = SelectSeq(@, LAMBDA b : b = s \/ Active(b) # None)], s)

Deleted(m, s) ==
    [m EXCEPT !.blank = SelectSeq(@, LAMBDA b : b # s), !.kept = @ \ {s},
              !.last = IF @ = s THEN None ELSE @]

Bounded == store'.made <= MaxSession

--------------------------------------------------------------------------------
(* What goes to the pages.                                                         *)

Update(s, activate, deleted) ==
    [type |-> "session", session |-> s, active |-> Active(s), activate |-> activate,
     deleted |-> deleted, turn |-> None]
Note(type, s, t) ==
    [type |-> type, session |-> s, active |-> None, activate |-> FALSE, deleted |-> None,
     turn |-> t]

\* A frame is sent unless the socket is gone.
Sent(c, m) == IF c.st = "open" THEN [c EXCEPT !.down = Append(@, m)] ELSE c

\* _emit: every subscriber has it in its queue.
Emitted(type, s, t) ==
    [p \in Page |-> IF conn[p].st = "open"
                    THEN [conn[p] EXCEPT !.queue = Append(@, [type |-> type, session |-> s, turn |-> t])]
                    ELSE conn[p]]

\* push_pump and _webui_payloads_from_push: an update is about the session of the connection
\* if it has one, whichever session has changed.
Pumps(p) ==
    /\ conn[p].st = "open" /\ conn[p].queue # <<>>
    /\ LET e == Head(conn[p].queue)
           c == [conn[p] EXCEPT !.queue = Tail(@),
                                !.knows = IF e.turn = None THEN @ ELSE @ \cup {e.turn}]
           found == FoundOr(store, IF c.current # None THEN c.current ELSE e.session)
       IN  IF e.type = "changed"
           THEN /\ store' = found.store
                /\ conn' = [conn EXCEPT ![p] = Sent(c, Update(found.session, FALSE, None))]
           ELSE /\ conn' = [conn EXCEPT ![p] = Sent(c, Note(e.type, e.session, e.turn))]
                /\ UNCHANGED store
    /\ Bounded
    /\ UNCHANGED <<turns, page, answer, acts, drops>>

--------------------------------------------------------------------------------
(* Turns.                                                                          *)

TurnStarts(t) ==
    /\ turns[t].st = "new"
    /\ turns' = [turns EXCEPT ![t].st = "running"]
    /\ conn' = Emitted("accepted", turns[t].session, t)
    /\ UNCHANGED <<store, page, answer, acts, drops>>

\* The request is in the transcript: the session is on disk.
TurnWrites(t) ==
    LET s == turns[t].session
    IN  /\ turns[t].st = "running" /\ s \notin store.kept
        /\ store' = [store EXCEPT !.blank = SelectSeq(@, LAMBDA b : b # s),
                                  !.kept = @ \cup {s}, !.last = s]
        /\ UNCHANGED <<turns, conn, page, answer, acts, drops>>

\* turn.done, turn.cancelled or turn.error, and in the same step the session is released.
TurnEnds(t) ==
    /\ turns[t].st = "running"
    /\ turns' = [turns EXCEPT ![t].st = "ended"]
    /\ conn' = Emitted("ended", turns[t].session, t)
    /\ UNCHANGED <<store, page, answer, acts, drops>>

TurnAnnounces(t) ==
    /\ turns[t].st = "ended"
    /\ turns' = [turns EXCEPT ![t].st = "over"]
    /\ conn' = Emitted("changed", turns[t].session, None)
    /\ UNCHANGED <<store, page, answer, acts, drops>>

--------------------------------------------------------------------------------
(* The endpoint of a page's socket.                                                *)

Serving(p) == conn[p].st \in {"open", "broken"}

\* The socket is accepted and subscribed; the session is named in a second step.
Accepts(p) ==
    /\ conn[p].st = "connecting"
    /\ conn' = [conn EXCEPT ![p] = [@ EXCEPT !.st = "open", !.up = <<>>, !.down = <<>>,
                                             !.queue = <<>>, !.current = None, !.knows = {}]]
    /\ UNCHANGED <<store, turns, page, answer, acts, drops>>

Greets(p) ==
    /\ Serving(p) /\ conn[p].current = None
    /\ LET known == Exists(store, conn[p].asked)
           found == FoundOr(store, conn[p].asked)
       IN  /\ store' = IF known THEN Selected(store, found.session) ELSE found.store
           /\ conn' = [conn EXCEPT ![p] = Sent([@ EXCEPT !.current = found.session],
                                               Update(found.session, TRUE, None))]
    /\ Bounded
    /\ UNCHANGED <<turns, page, answer, acts, drops>>

\* The next message, once the one before it is dealt with.
Next1(p) == Head(conn[p].up)
Takes(p, type) ==
    /\ Serving(p) /\ conn[p].current # None
    /\ conn[p].stops = None /\ conn[p].deletes = None
    /\ conn[p].up # <<>> /\ Next1(p).type = type
Taken(p) == [conn[p] EXCEPT !.up = Tail(@)]

\* An error nobody catches ends the endpoint; what was sent still arrives.
Fails(p) == conn' = [conn EXCEPT ![p].st = IF @ = "open" THEN "closing" ELSE "closed"]

\* chat.send, and a command nobody knows.
Chats(p) ==
    /\ Takes(p, "chat")
    /\ LET s == Next1(p).session
           c == [Taken(p) EXCEPT !.current = s]
       IN  IF ~Exists(store, s)
           THEN Fails(p) /\ UNCHANGED <<store, turns>>
           ELSE IF Active(s) # None
           THEN /\ conn' = [conn EXCEPT ![p] = Sent(c, Note("ended", s, None))]
                /\ UNCHANGED <<store, turns>>
           ELSE /\ Len(turns) < MaxTurn
                /\ turns' = Append(turns, [session |-> s, st |-> "new", aborted |-> FALSE])
                /\ store' = Saved(store, s)
                /\ conn' = [conn EXCEPT ![p] = c]
    /\ UNCHANGED <<page, answer, acts, drops>>

Stopped(t) == turns[t].st = "over"

\* turn.cancel: chat_abort stops a turn that is live, and waits for the end of its task.
\* The session is left out of the answer when no event of the turn went over this socket.
CancelNote(p, t) ==
    Note("ended", IF t \in conn[p].knows THEN turns[t].session ELSE None, t)

Cancels(p) ==
    /\ Takes(p, "cancel")
    /\ LET t == Next1(p).turn
       IN  IF Live(t)
           THEN /\ turns' = [turns EXCEPT ![t].aborted = TRUE]
                /\ conn' = [conn EXCEPT ![p] = [Taken(p) EXCEPT !.stops = t]]
           ELSE /\ conn' = [conn EXCEPT ![p] = Sent(Taken(p), CancelNote(p, t))]
                /\ UNCHANGED turns
    /\ UNCHANGED <<store, page, answer, acts, drops>>

Cancelled(p) ==
    /\ Serving(p)
    /\ conn[p].stops # None /\ conn[p].deletes = None /\ Stopped(conn[p].stops)
    /\ conn' = [conn EXCEPT ![p] = Sent([@ EXCEPT !.stops = None], CancelNote(p, conn[p].stops))]
    /\ UNCHANGED <<store, turns, page, answer, acts, drops>>

Selects(p) ==
    /\ Takes(p, "select")
    /\ LET s == Next1(p).session
       IN  IF Exists(store, s)
           THEN /\ store' = Selected(store, s)
                /\ conn' = [conn EXCEPT ![p] = Sent([Taken(p) EXCEPT !.current = s],
                                                    Update(s, TRUE, None))]
           ELSE conn' = [conn EXCEPT ![p] = Taken(p)] /\ UNCHANGED store
    /\ UNCHANGED <<turns, page, answer, acts, drops>>

\* session.delete stops the turn of the session first.
DeleteStarts(p) ==
    /\ Takes(p, "delete")
    /\ LET s == Next1(p).session
           t == Active(s)
       IN  IF Exists(store, s)
           THEN /\ conn' = [conn EXCEPT ![p] = [Taken(p) EXCEPT !.deletes = s, !.stops = t]]
                /\ turns' = IF t = None THEN turns ELSE [turns EXCEPT ![t].aborted = TRUE]
           ELSE conn' = [conn EXCEPT ![p] = Taken(p)] /\ UNCHANGED turns
    /\ UNCHANGED <<store, page, answer, acts, drops>>

\* sessions_delete refuses a session with a new turn, and one another page has deleted.
DeleteEnds(p) ==
    /\ Serving(p) /\ conn[p].deletes # None
    /\ conn[p].stops # None => Stopped(conn[p].stops)
    /\ LET s == conn[p].deletes
           found == Fallback(Deleted(store, s))
           emitted == Emitted("changed", s, None)
           Done(c) == [c EXCEPT !.deletes = None, !.stops = None]
           Moved(c) == IF c.current = s THEN [c EXCEPT !.current = found.session] ELSE c
       IN  IF Active(s) # None
           THEN conn' = [conn EXCEPT ![p] = Done(@)] /\ UNCHANGED store
           ELSE IF s \notin store.kept
           THEN /\ conn' = [conn EXCEPT ![p] = Done(@)]
                /\ store' = Deleted(store, s)
           ELSE /\ store' = found.store
                /\ conn' = [emitted EXCEPT ![p] =
                               Sent(Moved(Done(@)), Update(found.session, @.current = s, s))]
    /\ Bounded
    /\ UNCHANGED <<turns, page, answer, acts, drops>>

\* /new and /clear through handle_slash; the page follows when the session is another one.
CommandNew(p) ==
    /\ Takes(p, "new")
    /\ store' = Created(store) /\ Bounded
    /\ LET s == store'.made
       IN  conn' = [Emitted("changed", s, None) EXCEPT ![p] =
                       Sent([@ EXCEPT !.up = Tail(@), !.current = s], Update(s, TRUE, None))]
    /\ UNCHANGED <<turns, page, answer, acts, drops>>

CommandClear(p) ==
    /\ Takes(p, "clear")
    /\ LET s == Next1(p).session
       IN  IF Exists(store, s) /\ Active(s) = None
           THEN /\ store' = Saved(store, s)
                /\ conn' = [Emitted("changed", s, None) EXCEPT ![p] =
                               Sent([@ EXCEPT !.up = Tail(@), !.current = s],
                                    Update(s, TRUE, None))]
           ELSE conn' = [conn EXCEPT ![p] = Taken(p)] /\ UNCHANGED store
    /\ UNCHANGED <<turns, page, answer, acts, drops>>

\* /session: the page goes to another one.
CommandSession(p) ==
    /\ Takes(p, "goto")
    /\ LET s == Next1(p).target
       IN  conn' = [conn EXCEPT ![p] =
                       IF s \in store.kept /\ s # Next1(p).session
                       THEN Sent([Taken(p) EXCEPT !.current = s], Update(s, TRUE, None))
                       ELSE Taken(p)]
    /\ UNCHANGED <<store, turns, page, answer, acts, drops>>

\* /sessions delete: nobody is asked to stop, and a page whose session it was gets another.
CommandDelete(p) ==
    /\ Takes(p, "drop")
    /\ LET s == Next1(p).target
           found == FoundOr(Deleted(store, s), Next1(p).session)
       IN  IF s \in store.kept /\ Active(s) = None
           THEN /\ store' = IF s = Next1(p).session THEN found.store ELSE Deleted(store, s)
                /\ conn' = [Emitted("changed", s, None) EXCEPT ![p] =
                     IF s = Next1(p).session
                     THEN Sent([@ EXCEPT !.up = Tail(@), !.current = found.session],
                               Update(found.session, TRUE, None))
                     ELSE [@ EXCEPT !.up = Tail(@)]]
           ELSE conn' = [conn EXCEPT ![p] = Taken(p)] /\ UNCHANGED store
    /\ Bounded
    /\ UNCHANGED <<turns, page, answer, acts, drops>>

--------------------------------------------------------------------------------
(* The routes of HTTP: the answer carries what the session was then.               *)

\* What the user did may yet move his page, or has deleted the session of one.
Moving(p) ==
    \/ answer[p] # NoAnswer \/ conn[p].deletes # None
    \/ \E m \in ToSet(conn[p].up) : m.type \in {"select", "new", "goto", "drop", "delete"}
    \/ \E m \in ToSet(conn[p].down) : m.activate \/ m.deleted # None
Hastily(p) == [conn EXCEPT ![p].hasty = @ \/ Moving(p)]

Answers(p, s) == answer' = [answer EXCEPT ![p] = [session |-> s, active |-> Active(s)]]

CreateSession(p) ==
    /\ answer[p] = NoAnswer /\ acts < MaxAct /\ acts' = acts + 1
    /\ store' = Created(store) /\ Bounded
    /\ Answers(p, store'.made)
    /\ conn' = Hastily(p)
    /\ UNCHANGED <<turns, page, drops>>

\* A page that is loaded again while a podcast is on goes back to its session.
SelectSession(p, s) ==
    /\ answer[p] = NoAnswer /\ page[p].shown = None /\ acts < MaxAct /\ acts' = acts + 1
    /\ s \in store.kept
    /\ store' = Selected(store, s)
    /\ Answers(p, s)
    /\ conn' = Hastily(p)
    /\ UNCHANGED <<turns, page, drops>>

--------------------------------------------------------------------------------
(* The page.                                                                       *)

\* setSessionActiveTurn
Marked(v, s, t) ==
    [v EXCEPT !.running[s] = t,
              !.known = IF t # None THEN @ \cup {t} ELSE @ \ {v.running[s]}]

\* Mutant: the daemon is not told which session is shown.
AnsweredUnsynced(p) ==
    /\ answer[p] # NoAnswer
    /\ LET s == answer[p].session
       IN  page' = [page EXCEPT ![p] = Marked([@ EXCEPT !.shown = s], s, answer[p].active)]
    /\ answer' = [answer EXCEPT ![p] = NoAnswer]
    /\ UNCHANGED <<store, turns, conn, acts, drops>>

\* applySessionPayload, then syncWebSocketSession: the daemon is told when the socket is open.
Answered(p) ==
    /\ answer[p] # NoAnswer
    /\ LET s == answer[p].session
       IN  /\ page' = [page EXCEPT ![p] = Marked([@ EXCEPT !.shown = s], s, answer[p].active)]
           /\ conn' = [conn EXCEPT ![p].up = IF conn[p].st = "open"
                           THEN Append(@, [type |-> "select", session |-> s]) ELSE @]
    /\ answer' = [answer EXCEPT ![p] = NoAnswer]
    /\ UNCHANGED <<store, turns, acts, drops>>

\* sessionUpdateCanActivate
Follows(v, m) ==
    \/ v.shown = None \/ m.session = v.shown
    \/ m.activate \/ m.deleted = v.shown

\* handleEvent
Handled(v, m) ==
    CASE m.type = "session" ->
            Marked(IF Follows(v, m) THEN [v EXCEPT !.shown = m.session] ELSE v,
                   m.session, m.active)
      [] m.type = "accepted" -> Marked(v, m.session, m.turn)
      [] m.type = "ended" /\ m.session # None -> Marked(v, m.session, None)
      \* Of a turn without a session the page itself may know it.
      [] OTHER -> IF m.turn \in v.known THEN Marked(v, turns[m.turn].session, None) ELSE v

Handles(p) ==
    /\ conn[p].st \in {"open", "closing"} /\ conn[p].down # <<>>
    /\ page' = [page EXCEPT ![p] = Handled(@, Head(conn[p].down))]
    /\ conn' = [conn EXCEPT ![p].down = Tail(@)]
    /\ UNCHANGED <<store, turns, answer, acts, drops>>

\* What the user does; while the session's turn runs the button stops it.
Does(p, m) ==
    /\ conn[p].st = "open" /\ page[p].shown # None
    /\ acts < MaxAct /\ acts' = acts + 1
    /\ conn' = [Hastily(p) EXCEPT ![p].up = Append(@, m)]
    /\ UNCHANGED <<store, turns, page, answer, drops>>

Button(p) == IF page[p].shown = None THEN None ELSE page[p].running[page[p].shown]

Submits(p) ==
    \/ /\ Button(p) = None
       /\ \E type \in {"chat", "new", "clear"} :
              Does(p, [type |-> type, session |-> page[p].shown])
    \/ /\ Button(p) = None
       /\ \E type \in {"goto", "drop"}, s \in store.kept :
              Does(p, [type |-> type, session |-> page[p].shown, target |-> s])
    \/ /\ Button(p) # None
       /\ Does(p, [type |-> "cancel", turn |-> Button(p)])

\* The list of the sessions.
Clicks(p) ==
    \E type \in {"select", "delete"}, s \in store.kept :
        Does(p, [type |-> type, session |-> s])

\* The socket is opened once a session is shown, and again whenever it was closed.
Connects(p) ==
    /\ page[p].shown # None
    /\ LET c == conn[p]
       IN  \/ c.st \in {"off", "closed"}
           \/ c.st = "closing" /\ c.down = <<>>
           \/ c.st = "broken" /\ c.current # None /\ c.up = <<>> /\ c.stops = None
              /\ c.deletes = None
    /\ conn' = [conn EXCEPT ![p].st = "connecting", ![p].asked = page[p].shown,
                            ![p].up = <<>>, ![p].down = <<>>, ![p].queue = <<>>,
                            ![p].hasty = FALSE]
    /\ UNCHANGED <<store, turns, page, answer, acts, drops>>

SocketLost(p) ==
    /\ conn[p].st = "open" /\ drops < MaxDrop /\ drops' = drops + 1
    /\ conn' = [conn EXCEPT ![p].st = "broken", ![p].down = <<>>, ![p].queue = <<>>]
    /\ UNCHANGED <<store, turns, page, answer, acts>>

--------------------------------------------------------------------------------
PagesNext ==
    \/ \E t \in DOMAIN turns : TurnStarts(t) \/ TurnWrites(t) \/ TurnEnds(t) \/ TurnAnnounces(t)
    \/ \E p \in Page :
           \/ Pumps(p) \/ Accepts(p) \/ Greets(p)
           \/ Chats(p) \/ Cancels(p) \/ Cancelled(p) \/ Selects(p)
           \/ DeleteStarts(p) \/ DeleteEnds(p)
           \/ CommandNew(p) \/ CommandClear(p) \/ CommandSession(p) \/ CommandDelete(p)
           \/ CreateSession(p) \/ (\E s \in store.kept : SelectSession(p, s)) \/ Answered(p)
           \/ Handles(p) \/ Submits(p) \/ Clicks(p) \/ Connects(p) \/ SocketLost(p)

PagesSpec == PagesInit /\ [][PagesNext]_pagesVars

--------------------------------------------------------------------------------
(* Properties.                                                                     *)

PagesTypeOK ==
    /\ store.made \in 0 .. MaxSession /\ store.kept \subseteq 1 .. store.made
    /\ store.last \in store.kept \cup {None}
    /\ ToSet(store.blank) \subseteq 1 .. store.made /\ ToSet(store.blank) \cap store.kept = {}
    /\ \A t \in DOMAIN turns : Live(t) => Exists(store, turns[t].session)
    /\ \A p \in Page : page[p].shown \in 0 .. store.made

\* Nothing is under way between a page and the daemon.
Quiet(p) ==
    /\ conn[p].st = "open" /\ conn[p].current # None
    /\ conn[p].up = <<>> /\ conn[p].down = <<>> /\ conn[p].queue = <<>>
    /\ conn[p].stops = None /\ conn[p].deletes = None /\ answer[p] = NoAnswer
    /\ \A t \in DOMAIN turns : turns[t].st # "ended"

\* A page shows the session the daemon keeps it informed about, whichever way the two came
\* to it: else it would go on showing the state of a moment ago.  A session that is gone may
\* still be shown, and a user who sends something before his page has moved leaves
\* the two apart.
PageFollows ==
    \A p \in Page :
        Quiet(p) /\ ~conn[p].hasty /\ Exists(store, page[p].shown) =>
            page[p].shown = conn[p].current

\* A page that takes a turn of its session for running is right: else its button would stop
\* what is over, and the page could send nothing any more.
ButtonIsRight ==
    \A p \in Page : Quiet(p) => Button(p) \in {None, Active(page[p].shown)}

\* Together: what a page shows of its session is so, once nothing is under way.
PagesAreSound == PagesTypeOK /\ PageFollows /\ ButtonIsRight
================================================================================
