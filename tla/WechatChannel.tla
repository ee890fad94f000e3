----------------------------- MODULE WechatChannel -----------------------------
(* One WeChat account of the daemon: the bot's long poll and its backoff, one    *)
(* task per inbound message, the replies it sends piece by piece, the map from   *)
(* users to sessions, and the file of notifications that a second task of the    *)
(* bot delivers.  iLink (the server of the users) and the channel manager are    *)
(* the environment.                                                              *)
EXTENDS Integers, Sequences, FiniteSets

LOCAL INSTANCE SequencesExt

CONSTANTS
    User,
    Scenarios,      \* what comes from outside in a behaviour: the messages (who writes,
                    \* what kind, and how many texts the model answers with), the cron
                    \* runs that end, and bounds: the bots the channel builds, the tokens
                    \* iLink gives, the message tasks
    Notice,         \* runs of cron jobs that end with a notification
    Target,         \* their creators: a function of Notice
    Chunks,         \* the chunks of a notification's text
    Limit,          \* of get_pending
    MaxBot,         \* bound on the bots of a scenario
    MaxTask,        \* bound on the message tasks of a scenario
    MaxSession      \* bound on the sessions

\* Assumed of the constants, by the modules that instantiate this one, too.
WechatAssumption ==
    /\ \A s \in Scenarios :
        /\ s.writes \in Seq([user : User, kind : {"text", "media", "new"}, says : Nat])
        /\ s.notices \subseteq Notice
        /\ s.bots \in 0 .. MaxBot /\ s.tasks \in 0 .. MaxTask /\ s.tokens \in Nat
    /\ Target \in [Notice -> User]
    /\ {Chunks, Limit} \subseteq Nat \ {0}
    /\ {MaxBot, MaxTask, MaxSession} \subseteq Nat

VARIABLES
    scenario,       \* of this behaviour
    arrived,        \* how many of its messages the users have sent
    bot,            \* the bots built so far; the last one is the channel's
    running,        \* has the channel a task?
    poll,           \* of that bot's run: where it is, its cursor
    token,          \* what iLink accepts, what the token file holds, what each bot was built with
    tasks,          \* the _handle_message tasks, in the order they were created
    known,          \* the users whose context token is remembered, also on disk
    userMap,        \* per bot, whether it has read the map of users, and its copy
    mapFile,        \* the map of users on disk
    sessions,       \* the sessions created so far
    rows,           \* notify-queue.jsonl
    poller,         \* per bot, the task that delivers the notifications
    seen,           \* per notification, the chunks iLink showed the user
    overwritten     \* history: did a bot other than the channel's write the map of users?
inbox == <<scenario, arrived>>
botVars == <<bot, running, poll, token>>
mapVars == <<userMap, mapFile, sessions, overwritten>>
noticeVars == <<rows, poller, seen>>
vars == <<inbox, botVars, tasks, known, mapVars, noticeVars>>

None == 0
NoCursor == -1
Empty == [u \in User |-> None]
Idle == [pc |-> "sleep", batch |-> <<>>]

Init ==
    /\ scenario \in Scenarios
    /\ arrived = 0
    /\ bot = 0
    /\ running = FALSE
    /\ poll = [pc |-> "off", cursor |-> NoCursor]
    /\ token = [accepted |-> 1, file |-> 1, of |-> [b \in 1 .. MaxBot |-> None]]
    /\ tasks = <<>>
    /\ known = {}
    /\ userMap = [b \in 1 .. MaxBot |-> [loaded |-> FALSE, map |-> Empty]]
    /\ mapFile = Empty
    /\ sessions = 0
    /\ rows = <<>>
    /\ poller = [b \in 1 .. MaxBot |-> [Idle EXCEPT !.pc = "off"]]
    /\ seen = [n \in Notice |-> {}]
    /\ overwritten = FALSE

--------------------------------------------------------------------------------
(* iLink, and the people who use it.                                            *)

UserWrites ==
    /\ arrived < Len(scenario.writes)
    /\ Len(tasks) + arrived - (IF poll.cursor = NoCursor THEN 0 ELSE poll.cursor) < scenario.tasks
    /\ arrived' = arrived + 1
    /\ UNCHANGED <<scenario, botVars, tasks, known, mapVars, noticeVars>>

\* The server ends the bot's login; only a new one gives a token it accepts.
TokenExpires ==
    /\ token.accepted < scenario.tokens
    /\ token.accepted = token.file
    /\ token' = [token EXCEPT !.accepted = @ + 1]
    /\ UNCHANGED <<inbox, bot, running, poll, tasks, known, mapVars, noticeVars>>

\* `wechat login`: the token goes to a file that a bot reads when it is built.
Login ==
    /\ token.file # token.accepted
    /\ token' = [token EXCEPT !.file = token.accepted]
    /\ UNCHANGED <<inbox, bot, running, poll, tasks, known, mapVars, noticeVars>>

Accepted(b) == token.of[b] = token.accepted

--------------------------------------------------------------------------------
(* WechatChannel: start and stop, and the daemon's end.                         *)

Start ==
    /\ ~running
    /\ bot < scenario.bots
    /\ bot' = bot + 1
    /\ running' = TRUE
    /\ poll' = [pc |-> "poll", cursor |-> NoCursor]
    /\ token' = [token EXCEPT !.of[bot + 1] = token.file]
    /\ poller' = [poller EXCEPT ![bot + 1] = Idle]
    /\ UNCHANGED <<inbox, tasks, known, mapVars, rows, seen>>

\* The cancelled run ends its poller when the cancellation meets it in get_updates;
\* in the sleep of a backoff it ends alone.  Message tasks are left to themselves.
Stop ==
    /\ running
    /\ running' = FALSE
    /\ poller' = IF poll.pc = "poll" THEN [poller EXCEPT ![bot] = [Idle EXCEPT !.pc = "off"]]
                 ELSE poller
    /\ poll' = [poll EXCEPT !.pc = "off"]
    /\ UNCHANGED <<inbox, bot, token, tasks, known, mapVars, rows, seen>>

Crash ==
    /\ bot > 0
    /\ running' = FALSE
    /\ poll' = [poll EXCEPT !.pc = "off"]
    /\ poller' = [b \in 1 .. MaxBot |-> [Idle EXCEPT !.pc = "off"]]
    /\ tasks' = [i \in DOMAIN tasks |->
                    IF tasks[i].pc = "done" THEN tasks[i]
                    ELSE [tasks[i] EXCEPT !.pc = "lost", !.buf = <<>>, !.queue = <<>>, !.tool = FALSE]]
    /\ UNCHANGED <<inbox, bot, token, known, mapVars, rows, seen>>

--------------------------------------------------------------------------------
(* run: the long poll.                                                          *)

\* _remember_context_token and retry_now_for_target: the user's rows are due again.
Woken(u) ==
    [i \in DOMAIN rows |->
        IF ~rows[i].sent /\ Target[rows[i].notice] = u THEN [rows[i] EXCEPT !.waits = FALSE]
        ELSE rows[i]]

Task(m) ==
    [msg |-> m, bot |-> bot, pc |-> "new", session |-> None, said |-> 0, buf |-> <<>>,
     tool |-> FALSE, queue |-> <<>>, shown |-> <<>>, failed |-> FALSE]

\* A first poll has no cursor and the server decides what it repeats; later ones get
\* what came after the last answer.
GetUpdates ==
    /\ running /\ poll.pc = "poll" /\ Accepted(bot)
    /\ \E from \in IF poll.cursor = NoCursor THEN 0 .. arrived ELSE {poll.cursor} :
        /\ Len(tasks) + arrived - from <= scenario.tasks
        /\ tasks' = tasks \o [i \in 1 .. arrived - from |-> Task(from + i)]
    /\ poll' = [poll EXCEPT !.cursor = arrived]
    /\ UNCHANGED <<inbox, bot, running, token, known, mapVars, noticeVars>>

\* Mutant: an error of get_updates ends the loop.
PollFailureEndsRun ==
    /\ running /\ poll.pc = "poll"
    /\ poll' = [poll EXCEPT !.pc = "off"]
    /\ UNCHANGED <<inbox, bot, running, token, tasks, known, mapVars, noticeVars>>

\* A sleep: the short or the long one of _backoff, or the pause after an answer that
\* the session expired.
PollFails ==
    /\ running /\ poll.pc = "poll"
    /\ poll' = [poll EXCEPT !.pc = "sleep"]
    /\ UNCHANGED <<inbox, bot, running, token, tasks, known, mapVars, noticeVars>>

BackoffEnds ==
    /\ running /\ poll.pc = "sleep"
    /\ poll' = [poll EXCEPT !.pc = "poll"]
    /\ UNCHANGED <<inbox, bot, running, token, tasks, known, mapVars, noticeVars>>

--------------------------------------------------------------------------------
(* _handle_message: the task tasks[i].                                          *)

Message(i) == scenario.writes[tasks[i].msg]
Who(i) == Message(i).user
Running(i) == tasks[i].pc \notin {"done", "lost"}

\* _ensure_uid_map_loaded.
Loaded(b) == IF userMap[b].loaded THEN userMap[b].map ELSE mapFile

\* _save_uid_map, of a bot whose copy is m.
Save(b, m) ==
    /\ userMap' = [userMap EXCEPT ![b] = [loaded |-> TRUE, map |-> m]]
    /\ mapFile' = m
    /\ overwritten' = (overwritten \/ b # bot)

InUse(s) == s # None /\ \E i \in DOMAIN tasks : tasks[i].session = s /\ Running(i)

\* _resolve_session yields s: the user's session, or a new one when there is none, it
\* is deleted, or nothing happened in it for session_idle_minutes.
Resolve(i, s) ==
    LET b == tasks[i].bot
        m == Loaded(b)
    IN  \/ /\ s = m[Who(i)] /\ s # None
           /\ userMap' = [userMap EXCEPT ![b] = [loaded |-> TRUE, map |-> m]]
           /\ UNCHANGED <<mapFile, sessions, overwritten>>
        \/ /\ ~InUse(m[Who(i)])
           /\ sessions < MaxSession
           /\ s = sessions + 1
           /\ sessions' = s
           /\ Save(b, [m EXCEPT ![Who(i)] = s])

\* Up to the first await.  Tasks take their first step in the order of the messages.
Begin(i) ==
    /\ tasks[i].pc = "new"
    /\ \A j \in 1 .. i - 1 : tasks[j].pc # "new"
    /\ known' = known \cup {Who(i)}
    /\ rows' = Woken(Who(i))
    /\ \/ /\ Message(i).kind = "media"
          /\ tasks' = [tasks EXCEPT ![i].pc = "download"]
          /\ UNCHANGED mapVars
       \/ /\ Message(i).kind # "media"
          /\ \E s \in 1 .. MaxSession :
                /\ Resolve(i, s)
                /\ tasks' = [tasks EXCEPT ![i].session = s,
                                ![i].pc = IF Message(i).kind = "new" THEN "slash" ELSE "send"]
    /\ UNCHANGED <<inbox, botVars, poller, seen>>

\* The media are there, or are left out.
Downloaded(i) ==
    /\ tasks[i].pc = "download"
    /\ \E s \in 1 .. MaxSession :
        /\ Resolve(i, s)
        /\ tasks' = [tasks EXCEPT ![i].session = s, ![i].pc = "send"]
    /\ UNCHANGED <<inbox, botVars, known, noticeVars>>

\* `/new` made a session, to which the user is bound from here on.
NewSession(i) ==
    /\ tasks[i].pc = "slash"
    /\ sessions < MaxSession
    /\ sessions' = sessions + 1
    /\ Save(tasks[i].bot, [Loaded(tasks[i].bot) EXCEPT ![Who(i)] = sessions + 1])
    /\ tasks' = [tasks EXCEPT ![i].pc = "done"]
    /\ UNCHANGED <<inbox, botVars, known, noticeVars>>

Busy(s) == \E j \in DOMAIN tasks : tasks[j].session = s /\ tasks[j].pc = "turn"

\* chat_send starts the turn; until then the session refuses with BusyError and the
\* task sleeps and tries again.
ChatSend(i) ==
    /\ tasks[i].pc = "send"
    /\ ~Busy(tasks[i].session)
    /\ tasks' = [tasks EXCEPT ![i].pc = "turn"]
    /\ UNCHANGED <<inbox, botVars, known, mapVars, noticeVars>>

\* flush_buf.
Flushed(t) ==
    IF t.buf = <<>> THEN t ELSE [t EXCEPT !.queue = Append(@, t.buf), !.buf = <<>>]

\* on_event: TextDelta, ToolUseStart, ToolUseEnd.
Event(i) ==
    /\ tasks[i].pc = "turn"
    /\ LET t == tasks[i]
       IN  \/ /\ t.said < Message(i).says
              /\ tasks' = [tasks EXCEPT ![i].said = @ + 1, ![i].buf = Append(@, t.said + 1)]
           \/ /\ ~t.tool
              /\ t.buf # <<>>
              /\ tasks' = [tasks EXCEPT ![i] = [Flushed(t) EXCEPT !.tool = TRUE]]
           \/ /\ t.tool
              /\ tasks' = [tasks EXCEPT ![i].tool = FALSE]
    /\ UNCHANGED <<inbox, botVars, known, mapVars, noticeVars>>

\* heartbeat: a status line, which is no text of the model, when nothing was sent for long.
Heartbeat(i) ==
    /\ tasks[i].pc = "turn" /\ tasks[i].tool /\ tasks[i].queue = <<>>
    /\ tasks' = [tasks EXCEPT ![i].queue = << <<>> >>]
    /\ UNCHANGED <<inbox, botVars, known, mapVars, noticeVars>>

\* The turn is over, or failed: the rest of the text and the sentinel are queued.
TurnEnds(i) ==
    /\ tasks[i].pc = "turn"
    /\ tasks' = [tasks EXCEPT ![i] = [Flushed(tasks[i]) EXCEPT !.pc = "drain", !.tool = FALSE]]
    /\ UNCHANGED <<inbox, botVars, known, mapVars, noticeVars>>

\* sender: a segment is sent, or sending it fails after some of its chunks.
SendSegment(i) ==
    /\ tasks[i].pc \in {"turn", "drain"}
    /\ tasks[i].queue # <<>>
    /\ LET segment == Head(tasks[i].queue)
       IN  \E n \in IF Accepted(tasks[i].bot) THEN 0 .. Len(segment) ELSE {0} :
            tasks' = [tasks EXCEPT ![i].queue = Tail(@),
                        ![i].shown = @ \o SubSeq(segment, 1, n),
                        ![i].failed = @ \/ n < Len(segment)]
    /\ UNCHANGED <<inbox, botVars, known, mapVars, noticeVars>>

TaskEnds(i) ==
    /\ tasks[i].pc = "drain"
    /\ tasks[i].queue = <<>>
    /\ tasks' = [tasks EXCEPT ![i].pc = "done"]
    /\ UNCHANGED <<inbox, botVars, known, mapVars, noticeVars>>

--------------------------------------------------------------------------------
(* NotifyQueue, and _poll_notifications: the task poller[b].                    *)

Queued(n) == \E i \in DOMAIN rows : rows[i].notice = n

\* notify_completion, or without a channel run_job's own append to the same file.
NotifyCompletion(n) ==
    /\ n \in scenario.notices
    /\ ~Queued(n)
    /\ rows' = Append(rows, [notice |-> n, sent |-> FALSE, waits |-> FALSE, next |-> 0])
    /\ UNCHANGED <<inbox, botVars, tasks, known, mapVars, poller, seen>>

\* The time of a row's next_retry_at comes.
RetryIsDue ==
    /\ \E i \in DOMAIN rows : rows[i].waits /\ rows' = [rows EXCEPT ![i].waits = FALSE]
    /\ UNCHANGED <<inbox, botVars, tasks, known, mapVars, poller, seen>>

\* _update_matching.
Updated(n, Change(_)) ==
    [i \in DOMAIN rows |-> IF rows[i].notice = n THEN Change(rows[i]) ELSE rows[i]]

\* get_pending, into the items of one round.
Round(b) ==
    /\ poller[b].pc = "sleep"
    /\ LET due == SelectSeq(rows, LAMBDA r : ~r.sent /\ ~r.waits)
       IN  /\ due # <<>>
           /\ poller' = [poller EXCEPT ![b] =
                    [pc |-> "item", batch |-> SubSeq(due, 1, IF Len(due) < Limit THEN Len(due) ELSE Limit)]]
    /\ UNCHANGED <<inbox, botVars, tasks, known, mapVars, rows, seen>>

Rest(b) ==
    IF Len(poller[b].batch) = 1 THEN Idle ELSE [pc |-> "item", batch |-> Tail(poller[b].batch)]

\* mark_failed: whatever the row says by now, it is pending again.
MarkFailed(n) == Updated(n, LAMBDA r : [r EXCEPT !.sent = FALSE, !.waits = TRUE])

\* mark_sent.
MarkSent(r) == [r EXCEPT !.sent = TRUE, !.waits = FALSE]

\* The next item of the round: deferred for want of a context token, or sent from the
\* chunk its row named when the round began.
Item(b) ==
    /\ poller[b].pc = "item"
    /\ LET item == Head(poller[b].batch)
           n == item.notice
       IN  \/ /\ Target[n] \notin known
              /\ rows' = MarkFailed(n)
              /\ poller' = [poller EXCEPT ![b] = Rest(b)]
           \/ /\ Target[n] \in known /\ item.next < Chunks
              /\ poller' = [poller EXCEPT ![b].pc = "send"]
              /\ UNCHANGED rows
           \/ /\ Target[n] \in known /\ item.next >= Chunks
              /\ rows' = Updated(n, MarkSent)
              /\ poller' = [poller EXCEPT ![b] = Rest(b)]
    /\ UNCHANGED <<inbox, botVars, tasks, known, mapVars, seen>>

\* iLink shows the user the chunk of a send_text, unless it has done so: the client id
\* is made of the account, the run and the chunk.
Shows(b) ==
    /\ poller[b].pc = "send"
    /\ Accepted(b)
    /\ LET item == Head(poller[b].batch)
       IN  seen' = [seen EXCEPT ![item.notice] = @ \cup {item.next}]
    /\ poller' = [poller EXCEPT ![b].pc = "answer"]
    /\ UNCHANGED <<inbox, botVars, tasks, known, mapVars, rows>>

\* Mutant: the row is marked as sent with any chunk.
ChunkSentIsAll(b) ==
    /\ poller[b].pc = "answer"
    /\ LET item == Head(poller[b].batch)
           next == item.next + 1
       IN  /\ rows' = Updated(item.notice, LAMBDA r : MarkSent([r EXCEPT !.next = next]))
           /\ poller' = [poller EXCEPT ![b] = Rest(b)]
    /\ UNCHANGED <<inbox, botVars, tasks, known, mapVars, seen>>

\* Its answer: mark_chunk_sent, and mark_sent after the last one.
ChunkSent(b) ==
    /\ poller[b].pc = "answer"
    /\ LET item == Head(poller[b].batch)
           next == item.next + 1
           Checkpoint(r) == [r EXCEPT !.next = IF @ > next THEN @ ELSE next]
       IN  IF next < Chunks
           THEN /\ rows' = Updated(item.notice, Checkpoint)
                /\ poller' = [poller EXCEPT ![b].batch[1].next = next, ![b].pc = "send"]
           ELSE /\ rows' = Updated(item.notice, LAMBDA r : MarkSent(Checkpoint(r)))
                /\ poller' = [poller EXCEPT ![b] = Rest(b)]
    /\ UNCHANGED <<inbox, botVars, tasks, known, mapVars, seen>>

\* send_text raises, whether or not the chunk was shown.
ChunkFails(b) ==
    /\ poller[b].pc \in {"send", "answer"}
    /\ rows' = MarkFailed(Head(poller[b].batch).notice)
    /\ poller' = [poller EXCEPT ![b] = Rest(b)]
    /\ UNCHANGED <<inbox, botVars, tasks, known, mapVars, seen>>

--------------------------------------------------------------------------------

TaskStep(i) ==
    \/ Begin(i)
    \/ Downloaded(i)
    \/ NewSession(i)
    \/ ChatSend(i)
    \/ Event(i)
    \/ Heartbeat(i)
    \/ TurnEnds(i)
    \/ SendSegment(i)
    \/ TaskEnds(i)

PollerStep(b) ==
    \/ Round(b)
    \/ Item(b)
    \/ Shows(b)
    \/ ChunkSent(b)
    \/ ChunkFails(b)

Next ==
    \/ UserWrites
    \/ TokenExpires
    \/ Login
    \/ Start
    \/ Stop
    \/ Crash
    \/ GetUpdates
    \/ PollFails
    \/ BackoffEnds
    \/ \E i \in DOMAIN tasks : TaskStep(i)
    \/ \E n \in Notice : NotifyCompletion(n)
    \/ RetryIsDue
    \/ \E b \in 1 .. MaxBot : PollerStep(b)

Spec == Init /\ [][Next]_vars

\* What a task does next by itself, sooner or later.
Advances(i) ==
    /\ i \in DOMAIN tasks
    /\ \/ Begin(i)
       \/ Downloaded(i)
       \/ NewSession(i)
       \/ ChatSend(i)
       \/ TurnEnds(i)
       \/ tasks[i].pc = "drain" /\ SendSegment(i)
       \/ TaskEnds(i)

\* The event loop runs what is ready, a turn ends, the time of a retry comes, and iLink
\* does not fail every request of the channel's bot.
Fairness ==
    /\ WF_vars(BackoffEnds) /\ SF_vars(GetUpdates)
    /\ \A i \in 1 .. MaxTask : WF_vars(Advances(i))
    /\ WF_vars(RetryIsDue)
    /\ \A b \in 1 .. MaxBot : WF_vars(Item(b))
    /\ SF_vars(bot > 0 /\ Round(bot)) /\ SF_vars(bot > 0 /\ Shows(bot))
    /\ SF_vars(bot > 0 /\ ChunkSent(bot))

FairSpec == Spec /\ Fairness

--------------------------------------------------------------------------------

\* Whatever fails, is answered too late, crashes or is sent by two bots at once, a user
\* sees the chunks of a notification from the first one on and in order, the file never
\* names a chunk that was not shown, and a row counts as sent only when all were
\* ("mark a notification sent only after every chunk is acknowledged").
NoticesInOrder ==
    /\ \A n \in Notice : seen[n] = 0 .. Cardinality(seen[n]) - 1
    /\ \A i \in DOMAIN rows :
        LET shown == Cardinality(seen[rows[i].notice])
        IN  rows[i].next <= shown /\ (rows[i].sent => shown = Chunks)

\* The texts of a turn reach the user in the order the model produced them, each once,
\* and a task whose sends all succeeded leaves none of them in the buffer or the queue.
ReplyIsWhole ==
    \A i \in DOMAIN tasks :
        LET t == tasks[i]
        IN  /\ \A j, k \in DOMAIN t.shown : j < k => t.shown[j] < t.shown[k]
            /\ t.pc = "done" /\ ~t.failed => Len(t.shown) = t.said

\* Notifications and replies reach their users as NoticesInOrder and ReplyIsWhole say.
DeliveryIsExact == NoticesInOrder /\ ReplyIsWhole

\* The channel's bot never knows more about who talks in which session than the disk:
\* a restart binds every user to the session of the last message, unless a task of an
\* earlier bot wrote the map meanwhile.
MapIsDurable ==
    ~overwritten /\ bot > 0 /\ userMap[bot].loaded => userMap[bot].map = mapFile

Full == 0 .. Chunks - 1

\* Nobody waits for ever while the channel's bot runs with a token that iLink accepts: it polls
\* every message, however often the poll fails; a message has its turn or its command's answer,
\* however often the session is busy; and a notification for a user who has written is shown in
\* full, however often sending it fails.
NobodyIsForgotten ==
    []<>(running /\ Accepted(bot) =>
            /\ poll.cursor = arrived
            /\ \A i \in DOMAIN tasks : tasks[i].pc \in {"done", "lost"}
            /\ \A n \in Notice : Queued(n) /\ Target[n] \in known => seen[n] = Full)
================================================================================
