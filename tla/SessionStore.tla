------------------------------ MODULE SessionStore ------------------------------
(* Where conversations live: SessionManager's objects in memory, one transcript *)
(* file per session, the sessions.json index; the operations that touch them    *)
(* (turns, sessions_reset, sessions_compact, sessions_delete, select) and a     *)
(* daemon that dies between, and in the middle of, their writes.                *)
(*                                                                              *)
(* An object is an AgentBackendSession in memory.  A session that is deleted    *)
(* and a task that still holds its object are what makes the two different.     *)
EXTENDS Integers, FiniteSets, Sequences, SequencesExt

CONSTANTS
    Session,       \* session ids; a new session takes one never used before
    Turn,
    Call,          \* calls of sessions_reset and sessions_compact
    MaxObject,     \* bound on the session objects alive at one time
    MaxRestart,    \* bound on the number of restarts of the daemon
    NoObject, Nobody, NoTurn, NoSession, NoMsg

Object == 1 .. MaxObject
\* compact.py: context_recent_turns * 2 messages are needed to compact at all.
MinHistory == 2

ASSUME BoundsAreNumbers == MaxObject \in Nat /\ MaxRestart \in Nat
ASSUME NamesAreDistinct ==
    /\ NoObject \notin Object /\ NoTurn \notin Turn /\ NoSession \notin Session
    /\ Turn \cap Call = {} /\ Nobody \notin Turn \cup Call

VARIABLES
    disk,       \* the transcript files: disk[s] has the lines of s.jsonl
    index,      \* the sessions listed in sessions.json
    loaded,     \* loaded[s]: SessionManager._loaded
    pending,    \* _pending_session_ids: created, nothing written yet
    created,    \* session ids given out so far
    id,         \* id[o]: the session id of object o
    history,    \* history[o]: its messages
    fresh,      \* fresh[o]: its writer has not written the header yet
    active,     \* active[o]: active_turn_id
    lock,       \* lock[o]: who holds session.lock
    turn,       \* turn[t]: where turn t is
    on,         \* on[t]: the object t works on
    scratch,    \* scratch[t]: scratch_history of t
    ops,        \* ops[t]: pending_transcript_ops of t
    call,       \* call[k]: where call k is
    does,       \* does[k]: the operation k performs
    at,         \* at[k]: the object k works on
    restarts,   \* how often the daemon was restarted
    deleted,    \* the sessions sessions_delete removed under nobody's hands
    shortened,  \* objects of which only the messages, or only the file, were cut
    gone        \* turns whose messages a client had reset, deleted or compacted

storeVars == <<disk, index>>
managerVars == <<loaded, pending, created>>
objectVars == <<id, history, fresh>>
turnVars == <<turn, on, scratch, ops>>
callVars == <<call, does, at>>
historyVars == <<restarts, deleted, shortened, gone>>
vars == <<storeVars, managerVars, objectVars, active, lock, turnVars, callVars, historyVars>>

Message == [kind : {"prompt", "call", "result", "reply"}, by : Turn]
           \cup [kind : {"summary", "restored"}, by : {NoTurn}]
Entry == [type : {"message"}, msg : Message]
         \cup [type : {"session", "compaction", "activity", "torn", "garbled"}, msg : {NoMsg}]

Msg(k, t) == [kind |-> k, by |-> t]
\* The summary as compact_if_needed puts it into the history, and as
\* TranscriptReader makes it from a compaction entry: the prefixes differ.
Summary == Msg("summary", NoTurn)
Restored == Msg("restored", NoTurn)
Line(m) == [type |-> "message", msg |-> m]
Marker(type) == [type |-> type, msg |-> NoMsg]

Live == {"sent", "locked", "prompted", "committed"}

TypeOK ==
    /\ DOMAIN disk \subseteq Session
    /\ disk \in [DOMAIN disk -> Seq(Entry)]
    /\ index \in SUBSET Session
    /\ loaded \in [Session -> Object \cup {NoObject}]
    /\ pending \in SUBSET Session
    /\ created \in SUBSET Session
    /\ id \in [Object -> Session \cup {NoSession}]
    /\ history \in [Object -> Seq(Message)]
    /\ fresh \in [Object -> BOOLEAN]
    /\ active \in [Object -> Turn \cup {NoTurn}]
    /\ lock \in [Object -> Turn \cup Call \cup {Nobody}]
    /\ turn \in [Turn -> Live \cup {"unsent", "done", "stopped"}]
    /\ on \in [Turn -> Object \cup {NoObject}]
    /\ scratch \in [Turn -> Seq(Message)]
    /\ ops \in [Turn -> Seq(Entry)]
    /\ call \in [Call -> {"uncalled", "waiting", "running", "over"}]
    /\ does \in [Call -> {"reset", "compact"}]
    /\ at \in [Call -> Object \cup {NoObject}]
    /\ restarts \in 0 .. MaxRestart
    /\ deleted \in SUBSET Session
    /\ shortened \in SUBSET Object
    /\ gone \in SUBSET Turn

Init ==
    /\ disk = [s \in {} |-> <<>>]
    /\ index = {}
    /\ loaded = [s \in Session |-> NoObject]
    /\ pending = {}
    /\ created = {}
    /\ id = [o \in Object |-> NoSession]
    /\ history = [o \in Object |-> <<>>]
    /\ fresh = [o \in Object |-> FALSE]
    /\ active = [o \in Object |-> NoTurn]
    /\ lock = [o \in Object |-> Nobody]
    /\ turn = [t \in Turn |-> "unsent"]
    /\ on = [t \in Turn |-> NoObject]
    /\ scratch = [t \in Turn |-> <<>>]
    /\ ops = [t \in Turn |-> <<>>]
    /\ call = [k \in Call |-> "uncalled"]
    /\ does = [k \in Call |-> "reset"]
    /\ at = [k \in Call |-> NoObject]
    /\ restarts = 0
    /\ deleted = {}
    /\ shortened = {}
    /\ gone = {}

--------------------------------------------------------------------------------
(* The transcript file.                                                         *)

Exists(s) == s \in DOMAIN disk
Lines(s) == IF Exists(s) THEN disk[s] ELSE <<>>

\* TranscriptReader.load_history: the messages in order; a compaction entry
\* becomes a summary only when no message stands before it.
Reads(h, e) ==
    IF e.type = "message" THEN Append(h, e.msg)
    ELSE IF e.type = "compaction" /\ \A i \in DOMAIN h : h[i] = Restored
         THEN Append(h, Restored)
         ELSE h
Load(lines) ==
    LET upTo[n \in 0 .. Len(lines)] == IF n = 0 THEN <<>> ELSE Reads(upTo[n - 1], lines[n])
    IN  upTo[Len(lines)]

\* The turns that have messages in a file.
TurnsIn(lines) ==
    {t \in Turn : \E i \in DOMAIN lines : lines[i].type = "message" /\ lines[i].msg.by = t}

\* open(path, "a"): a line that is appended to a torn one makes one garbled line of
\* the two, which the readers skip.
Extend(lines, es) ==
    IF lines # <<>> /\ Last(lines).type = "torn" THEN Front(lines) \o <<Marker("garbled")>> \o Tail(es)
                                                 ELSE lines \o es

\* TranscriptWriter._append: the header goes first when nothing is written yet.
Header(o) == IF fresh[o] THEN <<Marker("session")>> ELSE <<>>
Appended(o, es) == Extend(Lines(id[o]), Header(o) \o es)

\* The files with lines for those of s.
Written(s, lines) == [q \in DOMAIN disk \cup {s} |-> IF q = s THEN lines ELSE disk[q]]

\* TranscriptWriter.rotate: header, compaction and the kept messages replace the file.
Kept(msgs) == IF msgs # <<>> /\ Head(msgs) = Restored THEN Tail(msgs) ELSE msgs
Rotated(msgs) ==
    <<Marker("session"), Marker("compaction")>> \o [i \in DOMAIN Kept(msgs) |-> Line(Kept(msgs)[i])]

\* What is written is listed: save_metadata, which the _on_first_write callback
\* also calls.
SaveMetadata(o) ==
    /\ index' = index \cup {id[o]}
    /\ pending' = pending \ {id[o]}
    /\ fresh' = [fresh EXCEPT ![o] = FALSE]

--------------------------------------------------------------------------------
(* SessionManager: an object for a session id.                                  *)

\* A task keeps its object alive.
Held(o) ==
    \/ \E t \in Turn : turn[t] \in Live /\ on[t] = o
    \/ \E k \in Call : call[k] \in {"waiting", "running"} /\ at[k] = o
Unused(o) == ~Held(o) /\ \A s \in Session : loaded[s] # o

ObjectsLeft == \E o \in Object : Unused(o)
NextObject == CHOOSE o \in Object : Unused(o)

\* get_or_load(s) finds s in memory.
InMemory(s, o) ==
    /\ o = loaded[s]
    /\ o # NoObject
    /\ UNCHANGED <<loaded, created, id, history, shortened>>

\* get_or_load(s) reads the transcript.
FromDisk(s, o) ==
    /\ loaded[s] = NoObject
    /\ Exists(s)
    /\ ObjectsLeft
    /\ o = NextObject
    /\ loaded' = [loaded EXCEPT ![s] = o]
    /\ id' = [id EXCEPT ![o] = s]
    /\ history' = [history EXCEPT ![o] = Load(disk[s])]
    /\ shortened' = shortened \ {o}
    /\ UNCHANGED created

\* create(): a new id, nothing on disk.
Blank(s, o) ==
    /\ s \notin created
    /\ ObjectsLeft
    /\ o = NextObject
    /\ loaded' = [loaded EXCEPT ![s] = o]
    /\ created' = created \cup {s}
    /\ id' = [id EXCEPT ![o] = s]
    /\ history' = [history EXCEPT ![o] = <<>>]
    /\ shortened' = shortened \ {o}

\* What the manager knows of s afterwards: get_or_load saves the metadata of what
\* it read and mark_interaction of what is on disk; a session without a file is
\* pending and its writer has the header still to write.
Known(s, o) ==
    /\ index' = IF Exists(s) THEN index \cup {s} ELSE index
    /\ pending' = IF Exists(s) THEN pending \ {s} ELSE pending \cup {s}
    /\ fresh' = [fresh EXCEPT ![o] = ~Exists(s)]
    /\ UNCHANGED disk

GetOrLoad(s, o) == (InMemory(s, o) \/ FromDisk(s, o)) /\ Known(s, o)
Create(s, o) == Blank(s, o) /\ Known(s, o)

\* sessions_get and chat_history.
SessionGet(s) ==
    /\ \E o \in Object : GetOrLoad(s, o)
    /\ UNCHANGED <<active, lock, turnVars, callVars, restarts, deleted, gone>>

\* sessions_reset(reason="new").
SessionNew(s) ==
    /\ \E o \in Object : Create(s, o)
    /\ UNCHANGED <<active, lock, turnVars, callVars, restarts, deleted, gone>>

\* Mutant: select() drops the other pending sessions even when a turn runs there.
PruneRunning(s) == {p \in pending \ {s} : loaded[p] # NoObject /\ ~Exists(p)}

Prune(s) ==
    {p \in pending \ {s} : /\ loaded[p] # NoObject
                           /\ active[loaded[p]] = NoTurn
                           /\ ~Exists(p)}

\* select(s) of a session in memory: the other blank sessions are given up.
Select(s) ==
    /\ loaded[s] # NoObject
    /\ loaded' = [p \in Session |-> IF p \in Prune(s) THEN NoObject ELSE loaded[p]]
    /\ pending' = pending \ Prune(s)
    /\ UNCHANGED <<storeVars, created, objectVars, active, lock, turnVars, callVars,
                   historyVars>>

--------------------------------------------------------------------------------
(* A turn: chat_send, _run_turn and AgentSession.run_turn.                      *)

\* An unknown key gets a new session.
ChatSend(t, s) ==
    \E o \in Object :
        /\ turn[t] = "unsent"
        /\ GetOrLoad(s, o) \/ Create(s, o)
        /\ lock[o] = Nobody
        /\ active[o] = NoTurn
        /\ active' = [active EXCEPT ![o] = t]
        /\ turn' = [turn EXCEPT ![t] = "sent"]
        /\ on' = [on EXCEPT ![t] = o]
        /\ UNCHANGED <<lock, scratch, ops, callVars, restarts, deleted, gone>>

\* session.lock is taken; the message's attachments and memories are looked up.
TurnLocks(t) ==
    /\ turn[t] = "sent"
    /\ lock[on[t]] = Nobody
    /\ lock' = [lock EXCEPT ![on[t]] = t]
    /\ turn' = [turn EXCEPT ![t] = "locked"]
    /\ UNCHANGED <<storeVars, managerVars, objectVars, active, on, scratch, ops, callVars,
                   historyVars>>

\* The user's message goes into the history and the transcript before the model
\* is called; the rest of the turn works on a copy.
TurnPrompts(t) ==
    LET o == on[t]
        m == Msg("prompt", t)
    IN  /\ turn[t] = "locked"
        /\ history' = [history EXCEPT ![o] = Append(@, m)]
        /\ scratch' = [scratch EXCEPT ![t] = Append(history[o], m)]
        /\ disk' = Written(id[o], Appended(o, <<Line(m)>>))
        /\ IF fresh[o] THEN SaveMetadata(o) ELSE UNCHANGED <<index, pending, fresh>>
        /\ turn' = [turn EXCEPT ![t] = "prompted"]
        /\ UNCHANGED <<loaded, created, id, active, lock, on, ops, callVars, historyVars>>

\* Mutant: the tool round is appended to the session's own list.
CallToolsInPlace(t) ==
    LET ms == <<Msg("call", t), Msg("result", t)>>
    IN  /\ turn[t] = "prompted"
        /\ \A i \in DOMAIN ops[t] : ops[t][i].type = "compaction"
        /\ scratch' = [scratch EXCEPT ![t] = @ \o ms]
        /\ history' = [history EXCEPT ![on[t]] = @ \o ms]
        /\ ops' = [ops EXCEPT ![t] = @ \o <<Line(ms[1]), Line(ms[2])>>]
        /\ UNCHANGED <<storeVars, managerVars, id, fresh, active, lock, turn, on, callVars,
                       historyVars>>

\* A round of tool calls with all of its results.
TurnCallsTools(t) ==
    LET ms == <<Msg("call", t), Msg("result", t)>>
    IN  /\ turn[t] = "prompted"
        /\ \A i \in DOMAIN ops[t] : ops[t][i].type = "compaction"
        /\ scratch' = [scratch EXCEPT ![t] = @ \o ms]
        /\ ops' = [ops EXCEPT ![t] = @ \o <<Line(ms[1]), Line(ms[2])>>]
        /\ UNCHANGED <<storeVars, managerVars, objectVars, active, lock, turn, on, callVars,
                       historyVars>>

\* compact_if_needed: the head of a message list becomes a summary.  The latest
\* user text stays in the tail, unless it is the first message of all; a result is
\* not parted from its call.
LastPrompt(msgs) ==
    Max({0} \cup {i \in DOMAIN msgs : msgs[i].kind \in {"prompt", "summary", "restored"}})
Cuts(msgs) ==
    {cut \in DOMAIN msgs : /\ LastPrompt(msgs) <= 1 \/ cut < LastPrompt(msgs)
                           /\ cut = Len(msgs) \/ msgs[cut + 1].kind # "result"}
Compacted(msgs, cut) == <<Summary>> \o SubSeq(msgs, cut + 1, Len(msgs))

\* An empty list is below every budget and stays.
Compactions(msgs) ==
    IF msgs = <<>> THEN {<<>>} ELSE {Compacted(msgs, cut) : cut \in Cuts(msgs)}

\* The turns that old has messages of and new has not.
Dropped(old, new) == {old[i].by : i \in DOMAIN old} \ {new[i].by : i \in DOMAIN new}

\* A turn compacts its copy.  A failed summary shortens the copy all the same, but
\* leaves nothing to record.
TurnCompacts(t) ==
    /\ turn[t] = "prompted"
    /\ ~Contains(ops[t], Marker("compaction"))
    /\ \E msgs \in Compactions(scratch[t]) : scratch' = [scratch EXCEPT ![t] = msgs]
    /\ \/ ops' = [ops EXCEPT ![t] = Append(@, Marker("compaction"))]
       \/ UNCHANGED ops
    /\ UNCHANGED <<storeVars, managerVars, objectVars, active, lock, turn, on, callVars,
                   historyVars>>

\* A turn with a compaction rewrites the file, any other one appends to it.
WriteTurn(t, msgs, es) ==
    disk' = Written(id[on[t]],
                    IF Contains(es, Marker("compaction")) THEN Rotated(msgs)
                                                          ELSE Appended(on[t], es))

\* _commit_turn, with the final answer.
TurnCommits(t) ==
    LET answer == Msg("reply", t)
        msgs == Append(scratch[t], answer)
    IN  /\ turn[t] = "prompted"
        /\ history' = [history EXCEPT ![on[t]] = msgs]
        /\ WriteTurn(t, msgs, Append(ops[t], Line(answer)))
        /\ gone' = gone \cup (Dropped(history[on[t]], msgs) \ {NoTurn})
        /\ shortened' = IF Contains(ops[t], Marker("compaction")) THEN shortened \ {on[t]}
                         ELSE IF IsPrefix(history[on[t]], msgs) THEN shortened
                         ELSE shortened \cup {on[t]}
        /\ turn' = [turn EXCEPT ![t] = "committed"]
        /\ UNCHANGED <<index, managerVars, id, fresh, active, lock, on, scratch, ops,
                       callVars, restarts, deleted>>

\* The task of t lets go of the session.
LetGo(t, outcome) ==
    /\ turn' = [turn EXCEPT ![t] = outcome]
    /\ active' = [active EXCEPT ![on[t]] = NoTurn]
    /\ lock' = [lock EXCEPT ![on[t]] = IF @ = t THEN Nobody ELSE @]
    /\ scratch' = [scratch EXCEPT ![t] = <<>>]
    /\ ops' = [ops EXCEPT ![t] = <<>>]
    /\ UNCHANGED on

\* The after_turn hooks have run: save_metadata and append_activity, turn.done.
TurnEnds(t) ==
    LET o == on[t]
    IN  /\ turn[t] = "committed"
        /\ disk' = Written(id[o], Appended(o, <<Marker("activity")>>))
        /\ SaveMetadata(o)
        /\ LetGo(t, "done")
        /\ UNCHANGED <<loaded, created, id, history, callVars, historyVars>>

\* The turn is cancelled or fails: what it did to its copy is forgotten.
TurnStops(t) ==
    /\ turn[t] \in Live
    /\ LetGo(t, "stopped")
    /\ UNCHANGED <<storeVars, managerVars, objectVars, callVars, historyVars>>

--------------------------------------------------------------------------------
(* sessions_reset, sessions_compact, sessions_delete.                          *)

\* Both find their object and then wait for session.lock.
CallStarts(k, op, s) ==
    \E o \in Object :
        /\ call[k] = "uncalled"
        /\ GetOrLoad(s, o)
        /\ op = "reset" => active[o] = NoTurn
        /\ op = "compact" => Len(history'[o]) >= MinHistory
        /\ call' = [call EXCEPT ![k] = "waiting"]
        /\ does' = [does EXCEPT ![k] = op]
        /\ at' = [at EXCEPT ![k] = o]
        /\ UNCHANGED <<active, lock, turnVars, restarts, deleted, gone>>

CallEnds(k) == call' = [call EXCEPT ![k] = "over"]

\* TranscriptWriter.clear: of the lines the headers stay.
Headers(lines) ==
    [i \in 1 .. Cardinality({j \in DOMAIN lines : lines[j].type = "session"}) |-> Marker("session")]

\* SessionManager.clear and TranscriptWriter.clear, in one step.  The file may be that
\* of another object by now: its session was deleted while the reset waited behind a
\* compaction, which wrote the file anew, and somebody has loaded it.
ResetRuns(k) ==
    LET o == at[k]
        s == id[o]
    IN  /\ call[k] = "waiting"
        /\ does[k] = "reset"
        /\ lock[o] = Nobody
        /\ history' = [history EXCEPT ![o] = <<>>]
        /\ shortened' = IF loaded[s] \in {o, NoObject} THEN shortened \ {o}
                         ELSE (shortened \ {o}) \cup {loaded[s]}
        /\ gone' = gone \cup (Dropped(history[o], <<>>) \ {NoTurn}) \cup TurnsIn(Lines(s))
        /\ IF Exists(s)
           THEN /\ disk' = Written(s, Headers(disk[s]))
                /\ SaveMetadata(o)
           ELSE UNCHANGED <<disk, index, pending, fresh>>
        /\ CallEnds(k)
        /\ UNCHANGED <<loaded, created, id, active, lock, turnVars, does, at, restarts,
                       deleted>>

CompactLocks(k) ==
    /\ call[k] = "waiting"
    /\ does[k] = "compact"
    /\ lock[at[k]] = Nobody
    /\ lock' = [lock EXCEPT ![at[k]] = k]
    /\ call' = [call EXCEPT ![k] = "running"]
    /\ UNCHANGED <<storeVars, managerVars, objectVars, active, turnVars, does, at,
                   historyVars>>

\* The model has answered: the history is shortened, and a compaction entry is
\* appended to the file when there is a summary.  A reset may have come first.
CompactEnds(k) ==
    LET o == at[k]
    IN  /\ call[k] = "running"
        /\ \E msgs \in Compactions(history[o]) :
            /\ history' = [history EXCEPT ![o] = msgs]
            /\ gone' = gone \cup (Dropped(history[o], msgs) \ {NoTurn})
        /\ \/ /\ history[o] # <<>>
              /\ disk' = Written(id[o], Appended(o, <<Marker("compaction")>>))
              /\ SaveMetadata(o)
           \/ UNCHANGED <<disk, index, pending, fresh>>
        /\ shortened' = shortened \cup {q \in {o} : history[q] # <<>>}
        /\ lock' = [lock EXCEPT ![o] = Nobody]
        /\ CallEnds(k)
        /\ UNCHANGED <<loaded, created, id, active, turnVars, does, at, restarts, deleted>>

\* A forced compaction of s is under way.
Compacting(s) ==
    \E k \in Call : /\ call[k] \in {"waiting", "running"}
                    /\ does[k] = "compact"
                    /\ id[at[k]] = s

\* Refused while a turn is active; the session lock is not looked at.
SessionDelete(s) ==
    /\ loaded[s] # NoObject \/ Exists(s)
    /\ loaded[s] # NoObject => active[loaded[s]] = NoTurn
    /\ loaded' = [loaded EXCEPT ![s] = NoObject]
    /\ pending' = pending \ {s}
    /\ disk' = Restrict(disk, DOMAIN disk \ {s})
    /\ index' = index \ {s}
    /\ deleted' = deleted \cup {q \in {s} : ~Compacting(q)}
    /\ gone' = gone \cup TurnsIn(Lines(s))
    /\ UNCHANGED <<created, objectVars, active, lock, turnVars, callVars, restarts, shortened>>

--------------------------------------------------------------------------------
(* The daemon dies and is started again: what is in memory is lost.             *)

Restarted ==
    /\ restarts < MaxRestart
    /\ restarts' = restarts + 1
    /\ loaded' = [s \in Session |-> NoObject]
    /\ pending' = {}
    /\ id' = [o \in Object |-> NoSession]
    /\ history' = [o \in Object |-> <<>>]
    /\ fresh' = [o \in Object |-> FALSE]
    /\ active' = [o \in Object |-> NoTurn]
    /\ lock' = [o \in Object |-> Nobody]
    /\ turn' = [t \in Turn |-> IF turn[t] \in Live THEN "stopped" ELSE turn[t]]
    /\ on' = [t \in Turn |-> NoObject]
    /\ scratch' = [t \in Turn |-> <<>>]
    /\ ops' = [t \in Turn |-> <<>>]
    /\ call' = [k \in Call |-> IF call[k] \in {"waiting", "running"} THEN "over" ELSE call[k]]
    /\ at' = [k \in Call |-> NoObject]
    /\ shortened' = {}
    /\ UNCHANGED <<created, does, deleted, gone>>

Crash == Restarted /\ UNCHANGED storeVars

\* It dies while _commit_turn appends the messages of a turn one after the other.
CrashInCommit(t) ==
    /\ turn[t] = "prompted"
    /\ ~Contains(ops[t], Marker("compaction"))
    /\ \E n \in DOMAIN ops[t] :
        disk' = Written(id[on[t]], Appended(on[t], SubSeq(ops[t], 1, n)))
    /\ UNCHANGED index
    /\ Restarted

\* It dies in the first write of a session: the header is out, listed or not.
CrashInFirstWrite(t) ==
    /\ turn[t] = "locked"
    /\ fresh[on[t]]
    /\ disk' = Written(id[on[t]], <<Marker("session")>>)
    /\ index' \in {index, index \cup {id[on[t]]}}
    /\ Restarted

\* It dies with a line half written.
CrashInLine(t) ==
    /\ turn[t] = "prompted"
    /\ disk' = Written(id[on[t]], Appended(on[t], <<Marker("torn")>>))
    /\ UNCHANGED index
    /\ Restarted

--------------------------------------------------------------------------------

TurnStep(t) ==
    \/ \E s \in Session : ChatSend(t, s)
    \/ TurnLocks(t)
    \/ TurnPrompts(t)
    \/ TurnCallsTools(t)
    \/ TurnCompacts(t)
    \/ TurnCommits(t)
    \/ TurnEnds(t)
    \/ TurnStops(t)

CallStep(k) ==
    \/ \E op \in {"reset", "compact"}, s \in Session : CallStarts(k, op, s)
    \/ ResetRuns(k)
    \/ CompactLocks(k)
    \/ CompactEnds(k)

SessionStep(s) ==
    \/ SessionGet(s)
    \/ SessionNew(s)
    \/ Select(s)
    \/ SessionDelete(s)

CrashStep ==
    \/ Crash
    \/ \E t \in Turn : CrashInCommit(t) \/ CrashInFirstWrite(t) \/ CrashInLine(t)

Next ==
    \/ \E t \in Turn : TurnStep(t)
    \/ \E k \in Call : CallStep(k)
    \/ \E s \in Session : SessionStep(s)
    \/ CrashStep

Spec == Init /\ [][Next]_vars

--------------------------------------------------------------------------------
(* What a conversation's owner relies on.                                       *)

Spoken(m) == IF m.kind \in {"summary", "restored"} THEN <<>> ELSE <<m>>
Said(msgs) ==
    LET upTo[n \in 0 .. Len(msgs)] == IF n = 0 THEN <<>> ELSE upTo[n - 1] \o Spoken(msgs[n])
    IN  upTo[Len(msgs)]

\* At every moment a restart would find the conversation as it is in memory, its
\* summaries aside: no message lost, none twice, none out of order.  Turns commit,
\* fail, compact and are cancelled, and earlier restarts cut commits short.  Three
\* things stand in the way until the file is written anew: a compaction that was
\* forced, or had no summary, cuts the memory only; a reset that waited while its
\* session was deleted and a compaction brought the file back cuts the file only;
\* and what is appended to a line torn by a crash is lost with it.
ReloadKeepsMessages ==
    \A s \in Session :
        \/ loaded[s] = NoObject
        \/ loaded[s] \in shortened
        \/ \E e \in {"torn", "garbled"} : Contains(Lines(s), Marker(e))
        \/ Said(Load(Lines(s))) = Said(history[loaded[s]])

\* What a compaction took out of a conversation does not come back at a restart
\* ("a daemon restart re-loads the full pre-compaction history").
CompactedStaysCompacted ==
    \A s \in Session, t \in gone : loaded[s] # NoObject =>
        \A i \in DOMAIN Load(Lines(s)) : Load(Lines(s))[i].by # t

\* An answer a client was told about outlives every crash, until it is folded into
\* a summary or its session is reset or deleted.
DoneIsDurable ==
    \A t \in Turn : turn[t] = "done" =>
        t \in gone \/ \E s \in Session : Contains(Lines(s), Line(Msg("reply", t)))

\* A turn never works on an object the manager has given up: two objects of one
\* session, each with a writer of its own, are never at work.  (A forced compaction
\* may: sessions_delete looks at active_turn_id, which it does not set.)
OneWriterPerSession ==
    \A o \in Object : active[o] # NoTurn => loaded[id[o]] = o

\* A transcript with anything behind its header is listed, so a client can find it
\* again; a session that counts as pending has nothing on disk.
WrittenIsListed ==
    \A s \in Session :
        /\ (\E i \in DOMAIN Lines(s) : Lines(s)[i].type # "session") => s \in index
        /\ s \in pending => ~Exists(s)

\* "Remove a session entirely": what is deleted does not come back, unless a forced
\* compaction was working on it, which has the session lock but no active turn.
DeletedStaysDeleted == \A s \in deleted : ~Exists(s) /\ s \notin index

\* The transcript keeps what was said, and the sessions have one writer, are listed, and stay
\* deleted.
TranscriptIsKept == ReloadKeepsMessages /\ DoneIsDurable
SessionsAreSound == OneWriterPerSession /\ WrittenIsListed /\ DeletedStaysDeleted

================================================================================
