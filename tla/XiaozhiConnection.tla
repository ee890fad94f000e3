--------------------------- MODULE XiaozhiConnection ---------------------------
(* One Xiaozhi device on its WebSocket: the loop that receives its messages, the *)
(* speech recognitions it opens, the tasks that answer what was recognized, the  *)
(* music a tool of a turn may start, and the end of the connection.  The device, *)
(* the recognizer and the turns of the backend are the environment.              *)
EXTENDS Integers, Sequences, FiniteSets

CONSTANTS
    Scenarios,      \* what a behaviour may contain: does the provider speak while the model
                    \* writes, the listening modes, how the connection may end, and bounds:
                    \* messages of the device, utterances, streams of music,
                    \* recognitions
    MaxGeneration,  \* bound on the recognitions of a scenario
    MaxTask         \* bound on the tasks, and on the turns of the backend

ASSUME ScenariosAreTyped ==
    \A s \in Scenarios :
        /\ s.local \in BOOLEAN /\ s.modes \subseteq {"auto", "manual", "realtime"}
        /\ s.ends \subseteq {"disconnect", "replaced", "silence", "exit"}
        /\ {s.messages, s.utterances, s.streams} \subseteq Nat
        /\ s.recognitions \in 0 .. MaxGeneration
ASSUME BoundsAreNatural == MaxGeneration \in Nat /\ MaxTask \in Nat

VARIABLES
    scenario,       \* of this behaviour, with what is left of its bounds
    conn,           \* the fields of the connection: closed, want, mode, watched (is there a
                    \* no-voice watcher?), exit (_idle_after_turn_reason), open (its socket)
    asr,            \* the attached recognition, the generation, the accepted one; history: the
                    \* one whose final an abort took from it
    socket,         \* per generation, its recognizer: none, connecting, open, stopping, closed
    final,          \* per generation, the callback of a final: none, or what it saw
    worker,         \* the receive loop, and whoever closes the connection
    task,           \* the tasks that answer, in the order they were created
    turnTask,       \* _turn_task
    current,        \* _current_turn_id
    active,         \* the turn of the backend that occupies the session
    turns,          \* how each turn of the backend stands
    music,          \* the playback: where it is, what it waits for, who has its lock
    audio           \* who has the device's speaker since the last tts start
vars == <<scenario, conn, asr, socket, final, worker, task, turnTask, current, active, turns,
          music, audio>>
recognition == <<asr, socket, final>>
answering == <<task, turnTask, current>>
backend == <<active, turns>>

None == 0
Music == -1
Generation == 1 .. MaxGeneration
TaskId == 1 .. MaxTask

NoFinal == [pc |-> "none", interrupted |-> None]
Receiving == [pc |-> "receive", resumes |-> "receive", waits |-> None]

Init ==
    /\ scenario \in Scenarios
    /\ conn = [closed |-> FALSE, want |-> FALSE, mode |-> "manual", watched |-> FALSE,
               exit |-> FALSE, open |-> TRUE]
    /\ asr = [attached |-> None, generation |-> 0, accepted |-> None, discarded |-> None]
    /\ socket = [g \in Generation |-> "none"]
    /\ final = [g \in Generation |-> NoFinal]
    /\ worker = [w \in {"receiver", "closer"} |->
                    IF w = "receiver" THEN Receiving ELSE [Receiving EXCEPT !.pc = "off"]]
    /\ task = <<>>
    /\ turnTask = None
    /\ current = None
    /\ active = None
    /\ turns = <<>>
    /\ music = [pc |-> "none", after |-> None, cancelled |-> FALSE, lock |-> "free"]
    /\ audio = None

Ended(k) == task[k].pc = "ended"

\* _barge_in_enabled.
BargeIn == conn.want /\ conn.mode = "realtime"

\* What owns_device_audio says; the stream that is being cancelled owns nothing.
MusicOwns == music.pc # "none" /\ ~music.cancelled

--------------------------------------------------------------------------------
(* XiaozhiPlaybackController: stop, for the caller named who, and start.         *)

\* The lock is free for who; a final that waits for it comes before the others.
Free(who) ==
    /\ music.lock = "free"
    /\ who # "final" => \A g \in Generation : final[g] = NoFinal

\* stop has the lock, and nothing to cancel.
NothingPlays(who) == Free(who) /\ music.pc = "none"

\* _cancel_locked cancels the task and waits for it under the lock.
CancelMusic(who) ==
    /\ Free(who) /\ music.pc # "none"
    /\ music' = [music EXCEPT !.cancelled = TRUE, !.lock = who]

MusicStopped(who) ==
    /\ music.lock = who /\ music.pc = "none"
    /\ music' = [music EXCEPT !.lock = "free"]

\* xiaozhi_start_playback, called by the turn of the backend; it replaces what plays.
StartReplaces ==
    /\ active # None /\ scenario.streams > 0
    /\ CancelMusic("tool")
    /\ UNCHANGED <<scenario, conn, recognition, worker, answering, backend, audio>>

\* Mutant: the stream does not wait for the turn.
StartPlaybackAtOnce ==
    /\ active # None /\ scenario.streams > 0
    /\ music.pc = "none" /\ (Free("tool") \/ music.lock = "tool")
    /\ music' = [pc |-> "queued", after |-> None, cancelled |-> FALSE, lock |-> "free"]
    /\ scenario' = [scenario EXCEPT !.streams = @ - 1]
    /\ UNCHANGED <<conn, recognition, worker, answering, backend, audio>>

StartPlayback ==
    /\ active # None /\ scenario.streams > 0
    /\ music.pc = "none" /\ (Free("tool") \/ music.lock = "tool")
    /\ music' = [pc |-> "queued", after |-> turnTask, cancelled |-> FALSE, lock |-> "free"]
    /\ scenario' = [scenario EXCEPT !.streams = @ - 1]
    /\ UNCHANGED <<conn, recognition, worker, answering, backend, audio>>

\* The tool's turn ended while it waited for the lock.
StartAbandoned ==
    /\ music.lock = "tool" /\ active = None
    /\ music' = [music EXCEPT !.lock = "free"]
    /\ UNCHANGED <<scenario, conn, recognition, worker, answering, backend, audio>>

\* _run: after the turn that was active, unless that was cancelled, the stream claims the
\* speaker, plays to its end or fails, and gives the speaker back.
MusicWaited ==
    /\ music.pc = "queued" /\ ~music.cancelled
    /\ music.after # None => Ended(music.after)
    /\ IF (music.after # None /\ task[music.after].cancelled) \/ conn.closed
       THEN music' = [music EXCEPT !.pc = "none"]
       ELSE music' = [music EXCEPT !.pc = "starting"]
    /\ UNCHANGED <<scenario, conn, recognition, worker, answering, backend, audio>>

MusicClaims ==
    /\ music.pc = "starting" /\ ~music.cancelled
    /\ \/ conn.open /\ audio' = Music /\ music' = [music EXCEPT !.pc = "playing"]
       \/ ~conn.open /\ UNCHANGED audio /\ music' = [music EXCEPT !.pc = "none"]
    /\ UNCHANGED <<scenario, conn, recognition, worker, answering, backend>>

MusicEnds ==
    /\ \/ music.pc = "playing"
       \/ music.pc \in {"queued", "starting"} /\ music.cancelled
    /\ music' = [music EXCEPT !.pc = "none", !.cancelled = FALSE]
    /\ audio' = IF music.pc = "playing" THEN None ELSE audio
    /\ UNCHANGED <<scenario, conn, recognition, worker, answering, backend>>

--------------------------------------------------------------------------------
(* The recognizer of a generation, and its connection.                          *)

\* _start_asr attaches a new recognizer before it connects.
CanStartAsr ==
    /\ ~conn.closed /\ asr.attached = None
    /\ turnTask = None \/ BargeIn
    /\ asr.generation < scenario.recognitions

StartAsr ==
    LET g == asr.generation + 1
    IN  /\ asr' = [asr EXCEPT !.attached = g, !.generation = g]
        /\ socket' = [socket EXCEPT ![g] = "connecting"]

Connects(g) ==
    /\ socket[g] = "connecting"
    /\ socket' = [socket EXCEPT ![g] = "open"]
    /\ UNCHANGED <<scenario, conn, asr, final, worker, answering, backend, music, audio>>

\* _start_asr detaches whatever is attached when its own recognizer cannot start.
ConnectFails(g) ==
    /\ socket[g] = "connecting"
    /\ socket' = [socket EXCEPT ![g] = "failed"]
    /\ asr' = [asr EXCEPT !.attached = None]
    /\ UNCHANGED <<scenario, conn, final, worker, answering, backend, music, audio>>

\* _stop_asr: detach it, and wait for its stop; one that has no connection yet is left.
StopAsr ==
    /\ conn' = [conn EXCEPT !.watched = FALSE]
    /\ asr' = [asr EXCEPT !.attached = None]
    /\ socket' = IF asr.attached # None /\ socket[asr.attached] = "open"
                 THEN [socket EXCEPT ![asr.attached] = "stopping"] ELSE socket

Stopped(g) == g # None => socket[g] # "stopping"

\* The recognizer's stop is over, or its connection is lost; its reader is cancelled.
SocketCloses(g) ==
    /\ socket[g] \in {"open", "stopping"}
    /\ final[g].pc = "none" \/ music.lock # "final"
    /\ socket' = [socket EXCEPT ![g] = "closed"]
    /\ final' = [final EXCEPT ![g] = NoFinal]
    /\ UNCHANGED <<scenario, conn, asr, worker, answering, backend, music, audio>>

--------------------------------------------------------------------------------
(* A final transcript.                                                          *)

\* What lets a final pass; the others are dropped.
Passes(g) ==
    /\ ~conn.closed
    /\ turnTask = None \/ BargeIn
    /\ g = asr.generation /\ g # asr.accepted

Task(g, interrupted) ==
    [pc |-> IF interrupted = None THEN "stt" ELSE "interrupt", generation |-> g,
     interrupted |-> interrupted, waits |-> None, turn |-> None,
     victim |-> IF interrupted = None THEN None ELSE current, cancelled |-> FALSE]

\* The generation is used up, and a task answers.
Accept(g, interrupted) ==
    /\ Len(task) < MaxTask
    /\ asr' = [asr EXCEPT !.accepted = g]
    /\ task' = Append(task, Task(g, interrupted))
    /\ turnTask' = Len(task) + 1

\* _on_final_transcript, which first waits for the music to stop, if there is any.
Final(g) ==
    /\ socket[g] \in {"open", "stopping"} /\ final[g] = NoFinal
    /\ scenario.utterances > 0
    /\ Passes(g)
    /\ scenario' = [scenario EXCEPT !.utterances = @ - 1]
    /\ IF NothingPlays("final")
       THEN Accept(g, turnTask) /\ UNCHANGED <<final, music>>
       ELSE /\ final' = [final EXCEPT ![g] = [pc |-> "music", interrupted |-> turnTask]]
            /\ IF music.lock = "free" THEN CancelMusic("final") ELSE UNCHANGED music
            /\ UNCHANGED <<asr, task, turnTask>>
    /\ UNCHANGED <<conn, socket, worker, current, backend, audio>>

FinalStopsMusic(g) ==
    /\ final[g].pc = "music" /\ CancelMusic("final")
    /\ UNCHANGED <<scenario, conn, recognition, worker, answering, backend, audio>>

\* The music is gone: what let the final pass is not looked at again.
FinalAccepted(g) ==
    /\ final[g].pc = "music"
    /\ \/ NothingPlays("final") /\ UNCHANGED music
       \/ MusicStopped("final")
    /\ Accept(g, final[g].interrupted)
    /\ final' = [final EXCEPT ![g] = NoFinal]
    /\ UNCHANGED <<scenario, conn, socket, worker, current, backend, audio>>

--------------------------------------------------------------------------------
(* The turns of the backend.                                                    *)

TurnEnds(b) ==
    /\ active = b
    /\ active' = None
    /\ turns' = [turns EXCEPT ![b] = IF @ = "aborted" THEN "cancelled" ELSE "done"]
    /\ UNCHANGED <<scenario, conn, recognition, worker, answering, music, audio>>

\* chat_abort of b, which then waits for the session's release.
Aborted(b) ==
    turns' = IF b # None /\ turns[b] = "running" THEN [turns EXCEPT ![b] = "aborted"] ELSE turns

\* request_idle_after_turn, from a tool of the turn.
ExitRequested ==
    /\ active # None /\ ~conn.closed /\ "exit" \in scenario.ends
    /\ IF turnTask # None THEN ~conn.exit /\ conn' = [conn EXCEPT !.exit = TRUE]
       ELSE conn.open /\ conn' = [conn EXCEPT !.want = FALSE, !.watched = FALSE, !.open = FALSE]
    /\ UNCHANGED <<scenario, recognition, worker, answering, backend, music, audio>>

--------------------------------------------------------------------------------
(* A task: _interrupt_and_run and _run_transcript.                              *)

Goes(k, pc) == task' = [task EXCEPT ![k].pc = pc]
At(k, pc) == task[k].pc = pc /\ ~task[k].cancelled

\* The device drops what it plays, and the interrupted task is cancelled.
Interrupt(k) ==
    /\ At(k, "interrupt")
    /\ task' = [task EXCEPT ![k].pc = "gather", ![task[k].interrupted].cancelled = TRUE]
    /\ audio' = None
    /\ UNCHANGED <<scenario, conn, recognition, worker, turnTask, current, backend, music>>

Gathered(k) ==
    /\ At(k, "gather") /\ Ended(task[k].interrupted)
    /\ StopAsr
    /\ current' = None
    /\ task' = [task EXCEPT ![k].pc = "cleanup", ![k].waits = asr.attached]
    /\ UNCHANGED <<scenario, final, worker, turnTask, backend, music, audio>>

\* The turn that was answered is aborted, if it had an id when the final came.
AbortVictim(k) ==
    /\ At(k, "cleanup") /\ Stopped(task[k].waits)
    /\ Aborted(task[k].victim)
    /\ Goes(k, "release")
    /\ UNCHANGED <<scenario, conn, recognition, worker, turnTask, current, active, music, audio>>

\* The release, or the timeout of its wait.
VictimReleased(k) ==
    /\ At(k, "release")
    /\ Goes(k, "stt")
    /\ UNCHANGED <<scenario, conn, recognition, worker, turnTask, current, backend, music, audio>>

\* The transcript goes to the device, then the recognition is stopped.
ShowText(k) ==
    /\ At(k, "stt") /\ conn.open
    /\ StopAsr
    /\ task' = [task EXCEPT ![k].pc = "stop", ![k].waits = asr.attached]
    /\ UNCHANGED <<scenario, final, worker, turnTask, current, backend, music, audio>>

\* A device that may interrupt the answer gets a new recognition at once.
Listens(k) ==
    /\ At(k, "stop") /\ Stopped(task[k].waits)
    /\ IF BargeIn /\ CanStartAsr
       THEN /\ StartAsr
            /\ task' = [task EXCEPT ![k].pc = "send", ![k].waits = asr.generation + 1]
       ELSE /\ UNCHANGED <<asr, socket>>
            /\ task' = [task EXCEPT ![k].pc = "send", ![k].waits = None]
    /\ UNCHANGED <<scenario, conn, final, worker, turnTask, current, backend, music, audio>>

Connected(g) == g # None => socket[g] # "connecting"

\* _send_agent_turn: the session is free, or it is busy until the deadline.
SendTurn(k) ==
    /\ At(k, "send") /\ Connected(task[k].waits)
    /\ active = None /\ Len(turns) < MaxTask
    /\ active' = Len(turns) + 1
    /\ turns' = Append(turns, "running")
    /\ current' = Len(turns) + 1
    /\ task' = [task EXCEPT ![k].pc = "reply", ![k].turn = Len(turns) + 1]
    /\ UNCHANGED <<scenario, conn, recognition, worker, turnTask, music, audio>>

StaysBusy(k) ==
    /\ At(k, "send") /\ Connected(task[k].waits) /\ active # None
    /\ Goes(k, "leave")
    /\ UNCHANGED <<scenario, conn, recognition, worker, turnTask, current, backend, music, audio>>

\* The first text to speak: of a finished turn, or already of a running one.
Speaks(k) ==
    /\ At(k, "reply") /\ conn.open
    /\ IF scenario.local THEN turns[task[k].turn] # "cancelled" ELSE turns[task[k].turn] = "done"
    /\ Goes(k, "speak")
    /\ audio' = k
    /\ UNCHANGED <<scenario, conn, recognition, worker, turnTask, current, backend, music>>

\* Nothing to speak: the turn was cancelled, failed or is silent; or the socket is gone.
Silent(k) ==
    /\ \/ At(k, "reply") /\ turns[task[k].turn] \in {"done", "cancelled"}
       \/ At(k, "reply") /\ scenario.local /\ ~conn.open
       \/ At(k, "stt") /\ ~conn.open
    /\ Goes(k, "leave")
    /\ UNCHANGED <<scenario, conn, recognition, worker, turnTask, current, backend, music, audio>>

\* The reply is spoken, or the speech fails; a tts stop ends it.
Spoken(k) ==
    /\ At(k, "speak")
    /\ turns[task[k].turn] \in {"done", "cancelled"} \/ ~conn.open
    /\ Goes(k, "leave")
    /\ audio' = None
    /\ UNCHANGED <<scenario, conn, recognition, worker, turnTask, current, backend, music>>

\* The cancellation arrives: the speech is ended, and only _run_transcript has more to do.
Cancelled(k) ==
    /\ task[k].cancelled
    /\ task[k].pc \notin {"leave", "restart", "ended"}
    /\ Goes(k, IF task[k].pc \in {"interrupt", "gather", "cleanup", "release"} THEN "ended"
               ELSE "leave")
    /\ audio' = IF task[k].pc = "speak" THEN None ELSE audio
    /\ UNCHANGED <<scenario, conn, recognition, worker, turnTask, current, backend, music>>

\* The finally of _run_transcript: an exit that was asked for, and a new recognition for a
\* device that goes on listening.
Leave(k) ==
    /\ task[k].pc = "leave"
    /\ current' = None
    /\ turnTask' = IF turnTask = k THEN None ELSE turnTask
    /\ conn' = IF conn.exit /\ ~conn.closed
               THEN [conn EXCEPT !.exit = FALSE, !.want = FALSE, !.watched = FALSE, !.open = FALSE]
               ELSE conn
    /\ Goes(k, "restart")
    /\ UNCHANGED <<scenario, recognition, worker, backend, music, audio>>

Restart(k) ==
    /\ task[k].pc = "restart"
    /\ IF BargeIn /\ CanStartAsr THEN StartAsr ELSE UNCHANGED <<asr, socket>>
    /\ Goes(k, "ended")
    /\ UNCHANGED <<scenario, conn, final, worker, turnTask, current, backend, music, audio>>

--------------------------------------------------------------------------------
(* The messages of the device.                                                  *)

Receives == worker["receiver"].pc = "receive" /\ ~conn.closed /\ conn.open

Message ==
    /\ Receives /\ scenario.messages > 0
    /\ scenario' = [scenario EXCEPT !.messages = @ - 1]

Does(w, pc) == worker' = [worker EXCEPT ![w].pc = pc]

\* listen/start of the firmware after a tts stop: stale when music comes next.
ListenAuto ==
    /\ Message /\ "auto" \in scenario.modes
    /\ \/ /\ MusicOwns
          /\ conn' = [conn EXCEPT !.want = FALSE, !.watched = FALSE]
          /\ UNCHANGED worker
       \/ /\ ~MusicOwns
          /\ conn' = [conn EXCEPT !.want = TRUE, !.mode = "auto", !.watched = TRUE]
          /\ Does("receiver", IF scenario.local THEN "asr" ELSE "receive")
    /\ UNCHANGED <<recognition, answering, backend, music, audio>>

\* listen/start in the other modes, and abort, abort first.
Interrupts ==
    /\ Message
    /\ conn' = [conn EXCEPT !.want = FALSE]
    /\ \E then \in (scenario.modes \cap {"manual", "realtime"}) \cup {"receive"} :
        worker' = [worker EXCEPT !["receiver"] =
                    [pc |-> "music", resumes |-> then, waits |-> None]]
    /\ UNCHANGED <<recognition, answering, backend, music, audio>>

ListenAfterAbort ==
    /\ worker["receiver"].pc \in {"manual", "realtime"}
    /\ conn' = [conn EXCEPT !.want = TRUE, !.mode = worker["receiver"].pc, !.watched = ~conn.closed]
    /\ worker' = [worker EXCEPT !["receiver"] =
                    [Receiving EXCEPT !.pc = IF scenario.local THEN "asr" ELSE "receive"]]
    /\ UNCHANGED <<scenario, recognition, answering, backend, music, audio>>

ListenStop ==
    /\ Message /\ conn.want
    /\ asr' = [asr EXCEPT !.attached = None]
    /\ socket' = IF asr.attached # None /\ socket[asr.attached] = "open"
                 THEN [socket EXCEPT ![asr.attached] = "stopping"] ELSE socket
    /\ conn' = [conn EXCEPT !.want = FALSE, !.watched = FALSE]
    /\ worker' = [worker EXCEPT !["receiver"] =
                    [pc |-> "stopping", resumes |-> "receive", waits |-> asr.attached]]
    /\ UNCHANGED <<final, answering, backend, music, audio>>

ListenStopped ==
    /\ worker["receiver"].pc = "stopping" /\ Stopped(worker["receiver"].waits)
    /\ worker' = [worker EXCEPT !["receiver"] = Receiving]
    /\ UNCHANGED <<scenario, conn, recognition, answering, backend, music, audio>>

\* An audio packet needs a recognition.
Audio ==
    /\ Receives /\ conn.want
    /\ CanStartAsr
    /\ Does("receiver", "asr")
    /\ UNCHANGED <<scenario, conn, recognition, answering, backend, music, audio>>

\* A packet that cannot be sent detaches and closes the recognizer.
AudioFails ==
    /\ Receives /\ conn.want /\ asr.attached # None /\ socket[asr.attached] = "closed"
    /\ asr' = [asr EXCEPT !.attached = None]
    /\ UNCHANGED <<scenario, conn, socket, final, worker, answering, backend, music, audio>>

ReceiverStartsAsr ==
    /\ worker["receiver"].pc = "asr"
    /\ IF CanStartAsr
       THEN StartAsr /\ worker' = [worker EXCEPT !["receiver"] =
                            [Receiving EXCEPT !.pc = "connecting", !.waits = asr.generation + 1]]
       ELSE UNCHANGED <<asr, socket>> /\ worker' = [worker EXCEPT !["receiver"] = Receiving]
    /\ UNCHANGED <<scenario, conn, final, answering, backend, music, audio>>

\* A recognition that cannot start ends the connection.
ReceiverStarted ==
    /\ worker["receiver"].pc = "connecting" /\ Connected(worker["receiver"].waits)
    /\ worker' = [worker EXCEPT !["receiver"] = [Receiving EXCEPT !.pc =
                    IF socket[worker["receiver"].waits] = "failed" THEN "over" ELSE "receive"]]
    /\ UNCHANGED <<scenario, conn, recognition, answering, backend, music, audio>>

\* _watch_no_voice_timeout.
NoVoice ==
    /\ "silence" \in scenario.ends
    /\ conn.watched /\ conn.want /\ ~conn.closed /\ conn.open
    /\ \A g \in Generation : final[g] = NoFinal
    /\ conn' = [conn EXCEPT !.watched = FALSE, !.want = FALSE, !.open = FALSE]
    /\ UNCHANGED <<scenario, recognition, worker, answering, backend, music, audio>>

--------------------------------------------------------------------------------
(* abort, of the receive loop or of close; the worker w.                         *)

AbortStopsMusic(w) ==
    /\ worker[w].pc = "music"
    /\ CancelMusic(w)
    /\ UNCHANGED <<scenario, conn, recognition, worker, answering, backend, audio>>

\* Finals of the recognition that is stopped count as accepted already.
AbortStopsAsr(w) ==
    /\ worker[w].pc = "music"
    /\ \/ NothingPlays(w) /\ UNCHANGED music
       \/ MusicStopped(w)
    /\ conn' = [conn EXCEPT !.watched = FALSE]
    /\ asr' = [asr EXCEPT !.accepted = asr.generation, !.attached = None,
                   !.discarded = IF asr.accepted = asr.generation THEN @ ELSE asr.generation]
    /\ socket' = IF asr.attached # None /\ socket[asr.attached] = "open"
                 THEN [socket EXCEPT ![asr.attached] = "stopping"] ELSE socket
    /\ worker' = [worker EXCEPT ![w].pc = "turn", ![w].waits = asr.attached]
    /\ UNCHANGED <<scenario, final, answering, backend, audio>>

AbortsTurn(w) ==
    /\ worker[w].pc = "turn" /\ Stopped(worker[w].waits)
    /\ current' = None
    /\ Aborted(current)
    /\ worker' = [worker EXCEPT ![w].pc = "release", ![w].waits = current]
    /\ UNCHANGED <<scenario, conn, recognition, task, turnTask, active, music, audio>>

\* The turn is released, or the wait for it times out; its task is cancelled.
AbortCancelsTask(w) ==
    /\ worker[w].pc = "release"
    /\ turnTask' = None
    /\ task' = IF turnTask # None /\ ~Ended(turnTask)
               THEN [task EXCEPT ![turnTask].cancelled = TRUE] ELSE task
    /\ worker' = [worker EXCEPT ![w].pc = "task", ![w].waits = turnTask]
    /\ UNCHANGED <<scenario, conn, recognition, current, backend, music, audio>>

AbortEnds(w) ==
    /\ worker[w].pc = "task"
    /\ worker[w].waits # None => Ended(worker[w].waits)
    /\ audio' = IF w = "receiver" /\ ~conn.closed THEN None ELSE audio
    /\ worker' = [worker EXCEPT ![w] = [Receiving EXCEPT !.pc = worker[w].resumes]]
    /\ UNCHANGED <<scenario, conn, recognition, answering, backend, music>>

--------------------------------------------------------------------------------
(* The end of the connection.                                                   *)

Disconnect ==
    /\ conn.open /\ "disconnect" \in scenario.ends
    /\ conn' = [conn EXCEPT !.open = FALSE]
    /\ UNCHANGED <<scenario, recognition, worker, answering, backend, music, audio>>

\* The loop leaves: its socket is gone, or an error ended it.
LoopEnds ==
    /\ \/ worker["receiver"].pc = "receive" /\ (~conn.open \/ conn.closed)
       \/ worker["receiver"].pc = "over"
    /\ Does("receiver", "close")
    /\ UNCHANGED <<scenario, conn, recognition, answering, backend, music, audio>>

\* close, called by the loop, by a new connection of the device or when the channel
\* stops; only the first call does anything.
Close(w) ==
    /\ \/ w = "receiver" /\ worker[w].pc = "close"
       \/ w = "closer" /\ worker[w].pc = "off" /\ "replaced" \in scenario.ends
    /\ IF conn.closed
       THEN /\ Does(w, "gone")
            /\ UNCHANGED conn
       ELSE /\ conn' = [conn EXCEPT !.closed = TRUE, !.want = FALSE, !.watched = FALSE]
            /\ worker' = [worker EXCEPT ![w] =
                            [pc |-> "music", resumes |-> "closed", waits |-> None]]
    /\ UNCHANGED <<scenario, recognition, answering, backend, music, audio>>

SocketIsClosed(w) ==
    /\ worker[w].pc = "closed"
    /\ conn' = [conn EXCEPT !.open = FALSE]
    /\ Does(w, "gone")
    /\ UNCHANGED <<scenario, recognition, answering, backend, music, audio>>

--------------------------------------------------------------------------------

TaskStep(k) ==
    \/ Interrupt(k)
    \/ Gathered(k)
    \/ AbortVictim(k)
    \/ VictimReleased(k)
    \/ ShowText(k)
    \/ Listens(k)
    \/ SendTurn(k)
    \/ StaysBusy(k)
    \/ Speaks(k)
    \/ Silent(k)
    \/ Spoken(k)
    \/ Cancelled(k)
    \/ Leave(k)
    \/ Restart(k)

RecognizerStep(g) ==
    \/ Connects(g)
    \/ ConnectFails(g)
    \/ SocketCloses(g)

FinalStep(g) ==
    \/ FinalStopsMusic(g)
    \/ FinalAccepted(g)

MusicStep ==
    \/ MusicWaited
    \/ MusicClaims
    \/ MusicEnds

WorkerStep(w) ==
    \/ AbortStopsMusic(w)
    \/ AbortStopsAsr(w)
    \/ AbortsTurn(w)
    \/ AbortCancelsTask(w)
    \/ AbortEnds(w)
    \/ SocketIsClosed(w)

LoopStep ==
    \/ ListenAfterAbort
    \/ ListenStopped
    \/ ReceiverStartsAsr
    \/ ReceiverStarted
    \/ LoopEnds
    \/ Close("receiver")

ToolStep ==
    \/ music.lock = "tool" /\ StartPlayback
    \/ StartAbandoned

Next ==
    \/ StartReplaces
    \/ StartPlayback
    \/ ToolStep
    \/ MusicStep
    \/ \E g \in Generation : RecognizerStep(g) \/ Final(g) \/ FinalStep(g)
    \/ \E b \in TaskId : TurnEnds(b)
    \/ ExitRequested
    \/ \E k \in DOMAIN task : TaskStep(k)
    \/ ListenAuto
    \/ Interrupts
    \/ ListenStop
    \/ Audio
    \/ AudioFails
    \/ NoVoice
    \/ LoopStep
    \/ Close("closer")
    \/ \E w \in DOMAIN worker : WorkerStep(w)
    \/ Disconnect

Spec == Init /\ [][Next]_vars

\* The event loop runs what is ready; recognizers and turns of the backend end; a lock is
\* given to who waits for it.
GoesOn ==
    \/ MusicStep \/ ToolStep \/ LoopStep
    \/ active # None /\ TurnEnds(active)
    \/ \E g \in Generation : RecognizerStep(g) \/ FinalStep(g)
    \/ \E k \in DOMAIN task : TaskStep(k)
    \/ \E w \in {"receiver", "closer"} : WorkerStep(w)

\* (The scenario ends every behaviour, so it is enough that something goes on.)
Fairness == WF_vars(GoesOn)
FairSpec == Spec /\ Fairness

--------------------------------------------------------------------------------

\* The speaker of the device has one owner: music never plays under an answer, no two
\* tasks speak at a time, and the tts stop of one of them never cuts the other off.
OneVoice ==
    /\ \A k \in DOMAIN task : task[k].pc = "speak" =>
        /\ music.pc # "playing"
        /\ \A l \in DOMAIN task : task[l].pc = "speak" => l = k
    /\ audio # None => IF audio = Music THEN music.pc = "playing" ELSE task[audio].pc = "speak"

Aborting(w) == worker[w].pc \in {"music", "turn", "release", "task"}

\* "An explicit abort discards any final callback produced while the ASR socket is being
\* stopped": whatever the order in which callbacks, locks and cancellations come, once
\* the abort is over no task goes on with a text of the recognition it stopped.
AbortDiscards ==
    \A k \in DOMAIN task :
        task[k].generation = asr.discarded =>
            \/ task[k].cancelled
            \/ task[k].pc \in {"leave", "restart", "ended"}
            \/ \E w \in DOMAIN worker : Aborting(w)

\* What the connection starts comes to an end: a task, whatever it waits for (the music's
\* lock, the task it interrupts, a recognizer, a busy session); an abort and a close, also when
\* they stop music under the lock, wait for a turn that is not released, or run at the same
\* time; and a closed connection has no music, no speaker and no turn.
ConnectionSettles ==
    <>[](/\ \A k \in DOMAIN task : Ended(k)
         /\ \A w \in {"receiver", "closer"} : ~Aborting(w)
         /\ conn.closed => music.pc = "none" /\ audio = None /\ active = None)
================================================================================
