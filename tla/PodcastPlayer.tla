----------------------------- MODULE PodcastPlayer -----------------------------
(* The playback of a podcast in one browser: utterances arrive as events, each is  *)
(* synthesized in a slot, and one pump plays them in the order of their numbers.    *)
(* The user interjects by voice or text, changes voices and roles, removes agents;  *)
(* an answer of the host to an interjection is played before anything else.         *)
EXTENDS Integers, FiniteSets

CONSTANTS
    Agent,          \* members of the group
    MaxSeq,         \* bound on the utterances
    Speaker,        \* whose each of them is, answers apart
    MaxChange,      \* bound on the captures, interjections, changes and removals
    Slots           \* CLOUD_TTS_MAX_CONCURRENCY

VARIABLES
    talk,           \* the utterances of the backend, by sequence: who, and how far it is
    feed,           \* the run: the first sequence of its generation, answer due, over
    player,         \* nextPlaySeq, the pump, the flags, synthJobs and skippedSeqs
    answer,         \* the answer being prepared or played; prepared ones of older generations
    orphan,         \* syntheses nobody waits for: in the queue, in a slot
    ui,             \* microphone, interjections sent, update under way, activeSpeakerKey
    removed,        \* removedAgentIds
    past,           \* history: where the player started, what it played to the end, what was
                    \*          cut short, and whether a generation was reset that had begun
    changes         \* actions of users so far
playerVars == <<talk, feed, player, answer, orphan, ui, removed, past, changes>>

Host == "host"
Seq == 1 .. MaxSeq
None == 0
Nobody == "nobody"

PlayerInit ==
    /\ talk = [s \in Seq |-> [who |-> Nobody, st |-> "none"]]
    /\ feed = [base |-> 1, due |-> FALSE, over |-> FALSE]
    /\ player = [next |-> 1, pump |-> "off", paused |-> FALSE, priority |-> FALSE,
                 replay |-> FALSE, stopped |-> FALSE, jobs |-> [s \in Seq |-> "none"], skipped |-> {}]
    /\ answer = [st |-> "none", old |-> 0]
    /\ orphan = [queued |-> 0, running |-> 0]
    /\ ui = [mic |-> FALSE, sent |-> 0, update |-> FALSE, active |-> Nobody]
    /\ removed = {}
    /\ past = [start |-> 1, heard |-> {}, cut |-> {}, twice |-> FALSE]
    /\ changes = 0

Who(s) == talk[s].who

--------------------------------------------------------------------------------
(* pumpPlayback, as a function of the player. `out` are the removed members.        *)

\* advanceSkippedSeqs; a speech that is ready, of a removed member, is left out, too.
Left(p, out) == p.skipped \cup {s \in Seq : p.jobs[s] = "ready" /\ Who(s) \in out}
Advanced(p, out) ==
    LET at == CHOOSE n \in p.next .. MaxSeq + 1 :
                  n \notin Left(p, out) /\ p.next .. n - 1 \subseteq Left(p, out)
    IN  IF p.next \in Seq THEN [p EXCEPT !.next = at, !.skipped = {s \in @ : s > at}] ELSE p

Job(p) == IF p.next \in Seq THEN p.jobs[p.next] ELSE "none"

\* Until there is nothing to play, or something to wait for.
Pumped(p, out) ==
    IF p.pump # "off" \/ p.paused \/ p.priority \/ p.stopped THEN p
    ELSE LET q == Advanced(p, out)
         IN  [q EXCEPT !.pump = CASE Job(q) = "none" -> "off"
                                  [] Job(q) = "ready" -> "play"
                                  [] OTHER -> "await"]

\* Mutant: what was interrupted counts as played.
PlayedOnce(p, out) ==
    Pumped([p EXCEPT !.pump = "off", !.replay = FALSE, !.jobs[p.next] = "none", !.next = @ + 1], out)

\* `await playPrepared` returns: the same again, or the next.
Played(p, out) ==
    IF p.replay THEN Pumped([p EXCEPT !.pump = "off", !.replay = FALSE], out)
    ELSE Pumped([p EXCEPT !.pump = "off", !.jobs[p.next] = "none", !.next = @ + 1], out)

\* `await job` returns with a speech: it is played, whether the player is paused or not.
Ready(p, s, out) ==
    LET q == [p EXCEPT !.jobs[s] = "ready"]
    IN  IF p.pump = "await" /\ p.next = s
        THEN IF Who(s) \in out THEN Played([q EXCEPT !.replay = FALSE], out) ELSE [q EXCEPT !.pump = "play"]
        ELSE q

\* skipSpeechSeq; the pump that awaits the job finds out when the job is done.
Skipped(p, S, out) ==
    Pumped([p EXCEPT !.skipped = @ \cup S,
                     !.jobs = [s \in Seq |-> IF s \in S THEN "none" ELSE @[s]],
                     !.pump = IF @ = "await" /\ p.next \in S THEN "stale" ELSE @], out)

\* Nobody waits for the synthesis of these any more.
Orphaned(S) ==
    [queued |-> orphan.queued + Cardinality({s \in S : player.jobs[s] = "queued"}),
     running |-> orphan.running + Cardinality({s \in S : player.jobs[s] = "running"})]

\* invalidatePlaybackWork: what waits for a slot is rejected, what runs ends some time.
Invalidated ==
    [queued |-> 0,
     running |-> orphan.running + Cardinality({s \in Seq : player.jobs[s] = "running"})]

\* The pump plays over an answer: its player is stopped, and nobody learns of it.
Over(p) == IF p.pump = "play" /\ answer.st = "play" THEN "none" ELSE answer.st

--------------------------------------------------------------------------------
(* Events of the backend, those of the generation of the client.                    *)

Opened == {s \in Seq : talk[s].st # "none"}
Gaps == {s \in Seq : s >= feed.base /\ talk[s].st = "none" /\ \E r \in Opened : r > s}

\* Utterances come in the order of their numbers, or of parallel speakers one before the
\* other. After an interjection the host answers first, alone.
Comes(s) ==
    /\ ~feed.over /\ s >= feed.base /\ talk[s].st = "none"
    /\ Cardinality({r \in feed.base .. s - 1 : talk[r].st = "none"}) <= 1
    /\ feed.due => s = feed.base
    /\ \A r \in Seq : talk[r].st # "answer"

\* podcast.utterance.started.
Starts(s) ==
    /\ Comes(s)
    /\ LET w == IF feed.due THEN Host ELSE Speaker[s] IN
        /\ talk' = [talk EXCEPT ![s] = [who |-> w, st |-> IF feed.due THEN "answer" ELSE "open"]]
        /\ IF w \in removed
           THEN /\ player' = Skipped(player, {s}, removed)
                /\ UNCHANGED <<ui, past>>
           ELSE /\ player' = [player EXCEPT !.next = IF @ = None THEN s ELSE @]
                /\ ui' = [ui EXCEPT !.active = w]
                /\ past' = IF player.next = None THEN [past EXCEPT !.start = s] ELSE past
    /\ feed' = [feed EXCEPT !.due = FALSE]
    /\ UNCHANGED <<answer, orphan, removed, changes>>

\* podcast.utterance.done with a text: enqueueSpeech.
Said(s) ==
    /\ talk[s].st = "open"
    /\ IF Who(s) \in removed
       THEN /\ talk' = [talk EXCEPT ![s].st = "skipped"]
            /\ player' = Skipped(player, {s}, removed)
            /\ UNCHANGED past
       ELSE /\ talk' = [talk EXCEPT ![s].st = "said"]
            /\ past' = IF player.next = None THEN [past EXCEPT !.start = s] ELSE past
            /\ player' = Pumped([player EXCEPT !.jobs[s] = "queued", !.next = IF @ = None THEN s ELSE @],
                                removed)
    /\ UNCHANGED <<feed, answer, orphan, ui, removed, changes>>

\* podcast.utterance.skipped, of one that never started, too; or done without a text.
Skips(s) ==
    /\ talk[s].st \in {"open", "answer"} \/ Comes(s)
    /\ talk' = [talk EXCEPT ![s].st = "skipped"]
    /\ feed' = [feed EXCEPT !.due = FALSE]
    /\ player' = Skipped(player, {s}, removed)
    /\ UNCHANGED <<answer, orphan, ui, removed, past, changes>>

\* podcast.utterance.done of an interjection: enqueuePrioritySpeech.
Answers(s) ==
    /\ talk[s].st = "answer"
    /\ talk' = [talk EXCEPT ![s].st = "skipped"]
    /\ player' = [Skipped(player, {s}, removed) EXCEPT !.priority = TRUE]
    /\ answer' = [answer EXCEPT !.st = "queued"]
    /\ UNCHANGED <<feed, orphan, ui, removed, past, changes>>

UtteranceEnds ==
    \/ \E s \in Seq : Said(s) \/ (talk[s].st # "none" /\ Skips(s)) \/ Answers(s)
    \/ \E s \in Gaps : Starts(s) \/ Skips(s)

\* podcast.done.
Done ==
    /\ ~feed.over /\ Gaps = {} /\ \A s \in Seq : talk[s].st \notin {"open", "answer"}
    /\ feed' = [feed EXCEPT !.over = TRUE]
    /\ player' = Pumped(player, removed)
    /\ UNCHANGED <<talk, answer, orphan, ui, removed, past, changes>>

\* podcast.stopped, podcast.error, stopPodcast: stopPodcastLocalPlayback.
Stops ==
    /\ ~player.stopped
    /\ feed' = [feed EXCEPT !.over = TRUE]
    /\ orphan' = Invalidated
    /\ player' = [player EXCEPT !.pump = "off", !.paused = FALSE, !.priority = FALSE, !.replay = FALSE,
                                !.stopped = TRUE, !.jobs = [s \in Seq |-> "none"], !.skipped = {}]
    /\ answer' = [st |-> "none", old |-> answer.old + (IF answer.st \in {"queued", "running"} THEN 1 ELSE 0)]
    /\ ui' = [ui EXCEPT !.mic = FALSE, !.active = Nobody]
    /\ UNCHANGED <<talk, removed, past, changes>>

\* resetForUserInput, resetForAgentConfigChange. The pump that was playing goes on to the
\* next number once more, after that.
Reset(again) ==
    /\ player' = [player EXCEPT !.next = IF player.pump = "play" THEN 1 ELSE None,
                                !.pump = "off", !.paused = FALSE, !.priority = FALSE, !.replay = FALSE,
                                !.jobs = [s \in Seq |-> "none"], !.skipped = {}]
    /\ orphan' = Invalidated
    /\ answer' = [st |-> "none", old |-> answer.old + (IF answer.st \in {"queued", "running"} THEN 1 ELSE 0)]
    /\ past' = [past EXCEPT !.cut = @ \cup ({s \in Seq : talk[s].st = "said"} \ past.heard),
                            !.twice = @ \/ again]

\* What the discussion says from here on is of a new generation.
NewGeneration(due) ==
    /\ talk' = [s \in Seq |-> IF talk[s].st \in {"open", "answer", "said"} THEN [talk[s] EXCEPT !.st = "lost"]
                              ELSE talk[s]]
    /\ feed' = [feed EXCEPT !.base = IF Opened = {} THEN 1
                                     ELSE 1 + CHOOSE s \in Opened : \A r \in Opened : r <= s,
                            !.due = due]

\* podcast.input.accepted, of this client or of another one.
Accepted ==
    /\ ~player.stopped
    /\ \/ ui.sent > 0 /\ ui' = [ui EXCEPT !.sent = @ - 1, !.active = "me"] /\ UNCHANGED changes
       \/ ~feed.over /\ changes < MaxChange /\ changes' = changes + 1 /\ ui' = [ui EXCEPT !.active = "me"]
    /\ Reset(FALSE)
    /\ NewGeneration(TRUE)
    /\ UNCHANGED removed

\* podcast.agent.updated with another role or model: an update of this client will have a
\* response, too.
AgentChanged ==
    /\ ~player.stopped /\ ~feed.over /\ ~ui.update /\ changes < MaxChange
    /\ changes' = changes + 1
    /\ \E mine \in BOOLEAN : ui' = [ui EXCEPT !.update = mine, !.active = Nobody]
    /\ Reset(FALSE)
    /\ NewGeneration(feed.due)
    /\ UNCHANGED removed

\* The response of update_agent resets the client again.
Responds ==
    /\ ui.update
    /\ ui' = [ui EXCEPT !.update = FALSE, !.active = Nobody]
    /\ Reset(\E s \in Opened : s >= feed.base)
    /\ UNCHANGED <<talk, feed, removed, changes>>

--------------------------------------------------------------------------------
(* Synthesis and sound.                                                             *)

Running == orphan.running + Cardinality({s \in Seq : player.jobs[s] = "running"})
           + (IF answer.st = "running" THEN 1 ELSE 0)

\* withCloudTtsSlot, drainCloudTtsQueue: whose turn it is, is left open.
SlotTaken ==
    /\ Running < Slots
    /\ \/ \E s \in Seq : /\ player.jobs[s] = "queued"
                         /\ player' = [player EXCEPT !.jobs[s] = "running"]
                         /\ UNCHANGED <<answer, orphan>>
       \/ /\ answer.st = "queued"
          /\ answer' = [answer EXCEPT !.st = "running"]
          /\ UNCHANGED <<player, orphan>>
       \/ /\ orphan.queued > 0
          /\ orphan' = [queued |-> orphan.queued - 1, running |-> orphan.running + 1]
          /\ UNCHANGED <<player, answer>>
    /\ UNCHANGED <<talk, feed, ui, removed, past, changes>>

\* The speech is there, or falls back to the voice of the browser.
Synthesized(s) ==
    /\ player.jobs[s] = "running"
    /\ player' = Ready(player, s, removed)
    /\ answer' = [answer EXCEPT !.st = Over(player')]
    /\ UNCHANGED <<talk, feed, orphan, ui, removed, past, changes>>

\* One that nobody waits for has come to its end.
OrphanEnds ==
    /\ orphan.running > 0
    /\ orphan' = [orphan EXCEPT !.running = @ - 1]
    /\ UNCHANGED <<talk, feed, player, answer, ui, removed, past, changes>>

\* The job the pump awaited was replaced or skipped: it looks again.
AwaitedInVain ==
    /\ player.pump = "stale"
    /\ player' = Pumped([player EXCEPT !.pump = "off"], removed)
    /\ answer' = [answer EXCEPT !.st = Over(player')]
    /\ UNCHANGED <<talk, feed, orphan, ui, removed, past, changes>>

PlayEnds ==
    /\ player.pump = "play"
    /\ past' = [past EXCEPT !.heard = @ \cup {player.next}]
    /\ player' = Played(player, removed)
    /\ UNCHANGED <<talk, feed, answer, orphan, ui, removed, changes>>

\* The answer is ready: what is being played is stopped, and passed over.
AnswerReady ==
    /\ answer.st = "running"
    /\ answer' = [answer EXCEPT !.st = "play"]
    /\ IF player.pump = "play"
       THEN /\ past' = IF player.replay THEN past ELSE [past EXCEPT !.cut = @ \cup {player.next}]
            /\ player' = Played(player, removed)
       ELSE UNCHANGED <<player, past>>
    /\ UNCHANGED <<talk, feed, orphan, ui, removed, changes>>

\* The `finally` of enqueuePrioritySpeech.
Unprioritized(p, out) == IF p.stopped THEN [p EXCEPT !.priority = FALSE, !.paused = FALSE]
                    ELSE Pumped([p EXCEPT !.priority = FALSE, !.paused = FALSE], out)

AnswerEnds ==
    /\ answer.st = "play"
    /\ answer' = [answer EXCEPT !.st = "none"]
    /\ player' = Unprioritized(player, removed)
    /\ UNCHANGED <<talk, feed, orphan, ui, removed, past, changes>>

\* The same of an answer of an older generation, which was never played.
OldAnswerEnds ==
    /\ answer.old > 0
    /\ player' = Unprioritized(player, removed)
    /\ answer' = [st |-> Over(player'), old |-> answer.old - 1]
    /\ UNCHANGED <<talk, feed, orphan, ui, removed, past, changes>>

SoundStep ==
    \/ SlotTaken \/ OrphanEnds \/ AwaitedInVain \/ PlayEnds
    \/ AnswerReady \/ AnswerEnds \/ OldAnswerEnds
    \/ \E s \in Seq : Synthesized(s)

--------------------------------------------------------------------------------
(* The user.                                                                        *)

\* stopCurrentPlayback: what plays is to be played again, unless it is passed over. An
\* answer that is stopped was the last one.
Interrupted(p, replay, out) ==
    CASE p.pump = "play" -> Played([p EXCEPT !.replay = @ \/ replay], out)
      [] answer.st = "play" -> Unprioritized([p EXCEPT !.replay = @ \/ replay], out)
      [] OTHER -> p
AnswerStopped == [answer EXCEPT !.st = IF @ = "play" THEN "none" ELSE @]

Acts == changes < MaxChange /\ changes' = changes + 1

\* startInterjectionCapture.
Captures ==
    /\ ~feed.over /\ ~player.stopped /\ ~ui.mic /\ Acts
    /\ ui' = [ui EXCEPT !.mic = TRUE]
    /\ player' = Interrupted([player EXCEPT !.paused = TRUE], TRUE, removed)
    /\ answer' = AnswerStopped
    /\ UNCHANGED <<talk, feed, orphan, removed, past>>

\* Nothing was understood, the recognizer failed or ended, or the user cancels.
CaptureEnds ==
    /\ ui.mic
    /\ ui' = [ui EXCEPT !.mic = FALSE]
    /\ player' = Pumped([player EXCEPT !.paused = FALSE], removed)
    /\ answer' = [answer EXCEPT !.st = Over(player')]
    /\ UNCHANGED <<talk, feed, orphan, removed, past, changes>>

\* submitInterjection of what was said.
Speaks ==
    /\ ui.mic
    /\ ui' = [ui EXCEPT !.mic = FALSE, !.sent = @ + 1]
    /\ UNCHANGED <<talk, feed, player, answer, orphan, removed, past, changes>>

\* submitPodcastComposer.
Types ==
    /\ ~feed.over /\ ~player.stopped /\ Acts
    /\ ui' = [ui EXCEPT !.sent = @ + 1]
    /\ player' = Interrupted([player EXCEPT !.paused = TRUE], TRUE, removed)
    /\ answer' = AnswerStopped
    /\ UNCHANGED <<talk, feed, orphan, removed, past>>

\* The interjection failed: the old contents go on.
NotAccepted ==
    /\ ui.sent > 0
    /\ ui' = [ui EXCEPT !.sent = @ - 1]
    /\ player' = Pumped([player EXCEPT !.paused = FALSE], removed)
    /\ answer' = [answer EXCEPT !.st = Over(player')]
    /\ UNCHANGED <<talk, feed, orphan, removed, past, changes>>

\* The utterances of one speaker that are still to be played, and the one that is.
Pending(w) == {s \in Seq : Who(s) = w /\ talk[s].st = "said" /\ s >= player.next}

\* refreshAgentSpeechVoice, refreshSystemSpeechVoice: they are synthesized anew, and what is
\* being played begins again.
VoiceChanged(w) ==
    /\ ~player.stopped /\ w \notin removed /\ Acts
    /\ LET renewed == Pending(w) \ {s \in Seq : player.jobs[s] = "none"}
           p == [player EXCEPT
                    !.jobs = [s \in Seq |-> IF s \in renewed THEN "queued" ELSE @[s]],
                    !.pump = IF @ = "await" /\ player.next \in renewed THEN "stale" ELSE @]
           its == (player.pump = "play" /\ Who(player.next) = w) \/ (answer.st = "play" /\ w = Host)
       IN  /\ player' = Pumped(IF its THEN Interrupted(p, TRUE, removed) ELSE p, removed)
           /\ answer' = IF its THEN AnswerStopped ELSE answer
           /\ orphan' = Orphaned(renewed)
    /\ UNCHANGED <<talk, feed, ui, removed, past>>

\* removeGroupAgent: its utterances are skipped; if it speaks or was the last to start one,
\* what is being played is passed over.
Removes(a) ==
    /\ ~player.stopped /\ a \notin removed /\ removed \cup {a} # Agent /\ Acts
    /\ removed' = removed \cup {a}
    /\ LET mine == {s \in Seq : Who(s) = a /\ talk[s].st \in {"open", "said"}}
           stops == ui.active = a \/ (player.pump = "play" /\ Who(player.next) = a)
           p == Skipped(player, mine, removed')
           sounds == player.pump = "play" \/ answer.st = "play"
       IN  /\ player' = IF stops /\ sounds THEN Interrupted(p, FALSE, removed') ELSE p
           /\ answer' = IF stops THEN AnswerStopped ELSE answer
           /\ orphan' = Orphaned(mine)
           /\ past' = [past EXCEPT !.cut = @ \cup (IF stops /\ player.pump = "play" THEN {player.next} ELSE {})]
           /\ ui' = IF stops THEN [ui EXCEPT !.active = Nobody] ELSE ui
           /\ talk' = [s \in Seq |-> IF s \in mine /\ talk[s].st = "said" THEN [talk[s] EXCEPT !.st = "skipped"]
                                     ELSE talk[s]]
    /\ UNCHANGED feed

PlayerNext ==
    \/ \E s \in Seq : Starts(s) \/ Said(s) \/ Skips(s) \/ Answers(s)
    \/ Done \/ Stops
    \/ Accepted \/ AgentChanged \/ Responds
    \/ SoundStep
    \/ Captures \/ CaptureEnds \/ Speaks \/ Types \/ NotAccepted
    \/ \E w \in Agent \cup {Host} : VoiceChanged(w)
    \/ \E a \in Agent : Removes(a)

\* Syntheses and playback have timeouts; so has the request of an interjection; browsers end
\* a recognition by themselves.
GoesOn == SoundStep \/ UtteranceEnds \/ CaptureEnds \/ Accepted \/ NotAccepted

PlayerSpec == PlayerInit /\ [][PlayerNext]_playerVars /\ WF_playerVars(GoesOn)

--------------------------------------------------------------------------------

\* The pump sleeps only while there is nothing for it: an interjection that fails, is
\* cancelled or answered, a skipped or renewed utterance wakes it.
PumpIsAwake ==
    player.pump = "off" => \/ player.stopped \/ player.paused \/ player.priority
                           \/ Job(Advanced(player, removed)) = "none"

\* "If the submission fails the old contents go on, nothing that is queued is dropped": what
\* the player has passed of this generation it has played to the end, whatever interrupted
\* it, except what a removal or the answer of the host cut short.
NothingIsPassedOver ==
    \A s \in Seq : talk[s].st = "said" /\ past.start <= s /\ s < player.next => s \in past.heard \cup past.cut

\* "The other members go on with the discussion": who is removed takes nobody else's
\* utterance along.
OthersGoOn ==
    [][\A a \in Agent : a \in removed' \ removed /\ player.pump = "play" /\ Who(player.next) # a =>
            player'.pump = "play" /\ player'.next = player.next]_playerVars

\* The player waits for a number of an older generation.
Astray == player.next \notin {None} \cup feed.base .. MaxSeq + 1

\* What was said in this generation is heard in the end, unless the response to an update
\* resets the player once more when the new generation has begun.
SaidIsHeard ==
    []<>(\A s \in Seq : talk[s].st = "said" =>
            \/ s \in past.heard \cup past.cut \/ s < past.start
            \/ Astray \/ past.twice \/ player.stopped)
================================================================================
