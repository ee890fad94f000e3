----------------------------- MODULE VoiceTalk -----------------------------
(***************************************************************************)
(* The hands-free voice conversation of the browser                        *)
(* (adapters/webui/static/voice-core.js), with what it commands and what   *)
(* drives it: the microphone and its recognizer                            *)
(* (voice-recognizer-webspeech.js), the chain of speech engines            *)
(* (voice-speaker-fallback.js over voice-speaker-rest.js with its player   *)
(* voice-pcm-player.js, and over voice-speaker-local.js), the timers of    *)
(* voice-shell.js, and the endpoint of webui/server.py that answers its    *)
(* messages.                                                               *)
(*                                                                         *)
(* The core is a function from a state and an event to a state and the     *)
(* commands the shell executes at once, so here an event is an operator    *)
(* from the page to the page: the fields of the core, and what the         *)
(* commands have done to the microphone, the timers and the speech.        *)
(*                                                                         *)
(* A reply is counted in units of text.  A unit ends at the end of a       *)
(* sentence (readyChunk cuts it) or is the tail that only the end of the   *)
(* message or of the turn lets through.                                    *)
(***************************************************************************)
EXTENDS Integers, Sequences, SequencesExt

CONSTANTS Bounds,     \* bounds of a behaviour, one of which is chosen: turns of
                      \* the session, units of text of a reply, touches - what
                      \* the user does, and what fails -, whether the turns
                      \* answer in SSML and whether a wake word is configured
          MaxNet,     \* events on their way to the page
          Output      \* speech outputs the page may be set to: "cloud", "local"

VARIABLES page,       \* the core, its microphone, timers and speech; ext is the
                      \* turn the text page shows as active; history: awaits, it
                      \* waits for a turn it does not track, and astray, which of
                      \* these happened: an error while it listened (error), a
                      \* drained event while something was left to play (gap), at
                      \* the end of a cancelled utterance (late), a level that
                      \* failed after it had sounded (level), or one whose text
                      \* another level reads again though it had sounded (again)
          net,        \* the endpoint's events that the page has not handled
          up,         \* the page's messages that the endpoint has not handled
          server,     \* the turn that runs, what it has said, the turns so far
          touches,      \* how much of that there has been
          bound         \* the bounds of this behaviour

moving == <<page, net, up, server, touches>>

voiceVars == <<moving, bound>>

NoTurn == [id |-> 0]

Silent == [level |-> "cloud",   \* the level of the chain, remembered
           begun |-> FALSE, ended |-> FALSE, pushed |-> 0, heard |-> FALSE,
           wait |-> 0,          \* units the cloud engine has not synthesized
           sent |-> FALSE,      \* it has sent all the audio
           plays |-> FALSE,     \* the player has a source that sounds
             fired |-> FALSE,     \* it has called onAudible since it was stopped last
           marked |-> FALSE,    \* the player was told that the audio is complete
           drain |-> FALSE,     \* the player's timer for the tail of the output
           queue |-> 0,         \* units the local engine has not spoken
           busy |-> FALSE,      \* the local engine thinks it speaks
           last |-> FALSE,      \* it was told that no more comes
           utter |-> 0,         \* utterances the browser's synthesizer has
           late |-> FALSE,      \* the end of a cancelled utterance is to come
           once |-> "no"]       \* the announcement of an error: no, on, late

-----------------------------------------------------------------------------
(* The states of the core. *)

Active(p) == p.st \in {"starting", "capturing", "thinking", "speaking", "cooldown"}

Listening(p) == p.st \in {"starting", "capturing"}

Ear(p) == p.mic = "on"

Reads(p) == p.speech.plays \/ p.speech.utter > 0

TurnIsOpen(p) == p.turn # NoTurn /\ p.turn.open

-----------------------------------------------------------------------------
(* Commands. *)

StopMic(p) == [p EXCEPT !.mic = "off"]

Clear(p, tags) == [p EXCEPT !.timers = @ \ tags]

(* FallbackSpeaker.abort of all engines and the player, and what is left of
   an announcement; the browser reports the end of an utterance it cancels
   later. *)
StopSpeech(p) ==
  LET s == p.speech
  IN [p EXCEPT !.speech = [Silent EXCEPT !.level = s.level,
                                         !.late = s.late \/ s.utter > 0,
                                         !.once = IF s.once = "no" THEN "no" ELSE "late"]]

(* begin of the chain: neither the player nor an engine hears of it. *)
Begin(p) == [p EXCEPT !.speech.begun = FALSE, !.speech.ended = FALSE,
                      !.speech.pushed = 0, !.speech.heard = FALSE]

(* markAudible: the chain hears that its response sounds, and so does the core. *)
Audible(p) ==
  [p EXCEPT !.speech.heard = TRUE,
            !.turn = IF @ = NoTurn THEN @ ELSE [@ EXCEPT !.audio = TRUE]]

(* A unit begins to sound. *)
Sounds(p) == [p EXCEPT !.turn = IF @ = NoTurn THEN @ ELSE [@ EXCEPT !.heard = @ + 1]]

(* The local engine speaks the next utterance of its queue. *)
LocalNext(p) ==
  IF ~p.speech.busy /\ p.speech.queue > 0
    THEN Sounds(Audible([p EXCEPT !.speech.busy = TRUE, !.speech.queue = @ - 1,
                                  !.speech.utter = @ + 1]))
    ELSE p

(* The first text of a response begins the engine of the level. *)
BeginEngine(p) ==
  IF p.speech.begun THEN p
  ELSE IF p.speech.level = "cloud"
    THEN [p EXCEPT !.speech.begun = TRUE, !.speech.wait = 0, !.speech.sent = FALSE]
    ELSE [p EXCEPT !.speech.begun = TRUE, !.speech.queue = 0, !.speech.busy = FALSE,
                   !.speech.last = FALSE]

Push(p, n) ==
  LET b == BeginEngine(p) IN
  IF n = 0 THEN p
  ELSE IF b.speech.level = "cloud"
    THEN [b EXCEPT !.speech.pushed = @ + n, !.speech.wait = @ + n]
    ELSE LocalNext([b EXCEPT !.speech.pushed = @ + n, !.speech.queue = @ + n])

End(p) == LET b == BeginEngine(p)
          IN [b EXCEPT !.speech.ended = TRUE, !.speech.last = (b.speech.level = "local")]

-----------------------------------------------------------------------------
(* Helpers of the core. *)

StartListening(p) ==
  [p EXCEPT !.st = "starting", !.mic = IF @ = "off" THEN "opening" ELSE @,
            !.timers = @ \cup {"start"} \cup (IF p.wake = "awake" THEN {"wakeIdle"} ELSE {})]

ResumeAfterTurn(p, audio) ==
  IF audio THEN [p EXCEPT !.st = "cooldown", !.timers = @ \cup {"cooldown"}]
           ELSE StartListening(p)

NewTurn(id, muted, ssml) ==
  [id |-> id, open |-> TRUE, text |-> 0, whole |-> 0, cut |-> 0, muted |-> muted,
   ssml |-> ssml, cancel |-> FALSE, audio |-> FALSE, segment |-> FALSE,
   ended |-> FALSE,
   \* history: units that sounded, how many of them a level read again after another
   \* that failed, and whether the user cut the turn short
   heard |-> 0, again |-> 0, skipped |-> FALSE]

(* speakCmds for the units up to n. *)
SpeakTo(p, n) ==
  LET b == IF p.turn.segment THEN p ELSE Begin(p)
  IN Push([b EXCEPT !.turn.segment = TRUE, !.turn.cut = n], n - p.turn.cut)

(* What readyChunk cuts. *)
SpeakWhole(p) == IF p.turn.whole > p.turn.cut THEN SpeakTo(p, p.turn.whole) ELSE p

(* The rest of the text as well. *)
SpeakRest(p) == IF p.turn.text > p.turn.cut THEN SpeakTo(p, p.turn.text) ELSE p

EndSegment(p) == IF p.turn.segment THEN [End(p) EXCEPT !.turn.segment = FALSE] ELSE p

WakeUp(p) == Clear(StopMic([p EXCEPT !.wake = "awake"]), {"start"})

Fallen(p) == [StopMic(p) EXCEPT !.st = "error"]

(* The user does not want to hear the rest. *)
Skipped(p) ==
  [StopSpeech(p) EXCEPT !.turn = IF @ = NoTurn THEN @ ELSE [@ EXCEPT !.skipped = TRUE]]

Quit(p, st) == Clear(Skipped(StopMic([p EXCEPT !.st = st])),
                     {"start", "cooldown", "wakeIdle"})

(* chatSend and cancelTurn; a page that is not connected fails. *)
Reports(p, msgs) == IF msgs # <<>> /\ p.link = "down" THEN Fallen(p) ELSE p

-----------------------------------------------------------------------------
(* Events of the user.  The second component is what the page sends. *)

Opened(p, wake, talk) ==
  LET o == [p EXCEPT !.hidden = FALSE, !.turn = NoTurn, !.replay = FALSE,
                     !.wake = IF ~talk \/ ~wake THEN "none"
                              ELSE IF p.ext # 0 THEN "awake" ELSE "standby"]
  IN IF ~talk THEN [o EXCEPT !.st = "paused"]
     ELSE IF p.ext # 0 THEN [o EXCEPT !.st = "thinking", !.awaits = TRUE]
     ELSE StartListening(o)

(* Leaving the overlay disposes of the chain: the next begins at its first
   level. *)
Closed(p) ==
  LET c == Quit(p, "closed")
  IN [c EXCEPT !.hidden = FALSE, !.turn = NoTurn, !.replay = FALSE, !.wake = "none",
               !.speech.level = p.output]

Toggled(p, wake) ==
  LET open == TurnIsOpen(p) \/ p.ext # 0
      w == [p EXCEPT !.wake = IF ~wake THEN "none" ELSE IF open THEN "awake" ELSE "standby"]
  IN IF p.st \in {"paused", "error"}
       THEN IF open THEN [w EXCEPT !.st = "thinking", !.awaits = ~TurnIsOpen(p)]
                    ELSE StartListening(w)
       ELSE Quit([p EXCEPT !.turn = IF @ = NoTurn THEN @ ELSE [@ EXCEPT !.muted = TRUE]],
                 "paused")

(* Cancel of the turn that is open, once. *)
Cancelling(p) == TurnIsOpen(p) /\ ~p.turn.cancel

CancelMessage(p) == IF Cancelling(p) THEN <<[type |-> "cancel", id |-> p.turn.id]>> ELSE <<>>

MutedTurn(p) == [p EXCEPT !.turn = IF @ = NoTurn THEN @
                                   ELSE [@ EXCEPT !.muted = TRUE,
                                                  !.cancel = @ \/ p.turn.open]]

Submitted(p) ==
  <<Quit(IF Cancelling(p) THEN MutedTurn(p) ELSE p, "thinking"),
    CancelMessage(p) \o <<[type |-> "send", id |-> 0]>>>>

(* CANCEL_AND_PAUSE as the change of the mode sends it. *)
CancelledAndPaused(p) ==
  <<Quit(MutedTurn(p), "paused"),
    IF p.turn = NoTurn /\ p.ext # 0 THEN <<[type |-> "cancel", id |-> p.ext]>>
                                    ELSE CancelMessage(p)>>

(* MIC_FINAL; the wake word may be there, with something to say after it. *)
Heard(p, named, more) ==
  LET said == Clear(StopMic([p EXCEPT !.st = "thinking"]), {"start", "wakeIdle"})
      send == <<[type |-> "send", id |-> 0]>>
  IN IF p.wake # "standby" THEN <<said, send>>
     ELSE IF ~named THEN <<p, <<>>>>
     ELSE IF more THEN <<[WakeUp(p) EXCEPT !.st = "thinking"], send>>
     ELSE <<StartListening(WakeUp(p)), <<>>>>

TappedThinking(p) ==
  IF TurnIsOpen(p) \/ p.ext # 0
    THEN IF p.turn # NoTurn /\ p.turn.cancel THEN <<p, <<>>>>
         ELSE <<[p EXCEPT !.turn = IF @ = NoTurn THEN @ ELSE [@ EXCEPT !.cancel = TRUE]],
                <<[type |-> "cancel", id |-> IF p.turn # NoTurn THEN p.turn.id ELSE p.ext]>>>>
    ELSE <<StartListening(p), <<>>>>

TappedSpeaking(p) ==
  LET q == Skipped(p)
  IN IF TurnIsOpen(p) THEN <<[MutedTurn(q) EXCEPT !.st = "thinking"], CancelMessage(p)>>
                      ELSE <<StartListening(q), <<>>>>

Tapped(p) ==
  CASE Listening(p) /\ p.wake = "standby" -> <<StartListening(WakeUp(p)), <<>>>>
    [] p.st = "thinking" -> TappedThinking(p)
    [] p.st = "speaking" -> TappedSpeaking(p)
    [] p.st = "cooldown" -> <<StartListening(Clear(p, {"cooldown"})), <<>>>>
    [] OTHER -> <<p, <<>>>>

WentHidden(p) ==
  LET h == [p EXCEPT !.hidden = TRUE]
  IN IF Listening(p) THEN Clear(StopMic(h), {"start", "wakeIdle"}) ELSE h

(* The synthesizer of the browser may be stuck with what it had. *)
SpeechBusy(p) == p.speech.level = "local" /\ (p.speech.busy \/ p.speech.utter > 0)

(* The whole text of the turn, from its beginning. *)
Replayed(p) ==
  LET r == [StopSpeech([p EXCEPT !.replay = FALSE]) EXCEPT
              !.turn.segment = FALSE, !.turn.cut = 0, !.turn.heard = 0, !.turn.again = 0]
      s == SpeakTo(r, p.turn.text)
  IN [(IF p.turn.open THEN s ELSE EndSegment(s)) EXCEPT !.st = "speaking"]

CameBack(p) ==
  LET v == [p EXCEPT !.hidden = FALSE] IN
  IF ~Active(p) THEN v
  ELSE IF (p.replay \/ SpeechBusy(p)) /\ p.turn # NoTurn /\ p.turn.text > 0 /\ ~p.turn.muted
    THEN Replayed(v)
  ELSE IF p.st = "speaking" THEN v
  ELSE IF TurnIsOpen(p) THEN [v EXCEPT !.st = "thinking"]
  ELSE [Clear(StopMic(v), {"start", "wakeIdle"}) EXCEPT
          !.st = "cooldown", !.timers = @ \cup {"cooldown"}]

(* Another output: the chain is disposed of and built anew. *)
SpeakerReset(p, out) ==
  LET n == [Skipped(p) EXCEPT !.output = out, !.speech.level = out]
      m == IF p.turn = NoTurn THEN n ELSE [n EXCEPT !.turn.muted = TRUE]
  IN IF p.st # "speaking" THEN n
     ELSE IF TurnIsOpen(p) THEN [m EXCEPT !.st = "thinking"]
     ELSE ResumeAfterTurn(m, p.turn # NoTurn /\ p.turn.audio)

-----------------------------------------------------------------------------
(* Events of the conversation. *)

Accepted(p, id, ssml) ==
  LET q == [StopSpeech(p) EXCEPT !.replay = FALSE, !.turn = NewTurn(id, ~Active(p), ssml)]
  IN IF Listening(p) THEN Clear(StopMic([q EXCEPT !.st = "thinking"]), {"start", "wakeIdle"})
     ELSE IF p.st \in {"speaking", "cooldown"}
       THEN Clear([q EXCEPT !.st = "thinking"], {"cooldown"})
     ELSE q

Grown(p, whole) ==
  [p EXCEPT !.turn.text = @ + 1, !.turn.ended = FALSE,
            !.turn.whole = IF whole THEN p.turn.text + 1 ELSE @]

(* A response that was ended and still sounds is waited for: what comes
   meanwhile is spoken when it has drained. *)
Sounding(p) == p.st = "speaking" /\ ~p.turn.segment

TextDelta(p, whole) ==
  IF p.turn = NoTurn THEN p
  ELSE LET g == Grown(p, whole) IN
    IF p.turn.muted \/ ~Active(p) \/ p.turn.ssml THEN g
    ELSE IF p.hidden THEN [g EXCEPT !.replay = TRUE]
    ELSE IF Sounding(p) \/ g.turn.whole <= g.turn.cut THEN g
    ELSE [SpeakWhole(g) EXCEPT !.st = "speaking"]

TurnDone(p) ==
  IF p.turn = NoTurn THEN p
  ELSE LET d == [p EXCEPT !.turn.open = FALSE, !.turn.cancel = FALSE]
           r == SpeakRest(d)
           e == [EndSegment(r) EXCEPT !.turn.cut = IF p.turn.ssml THEN p.turn.cut ELSE @] IN
    IF ~Active(p) THEN d
    ELSE IF p.turn.muted
      THEN IF p.hidden THEN [d EXCEPT !.st = "starting"]
           ELSE ResumeAfterTurn(StopSpeech(d), p.turn.audio)
    ELSE IF p.hidden THEN [d EXCEPT !.replay = @ \/ p.turn.text > 0]
    ELSE IF Sounding(p) THEN d
    ELSE IF r.turn.segment THEN [e EXCEPT !.st = "speaking"]
    ELSE ResumeAfterTurn(e, p.turn.audio)

MessageEnd(p) ==
  IF p.turn = NoTurn THEN p
  ELSE LET m == [p EXCEPT !.turn.ended = TRUE]
           r == SpeakRest(m) IN
    IF p.turn.muted \/ ~Active(p) \/ p.turn.ssml THEN p
    ELSE IF Sounding(p) THEN m
    ELSE IF r.turn.segment THEN [EndSegment(r) EXCEPT !.st = "speaking"]
    ELSE r

TurnError(p) ==
  LET q == [StopSpeech(p) EXCEPT !.turn = NoTurn] IN
  IF ~Active(p) THEN q
  ELSE IF p.hidden THEN [q EXCEPT !.st = "starting"]
  ELSE [q EXCEPT !.st = "speaking", !.speech.once = "on",
                 !.astray = @ \cup (IF p.mic # "off" THEN {"error"} ELSE {})]

TurnCancelled(p) ==
  LET q == [StopSpeech(p) EXCEPT !.turn = NoTurn] IN
  IF ~Active(p) THEN q
  ELSE IF p.hidden THEN [q EXCEPT !.st = "starting"]
  ELSE StartListening(q)

(* SPEAK_DRAINED: everything that was pushed has sounded. *)
Drained(p) ==
  IF p.st # "speaking" THEN p
  ELSE IF p.turn = NoTurn THEN ResumeAfterTurn(p, TRUE)
  ELSE LET w == SpeakWhole(p)
           r == IF p.turn.ended \/ ~p.turn.open THEN EndSegment(SpeakRest(w)) ELSE w
       IN IF r.turn.cut > p.turn.cut THEN r
          ELSE IF p.turn.open THEN [r EXCEPT !.st = "thinking"]
          ELSE ResumeAfterTurn(r, p.turn.audio)

-----------------------------------------------------------------------------
VoiceInit ==
  /\ \E out \in Output :
       page = [st |-> "closed", hidden |-> FALSE, wake |-> "none", turn |-> NoTurn,
               replay |-> FALSE, mic |-> "off", timers |-> {}, output |-> out,
               speech |-> [Silent EXCEPT !.level = out], ext |-> 0, link |-> "up",
               awaits |-> FALSE, astray |-> {}]
  /\ net = <<>>
  /\ up = <<>>
  /\ server = [turn |-> 0, said |-> 0, message |-> FALSE, begun |-> 0]
  /\ touches = 0
  /\ bound \in Bounds

(* The page has become p and sends msgs. *)
Becomes(p, msgs) ==
  /\ page' = Reports(p, msgs)
  /\ up' = IF page.link = "up" THEN up \o msgs ELSE up
  /\ UNCHANGED <<net, server>>

Chance == touches < bound.touches /\ touches' = touches + 1

(* The user has the page before him. *)
Touch == Chance /\ ~page.hidden

-----------------------------------------------------------------------------
(* What the user does. *)

Opens(talk) ==
  page.st = "closed" /\ Becomes(Opened(page, bound.wake, talk), <<>>) /\ UNCHANGED touches

Closes == Touch /\ page.st # "closed" /\ Becomes(Closed(page), <<>>)

Toggles == Touch /\ page.st # "closed" /\ Becomes(Toggled(page, bound.wake), <<>>)

Taps ==
  /\ Touch
  /\ Active(page)
  /\ LET t == Tapped(page) IN Becomes(t[1], t[2])

(* Something was said: after a silence, or because the user taps. *)
Says(named, more) ==
  /\ Touch
  /\ page.mic = "on" /\ Listening(page)
  /\ LET h == Heard(page, named, more) IN Becomes(h[1], h[2])

Submits == Touch /\ page.st # "closed" /\ LET s == Submitted(page) IN Becomes(s[1], s[2])

ChangesMode ==
  Touch /\ page.st # "closed" /\ LET c == CancelledAndPaused(page) IN Becomes(c[1], c[2])

ChangesOutput(out) == Touch /\ page.st # "closed" /\ Becomes(SpeakerReset(page, out), <<>>)

Hides == Touch /\ page.st # "closed" /\ Becomes(WentHidden(page), <<>>)

Shows == page.st # "closed" /\ page.hidden /\ Becomes(CameBack(page), <<>>) /\ UNCHANGED touches

-----------------------------------------------------------------------------
(* The microphone and the timers. *)

MicStarts ==
  /\ page.mic = "opening"
  /\ LET on == [page EXCEPT !.mic = "on"]
     IN Becomes(IF page.st = "starting" THEN Clear([on EXCEPT !.st = "capturing"], {"start"})
                                        ELSE on, <<>>)
  /\ UNCHANGED touches

(* The recognizer ends by itself; in the background it stays ended. *)
MicEnds ==
  /\ page.mic = "on"
  /\ LET off == StopMic(page)
     IN Becomes(IF ~Listening(page) THEN off
                ELSE IF page.hidden THEN [off EXCEPT !.st = "starting"]
                ELSE StartListening(off), <<>>)
  /\ UNCHANGED touches

MicDenied ==
  /\ Chance
  /\ page.mic # "off"
  /\ LET off == StopMic(page)
     IN Becomes(IF page.hidden \/ ~Active(page) THEN off
                ELSE Clear([off EXCEPT !.st = "error"], {"start", "wakeIdle"}), <<>>)

TimerFires(tag) ==
  /\ tag \in page.timers
  /\ LET p == Clear(page, {tag}) IN
     CASE tag = "start" ->
            Becomes(IF page.st # "starting" \/ page.hidden THEN p
                    ELSE [p EXCEPT !.mic = "opening", !.timers = @ \cup {"start"}], <<>>)
       [] tag = "cooldown" ->
            Becomes(IF page.st # "cooldown" \/ page.hidden THEN p
                    ELSE IF TurnIsOpen(page) \/ page.ext # 0
                      THEN [p EXCEPT !.st = "thinking", !.awaits = ~TurnIsOpen(page)]
                    ELSE StartListening(p), <<>>)
       [] tag = "wakeIdle" ->
            Becomes(IF ~Listening(page) \/ page.hidden \/ page.wake # "awake" THEN p
                    ELSE StartListening(StopMic([p EXCEPT !.wake = "standby"])), <<>>)
  /\ UNCHANGED touches

-----------------------------------------------------------------------------
(* The speech. *)

Cloud == page.speech.level = "cloud"

Step(p) == Becomes(p, <<>>) /\ UNCHANGED touches

(* A unit's audio arrives and is played.  The player calls onAudible once until it
   is stopped: not for a later response of the same turn. *)
CloudPlays ==
  /\ Cloud /\ page.speech.begun /\ page.speech.wait > 0 /\ ~page.speech.plays
  /\ LET q == Sounds([page EXCEPT !.speech.wait = @ - 1, !.speech.plays = TRUE,
                                  !.speech.fired = TRUE])
     IN Step(IF page.speech.fired THEN q ELSE Audible(q))

(* The last source has ended: if the audio is complete, the player waits for
   the tail of the output. *)
SourceEnds ==
  /\ page.speech.plays
  /\ Step([page EXCEPT !.speech.plays = FALSE, !.speech.drain = page.speech.marked])

(* markEnded: a player with nothing to play waits for the tail at once. *)
MarkEnded(p) == [p EXCEPT !.speech.marked = TRUE, !.speech.drain = @ \/ ~p.speech.plays]

CloudCompletes ==
  /\ Cloud /\ page.speech.begun /\ page.speech.ended /\ page.speech.wait = 0
  /\ ~page.speech.sent
  /\ Step(MarkEnded([page EXCEPT !.speech.sent = TRUE]))

(* onDrained of the player, unless something plays again. *)
PlayerDrains ==
  /\ page.speech.drain
  /\ LET d == [page EXCEPT !.speech.drain = FALSE]
         early == page.speech.wait > 0 \/ page.speech.utter > 0
                     \/ (page.speech.begun /\ ~page.speech.ended)
     IN Step(IF page.speech.plays THEN d
             ELSE Drained([d EXCEPT !.astray = @ \cup IF early THEN {"gap"} ELSE {}]))

(* Mutant: what was heard is not asked for. *)
UnheardOrNot(p) == p.speech.pushed > 0

Unheard(p) == p.speech.pushed > 0 /\ ~p.speech.heard

(* What sounded of the response though the chain was not told. *)
Unnoticed(p) == IF p.speech.heard THEN 0 ELSE p.speech.pushed - p.speech.wait

(* The player is stopped, and the response begins anew. *)
Restarted(p) ==
  [p EXCEPT !.speech.begun = FALSE, !.speech.pushed = 0, !.speech.wait = 0,
            !.speech.plays = FALSE, !.speech.fired = FALSE,
            !.speech.marked = FALSE, !.speech.drain = FALSE,
            !.astray = @ \cup (IF Unnoticed(p) > 0 THEN {"again"} ELSE {}),
            !.turn = IF @ = NoTurn THEN @
                     ELSE [@ EXCEPT !.again = @ + Unnoticed(p)]]

(* Mutant: the engine that takes over is not told that no more text comes. *)
TakesOverUnended(p) == Push(Restarted(p), p.speech.pushed)

(* The next level is given all that was pushed, and its end. *)
TakesOver(p) ==
  LET again == Push(Restarted(p), p.speech.pushed)
  IN IF p.speech.ended THEN End(again) ELSE again

(* The level fails: the next one takes over what nothing was heard of, as far as
   the chain knows; after a sound the response is closed as if it had been read. *)
CloudFails ==
  /\ Chance
  /\ Cloud /\ page.speech.begun /\ ~page.speech.sent
  /\ LET l == [page EXCEPT !.speech.level = "local"]
     IN Becomes(IF Unheard(page) THEN TakesOver(l)
                ELSE MarkEnded([l EXCEPT !.speech.wait = 0, !.astray = @ \cup {"level"}]),
                <<>>)

(* The local engine after an utterance: the next one, or the end. *)
LocalDrains(p) ==
  LET n == LocalNext([p EXCEPT !.speech.busy = FALSE])
  IN IF n.speech.busy \/ ~n.speech.last THEN n
     ELSE Drained([n EXCEPT !.speech.last = FALSE,
                            !.astray = @ \cup IF n.speech.utter > 0 THEN {"late"} ELSE {}])

UtteranceEnds ==
  /\ page.speech.utter > 0
  /\ Step(LocalDrains([page EXCEPT !.speech.utter = @ - 1]))

(* The end of an utterance that was cancelled: the engine does not tell it
   from the end of the one that sounds. *)
LateUtteranceEnds ==
  /\ page.speech.late
  /\ Step(LocalDrains([page EXCEPT !.speech.late = FALSE]))

(* A response that is ended when nothing is left to speak is over at once. *)
LocalCompletes ==
  /\ ~Cloud /\ page.speech.last /\ ~page.speech.busy /\ page.speech.queue = 0
  /\ Step(LocalDrains(page))

(* The announcement of an error ends, or what was cancelled of it does. *)
AnnouncementEnds ==
  /\ page.speech.once # "no"
  /\ LET stale == page.speech.once = "late" /\ page.st = "speaking"
     IN Step(Drained([page EXCEPT !.speech.once = "no",
                                  !.astray = @ \cup IF stale THEN {"late"} ELSE {}]))

SpeechStep == CloudPlays \/ SourceEnds \/ CloudCompletes \/ PlayerDrains
                \/ UtteranceEnds \/ LateUtteranceEnds \/ LocalCompletes
                \/ AnnouncementEnds

-----------------------------------------------------------------------------
(* The connection and the endpoint. *)

Event(e) ==
  CASE e.type = "accepted"  -> Accepted(page, e.id, e.ssml)
    [] e.type = "delta"     -> TextDelta(page, e.whole)
    [] e.type = "message"   -> MessageEnd(page)
    [] e.type = "done"      -> TurnDone(page)
    [] e.type = "error"     -> TurnError(page)
    [] e.type = "cancelled" -> TurnCancelled(page)

(* app.js keeps which turn is active, then the voice page hears of it. *)
Receives ==
  /\ net # <<>>
  /\ LET e == Head(net)
         p == IF page.st = "closed" THEN page ELSE Event(e)
     IN page' = [p EXCEPT !.ext = CASE e.type = "accepted" -> e.id
                                    [] e.type \in {"done", "error", "cancelled"} -> 0
                                    [] OTHER -> @,
                          !.awaits = @ /\ e.type # "accepted"]
  /\ net' = Tail(net)
  /\ UNCHANGED <<up, server, touches>>

Pumped(e) == IF page.link = "up" THEN net' = Append(net, e) ELSE UNCHANGED net

(* The endpoint writes an answer itself: it may overtake events that are
   still in the queue of the pump. *)
Answered(queued, e) == \E i \in 1..(Len(queued) + 1) : net' = InsertAt(queued, i, e)

Started(id, ssml) ==
  /\ server' = [turn |-> id, said |-> 0, message |-> FALSE, begun |-> id]
  /\ Pumped([type |-> "accepted", id |-> id, ssml |-> ssml])

(* chat.send: a session with a turn is busy; a message may be refused for
   other reasons too (here: all that comes after the last turn). *)
TakesMessage ==
  /\ up # <<>> /\ Head(up).type = "send"
  /\ IF server.turn = 0 /\ server.begun < bound.turns
       THEN Started(server.begun + 1, bound.ssml)
       ELSE Answered(net, [type |-> "error"]) /\ UNCHANGED server
  /\ up' = Tail(up)
  /\ UNCHANGED <<page, touches>>

(* turn.cancel: the turn's own event, and the endpoint's answer. *)
TakesCancel ==
  /\ up # <<>> /\ Head(up).type = "cancel"
  /\ IF server.turn = Head(up).id
       THEN /\ server' = [server EXCEPT !.turn = 0]
            /\ Answered(Append(net, [type |-> "cancelled"]), [type |-> "cancelled"])
       ELSE Answered(net, [type |-> "cancelled"]) /\ UNCHANGED server
  /\ up' = Tail(up)
  /\ UNCHANGED <<page, touches>>

(* Another client of the session starts a turn. *)
OtherTurn ==
  /\ Len(net) < MaxNet /\ server.turn = 0 /\ server.begun < bound.turns
  /\ Started(server.begun + 1, FALSE)
  /\ UNCHANGED <<page, up, touches>>

TurnSays(whole) ==
  /\ Len(net) < MaxNet /\ server.turn # 0 /\ server.said < bound.units
  /\ server' = [server EXCEPT !.said = @ + 1, !.message = TRUE]
  /\ Pumped([type |-> "delta", whole |-> whole])
  /\ UNCHANGED <<page, up, touches>>

TurnMessageEnds ==
  /\ Len(net) < MaxNet /\ server.turn # 0 /\ server.message
  /\ server' = [server EXCEPT !.message = FALSE]
  /\ Pumped([type |-> "message"])
  /\ UNCHANGED <<page, up, touches>>

TurnEnds(how) ==
  /\ Len(net) < MaxNet /\ server.turn # 0 /\ ~server.message
  /\ server' = [server EXCEPT !.turn = 0]
  /\ Pumped([type |-> how])
  /\ UNCHANGED <<page, up, touches>>

ConnectionLost ==
  /\ Chance
  /\ page.link = "up"
  /\ page' = [page EXCEPT !.link = "down"]
  /\ net' = <<>> /\ up' = <<>>
  /\ UNCHANGED server

ServerStep == TakesMessage \/ TakesCancel \/ (\E whole \in BOOLEAN : TurnSays(whole))
                \/ TurnMessageEnds \/ (\E how \in {"done", "error"} : TurnEnds(how))

UserStep ==
  \/ \E talk \in BOOLEAN : Opens(talk)
  \/ \E named, more \in BOOLEAN : Says(named, more)
  \/ \E out \in Output : ChangesOutput(out)
  \/ Closes \/ Toggles \/ Taps \/ Submits \/ ChangesMode \/ Hides \/ Shows

VoiceNext ==
  /\ UNCHANGED bound
  /\ \/ UserStep
     \/ MicStarts \/ MicEnds \/ MicDenied
     \/ \E tag \in {"start", "cooldown", "wakeIdle"} : TimerFires(tag)
     \/ SpeechStep \/ CloudFails
     \/ Receives \/ ServerStep \/ OtherTurn \/ ConnectionLost

(* The browser runs what is due, and the endpoint goes on; the user need not. *)
GoesOn ==
  \/ MicStarts
  \/ \E tag \in {"start", "cooldown"} : TimerFires(tag)
  \/ SpeechStep \/ Receives \/ ServerStep

Fairness == WF_moving(GoesOn)

VoiceSpec == VoiceInit /\ [][VoiceNext]_voiceVars /\ Fairness

-----------------------------------------------------------------------------
(* The microphone never hears the page's own voice: while it is on, no part of
   a reply sounds - unless something has gone astray before. *)
NoEcho == Ear(page) /\ Reads(page) => page.astray # {}

(* When the page listens again after a turn that it was to read, it has read
   every unit of the reply, not counting what a level reads again. *)
ReplyIsHeard ==
  Listening(page) /\ page.turn # NoTurn /\ ~page.turn.open /\ ~page.turn.muted
    /\ ~page.turn.skipped /\ page.astray = {}
    => page.turn.heard - page.turn.again >= page.turn.text

(* What is read is read once.  It begins anew only when the page comes back from
   the background; and when a level fails, of a response that the chain did not
   know to sound: one that is not the first its player plays. *)
ReadOnce ==
  page.turn # NoTurn /\ ~page.turn.ssml => page.turn.heard - page.turn.again <= page.turn.text

(* What the code does not keep: after a sound a level that fails is not followed by
   another that reads the same again (voice-speaker-fallback.js:13). *)
NotReadAgain == page.turn # NoTurn => page.turn.again = 0

(* A reply in SSML is handed to the speech in one piece when the turn is done
   (tests/voice-core.test.js:556). *)
SsmlInOnePiece ==
  page.turn # NoTurn /\ page.turn.ssml => page.turn.heard <= page.turn.text

(* The speech is only reported as drained when everything that was pushed has
   sounded (voice-pcm-player.js:9). *)
DrainedMeansPlayed == "gap" \notin page.astray

(* A conversation in the foreground comes back to the microphone. *)
ListensAgain ==
  Active(page) ~> \/ page.st \in {"capturing", "paused", "closed", "error"}
                  \/ page.hidden \/ page.awaits \/ page.link = "down"
=============================================================================
