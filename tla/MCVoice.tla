---- MODULE MCVoice ----
(* What the browser does with sound: the talk of one session and the playback of a podcast, *)
(* which are never open at once; a behaviour is about one of the two.                        *)
EXTENDS VoiceTalk

CONSTANTS Agent, MaxSeq, Speaker, MaxChange, Slots
VARIABLES talk, feed, player, answer, orphan, ui, removed, past, changes, about

P == INSTANCE PodcastPlayer

podcast == <<talk, feed, player, answer, orphan, ui, removed, past, changes>>

ASSUME {MaxNet, MaxSeq, MaxChange, Slots} \subseteq Nat

\* The host opens, then each agent speaks.
MCSpeaker == <<"host", "a", "b">>

\* A reply of two units; two turns; two touches; an answer in SSML; a wake word.
MCBounds ==
  {[turns |-> t[1], units |-> t[2], touches |-> t[3], ssml |-> t[4], wake |-> t[5]] :
     t \in {<<1, 2, 1, FALSE, FALSE>>, <<2, 1, 1, FALSE, FALSE>>, <<1, 1, 2, FALSE, FALSE>>,
            <<1, 2, 1, TRUE, FALSE>>, <<1, 1, 1, FALSE, TRUE>>}}

MCInit ==
  /\ VoiceInit /\ P!PlayerInit
  /\ about \in {"talk", "podcast"}
  /\ about = "podcast" => page.output = "cloud" /\ bound = CHOOSE b \in Bounds : TRUE

MCTalk == about = "talk" /\ VoiceNext /\ UNCHANGED <<podcast, about>>
\* To bound it, either the last utterance begins or the user acts to the last, but for an
\* answer of the host.
MCPodcast ==
  /\ about = "podcast"
  /\ P!PlayerNext
  /\ changes' # changes \/ talk[MaxSeq].st # talk'[MaxSeq].st =>
        \/ changes' < MaxChange \/ talk'[MaxSeq].st = "none"
        \/ talk[MaxSeq].st # "none" /\ changes' = changes
        \/ answer.st # "none"
  /\ UNCHANGED <<voiceVars, about>>

MCSpec ==
  /\ MCInit
  /\ [][MCTalk \/ MCPodcast]_<<voiceVars, podcast, about>>
  /\ Fairness
  /\ WF_podcast(about = "podcast" /\ P!GoesOn)

\* The page does not listen to itself, listens again only when the reply was heard, and reads
\* nothing twice.
TalkIsSound == NoEcho /\ ReplyIsHeard /\ ReadOnce

\* The pump of the player sleeps only while there is nothing for it, and passes nothing over.
PlayerIsSound == P!PumpIsAwake /\ P!NothingIsPassedOver

\* The page listens again after every reply, and what was said in the podcast is heard in
\* the end.
SoundGoesOn == ListensAgain /\ P!SaidIsHeard
====
