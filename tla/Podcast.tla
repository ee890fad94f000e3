-------------------------------- MODULE Podcast --------------------------------
(* A podcast of the WebUI: a host and a group of agents discuss in rounds, each   *)
(* round's speakers in parallel; the user may interject, change, remove and add   *)
(* agents meanwhile; and the client plays the utterances in the order of their    *)
(* sequence numbers, those of the last generation only.                           *)
EXTENDS Integers, FiniteSets

CONSTANTS
    Agent,          \* agents that are in the discussion or may join it
    Founders,       \* the agents it starts with
    Rounds,         \* rounds of a discussion without an interjection
    MaxChange       \* bound on the interjections, changes of a role or model, and removals

VARIABLES
    host,           \* where _run_podcast stands, and the sequence of the host's utterance
    round,          \* active_generation, completed_rounds, the next sequence, first_speaker
    speaker,        \* the speaker turn of each agent in this round
    group,          \* the agents of the run, the removed ones, the version of each role
    input,          \* generation, inputs in the queue, drained ones, changes of agents
    research,       \* research_cache: per agent, its version and how many inputs it knows
    player,         \* the client: its generation, nextPlaySeq, the sequences that ended
    ending          \* task.cancel() was called
podcastVars == <<host, round, speaker, group, input, research, player, ending>>

None == 0
Off == [pc |-> "none", seq |-> None, text |-> FALSE, version |-> 0]
NoResearch == [version |-> -1, knows |-> -1]

PodcastInit ==
    /\ host = [pc |-> "created", seq |-> None]
    /\ round = [generation |-> 0, done |-> 0, next |-> 1, first |-> None]
    /\ speaker = [a \in Agent |-> Off]
    /\ group = [agents |-> Founders, removed |-> {}, version |-> [a \in Agent |-> 0]]
    /\ input = [generation |-> 0, queued |-> 0, drained |-> 0, changes |-> 0]
    /\ research = [a \in Agent |-> NoResearch]
    /\ player = [generation |-> 0, next |-> None, ended |-> {}, over |-> FALSE]
    /\ ending = FALSE

Active == group.agents \ group.removed
Stale == input.generation # round.generation
Runs == host.pc \notin {"done", "error", "stopped"}
Phase == {"opening", "interjection", "summary"}

\* Between two awaits of _run_podcast nobody else runs.
Awaits == host.pc \notin {"top", "starting", "summing"}

Speakers == {a \in Agent : speaker[a].pc # "none"}
Leaves(a, text) == speaker' = [speaker EXCEPT ![a].pc = "left", ![a].text = text]

--------------------------------------------------------------------------------
(* What the client does with an event: one of another generation it leaves.       *)

\* It plays what is ready, in the order of the numbers.
Played(p) ==
    LET at == CHOOSE n \in p.next .. round.next :
                  n \notin p.ended /\ p.next .. n - 1 \subseteq p.ended
    IN  IF p.next = None THEN p ELSE [p EXCEPT !.next = at, !.ended = {n \in @ : n > at}]

Ends(p, seq) == IF Stale THEN p ELSE Played([p EXCEPT !.ended = @ \cup {seq}])

\* The first utterance of a generation is where the player starts; one of a removed
\* agent is skipped.
Starts(p, seq, removed) ==
    IF removed THEN Ends(p, seq)
    ELSE IF Stale \/ p.next # None THEN p
    ELSE [p EXCEPT !.next = seq]

\* podcast.utterance.skipped, and the two events of an utterance that is shown when it is
\* complete.
Skipped(a) == player' = Ends(player, speaker[a].seq)
CompletedUtterance(a) ==
    player' = Ends(Starts(player, speaker[a].seq, a \in group.removed), speaker[a].seq)

\* resetForUserInput, resetForAgentConfigChange.
Renewed(generation) == [player EXCEPT !.generation = generation, !.next = None, !.ended = {}]

Fails ==
    /\ host' = [host EXCEPT !.pc = "error"]
    /\ player' = [player EXCEPT !.over = TRUE]
    /\ speaker' = [a \in Agent |-> Off]

--------------------------------------------------------------------------------
(* The host.                                                                      *)

\* _generate_podcast_utterance of the host, as far as its first await.
Says(phase, changed) ==
    /\ host' = [pc |-> phase, seq |-> changed.next]
    /\ round' = [changed EXCEPT !.next = @ + 1]

\* The attachments are read, or cannot be.
Begin ==
    /\ host.pc = "created" /\ ~ending
    /\ \/ /\ \E a \in Founders : Says("opening", [round EXCEPT !.first = a])
          /\ player' = Starts(player, round.next, FALSE)
          /\ UNCHANGED speaker
       \/ Fails /\ UNCHANGED round
    /\ UNCHANGED <<group, input, research, ending>>

HostFails ==
    /\ host.pc \in Phase /\ ~ending
    /\ Fails
    /\ UNCHANGED <<round, group, input, research, ending>>

\* completed_rounds.
Completed(phase) == IF phase = "summary" THEN round.done + 1 ELSE round.done

\* The utterance is done, its message in the transcript once the lock of the session was
\* free; or skipped, without a text in time or when the generation has changed.
HostEnds ==
    /\ host.pc \in Phase /\ ~ending
    /\ player' = Ends(player, host.seq)
    /\ host' = [host EXCEPT !.pc = IF @ = "interjection" THEN "starting" ELSE "top"]
    /\ round' = [round EXCEPT !.done = Completed(host.pc)]
    /\ UNCHANGED <<speaker, group, input, research, ending>>

\* podcast.done names the generation of the discussion.
Concludes ==
    /\ host' = [host EXCEPT !.pc = "done"]
    /\ speaker' = [a \in Agent |-> Off]
    /\ UNCHANGED <<group, ending>>

ConcludesAfterRounds ==
    /\ host.pc = "top" /\ round.done >= Rounds
    /\ Concludes
    /\ player' = IF Stale THEN player ELSE [player EXCEPT !.over = TRUE]
    /\ UNCHANGED <<round, input, research>>

\* reset_generation; an input in the queue resets the rounds, too.
Reset ==
    IF Stale \/ input.queued > 0
    THEN [round EXCEPT !.generation = input.generation, !.done = 0]
    ELSE round

Drained == [input EXCEPT !.queued = 0, !.drained = @ + input.queued]

Cleared == IF input.queued > 0 THEN [a \in Agent |-> NoResearch] ELSE research

ConcludesAlone ==
    /\ host.pc = "top" /\ round.done < Rounds /\ Active = {}
    /\ Concludes
    /\ round' = Reset
    /\ input' = Drained
    /\ research' = Cleared
    /\ player' = [player EXCEPT !.over = TRUE]

\* choose_speakers, and the one the opening has named.
Chosen(index) ==
    {chosen \in SUBSET Active :
        /\ Cardinality(chosen) >= IF Cardinality(Active) > 1 THEN 2 ELSE 1
        /\ index % 3 = 0 => chosen = Active
        /\ index = 1 /\ round.first \in Active => round.first \in chosen}

\* The next round, with a word of the host on what the user has said.
RoundOpens ==
    /\ host.pc = "top" /\ round.done < Rounds
    /\ \E chosen \in Chosen(Reset.done + 1) :
        speaker' = [a \in Agent |-> IF a \in chosen
                                    THEN [Off EXCEPT !.pc = "chosen", !.version = group.version[a]]
                                    ELSE Off]
    /\ input' = Drained
    /\ research' = Cleared
    /\ IF input.queued > 0
       THEN Says("interjection", Reset) /\ player' = [player EXCEPT !.next = IF @ = None THEN round.next ELSE @]
       ELSE host' = [host EXCEPT !.pc = "starting"] /\ round' = Reset /\ UNCHANGED player
    /\ UNCHANGED <<group, ending>>

\* Their tasks are made, with the next sequence numbers.
RoundStarts ==
    /\ host.pc = "starting"
    /\ LET last == round.next + Cardinality(Speakers) - 1
       IN  /\ \E seq \in [Speakers -> round.next .. last] :
                /\ \A a, b \in Speakers : seq[a] = seq[b] => a = b
                /\ speaker' = [a \in Agent |->
                                 IF a \in Speakers THEN [speaker[a] EXCEPT !.pc = "ready", !.seq = seq[a]]
                                 ELSE speaker[a]]
           /\ round' = [round EXCEPT !.next = last + 1]
    /\ host' = [host EXCEPT !.pc = "round"]
    /\ UNCHANGED <<group, input, research, player, ending>>

Said == {a \in Speakers \cap Active : speaker[a].text}

\* gather: what was said in another generation is dropped.
RoundEnds ==
    /\ host.pc = "round" /\ ~ending
    /\ \A a \in Speakers : speaker[a].pc = "left"
    /\ host' = [host EXCEPT !.pc = IF Stale THEN "top" ELSE IF Said = {} THEN "summing" ELSE "append"]
    /\ round' = IF Stale THEN Reset ELSE round
    /\ UNCHANGED <<speaker, group, input, research, player, ending>>

\* What was said is in the transcript.
RoundAppended ==
    /\ host.pc = "append" /\ ~ending
    /\ host' = [host EXCEPT !.pc = "summing"]
    /\ UNCHANGED <<round, speaker, group, input, research, player, ending>>

Sums ==
    /\ host.pc = "summing"
    /\ IF Stale \/ Speakers \cap Active = {}
       THEN /\ host' = [host EXCEPT !.pc = "top"]
            /\ round' = IF Stale THEN Reset ELSE round
            /\ UNCHANGED player
       ELSE Says("summary", round) /\ player' = Starts(player, round.next, FALSE)
    /\ UNCHANGED <<speaker, group, input, research, ending>>

--------------------------------------------------------------------------------
(* The turn of a speaker.                                                         *)

\* Mutant: the sequence of an agent that was removed before its turn is not skipped.
ReadyInSilence(a) ==
    /\ speaker[a].pc = "ready"
    /\ IF a \in group.removed THEN Leaves(a, FALSE)
       ELSE speaker' = [speaker EXCEPT ![a].pc =
                            IF research[a].version = speaker[a].version THEN "asked" ELSE "research"]
    /\ UNCHANGED <<research, player>>

Ready(a) ==
    /\ speaker[a].pc = "ready"
    /\ IF a \in group.removed
       THEN Leaves(a, FALSE) /\ Skipped(a)
       ELSE /\ speaker' = [speaker EXCEPT ![a].pc =
                              IF research[a].version = speaker[a].version THEN "asked" ELSE "research"]
            /\ UNCHANGED player
    /\ UNCHANGED research

\* The subagent has found something, or timed out.
Researched(a) ==
    /\ speaker[a].pc = "research"
    /\ research' = [research EXCEPT ![a] = [version |-> speaker[a].version, knows |-> input.drained]]
    /\ IF a \in group.removed
       THEN Leaves(a, FALSE) /\ Skipped(a)
       ELSE speaker' = [speaker EXCEPT ![a].pc = "asked"] /\ UNCHANGED player

\* Its utterance begins; one on a paper is shown when it is complete.
Speaks(a) ==
    /\ speaker[a].pc = "asked"
    /\ IF Stale THEN Leaves(a, FALSE) /\ UNCHANGED player
       ELSE \/ /\ speaker' = [speaker EXCEPT ![a].pc = "speaking"]
               /\ player' = Starts(player, speaker[a].seq, a \in group.removed)
            \/ speaker' = [speaker EXCEPT ![a].pc = "drafting"] /\ UNCHANGED player
    /\ UNCHANGED research

\* Every half a second the turn looks whether it is still wanted.
GivesUp(a) ==
    /\ speaker[a].pc \in {"research", "speaking", "drafting"}
    /\ Stale \/ a \in group.removed
    /\ Leaves(a, FALSE)
    /\ Skipped(a)
    /\ UNCHANGED research

\* Done, with a text or without, or skipped; a draft that does not stand up to the paper is
\* replaced in the end.
Spoke(a) ==
    /\ speaker[a].pc \in {"speaking", "drafting"}
    /\ \E text \in BOOLEAN :
        /\ text => speaker[a].pc = "drafting" \/ ~Stale
        /\ ~text => speaker[a].pc = "speaking"
        /\ speaker' = [speaker EXCEPT ![a].pc = "spoken", ![a].text = text]
    /\ IF speaker[a].pc = "drafting" THEN CompletedUtterance(a)
                                     ELSE player' = Ends(player, speaker[a].seq)
    /\ UNCHANGED research

\* It may have been removed since.
Returns(a) ==
    /\ speaker[a].pc = "spoken"
    /\ Leaves(a, speaker[a].text /\ a \notin group.removed)
    /\ IF a \in group.removed THEN Skipped(a) ELSE UNCHANGED player
    /\ UNCHANGED research

SpeakerStep(a) ==
    /\ host.pc = "round" /\ ~ending
    /\ Ready(a) \/ Researched(a) \/ Speaks(a) \/ GivesUp(a) \/ Spoke(a) \/ Returns(a)
    /\ UNCHANGED <<host, round, group, input, ending>>

\* An error of one turn ends the others and the run.
SpeakerFails(a) ==
    /\ host.pc = "round" /\ ~ending
    /\ speaker[a].pc \in {"research", "speaking", "drafting"}
    /\ Fails
    /\ UNCHANGED <<round, group, input, research, ending>>

--------------------------------------------------------------------------------
(* The requests of the client.                                                    *)

\* podcast_input: the generation changes, then the text is queued. While the files of the
\* input are read the run may come to its end.
InputAccepted ==
    /\ Awaits /\ input.changes < MaxChange
    /\ input' = [input EXCEPT !.generation = @ + 1, !.queued = @ + 1, !.changes = @ + 1]
    /\ player' = Renewed(input'.generation)
    /\ UNCHANGED <<host, round, speaker, group, research, ending>>

\* podcast_update_agent with another role or model; only a voice changes nothing here.
UpdateAgent(a) ==
    /\ Runs /\ Awaits /\ a \in group.agents /\ input.changes < MaxChange
    /\ group' = [group EXCEPT !.version[a] = @ + 1]
    /\ input' = [input EXCEPT !.generation = @ + 1, !.changes = @ + 1]
    /\ player' = Renewed(input'.generation)
    /\ UNCHANGED <<host, round, speaker, research, ending>>

RemoveAgent(a) ==
    /\ Runs /\ Awaits /\ a \in Active /\ input.changes < MaxChange
    /\ group' = [group EXCEPT !.removed = @ \cup {a}]
    /\ input' = [input EXCEPT !.changes = @ + 1]
    /\ UNCHANGED <<host, round, speaker, research, player, ending>>

\* One that was removed keeps its place, and cannot come back.
AddAgent(a) ==
    /\ Runs /\ Awaits /\ a \notin group.agents
    /\ group' = [group EXCEPT !.agents = @ \cup {a}, !.removed = @ \ {a}]
    /\ UNCHANGED <<host, round, speaker, input, research, player, ending>>

\* podcast_stop: the token, task.cancel() and podcast.stopped.
Stop ==
    /\ Runs /\ Awaits /\ ~ending
    /\ ending' = TRUE
    /\ player' = [player EXCEPT !.over = TRUE]
    /\ UNCHANGED <<host, round, speaker, group, input, research>>

\* The task, those of the speakers and the research are cancelled.
Cancelled ==
    /\ Runs /\ ending
    /\ host' = [host EXCEPT !.pc = "stopped"]
    /\ speaker' = [a \in Agent |-> Off]
    /\ UNCHANGED <<round, group, input, research, player, ending>>

RunStep ==
    \/ Begin \/ HostFails \/ HostEnds
    \/ ConcludesAfterRounds \/ ConcludesAlone \/ RoundOpens \/ RoundStarts
    \/ RoundEnds \/ RoundAppended \/ Sums
    \/ \E a \in Agent : SpeakerStep(a) \/ SpeakerFails(a)
    \/ Cancelled

PodcastNext ==
    \/ RunStep
    \/ InputAccepted \/ Stop
    \/ \E a \in Agent : UpdateAgent(a) \/ RemoveAgent(a) \/ AddAgent(a)

\* Utterances, research and the reading of files have timeouts, and a turn that has the
\* lock of the session gives it back.
PodcastSpec == PodcastInit /\ [][PodcastNext]_podcastVars /\ WF_podcastVars(RunStep)

--------------------------------------------------------------------------------

\* The client plays in the order of the sequence numbers and waits for the next one: when
\* the speakers of a round are through, or the podcast is, each number from where it
\* started is done or skipped, whoever was removed or interjected in the meantime.
PlayerIsNotStuck ==
    host.pc \in {"summary", "done"} /\ ~Stale /\ player.next # None =>
        player.next = IF host.pc = "summary" THEN host.seq ELSE round.next

\* Research that is used again knows all that the user has said to the discussion.
ResearchIsFresh == \A a \in Agent : research[a] # NoResearch => research[a].knows = input.drained

\* A run comes to its end, also when its agents are removed or the user interjects.
PodcastEnds == <>~Runs

\* README: while the group talks the user may interject, and the backend confirms it. What
\* was confirmed then is put to the discussion before that ends by itself.
InputIsHeard == host.pc = "done" /\ ~player.over => input.queued = 0
================================================================================
