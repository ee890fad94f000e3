---- MODULE MCSubagents ----
(* The subagents of turns, and the podcast that asks some of its own; what the podcast *)
(* does with an answer is the same whatever the runner does, so a behaviour is about    *)
(* one of the two.                                                                      *)
EXTENDS Subagents

CONSTANTS Agent, Founders, Rounds, MaxChange
VARIABLES host, round, speaker, group, input, research, player, ending, about

P == INSTANCE Podcast

ASSUME Founders \subseteq Agent /\ {Rounds, MaxChange} \subseteq Nat

podcast == <<host, round, speaker, group, input, research, player, ending>>

MCInit == Init /\ P!PodcastInit /\ about \in {"subagents", "podcast"}

MCSubagentsNext == about = "subagents" /\ Next /\ UNCHANGED <<podcast, about>>
MCPodcastNext == about = "podcast" /\ P!PodcastNext /\ UNCHANGED <<vars, about>>

MCSpec ==
    /\ MCInit
    /\ [][MCSubagentsNext \/ MCPodcastNext]_<<vars, podcast, about>>
    /\ \A r \in Run : WF_vars(RunEnds(r))
    /\ \A s \in Session : WF_vars(WaitEnds(s))
    /\ WF_podcast(about = "podcast" /\ P!RunStep)

\* The client can play all of the podcast, and research knows what the user has said.
PodcastIsSound == P!PlayerIsNotStuck /\ P!ResearchIsFresh

\* A turn that waits for its runs goes on, and a podcast ends.
WaitingEnds == WaitIsOver /\ (about = "podcast" => P!PodcastEnds)
====
