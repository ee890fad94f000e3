---- MODULE MCBackground ----
(* What the daemon does on its own, beside the turns: the cron scheduler, the two halves of *)
(* the memory, and the ageing of skills.  They share no state, so a behaviour is about one   *)
(* of the four.                                                                             *)
EXTENDS CronScheduler

CONSTANTS Daily, Note, Longer, MinRecall, MaxLines, MaxEdits, MaxCount, MaxSlots, MaxRuntime,
          MaxCrashes, Start, Cooldown, MaxTurns, MaxCompactions, MaxResets, MaxEnds,
          Skill, Process, Pinned, StaleAfter, ArchiveAfter, MaxDay, MaxEvent, MaxRun
VARIABLES file, mtime, index, manifest, recall, due, sweeper, locked, waiting, left,
          history, wrote, state, current, run, covered, mistaken, budget,
          day, usage, flags, lock, proc, recorded, orders,
          about

R == INSTANCE MemoryRecall
X == INSTANCE MemoryExtractor
S == INSTANCE SkillCurator

\* Of two files' first two lines, one is a prefix of the other.
MCLonger == {<<<<"day", 1>>, <<"day", 2>>>>}

ASSUME BackgroundAssumption ==
    R!RecallAssumption /\ S!CuratorAssumption /\ X!ExtractorAssumption

recalling == <<file, mtime, index, manifest, recall, due, sweeper, locked, waiting, left>>
extraction == <<history, wrote, state, current, run, covered, mistaken, budget>>
curation == <<day, usage, flags, lock, proc, recorded, orders>>
others == <<recalling, extraction, curation>>

MCInit ==
    /\ Init /\ R!Init /\ X!Init /\ S!CuratorInit
    /\ about \in {"cron", "recall", "extraction", "skills"}

MCCron == about = "cron" /\ Next /\ UNCHANGED <<others, about>>
MCRecall == about = "recall" /\ R!Next /\ UNCHANGED <<vars, extraction, curation, about>>
MCExtraction == about = "extraction" /\ X!Next /\ UNCHANGED <<vars, recalling, curation, about>>
MCSkills == about = "skills" /\ S!CuratorNext /\ UNCHANGED <<vars, recalling, extraction, about>>

\* The fairness of the modules; the bounds end every behaviour, so it is enough that
\* something goes on.
CronGoesOn ==
    \/ Recovery \/ RecoveryEnds \/ Tick \/ Minute
    \/ \E r \in Run : RunStarts(r) \/ RunDefers(r) \/ RunEnds(r)

MCSpec ==
    /\ MCInit
    /\ [][MCCron \/ MCRecall \/ MCExtraction \/ MCSkills]_<<vars, others, about>>
    /\ WF_vars(about = "cron" /\ CronGoesOn)
    /\ WF_recalling(about = "recall" /\ \E s \in R!Sweeper : R!SweepStep(s))
    /\ WF_extraction(about = "extraction" /\ \E r \in DOMAIN run : X!Extracts(r))

\* Nothing in the files is missing from the index for good, and MEMORY.md has what was
\* promoted exactly once; no message is left out that nobody looked at, and a state has one
\* extraction.
MemoryIsExact ==
    /\ R!IndexIsComplete /\ R!PromotionIsExact
    /\ X!NothingIsSkipped /\ X!OneExtractionEach

\* No use of a skill is lost between the processes that count and age (SkillCurator).
SkillsAreSound == S!SkillsAreSound

\* A due one-shot job runs; what a search has found is counted, and the counts of a diary are
\* kept; a manual run gets the lock, and a stashed payload gets its extraction.
BackgroundProceeds == OneShotRuns /\ R!RecallIsKept /\ R!ManualRuns /\ X!StashIsExtracted
====
