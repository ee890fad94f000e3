------------------------------ MODULE MemoryRecall ------------------------------
(* The memory files of a workspace: the index that memory_search keeps of them,  *)
(* the recall counts that every hit leaves behind, and the dreaming sweeps that   *)
(* promote what is recalled often to MEMORY.md.  The daemon may die between two   *)
(* writes, and a hot update of the runtime starts a second dreaming scheduler.    *)
EXTENDS Integers, Sequences, FiniteSets

CONSTANTS
    Daily,          \* the daily files, memory/YYYY-MM-DD.md
    Note,           \* what a chunk of a daily file may say
    Longer,         \* pairs of keys: the text of the first is a prefix of the other's text
    MinRecall,      \* min_recall_count
    MaxLines,       \* bound on the chunks of a file
    MaxEdits,       \* bound on the edits of a daily file
    MaxCount,       \* bound on the hits of a key
    MaxSlots,       \* bound on the scheduled times that pass
    MaxRuntime,     \* bound on the runtimes, one dreaming scheduler each
    MaxCrashes      \* bound on the deaths of the daemon

Memory == "MEMORY.md"
Line == 1 .. MaxLines
Key == Daily \X Line

\* Assumed of the constants, by the modules that instantiate this one, too.
RecallAssumption ==
    /\ IsFiniteSet(Daily) /\ Memory \notin Daily
    /\ Longer \subseteq Key \X Key
    /\ {MinRecall, MaxLines, MaxEdits, MaxCount, MaxSlots, MaxRuntime, MaxCrashes} \subseteq Nat

VARIABLES
    file,           \* per path, its chunks; a file without any does not exist
    mtime,          \* per path, its modification time
    index,          \* the chunks in the collection
    manifest,       \* per path, the time and the chunks that were indexed
    recall,         \* short-term-recall.json: per key, its hits and whether it was promoted
    due,            \* the last scheduled time is not covered by last_run_at
    sweeper,        \* where each scheduler and the manual run stand
    locked,         \* the sweep lock, and who waits for it
    waiting,
    left            \* what is left of the bounds on edits, times and crashes
vars == <<file, mtime, index, manifest, recall, due, sweeper, locked, waiting, left>>
files == <<file, mtime>>
indexing == <<index, manifest>>
sweeping == <<sweeper, locked, waiting>>

Path == Daily \cup {Memory}
Runtime == 1 .. MaxRuntime
Manual == 0
Sweeper == Runtime \cup {Manual}

NotIndexed == [mtime |-> -1, chunks |-> {}]
NoRecall == [count |-> 0, promoted |-> FALSE]

Init ==
    /\ file = [p \in Path |-> <<>>]
    /\ mtime = [p \in Path |-> 0]
    /\ index = {}
    /\ manifest = [p \in Path |-> NotIndexed]
    /\ recall = [k \in Key |-> NoRecall]
    /\ due = TRUE
    /\ sweeper = [s \in Sweeper |-> CASE s = Manual -> "idle" [] s = 1 -> "start" [] OTHER -> "off"]
    /\ locked = FALSE
    /\ waiting = <<>>
    /\ left = [edits |-> MaxEdits, slots |-> MaxSlots, crashes |-> MaxCrashes]

\* The agent or the user changes a daily file, which may move its chunks.
Edit(p) ==
    /\ left.edits > 0
    /\ left' = [left EXCEPT !.edits = @ - 1]
    /\ \/ \E n \in Note : Len(file[p]) < MaxLines /\ file' = [file EXCEPT ![p] = Append(@, n)]
       \/ \E n \in Note : Len(file[p]) < MaxLines /\ file' = [file EXCEPT ![p] = <<n>> \o @]
       \/ file[p] # <<>> /\ file' = [file EXCEPT ![p] = Tail(@)]
    /\ mtime' = [mtime EXCEPT ![p] = @ + 1]
    /\ UNCHANGED <<indexing, recall, due, sweeping>>

\* The daemon dies and is started again.
Dies ==
    /\ left.crashes > 0
    /\ left' = [left EXCEPT !.crashes = @ - 1]
    /\ sweeper' = [s \in Sweeper |-> CASE s = Manual -> "lost" [] s = 1 -> "start" [] OTHER -> "off"]
    /\ locked' = FALSE
    /\ waiting' = <<>>

--------------------------------------------------------------------------------
(* memory_search: bring the index up to date, look into it, count the hits.      *)

\* _chunks_for_file: the id of a chunk holds its place and its text.
Chunks(p) == {<<p, i, file[p][i]>> : i \in DOMAIN file[p]}

\* _sync_index: the files to forget, and those whose time is not the recorded one.
Removed == {p \in Path : manifest[p] # NotIndexed /\ file[p] = <<>>}
Changed == {p \in Path : file[p] # <<>> /\ manifest[p].mtime # mtime[p]}
Outdated == UNION {manifest[p].chunks : p \in Removed \cup Changed}
Upserts == UNION {Chunks(p) : p \in Changed}
Synced == (index \ Outdated) \cup Upserts

Recorded ==
    [p \in Path |-> IF p \in Removed THEN NotIndexed
                    ELSE IF p \in Changed THEN [mtime |-> mtime[p], chunks |-> Chunks(p)]
                    ELSE manifest[p]]

\* track_recall reads the state file, counts, and writes it.
Tracked(k) == [recall EXCEPT ![k].count = @ + 1]

\* One hit in a daily file, or none that is tracked.
Search ==
    /\ index' = Synced
    /\ manifest' = Recorded
    /\ \/ \E c \in Synced : LET k == <<c[1], c[2]>>
                            IN  k \in Key /\ recall[k].count < MaxCount /\ recall' = Tracked(k)
       \/ UNCHANGED recall
    /\ UNCHANGED <<files, due, sweeping, left>>

\* Mutant: the manifest is written before the collection is.
SearchFailsRecorded ==
    /\ index' = index \ Outdated
    /\ manifest' = Recorded
    /\ UNCHANGED <<files, recall, due, sweeping, left>>

\* The upsert fails after the deletes.
SearchFails ==
    /\ index' = index \ Outdated
    /\ UNCHANGED <<files, manifest, recall, due, sweeping, left>>

\* The daemon dies before the manifest is written, or in its write.
SearchDies ==
    /\ Dies
    /\ index' = Synced
    /\ manifest' \in {manifest, [p \in Path |-> NotIndexed]}
    /\ UNCHANGED <<files, recall, due>>

\* It dies in the write of the state file: the next load finds nothing in it.
TrackDies ==
    /\ Dies
    /\ recall' = [k \in Key |-> NoRecall]
    /\ due' = TRUE
    /\ UNCHANGED <<files, indexing>>

--------------------------------------------------------------------------------
(* run_dreaming.                                                                *)

\* run_light_phase, and the thresholds of run_deep_phase; what score selects is left open.
Candidates ==
    {k \in Key : ~recall[k].promoted /\ recall[k].count >= MinRecall /\ file[k[1]] # <<>>}

\* _rehydrate_snippet: the lines are still there, whatever they say now.
Rehydrates(k) == k[2] \in DOMAIN file[k[1]]

\* The test for the key in the text of MEMORY.md also finds a longer one.
InMemory(k) ==
    \E i \in DOMAIN file[Memory] : file[Memory][i] = k \/ <<k, file[Memory][i]>> \in Longer

\* The blocks that are appended.
Blocks(chosen) == {k \in chosen : ~InMemory(k)}

\* MEMORY.md with the blocks, in an order of their scores.
Promoted(blocks) ==
    {file[Memory] \o order : order \in
        {o \in [1 .. Cardinality(blocks) -> blocks] : \A k \in blocks : \E i \in DOMAIN o : o[i] = k}}

\* What a sweep may choose; a chosen key is read again.
Choices == {c \in SUBSET Candidates : \A k \in c : Rehydrates(k)}

Marked(chosen) ==
    [k \in Key |-> IF k \in chosen THEN [recall[k] EXCEPT !.promoted = TRUE] ELSE recall[k]]

Written(chosen) ==
    LET blocks == Blocks(chosen)
    IN  IF blocks = {} THEN UNCHANGED files
        ELSE /\ \E text \in Promoted(blocks) :
                    file' = [file EXCEPT ![Memory] = text]
             /\ mtime' = [mtime EXCEPT ![Memory] = @ + 1]

\* Both phases run without an await; a diary of what was promoted is asked from a model
\* under the lock, and without one the sweep is over at once.
Sweeps(s, after) ==
    \E chosen \in Choices :
        /\ Written(chosen)
        /\ recall' = Marked(chosen)
        /\ IF chosen = {}
           THEN /\ due' = FALSE
                /\ locked' = FALSE
                /\ sweeper' = [sweeper EXCEPT ![s] = after]
           ELSE /\ locked' = TRUE
                /\ sweeper' = [sweeper EXCEPT ![s] = "diary"]
                /\ UNCHANGED due

\* asyncio.Lock: who comes while others wait goes behind them.
Waits(s) ==
    /\ waiting' = Append(waiting, s)
    /\ sweeper' = [sweeper EXCEPT ![s] = "wait"]
    /\ UNCHANGED <<file, mtime, recall, due, locked>>

Rests(s) == IF s = Manual THEN "idle" ELSE "sleep"

\* A sweep of the scheduler is skipped while another one runs.
Scheduled(s) ==
    /\ IF locked
       THEN /\ sweeper' = [sweeper EXCEPT ![s] = "sleep"]
            /\ UNCHANGED <<file, mtime, recall, due, locked, waiting>>
       ELSE IF waiting = <<>>
       THEN Sweeps(s, "sleep") /\ UNCHANGED waiting
       ELSE Waits(s)
    /\ UNCHANGED <<indexing, left>>

\* start_dreaming_scheduler: a sweep at the start when one is due.
Starts(s) ==
    /\ sweeper[s] = "start"
    /\ IF due THEN Scheduled(s)
       ELSE /\ sweeper' = [sweeper EXCEPT ![s] = "sleep"]
            /\ UNCHANGED <<files, indexing, recall, due, locked, waiting, left>>

Wakes(s) ==
    /\ sweeper[s] = "slot"
    /\ Scheduled(s)

\* The scheduled time comes.
SlotPasses ==
    /\ left.slots > 0
    /\ left' = [left EXCEPT !.slots = @ - 1]
    /\ due' = TRUE
    /\ sweeper' = [s \in Sweeper |-> IF sweeper[s] = "sleep" THEN "slot" ELSE sweeper[s]]
    /\ UNCHANGED <<files, indexing, recall, locked, waiting>>

\* dreaming_run: waits for a sweep that runs, and then sweeps.
DreamingRun ==
    /\ sweeper[Manual] \in {"idle", "lost"} /\ left.slots > 0
    /\ left' = [left EXCEPT !.slots = @ - 1]
    /\ IF ~locked /\ waiting = <<>>
       THEN Sweeps(Manual, "idle") /\ UNCHANGED waiting
       ELSE Waits(Manual)
    /\ UNCHANGED indexing

Woken(s) ==
    /\ ~locked /\ waiting # <<>> /\ Head(waiting) = s
    /\ waiting' = Tail(waiting)
    /\ Sweeps(s, Rests(s))
    /\ UNCHANGED <<indexing, left>>

\* The diary is written, or its model fails; update_last_run_at loads the state again.
DiaryEnds(s) ==
    /\ sweeper[s] = "diary"
    /\ due' = FALSE
    /\ locked' = FALSE
    /\ sweeper' = [sweeper EXCEPT ![s] = Rests(s)]
    /\ UNCHANGED <<files, indexing, recall, waiting, left>>

\* It dies between MEMORY.md and the marks.
SweepDies ==
    /\ ~locked \/ waiting # <<>>
    /\ Dies
    /\ \E chosen \in Choices : Blocks(chosen) # {} /\ Written(chosen)
    /\ UNCHANGED <<indexing, recall, due>>

--------------------------------------------------------------------------------
(* A hot update builds the new runtime before it closes the old one.             *)

Update(s) ==
    /\ s - 1 \in Runtime
    /\ sweeper[s - 1] # "off" /\ sweeper[s] = "off"
    /\ sweeper' = [sweeper EXCEPT ![s] = "start"]
    /\ UNCHANGED <<files, indexing, recall, due, locked, waiting, left>>

\* AgentRuntime.close cancels the scheduler, also in a diary.
Closed(s) ==
    /\ s + 1 \in Runtime /\ sweeper[s + 1] # "off" /\ sweeper[s] # "off"
    /\ sweeper' = [sweeper EXCEPT ![s] = "off"]
    /\ locked' = (locked /\ sweeper[s] # "diary")
    /\ waiting' = SelectSeq(waiting, LAMBDA w : w # s)
    /\ UNCHANGED <<files, indexing, recall, due, left>>

SweepStep(s) ==
    \/ Starts(s)
    \/ Wakes(s)
    \/ Woken(s)
    \/ DiaryEnds(s)

Next ==
    \/ \E p \in Daily : Edit(p)
    \/ Search
    \/ SearchFails
    \/ SearchDies
    \/ TrackDies
    \/ \E s \in Sweeper : SweepStep(s)
    \/ SlotPasses
    \/ DreamingRun
    \/ SweepDies
    \/ \E s \in Runtime : Update(s) \/ Closed(s)

Spec == Init /\ [][Next]_vars

\* The event loop runs what is ready, and a model answers or fails.
Fairness == \A s \in Sweeper : WF_vars(SweepStep(s))
FairSpec == Spec /\ Fairness

--------------------------------------------------------------------------------

\* What the manifest calls indexed is in the index: the next search skips the file, so a
\* chunk that is missing then would be missing for good, whichever of the deletes, the
\* upsert and the write of the manifest failed or was the last one before a death.
IndexIsComplete ==
    \A p \in Path : manifest[p].mtime = mtime[p] => Chunks(p) \subseteq index

\* MEMORY.md has a memory at most once, also when the daemon died before it was marked or
\* the marks were lost; and what is marked is there, or another one whose key begins with
\* the same text.
PromotionIsExact ==
    /\ \A i, j \in DOMAIN file[Memory] : file[Memory][i] = file[Memory][j] => i = j
    /\ \A k \in Key : recall[k].promoted => InMemory(k)

\* A hit that was counted stays counted and a mark stays set, though searches go on while
\* a sweep waits for its diary; only a state file that was torn starts again.
RecallIsKept ==
    [][\/ \A k \in Key : /\ recall'[k].count >= recall[k].count
                         /\ recall[k].promoted => recall'[k].promoted
       \/ recall' = [k \in Key |-> NoRecall] /\ left'.crashes < left.crashes]_vars

\* "Waits for any in-progress sweep to finish, then runs. Never skips": whichever sweep is
\* cancelled meanwhile, the lock comes back and a manual run gets it.
ManualRuns == sweeper[Manual] = "wait" ~> sweeper[Manual] # "wait"
================================================================================
