---------------------------- MODULE BackgroundProofs ----------------------------
(* Proofs about what the daemon does on its own: for any files, limits and deaths   *)
(* of the daemon, for any skills and processes, for any turns, compactions *)
(* and resets, and for any jobs, runs, period and horizon.                          *)
EXTENDS MCBackground, FiniteSetTheorems, SequenceTheorems, TLAPS

--------------------------------------------------------------------------------
(* Skills: who has the lock has the file, and nobody ages a pinned skill.            *)

Flags == [enabled : BOOLEAN, paused : BOOLEAN, runs : Nat]
Record == [state : S!State, count : Nat, seen : Nat]

IsRun(r) ==
    /\ r = [pc |-> "run", flags |-> r.flags, dry |-> r.dry, rows |-> r.rows, todo |-> r.todo]
    /\ r.flags \in Flags
    /\ r.todo \subseteq Skill \ Pinned
    /\ \A s \in r.todo : r.rows[s].state \in S!State

IsChange(c) ==
    /\ c.skill \in Skill
    /\ c.kind # "event" => c.skill \notin Pinned /\ c.to \in S!State

IsLocked(r) == IsChange(r.change) /\ (r.rest = S!Idle \/ IsRun(r.rest))

ProcessKnows(p) ==
    /\ proc[p].pc \in {"idle", "run", "locked", "flags"}
    /\ proc[p].pc = "run" => IsRun(proc[p])
    /\ proc[p].pc = "flags" => proc[p].flags \in Flags
    /\ proc[p].pc = "locked" => IsLocked(proc[p]) /\ lock = p /\ proc[p].file = usage

UsageIsRecords == \A s \in S!Recorded : usage[s] \in Record

CuratorInv ==
    /\ S!SkillsAreSound
    /\ UsageIsRecords
    /\ recorded \in [Skill -> Nat]
    /\ DOMAIN proc = Process
    /\ \A p \in Process : ProcessKnows(p)

LEMMA CuratorInitially == S!CuratorAssumption /\ S!CuratorInit => CuratorInv
<1> SUFFICES ASSUME S!CuratorAssumption, S!CuratorInit PROVE CuratorInv
  OBVIOUS
<1>1. S!Recorded = {}
  BY DEF S!CuratorInit, S!Recorded
<1>2. S!CuratorTypeOK
  BY <1>1 DEF S!CuratorInit, S!CuratorAssumption, S!CuratorTypeOK
<1>3. S!EventsAreCounted /\ S!PinnedStay /\ UsageIsRecords
  BY <1>1 DEF S!CuratorInit, S!EventsAreCounted, S!PinnedStay, UsageIsRecords
<1>4. \A p \in Process : ProcessKnows(p)
  BY DEF S!CuratorInit, ProcessKnows, S!Idle
<1>5. QED
  BY <1>2, <1>3, <1>4 DEF S!CuratorInit, CuratorInv, S!SkillsAreSound

\* The file is left alone: what is said of it stays, and a process goes on.
LEMMA ProcessGoesOn ==
    ASSUME S!CuratorAssumption, CuratorInv, NEW p \in Process, NEW r,
           proc' = [proc EXCEPT ![p] = r],
           UNCHANGED <<day, usage, recorded>>, flags' \in Flags,
           \/ /\ r.pc \in {"idle", "run", "flags"}
              /\ lock' \in {lock, S!Nobody}
              /\ lock' # lock => lock = p
           \/ r.pc = "locked" /\ lock = S!Nobody /\ lock' = p /\ IsLocked(r) /\ r.file = usage,
           r.pc = "run" => IsRun(r),
           r.pc = "flags" => r.flags \in Flags
    PROVE  CuratorInv'
<1> USE DEF CuratorInv
<1>1. \A q \in Process : proc'[q] = IF q = p THEN r ELSE proc[q]
  OBVIOUS
<1>2. \A q \in Process : ProcessKnows(q)'
  <2> SUFFICES ASSUME NEW q \in Process PROVE ProcessKnows(q)'
    OBVIOUS
  <2>1. CASE q = p
    BY <1>1, <2>1 DEF ProcessKnows, IsLocked, IsRun, IsChange
  <2>2. CASE q # p
    <3>1. proc'[q] = proc[q]
      BY <1>1, <2>2
    <3>2. proc[q].pc = "locked" => lock = q
      BY DEF ProcessKnows
    <3>3. proc[q].pc = "locked" => lock' = q
      BY <2>2, <3>2 DEF S!CuratorAssumption
    <3>4. QED
      BY <3>1, <3>3 DEF ProcessKnows, IsLocked, IsRun, IsChange
  <2>3. QED
    BY <2>1, <2>2
<1>3. S!CuratorTypeOK' /\ S!EventsAreCounted' /\ S!PinnedStay' /\ UsageIsRecords'
  <2>1. lock' \in Process \cup {S!Nobody}
    BY DEF S!SkillsAreSound, S!CuratorTypeOK
  <2>2. S!CuratorTypeOK'
    BY <2>1 DEF S!SkillsAreSound, S!CuratorTypeOK, S!Recorded, Flags
  <2>3. S!EventsAreCounted' /\ S!PinnedStay' /\ UsageIsRecords'
    BY DEF S!SkillsAreSound, S!EventsAreCounted, S!PinnedStay, UsageIsRecords, S!Recorded
  <2>4. QED
    BY <2>2, <2>3
<1>4. QED
  BY <1>2, <1>3 DEF S!SkillsAreSound

\* The one that has the lock writes a file in which one record is another.
LEMMA FileIsReplaced ==
    ASSUME S!CuratorAssumption, CuratorInv, NEW p \in Process, proc[p].pc = "locked",
           NEW s \in Skill, NEW r \in Record, NEW n \in {0, 1},
           usage' = S!With(usage, s, r), r.seen <= day,
           s \in Pinned => r.state = "active",
           r.count = recorded[s] + n,
           recorded' = [recorded EXCEPT ![s] = @ + n],
           lock' = S!Nobody, proc' = [proc EXCEPT ![p] = proc[p].rest],
           UNCHANGED <<day, flags>>
    PROVE  CuratorInv'
<1> USE DEF CuratorInv
<1>1. /\ S!Recorded' = S!Recorded \cup {s}
      /\ \A t \in S!Recorded' : usage'[t] = IF t = s THEN r ELSE usage[t]
  BY DEF S!With, S!Recorded
<1>2. S!CuratorTypeOK' /\ UsageIsRecords'
  <2>1. S!Recorded' \subseteq Skill
    BY <1>1 DEF S!SkillsAreSound, S!CuratorTypeOK
  <2>2. \A t \in S!Recorded' : /\ usage'[t].state \in S!State /\ usage'[t].count \in Nat
                             /\ usage'[t].seen \in 0 .. day
                             /\ usage'[t] \in Record
    <3> SUFFICES ASSUME NEW t \in S!Recorded'
                 PROVE  /\ usage'[t].state \in S!State /\ usage'[t].count \in Nat
                        /\ usage'[t].seen \in 0 .. day
                        /\ usage'[t] \in Record
      OBVIOUS
    <3>1. CASE t = s
      BY <1>1, <3>1 DEF Record, S!SkillsAreSound, S!CuratorTypeOK
    <3>2. CASE t # s
      BY <1>1, <3>2 DEF S!SkillsAreSound, S!CuratorTypeOK, UsageIsRecords
    <3>3. QED
      BY <3>1, <3>2
  <2>3. QED
    BY <2>1, <2>2 DEF S!SkillsAreSound, S!CuratorTypeOK, UsageIsRecords, S!Recorded
<1>3. S!EventsAreCounted'
  <2> SUFFICES ASSUME NEW t \in Skill
               PROVE  recorded'[t] = IF t \in S!Recorded' THEN usage'[t].count ELSE 0
    BY DEF S!EventsAreCounted
  <2>1. CASE t = s
    BY <1>1, <2>1
  <2>2. CASE t # s
    BY <1>1, <2>2 DEF S!SkillsAreSound, S!EventsAreCounted
  <2>3. QED
    BY <2>1, <2>2
<1>4. S!PinnedStay'
  BY <1>1 DEF S!SkillsAreSound, S!PinnedStay
<1>5. recorded' \in [Skill -> Nat] /\ DOMAIN proc' = Process
  OBVIOUS
<1>6. ASSUME NEW q \in Process PROVE ProcessKnows(q)'
  <2>1. CASE q = p
    <3>1. proc'[q] = proc[p].rest /\ (proc[p].rest = S!Idle \/ IsRun(proc[p].rest))
      BY <2>1 DEF ProcessKnows, IsLocked
    <3>2. proc'[q].pc \in {"idle", "run"} /\ (proc'[q].pc = "run" => IsRun(proc'[q]))
      BY <3>1 DEF S!Idle, IsRun
    <3>3. QED
      BY <3>2 DEF ProcessKnows, IsRun
  <2>2. CASE q # p
    <3>1. proc'[q] = proc[q]
      BY <2>2
    <3>2. proc[q].pc # "locked"
      BY <2>2 DEF ProcessKnows
    <3>3. QED
      BY <3>1, <3>2 DEF ProcessKnows, IsRun
  <2>3. QED
    BY <2>1, <2>2
<1>7. QED
  BY <1>2, <1>3, <1>4, <1>5, <1>6 DEF S!SkillsAreSound

LEMMA SavesKeeps ==
    ASSUME S!CuratorAssumption, CuratorInv, NEW p \in Process, S!Saves(p)
    PROVE  CuratorInv'
<1> DEFINE c == proc[p].change
           s == c.skill
<1>1. /\ proc[p].pc = "locked" /\ lock' = S!Nobody
      /\ proc' = [proc EXCEPT ![p] = proc[p].rest]
      /\ UNCHANGED <<day, flags>>
      /\ IsChange(c) /\ proc[p].file = usage
  BY DEF S!Saves, CuratorInv, ProcessKnows, IsLocked
<1>2. s \in Skill
  BY <1>1 DEF IsChange
<1>3. day \in Nat /\ (s \in S!Recorded => usage[s] \in Record /\ usage[s].seen <= day)
  BY DEF CuratorInv, UsageIsRecords, S!SkillsAreSound, S!CuratorTypeOK
<1>4. recorded[s] = IF s \in S!Recorded THEN usage[s].count ELSE 0
  BY <1>2 DEF CuratorInv, S!SkillsAreSound, S!EventsAreCounted
<1>5. recorded \in [Skill -> Nat] /\ recorded[s] \in Nat
  BY <1>2 DEF CuratorInv
<1>6. s \in S!Recorded /\ s \in Pinned => usage[s].state = "active"
  BY DEF CuratorInv, S!SkillsAreSound, S!PinnedStay
<1>7. CASE c.kind = "event"
  <2> DEFINE old == IF s \in S!Recorded THEN usage[s]
                    ELSE [state |-> "active", count |-> 0, seen |-> day]
             revived == old.state = "stale" /\ c.event \in {"use", "patch"}
             r == [state |-> IF revived THEN "active" ELSE old.state,
                   count |-> old.count + 1, seen |-> day]
  <2>1. usage' = S!With(usage, s, r)
    BY <1>1, <1>7 DEF S!Saves, S!Counted, S!Recorded
  <2>2. old \in Record /\ old.count = recorded[s] /\ (s \in Pinned => old.state = "active")
    BY <1>3, <1>4, <1>6 DEF Record, S!State
  <2> HIDE DEF old
  <2>3. r \in Record /\ r.seen <= day /\ r.count = recorded[s] + 1
        /\ (s \in Pinned => r.state = "active")
    BY <1>3, <2>2 DEF Record, S!State
  <2>4. recorded' = [recorded EXCEPT ![s] = @ + 1]
    BY <1>1, <1>7 DEF S!Saves
  <2> HIDE DEF r, s, c
  <2>5. QED
    BY <1>1, <1>2, <2>1, <2>3, <2>4, FileIsReplaced
<1>8. CASE c.kind # "event" /\ s \in S!Recorded
  <2> DEFINE r == [usage[s] EXCEPT !.state = c.to]
  <2>1. usage' = S!With(usage, s, r)
    BY <1>1, <1>8 DEF S!Saves, S!Moved, S!Recorded
  <2>2. c.to \in S!State /\ s \notin Pinned
    BY <1>1, <1>8 DEF IsChange
  <2>3. r \in Record /\ r.seen <= day /\ r.count = recorded[s] + 0
    BY <1>3, <1>4, <1>5, <1>8, <2>2 DEF Record
  <2>4. recorded' = [recorded EXCEPT ![s] = @ + 0]
    BY <1>1, <1>2, <1>5, <1>8 DEF S!Saves
  <2> HIDE DEF r, s, c
  <2>5. QED
    BY <1>1, <1>2, <2>1, <2>2, <2>3, <2>4, FileIsReplaced
<1>9. CASE c.kind # "event" /\ s \notin S!Recorded
  <2>1. usage' = usage /\ recorded' = recorded
    BY <1>1, <1>9 DEF S!Saves, S!Moved, S!Recorded
  <2>2. proc[p].rest.pc \in {"idle", "run"} /\ (proc[p].rest.pc = "run" => IsRun(proc[p].rest))
    BY <1>1 DEF CuratorInv, ProcessKnows, IsLocked, S!Idle, IsRun
  <2>3. lock = p
    BY <1>1 DEF CuratorInv, ProcessKnows
  <2>4. flags' \in Flags
    BY <1>1 DEF CuratorInv, S!SkillsAreSound, S!CuratorTypeOK, Flags
  <2>5. QED
    BY <1>1, <2>1, <2>2, <2>3, <2>4, ProcessGoesOn
<1>10. QED
  BY <1>7, <1>8, <1>9

LEMMA LocksKeeps ==
    ASSUME S!CuratorAssumption, CuratorInv, NEW p \in Process, NEW change, NEW rest,
           S!Locks(p, change, rest), IsChange(change), rest = S!Idle \/ IsRun(rest),
           UNCHANGED <<day, usage, flags, recorded>>
    PROVE  CuratorInv'
<1> DEFINE r == [pc |-> "locked", change |-> change, file |-> usage, rest |-> rest]
<1>1. proc' = [proc EXCEPT ![p] = r] /\ lock = S!Nobody /\ lock' = p
  BY DEF S!Locks
<1>2. r.pc = "locked" /\ IsLocked(r) /\ r.file = usage
  BY DEF IsLocked
<1>3. flags' \in Flags
  BY DEF CuratorInv, S!SkillsAreSound, S!CuratorTypeOK, Flags
<1> HIDE DEF r
<1>4. QED
  BY <1>1, <1>2, <1>3, ProcessGoesOn

LEMMA CuratesKeeps ==
    ASSUME S!CuratorAssumption, CuratorInv, NEW p \in Process, NEW s \in Skill, S!Curates(p, s)
    PROVE  CuratorInv'
<1> DEFINE change == [kind |-> "state", skill |-> s, to |-> S!Target(proc[p].rows[s])]
           rest == [proc[p] EXCEPT !.todo = @ \ {s}]
<1>1. /\ proc[p].pc = "run" /\ s \in proc[p].todo /\ S!Locks(p, change, rest)
      /\ UNCHANGED <<day, usage, flags, recorded>>
  BY DEF S!Curates
<1>2. IsRun(proc[p])
  BY <1>1 DEF CuratorInv, ProcessKnows
<1>3. IsChange(change)
  <2>1. s \notin Pinned /\ proc[p].rows[s].state \in S!State
    BY <1>1, <1>2 DEF IsRun
  <2>2. S!Target(proc[p].rows[s]) \in S!State
    BY <2>1 DEF S!Target, S!State
  <2>3. QED
    BY <2>1, <2>2 DEF IsChange
<1>4. IsRun(rest)
  <2> DEFINE r == proc[p]
  <2>1. r = [pc |-> "run", flags |-> r.flags, dry |-> r.dry, rows |-> r.rows, todo |-> r.todo]
    BY <1>2 DEF IsRun
  <2>2. rest = [pc |-> "run", flags |-> r.flags, dry |-> r.dry, rows |-> r.rows,
                todo |-> r.todo \ {s}]
    BY <2>1
  <2>3. QED
    BY <1>2, <2>2 DEF IsRun
<1> HIDE DEF change, rest
<1>5. QED
  BY <1>1, <1>3, <1>4, LocksKeeps

LEMMA CuratorStep ==
    ASSUME S!CuratorAssumption, CuratorInv, S!CuratorNext
    PROVE  CuratorInv'
<1>0. flags \in Flags /\ usage = usage
  BY DEF CuratorInv, S!SkillsAreSound, S!CuratorTypeOK, Flags
<1>1. CASE S!DayPasses
  <2>1. day' = day + 1 /\ day' \in 0 .. MaxDay /\ day \in Nat
    BY <1>1 DEF S!DayPasses, S!CuratorAssumption, CuratorInv, S!SkillsAreSound, S!CuratorTypeOK
  <2>2. UNCHANGED <<usage, flags, lock, proc, recorded>>
    BY <1>1 DEF S!DayPasses
  <2>3. S!CuratorTypeOK'
    BY <2>1, <2>2 DEF CuratorInv, S!SkillsAreSound, S!CuratorTypeOK, S!Recorded
  <2>4. S!EventsAreCounted' /\ S!PinnedStay' /\ UsageIsRecords'
    BY <2>2 DEF CuratorInv, S!SkillsAreSound, S!EventsAreCounted, S!PinnedStay, UsageIsRecords, S!Recorded
  <2>5. \A p \in Process : ProcessKnows(p)'
    BY <2>2 DEF CuratorInv, ProcessKnows, IsRun, IsLocked, IsChange
  <2>6. QED
    BY <2>2, <2>3, <2>4, <2>5 DEF CuratorInv, S!SkillsAreSound
<1>2. CASE \E p \in Process : S!Saves(p)
  BY <1>2, SavesKeeps
<1>3. CASE \E p \in Process : S!CuratorEnds(p) \/ S!FlagsSaved(p) \/ S!Dies(p)
  <2>1. PICK p \in Process : S!CuratorEnds(p) \/ S!FlagsSaved(p) \/ S!Dies(p)
    BY <1>3
  <2>2. /\ proc' = [proc EXCEPT ![p] = S!Idle] /\ UNCHANGED <<day, usage, recorded>>
        /\ lock' = lock \/ (lock = p /\ lock' = S!Nobody)
    BY <2>1 DEF S!CuratorEnds, S!FlagsSaved, S!Dies
  <2>3. flags' \in Flags
    <3>1. CASE S!CuratorEnds(p)
      <4>1. proc[p].flags \in Flags
        BY <3>1 DEF S!CuratorEnds, CuratorInv, ProcessKnows, IsRun
      <4>2. [proc[p].flags EXCEPT !.runs = @ + 1] \in Flags
        BY <4>1 DEF Flags
      <4>3. QED
        BY <3>1, <4>1, <4>2 DEF S!CuratorEnds
    <3>2. CASE S!FlagsSaved(p)
      BY <3>2 DEF S!FlagsSaved, CuratorInv, ProcessKnows
    <3>3. CASE S!Dies(p)
      BY <1>0, <3>3 DEF S!Dies
    <3>4. QED
      BY <2>1, <3>1, <3>2, <3>3
  <2>4. S!Idle.pc = "idle"
    BY DEF S!Idle
  <2>5. QED
    BY <2>2, <2>3, <2>4, ProcessGoesOn
<1>4. CASE \E p \in Process, s \in Skill : S!Curates(p, s)
  BY <1>4, CuratesKeeps
<1>5. CASE \E p \in Process, s \in Skill, e \in S!Events : S!RecordEvent(p, s, e)
  <2>1. PICK p \in Process, s \in Skill, e \in S!Events : S!RecordEvent(p, s, e)
    BY <1>5
  <2> DEFINE change == [kind |-> "event", skill |-> s, event |-> e]
  <2>2. S!Locks(p, change, S!Idle) /\ UNCHANGED <<day, usage, flags, recorded>>
    BY <2>1 DEF S!RecordEvent
  <2>3. IsChange(change)
    BY DEF IsChange
  <2> HIDE DEF change
  <2>4. QED
    BY <2>2, <2>3, LocksKeeps
<1>6. CASE \E p \in Process, dry \in BOOLEAN : S!CuratorRuns(p, dry)
  <2>1. PICK p \in Process, dry \in BOOLEAN : S!CuratorRuns(p, dry)
    BY <1>6
  <2> DEFINE todo == IF dry THEN {} ELSE S!Due(usage)
             r == [pc |-> "run", flags |-> flags, dry |-> dry, rows |-> usage, todo |-> todo]
  <2>2. proc' = [proc EXCEPT ![p] = r] /\ UNCHANGED <<day, usage, flags, lock, recorded>>
    BY <2>1 DEF S!CuratorRuns
  <2>3. todo \subseteq S!Recorded \ Pinned
    BY DEF S!Due, S!Recorded
  <2>4. r.pc = "run" /\ IsRun(r)
    <3> HIDE DEF todo
    <3> QED
      BY <1>0, <2>3 DEF IsRun, CuratorInv, S!SkillsAreSound, S!CuratorTypeOK
  <2> HIDE DEF r
  <2>5. QED
    BY <1>0, <2>2, <2>4, ProcessGoesOn
<1>7. CASE \E p \in Process, change \in {"pause", "resume", "enable", "disable"} : S!SetsFlags(p, change)
  <2>1. PICK p \in Process, change \in {"pause", "resume", "enable", "disable"} : S!SetsFlags(p, change)
    BY <1>7
  <2> DEFINE f == IF change \in {"pause", "resume"}
                  THEN [flags EXCEPT !.paused = change = "pause"]
                  ELSE [flags EXCEPT !.enabled = change = "enable",
                                     !.paused = @ /\ change # "enable"]
             r == [pc |-> "flags", flags |-> f]
  <2>2. proc' = [proc EXCEPT ![p] = r] /\ UNCHANGED <<day, usage, flags, lock, recorded>>
    BY <2>1 DEF S!SetsFlags
  <2>3. f \in Flags
    BY <1>0 DEF Flags
  <2>4. r.pc = "flags" /\ r.flags \in Flags
    <3> HIDE DEF f
    <3> QED
      BY <2>3
  <2> HIDE DEF r
  <2>5. QED
    BY <1>0, <2>2, <2>4, ProcessGoesOn
<1>8. QED
  BY <1>1, <1>2, <1>3, <1>4, <1>5, <1>6, <1>7 DEF S!CuratorNext

--------------------------------------------------------------------------------
(* Recall: what the manifest calls indexed, and what MEMORY.md has.               *)

Entry == [mtime : Int, chunks : SUBSET (R!Path \X Nat \X (Note \cup R!Key))]
Recalled == [count : Nat, promoted : BOOLEAN]

FilesOK ==
    /\ file \in [R!Path -> Seq(Note \cup R!Key)]
    /\ file[R!Memory] \in Seq(R!Key)
    /\ mtime \in [R!Path -> Nat]

\* A time of the manifest is not ahead of its file, and a chunk is recorded with its own file.
ManifestOK ==
    /\ manifest \in [R!Path -> Entry]
    /\ \A p \in R!Path : /\ manifest[p].mtime <= mtime[p]
                       /\ \A c \in manifest[p].chunks : c[1] = p

RecallInv ==
    /\ FilesOK
    /\ ManifestOK
    /\ recall \in [R!Key -> Recalled]
    /\ R!IndexIsComplete
    /\ R!PromotionIsExact

LEMMA RecallInitially == R!RecallAssumption /\ R!Init => RecallInv
<1> SUFFICES ASSUME R!RecallAssumption, R!Init PROVE RecallInv
  OBVIOUS
<1>1. FilesOK
  BY DEF R!Init, FilesOK, R!Path
<1>2. R!NotIndexed \in Entry /\ R!NotIndexed.mtime = -1 /\ R!NotIndexed.chunks = {}
  BY DEF R!NotIndexed, Entry
<1>3. ManifestOK
  BY <1>2 DEF R!Init, ManifestOK
<1>4. R!NoRecall \in Recalled /\ ~R!NoRecall.promoted
  BY DEF R!NoRecall, Recalled
<1>5. recall \in [R!Key -> Recalled]
  BY <1>4 DEF R!Init
<1>6. R!IndexIsComplete
  BY <1>2 DEF R!Init, R!IndexIsComplete
<1>7. R!PromotionIsExact
  BY <1>4, <1>5 DEF R!Init, R!PromotionIsExact, R!Path
<1>8. QED
  BY <1>1, <1>3, <1>5, <1>6, <1>7 DEF RecallInv

\* A file changes, and its time with it.
LEMMA FileChanges ==
    ASSUME R!RecallAssumption, RecallInv, NEW p \in R!Path, NEW text \in Seq(Note \cup R!Key),
           file' = [file EXCEPT ![p] = text], mtime' = [mtime EXCEPT ![p] = @ + 1],
           file'[R!Memory] \in Seq(R!Key), UNCHANGED R!indexing
    PROVE  FilesOK' /\ ManifestOK' /\ R!IndexIsComplete'
<1>1. /\ FilesOK /\ ManifestOK /\ R!IndexIsComplete
      /\ index' = index /\ manifest' = manifest
  BY DEF RecallInv, R!indexing
<1>2. FilesOK'
  BY <1>1 DEF FilesOK
<1>3. \A q \in R!Path : mtime'[q] = IF q = p THEN mtime[q] + 1 ELSE mtime[q]
  BY <1>1 DEF FilesOK
<1>4. ManifestOK'
  <2>1. \A q \in R!Path : manifest[q].mtime \in Int /\ mtime[q] \in Nat
    BY <1>1 DEF ManifestOK, FilesOK, Entry
  <2>2. QED
    BY <1>1, <1>3, <2>1 DEF ManifestOK
<1>5. R!IndexIsComplete'
  <2> SUFFICES ASSUME NEW q \in R!Path, manifest[q].mtime = mtime'[q]
               PROVE  R!Chunks(q)' \subseteq index
    BY <1>1 DEF R!IndexIsComplete
  <2>1. q # p
    BY <1>1, <1>3 DEF ManifestOK, FilesOK, Entry
  <2>2. file'[q] = file[q] /\ mtime'[q] = mtime[q]
    BY <1>1, <1>3, <2>1 DEF FilesOK
  <2>3. R!Chunks(q)' = R!Chunks(q)
    BY <2>2 DEF R!Chunks
  <2>4. QED
    BY <1>1, <2>2, <2>3 DEF R!IndexIsComplete
<1>6. QED
  BY <1>2, <1>4, <1>5

\* The deletes take nothing from a file whose time is the recorded one.
LEMMA DeletesSpareOthers ==
    ASSUME RecallInv, NEW p \in R!Path, manifest[p].mtime = mtime[p], file[p] # <<>>
    PROVE  R!Chunks(p) \subseteq index \ R!Outdated
<1>1. R!Chunks(p) \subseteq index
  BY DEF RecallInv, R!IndexIsComplete
<1>2. ASSUME NEW c \in R!Chunks(p), c \in R!Outdated PROVE FALSE
  <2>1. PICK q \in R!Removed \cup R!Changed : c \in manifest[q].chunks
    BY <1>2 DEF R!Outdated
  <2>2. q \in R!Path /\ q # p
    BY <2>1 DEF R!Removed, R!Changed
  <2>3. c[1] = q
    BY <2>1, <2>2 DEF RecallInv, ManifestOK
  <2>4. c[1] = p
    BY <1>2 DEF R!Chunks
  <2>5. QED
    BY <2>2, <2>3, <2>4
<1>3. QED
  BY <1>1, <1>2

LEMMA SyncKeeps ==
    ASSUME R!RecallAssumption, RecallInv, UNCHANGED R!files,
           \/ index' = R!Synced /\ manifest' \in {manifest, R!Recorded, [p \in R!Path |-> R!NotIndexed]}
           \/ index' = index \ R!Outdated /\ manifest' = manifest
    PROVE  FilesOK' /\ ManifestOK' /\ R!IndexIsComplete'
<1>1. /\ FilesOK /\ ManifestOK /\ R!IndexIsComplete
      /\ file' = file /\ mtime' = mtime
  BY DEF RecallInv, R!files
<1>2. FilesOK'
  BY <1>1 DEF FilesOK
<1>3. R!NotIndexed \in Entry /\ R!NotIndexed.mtime = -1 /\ R!NotIndexed.chunks = {}
  BY DEF R!NotIndexed, Entry
<1>4. ASSUME NEW p \in R!Path
      PROVE  LET e == [mtime |-> mtime[p], chunks |-> R!Chunks(p)]
             IN  e \in Entry /\ \A c \in e.chunks : c[1] = p
  <2>1. file[p] \in Seq(Note \cup R!Key) /\ mtime[p] \in Nat
    BY <1>1 DEF FilesOK
  <2>2. \A i \in DOMAIN file[p] : i \in Nat /\ file[p][i] \in Note \cup R!Key
    BY <2>1, ElementOfSeq, LenProperties
  <2>3. R!Chunks(p) \subseteq R!Path \X Nat \X (Note \cup R!Key)
    BY <2>2 DEF R!Chunks
  <2>4. \A c \in R!Chunks(p) : c[1] = p
    BY DEF R!Chunks
  <2>5. QED
    BY <2>1, <2>3, <2>4 DEF Entry
<1>5. ManifestOK'
  <2> SUFFICES ASSUME NEW p \in R!Path
               PROVE  /\ manifest'[p] \in Entry
                      /\ manifest'[p].mtime <= mtime[p]
                      /\ \A c \in manifest'[p].chunks : c[1] = p
    BY <1>1 DEF ManifestOK, R!Recorded
  <2>1. \/ manifest'[p] = manifest[p] \/ manifest'[p] = R!NotIndexed
        \/ manifest'[p] = [mtime |-> mtime[p], chunks |-> R!Chunks(p)]
    BY DEF R!Recorded
  <2>2. mtime[p] \in Nat
    BY <1>1 DEF FilesOK
  <2>3. QED
    BY <1>1, <1>3, <1>4, <2>1, <2>2 DEF ManifestOK
<1>6. R!IndexIsComplete'
  <2> SUFFICES ASSUME NEW p \in R!Path, manifest'[p].mtime = mtime[p], file[p] # <<>>
               PROVE  R!Chunks(p) \subseteq index'
    <3>1. \A q \in R!Path : R!Chunks(q)' = R!Chunks(q) /\ (file[q] = <<>> => R!Chunks(q) = {})
      BY <1>1 DEF R!Chunks
    <3>2. QED
      BY <1>1, <3>1 DEF R!IndexIsComplete
  <2>1. CASE p \in R!Changed /\ index' = R!Synced
    BY <2>1 DEF R!Synced, R!Upserts
  <2>2. CASE p \in R!Changed /\ index' # R!Synced
    BY <2>2 DEF R!Changed
  <2>3. CASE p \notin R!Changed
    <3>1. manifest[p].mtime = mtime[p]
      BY <2>3 DEF R!Changed
    <3>2. R!Chunks(p) \subseteq index \ R!Outdated
      BY <3>1, DeletesSpareOthers
    <3>3. QED
      BY <3>2 DEF R!Synced
  <2>4. QED
    BY <2>1, <2>2, <2>3
<1>7. QED
  BY <1>2, <1>5, <1>6

\* What MEMORY.md has stays there, and what is marked no more is not asked for.
LEMMA PromotionStays ==
    ASSUME RecallInv, file'[R!Memory] = file[R!Memory],
           \A k \in R!Key : recall'[k].promoted => recall[k].promoted
    PROVE  R!PromotionIsExact'
  BY DEF RecallInv, R!PromotionIsExact, R!InMemory

\* An order of the blocks names each of them once.
LEMMA OrdersAreInjective ==
    ASSUME NEW B, IsFiniteSet(B), NEW o \in [1 .. Cardinality(B) -> B],
           \A k \in B : \E i \in DOMAIN o : o[i] = k
    PROVE  /\ Cardinality(B) \in Nat
           /\ \A i, j \in 1 .. Cardinality(B) : o[i] = o[j] => i = j
<1> DEFINE n == Cardinality(B)
<1>1. n \in Nat
  BY FS_CardinalityType
<1>2. IsFiniteSet(1 .. n) /\ Cardinality(1 .. n) = n
  BY <1>1, FS_Interval
<1>3. o \in Surjection(1 .. n, B)
  BY DEF Surjection
<1> HIDE DEF n
<1>4. o \in Injection(1 .. n, B)
  BY <1>2, <1>3, FS_Surjection DEF n
<1>5. QED
  BY <1>1, <1>4 DEF Injection, IsInjective, n

\* The sets of the instance are counted as those of this module are.
LEMMA SameSets ==
    ASSUME NEW Z
    PROVE  /\ R!IsFiniteSet(Z) <=> IsFiniteSet(Z)
           /\ R!Cardinality(Z) = Cardinality(Z)
<1>1. R!IsFiniteSet(Z) <=> IsFiniteSet(Z)
  BY DEF R!IsFiniteSet, IsFiniteSet
<1>2. R!Cardinality(Z) = Cardinality(Z)
  BY <1>1 DEF R!Cardinality, Cardinality
<1>3. QED
  BY <1>1, <1>2

LEMMA BlocksAreWritten ==
    ASSUME R!RecallAssumption, RecallInv, NEW chosen \in R!Choices, R!Written(chosen),
           UNCHANGED R!indexing
    PROVE  /\ FilesOK' /\ ManifestOK' /\ R!IndexIsComplete'
           /\ \A i, j \in DOMAIN file'[R!Memory] : file'[R!Memory][i] = file'[R!Memory][j] => i = j
           /\ \A k \in R!Key : R!InMemory(k) \/ k \in chosen => R!InMemory(k)'
<1> DEFINE B == R!Blocks(chosen)
           old == file[R!Memory]
<1>1. /\ FilesOK /\ ManifestOK /\ R!IndexIsComplete /\ R!Memory \in R!Path
      /\ old \in Seq(R!Key)
  BY DEF RecallInv, FilesOK, R!Path
<1>2. \A i, j \in DOMAIN old : old[i] = old[j] => i = j
  BY DEF RecallInv, R!PromotionIsExact
<1>3. CASE B = {}
  <2>1. file' = file /\ mtime' = mtime /\ index' = index /\ manifest' = manifest
    BY <1>3 DEF R!Written, R!files, R!indexing
  <2>2. FilesOK' /\ ManifestOK' /\ R!IndexIsComplete'
    BY <1>1, <2>1 DEF FilesOK, ManifestOK, R!IndexIsComplete, R!Chunks
  <2>3. \A k \in chosen : R!InMemory(k)
    BY <1>3 DEF R!Blocks
  <2>4. \A k : R!InMemory(k)' <=> R!InMemory(k)
    BY <2>1 DEF R!InMemory
  <2>5. QED
    BY <1>2, <2>1, <2>2, <2>3, <2>4
<1>4. CASE B # {}
  <2>1. PICK text \in R!Promoted(B) :
           file' = [file EXCEPT ![R!Memory] = text] /\ mtime' = [mtime EXCEPT ![R!Memory] = @ + 1]
    BY <1>4 DEF R!Written
  <2>2. PICK o \in [1 .. Cardinality(B) -> B] :
           text = old \o o /\ \A k \in B : \E i \in DOMAIN o : o[i] = k
    BY <2>1, SameSets DEF R!Promoted
  <2>3. B \subseteq R!Key /\ IsFiniteSet(B)
    <3>1. IsFiniteSet(R!Key)
      <4>1. IsFiniteSet(R!Line)
        <5>1. 1 \in Int /\ MaxLines \in Int
          BY DEF R!RecallAssumption
        <5>2. QED
          BY <5>1, FS_Interval DEF R!Line
      <4>2. QED
        BY <4>1, FS_Product, SameSets DEF R!Key, R!RecallAssumption
    <3>2. B \subseteq R!Key
      BY DEF R!Blocks, R!Choices, R!Candidates
    <3>3. QED
      BY <3>1, <3>2, FS_Subset
  <2>4. /\ Cardinality(B) \in Nat
        /\ \A i, j \in 1 .. Cardinality(B) : o[i] = o[j] => i = j
    BY <2>2, <2>3, OrdersAreInjective
  <2>5. o \in Seq(R!Key) /\ Len(o) = Cardinality(B)
    <3> HIDE DEF B
    <3>1. o \in Seq(B) /\ Len(o) = Cardinality(B)
      BY <2>4
    <3>2. QED
      BY <2>3, <3>1, SeqMonotonic
  <2>6. /\ text \in Seq(R!Key) /\ Len(text) = Len(old) + Len(o)
        /\ \A i \in 1 .. Len(old) + Len(o) :
              text[i] = IF i <= Len(old) THEN old[i] ELSE o[i - Len(old)]
    <3> HIDE DEF old, B
    <3>1. QED
      BY <1>1, <2>2, <2>5, ConcatProperties
  <2>7. text \in Seq(Note \cup R!Key) /\ file'[R!Memory] = text
    BY <1>1, <2>1, <2>6, SeqMonotonic DEF FilesOK
  <2>8. FilesOK' /\ ManifestOK' /\ R!IndexIsComplete'
    BY <1>1, <2>1, <2>6, <2>7, FileChanges
  <2>9. /\ Len(old) \in Nat /\ DOMAIN old = 1 .. Len(old)
        /\ Len(o) \in Nat /\ DOMAIN o = 1 .. Len(o)
        /\ DOMAIN text = 1 .. Len(old) + Len(o)
    BY <1>1, <2>5, <2>6, LenProperties
  <2>10. \A i \in 1 .. Len(old), j \in 1 .. Len(o) : old[i] # o[j]
    <3> SUFFICES ASSUME NEW i \in 1 .. Len(old), NEW j \in 1 .. Len(o), old[i] = o[j]
                 PROVE  FALSE
      OBVIOUS
    <3>1. o[j] \in B
      BY <2>2, <2>5
    <3>2. ~R!InMemory(o[j])
      BY <3>1 DEF R!Blocks
    <3>3. QED
      BY <2>9, <3>2 DEF R!InMemory
  <2>11. ASSUME NEW i \in DOMAIN text, NEW j \in DOMAIN text, text[i] = text[j] PROVE i = j
    <3> HIDE DEF old, B
    <3>1. CASE i <= Len(old) /\ j <= Len(old)
      BY <1>2, <2>6, <2>9, <2>11, <3>1
    <3>2. CASE i > Len(old) /\ j > Len(old)
      <4>1. /\ i - Len(old) \in 1 .. Len(o) /\ j - Len(old) \in 1 .. Len(o)
            /\ o[i - Len(old)] = o[j - Len(old)]
        BY <2>6, <2>9, <2>11, <3>2
      <4>2. i - Len(old) = j - Len(old)
        BY <2>4, <2>5, <4>1
      <4>3. QED
        BY <2>9, <4>2
    <3>3. CASE i <= Len(old) /\ j > Len(old)
      BY <2>6, <2>9, <2>10, <2>11, <3>3
    <3>4. CASE i > Len(old) /\ j <= Len(old)
      BY <2>6, <2>9, <2>10, <2>11, <3>4
    <3>5. QED
      BY <2>9, <3>1, <3>2, <3>3, <3>4
  <2>12. ASSUME NEW k \in R!Key, R!InMemory(k) PROVE R!InMemory(k)'
    <3>1. PICK i \in DOMAIN old : old[i] = k \/ <<k, old[i]>> \in Longer
      BY <2>12 DEF R!InMemory
    <3>2. i \in DOMAIN text /\ text[i] = old[i]
      BY <2>6, <2>9, <3>1
    <3>3. QED
      BY <2>7, <3>1, <3>2 DEF R!InMemory
  <2>13. ASSUME NEW k \in chosen, ~R!InMemory(k) PROVE R!InMemory(k)'
    <3>1. k \in B
      BY <2>13 DEF R!Blocks
    <3>2. PICK i \in 1 .. Len(o) : o[i] = k
      BY <2>2, <2>9, <3>1
    <3>3. /\ Len(old) + i \in 1 .. Len(old) + Len(o)
          /\ ~(Len(old) + i <= Len(old)) /\ (Len(old) + i) - Len(old) = i
      <4> HIDE DEF old
      <4>1. QED
        BY <2>9
    <3>4. Len(old) + i \in DOMAIN text /\ text[Len(old) + i] = k
      <4> HIDE DEF old
      <4>1. text[Len(old) + i] = o[(Len(old) + i) - Len(old)]
        BY <2>6, <3>3
      <4>2. QED
        BY <2>9, <3>2, <3>3, <4>1
    <3>5. QED
      BY <2>7, <3>4 DEF R!InMemory
  <2>14. QED
    BY <2>7, <2>8, <2>11, <2>12, <2>13
<1>5. QED
  BY <1>3, <1>4

LEMMA SweepsKeep ==
    ASSUME R!RecallAssumption, RecallInv, NEW s, NEW after, R!Sweeps(s, after), UNCHANGED R!indexing
    PROVE  RecallInv'
<1>1. PICK chosen \in R!Choices : R!Written(chosen) /\ recall' = R!Marked(chosen)
  BY DEF R!Sweeps
<1>2. /\ FilesOK' /\ ManifestOK' /\ R!IndexIsComplete'
      /\ \A i, j \in DOMAIN file'[R!Memory] : file'[R!Memory][i] = file'[R!Memory][j] => i = j
      /\ \A k \in R!Key : R!InMemory(k) \/ k \in chosen => R!InMemory(k)'
  BY <1>1, BlocksAreWritten
<1>3. recall \in [R!Key -> Recalled] /\ \A k \in R!Key : recall[k].promoted => R!InMemory(k)
  BY DEF RecallInv, R!PromotionIsExact
<1>4. \A k \in R!Key : recall'[k] = IF k \in chosen THEN [recall[k] EXCEPT !.promoted = TRUE]
                                  ELSE recall[k]
  BY <1>1 DEF R!Marked
<1>5. recall' \in [R!Key -> Recalled]
  <2>1. \A k \in R!Key : [recall[k] EXCEPT !.promoted = TRUE] \in Recalled
    BY <1>3 DEF Recalled
  <2>2. QED
    BY <1>1, <1>3, <2>1 DEF R!Marked
<1>6. \A k \in R!Key : recall'[k].promoted => R!InMemory(k)'
  BY <1>2, <1>3, <1>4
<1>7. QED
  BY <1>2, <1>5, <1>6 DEF RecallInv, R!PromotionIsExact

\* A step that leaves the files and the counts alone.
LEMMA SleeperKeeps ==
    ASSUME R!RecallAssumption, RecallInv, UNCHANGED <<file, mtime, index, manifest, recall>>
    PROVE  RecallInv'
  BY DEF RecallInv, FilesOK, ManifestOK, R!IndexIsComplete, R!PromotionIsExact, R!Chunks, R!InMemory

LEMMA SchedulerKeeps ==
    ASSUME R!RecallAssumption, RecallInv, NEW s \in R!Sweeper, R!SweepStep(s)
    PROVE  RecallInv'
<1>1. CASE R!Starts(s) \/ R!Wakes(s)
  <2>1. CASE R!Scheduled(s)
    <3>1. UNCHANGED R!indexing
      BY <2>1 DEF R!Scheduled
    <3>2. CASE R!Sweeps(s, "sleep")
      BY <3>1, <3>2, SweepsKeep
    <3>3. CASE ~R!Sweeps(s, "sleep")
      <4>1. UNCHANGED <<file, mtime, index, manifest, recall>>
        BY <2>1, <3>1, <3>3 DEF R!Scheduled, R!Waits, R!indexing
      <4>2. QED
        BY <4>1, SleeperKeeps
    <3>4. QED
      BY <3>2, <3>3
  <2>2. CASE ~R!Scheduled(s)
    <3>1. UNCHANGED <<file, mtime, index, manifest, recall>>
      BY <1>1, <2>2 DEF R!Starts, R!Wakes, R!files, R!indexing
    <3>2. QED
      BY <3>1, SleeperKeeps
  <2>3. QED
    BY <2>1, <2>2
<1>2. CASE R!Woken(s)
  BY <1>2, SweepsKeep DEF R!Woken
<1>3. CASE R!DiaryEnds(s)
  <2>1. UNCHANGED <<file, mtime, index, manifest, recall>>
    BY <1>3 DEF R!DiaryEnds, R!files, R!indexing
  <2>2. QED
    BY <2>1, SleeperKeeps
<1>4. QED
  BY <1>1, <1>2, <1>3 DEF R!SweepStep

LEMMA SearchKeeps ==
    ASSUME R!RecallAssumption, RecallInv, R!Search
    PROVE  RecallInv'
<1>1. FilesOK' /\ ManifestOK' /\ R!IndexIsComplete' /\ file' = file
  BY SyncKeeps DEF R!Search, R!files
<1>2. recall \in [R!Key -> Recalled]
  BY DEF RecallInv
<1>3. \/ recall' = recall
      \/ \E k \in R!Key : recall' = [recall EXCEPT ![k].count = @ + 1]
  BY DEF R!Search, R!Tracked
<1>4. recall' \in [R!Key -> Recalled] /\ \A k \in R!Key : recall'[k].promoted = recall[k].promoted
  <2>1. CASE recall' = recall
    BY <1>2, <2>1
  <2>2. ASSUME NEW k \in R!Key, recall' = [recall EXCEPT ![k].count = @ + 1]
        PROVE  recall' \in [R!Key -> Recalled] /\ \A l \in R!Key : recall'[l].promoted = recall[l].promoted
    <3>1. /\ [recall[k] EXCEPT !.count = @ + 1] \in Recalled
          /\ [recall[k] EXCEPT !.count = @ + 1].promoted = recall[k].promoted
      BY <1>2 DEF Recalled
    <3>2. \A l \in R!Key : recall'[l] = IF l = k THEN [recall[k] EXCEPT !.count = @ + 1] ELSE recall[l]
      BY <1>2, <2>2
    <3>3. QED
      BY <1>2, <2>2, <3>1, <3>2
  <2>3. QED
    BY <1>3, <2>1, <2>2
<1>5. R!PromotionIsExact'
  BY <1>1, <1>4, PromotionStays
<1>6. QED
  BY <1>1, <1>4, <1>5 DEF RecallInv

LEMMA RecallStep ==
    ASSUME R!RecallAssumption, RecallInv, R!Next
    PROVE  RecallInv'
<1>1. CASE \E p \in Daily : R!Edit(p)
  <2>1. PICK p \in Daily : R!Edit(p)
    BY <1>1
  <2>2. p \in R!Path /\ R!Memory \in R!Path /\ p # R!Memory
    BY DEF R!Path, R!RecallAssumption
  <2>3. file \in [R!Path -> Seq(Note \cup R!Key)] /\ file[p] \in Seq(Note \cup R!Key)
    BY <2>2 DEF RecallInv, FilesOK
  <2>4. PICK text \in Seq(Note \cup R!Key) : file' = [file EXCEPT ![p] = text]
    <3>1. CASE \E n \in Note : file' = [file EXCEPT ![p] = Append(@, n)]
      <4>1. \A n \in Note : Append(file[p], n) \in Seq(Note \cup R!Key)
        BY <2>3
      <4>2. QED
        BY <2>3, <3>1, <4>1
    <3>2. CASE \E n \in Note : file' = [file EXCEPT ![p] = <<n>> \o @]
      <4>1. \A n \in Note : <<n>> \o file[p] \in Seq(Note \cup R!Key)
        BY <2>3
      <4>2. QED
        BY <2>3, <3>2, <4>1
    <3>3. CASE file[p] # <<>> /\ file' = [file EXCEPT ![p] = Tail(@)]
      <4>1. Tail(file[p]) \in Seq(Note \cup R!Key)
        BY <2>3, <3>3, HeadTailProperties
      <4>2. QED
        BY <2>3, <3>3, <4>1
    <3>4. QED
      BY <2>1, <3>1, <3>2, <3>3 DEF R!Edit
  <2>5. mtime' = [mtime EXCEPT ![p] = @ + 1] /\ recall' = recall /\ UNCHANGED R!indexing
    BY <2>1 DEF R!Edit
  <2>6. file'[R!Memory] = file[R!Memory] /\ file[R!Memory] \in Seq(R!Key)
    BY <2>2, <2>3, <2>4 DEF RecallInv, FilesOK
  <2>7. FilesOK' /\ ManifestOK' /\ R!IndexIsComplete'
    BY <2>2, <2>4, <2>5, <2>6, FileChanges
  <2>8. R!PromotionIsExact'
    BY <2>5, <2>6, PromotionStays
  <2>9. QED
    BY <2>5, <2>7, <2>8 DEF RecallInv
<1>2. CASE R!Search
  BY <1>2, SearchKeeps
<1>3. CASE R!SearchFails \/ R!SearchDies
  <2>1. FilesOK' /\ ManifestOK' /\ R!IndexIsComplete' /\ file' = file /\ recall' = recall
    BY <1>3, SyncKeeps DEF R!SearchFails, R!SearchDies, R!files
  <2>2. R!PromotionIsExact'
    BY <2>1, PromotionStays
  <2>3. QED
    BY <2>1, <2>2 DEF RecallInv
<1>4. CASE R!TrackDies
  <2>1. file' = file /\ mtime' = mtime /\ index' = index /\ manifest' = manifest
        /\ recall' = [k \in R!Key |-> R!NoRecall]
    BY <1>4 DEF R!TrackDies, R!files, R!indexing
  <2>2. recall' \in [R!Key -> Recalled] /\ \A k \in R!Key : ~recall'[k].promoted
    BY <2>1 DEF R!NoRecall, Recalled
  <2>3. R!PromotionIsExact'
    BY <2>1, <2>2, PromotionStays
  <2>4. QED
    BY <2>1, <2>2, <2>3 DEF RecallInv, FilesOK, ManifestOK, R!IndexIsComplete, R!Chunks
<1>5. CASE \E s \in R!Sweeper : R!SweepStep(s)
  BY <1>5, SchedulerKeeps
<1>6. CASE R!SlotPasses \/ \E s \in R!Runtime : R!Update(s) \/ R!Closed(s)
  <2>1. UNCHANGED <<file, mtime, index, manifest, recall>>
    BY <1>6 DEF R!SlotPasses, R!Update, R!Closed, R!files, R!indexing
  <2>2. QED
    BY <2>1, SleeperKeeps
<1>7. CASE R!DreamingRun
  <2>1. CASE R!Sweeps(R!Manual, "idle")
    BY <1>7, <2>1, SweepsKeep DEF R!DreamingRun
  <2>2. CASE ~R!Sweeps(R!Manual, "idle")
    <3>1. UNCHANGED <<file, mtime, index, manifest, recall>>
      BY <1>7, <2>2 DEF R!DreamingRun, R!Waits, R!indexing
    <3>2. QED
      BY <3>1, SleeperKeeps
  <2>3. QED
    BY <2>1, <2>2
<1>8. CASE R!SweepDies
  <2>1. PICK chosen \in R!Choices : R!Written(chosen)
    BY <1>8 DEF R!SweepDies
  <2>2. recall' = recall /\ UNCHANGED R!indexing
    BY <1>8 DEF R!SweepDies
  <2>3. /\ FilesOK' /\ ManifestOK' /\ R!IndexIsComplete'
        /\ \A i, j \in DOMAIN file'[R!Memory] : file'[R!Memory][i] = file'[R!Memory][j] => i = j
        /\ \A k \in R!Key : R!InMemory(k) \/ k \in chosen => R!InMemory(k)'
    BY <2>1, <2>2, BlocksAreWritten
  <2>4. QED
    BY <2>2, <2>3 DEF RecallInv, R!PromotionIsExact
<1>9. QED
  BY <1>1, <1>2, <1>3, <1>4, <1>5, <1>6, <1>7, <1>8 DEF R!Next

--------------------------------------------------------------------------------
(* Extraction: every snapshot of a session is a summary, or a turn, and then        *)
(* consecutive turns; so a cursor that is found in a later one at the message it was *)
(* taken from stands for the same messages.  n is the number of turns so far.        *)

Message == [turn : Int, start : Start \cup {"summary"}]
Cursor == [place : Nat, turn : Int, start : Start \cup {"summary", "none"}]
Extractor == [cursor : Cursor, turns : Nat, inFlight : Nat, pending : Seq(Message)]
Reading ==
    [of : Nat, messages : Seq(Message), pc : {"ready", "reading", "ended"}, window : SUBSET Int]

Talk(s, n) ==
    /\ s \in Seq(Message) /\ s # <<>>
    /\ \A i \in 1 .. Len(s) : s[i].turn <= n
    /\ \E d \in Int : /\ s[1].turn < 0 \/ s[1].turn = 1 + d
                      /\ \A i \in 2 .. Len(s) : s[i].turn = i + d

\* What is compacted stays so, while the last message of m is there.
Before(m, s) ==
    (\E i \in 1 .. Len(s) : s[i].turn = m[Len(m)].turn) /\ m[1].turn < 0 => s[1].turn < 0

HistoryOK(h, n) ==
    h # <<>> => Talk(h, n) /\ (h[Len(h)].turn = n \/ (Len(h) = 1 /\ h[1].turn < 0))

Seen(m, cov) == m.turn < 0 \/ m.turn \in cov
Covers(s, c, cov) == X!Mistaken(s, c) \/ \A i \in 1 .. X!After(s, c) : Seen(s[i], cov)

\* What lies before a cursor, but for its first message, was seen.
CursorOK(c, cov, n) ==
    /\ c \in Cursor /\ c.turn <= n
    /\ \E d \in Int : /\ c.place >= 2 => c.turn = c.place + d
                      /\ \A i \in 2 .. c.place : i + d < 0 \/ i + d \in cov

RunsOK(rs, d, h, n) ==
    /\ rs \in Seq(Reading)
    /\ \A r \in 1 .. Len(rs) :
          rs[r].of \in 1 .. d /\ Talk(rs[r].messages, n) /\ Before(rs[r].messages, h)

Busy(rs, g) == {r \in 1 .. Len(rs) : rs[r].of = g /\ rs[r].pc # "ended"}

\* The state x at the place g has one extraction, and what it stashes is later than that.
Sound(g, x, rs, h, n) ==
    /\ x \in Extractor
    /\ Busy(rs, g) = {x.inFlight} \ {0}
    /\ x.pending # <<>> =>
          /\ x.inFlight # 0
          /\ Talk(x.pending, n) /\ Before(x.pending, h)
          /\ Before(rs[x.inFlight].messages, x.pending)

\* Nothing that its cursor stands for was skipped, in any snapshot it may still be looked up in.
Sees(g, x, rs, h, cov, n) ==
    /\ CursorOK(x.cursor, cov, n)
    /\ Covers(h, x.cursor, cov)
    /\ x.pending # <<>> => Covers(x.pending, x.cursor, cov)
    /\ \A r \in 1 .. Len(rs) : rs[r].of = g =>
          /\ rs[r].pc = "ready" => Covers(rs[r].messages, x.cursor, cov)
          /\ rs[r].pc = "reading" =>
                \A i \in 1 .. Len(rs[r].messages) :
                    Seen(rs[r].messages[i], cov) \/ rs[r].messages[i].turn \in rs[r].window

Said == MaxTurns - budget.turns

\* The turns that are accounted for.
Known == covered \cup mistaken

BudgetOK ==
    /\ X!ExtractorAssumption
    /\ budget \in [turns : 0 .. MaxTurns, compactions : 0 .. MaxCompactions,
                   resets : 0 .. MaxResets, ends : Int, failed : BOOLEAN]

ExtractorInv ==
    /\ BudgetOK
    /\ history \in Seq(Message) /\ HistoryOK(history, Said)
    /\ state \in Seq(Extractor) /\ current \in 0 .. Len(state)
    /\ RunsOK(run, Len(state), history, Said)
    /\ \A g \in 1 .. Len(state) : Sound(g, state[g], run, history, Said)
    /\ current # 0 => Sees(current, state[current], run, history, Known, Said)

LEMMA AfterIsPlace ==
    ASSUME NEW s \in Seq(Message), NEW c \in Cursor
    PROVE  /\ X!After(s, c) \in 0 .. Len(s)
           /\ X!After(s, c) # 0 =>
                 X!After(s, c) = c.place /\ c.place \in 1 .. Len(s) /\ s[c.place].start = c.start
<1>1. DOMAIN s = 1 .. Len(s) /\ Len(s) \in Nat
  BY LenProperties
<1>2. QED
  BY <1>1 DEF X!After

\* A snapshot, by its parts.
LEMMA TalkHas ==
    ASSUME NEW n \in Nat, NEW s, Talk(s, n)
    PROVE  /\ s \in Seq(Message) /\ Len(s) \in Nat \ {0} /\ DOMAIN s = 1 .. Len(s)
           /\ \A i \in 1 .. Len(s) : s[i] \in Message /\ s[i].turn \in Int /\ s[i].turn <= n
<1>1. s \in Seq(Message) /\ s # <<>> /\ \A i \in 1 .. Len(s) : s[i].turn <= n
  BY DEF Talk
<1>2. Len(s) \in Nat \ {0} /\ DOMAIN s = 1 .. Len(s)
  BY <1>1, EmptySeq, LenProperties
<1>3. \A i \in 1 .. Len(s) : s[i] \in Message
  BY <1>1, ElementOfSeq
<1>4. \A i \in 1 .. Len(s) : s[i].turn \in Int
  BY <1>3 DEF Message
<1>5. QED
  BY <1>1, <1>2, <1>3, <1>4

LEMMA MoreIsSeen ==
    ASSUME NEW cov, NEW more, cov \subseteq more
    PROVE  /\ \A m : Seen(m, cov) => Seen(m, more)
           /\ \A s, c : Covers(s, c, cov) => Covers(s, c, more)
           /\ \A c, n : CursorOK(c, cov, n) => CursorOK(c, more, n)
<1>1. \A m : Seen(m, cov) => Seen(m, more)
  BY DEF Seen
<1>2. \A c, n : CursorOK(c, cov, n) => CursorOK(c, more, n)
  BY DEF CursorOK
<1>3. QED
  BY <1>1, <1>2 DEF Covers

\* A turn is appended.
LEMMA HistoryGrows ==
    ASSUME NEW n \in Nat, NEW h, HistoryOK(h, n), h \in Seq(Message), NEW start \in Start
    PROVE  LET m == X!Answer(n + 1, start)
               g == Append(h, m)
           IN  /\ m \in Message /\ m.turn = n + 1
               /\ g \in Seq(Message) /\ Talk(g, n + 1) /\ HistoryOK(g, n + 1)
               /\ X!LastOf(g).turn = n + 1
               /\ \A s : Talk(s, n) /\ Before(s, h) => Before(s, g)
<1> DEFINE m == X!Answer(n + 1, start)
           g == Append(h, m)
<1>0. m \in Message /\ m.turn = n + 1
  BY DEF X!Answer, Message
<1> HIDE DEF m
<1>1. /\ g \in Seq(Message) /\ Len(g) = Len(h) + 1 /\ Len(h) \in Nat
      /\ g[Len(h) + 1] = m /\ g # <<>>
      /\ \A i \in 1 .. Len(h) : g[i] = h[i]
  <2>1. Len(h) \in Nat
    OBVIOUS
  <2>2. /\ g \in Seq(Message) /\ Len(g) = Len(h) + 1
        /\ \A i \in 1 .. Len(h) : g[i] = h[i]
        /\ g[Len(h) + 1] = m
    BY <1>0, <2>1, AppendProperties
  <2> HIDE DEF g
  <2>3. g # <<>>
    BY <2>1, <2>2
  <2>4. QED
    BY <2>1, <2>2, <2>3
<1> HIDE DEF g
<1>2. h # <<>> => Talk(h, n) /\ (h[Len(h)].turn = n \/ (Len(h) = 1 /\ h[1].turn < 0))
  BY DEF HistoryOK
<1>3. h # <<>> => /\ Len(h) >= 1 /\ g[1] = h[1]
                  /\ \A i \in 1 .. Len(h) : h[i].turn \in Int /\ h[i].turn <= n
  BY <1>1, <1>2, TalkHas
<1>4. h = <<>> => Len(h) = 0
  OBVIOUS
<1>5. Talk(g, n + 1)
  <2>1. \A i \in 1 .. Len(g) : g[i].turn <= n + 1
    <3> SUFFICES ASSUME NEW i \in 1 .. Len(g) PROVE g[i].turn <= n + 1
      OBVIOUS
    <3>1. CASE i = Len(h) + 1
      BY <1>0, <1>1, <3>1
    <3>2. CASE i # Len(h) + 1
      <4>1. i \in 1 .. Len(h) /\ h # <<>>
        BY <1>1, <1>4, <3>2
      <4>2. g[i] = h[i] /\ h[i].turn <= n /\ h[i].turn \in Int
        BY <1>1, <1>3, <4>1
      <4>3. QED
        BY <4>2
    <3>3. QED
      BY <3>1, <3>2
  <2>2. \E d \in Int : /\ g[1].turn < 0 \/ g[1].turn = 1 + d
                       /\ \A i \in 2 .. Len(g) : g[i].turn = i + d
    <3>1. CASE Len(h) >= 2
      <4>1. h # <<>> /\ h[Len(h)].turn = n /\ Talk(h, n)
        BY <1>2, <1>4, <3>1
      <4>2. PICK d \in Int : /\ h[1].turn < 0 \/ h[1].turn = 1 + d
                             /\ \A i \in 2 .. Len(h) : h[i].turn = i + d
        BY <4>1 DEF Talk
      <4>3. n = Len(h) + d
        BY SMTT(20), <1>1, <3>1, <4>1, <4>2
      <4>4. ASSUME NEW i \in 2 .. Len(g) PROVE g[i].turn = i + d
        <5>1. CASE i = Len(h) + 1
          BY <1>0, <1>1, <4>3, <5>1
        <5>2. CASE i # Len(h) + 1
          BY SMTT(20), <1>1, <4>2, <5>2
        <5>3. QED
          BY <5>1, <5>2
      <4>5. QED
        BY <1>3, <4>1, <4>2, <4>4
    <3>2. CASE Len(h) = 1
      <4>1. h # <<>> /\ g[1] = h[1] /\ (h[1].turn = n \/ h[1].turn < 0)
        BY <1>2, <1>3, <1>4, <3>2
      <4>2. \A i \in 2 .. Len(g) : i = 2 /\ g[i].turn = i + (n - 1)
        BY <1>0, <1>1, <3>2
      <4>3. n - 1 \in Int /\ n = 1 + (n - 1)
        OBVIOUS
      <4>4. QED
        BY <4>1, <4>2, <4>3
    <3>3. CASE Len(h) = 0
      <4>1. g[1].turn = 1 + n /\ \A i \in 2 .. Len(g) : FALSE
        BY <1>0, <1>1, <3>3
      <4>2. QED
        BY <4>1
    <3>4. Len(h) >= 2 \/ Len(h) = 1 \/ Len(h) = 0
      <4>1. \A l \in Nat : l >= 2 \/ l = 1 \/ l = 0
        OBVIOUS
      <4>2. QED
        BY <1>1, <4>1
    <3>5. QED
      BY Zenon, <3>1, <3>2, <3>3, <3>4
  <2>3. QED
    BY <1>1, <2>1, <2>2 DEF Talk
<1>6. HistoryOK(g, n + 1)
  BY <1>0, <1>1, <1>5 DEF HistoryOK
<1>7. X!LastOf(g).turn = n + 1
  BY <1>0, <1>1 DEF X!LastOf
<1>8. ASSUME NEW s, Talk(s, n), Before(s, h) PROVE Before(s, g)
  <2> SUFFICES ASSUME NEW i \in 1 .. Len(g), g[i].turn = s[Len(s)].turn, s[1].turn < 0
               PROVE  g[1].turn < 0
    BY DEF Before
  <2>1. s[Len(s)].turn <= n /\ s[Len(s)].turn \in Int
    BY <1>8, TalkHas
  <2>2. i # Len(h) + 1
    BY <1>0, <1>1, <2>1
  <2>3. i \in 1 .. Len(h) /\ h # <<>> /\ g[i] = h[i]
    BY <1>1, <1>4, <2>2
  <2>4. h[1].turn < 0
    BY <1>8, <2>3 DEF Before
  <2>5. QED
    BY <1>3, <2>3, <2>4
<1>9. QED
  BY <1>0, <1>1, <1>5, <1>6, <1>7, <1>8 DEF g, m

LEMMA TalkStays ==
    ASSUME NEW n \in Nat, NEW s, Talk(s, n)
    PROVE  Talk(s, n + 1)
<1>1. \A i \in 1 .. Len(s) : s[i].turn <= n + 1
  <2> SUFFICES ASSUME NEW i \in 1 .. Len(s) PROVE s[i].turn <= n + 1
    OBVIOUS
  <2>1. s[i].turn \in Int /\ s[i].turn <= n
    BY TalkHas
  <2>2. QED
    BY <2>1
<1>2. QED
  BY <1>1 DEF Talk

\* At a turn that is said after it a cursor is only found by mistake.
LEMMA CursorStays ==
    ASSUME NEW n \in Nat, NEW h \in Seq(Message), NEW c, NEW cov,
           CursorOK(c, cov, n), Covers(h, c, cov), NEW m \in Message, m.turn = n + 1
    PROVE  CursorOK(c, cov, n + 1) /\ Covers(Append(h, m), c, cov)
<1> DEFINE g == Append(h, m)
<1>1. /\ g \in Seq(Message) /\ Len(g) = Len(h) + 1 /\ Len(h) \in Nat
      /\ g[Len(h) + 1] = m
      /\ \A i \in 1 .. Len(h) : g[i] = h[i]
  BY AppendProperties, LenProperties
<1> HIDE DEF g
<1>2. c \in Cursor /\ c.turn \in Int /\ c.place \in Nat /\ c.turn <= n
  BY DEF CursorOK, Cursor
<1>3. CursorOK(c, cov, n + 1)
  <2>1. c.turn <= n + 1
    BY <1>2
  <2>2. QED
    BY <2>1 DEF CursorOK
<1>4. Covers(g, c, cov)
  <2>1. DOMAIN g = 1 .. Len(h) + 1 /\ DOMAIN h = 1 .. Len(h)
    BY <1>1, LenProperties
  <2>2. CASE c.place = Len(h) + 1
    <3>1. X!After(g, c) # 0 => X!Mistaken(g, c)
      BY <1>1, <1>2, <2>2 DEF X!Mistaken
    <3>2. X!After(g, c) = 0 => Covers(g, c, cov)
      BY DEF Covers
    <3>3. QED
      BY <3>1, <3>2 DEF Covers
  <2>3. CASE c.place # Len(h) + 1
    <3>1. X!After(g, c) = X!After(h, c)
      BY <1>1, <1>2, <2>1, <2>3 DEF X!After
    <3>2. X!After(h, c) \in 0 .. Len(h)
          /\ (X!After(h, c) # 0 => c.place \in 1 .. Len(h))
      BY <1>2, AfterIsPlace
    <3>3. CASE X!Mistaken(h, c)
      BY <1>1, <3>1, <3>2, <3>3 DEF Covers, X!Mistaken
    <3>4. CASE \A i \in 1 .. X!After(h, c) : Seen(h[i], cov)
      <4>1. \A i \in 1 .. X!After(h, c) : g[i] = h[i]
        BY <1>1, <3>2
      <4>2. QED
        BY <3>1, <3>4, <4>1 DEF Covers
    <3>5. QED
      BY <3>3, <3>4 DEF Covers
  <2>4. QED
    BY <2>2, <2>3
<1>5. QED
  BY <1>3, <1>4 DEF g

\* In an earlier snapshot the cursor of a new turn is only found by mistake.
LEMMA NewCursorNotFound ==
    ASSUME NEW n \in Nat, NEW s, Talk(s, n), NEW c \in Cursor, c.turn = n + 1, NEW cov
    PROVE  Covers(s, c, cov)
<1>1. \A i \in 1 .. Len(s) : s[i].turn \in Int /\ s[i].turn <= n
  BY TalkHas
<1>2. X!After(s, c) # 0 => c.place \in 1 .. Len(s)
  BY AfterIsPlace, TalkHas
<1>3. X!After(s, c) # 0 => X!Mistaken(s, c)
  BY <1>1, <1>2 DEF X!Mistaken
<1>4. QED
  BY <1>3 DEF Covers

\* A cursor at the end of what was all seen stands for the same in every later snapshot.
LEMMA LastIsSeen ==
    ASSUME NEW n \in Nat, NEW m, Talk(m, n), NEW cov,
           \A i \in 1 .. Len(m) : Seen(m[i], cov)
    PROVE  /\ CursorOK(X!LastOf(m), cov, n)
           /\ \A s : Talk(s, n) /\ Before(m, s) => Covers(s, X!LastOf(m), cov)
<1> DEFINE L == Len(m)
           c == X!LastOf(m)
<1>1. L \in Nat \ {0} /\ \A i \in 1 .. L : m[i] \in Message /\ m[i].turn \in Int /\ m[i].turn <= n
  BY TalkHas
<1>2. L \in 1 .. L /\ m[L] \in Message
  BY <1>1
<1>3. c.place = L /\ c.turn = m[L].turn /\ c \in Cursor
  BY <1>1, <1>2 DEF X!LastOf, Cursor, Message
<1>4. PICK d \in Int : /\ m[1].turn < 0 \/ m[1].turn = 1 + d
                       /\ \A i \in 2 .. L : m[i].turn = i + d
  BY DEF Talk
<1>5. \A i \in 1 .. L : m[i].turn < 0 \/ m[i].turn \in cov
  BY DEF Seen
<1> HIDE DEF c, L
<1>6. CursorOK(c, cov, n)
  <2>1. c.turn <= n /\ (c.place >= 2 => c.turn = c.place + d)
    BY <1>1, <1>2, <1>3, <1>4
  <2>2. \A i \in 2 .. c.place : i + d < 0 \/ i + d \in cov
    <3> SUFFICES ASSUME NEW i \in 2 .. L PROVE i + d < 0 \/ i + d \in cov
      BY <1>3
    <3>1. i \in 1 .. L /\ m[i].turn = i + d
      BY <1>1, <1>4
    <3>2. QED
      BY <1>5, <3>1
  <2>3. QED
    BY <1>3, <2>1, <2>2 DEF CursorOK
<1>7. ASSUME NEW s, Talk(s, n), Before(m, s), ~X!Mistaken(s, c), NEW i \in 1 .. X!After(s, c)
      PROVE  s[i].turn < 0 \/ s[i].turn \in cov
  <2>1. /\ s \in Seq(Message) /\ Len(s) \in Nat
        /\ \A j \in 1 .. Len(s) : s[j].turn \in Int
    BY <1>7, TalkHas
  <2>2. X!After(s, c) = L /\ L \in 1 .. Len(s) /\ i \in 1 .. L /\ i \in 1 .. Len(s)
    <3>1. X!After(s, c) \in 0 .. Len(s) /\ X!After(s, c) # 0
      BY <1>3, <1>7, <2>1, AfterIsPlace
    <3>2. X!After(s, c) = L
      BY <1>3, <2>1, <3>1, AfterIsPlace
    <3>3. QED
      BY <1>7, <2>1, <3>1, <3>2
  <2>3. s[L].turn = m[L].turn
    BY <1>3, <1>7, <2>2 DEF X!Mistaken
  <2>4. PICK e \in Int : /\ s[1].turn < 0 \/ s[1].turn = 1 + e
                         /\ \A j \in 2 .. Len(s) : s[j].turn = j + e
    BY <1>7 DEF Talk
  <2>5. CASE L = 1
    BY <1>5, <2>2, <2>3, <2>5
  <2>6. CASE L # 1
    <3>1. L \in 2 .. L /\ L \in 2 .. Len(s)
      BY <1>1, <2>1, <2>2, <2>6
    <3>2. L + d = L + e
      BY <1>4, <2>3, <2>4, <3>1
    <3>3. CASE i >= 2
      <4>1. i \in 2 .. L /\ i \in 2 .. Len(s)
        BY <2>1, <2>2, <3>3
      <4>2. s[i].turn = m[i].turn
        <5>1. d = e
          BY <1>1, <1>4, <2>4, <3>2
        <5>2. s[i].turn = i + e /\ m[i].turn = i + d
          BY <1>4, <2>4, <4>1
        <5>3. QED
          BY <5>1, <5>2
      <4>3. QED
        BY <1>5, <2>2, <4>2
    <3>4. CASE i = 1
      <4>1. m[1].turn < 0 => s[1].turn < 0
        BY <1>7, <2>2, <2>3 DEF Before, L
      <4>2. 1 \in 1 .. L
        BY <1>1
      <4>3. s[1].turn < 0 \/ s[1].turn = m[1].turn
        BY <1>1, <1>4, <2>4, <3>2, <4>1, <4>2
      <4>4. QED
        BY <1>5, <3>4, <4>2, <4>3
    <3>5. QED
      BY <2>2, <3>3, <3>4
  <2>7. QED
    BY <2>5, <2>6
<1>8. ASSUME NEW s, Talk(s, n), Before(m, s) PROVE Covers(s, c, cov)
  BY <1>7, <1>8 DEF Covers, Seen
<1>9. QED
  BY <1>6, <1>8 DEF c

\* The first messages are replaced by a summary.
LEMMA HistoryIsCompacted ==
    ASSUME NEW n \in Nat, NEW h, HistoryOK(h, n), h # <<>>, NEW k \in 1 .. Len(h),
           NEW summary \in Message, summary.turn < 0
    PROVE  LET g == <<summary>> \o SubSeq(h, k + 1, Len(h))
           IN  /\ Talk(g, n) /\ HistoryOK(g, n)
               /\ \A m : Before(m, g)
               /\ \A c, cov : CursorOK(c, cov, n) => Covers(g, c, cov)
<1> DEFINE t == SubSeq(h, k + 1, Len(h))
           g == <<summary>> \o t
<1>1. /\ h \in Seq(Message) /\ Len(h) \in Nat /\ Talk(h, n)
      /\ \A i \in 1 .. Len(h) : h[i] \in Message /\ h[i].turn \in Int /\ h[i].turn <= n
      /\ Len(h) >= 2 => h[Len(h)].turn = n
  <2>1. Talk(h, n) /\ (h[Len(h)].turn = n \/ Len(h) = 1)
    BY DEF HistoryOK
  <2>2. QED
    BY <2>1, TalkHas
<1>2. /\ t \in Seq(Message) /\ Len(t) = Len(h) - k
      /\ \A i \in 1 .. Len(h) - k : t[i] = h[k + i]
  <2>1. \A i \in k + 1 .. Len(h) : h[i] \in Message
    BY <1>1
  <2>2. /\ t \in Seq(Message) /\ Len(t) = IF k + 1 <= Len(h) THEN Len(h) - (k + 1) + 1 ELSE 0
        /\ \A i \in 1 .. Len(h) - (k + 1) + 1 : t[i] = h[(k + 1) + i - 1]
    BY <1>1, <2>1, SubSeqProperties
  <2> HIDE DEF t
  <2>3. QED
    BY <1>1, <2>2
<1> HIDE DEF t
<1>3. /\ g \in Seq(Message) /\ Len(g) = Len(h) - k + 1 /\ g[1] = summary /\ g # <<>>
      /\ \A i \in 2 .. Len(g) : g[i] = h[k + i - 1]
  <2>1. <<summary>> \in Seq(Message) /\ Len(<<summary>>) = 1
    OBVIOUS
  <2>2. /\ g \in Seq(Message) /\ Len(g) = 1 + Len(t)
        /\ \A i \in 1 .. 1 + Len(t) : g[i] = IF i <= 1 THEN <<summary>>[i] ELSE t[i - 1]
    BY <1>2, <2>1, ConcatProperties
  <2>3. \A i \in 2 .. Len(g) : i - 1 \in 1 .. Len(h) - k /\ g[i] = t[i - 1]
    BY SMTT(20), <1>1, <1>2, <2>2
  <2>4. g # <<>>
    BY <1>1, <1>2, <2>2
  <2> HIDE DEF g
  <2>5. g[1] = summary
    <3>1. 1 \in 1 .. 1 + Len(t)
      BY <1>2
    <3>2. g[1] = <<summary>>[1]
      BY <2>2, <3>1
    <3>3. QED
      BY <3>2
  <2>6. \A i \in 2 .. Len(g) : g[i] = h[k + i - 1]
    <3> SUFFICES ASSUME NEW i \in 2 .. Len(g) PROVE g[i] = h[k + i - 1]
      OBVIOUS
    <3>1. g[i] = t[i - 1] /\ i - 1 \in 1 .. Len(h) - k
      BY <2>3
    <3>2. t[i - 1] = h[k + (i - 1)]
      BY <1>2, <3>1
    <3>3. QED
      BY <3>1, <3>2
  <2>7. QED
    BY <1>1, <1>2, <2>2, <2>4, <2>5, <2>6
<1> HIDE DEF g
<1>4. Talk(g, n)
  <2>1. \A i \in 2 .. Len(g) : k + i - 1 \in 2 .. Len(h)
    BY <1>1, <1>3
  <2>2. \E d \in Int : \A i \in 2 .. Len(g) : g[i].turn = i + d
    <3>1. PICK d \in Int : \A i \in 2 .. Len(h) : h[i].turn = i + d
      BY <1>1 DEF Talk
    <3>2. k - 1 + d \in Int
      OBVIOUS
    <3>3. ASSUME NEW i \in 2 .. Len(g) PROVE g[i].turn = i + (k - 1 + d)
      <4>1. g[i] = h[k + i - 1] /\ h[k + i - 1].turn = (k + i - 1) + d
        BY <1>3, <2>1, <3>1
      <4>2. (k + i - 1) + d = i + (k - 1 + d)
        OBVIOUS
      <4>3. QED
        BY <4>1, <4>2
    <3>4. QED
      BY <3>2, <3>3
  <2>3. \A i \in 1 .. Len(g) : g[i].turn <= n
    <3> SUFFICES ASSUME NEW i \in 1 .. Len(g) PROVE g[i].turn <= n
      OBVIOUS
    <3>1. CASE i = 1
      <4>1. summary.turn \in Int /\ summary.turn < 0
        BY DEF Message
      <4>2. QED
        BY <1>3, <3>1, <4>1
    <3>2. CASE i # 1
      <4>1. i \in 2 .. Len(g)
        BY <1>1, <1>3, <3>2
      <4>2. g[i] = h[k + i - 1] /\ k + i - 1 \in 1 .. Len(h)
        BY <1>3, <2>1, <4>1
      <4>3. QED
        BY <1>1, <4>2
    <3>3. QED
      BY <3>1, <3>2
  <2>4. QED
    BY <1>3, <2>2, <2>3 DEF Talk
<1>5. HistoryOK(g, n)
  <2>1. Len(g) # 1 => g[Len(g)].turn = n
    <3> SUFFICES ASSUME Len(g) # 1 PROVE g[Len(g)].turn = n
      OBVIOUS
    <3>1. Len(g) \in 2 .. Len(g) /\ k + Len(g) - 1 = Len(h) /\ Len(h) >= 2
      BY <1>1, <1>3
    <3>2. QED
      BY <1>1, <1>3, <3>1
  <2>2. QED
    BY <1>3, <1>4, <2>1 DEF HistoryOK
<1>6. \A m : Before(m, g)
  BY <1>3 DEF Before
<1>7. ASSUME NEW c, NEW cov, CursorOK(c, cov, n), ~X!Mistaken(g, c),
             NEW i \in 1 .. X!After(g, c)
      PROVE  g[i].turn < 0 \/ g[i].turn \in cov
  <2> DEFINE L == c.place
  <2>1. c \in Cursor /\ Len(g) \in Nat
    BY <1>1, <1>3, <1>7 DEF CursorOK
  <2>2. X!After(g, c) = L /\ L \in 1 .. Len(g) /\ i \in 1 .. L /\ g[L].turn = c.turn
    <3>1. X!After(g, c) \in 0 .. Len(g) /\ X!After(g, c) # 0
      BY <1>3, <1>7, <2>1, AfterIsPlace
    <3>2. X!After(g, c) = L
      BY <1>3, <2>1, <3>1, AfterIsPlace
    <3>3. QED
      BY <1>7, <2>1, <3>1, <3>2 DEF X!Mistaken
  <2>3. PICK d \in Int : /\ L >= 2 => c.turn = L + d
                         /\ \A j \in 2 .. L : j + d < 0 \/ j + d \in cov
    BY <1>7 DEF CursorOK
  <2> HIDE DEF L
  <2>4. CASE i >= 2
    <3>1. PICK e \in Int : \A j \in 2 .. Len(g) : g[j].turn = j + e
      BY <1>4 DEF Talk
    <3>2. i \in 2 .. L /\ L \in 2 .. Len(g) /\ i \in 2 .. Len(g)
      BY <2>1, <2>2, <2>4
    <3>3. L + d = L + e
      BY <2>2, <2>3, <3>1, <3>2
    <3>4. g[i].turn = i + d
      BY <3>1, <3>2, <3>3
    <3>5. QED
      BY <2>3, <3>2, <3>4
  <2>5. CASE i = 1
    BY <1>3, <2>5
  <2>6. QED
    BY <2>2, <2>4, <2>5
<1>8. \A c, cov : CursorOK(c, cov, n) => Covers(g, c, cov)
  BY <1>7 DEF Covers, Seen
<1>9. QED
  BY <1>4, <1>5, <1>6, <1>8 DEF g, t

\* A turn leaves what is said of the states and the extractions.
LEMMA WorldGrows ==
    ASSUME NEW n \in Nat, NEW h \in Seq(Message), HistoryOK(h, n), NEW start \in Start,
           NEW rs, NEW d, RunsOK(rs, d, h, n)
    PROVE  LET g == Append(h, X!Answer(n + 1, start))
           IN  /\ RunsOK(rs, d, g, n + 1)
               /\ \A p, x : Sound(p, x, rs, h, n) => Sound(p, x, rs, g, n + 1)
               /\ \A p, x, cov : Sees(p, x, rs, h, cov, n) => Sees(p, x, rs, g, cov, n + 1)
<1> DEFINE m == X!Answer(n + 1, start)
           g == Append(h, m)
<1>1. /\ m \in Message /\ m.turn = n + 1
      /\ \A s : Talk(s, n) /\ Before(s, h) => Before(s, g)
  BY HistoryGrows
<1>2. \A s : Talk(s, n) => Talk(s, n + 1)
  BY TalkStays
<1> HIDE DEF m
<1>3. \A c, cov : CursorOK(c, cov, n) /\ Covers(h, c, cov) =>
         CursorOK(c, cov, n + 1) /\ Covers(g, c, cov)
  BY <1>1, CursorStays
<1> HIDE DEF g
<1>4. RunsOK(rs, d, g, n + 1)
  BY <1>1, <1>2 DEF RunsOK
<1>5. \A p, x : Sound(p, x, rs, h, n) => Sound(p, x, rs, g, n + 1)
  BY <1>1, <1>2 DEF Sound
<1>6. \A p, x, cov : Sees(p, x, rs, h, cov, n) => Sees(p, x, rs, g, cov, n + 1)
  BY <1>3 DEF Sees
<1>7. QED
  BY <1>4, <1>5, <1>6 DEF g, m

\* With the extraction e the others are as they were, and so is what is said of them.
IsAdded(rs, e, b, h, n) ==
    LET q == Append(rs, e)
    IN  /\ RunsOK(q, b, h, n)
        /\ Len(q) = Len(rs) + 1 /\ q[Len(rs) + 1] = e
        /\ \A i \in 1 .. Len(rs) : q[i] = rs[i]
        /\ Busy(q, e.of) = Busy(rs, e.of) \cup {Len(rs) + 1}
        /\ \A p, x : p # e.of /\ Sound(p, x, rs, h, n) => Sound(p, x, q, h, n)
        /\ \A p, x, cov : Sees(p, x, rs, h, cov, n)
                          /\ (p = e.of => Covers(e.messages, x.cursor, cov)) =>
              Sees(p, x, q, h, cov, n)

\* An extraction is created.
LEMMA RunIsAdded ==
    ASSUME NEW n, NEW h, NEW rs, NEW d \in Nat, NEW b \in Nat, d <= b, RunsOK(rs, d, h, n),
           NEW e \in Reading, e.of \in 1 .. b, e.pc = "ready",
           Talk(e.messages, n), Before(e.messages, h)
    PROVE  IsAdded(rs, e, b, h, n)
<1> DEFINE q == Append(rs, e)
           L == Len(rs)
<1>1. rs \in Seq(Reading)
  BY DEF RunsOK
<1>2. /\ q \in Seq(Reading) /\ Len(q) = L + 1 /\ L \in Nat /\ q[L + 1] = e
      /\ \A i \in 1 .. L : q[i] = rs[i]
  BY <1>1, AppendProperties, LenProperties
<1> HIDE DEF q, L
<1>3. 1 .. L + 1 = (1 .. L) \cup {L + 1} /\ L + 1 \notin 1 .. L
  BY <1>2
<1>4. RunsOK(q, b, h, n)
  <2>1. \A i \in 1 .. L : rs[i].of \in 1 .. b
    BY DEF RunsOK, L
  <2>2. \A i \in 1 .. L + 1 : q[i].of \in 1 .. b /\ Talk(q[i].messages, n) /\ Before(q[i].messages, h)
    BY <1>2, <1>3, <2>1 DEF RunsOK, L
  <2>3. QED
    BY <1>2, <2>2 DEF RunsOK
<1>5. /\ Busy(q, e.of) = Busy(rs, e.of) \cup {L + 1}
      /\ \A p : p # e.of => Busy(q, p) = Busy(rs, p)
  BY <1>2, <1>3 DEF Busy, L
<1>6. ASSUME NEW p, NEW x, p # e.of, Sound(p, x, rs, h, n) PROVE Sound(p, x, q, h, n)
  <2>1. Busy(q, p) = Busy(rs, p) /\ (x.inFlight # 0 => x.inFlight \in 1 .. L)
    BY <1>5, <1>6 DEF Sound, Busy, L
  <2>2. QED
    BY <1>2, <1>6, <2>1 DEF Sound
<1>7. ASSUME NEW p, NEW x, NEW cov, Sees(p, x, rs, h, cov, n),
             p = e.of => Covers(e.messages, x.cursor, cov)
      PROVE  Sees(p, x, q, h, cov, n)
  BY <1>2, <1>3, <1>7 DEF Sees, L
<1>8. QED
  BY <1>2, <1>4, <1>5, <1>6, <1>7 DEF IsAdded, q, L

\* An extraction goes on, or ends.
LEMMA RunGoesOn ==
    ASSUME NEW n, NEW h, NEW rs, NEW d, RunsOK(rs, d, h, n), NEW r \in 1 .. Len(rs),
           NEW q \in Seq(Reading), Len(q) = Len(rs),
           \A i \in 1 .. Len(rs) : i # r => q[i] = rs[i],
           q[r].of = rs[r].of, q[r].messages = rs[r].messages
    PROVE  /\ RunsOK(q, d, h, n)
           /\ q[r].pc = "ended" => Busy(q, rs[r].of) = Busy(rs, rs[r].of) \ {r}
           /\ \A p, x : (p # rs[r].of \/ (rs[r].pc # "ended" /\ q[r].pc # "ended"))
                        /\ Sound(p, x, rs, h, n) => Sound(p, x, q, h, n)
           /\ \A p, x, cov : p # rs[r].of /\ Sees(p, x, rs, h, cov, n) =>
                 Sees(p, x, q, h, cov, n)
<1>1. \A i \in 1 .. Len(rs) : q[i].of = rs[i].of /\ q[i].messages = rs[i].messages
  OBVIOUS
<1>2. RunsOK(q, d, h, n)
  BY <1>1 DEF RunsOK
<1>3. q[r].pc = "ended" => Busy(q, rs[r].of) = Busy(rs, rs[r].of) \ {r}
  BY <1>1 DEF Busy
<1>4. ASSUME NEW p, NEW x, p # rs[r].of \/ (rs[r].pc # "ended" /\ q[r].pc # "ended"),
             Sound(p, x, rs, h, n)
      PROVE  Sound(p, x, q, h, n)
  <2>1. Busy(q, p) = Busy(rs, p)
    BY <1>1, <1>4 DEF Busy
  <2>2. x.inFlight # 0 => x.inFlight \in 1 .. Len(rs)
    BY <1>4 DEF Sound, Busy
  <2>3. QED
    BY <1>1, <1>4, <2>1, <2>2 DEF Sound
<1>5. ASSUME NEW p, NEW x, NEW cov, p # rs[r].of, Sees(p, x, rs, h, cov, n)
      PROVE  Sees(p, x, q, h, cov, n)
  BY <1>5 DEF Sees
<1>6. QED
  BY <1>2, <1>3, <1>4, <1>5

Place == IF X!Exists THEN current ELSE Len(state) + 1

LEMMA MineIsSound ==
    ASSUME ExtractorInv
    PROVE  /\ Said \in Nat /\ Len(state) \in Nat
           /\ Place \in 1 .. Len(state) + 1
           /\ Sound(Place, X!Mine, run, history, Said)
           /\ Sees(Place, X!Mine, run, history, Known, Said)
<1>1. Said \in Nat /\ Len(state) \in Nat /\ Place \in 1 .. Len(state) + 1
  <2>1. Said \in Nat
    BY DEF ExtractorInv, BudgetOK, X!ExtractorAssumption, Said
  <2>2. Len(state) \in Nat /\ current \in 0 .. Len(state)
    BY DEF ExtractorInv
  <2>3. QED
    BY <2>1, <2>2 DEF Place, X!Exists, X!None
<1>2. CASE X!Exists
  <2>1. current \in 1 .. Len(state) /\ Place = current /\ X!Mine = state[current]
    BY <1>2 DEF ExtractorInv, Place, X!Mine, X!Exists, X!None
  <2>2. Sound(current, state[current], run, history, Said)
    BY <2>1 DEF ExtractorInv
  <2>3. Sees(current, state[current], run, history, Known, Said)
    BY <1>2 DEF ExtractorInv, X!Exists, X!None
  <2>4. QED
    BY <1>1, <2>1, <2>2, <2>3
<1>3. CASE ~X!Exists
  <2>1. Place = Len(state) + 1 /\ X!Mine = X!New
    BY <1>3 DEF Place, X!Mine
  <2>2. \A r \in 1 .. Len(run) : run[r].of # Place
    BY <1>1, <2>1 DEF ExtractorInv, RunsOK
  <2>3. /\ X!New \in Extractor /\ X!New.inFlight = 0 /\ X!New.pending = <<>>
        /\ X!New.cursor = X!NoCursor /\ X!NoCursor \in Cursor
    BY DEF X!New, Extractor, X!None, X!NoCursor, Cursor
  <2>4. Busy(run, Place) = {}
    BY <2>2 DEF Busy
  <2>5. Sound(Place, X!New, run, history, Said)
    BY <2>3, <2>4 DEF Sound
  <2>6. X!After(history, X!NoCursor) = 0
    <3>1. history \in Seq(Message) /\ X!NoCursor.place = 0
      BY DEF ExtractorInv, X!NoCursor
    <3>2. QED
      BY <2>3, <3>1, AfterIsPlace
  <2>7. Covers(history, X!NoCursor, Known)
    BY <2>6 DEF Covers
  <2>8. CursorOK(X!NoCursor, Known, Said)
    <3>1. X!NoCursor.place = 0 /\ X!NoCursor.turn = 0
      BY DEF X!NoCursor
    <3>2. QED
      BY <1>1, <2>3, <3>1 DEF CursorOK
  <2>9. Sees(Place, X!New, run, history, Known, Said)
    BY <2>2, <2>3, <2>7, <2>8 DEF Sees
  <2>10. QED
    BY <1>1, <2>1, <2>5, <2>9
<1>4. QED
  BY <1>1, <1>2, <1>3

LEMMA StatesAreSet ==
    ASSUME ExtractorInv, NEW x \in Extractor
    PROVE  /\ X!States(x) \in Seq(Extractor) /\ Len(X!States(x)) \in Nat
           /\ Len(state) <= Len(X!States(x)) /\ Place \in 1 .. Len(X!States(x))
           /\ X!States(x)[Place] = x
           /\ \A g \in 1 .. Len(X!States(x)) :
                 g # Place => g \in 1 .. Len(state) /\ X!States(x)[g] = state[g]
<1>1. state \in Seq(Extractor) /\ Len(state) \in Nat /\ current \in 0 .. Len(state)
  BY DEF ExtractorInv
<1>2. CASE X!Exists
  <2>1. X!States(x) = [state EXCEPT ![current] = x] /\ Place = current /\ current \in 1 .. Len(state)
    BY <1>1, <1>2 DEF X!States, Place, X!Exists, X!None
  <2>2. QED
    BY <1>1, <2>1, ExceptSeq
<1>3. CASE ~X!Exists
  <2>1. X!States(x) = Append(state, x) /\ Place = Len(state) + 1
    BY <1>3 DEF X!States, Place
  <2>2. QED
    BY <1>1, <2>1, AppendProperties
<1>4. QED
  BY <1>2, <1>3

LEMMA MineIsReplaced ==
    ASSUME ExtractorInv, NEW x \in Extractor, state' = X!States(x), current' = Place,
           BudgetOK', history' \in Seq(Message), HistoryOK(history', Said'),
           RunsOK(run', Len(state'), history', Said'),
           \A g \in 1 .. Len(state) : g # Place => Sound(g, state[g], run', history', Said'),
           Sound(Place, x, run', history', Said'),
           Sees(Place, x, run', history', Known', Said')
    PROVE  ExtractorInv'
<1>1. /\ state' \in Seq(Extractor) /\ Len(state') \in Nat
      /\ Place \in 1 .. Len(state') /\ state'[Place] = x
      /\ \A g \in 1 .. Len(state') : g # Place => g \in 1 .. Len(state) /\ state'[g] = state[g]
  BY StatesAreSet
<1>2. \A g \in 1 .. Len(state') : Sound(g, state'[g], run', history', Said')
  BY <1>1
<1>3. current' \in 0 .. Len(state')
  BY <1>1
<1> HIDE DEF Place
<1>4. current' # 0 => Sees(current', state'[current'], run', history', Known', Said')
  BY <1>1
<1>5. QED
  BY <1>1, <1>2, <1>3, <1>4 DEF ExtractorInv

\* The hook starts an extraction, stashes the payload, or neither.
LEMMA HookKeeps ==
    ASSUME ExtractorInv, NEW start \in Start,
           NEW h, h = Append(history, X!Answer(Said + 1, start)), NEW x,
           x = [X!Mine EXCEPT !.turns = @ + 1],
           \/ /\ state' = X!States(x) /\ run' = run /\ Known' = Known
           \/ /\ state' = X!States([x EXCEPT !.turns = IF @ = 0 THEN 0 ELSE @ - 1])
              /\ run' = run /\ Known' = Known
           \/ /\ state' = X!States([x EXCEPT !.cursor = X!LastOf(h), !.turns = 0])
              /\ run' = run
              /\ Known' = (Known \cup X!Window(h, x.cursor)) \cup X!Passed(h, x.cursor)
           \/ /\ x.inFlight # X!None /\ state' = X!States([x EXCEPT !.pending = h])
              /\ run' = run /\ Known' = Known
           \/ /\ x.inFlight = X!None
              /\ state' = X!States([x EXCEPT !.turns = 0, !.inFlight = Len(run) + 1])
              /\ run' = Append(run, X!Extraction(Place, h)) /\ Known' = Known,
           current' = Place, BudgetOK', history' = h, Said' = Said + 1
    PROVE  ExtractorInv'
<1> DEFINE n == Said
<1>0. /\ n \in Nat /\ Len(state) \in Nat /\ Place \in 1 .. Len(state) + 1
      /\ Sound(Place, X!Mine, run, history, n) /\ Sees(Place, X!Mine, run, history, Known, n)
  BY MineIsSound
<1>1. /\ history \in Seq(Message) /\ HistoryOK(history, n) /\ RunsOK(run, Len(state), history, n)
      /\ \A g \in 1 .. Len(state) : Sound(g, state[g], run, history, n)
  BY DEF ExtractorInv
<1> HIDE DEF n
<1>2. /\ h \in Seq(Message) /\ Talk(h, n + 1) /\ HistoryOK(h, n + 1)
      /\ X!LastOf(h).turn = n + 1
  BY <1>0, <1>1, HistoryGrows DEF n
<1>3. /\ RunsOK(run, Len(state), h, n + 1)
      /\ \A g \in 1 .. Len(state) : Sound(g, state[g], run, h, n + 1)
      /\ Sound(Place, X!Mine, run, h, n + 1) /\ Sees(Place, X!Mine, run, h, Known, n + 1)
  BY <1>0, <1>1, WorldGrows DEF n
<1>4. /\ X!Mine \in Extractor /\ x \in Extractor /\ x.cursor = X!Mine.cursor
      /\ x.inFlight = X!Mine.inFlight /\ x.pending = X!Mine.pending
  <2>1. X!Mine \in Extractor
    BY <1>0 DEF Sound
  <2>2. X!Mine.turns + 1 \in Nat
    BY <2>1 DEF Extractor
  <2>3. x \in Extractor
    BY <2>1, <2>2 DEF Extractor
  <2>4. x.cursor = X!Mine.cursor /\ x.inFlight = X!Mine.inFlight /\ x.pending = X!Mine.pending
    BY <2>1 DEF Extractor
  <2>5. QED
    BY <2>1, <2>3, <2>4
<1>5. Sound(Place, x, run, h, n + 1) /\ Sees(Place, x, run, h, Known, n + 1)
  BY <1>3, <1>4 DEF Sound, Sees
<1>6. Before(h, h)
  BY <1>2 DEF Before, Talk
<1>7. \A y \in Extractor : Len(state) <= Len(X!States(y)) /\ Len(X!States(y)) \in Nat
                           /\ Place \in 1 .. Len(X!States(y))
  BY StatesAreSet
<1>8. \A b \in Nat : Len(state) <= b => RunsOK(run, b, h, n + 1)
  BY <1>0, <1>3 DEF RunsOK
<1>9. CASE state' = X!States(x) /\ run' = run /\ Known' = Known
  BY <1>2, <1>3, <1>4, <1>5, <1>7, <1>8, <1>9, MineIsReplaced DEF n
<1>10. CASE /\ state' = X!States([x EXCEPT !.cursor = X!LastOf(h), !.turns = 0])
            /\ run' = run
            /\ Known' = (Known \cup X!Window(h, x.cursor)) \cup X!Passed(h, x.cursor)
  <2> DEFINE y == [x EXCEPT !.cursor = X!LastOf(h), !.turns = 0]
             more == (Known \cup X!Window(h, x.cursor)) \cup X!Passed(h, x.cursor)
  <2>1. \A i \in 1 .. Len(h) : Seen(h[i], more)
    <3> SUFFICES ASSUME NEW i \in 1 .. Len(h) PROVE Seen(h[i], more)
      OBVIOUS
    <3>1. CASE i \in 1 .. X!After(h, x.cursor)
      <4>1. CASE X!Mistaken(h, x.cursor)
        BY <3>1, <4>1 DEF X!Passed, Seen
      <4>2. CASE ~X!Mistaken(h, x.cursor)
        <5>1. Seen(h[i], Known)
          BY <1>5, <3>1, <4>2 DEF Sees, Covers
        <5>2. QED
          BY <5>1 DEF Seen
      <4>3. QED
        BY <4>1, <4>2
    <3>2. CASE i \notin 1 .. X!After(h, x.cursor)
      <4>1. X!After(h, x.cursor) \in Nat
        <5>1. x.cursor \in Cursor
          BY <1>4 DEF Extractor
        <5>2. X!After(h, x.cursor) \in 0 .. Len(h)
          BY <1>2, <5>1, AfterIsPlace
        <5>3. QED
          BY <5>2
      <4>2. i \in X!After(h, x.cursor) + 1 .. Len(h)
        BY <1>2, <3>2, <4>1
      <4>3. QED
        BY <4>2 DEF X!Window, Seen
    <3>3. QED
      BY <3>1, <3>2
  <2>2. Known \subseteq more
    OBVIOUS
  <2> HIDE DEF more
  <2>3. /\ CursorOK(X!LastOf(h), more, n + 1) /\ X!LastOf(h) \in Cursor
        /\ Covers(h, X!LastOf(h), more)
    <3>1. n + 1 \in Nat
      BY <1>0
    <3>2. CursorOK(X!LastOf(h), more, n + 1) /\ Covers(h, X!LastOf(h), more)
      BY <1>2, <1>6, <2>1, <3>1, LastIsSeen
    <3>3. QED
      BY <3>2 DEF CursorOK
  <2>4. \A s : Talk(s, n) => Covers(s, X!LastOf(h), more)
    BY <1>0, <1>2, <2>3, NewCursorNotFound
  <2>5. /\ y \in Extractor /\ y.cursor = X!LastOf(h)
        /\ y.inFlight = X!Mine.inFlight /\ y.pending = X!Mine.pending
    BY <1>4, <2>3 DEF Extractor
  <2>6. /\ X!Mine.pending # <<>> => Talk(X!Mine.pending, n)
        /\ \A r \in 1 .. Len(run) : Talk(run[r].messages, n)
    BY <1>0, <1>1 DEF Sound, RunsOK
  <2> HIDE DEF y
  <2>7. Sound(Place, y, run, h, n + 1)
    BY <1>3, <2>5 DEF Sound
  <2>8. Sees(Place, y, run, h, more, n + 1)
    <3>1. \A m : Seen(m, Known) => Seen(m, more)
      BY <2>2, MoreIsSeen
    <3>2. QED
      BY <1>3, <2>3, <2>4, <2>5, <2>6, <3>1 DEF Sees
  <2>9. state' = X!States(y) /\ Known' = more
    BY <1>10 DEF y, more
  <2>10. QED
    BY <1>2, <1>3, <1>7, <1>8, <1>10, <2>5, <2>7, <2>8, <2>9, MineIsReplaced DEF n
<1>11. CASE /\ x.inFlight # X!None /\ state' = X!States([x EXCEPT !.pending = h])
            /\ run' = run /\ Known' = Known
  <2> DEFINE y == [x EXCEPT !.pending = h]
  <2>1. /\ y \in Extractor /\ y.cursor = x.cursor /\ y.inFlight = x.inFlight /\ y.pending = h
    BY <1>2, <1>4 DEF Extractor
  <2>2. x.inFlight \in 1 .. Len(run)
    BY <1>5, <1>11 DEF Sound, Busy, X!None
  <2>3. Before(run[x.inFlight].messages, h)
    BY <1>3, <2>2 DEF RunsOK
  <2> HIDE DEF y
  <2>4. Sound(Place, y, run, h, n + 1)
    BY <1>2, <1>5, <1>6, <1>11, <2>1, <2>3 DEF Sound, X!None
  <2>5. Sees(Place, y, run, h, Known, n + 1)
    BY <1>5, <2>1 DEF Sees
  <2>6. state' = X!States(y)
    BY <1>11 DEF y
  <2>7. QED
    BY <1>2, <1>3, <1>7, <1>8, <1>11, <2>1, <2>4, <2>5, <2>6, MineIsReplaced DEF n
<1>12. CASE /\ x.inFlight = X!None
            /\ state' = X!States([x EXCEPT !.turns = 0, !.inFlight = Len(run) + 1])
            /\ run' = Append(run, X!Extraction(Place, h)) /\ Known' = Known
  <2> DEFINE y == [x EXCEPT !.turns = 0, !.inFlight = Len(run) + 1]
             e == X!Extraction(Place, h)
             q == Append(run, e)
  <2>1. Len(run) \in Nat
    BY <1>3 DEF RunsOK
  <2>2. /\ y \in Extractor /\ y.cursor = x.cursor /\ y.inFlight = Len(run) + 1
        /\ y.pending = x.pending
    <3>1. x \in Extractor /\ Len(run) + 1 \in Nat
      BY <1>4, <2>1
    <3>2. QED
      BY <3>1 DEF Extractor
  <2>3. x.pending = <<>> /\ Busy(run, Place) = {}
    BY <1>5, <1>12 DEF Sound, X!None
  <2>4. /\ e \in Reading /\ e.of = Place /\ e.pc = "ready" /\ e.messages = h
    BY <1>0, <1>2 DEF X!Extraction, Reading
  <2> HIDE DEF y, e
  <2>5. /\ RunsOK(q, Len(X!States(y)), h, n + 1)
        /\ Busy(q, Place) = Busy(run, Place) \cup {Len(run) + 1}
        /\ \A p, z : p # Place /\ Sound(p, z, run, h, n + 1) => Sound(p, z, q, h, n + 1)
        /\ \A p, z, c : Sees(p, z, run, h, c, n + 1) /\ (p = Place => Covers(h, z.cursor, c)) =>
              Sees(p, z, q, h, c, n + 1)
    <3> DEFINE b == Len(X!States(y))
    <3>1. b \in Nat /\ Len(state) \in Nat /\ Len(state) <= b /\ e.of \in 1 .. b
      BY <1>0, <1>7, <2>2, <2>4
    <3>2. RunsOK(run, Len(state), h, n + 1) /\ Talk(e.messages, n + 1) /\ Before(e.messages, h)
          /\ e \in Reading /\ e.pc = "ready"
      BY <1>2, <1>3, <1>6, <2>4
    <3> HIDE DEF b
    <3>3. IsAdded(run, e, b, h, n + 1)
      BY <3>1, <3>2, RunIsAdded
    <3>4. /\ RunsOK(q, b, h, n + 1)
          /\ Busy(q, e.of) = Busy(run, e.of) \cup {Len(run) + 1}
          /\ \A p, z : p # e.of /\ Sound(p, z, run, h, n + 1) => Sound(p, z, q, h, n + 1)
          /\ \A p, z, c : Sees(p, z, run, h, c, n + 1)
                          /\ (p = e.of => Covers(e.messages, z.cursor, c)) =>
                Sees(p, z, q, h, c, n + 1)
      BY <3>3 DEF IsAdded
    <3> HIDE DEF q
    <3>5. QED
      BY <2>4, <3>4 DEF b
  <2> HIDE DEF q
  <2>6. Sound(Place, y, q, h, n + 1)
    BY <2>1, <2>2, <2>3, <2>5 DEF Sound
  <2>7. Sees(Place, y, run, h, Known, n + 1) /\ Covers(h, y.cursor, Known)
    BY <1>5, <2>2 DEF Sees
  <2>8. Sees(Place, y, q, h, Known, n + 1)
    BY <2>5, <2>7
  <2>9. \A g \in 1 .. Len(state) : g # Place => Sound(g, state[g], q, h, n + 1)
    BY <1>3, <2>5
  <2>10. state' = X!States(y) /\ run' = q /\ Known' = Known
    BY <1>12 DEF y, q, e
  <2>11. QED
    BY <1>2, <2>2, <2>5, <2>6, <2>8, <2>9, <2>10, MineIsReplaced DEF n
<1>13. CASE /\ state' = X!States([x EXCEPT !.turns = IF @ = 0 THEN 0 ELSE @ - 1])
            /\ run' = run /\ Known' = Known
  <2> DEFINE y == [x EXCEPT !.turns = IF @ = 0 THEN 0 ELSE @ - 1]
  <2>1. /\ y \in Extractor /\ y.cursor = x.cursor /\ y.inFlight = x.inFlight
        /\ y.pending = x.pending
    <3>1. (IF x.turns = 0 THEN 0 ELSE x.turns - 1) \in Nat
      BY <1>4 DEF Extractor
    <3>2. QED
      BY <1>4, <3>1 DEF Extractor
  <2>2. state' = X!States(y)
    BY <1>13
  <2> HIDE DEF y
  <2>3. Sound(Place, y, run, h, n + 1) /\ Sees(Place, y, run, h, Known, n + 1)
    BY <1>5, <2>1 DEF Sound, Sees
  <2>4. QED
    BY <1>2, <1>3, <1>7, <1>8, <1>13, <2>1, <2>2, <2>3, MineIsReplaced DEF n
<1>14. QED
  BY <1>9, <1>10, <1>11, <1>12, <1>13

LEMMA TurnEndsKeeps ==
    ASSUME ExtractorInv, X!TurnEnds
    PROVE  ExtractorInv'
<1>0. PICK start \in Start : history' = Append(history, X!Answer(Said + 1, start))
  BY DEF X!TurnEnds, Said
<1> DEFINE h == Append(history, X!Answer(Said + 1, start))
<1>1. BudgetOK' /\ Said' = Said + 1
  <2>1. budget \in [turns : 0 .. MaxTurns, compactions : 0 .. MaxCompactions,
                    resets : 0 .. MaxResets, ends : Int, failed : BOOLEAN] /\ MaxTurns \in Nat
    BY DEF ExtractorInv, BudgetOK, X!ExtractorAssumption
  <2>2. budget.turns > 0 /\ budget' = [budget EXCEPT !.turns = @ - 1]
    BY DEF X!TurnEnds
  <2>3. budget.turns - 1 \in 0 .. MaxTurns /\ budget.turns \in Int
    BY <2>1, <2>2
  <2>4. /\ budget' \in [turns : 0 .. MaxTurns, compactions : 0 .. MaxCompactions,
                         resets : 0 .. MaxResets, ends : Int, failed : BOOLEAN]
        /\ budget'.turns = budget.turns - 1
    BY <2>1, <2>2, <2>3
  <2>5. QED
    BY <2>1, <2>3, <2>4 DEF BudgetOK, ExtractorInv, Said
<1>2. history' = h
  BY <1>0
<1>3. CASE UNCHANGED <<state, current, run, covered, mistaken>>
  <2>1. Said \in Nat
    BY MineIsSound
  <2>2. /\ history \in Seq(Message) /\ HistoryOK(history, Said)
        /\ RunsOK(run, Len(state), history, Said)
        /\ \A g \in 1 .. Len(state) : Sound(g, state[g], run, history, Said)
        /\ current # 0 => Sees(current, state[current], run, history, Known, Said)
    BY DEF ExtractorInv
  <2>3. /\ h \in Seq(Message) /\ HistoryOK(h, Said + 1)
    BY <2>1, <2>2, HistoryGrows
  <2>4. /\ RunsOK(run, Len(state), h, Said + 1)
        /\ \A g \in 1 .. Len(state) : Sound(g, state[g], run, h, Said + 1)
        /\ current # 0 => Sees(current, state[current], run, h, Known, Said + 1)
    BY <2>1, <2>2, WorldGrows
  <2> HIDE DEF h
  <2>5. Known' = Known
    BY <1>3 DEF Known
  <2>6. QED
    BY <1>1, <1>2, <1>3, <2>3, <2>4, <2>5 DEF ExtractorInv
<1>4. CASE X!Hook(history', [X!Mine EXCEPT !.turns = @ + 1]) /\ current' = Place
  <2> DEFINE x == [X!Mine EXCEPT !.turns = @ + 1]
  <2>1. \/ /\ state' = X!States(x) /\ run' = run /\ Known' = Known
        \/ /\ state' = X!States([x EXCEPT !.turns = IF @ = 0 THEN 0 ELSE @ - 1])
           /\ run' = run /\ Known' = Known
        \/ /\ state' = X!States([x EXCEPT !.cursor = X!LastOf(h), !.turns = 0])
           /\ run' = run
           /\ Known' = (Known \cup X!Window(h, x.cursor)) \cup X!Passed(h, x.cursor)
        \/ /\ x.inFlight # X!None /\ state' = X!States([x EXCEPT !.pending = h])
           /\ run' = run /\ Known' = Known
        \/ /\ x.inFlight = X!None
           /\ state' = X!States([x EXCEPT !.turns = 0, !.inFlight = Len(run) + 1])
           /\ run' = Append(run, X!Extraction(Place, h)) /\ Known' = Known
    <3> HIDE DEF x, h
    <3> QED
      BY <1>2, <1>4 DEF X!Hook, Place, x, Known
  <2> HIDE DEF h, x
  <2>2. QED
    BY <1>1, <1>2, <1>4, <2>1, HookKeeps DEF h, x
<1>5. QED
  BY <1>3, <1>4 DEF X!TurnEnds, Place

LEMMA CompactKeeps ==
    ASSUME ExtractorInv, X!Compact
    PROVE  ExtractorInv'
<1>1. /\ X!ExtractorAssumption
      /\ budget \in [turns : 0 .. MaxTurns, compactions : 0 .. MaxCompactions,
                     resets : 0 .. MaxResets, ends : Int, failed : BOOLEAN]
  BY DEF ExtractorInv, BudgetOK
<1>2. /\ budget.compactions > 0 /\ budget' = [budget EXCEPT !.compactions = @ - 1]
      /\ UNCHANGED <<state, current, run>> /\ Known' = Known
  BY DEF X!Compact, Known
<1>3. BudgetOK' /\ Said' = Said
  BY <1>1, <1>2 DEF BudgetOK, Said, X!ExtractorAssumption
<1>4. Said \in Nat
  BY MineIsSound
<1>5. PICK k \in 1 .. Len(history) :
         history' = <<X!Summary(budget.compactions)>> \o SubSeq(history, k + 1, Len(history))
  BY DEF X!Compact
<1>6. X!Summary(budget.compactions) \in Message /\ X!Summary(budget.compactions).turn < 0
  BY <1>1, <1>2 DEF X!Summary, X!ExtractorAssumption, Message
<1>7. HistoryOK(history, Said) /\ history # <<>> /\ history \in Seq(Message)
  <2>1. history \in Seq(Message) /\ Len(history) # 0
    BY <1>5 DEF ExtractorInv
  <2>2. QED
    BY <2>1, EmptySeq DEF ExtractorInv
<1>8. /\ Talk(history', Said) /\ HistoryOK(history', Said)
      /\ \A m : Before(m, history')
      /\ \A c, cov : CursorOK(c, cov, Said) => Covers(history', c, cov)
  BY <1>4, <1>5, <1>6, <1>7, HistoryIsCompacted
<1>9. RunsOK(run, Len(state), history', Said)
  BY <1>8 DEF ExtractorInv, RunsOK
<1>10. \A g \in 1 .. Len(state) : Sound(g, state[g], run, history', Said)
  BY <1>8 DEF ExtractorInv, Sound
<1>11. current # 0 => Sees(current, state[current], run, history', Known, Said)
  BY <1>8 DEF ExtractorInv, Sees
<1>12. history' \in Seq(Message)
  BY <1>8 DEF Talk
<1>13. QED
  BY <1>2, <1>3, <1>8, <1>9, <1>10, <1>11, <1>12 DEF ExtractorInv

\* The history is emptied, and the states stay.
LEMMA ResetKeeps ==
    ASSUME ExtractorInv, X!Reset
    PROVE  ExtractorInv'
<1>1. /\ history' = <<>> /\ budget' = [budget EXCEPT !.resets = @ - 1] /\ budget.resets > 0
      /\ UNCHANGED <<state, current, run>> /\ Known' = Known
  BY DEF X!Reset, Known
<1>2. BudgetOK' /\ Said' = Said
  <2>1. /\ X!ExtractorAssumption
        /\ budget \in [turns : 0 .. MaxTurns, compactions : 0 .. MaxCompactions,
                       resets : 0 .. MaxResets, ends : Int, failed : BOOLEAN]
    BY DEF ExtractorInv, BudgetOK
  <2>2. budget.resets - 1 \in 0 .. MaxResets
    BY <1>1, <2>1 DEF X!ExtractorAssumption
  <2>3. /\ budget' \in [turns : 0 .. MaxTurns, compactions : 0 .. MaxCompactions,
                         resets : 0 .. MaxResets, ends : Int, failed : BOOLEAN]
        /\ budget'.turns = budget.turns
    BY <1>1, <2>1, <2>2
  <2>4. QED
    BY <2>1, <2>3 DEF BudgetOK, Said
<1>3. /\ <<>> \in Seq(Message) /\ HistoryOK(<<>>, Said) /\ \A m : Before(m, <<>>)
  BY DEF HistoryOK, Before
<1>4. \A c, cov, n : CursorOK(c, cov, n) => Covers(<<>>, c, cov)
  <2> SUFFICES ASSUME NEW c \in Cursor, NEW cov PROVE Covers(<<>>, c, cov)
    BY DEF CursorOK
  <2>1. X!After(<<>>, c) \in 0 .. 0
    BY <1>3, AfterIsPlace
  <2>2. QED
    BY <2>1 DEF Covers
<1>5. RunsOK(run, Len(state), history', Said)
  BY <1>1, <1>3 DEF ExtractorInv, RunsOK
<1>6. \A g \in 1 .. Len(state) : Sound(g, state[g], run, history', Said)
  BY <1>1, <1>3 DEF ExtractorInv, Sound
<1>7. current # 0 => Sees(current, state[current], run, history', Known, Said)
  BY <1>1, <1>4 DEF ExtractorInv, Sees
<1>8. QED
  BY <1>1, <1>2, <1>3, <1>5, <1>6, <1>7 DEF ExtractorInv

LEMMA ExtractionStartsKeeps ==
    ASSUME ExtractorInv, NEW r \in DOMAIN run, X!RunStarts(r)
    PROVE  ExtractorInv'
<1> DEFINE w == X!Window(run[r].messages, X!Mine.cursor)
           q == [run EXCEPT ![r].pc = "reading", ![r].window = w]
           more == Known \cup X!Passed(run[r].messages, X!Mine.cursor)
<1>0. /\ Said \in Nat /\ Len(state) \in Nat /\ Place \in 1 .. Len(state) + 1
      /\ Sound(Place, X!Mine, run, history, Said) /\ Sees(Place, X!Mine, run, history, Known, Said)
  BY MineIsSound
<1>1. /\ BudgetOK /\ history \in Seq(Message) /\ HistoryOK(history, Said)
      /\ RunsOK(run, Len(state), history, Said)
      /\ \A g \in 1 .. Len(state) : Sound(g, state[g], run, history, Said)
  BY DEF ExtractorInv
<1>2. /\ run[r].pc = "ready" /\ run' = q /\ state' = X!States(X!Mine) /\ current' = Place
      /\ UNCHANGED <<history, budget>> /\ Known' = more
  BY DEF X!RunStarts, Place, Known
<1>3. /\ run \in Seq(Reading) /\ Len(run) \in Nat /\ r \in 1 .. Len(run) /\ run[r] \in Reading
      /\ Talk(run[r].messages, Said)
  BY <1>1, ElementOfSeq, LenProperties DEF RunsOK
<1>4. /\ X!Mine \in Extractor /\ X!Mine.cursor \in Cursor
  BY <1>0 DEF Sound, Sees, CursorOK
<1>5. X!After(run[r].messages, X!Mine.cursor) \in Nat
  <2>1. run[r].messages \in Seq(Message)
    BY <1>3 DEF Talk
  <2>2. QED
    BY <1>4, <2>1, AfterIsPlace
<1>6. w \in SUBSET Int
  <2>1. \A i \in 1 .. Len(run[r].messages) : run[r].messages[i].turn \in Int
    BY <1>0, <1>3, TalkHas
  <2>2. QED
    BY <1>5, <2>1 DEF X!Window
<1>7. \A i \in 1 .. Len(run[r].messages) :
         i \in 1 .. X!After(run[r].messages, X!Mine.cursor) \/ run[r].messages[i].turn \in w
  <2> SUFFICES ASSUME NEW i \in 1 .. Len(run[r].messages),
                      i \notin 1 .. X!After(run[r].messages, X!Mine.cursor)
               PROVE  run[r].messages[i].turn \in w
    OBVIOUS
  <2>1. i \in X!After(run[r].messages, X!Mine.cursor) + 1 .. Len(run[r].messages)
    BY <1>5
  <2>2. QED
    BY <2>1 DEF X!Window
<1>14. /\ Known \subseteq more
       /\ Covers(run[r].messages, X!Mine.cursor, Known) =>
             \A i \in 1 .. X!After(run[r].messages, X!Mine.cursor) :
                Seen(run[r].messages[i], more)
  BY DEF Covers, Seen, X!Passed
<1> HIDE DEF w, more
<1>8. /\ q \in Seq(Reading) /\ Len(q) = Len(run)
      /\ \A i \in 1 .. Len(run) : i # r => q[i] = run[i]
      /\ q[r].of = run[r].of /\ q[r].messages = run[r].messages
      /\ q[r].pc = "reading" /\ q[r].window = w
  <2> DEFINE e == [run[r] EXCEPT !.pc = "reading", !.window = w]
  <2>1. /\ e \in Reading /\ e.of = run[r].of /\ e.messages = run[r].messages
        /\ e.pc = "reading" /\ e.window = w
    BY <1>3, <1>6 DEF Reading
  <2>2. q = [run EXCEPT ![r] = e]
    BY <1>3
  <2> HIDE DEF e, q
  <2>3. QED
    BY <1>3, <2>1, <2>2, ExceptSeq
<1> HIDE DEF q
<1>9. /\ RunsOK(q, Len(state), history, Said)
      /\ \A p, x : Sound(p, x, run, history, Said) => Sound(p, x, q, history, Said)
  BY <1>1, <1>2, <1>3, <1>8, RunGoesOn
<1>15. /\ \A m : Seen(m, Known) => Seen(m, more)
       /\ \A s, c : Covers(s, c, Known) => Covers(s, c, more)
       /\ \A c, n : CursorOK(c, Known, n) => CursorOK(c, more, n)
  BY <1>14, MoreIsSeen
<1>10. Sees(Place, X!Mine, q, history, more, Said)
  <2>1. ASSUME NEW i \in 1 .. Len(q), q[i].of = Place
        PROVE  /\ q[i].pc = "ready" => Covers(q[i].messages, X!Mine.cursor, more)
               /\ q[i].pc = "reading" =>
                     \A j \in 1 .. Len(q[i].messages) :
                         Seen(q[i].messages[j], more) \/ q[i].messages[j].turn \in q[i].window
    <3>1. CASE i # r
      BY <1>0, <1>8, <1>15, <2>1, <3>1 DEF Sees
    <3>2. CASE i = r
      <4>1. Covers(run[r].messages, X!Mine.cursor, Known)
        BY <1>0, <1>2, <1>3, <1>8, <2>1, <3>2 DEF Sees
      <4>2. QED
        BY <1>7, <1>8, <1>14, <3>2, <4>1
    <3>3. QED
      BY <3>1, <3>2
  <2>2. QED
    BY <1>0, <1>15, <2>1 DEF Sees
<1>11. RunsOK(run', Len(state'), history', Said')
  <2>1. Len(X!States(X!Mine)) \in Nat /\ Len(state) <= Len(X!States(X!Mine))
    BY <1>4, StatesAreSet
  <2>2. Said' = Said
    BY <1>2 DEF Said
  <2>3. QED
    BY <1>0, <1>2, <1>9, <2>1, <2>2 DEF RunsOK
<1>12. BudgetOK' /\ Said' = Said
  BY <1>1, <1>2 DEF BudgetOK, Said
<1>13. QED
  BY <1>0, <1>1, <1>2, <1>4, <1>9, <1>10, <1>11, <1>12, MineIsReplaced

\* An extraction ends, and the one that was stashed, if any, is created.
LEMMA DrainedKeeps ==
    ASSUME ExtractorInv, NEW r \in DOMAIN run, run[r].pc # "ended", NEW c \in Cursor,
           X!Drained(r, c), Known \subseteq Known', BudgetOK', Said' = Said,
           UNCHANGED <<history, current>>,
           current = run[r].of =>
              /\ CursorOK(c, Known', Said) /\ Covers(history, c, Known')
              /\ state[current].pending # <<>> => Covers(state[current].pending, c, Known')
    PROVE  ExtractorInv'
<1> DEFINE g == run[r].of
           x == state[g]
           e == X!Extraction(g, x.pending)
           q == [run EXCEPT ![r].pc = "ended"]
           y == [x EXCEPT !.cursor = c, !.pending = <<>>,
                          !.inFlight = IF x.pending = <<>> THEN 0 ELSE Len(run) + 1]
<1>1. /\ history \in Seq(Message) /\ HistoryOK(history, Said)
      /\ state \in Seq(Extractor) /\ Len(state) \in Nat /\ current \in 0 .. Len(state)
      /\ RunsOK(run, Len(state), history, Said)
      /\ \A p \in 1 .. Len(state) : Sound(p, state[p], run, history, Said)
      /\ current # 0 => Sees(current, state[current], run, history, Known, Said)
  BY DEF ExtractorInv
<1>2. /\ run \in Seq(Reading) /\ Len(run) \in Nat /\ r \in 1 .. Len(run) /\ run[r] \in Reading
  BY <1>1, ElementOfSeq, LenProperties DEF RunsOK
<1>3. g \in 1 .. Len(state) /\ Sound(g, x, run, history, Said)
  BY <1>1, <1>2 DEF RunsOK
<1>4. x \in Extractor /\ x.inFlight = r /\ Busy(run, g) = {r}
  BY <1>2, <1>3 DEF Sound, Busy
<1>5. /\ q \in Seq(Reading) /\ Len(q) = Len(run)
      /\ \A i \in 1 .. Len(run) : i # r => q[i] = run[i]
      /\ q[r].of = run[r].of /\ q[r].messages = run[r].messages /\ q[r].pc = "ended"
  <2> DEFINE f == [run[r] EXCEPT !.pc = "ended"]
  <2>1. /\ f \in Reading /\ f.of = run[r].of /\ f.messages = run[r].messages
        /\ f.pc = "ended"
    BY <1>2 DEF Reading
  <2>2. q = [run EXCEPT ![r] = f]
    BY <1>2
  <2> HIDE DEF f, q
  <2>3. QED
    BY <1>2, <2>1, <2>2, ExceptSeq
<1>6. state' = [state EXCEPT ![g] = y]
  <2>1. state' = [state EXCEPT ![g].cursor = c, ![g].pending = <<>>,
                     ![g].inFlight = IF x.pending = <<>> THEN X!None ELSE Len(run) + 1]
    BY DEF X!Drained
  <2> HIDE DEF x
  <2>2. x = state[g]
    BY DEF x
  <2> HIDE DEF g
  <2>3. QED
    BY <1>1, <1>3, <2>1, <2>2 DEF X!None
<1>7. run' = IF x.pending = <<>> THEN q ELSE Append(q, e)
  BY DEF X!Drained
<1>8. /\ y \in Extractor /\ y.cursor = c /\ y.pending = <<>>
      /\ y.inFlight = IF x.pending = <<>> THEN 0 ELSE Len(run) + 1
  <2> HIDE DEF x
  <2>1. x \in Extractor /\ Len(run) + 1 \in Nat /\ <<>> \in Seq(Message)
    BY <1>2, <1>4
  <2>2. QED
    BY <2>1 DEF Extractor
<1>9. x.pending # <<>> => /\ e \in Reading /\ e.of = g /\ e.pc = "ready" /\ e.messages = x.pending
                         /\ Talk(x.pending, Said) /\ Before(x.pending, history)
  BY <1>3 DEF X!Extraction, Reading, Sound, Talk
<1> HIDE DEF e, q, y, x
<1>10. /\ RunsOK(q, Len(state), history, Said)
       /\ Busy(q, g) = {}
       /\ \A p, z : p # g /\ Sound(p, z, run, history, Said) => Sound(p, z, q, history, Said)
       /\ \A p, z, cov : p # g /\ Sees(p, z, run, history, cov, Said) =>
             Sees(p, z, q, history, cov, Said)
  <2>1. /\ RunsOK(q, Len(state), history, Said)
        /\ q[r].pc = "ended" => Busy(q, run[r].of) = Busy(run, run[r].of) \ {r}
        /\ \A p, z : (p # run[r].of \/ (run[r].pc # "ended" /\ q[r].pc # "ended"))
                     /\ Sound(p, z, run, history, Said) => Sound(p, z, q, history, Said)
        /\ \A p, z, cov : p # run[r].of /\ Sees(p, z, run, history, cov, Said) =>
              Sees(p, z, q, history, cov, Said)
    BY <1>1, <1>2, <1>5, RunGoesOn
  <2>2. Busy(q, g) = {}
    BY <1>4, <1>5, <2>1
  <2>3. QED
    BY <2>1, <2>2
<1> HIDE DEF g
<1>11. x.pending # <<>> => IsAdded(q, e, Len(state), history, Said)
  BY <1>1, <1>3, <1>9, <1>10, RunIsAdded
<1>12. Len(q) = Len(run)
  BY <1>5
<1>13. /\ RunsOK(run', Len(state), history, Said)
       /\ \A p, z : p # g /\ Sound(p, z, run, history, Said) => Sound(p, z, run', history, Said)
       /\ Busy(run', g) = {y.inFlight} \ {0}
       /\ \A i \in 1 .. Len(run') : run'[i].of = g /\ run'[i].pc # "ended" =>
             x.pending # <<>> /\ run'[i] = e
  <2>1. \A i \in 1 .. Len(q) : ~(q[i].of = g /\ q[i].pc # "ended")
    BY <1>10 DEF Busy
  <2>2. CASE x.pending = <<>>
    BY <1>7, <1>8, <1>10, <2>1, <2>2
  <2>3. CASE x.pending # <<>>
    <3> DEFINE a == Append(q, e)
    <3>1. /\ run' = a /\ Len(a) = Len(q) + 1 /\ a[Len(q) + 1] = e /\ Len(q) \in Nat
          /\ \A i \in 1 .. Len(q) : a[i] = q[i]
      BY <1>2, <1>7, <1>11, <1>12, <2>3 DEF IsAdded
    <3>2. /\ RunsOK(a, Len(state), history, Said)
          /\ Busy(a, g) = Busy(q, g) \cup {Len(q) + 1}
          /\ \A p, z : p # g /\ Sound(p, z, q, history, Said) => Sound(p, z, a, history, Said)
      BY <1>9, <1>11, <2>3 DEF IsAdded
    <3> HIDE DEF a
    <3>3. Busy(a, g) = {Len(run) + 1} /\ Len(run) + 1 # 0
      BY <1>2, <1>10, <1>12, <3>2
    <3>4. \A i \in 1 .. Len(a) : i \in 1 .. Len(q) \/ i = Len(q) + 1
      BY <3>1
    <3>5. \A i \in 1 .. Len(a) : a[i].of = g /\ a[i].pc # "ended" => a[i] = e
      BY <2>1, <3>1, <3>4
    <3>6. QED
      BY <1>8, <1>10, <2>3, <3>1, <3>2, <3>3, <3>5
  <2>4. QED
    BY <2>2, <2>3
<1>14. Sound(g, y, run', history, Said)
  BY <1>8, <1>13 DEF Sound
<1>15. /\ state' \in Seq(Extractor) /\ Len(state') = Len(state)
       /\ \A p \in 1 .. Len(state) : state'[p] = IF p = g THEN y ELSE state[p]
  BY <1>1, <1>3, <1>6, <1>8, ExceptSeq
<1>16. \A p \in 1 .. Len(state') : Sound(p, state'[p], run', history, Said)
  BY <1>1, <1>13, <1>14, <1>15
<1>17. ASSUME current # 0 PROVE Sees(current, state'[current], run', history, Known', Said)
  <2>1. CASE current = g
    <3>1. /\ CursorOK(c, Known', Said) /\ Covers(history, c, Known')
          /\ x.pending # <<>> => Covers(x.pending, c, Known')
      BY <2>1 DEF g, x
    <3>2. state'[current] = y
      BY <1>3, <1>15, <2>1
    <3>3. \A i \in 1 .. Len(run') : run'[i].of = g =>
             /\ run'[i].pc = "ready" => Covers(run'[i].messages, c, Known')
             /\ run'[i].pc # "reading"
      <4> SUFFICES ASSUME NEW i \in 1 .. Len(run'), run'[i].of = g, run'[i].pc # "ended"
                   PROVE  Covers(run'[i].messages, c, Known') /\ run'[i].pc # "reading"
        OBVIOUS
      <4>1. x.pending # <<>> /\ run'[i] = e
        BY <1>13
      <4>2. QED
        BY <1>9, <3>1, <4>1
    <3>4. QED
      BY <1>8, <2>1, <3>1, <3>2, <3>3 DEF Sees
  <2>2. CASE current # g
    <3>1. state'[current] = state[current]
      BY <1>1, <1>15, <1>17, <2>2
    <3>2. Sees(current, state[current], q, history, Known, Said)
      BY <1>1, <1>10, <1>17, <2>2
    <3>3. Sees(current, state[current], run', history, Known, Said)
      <4>1. CASE x.pending = <<>>
        BY <1>7, <3>2, <4>1
      <4>2. CASE x.pending # <<>>
        BY <1>7, <1>9, <1>11, <2>2, <3>2, <4>2 DEF IsAdded
      <4>3. QED
        BY <4>1, <4>2
    <3>4. /\ \A m : Seen(m, Known) => Seen(m, Known')
          /\ \A s, k : Covers(s, k, Known) => Covers(s, k, Known')
          /\ \A k, n : CursorOK(k, Known, n) => CursorOK(k, Known', n)
      BY MoreIsSeen
    <3>5. QED
      BY <3>1, <3>3, <3>4 DEF Sees
  <2>3. QED
    BY <2>1, <2>2
<1>18. QED
  BY <1>1, <1>13, <1>15, <1>16, <1>17 DEF ExtractorInv

LEMMA ExtractionFailsKeeps ==
    ASSUME ExtractorInv, NEW r \in DOMAIN run, X!RunFails(r)
    PROVE  ExtractorInv'
<1> DEFINE g == run[r].of
<1>1. /\ run[r].pc = "ready" /\ X!Drained(r, state[g].cursor)
      /\ budget' = [budget EXCEPT !.failed = TRUE] /\ UNCHANGED <<history, current>> /\ Known' = Known
  BY DEF X!RunFails, Known
<1>2. BudgetOK' /\ Said' = Said
  BY <1>1 DEF ExtractorInv, BudgetOK, Said
<1>3. g \in 1 .. Len(state)
  <2>1. run \in Seq(Reading) /\ r \in 1 .. Len(run)
    BY DEF ExtractorInv, RunsOK
  <2>2. QED
    BY <2>1 DEF ExtractorInv, RunsOK
<1>4. state[g].cursor \in Cursor
  <2>1. state[g] \in Extractor
    BY <1>3 DEF ExtractorInv, Sound
  <2>2. QED
    BY <2>1 DEF Extractor
<1>5. current = g =>
         /\ CursorOK(state[g].cursor, Known, Said)
         /\ Covers(history, state[g].cursor, Known)
         /\ state[current].pending # <<>> => Covers(state[current].pending, state[g].cursor, Known)
  BY <1>3 DEF ExtractorInv, Sees
<1> HIDE DEF g
<1>6. run[r].of = g /\ run[r].pc # "ended" /\ Known' = Known /\ Known \subseteq Known'
  BY <1>1 DEF g
<1>7. QED
  BY <1>1, <1>2, <1>4, <1>5, <1>6, DrainedKeeps

LEMMA ExtractionEndsKeeps ==
    ASSUME ExtractorInv, NEW r \in DOMAIN run, X!RunEnds(r)
    PROVE  ExtractorInv'
<1> DEFINE g == run[r].of
           m == run[r].messages
<1>1. /\ run[r].pc = "reading" /\ X!Drained(r, X!LastOf(m))
      /\ Known' = Known \cup run[r].window
      /\ UNCHANGED <<history, current, budget>>
  BY DEF X!RunEnds, Known
<1>2. BudgetOK' /\ Said' = Said /\ Said \in Nat
  BY <1>1, MineIsSound DEF ExtractorInv, BudgetOK, Said
<1>3. r \in 1 .. Len(run) /\ g \in 1 .. Len(state) /\ Talk(m, Said) /\ Before(m, history)
  <2>1. run \in Seq(Reading) /\ r \in 1 .. Len(run)
    BY DEF ExtractorInv, RunsOK
  <2>2. QED
    BY <2>1 DEF ExtractorInv, RunsOK
<1>4. X!LastOf(m) \in Cursor
  <2>1. Len(m) \in Nat \ {0} /\ m[Len(m)] \in Message
    BY <1>2, <1>3, TalkHas
  <2>2. QED
    BY <2>1 DEF X!LastOf, Message, Cursor
<1>5. ASSUME current = g
      PROVE  /\ CursorOK(X!LastOf(m), Known', Said) /\ Covers(history, X!LastOf(m), Known')
             /\ state[current].pending # <<>> =>
                   Covers(state[current].pending, X!LastOf(m), Known')
  <2>1. Sees(g, state[g], run, history, Known, Said) /\ Sound(g, state[g], run, history, Said)
    BY <1>3, <1>5 DEF ExtractorInv
  <2>2. \A i \in 1 .. Len(m) : Seen(m[i], Known) \/ m[i].turn \in run[r].window
    BY <1>1, <1>3, <2>1 DEF Sees
  <2>3. \A i \in 1 .. Len(m) : Seen(m[i], Known')
    BY <1>1, <2>2 DEF Seen
  <2>4. /\ CursorOK(X!LastOf(m), Known', Said)
        /\ \A s : Talk(s, Said) /\ Before(m, s) => Covers(s, X!LastOf(m), Known')
    <3> HIDE DEF m
    <3> QED
      BY <1>2, <1>3, <2>3, LastIsSeen
  <2>5. Covers(history, X!LastOf(m), Known')
    <3>1. CASE history = <<>>
      <4>1. <<>> \in Seq(Message) /\ Len(<<>>) = 0
        OBVIOUS
      <4>2. X!After(<<>>, X!LastOf(m)) \in 0 .. 0
        BY <1>4, <4>1, AfterIsPlace
      <4>3. X!After(history, X!LastOf(m)) = 0
        BY <3>1, <4>2
      <4>4. QED
        BY <4>3 DEF Covers
    <3>2. CASE history # <<>>
      <4>1. Talk(history, Said)
        BY <3>2 DEF ExtractorInv, HistoryOK
      <4>2. QED
        BY <1>3, <2>4, <4>1
    <3>3. QED
      BY <3>1, <3>2
  <2>6. state[g].pending # <<>> => Talk(state[g].pending, Said) /\ Before(m, state[g].pending)
    <3>1. r \in Busy(run, g)
      BY <1>1, <1>3 DEF Busy
    <3>2. state[g].inFlight = r
      BY <2>1, <3>1 DEF Sound
    <3>3. QED
      BY <2>1, <3>2 DEF Sound
  <2>7. QED
    BY <1>3, <1>5, <2>4, <2>5, <2>6
<1> HIDE DEF g, m
<1>6. run[r].of = g /\ run[r].pc # "ended" /\ Known \subseteq Known'
  BY <1>1 DEF g
<1>7. QED
  BY <1>1, <1>2, <1>4, <1>5, <1>6, DrainedKeeps

LEMMA ExtractorStep ==
    ASSUME ExtractorInv, X!Next
    PROVE  ExtractorInv'
<1>1. CASE \E r \in DOMAIN run : X!Extracts(r)
  BY <1>1, ExtractionStartsKeeps, ExtractionFailsKeeps, ExtractionEndsKeeps DEF X!Extracts
<1>2. CASE X!SessionEnd
  <2>1. /\ budget' = [budget EXCEPT !.ends = @ - 1] /\ current' = 0
        /\ UNCHANGED <<history, state, run>>
    BY <1>2 DEF X!SessionEnd, X!None
  <2>2. BudgetOK' /\ Said' = Said
    <3>1. BudgetOK
      BY DEF ExtractorInv
    <3>2. budget.ends - 1 \in Int /\ budget'.turns = budget.turns
      BY <2>1, <3>1 DEF BudgetOK
    <3>3. QED
      BY <2>1, <3>1, <3>2 DEF BudgetOK, Said
  <2>3. QED
    BY <2>1, <2>2 DEF ExtractorInv
<1>3. CASE X!Dies
  <2>1. /\ budget' = [budget EXCEPT !.ends = @ - 1] /\ current' = 0
        /\ state' = <<>> /\ run' = <<>> /\ UNCHANGED history
    BY <1>3 DEF X!Dies, X!None
  <2>2. BudgetOK' /\ Said' = Said
    <3>1. BudgetOK
      BY DEF ExtractorInv
    <3>2. budget.ends - 1 \in Int /\ budget'.turns = budget.turns
      BY <2>1, <3>1 DEF BudgetOK
    <3>3. QED
      BY <2>1, <3>1, <3>2 DEF BudgetOK, Said
  <2>3. RunsOK(<<>>, 0, history, Said) /\ Len(<<>>) = 0 /\ <<>> \in Seq(Extractor)
    BY DEF RunsOK
  <2>4. QED
    BY <2>1, <2>2, <2>3 DEF ExtractorInv
<1>4. QED
  BY <1>1, <1>2, <1>3, TurnEndsKeeps, CompactKeeps, ResetKeeps DEF X!Next

LEMMA ExtractorInitially == X!ExtractorAssumption /\ X!Init => ExtractorInv
<1> SUFFICES ASSUME X!ExtractorAssumption, X!Init PROVE ExtractorInv
  OBVIOUS
<1>1. BudgetOK /\ Said = 0
  BY DEF X!Init, BudgetOK, X!ExtractorAssumption, Said
<1>2. RunsOK(<<>>, 0, history, Said) /\ Len(<<>>) = 0 /\ <<>> \in Seq(Extractor)
  BY DEF RunsOK
<1>3. history \in Seq(Message) /\ HistoryOK(history, Said)
  BY <1>1, <1>2 DEF X!Init, HistoryOK
<1>4. QED
  BY <1>1, <1>2, <1>3 DEF X!Init, ExtractorInv, X!None

LEMMA ExtractorImplies == ExtractorInv => X!NothingIsSkipped /\ X!OneExtractionEach
<1> SUFFICES ASSUME ExtractorInv PROVE X!NothingIsSkipped /\ X!OneExtractionEach
  OBVIOUS
<1>1. X!NothingIsSkipped
  BY DEF X!NothingIsSkipped, ExtractorInv, X!Exists, X!None, X!Mine, Sees, Covers, Seen, Known
<1>2. X!OneExtractionEach
  <2>1. DOMAIN state = 1 .. Len(state) /\ DOMAIN run = 1 .. Len(run)
    BY LenProperties DEF ExtractorInv, RunsOK
  <2>2. \A g : {r \in DOMAIN run : run[r].of = g /\ X!Running(r)} = Busy(run, g)
    BY <2>1 DEF Busy, X!Running
  <2>3. QED
    BY <2>1, <2>2 DEF X!OneExtractionEach, ExtractorInv, Sound, X!None
<1>3. QED
  BY <1>1, <1>2

--------------------------------------------------------------------------------
(* The three together. *)

MCNext == MCCron \/ MCRecall \/ MCExtraction \/ MCSkills

LEMMA CurationRests ==
    ASSUME CuratorInv, UNCHANGED curation PROVE CuratorInv'
<1>1. S!CuratorTypeOK' /\ S!EventsAreCounted' /\ S!PinnedStay' /\ UsageIsRecords'
  BY DEF CuratorInv, S!SkillsAreSound, S!CuratorTypeOK, S!EventsAreCounted, S!PinnedStay,
         UsageIsRecords, S!Recorded, curation
<1>2. \A p \in Process : ProcessKnows(p)'
  BY DEF CuratorInv, ProcessKnows, IsLocked, curation
<1>3. QED
  BY <1>1, <1>2 DEF CuratorInv, S!SkillsAreSound, curation

LEMMA RecallRests ==
    ASSUME RecallInv, UNCHANGED recalling PROVE RecallInv'
  BY BackgroundAssumption, SleeperKeeps DEF recalling

LEMMA ExtractionRests ==
    ASSUME ExtractorInv, UNCHANGED extraction PROVE ExtractorInv'
<1>1. BudgetOK' /\ Said' = Said
  BY DEF ExtractorInv, BudgetOK, Said, extraction
<1>2. Known' = Known
  BY DEF Known, extraction
<1>3. QED
  BY <1>1, <1>2 DEF ExtractorInv, extraction

\* However processes count, curate, change the flags and die, no use of a skill is lost and
\* nobody ages a pinned one.
THEOREM SkillsSound == MCSpec => []SkillsAreSound
<1>1. MCInit => CuratorInv
  BY BackgroundAssumption, CuratorInitially DEF MCInit
<1>2. CuratorInv /\ [MCNext]_<<vars, others, about>> => CuratorInv'
  <2> SUFFICES ASSUME CuratorInv, [MCNext]_<<vars, others, about>> PROVE CuratorInv'
    OBVIOUS
  <2>1. S!CuratorNext \/ UNCHANGED curation
    BY DEF MCNext, MCCron, MCRecall, MCExtraction, MCSkills, others
  <2>2. QED
    BY <2>1, BackgroundAssumption, CuratorStep, CurationRests
<1>3. CuratorInv => SkillsAreSound
  BY DEF CuratorInv, SkillsAreSound
<1>4. QED
  BY <1>1, <1>2, <1>3, PTL DEF MCSpec, MCNext

\* Whatever is edited, searched, promoted, compacted, reset, stashed and overtaken, and whenever
\* the daemon dies: what the manifest calls indexed is in the index, MEMORY.md has what was
\* promoted once, and a state has one extraction.  Of the turns before the cursor, each was
\* given to an extraction or written up by the agent, or is one that was passed over when the
\* id of the cursor, a place and the first characters, was that of another message: that is
\* the one way of losing a turn, for any set of such characters.
THEOREM MemoryExact == MCSpec => []MemoryIsExact
<1> DEFINE Inv == RecallInv /\ ExtractorInv
<1>1. MCInit => Inv
  BY BackgroundAssumption, RecallInitially, ExtractorInitially DEF MCInit
<1>2. Inv /\ [MCNext]_<<vars, others, about>> => Inv'
  <2> SUFFICES ASSUME RecallInv, ExtractorInv, [MCNext]_<<vars, others, about>>
               PROVE  RecallInv' /\ ExtractorInv'
    OBVIOUS
  <2>1. /\ R!Next \/ UNCHANGED recalling
        /\ X!Next \/ UNCHANGED extraction
    BY DEF MCNext, MCCron, MCRecall, MCExtraction, MCSkills, others
  <2>2. RecallInv'
    BY <2>1, BackgroundAssumption, RecallStep, RecallRests
  <2>3. ExtractorInv'
    BY <2>1, ExtractorStep, ExtractionRests
  <2>4. QED
    BY <2>2, <2>3
<1>3. Inv => MemoryIsExact
  BY ExtractorImplies DEF RecallInv, MemoryIsExact
<1> HIDE DEF Inv
<1>4. QED
  BY <1>1, <1>2, <1>3, PTL DEF MCSpec, MCNext

--------------------------------------------------------------------------------
(* Cron: the strengthening that is inductive. *)

Live(r) == phase[r] # "free"

\* A run that is not over has a job that was created, and it was due.
RunsAreDue ==
    \A r \in Run : Live(r) =>
        /\ job[r] \in Job
        /\ born[job[r]] # Never
        /\ slot[r] \in Nat
        /\ slot[r] <= now

OneRunEach == \A q, r \in Run : Live(q) /\ Live(r) /\ job[q] = job[r] => q = r

DownIsIdle == loop = "down" => \A r \in Run : ~ Live(r)

\* running_at_ms of a job that still exists is set as long as its run goes on, so
\* the next tick does not find it due.
RunningIsMarked == \A r \in Run : phase[r] = "running" /\ job[r] \in jobs => job[r] \in marked

\* An id is new until it is used.
UnbornIsNew == \A j \in Job : born[j] = Never => j \notin jobs /\ fired[j] = {}

\* What a run is for lies after everything its job was run for.
SlotsAhead ==
    \A r \in Run : Live(r) /\ job[r] \notin unrecorded =>
        \A f \in fired[job[r]] : job[r] \in Recurring /\ f < slot[r]

\* So does what a job waits for; the record of the last run covers what was run.
NextAhead ==
    \A j \in jobs \ unrecorded : \A f \in fired[j] :
        /\ j \in Recurring
        /\ f <= now
        /\ lastRun[j] # Never /\ f <= lastRun[j]
        /\ next[j] # Never => f < next[j]

CronIndInv ==
    /\ TypeOK
    /\ RunsAreDue
    /\ OneRunEach
    /\ DownIsIdle
    /\ RunningIsMarked
    /\ NoStuckJob
    /\ UnbornIsNew
    /\ SlotsAhead
    /\ NextAhead
    /\ NoRefire

--------------------------------------------------------------------------------
(* Cron expressions. *)

LEMMA OccurrenceBounds ==
    ASSUME NEW t \in Nat
    PROVE  /\ LastOccurrence(t) \in Nat /\ LastOccurrence(t) <= t
           /\ NextOccurrence(t) \in Nat /\ t < NextOccurrence(t)
<1>1. Period \in Nat /\ Period > 0
  BY NumbersAreNumbers
<1>2. t % Period \in 0 .. Period - 1 /\ t % Period <= t
  BY <1>1
<1>3. QED
  BY <1>1, <1>2 DEF LastOccurrence, NextOccurrence

--------------------------------------------------------------------------------
(* Steps. *)

USE JobsAreDistinct, NeverIsNoTime, NumbersAreNumbers DEF Job, Time

\* The tasks that are created have free places and jobs of their own.
LEMMA SpawnEffect ==
    ASSUME TypeOK, NEW js \in SUBSET Job, NEW nx, Spawn(js, nx),
           \A j \in js : nx[j] \in Nat /\ nx[j] <= now
    PROVE  /\ phase' \in [Run -> {"free", "queued", "running"}]
           /\ job' \in [Run -> Job \cup {NoJob}]
           /\ slot' \in [Run -> Nat \cup {Never}]
           /\ \A r \in Run :
                \/ UNCHANGED <<phase[r], job[r], slot[r]>>
                \/ /\ phase[r] = "free" /\ phase'[r] = "queued"
                   /\ job'[r] \in js /\ slot'[r] = nx[job'[r]]
           /\ \A q, r \in Run :
                /\ phase[q] = "free" /\ phase'[q] = "queued"
                /\ phase[r] = "free" /\ phase'[r] = "queued"
                /\ job'[q] = job'[r]
                => q = r
<1>1. PICK f \in [js -> FreeRuns] :
        /\ \A i, j \in js : i # j => f[i] # f[j]
        /\ phase' = [r \in Run |-> IF \E j \in js : f[j] = r THEN "queued" ELSE phase[r]]
        /\ job' = [r \in Run |-> IF \E j \in js : f[j] = r
                                 THEN CHOOSE j \in js : f[j] = r ELSE job[r]]
        /\ slot' = [r \in Run |-> IF \E j \in js : f[j] = r
                                  THEN nx[CHOOSE j \in js : f[j] = r] ELSE slot[r]]
  BY DEF Spawn
<1>2. ASSUME NEW r \in Run, \E j \in js : f[j] = r
      PROVE  /\ phase[r] = "free" /\ phase'[r] = "queued"
             /\ job'[r] \in js /\ f[job'[r]] = r /\ slot'[r] = nx[job'[r]]
  <2>1. job'[r] = CHOOSE j \in js : f[j] = r
    BY <1>1, <1>2
  <2>2. job'[r] \in js /\ f[job'[r]] = r
    BY <1>2, <2>1
  <2>3. slot'[r] = nx[job'[r]]
    BY <1>1, <1>2, <2>1
  <2>4. phase[r] = "free" /\ phase'[r] = "queued"
    BY <1>1, <1>2, <2>2 DEF FreeRuns
  <2>5. QED
    BY <2>2, <2>3, <2>4
<1>3. ASSUME NEW r \in Run, ~ \E j \in js : f[j] = r
      PROVE  UNCHANGED <<phase[r], job[r], slot[r]>>
  BY <1>1, <1>3
<1>4. \A r \in Run : \/ UNCHANGED <<phase[r], job[r], slot[r]>>
                     \/ /\ phase[r] = "free" /\ phase'[r] = "queued"
                        /\ job'[r] \in js /\ slot'[r] = nx[job'[r]]
  BY <1>2, <1>3
<1>5. ASSUME NEW q \in Run, NEW r \in Run, job'[q] = job'[r],
             phase[q] = "free", phase'[q] = "queued", phase[r] = "free", phase'[r] = "queued"
      PROVE  q = r
  <2>1. (\E j \in js : f[j] = q) /\ (\E j \in js : f[j] = r)
    BY <1>3, <1>5
  <2>2. QED
    BY <1>2, <1>5, <2>1
<1>6. /\ phase' \in [Run -> {"free", "queued", "running"}]
      /\ job' \in [Run -> Job \cup {NoJob}]
      /\ slot' \in [Run -> Nat \cup {Never}]
  <2>1. \A r \in Run : /\ phase'[r] \in {"free", "queued", "running"}
                       /\ job'[r] \in Job \cup {NoJob}
                       /\ slot'[r] \in Nat \cup {Never}
    BY <1>4 DEF TypeOK
  <2>2. QED
    BY <1>1, <2>1
<1>7. QED
  BY <1>4, <1>5, <1>6

\* The same of the invariant: jobs that have no run and wait for a slot that has come.
LEMMA SpawnKeepsRuns ==
    ASSUME CronIndInv, NEW js \in SUBSET jobs, NEW nx, Spawn(js, nx),
           \A j \in js : nx[j] \in Nat /\ nx[j] <= now,
           \A j \in js, r \in Run : Live(r) => job[r] # j,
           \A j \in js \ unrecorded : \A f \in fired[j] : j \in Recurring /\ f < nx[j],
           UNCHANGED <<now, jobs, historyVars>>, marked \subseteq marked' \/ loop = "down"
    PROVE  RunsAreDue' /\ OneRunEach' /\ RunningIsMarked' /\ SlotsAhead'
<1> USE DEF CronIndInv
<1>1. js \subseteq Job /\ jobs \subseteq Job
  BY DEF TypeOK
<1>2. \A r \in Run :
        \/ UNCHANGED <<phase[r], job[r], slot[r]>>
        \/ /\ phase[r] = "free" /\ phase'[r] = "queued"
           /\ job'[r] \in js /\ slot'[r] = nx[job'[r]]
  BY <1>1, SpawnEffect
<1>3. \A q, r \in Run :
        /\ phase[q] = "free" /\ phase'[q] = "queued"
        /\ phase[r] = "free" /\ phase'[r] = "queued"
        /\ job'[q] = job'[r]
        => q = r
  BY <1>1, SpawnEffect
<1>4. UNCHANGED <<now, jobs, born, fired, unrecorded>>
  BY DEF historyVars
<1>5. RunsAreDue'
  <2>1. \A j \in js : born[j] # Never
    BY <1>1 DEF UnbornIsNew
  <2>2. QED
    BY <1>1, <1>2, <1>4, <2>1 DEF RunsAreDue, Live
<1>6. OneRunEach'
  BY <1>2, <1>3 DEF OneRunEach, Live
<1>7. RunningIsMarked'
  BY <1>2, <1>4 DEF RunningIsMarked, DownIsIdle, Live
<1>8. SlotsAhead'
  BY <1>2, <1>4 DEF SlotsAhead, Live
<1>9. QED
  BY <1>5, <1>6, <1>7, <1>8

LEMMA CronIndInvInit == Init => CronIndInv
<1> SUFFICES ASSUME Init PROVE CronIndInv
  OBVIOUS
<1>1. TypeOK
  BY DEF Init, TypeOK
<1>2. NoStuckJob /\ NoRefire
  BY DEF Init, NoStuckJob, NoRefire
<1>3. QED
  BY <1>1, <1>2 DEF Init, CronIndInv, RunsAreDue, OneRunEach, DownIsIdle, RunningIsMarked,
                    UnbornIsNew, SlotsAhead, NextAhead, Live

\* A minute goes by.
LEMMA MinuteKeeps == CronIndInv /\ Minute => CronIndInv'
<1> SUFFICES ASSUME CronIndInv, Minute PROVE CronIndInv'
  OBVIOUS
<1> USE DEF CronIndInv, Minute, fileVars, runVars, historyVars, boundVars
<1>1. TypeOK' /\ now <= now'
  BY DEF TypeOK
<1>2. RunsAreDue'
  BY <1>1 DEF RunsAreDue, Live, TypeOK
<1>3. NextAhead'
  <2>1. \A j \in jobs : fired[j] \subseteq Nat /\ now \in Nat /\ now' \in Nat
    BY <1>1 DEF TypeOK
  <2>2. QED
    BY <1>1, <2>1 DEF NextAhead
<1>4. OneRunEach' /\ DownIsIdle' /\ RunningIsMarked' /\ NoStuckJob' /\ UnbornIsNew'
      /\ SlotsAhead' /\ NoRefire'
  BY DEF OneRunEach, DownIsIdle, RunningIsMarked, NoStuckJob, LiveRuns, UnbornIsNew, SlotsAhead,
         NoRefire, Live
<1>5. QED
  BY <1>1, <1>2, <1>3, <1>4

\* cron_create and schedule_wakeup: the job is new, nothing was run for it.
LEMMA CreateKeeps ==
    ASSUME CronIndInv, NEW j \in Job, NEW at \in Nat, Create(j, at),
           fireAt' \in [Job -> Nat \cup {Never}]
    PROVE  CronIndInv'
<1> USE DEF CronIndInv, Create, runVars, boundVars
<1>1. TypeOK'
  BY DEF TypeOK
<1>2. j \notin jobs /\ fired[j] = {} /\ \A r \in Run : Live(r) => job[r] # j
  BY DEF UnbornIsNew, RunsAreDue
<1>3. RunsAreDue' /\ UnbornIsNew'
  BY <1>2 DEF RunsAreDue, UnbornIsNew, Live, TypeOK
<1>4. OneRunEach' /\ DownIsIdle' /\ NoStuckJob' /\ SlotsAhead' /\ NoRefire'
  BY DEF OneRunEach, DownIsIdle, NoStuckJob, LiveRuns, SlotsAhead, NoRefire, Live
<1>5. RunningIsMarked'
  BY <1>2 DEF RunningIsMarked, Live
<1>6. NextAhead'
  BY <1>2 DEF NextAhead, TypeOK
<1>7. QED
  BY <1>1, <1>3, <1>4, <1>5, <1>6

LEMMA ToolsKeep ==
    ASSUME CronIndInv, NEW j \in Job, CronCreate(j) \/ ScheduleWakeup(j)
    PROVE  CronIndInv'
<1>1. now \in Nat /\ fireAt \in [Job -> Nat \cup {Never}]
  BY DEF CronIndInv, TypeOK
<1>2. CASE CronCreate(j)
  BY <1>1, <1>2, OccurrenceBounds, CreateKeeps DEF CronCreate
<1>3. CASE ScheduleWakeup(j)
  <2>1. PICK delay \in 1 .. 2 :
          Create(j, now + delay) /\ fireAt' = [fireAt EXCEPT ![j] = now + delay]
    BY <1>3 DEF ScheduleWakeup
  <2>2. QED
    BY <1>1, <2>1, CreateKeeps
<1>4. QED
  BY <1>2, <1>3

\* cron_delete: a run that is under way goes on, without a job.
LEMMA DeleteKeeps ==
    ASSUME CronIndInv, NEW j \in Job, Delete(j)
    PROVE  CronIndInv'
<1> USE DEF CronIndInv, Delete, Forget, runVars, historyVars, boundVars
<1>1. TypeOK'
  BY DEF TypeOK
<1>2. RunsAreDue' /\ OneRunEach' /\ DownIsIdle' /\ NoStuckJob' /\ UnbornIsNew' /\ SlotsAhead'
      /\ NoRefire'
  BY DEF RunsAreDue, OneRunEach, DownIsIdle, NoStuckJob, LiveRuns, UnbornIsNew, SlotsAhead,
         NoRefire, Live
<1>3. RunningIsMarked'
  BY DEF RunningIsMarked
<1>4. NextAhead'
  BY DEF NextAhead, TypeOK
<1>5. QED
  BY <1>1, <1>2, <1>3, <1>4

\* The recovery: no run is left over, and what it starts was not run yet.
LEMMA RecoveryKeeps == CronIndInv /\ Recovery => CronIndInv'
<1> SUFFICES ASSUME CronIndInv, Recovery PROVE CronIndInv'
  OBVIOUS
<1> DEFINE nx == [j \in Job |-> IF j \in jobs THEN Recovered(j) ELSE next[j]]
           dueJobs == {j \in jobs : j \notin marked' /\ nx[j] # Never /\ nx[j] <= now}
<1> USE DEF CronIndInv
<1>1. /\ loop = "down" /\ loop' = "recovering" /\ marked' = {} /\ stored' = stored \cup jobs
      /\ next' = nx
      /\ UNCHANGED <<now, jobs, lastRun, fireAt, historyVars, boundVars>>
  BY DEF Recovery, RecoverInterrupted
<1>2. PICK js \in SUBSET dueJobs :
        /\ staggered' = dueJobs \ js
        /\ Spawn(js, nx)
        /\ missed' = {r \in Run : phase'[r] = "queued" /\ phase[r] = "free"}
  BY DEF Recovery
<1>3. /\ now \in Nat /\ jobs \subseteq Job
      /\ \A j \in Job : lastRun[j] \in Nat \cup {Never} /\ fired[j] \subseteq Nat
  BY DEF TypeOK
<1>4. \A j \in Job : Recovered(j) \in Nat \cup {Never}
  BY <1>3, OccurrenceBounds DEF Recovered, TypeOK
<1>5. nx \in [Job -> Nat \cup {Never}]
  BY <1>4 DEF TypeOK
<1>6. \A j \in jobs \ unrecorded : \A f \in fired[j] :
        /\ j \in Recurring /\ f <= now /\ lastRun[j] # Never /\ f <= lastRun[j]
        /\ nx[j] # Never => f < nx[j]
  <2> SUFFICES ASSUME NEW j \in jobs \ unrecorded, NEW f \in fired[j]
               PROVE  /\ j \in Recurring /\ f <= now /\ lastRun[j] # Never /\ f <= lastRun[j]
                      /\ f < Recovered(j)
    BY <1>3
  <2>1. /\ j \in Recurring /\ f <= now /\ lastRun[j] # Never /\ f <= lastRun[j]
        /\ f \in Nat /\ lastRun[j] \in Nat
    BY <1>3 DEF NextAhead
  <2>2. f < Recovered(j)
    BY <1>3, <2>1, OccurrenceBounds DEF Recovered
  <2>3. QED
    BY <2>1, <2>2
<1>7. \A j \in js : nx[j] \in Nat /\ nx[j] <= now /\ j \in jobs /\ j \in Job
  BY <1>3, <1>5
<1> HIDE DEF nx, dueJobs
<1>8. /\ phase' \in [Run -> {"free", "queued", "running"}]
      /\ job' \in [Run -> Job \cup {NoJob}]
      /\ slot' \in [Run -> Nat \cup {Never}]
  BY <1>2, <1>7, SpawnEffect
<1>9. TypeOK'
  BY <1>1, <1>2, <1>3, <1>5, <1>8 DEF TypeOK, historyVars, boundVars, dueJobs
<1>10. RunsAreDue' /\ OneRunEach' /\ RunningIsMarked' /\ SlotsAhead'
  <2>1. \A j \in js, r \in Run : Live(r) => job[r] # j
    BY <1>1 DEF DownIsIdle
  <2>2. \A j \in js \ unrecorded : \A f \in fired[j] : j \in Recurring /\ f < nx[j]
    BY <1>6, <1>7
  <2>3. js \in SUBSET jobs
    BY <1>7
  <2>4. QED
    BY <1>1, <1>2, <1>7, <2>1, <2>2, <2>3, SpawnKeepsRuns
<1>11. DownIsIdle' /\ NoStuckJob' /\ UnbornIsNew' /\ NoRefire'
  BY <1>1 DEF DownIsIdle, NoStuckJob, UnbornIsNew, NoRefire, historyVars
<1>12. NextAhead'
  BY <1>1, <1>6 DEF NextAhead, historyVars
<1>13. QED
  BY <1>9, <1>10, <1>11, <1>12

\* The staggered jobs get a slot that is still to come.
LEMMA RecoveryEndsKeeps == CronIndInv /\ RecoveryEnds => CronIndInv'
<1> SUFFICES ASSUME CronIndInv, RecoveryEnds PROVE CronIndInv'
  OBVIOUS
<1> USE DEF CronIndInv, RecoveryEnds, historyVars, boundVars
<1>1. now \in Nat /\ \A j \in Job : fired[j] \subseteq Nat
  BY DEF TypeOK
<1>2. \A j \in Job : AfterRun(j, now) \in Nat \cup {Never}
  BY <1>1, OccurrenceBounds DEF AfterRun, TypeOK
<1>3. TypeOK'
  BY <1>2 DEF TypeOK
<1>4. NextAhead'
  <2> SUFFICES ASSUME NEW j \in jobs \ unrecorded, NEW f \in fired[j]
               PROVE  /\ j \in Recurring /\ f <= now /\ lastRun[j] # Never /\ f <= lastRun[j]
                      /\ next'[j] # Never => f < next'[j]
    BY DEF NextAhead
  <2>1. /\ j \in Recurring /\ f <= now /\ lastRun[j] # Never /\ f <= lastRun[j]
        /\ next[j] # Never => f < next[j]
        /\ j \in Job /\ f \in Nat
    BY <1>1 DEF NextAhead, TypeOK
  <2>2. f < AfterRun(j, now)
    BY <1>1, <2>1, OccurrenceBounds DEF AfterRun
  <2>3. QED
    BY <2>1, <2>2
<1>5. RunsAreDue' /\ OneRunEach' /\ DownIsIdle' /\ RunningIsMarked' /\ NoStuckJob'
      /\ UnbornIsNew' /\ SlotsAhead' /\ NoRefire'
  BY DEF RunsAreDue, OneRunEach, DownIsIdle, RunningIsMarked, NoStuckJob, LiveRuns,
         UnbornIsNew, SlotsAhead, NoRefire, Live
<1>6. QED
  BY <1>3, <1>4, <1>5

\* A tick: all runs have set their mark, so a job that has a run is not due.
LEMMA TickKeeps == CronIndInv /\ Tick => CronIndInv'
<1> SUFFICES ASSUME CronIndInv, Tick PROVE CronIndInv'
  OBVIOUS
<1> USE DEF CronIndInv
<1>1. /\ loop = "ticking" /\ Queued = {}
      /\ UNCHANGED <<now, fileVars, loop, staggered, missed, historyVars, boundVars>>
  BY DEF Tick
<1>2. PICK js \in SUBSET Due(next, marked) : Spawn(js, next)
  BY DEF Tick
<1>3. \A j \in js : /\ j \in jobs /\ j \in Job /\ j \notin marked
                    /\ next[j] \in Nat /\ next[j] <= now /\ next[j] # Never
  BY DEF Due, TypeOK
<1>4. /\ phase' \in [Run -> {"free", "queued", "running"}]
      /\ job' \in [Run -> Job \cup {NoJob}]
      /\ slot' \in [Run -> Nat \cup {Never}]
      /\ \A r \in Run : \/ UNCHANGED <<phase[r], job[r], slot[r]>>
                        \/ phase[r] = "free" /\ phase'[r] = "queued"
  BY <1>2, <1>3, SpawnEffect
<1>5. TypeOK'
  BY <1>1, <1>4 DEF TypeOK, fileVars, historyVars, boundVars
<1>6. \A j \in js, r \in Run : Live(r) => job[r] # j
  <2>1. \A r \in Run : Live(r) => phase[r] = "running"
    BY <1>1 DEF Queued, Live, TypeOK
  <2>2. QED
    BY <1>3, <2>1 DEF RunningIsMarked
<1>7. RunsAreDue' /\ OneRunEach' /\ RunningIsMarked' /\ SlotsAhead'
  <2>1. \A j \in js \ unrecorded : \A f \in fired[j] : j \in Recurring /\ f < next[j]
    BY <1>3 DEF NextAhead
  <2>2. js \in SUBSET jobs
    BY <1>3
  <2>3. UNCHANGED <<now, jobs, historyVars>> /\ marked \subseteq marked'
    BY <1>1 DEF fileVars
  <2>4. QED
    BY <1>2, <1>3, <1>6, <2>1, <2>2, <2>3, SpawnKeepsRuns
<1>8. NoStuckJob'
  <2> SUFFICES ASSUME NEW j \in marked, NEW r \in LiveRuns(j), phase[r] = "running"
               PROVE  r \in LiveRuns(j)' /\ phase'[r] = "running"
    BY <1>1 DEF NoStuckJob, fileVars
  <2>1. QED
    BY <1>4 DEF LiveRuns
<1>9. DownIsIdle' /\ UnbornIsNew' /\ NextAhead' /\ NoRefire'
  BY <1>1 DEF DownIsIdle, UnbornIsNew, NextAhead, NoRefire, fileVars, historyVars
<1>10. QED
  BY <1>5, <1>7, <1>8, <1>9

\* A task takes its first step: the mark is saved.
LEMMA RunStartsKeeps ==
    ASSUME CronIndInv, NEW r \in Run, RunStarts(r)
    PROVE  CronIndInv'
<1> USE DEF CronIndInv, RunStarts, historyVars, boundVars
<1>1. job[r] \in Job /\ phase' = [phase EXCEPT ![r] = "running"]
  BY DEF RunsAreDue, Live
<1>2. TypeOK'
  BY <1>1 DEF TypeOK
<1>3. RunsAreDue' /\ OneRunEach' /\ DownIsIdle' /\ UnbornIsNew' /\ SlotsAhead' /\ NextAhead'
      /\ NoRefire'
  BY <1>1 DEF RunsAreDue, OneRunEach, DownIsIdle, UnbornIsNew, SlotsAhead, NextAhead, NoRefire,
              Live, TypeOK
<1>4. RunningIsMarked'
  BY <1>1 DEF RunningIsMarked, TypeOK
<1>5. NoStuckJob'
  BY <1>1 DEF NoStuckJob, LiveRuns, TypeOK
<1>6. QED
  BY <1>2, <1>3, <1>4, <1>5

\* A run gives up its place; its job had no other run.
LEMMA FreeKeepsRuns ==
    ASSUME CronIndInv, NEW r \in Run, Live(r), Free(r), UNCHANGED <<now, born, loop>>,
           jobs' \subseteq jobs, marked' = marked \ {job[r]},
           \A j \in Job \ {job[r]} : UNCHANGED fired[j], unrecorded \subseteq unrecorded'
    PROVE  /\ RunsAreDue' /\ OneRunEach' /\ DownIsIdle' /\ RunningIsMarked' /\ NoStuckJob'
           /\ SlotsAhead'
<1> USE DEF CronIndInv, Live
<1>1. /\ phase' = [phase EXCEPT ![r] = "free"]
      /\ job' = [job EXCEPT ![r] = NoJob]
      /\ slot' = [slot EXCEPT ![r] = Never]
  BY DEF Free
<1>2. \A q \in Run \ {r} : /\ UNCHANGED <<phase[q], job[q], slot[q]>>
                           /\ Live(q) => job[q] # job[r]
  BY <1>1 DEF OneRunEach, TypeOK
<1>3. phase'[r] = "free"
  BY <1>1 DEF TypeOK
<1>4. RunsAreDue' /\ OneRunEach' /\ DownIsIdle' /\ RunningIsMarked'
  BY <1>2, <1>3 DEF RunsAreDue, OneRunEach, DownIsIdle, RunningIsMarked
<1>5. NoStuckJob'
  BY <1>2 DEF NoStuckJob, LiveRuns
<1>6. SlotsAhead'
  BY <1>2, <1>3 DEF SlotsAhead, RunsAreDue
<1>7. QED
  BY <1>4, <1>5, <1>6

\* A run meets an update: its mark is cleared, the job is due again.
LEMMA RunDefersKeeps ==
    ASSUME CronIndInv, NEW r \in Run, RunDefers(r)
    PROVE  CronIndInv'
<1> USE DEF CronIndInv, RunDefers, historyVars
<1>1. job[r] \in Job /\ Live(r) /\ marked' = marked \ {job[r]}
  BY DEF RunsAreDue, Live, Unmarked
<1>2. TypeOK'
  BY <1>1 DEF TypeOK, Free
<1>3. /\ RunsAreDue' /\ OneRunEach' /\ DownIsIdle' /\ RunningIsMarked' /\ NoStuckJob'
      /\ SlotsAhead'
  BY <1>1, FreeKeepsRuns
<1>4. UnbornIsNew' /\ NextAhead' /\ NoRefire'
  BY DEF UnbornIsNew, NextAhead, NoRefire
<1>5. QED
  BY <1>2, <1>3, <1>4

\* A run is over: what it was for lies in the past of what its job waits for.
LEMMA RunEndsKeeps ==
    ASSUME CronIndInv, NEW r \in Run, RunEnds(r)
    PROVE  CronIndInv'
<1> DEFINE j == job[r]
<1> USE DEF CronIndInv
<1>1. /\ j \in Job /\ born[j] # Never /\ phase[r] = "running" /\ Live(r)
      /\ slot[r] \in Nat /\ slot[r] <= now /\ now \in Nat
  BY DEF RunEnds, RunsAreDue, Live, TypeOK
<1>2. /\ fired' = [fired EXCEPT ![j] = @ \cup {slot[r]}]
      /\ refired' = refired \cup
            {i \in {j} : IF i \in OneShot THEN fired[i] # {} ELSE slot[r] \in fired[i]}
      /\ UNCHANGED <<born, unrecorded, now, fireAt, loop, staggered, crashes, defers>>
      /\ Free(r)
  BY DEF RunEnds, Fired, boundVars
<1>3. /\ marked' = marked \ {j}
      /\ jobs' = IF j \in OneShot THEN jobs \ {j} ELSE jobs
      /\ j \in Recurring => /\ lastRun' = [lastRun EXCEPT ![j] = now]
                            /\ next' = [next EXCEPT ![j] = NextOccurrence(now)]
      /\ j \in OneShot => /\ lastRun' = [lastRun EXCEPT ![j] = Never]
                          /\ next' = [next EXCEPT ![j] = Never]
      /\ stored' = stored \cup {j} \/ stored' = stored \ {j}
  BY <1>1 DEF RunEnds, Forget, AfterRun
<1>4. NextOccurrence(now) \in Nat /\ now < NextOccurrence(now)
  BY <1>1, OccurrenceBounds
<1>5. TypeOK'
  <2>1. /\ fired' \in [Job -> SUBSET Nat] /\ refired' \in SUBSET Job
        /\ jobs' \in SUBSET Job /\ stored' \in SUBSET Job
    BY <1>1, <1>2, <1>3 DEF TypeOK
  <2>2. /\ next' \in [Job -> Nat \cup {Never}]
        /\ lastRun' \in [Job -> Time \cup {Never}]
    BY <1>1, <1>3, <1>4 DEF TypeOK
  <2>3. marked' \in SUBSET stored'
    BY <1>3 DEF TypeOK
  <2>4. /\ phase' \in [Run -> {"free", "queued", "running"}]
        /\ job' \in [Run -> Job \cup {NoJob}]
        /\ slot' \in [Run -> Nat \cup {Never}]
        /\ missed' \in SUBSET Run
    BY <1>2 DEF TypeOK, Free
  <2>5. QED
    BY <1>2, <2>1, <2>2, <2>3, <2>4 DEF TypeOK
<1>6. \A i \in Job \ {j} : UNCHANGED <<fired[i], lastRun[i], next[i]>>
  BY <1>1, <1>2, <1>3 DEF TypeOK
<1>7. /\ RunsAreDue' /\ OneRunEach' /\ DownIsIdle' /\ RunningIsMarked' /\ NoStuckJob'
      /\ SlotsAhead'
  BY <1>1, <1>2, <1>3, <1>6, FreeKeepsRuns
<1>8. UnbornIsNew'
  BY <1>1, <1>2, <1>3, <1>6 DEF UnbornIsNew
<1>9. NextAhead'
  <2> SUFFICES ASSUME NEW i \in jobs' \ unrecorded, NEW f \in fired'[i]
               PROVE  /\ i \in Recurring /\ f <= now /\ lastRun'[i] # Never /\ f <= lastRun'[i]
                      /\ next'[i] # Never => f < next'[i]
    BY <1>2 DEF NextAhead
  <2>1. i \in jobs /\ i \in Job
    BY <1>3 DEF TypeOK
  <2>2. CASE i = j
    <3>1. j \in Recurring /\ lastRun'[j] = now /\ next'[j] = NextOccurrence(now)
      BY <1>1, <1>3, <2>2 DEF TypeOK
    <3>2. f \in fired[j] \/ f = slot[r]
      BY <1>1, <1>2, <2>2 DEF TypeOK
    <3>3. f <= now /\ f \in Nat
      BY <1>1, <2>1, <2>2, <3>2 DEF NextAhead, TypeOK
    <3>4. QED
      BY <1>1, <1>4, <2>2, <3>1, <3>3
  <2>3. CASE i # j
    BY <1>6, <2>1, <2>3 DEF NextAhead
  <2>4. QED
    BY <2>2, <2>3
<1>10. NoRefire'
  <2>1. ASSUME j \notin unrecorded
        PROVE  ~ IF j \in OneShot THEN fired[j] # {} ELSE slot[r] \in fired[j]
    <3>1. \A f \in fired[j] : j \in Recurring /\ f < slot[r]
      BY <1>1, <2>1 DEF SlotsAhead
    <3>2. QED
      BY <1>1, <3>1
  <2>2. QED
    BY <1>2, <2>1 DEF NoRefire
<1>11. QED
  BY <1>5, <1>7, <1>8, <1>9, <1>10

\* The daemon dies: the files stay, no run is left.
LEMMA DiesKeeps ==
    ASSUME CronIndInv, Dies, UNCHANGED born, fired' \in [Job -> SUBSET Nat],
           refired' \in SUBSET Job, unrecorded' \in SUBSET Job, unrecorded \subseteq unrecorded',
           NoRefire', \A j \in Job \ unrecorded' : UNCHANGED fired[j],
           \A j \in Job : born[j] = Never => UNCHANGED fired[j]
    PROVE  CronIndInv'
<1> USE DEF CronIndInv, Dies, fileVars
<1>1. TypeOK'
  BY DEF TypeOK
<1>2. \A r \in Run : phase'[r] = "free"
  OBVIOUS
<1>3. RunsAreDue' /\ OneRunEach' /\ DownIsIdle' /\ RunningIsMarked' /\ NoStuckJob' /\ SlotsAhead'
  BY <1>2 DEF RunsAreDue, OneRunEach, DownIsIdle, RunningIsMarked, NoStuckJob, SlotsAhead, Live
<1>4. UnbornIsNew'
  BY DEF UnbornIsNew
<1>5. NextAhead'
  BY <1>1 DEF NextAhead, TypeOK
<1>6. QED
  BY <1>1, <1>3, <1>4, <1>5

LEMMA CrashesKeep ==
    ASSUME CronIndInv, Crash \/ \E r \in Run : CrashAfterTurn(r)
    PROVE  CronIndInv'
<1> USE DEF CronIndInv
<1>1. CASE Crash
  BY <1>1, DiesKeeps DEF Crash, historyVars, TypeOK, NoRefire
<1>2. ASSUME NEW r \in Run, CrashAfterTurn(r) PROVE CronIndInv'
  <2> DEFINE j == job[r]
  <2>1. j \in Job /\ born[j] # Never /\ slot[r] \in Nat
    BY <1>2 DEF CrashAfterTurn, RunsAreDue, Live
  <2>2. /\ fired' = [fired EXCEPT ![j] = @ \cup {slot[r]}]
        /\ refired' \subseteq refired \cup {j}
        /\ unrecorded' = unrecorded \cup {j}
        /\ UNCHANGED born
        /\ Dies
    BY <1>2 DEF CrashAfterTurn, Fired
  <2>3. /\ fired' \in [Job -> SUBSET Nat]
        /\ refired' \in SUBSET Job
        /\ unrecorded' \in SUBSET Job
        /\ NoRefire'
        /\ \A i \in Job \ {j} : UNCHANGED fired[i]
    BY <2>1, <2>2 DEF TypeOK, NoRefire
  <2>4. QED
    BY <2>1, <2>2, <2>3, DiesKeeps
<1>3. QED
  BY <1>1, <1>2

--------------------------------------------------------------------------------
(* Theorems. *)

LEMMA CronIndInvStep == CronIndInv /\ [Next]_vars => CronIndInv'
<1> SUFFICES ASSUME CronIndInv, [Next]_vars PROVE CronIndInv'
  OBVIOUS
<1>1. CASE UNCHANGED vars
  <2> USE <1>1 DEF CronIndInv, vars, fileVars, runVars, historyVars, boundVars
  <2>1. TypeOK'
    BY DEF TypeOK
  <2>2. RunsAreDue' /\ OneRunEach' /\ DownIsIdle' /\ RunningIsMarked' /\ NoStuckJob'
    BY DEF RunsAreDue, OneRunEach, DownIsIdle, RunningIsMarked, NoStuckJob, LiveRuns, Live
  <2>3. UnbornIsNew' /\ SlotsAhead' /\ NextAhead' /\ NoRefire'
    BY DEF UnbornIsNew, SlotsAhead, NextAhead, NoRefire, Live
  <2>4. QED
    BY <2>1, <2>2, <2>3
<1>2. ASSUME NEW r \in Run, RunStep(r) PROVE CronIndInv'
  BY <1>2, RunStartsKeeps, RunDefersKeeps, RunEndsKeeps, CrashesKeep DEF RunStep
<1>3. QED
  BY <1>1, <1>2, MinuteKeeps, ToolsKeep, DeleteKeeps, RecoveryKeeps, RecoveryEndsKeeps,
     TickKeeps, CrashesKeep DEF Next

\* However ticks, recoveries, deferrals, deletions and crashes come together, a job
\* has one run at a time, no mark is left over while the scheduler is up, and no
\* slot is run to its end twice unless the daemon died before its record.
THEOREM JobsSafe == Spec => []JobsAreSound
<1>1. CronIndInv => JobsAreSound
  <2> SUFFICES ASSUME CronIndInv PROVE NoOverlap
    BY DEF CronIndInv, JobsAreSound
  <2> SUFFICES ASSUME NEW j \in Job PROVE Cardinality(LiveRuns(j)) <= 1
    BY DEF NoOverlap
  <2>1. CASE LiveRuns(j) = {}
    BY <2>1, FS_EmptySet
  <2>2. CASE LiveRuns(j) # {}
    <3>1. PICK r \in LiveRuns(j) : TRUE
      BY <2>2
    <3>2. LiveRuns(j) = {r}
      BY <3>1 DEF CronIndInv, OneRunEach, LiveRuns, Live
    <3>3. QED
      BY <3>2, FS_Singleton
  <2>3. QED
    BY <2>1, <2>2
<1>2. QED
  BY <1>1, CronIndInvInit, CronIndInvStep, PTL DEF Spec
================================================================================
