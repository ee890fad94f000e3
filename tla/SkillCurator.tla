----------------------------- MODULE SkillCurator -----------------------------
(* The telemetry of skills and the curator that ages them (features/skills/usage, *)
(* curator).  Several processes, the daemon and terminals that run their own       *)
(* backend, share the directory; each is one event loop and does one thing at a    *)
(* time.  .usage.json is read, changed and replaced under flock, the file of the    *)
(* curator's flags without.                                                         *)
EXTENDS Naturals, FiniteSets, FiniteSetsExt

CONSTANTS
    Skill,
    Process,
    Pinned,         \* the skills that someone has pinned, in the file
    StaleAfter,     \* stale_after_days
    ArchiveAfter,   \* archive_after_days
    MaxDay,         \* bound on the days
    MaxEvent,       \* bound on the events recorded
    MaxRun          \* bound on the runs of the curator, and on the changes of its flags

Nobody == "nobody"

\* Assumed of the constants, by the modules that instantiate this one, too.
CuratorAssumption ==
    /\ Nobody \notin Process
    /\ Pinned \subseteq Skill
    /\ {StaleAfter, ArchiveAfter, MaxDay, MaxEvent, MaxRun} \subseteq Nat
    /\ StaleAfter <= ArchiveAfter

VARIABLES
    day,
    usage,          \* .usage.json: state, count and last activity of a recorded skill
    flags,          \* .curator_state.json: enabled, paused, runs
    lock,           \* the process that holds .usage.json.lock
    proc,           \* what a process does
    recorded,       \* history: the events whose record_event has returned
    orders          \* history: runs and changes of flags begun

curatorVars == <<day, usage, flags, lock, proc, recorded, orders>>

Idle == [pc |-> "idle"]
Events == {"load", "use", "view", "patch"}
Recorded == DOMAIN usage
State == {"active", "stale", "archived"}

CuratorTypeOK ==
    /\ day \in 0..MaxDay
    /\ Recorded \subseteq Skill
    /\ \A s \in Recorded : /\ usage[s].state \in State
                           /\ usage[s].count \in Nat /\ usage[s].seen \in 0..day
    /\ flags \in [enabled : BOOLEAN, paused : BOOLEAN, runs : Nat]
    /\ lock \in Process \cup {Nobody}

CuratorInit ==
    /\ day = 0
    /\ usage = <<>>
    /\ flags = [enabled |-> TRUE, paused |-> FALSE, runs |-> 0]
    /\ lock = Nobody
    /\ proc = [p \in Process |-> Idle]
    /\ recorded = [s \in Skill |-> 0]
    /\ orders = 0

--------------------------------------------------------------------------------
(* .usage.json.                                                                    *)

With(file, s, r) == [t \in DOMAIN file \cup {s} |-> IF t = s THEN r ELSE file[t]]

\* record_event: a counter and a time.  To use a skill, or patch it, makes a stale one active;
\* to load or view it does not, and an archived one stays archived.
Counted(file, s, event) ==
    LET old == IF s \in DOMAIN file THEN file[s]
               ELSE [state |-> "active", count |-> 0, seen |-> day]
        revived == old.state = "stale" /\ event \in {"use", "patch"}
    IN With(file, s, [state |-> IF revived THEN "active" ELSE old.state,
                      count |-> old.count + 1, seen |-> day])

\* set_state: nothing for a skill without a record.
Moved(file, s, to) ==
    IF s \in DOMAIN file THEN With(file, s, [file[s] EXCEPT !.state = to]) ELSE file

\* Mutant: the file is loaded before the lock is taken.
LocksLate(p, change, rest) ==
    /\ lock' = p
    /\ proc' = [proc EXCEPT ![p] = [pc |-> "locked", change |-> change, file |-> usage,
                                    rest |-> rest]]

\* Under the lock the file is loaded; what a run of the curator has left to do is kept.
Locks(p, change, rest) ==
    /\ lock = Nobody
    /\ lock' = p
    /\ proc' = [proc EXCEPT ![p] = [pc |-> "locked", change |-> change, file |-> usage,
                                    rest |-> rest]]

\* save_usage replaces the file, and the lock is released.
Saves(p) ==
    LET c == proc[p].change
    IN /\ proc[p].pc = "locked"
       /\ usage' = IF c.kind = "event" THEN Counted(proc[p].file, c.skill, c.event)
                   ELSE Moved(proc[p].file, c.skill, c.to)
       /\ lock' = Nobody
       /\ recorded' = IF c.kind = "event" THEN [recorded EXCEPT ![c.skill] = @ + 1]
                      ELSE recorded
       /\ proc' = [proc EXCEPT ![p] = proc[p].rest]
       /\ UNCHANGED <<day, flags, orders>>

\* Events under way.
Occurred == Cardinality({p \in Process : proc[p].pc = "locked" /\ proc[p].rest = Idle})
Sum == MapThenSumSet(LAMBDA s : recorded[s], Skill)

\* A turn loads a skill, or a tool uses it, views it or patches it.
RecordEvent(p, s, event) ==
    /\ proc[p] = Idle /\ Sum + Occurred < MaxEvent
    /\ Locks(p, [kind |-> "event", skill |-> s, event |-> event], Idle)
    /\ UNCHANGED <<day, usage, flags, recorded, orders>>

--------------------------------------------------------------------------------
(* The curator.                                                                    *)

Since(days) == IF day >= days THEN day - days ELSE 0
IsOld(r, days) == day >= days /\ r.seen <= Since(days)

\* The state that a row of the report is due for (apply_transitions).
Target(r) ==
    IF IsOld(r, ArchiveAfter) THEN "archived"
    ELSE IF IsOld(r, StaleAfter) /\ r.state = "active" THEN "stale"
    ELSE IF ~IsOld(r, StaleAfter) /\ r.state = "stale" THEN "active"
    ELSE r.state

Due(file) == {s \in DOMAIN file \ Pinned : Target(file[s]) # file[s].state}

\* run: the flags are read, then the report, without the lock; a dry run changes no state.
CuratorRuns(p, dry) ==
    /\ proc[p] = Idle /\ orders < MaxRun
    /\ flags.enabled /\ ~flags.paused
    /\ orders' = orders + 1
    /\ proc' = [proc EXCEPT ![p] =
                  [pc |-> "run", flags |-> flags, dry |-> dry, rows |-> usage,
                   todo |-> IF dry THEN {} ELSE Due(usage)]]
    /\ UNCHANGED <<day, usage, flags, lock, recorded>>

\* The next row that is due.
Curates(p, s) ==
    /\ proc[p].pc = "run" /\ s \in proc[p].todo
    /\ Locks(p, [kind |-> "state", skill |-> s, to |-> Target(proc[p].rows[s])],
             [proc[p] EXCEPT !.todo = @ \ {s}])
    /\ UNCHANGED <<day, usage, flags, recorded, orders>>

\* After the report is written the flags are saved as they were read, with the run counted.
CuratorEnds(p) ==
    /\ proc[p].pc = "run" /\ proc[p].todo = {}
    /\ flags' = IF proc[p].dry THEN proc[p].flags ELSE [proc[p].flags EXCEPT !.runs = @ + 1]
    /\ proc' = [proc EXCEPT ![p] = Idle]
    /\ UNCHANGED <<day, usage, lock, recorded, orders>>

\* set_enabled and set_paused: the flags are read, and saved with the change.
SetsFlags(p, change) ==
    /\ proc[p] = Idle /\ orders < MaxRun
    /\ orders' = orders + 1
    /\ proc' = [proc EXCEPT ![p] =
                  [pc |-> "flags", flags |->
                     IF change \in {"pause", "resume"}
                     THEN [flags EXCEPT !.paused = change = "pause"]
                     ELSE [flags EXCEPT !.enabled = change = "enable",
                                        !.paused = @ /\ change # "enable"]]]
    /\ UNCHANGED <<day, usage, flags, lock, recorded>>

FlagsSaved(p) ==
    /\ proc[p].pc = "flags"
    /\ flags' = proc[p].flags
    /\ proc' = [proc EXCEPT ![p] = Idle]
    /\ UNCHANGED <<day, usage, lock, recorded, orders>>

--------------------------------------------------------------------------------

\* A process dies, and its lock with it; one that is idle is started again.
Dies(p) ==
    /\ proc[p] # Idle
    /\ proc' = [proc EXCEPT ![p] = Idle]
    /\ lock' = IF lock = p THEN Nobody ELSE lock
    /\ UNCHANGED <<day, usage, flags, recorded, orders>>

DayPasses ==
    /\ day < MaxDay
    /\ day' = day + 1
    /\ UNCHANGED <<usage, flags, lock, proc, recorded, orders>>

CuratorNext ==
    \/ DayPasses
    \/ \E p \in Process :
          \/ Saves(p) \/ CuratorEnds(p) \/ FlagsSaved(p) \/ Dies(p)
          \/ \E s \in Skill : Curates(p, s) \/ \E e \in Events : RecordEvent(p, s, e)
          \/ \E dry \in BOOLEAN : CuratorRuns(p, dry)
          \/ \E change \in {"pause", "resume", "enable", "disable"} : SetsFlags(p, change)

CuratorSpec == CuratorInit /\ [][CuratorNext]_curatorVars

--------------------------------------------------------------------------------
(* Properties.                                                                     *)

\* No event is lost, whatever other processes record or curate meanwhile and whoever dies:
\* the counter of a skill is the number of calls of record_event that returned
\* (_locked_usage_file).
EventsAreCounted ==
    \A s \in Skill :
        recorded[s] = IF s \in Recorded THEN usage[s].count ELSE 0

\* A skill that someone has pinned is not aged, whoever curates (apply_transitions).
PinnedStay == \A s \in Recorded \cap Pinned : usage[s].state = "active"

SkillsAreSound == CuratorTypeOK /\ EventsAreCounted /\ PinnedStay
================================================================================
