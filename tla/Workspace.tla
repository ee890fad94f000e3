---- MODULE Workspace ----
(* The files of the workspace and what the daemon does to them: write_file and          *)
(* apply_patch of the tools (core/tools.py, core/patch_parser.py), the checkpoint the   *)
(* hook takes before either where a registry has the hook (services/tool_hooks.py), and *)
(* checkpoints on request (features/checkpoint/service.py). All of it runs in the event loop without an await, *)
(* so one call is at work at a time; what comes between its steps is another process    *)
(* that writes (bash, an editor), a call of the file system that fails, a crash. The    *)
(* memory flush before a compaction (core/loop.py) does wait for the model between its  *)
(* calls, and appends to the diary of the day without a checkpoint.                     *)
(* Texts are sequences of symbols as in FuzzyMatch, a patch is a sequence of tokens,    *)
(* one for each line of it.                                                             *)
EXTENDS FuzzyMatch

CONSTANTS
    Path,        \* paths inside the workspace
    Kept,        \* those a checkpoint leaves out: .git, build, *.log, ...
    Word,        \* the words of texts
    Given,       \* the files at the start
    Writes,      \* [path, text] a model gives write_file
    Patches,     \* patches a model gives apply_patch
    Others,      \* [path, text] another process writes
    Session,     \* sessions that may be compacted
    Remark,      \* the words each has to note down before
    Diary,       \* the files of the days, in the order of the days
    Back, Ahead, \* 500 and 2000: the window around a hint
    MaxCall,     \* bound of calls
    MaxMishap    \* bound of failures, crashes and writes of other processes

VARIABLES
    there,       \* the workspace directory is there
    files,       \* its files: a function from the paths that exist to their texts
    backups,     \* for every restore the directory it put aside, empty once removed
    snaps,       \* the directories under checkpoints/snapshots
    op,          \* the call at work
    flush,       \* the day, and the day whose file the flush of a session may append to
    past         \* history and the counts of the bounds

workspaceVars == <<there, files, backups, snaps, op, flush, past>>

None == <<>>  \* no files, no text

------------------------------------------------------------------------------
(* patch_parser.py: a patch in V4A format                                               *)

\* What stands between the last Begin before the first End and that End.
Body(tokens) ==
    LET ends == {i \in DOMAIN tokens : tokens[i].is = "end"}
        end == IF ends = {} THEN Len(tokens) + 1 ELSE Min(ends)
        begins == {i \in 1 .. end - 1 : tokens[i].is = "begin"}
    IN SubSeq(tokens, (IF begins = {} THEN 0 ELSE Max(begins)) + 1, end - 1)

\* `op` and `hunk` of the parser's state hold at most one: the one being read.
Hunk(hint) == [hint |-> hint, lines |-> <<>>]
HunkClosed(s) ==
    IF s.op = <<>> \/ s.hunk = <<>> \/ s.hunk[1].lines = <<>> THEN s.op
    ELSE <<[s.op[1] EXCEPT !.hunks = Append(@, s.hunk[1])]>>

Reads(s, t) ==
    LET new == [do |-> t.is, path |-> t.path, to |-> t.to, hunks |-> <<>>]
        done == s.ops \o HunkClosed(s)
        hunk == IF s.hunk = <<>> THEN Hunk(None) ELSE s.hunk[1]
    IN CASE t.is = "update" -> [ops |-> done, op |-> <<new>>, hunk |-> <<>>]
         [] t.is = "add" -> [ops |-> done, op |-> <<new>>, hunk |-> <<Hunk(None)>>]
         [] t.is \in {"delete", "move"} -> [ops |-> Append(done, new), op |-> <<>>, hunk |-> <<>>]
         [] t.is = "hint" /\ s.op # <<>> ->
              [s EXCEPT !.op = HunkClosed(s), !.hunk = <<Hunk(t.text)>>]
         [] t.is = "line" /\ s.op # <<>> ->
              [s EXCEPT !.hunk = <<[hunk EXCEPT !.lines =
                                       Append(@, [sign |-> t.sign, text |-> t.text])]>>]
         [] OTHER -> s  \* an empty line, a line outside of an operation

\* An update without hunks spoils the whole patch.
Parsed(tokens) ==
    LET s == FoldLeft(Reads, [ops |-> <<>>, op |-> <<>>, hunk |-> <<>>], Body(tokens))
        ops == s.ops \o HunkClosed(s)
    IN IF \E i \in DOMAIN ops : ops[i].do = "update" /\ ops[i].hunks = <<>> THEN <<>> ELSE ops

TextOf(hunk, signs) ==
    LET lines == SelectSeq(hunk.lines, LAMBDA l : l.sign \in signs)
    IN Joined([i \in DOMAIN lines |-> lines[i].text])
Has(hunk, signs) == \E i \in DOMAIN hunk.lines : hunk.lines[i].sign \in signs
Old(hunk) == TextOf(hunk, {" ", "-"})
New(hunk) == TextOf(hunk, {" ", "+"})

\* A hunk on a text as the validation tries it: one that only adds is not tried, its hint
\* must be there once.
Tried(s, hunk) ==
    LET Both(r) == [text |-> r.text, ok |-> s.ok /\ r.ok]
    IN IF ~Has(hunk, {"+", "-"}) THEN [s EXCEPT !.ok = FALSE]
       ELSE IF Has(hunk, {" ", "-"}) THEN Both(FindAndReplace(s.text, Old(hunk), New(hunk)))
       ELSE [s EXCEPT !.ok = @ /\ (hunk.hint # None => Cardinality(Exact(s.text, hunk.hint)) = 1)]

\* _validate_operations: every operation against the files as they are before the first.
Targets(ops, S) == {ops[i].path : i \in {j \in S : ops[j].do = "add"}}
                      \cup {ops[i].to : i \in {j \in S : ops[j].do = "move"}}
\* Mutant: two operations of a patch may write the same file.
ValidCareless(ops, fs) ==
    \A i \in DOMAIN ops :
        LET o == ops[i]
        IN /\ o.path \in Path /\ o.to \in Path
           /\ o.do = "add" => o.path \notin DOMAIN fs
           /\ o.do # "add" => o.path \in DOMAIN fs
           /\ o.do = "move" => o.to \notin DOMAIN fs
           /\ o.do = "update" =>
                 FoldLeft(Tried, [text |-> fs[o.path], ok |-> TRUE], o.hunks).ok

Valid(ops, fs) ==
    \A i \in DOMAIN ops :
        LET o == ops[i]
        IN /\ o.path \in Path /\ o.to \in Path
           /\ o.do = "add" => o.path \notin DOMAIN fs \cup Targets(ops, 1 .. i - 1)
           /\ o.do # "add" => o.path \in DOMAIN fs
           /\ o.do = "move" => o.to \notin DOMAIN fs \cup Targets(ops, 1 .. i - 1)
           /\ o.do = "update" =>
                 FoldLeft(Tried, [text |-> fs[o.path], ok |-> TRUE], o.hunks).ok

\* rstrip of line ends
Stripped(text) ==
    LET kept == {i \in DOMAIN text : text[i] # "\n"}
    IN IF kept = {} THEN <<>> ELSE SubSeq(text, 1, Max(kept))

Hints(text, hunk) == IF hunk.hint = None THEN {} ELSE {m[1] : m \in Exact(text, hunk.hint)}

\* A hunk that only adds goes behind the line of its hint, or to the end of the file.
Behind(text, eol, new) ==
    IF eol = {} THEN text \o <<"\n">> \o new
    ELSE SubSeq(text, 1, Min(eol)) \o new \o <<"\n">> \o SubSeq(text, Min(eol) + 1, Len(text))
Added(s, hints, new) ==
    CASE hints = {} -> [s EXCEPT !.text = Stripped(@) \o <<"\n">> \o new \o <<"\n">>]
      [] Cardinality(hints) > 1 -> [s EXCEPT !.ok = FALSE]
      [] OTHER -> [s EXCEPT !.text =
                      Behind(@, {i \in Min(hints) .. Len(@) : @[i] = "\n"}, new)]

\* What is not found, or found twice, is looked for again in a window around the hint.
Near(text, from, to, hunk) ==
    LET Around(r) == [r EXCEPT !.text = SubSeq(text, 1, from - 1) \o @
                                           \o SubSeq(text, to + 1, Len(text))]
    IN Around(FindAndReplace(SubSeq(text, from, to), Old(hunk), New(hunk)))
Sought(text, hints, hunk, r) ==
    IF r.ok \/ hints = {} THEN r
    ELSE Near(text, Max({1, Min(hints) - Back}), Min({Len(text), Min(hints) - 1 + Ahead}), hunk)

\* A hunk on the text as it is applied; the first that fails ends the operation.
Patched(s, hunk) ==
    IF ~s.ok THEN s
    ELSE IF ~Has(hunk, {" ", "-"}) THEN Added(s, Hints(s.text, hunk), New(hunk))
    ELSE Sought(s.text, Hints(s.text, hunk), hunk,
                FindAndReplace(s.text, Old(hunk), New(hunk)))

\* One operation of a patch on the files as they are now.
Applied(o, fs) ==
    LET text == Joined(FlattenSeq([i \in DOMAIN o.hunks |->
                   LET lines == SelectSeq(o.hunks[i].lines, LAMBDA l : l.sign = "+")
                   IN [j \in DOMAIN lines |-> lines[j].text]]))
        failed == [ok |-> FALSE, files |-> fs]
        Done(f) == [ok |-> TRUE, files |-> f]
        Rewritten(r) == IF r.ok THEN Done((o.path :> r.text) @@ fs) ELSE failed
    IN CASE o.do = "add" -> Done((o.path :> text) @@ fs)
         [] o.path \notin DOMAIN fs -> failed
         [] o.do = "delete" -> Done(Restrict(fs, DOMAIN fs \ {o.path}))
         [] o.do = "move" ->
              IF o.to \in DOMAIN fs THEN failed
              ELSE Done((o.to :> fs[o.path]) @@ Restrict(fs, DOMAIN fs \ {o.path}))
         [] o.do = "update" ->
              Rewritten(FoldLeft(Patched, [text |-> fs[o.path], ok |-> TRUE], o.hunks))

------------------------------------------------------------------------------
(* Calls                                                                                *)

Idle == [is |-> "idle", at |-> "idle", arg |-> None, cp |-> 0, left |-> {}, todo |-> <<>>,
         failed |-> FALSE, tmp |-> None, start |-> None, touched |-> {}, unsaved |-> FALSE]

WorkspaceInit ==
    /\ there = TRUE /\ files = Given
    /\ backups = <<>> /\ snaps = <<>> /\ op = Idle
    /\ flush = [day |-> 1, target |-> [s \in Session |-> 0]]
    /\ past = [replaced |-> {}, noted |-> {}, patched |-> <<>>, torn |-> FALSE,
               calls |-> 0, mishaps |-> 0]

\* A call that begins with a checkpoint, when there is something to save (create_checkpoint
\* is None without a workspace directory): a tool of a registry with the hook, or a
\* restore, of which this is the pre-restore checkpoint.
Begins(is, arg, cp) ==
    /\ op = Idle /\ past.calls < MaxCall
    /\ past' = [past EXCEPT !.calls = @ + 1]
    /\ op' = [Idle EXCEPT !.is = is, !.arg = arg, !.cp = cp, !.start = files,
                          !.at = IF there THEN "copying" ELSE "ready",
                          !.left = DOMAIN files \ Kept]
    /\ snaps' = IF there
                THEN Append(snaps, [files |-> None, listed |-> FALSE, clean |-> TRUE,
                                    of |-> Restrict(files, DOMAIN files \ Kept)])
                ELSE snaps
    /\ UNCHANGED <<there, files, backups, flush>>

\* A tool of a registry without the hook goes to work at once.
BeginsUnsaved(is, arg) ==
    /\ op = Idle /\ past.calls < MaxCall
    /\ past' = [past EXCEPT !.calls = @ + 1]
    /\ op' = [Idle EXCEPT !.is = is, !.arg = arg, !.start = files, !.at = "ready",
                          !.unsaved = TRUE]
    /\ UNCHANGED <<there, files, backups, snaps, flush>>

\* The registry of the runtime the daemon starts with has the hook, and so have the clones
\* subagents got of it. Those of cron jobs and review forks never have it, nor has the one
\* that an update of the agent or the model swaps in.
ToolBegins(is, arg) == Begins(is, arg, 0) \/ BeginsUnsaved(is, arg)

WriteFile(w) == ToolBegins("write", w)
ApplyPatch(tokens) == ToolBegins("patch", tokens)
CheckpointCreate == there /\ Begins("create", None, 0)
\* list_checkpoints knows a directory by its meta.json.
CheckpointRestore(n) == snaps[n].listed /\ Begins("restore", None, n)

\* copytree, file by file: a file another process wrote is copied as it is then.
CopiesFile(p) ==
    /\ op.at = "copying" /\ p \in op.left \cap DOMAIN files
    /\ op' = [op EXCEPT !.left = @ \ {p}]
    /\ snaps' = [snaps EXCEPT ![Len(snaps)].files = (p :> files[p]) @@ @]
    /\ UNCHANGED <<there, files, backups, past, flush>>

\* meta.json is written last and makes the checkpoint one that can be restored.
MetaWritten ==
    /\ op.at = "copying" /\ op.left = {}
    /\ snaps' = [snaps EXCEPT ![Len(snaps)].listed = TRUE]
    /\ op' = IF op.is = "create" THEN Idle ELSE [op EXCEPT !.at = "ready"]
    /\ UNCHANGED <<there, files, backups, past, flush>>

\* A file that cannot be copied, or meta.json that cannot be written. The hook's
\* exception is swallowed and the tool goes on; a checkpoint on request and a restore end.
CheckpointFails ==
    /\ op.at = "copying" /\ past.mishaps < MaxMishap
    /\ past' = [past EXCEPT !.mishaps = @ + 1]
    /\ op' = IF op.is \in {"write", "patch"} THEN [op EXCEPT !.at = "ready", !.unsaved = TRUE]
             ELSE Idle
    /\ UNCHANGED <<there, files, backups, snaps, flush>>

\* What a step takes from the disk, of the files that a checkpoint saves, as they were
\* when the call began and unless another process had a hand in it.
Taken(before, after) ==
    IF op.unsaved THEN {}
    ELSE {<<p, before[p]>> : p \in {q \in DOMAIN before \ (Kept \cup op.touched) :
              /\ q \in DOMAIN op.start /\ op.start[q] = before[q]
              /\ q \in DOMAIN after => after[q] # before[q]}}

\* What a call takes for which nothing was saved is gone, notes of a flush included.
NotedIn(fs, n) == n[1] \in DOMAIN fs /\ n[2] \in ToSet(fs[n[1]])
Spared(before, after) ==
    {n \in past.noted : op.unsaved /\ NotedIn(before, n) => NotedIn(after, n)}

\* What a tool leaves of what is known about the files.
Past(after) ==
    [past EXCEPT !.replaced = @ \cup Taken(files, after), !.noted = Spared(files, after)]

Written ==
    /\ op.is = "write" /\ op.at = "ready"
    /\ files' = (op.arg.path :> op.arg.text) @@ files
    /\ there' = TRUE /\ op' = Idle
    /\ past' = Past(files')
    /\ UNCHANGED <<backups, snaps, flush>>

\* The file is open for writing, and thereby empty, when the disk turns out to be full.
WriteFails ==
    /\ op.is = "write" /\ op.at = "ready" /\ past.mishaps < MaxMishap
    /\ files' = (op.arg.path :> None) @@ files
    /\ there' = TRUE /\ op' = Idle
    /\ past' = [Past(files') EXCEPT !.mishaps = @ + 1]
    /\ UNCHANGED <<backups, snaps, flush>>

\* Phase one: nothing is written, and nothing will be when one operation is not valid.
Validates ==
    LET ops == Parsed(op.arg)
    IN /\ op.is = "patch" /\ op.at = "ready"
       /\ op' = IF ops = <<>> \/ ~Valid(ops, files) THEN Idle
                ELSE [op EXCEPT !.at = "applying", !.todo = ops]
       /\ UNCHANGED <<there, files, backups, snaps, past, flush>>

\* Phase two: operation after operation, also behind one that failed.
Goes(r) ==
    /\ files' = r.files
    /\ there' = (there \/ r.ok)
    /\ op' = [op EXCEPT !.todo = Tail(@), !.failed = @ \/ ~r.ok]
    /\ past' = Past(files')
    /\ UNCHANGED <<backups, snaps, flush>>
Applies == op.at = "applying" /\ op.todo # <<>> /\ Goes(Applied(op.todo[1], files))

\* A delete or a move the system refuses leaves the file, a write that fails empties
\* it; what fails by itself is not tried.
ApplyFails ==
    LET o == op.todo[1]
    IN /\ op.at = "applying" /\ op.todo # <<>> /\ past.mishaps < MaxMishap
       /\ Applied(o, files).ok
       /\ files' = IF o.do \in {"add", "update"} THEN (o.path :> None) @@ files ELSE files
       /\ there' = (there \/ files' # None)
       /\ op' = [op EXCEPT !.todo = Tail(@), !.failed = TRUE]
       /\ past' = [Past(files') EXCEPT !.mishaps = @ + 1]
       /\ UNCHANGED <<backups, snaps, flush>>

PatchEnds ==
    /\ op.at = "applying" /\ op.todo = <<>>
    /\ past' = IF past.mishaps > 0 THEN past
               ELSE IF op.failed THEN [past EXCEPT !.torn = @ \/ files # op.start]
               ELSE [past EXCEPT !.patched = <<[before |-> op.start, after |-> files,
                                                ops |-> Parsed(op.arg)]>>]
    /\ op' = Idle
    /\ UNCHANGED <<there, files, backups, snaps, flush>>

\* Mutant: the workspace is put aside without a checkpoint of it.
FetchesUnsaved ==
    /\ op.is = "restore" /\ op.at \in {"copying", "ready"}
    /\ op' = [op EXCEPT !.at = "aside", !.tmp = snaps[op.cp].files]
    /\ UNCHANGED <<there, files, backups, snaps, past, flush>>

\* restore: the checkpoint is copied beside the workspace, ...
Fetches ==
    /\ op.is = "restore" /\ op.at = "ready"
    /\ op' = [op EXCEPT !.at = "aside", !.tmp = snaps[op.cp].files]
    /\ UNCHANGED <<there, files, backups, snaps, past, flush>>

\* ... the workspace is renamed, ...
PutAside ==
    /\ op.at = "aside"
    /\ op' = [op EXCEPT !.at = "place"]
    /\ there' = FALSE /\ files' = None
    /\ backups' = Append(backups, files)  \* nothing when there was no workspace
    /\ past' = [past EXCEPT !.replaced = @ \cup Taken(files, None)]
    /\ UNCHANGED <<snaps, flush>>

\* ... the copy gets its name, ...
Placed ==
    /\ op.at = "place"
    /\ op' = [op EXCEPT !.at = "sweep"]
    /\ there' = TRUE /\ files' = op.tmp
    /\ UNCHANGED <<backups, snaps, past, flush>>

\* ... and the old one is removed, if it can be.
Swept ==
    /\ op.at = "sweep"
    /\ op' = Idle
    /\ \/ backups' = [backups EXCEPT ![Len(backups)] = None] /\ past' = past
       \/ /\ past.mishaps < MaxMishap
          /\ past' = [past EXCEPT !.mishaps = @ + 1] /\ UNCHANGED backups
    /\ UNCHANGED <<there, files, snaps, flush>>

\* The copy or one of the renames fails; a backup of the same second is enough.
RestoreFails ==
    /\ op.is = "restore" /\ op.at \in {"ready", "aside", "place"} /\ past.mishaps < MaxMishap
    /\ past' = [past EXCEPT !.mishaps = @ + 1]
    /\ op' = Idle
    /\ UNCHANGED <<there, files, backups, snaps, flush>>

\* Another process writes a file, or removes it.
OtherWrites(w) ==
    /\ there /\ past.mishaps < MaxMishap /\ op # Idle
    /\ files' = IF w.text = None THEN Restrict(files, DOMAIN files \ {w.path})
                ELSE (w.path :> w.text) @@ files
    /\ files' # files
    /\ past' = [past EXCEPT !.mishaps = @ + 1, !.noted = {n \in @ : n[1] # w.path}]
    /\ op' = [op EXCEPT !.touched = @ \cup {w.path}]
    /\ snaps' = IF op.at = "copying" THEN [snaps EXCEPT ![Len(snaps)].clean = FALSE] ELSE snaps
    /\ UNCHANGED <<there, backups, flush>>

\* The daemon dies; only the disk is left.
Crashes ==
    /\ op # Idle /\ past.mishaps < MaxMishap
    /\ op' = Idle
    /\ flush' = [flush EXCEPT !.target = [s \in Session |-> 0]]
    /\ past' = [past EXCEPT !.mishaps = @ + 1]
    /\ UNCHANGED <<there, files, backups, snaps>>

------------------------------------------------------------------------------
(* The silent turn before a compaction                                                  *)

\* run_pre_compaction_memory_flush: the path is that of the day it begins on.
FlushBegins(s) ==
    /\ op = Idle /\ past.calls < MaxCall
    /\ flush.target[s] = 0
    /\ flush' = [flush EXCEPT !.target[s] = flush.day]
    /\ past' = [past EXCEPT !.calls = @ + 1]
    /\ UNCHANGED <<there, files, backups, snaps, op>>

Midnight ==
    /\ op = Idle /\ flush.day < Len(Diary)
    /\ \E s \in Session : flush.target[s] # 0  \* it matters to nothing else
    /\ flush' = [flush EXCEPT !.day = @ + 1]
    /\ UNCHANGED <<there, files, backups, snaps, op, past>>

\* What is written, and what remains of the flush's allowance: one note.
Notes(s, path, text) ==
    /\ op = Idle /\ flush.target[s] # 0
    /\ files' = (path :> text) @@ files
    /\ there' = TRUE
    /\ flush' = [flush EXCEPT !.target[s] = 0]
    /\ past' = [past EXCEPT !.noted = @ \cup {<<path, Remark[s]>>}]
    /\ UNCHANGED <<backups, snaps, op>>

Target(s) == Diary[flush.target[s]]

\* write_file of the flush appends, and to this one path only; anything else is an error
\* to the model and changes nothing.
FlushWrites(s) ==
    LET Ended(text) == IF text = <<>> \/ Last(text) = "\n" THEN text ELSE Append(text, "\n")
        path == Target(s)
    IN  /\ flush.target[s] # 0
        /\ Notes(s, path,
                 Append(Ended(IF path \in DOMAIN files THEN files[path] ELSE <<>>), Remark[s]))

\* The model says no more, the turn is cancelled, or the request fails; the compaction
\* goes on where the turn does.
FlushEnds(s) ==
    /\ op = Idle /\ flush.target[s] # 0
    /\ flush' = [flush EXCEPT !.target[s] = 0]
    /\ UNCHANGED <<there, files, backups, snaps, op, past>>

WorkspaceNext ==
    \/ \E w \in Writes : WriteFile(w)
    \/ \E tokens \in Patches : ApplyPatch(tokens)
    \/ CheckpointCreate
    \/ \E n \in DOMAIN snaps : CheckpointRestore(n)
    \/ \E p \in Path : CopiesFile(p)
    \/ MetaWritten \/ CheckpointFails
    \/ Written \/ WriteFails
    \/ Validates \/ Applies \/ ApplyFails \/ PatchEnds
    \/ Fetches \/ PutAside \/ Placed \/ Swept \/ RestoreFails
    \/ \E w \in Others : OtherWrites(w)
    \/ Crashes \/ Midnight
    \/ \E s \in Session : FlushBegins(s) \/ FlushWrites(s) \/ FlushEnds(s)

WorkspaceSpec == WorkspaceInit /\ [][WorkspaceNext]_workspaceVars

------------------------------------------------------------------------------

\* What a tool or a restore took from the workspace can be had back at every step, also
\* after a crash in the middle: it is in the workspace still (or again), in the directory
\* a restore put aside, or in a checkpoint that is listed; and a checkpoint that is listed
\* is whole. Excepted are the files that checkpoints leave out or another process wrote
\* meanwhile, and what a tool took before which no checkpoint was made: because it failed,
\* or because the registry has no hook that makes one.
Recoverable ==
    /\ \A r \in past.replaced :
          LET Holds(fs) == r[1] \in DOMAIN fs /\ fs[r[1]] = r[2]
          IN \/ Holds(files)
             \/ \E b \in ToSet(backups) : Holds(b)
             \/ \E s \in ToSet(snaps) : s.listed /\ Holds(s.files)
    /\ \A s \in ToSet(snaps) : s.listed /\ s.clean => s.files = s.of

\* What the flush of a session noted down before the compaction is still there, whichever
\* other sessions noted something on the same day, and can be had back like the rest, and
\* with the same exceptions, when a tool or a restore took it.
NotesAreKept ==
    \A n \in past.noted :
        \/ NotedIn(files, n)
        \/ \E b \in ToSet(backups) : NotedIn(b, n)
        \/ \E s \in ToSet(snaps) : s.listed /\ NotedIn(s.files, n)

\* How often each word is in a text.
Count(text) == [w \in Word |-> Cardinality({i \in DOMAIN text : text[i] = w})]
Plus(c, d) == [w \in Word |-> c[w] + d[w]]
Minus(c, d) == [w \in Word |-> c[w] - d[w]]

\* What a patch asks for, in words: per file, with no regard to places and blanks; and
\* whether it asks to write over a file.
Expected(s, o) ==
    LET added == FoldLeft(LAMBDA c, h : Plus(c, Count(TextOf(h, {"+"}))), Count(None), o.hunks)
        gone == FoldLeft(LAMBDA c, h : Plus(c, Count(TextOf(h, {"-"}))), Count(None), o.hunks)
        rest == Restrict(s.counts, DOMAIN s.counts \ {o.path})
        Wants(counts, over) == [counts |-> counts, over |-> s.over \/ over]
    IN CASE o.do = "add" -> Wants((o.path :> added) @@ rest, o.path \in DOMAIN s.counts)
         [] o.do = "delete" -> Wants(rest, FALSE)
         [] o.do = "move" -> Wants((o.to :> s.counts[o.path]) @@ rest, o.to \in DOMAIN s.counts)
         [] o.do = "update" ->
              Wants((o.path :> Minus(Plus(s.counts[o.path], added), gone)) @@ rest, FALSE)

\* A patch that reports success did what it says: no add and no move wrote over a file,
\* be it one the patch itself made; the files are those the patch leaves, and each holds
\* the words it held, without those taken out and with those put in, wherever the hunks
\* were found. (Patches during which nothing failed and nobody else wrote.)
PatchIsExact ==
    \A d \in ToSet(past.patched) :
        LET want == FoldLeft(Expected, [counts |-> [p \in DOMAIN d.before |-> Count(d.before[p])],
                                        over |-> FALSE], d.ops)
        IN ~want.over /\ [p \in DOMAIN d.after |-> Count(d.after[p])] = want.counts

\* "if any hunk fails to locate, NO files are modified" (apply_patch's description)
HunksLocateOrNothing == ~past.torn
====
