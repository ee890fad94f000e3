---- MODULE MCAgentLoop ----
(* The conversation the loop keeps, what a turn brings to its prompt, the files its     *)
(* tools change, and the search that finds a hunk's place in a text. They share no      *)
(* state: a behaviour is about one of the four, and one about the search is a text and  *)
(* a pattern.                                                                           *)
EXTENDS AgentLoop

CONSTANTS Path, Kept, Word, Session, Back, Ahead, MaxCall, MaxMishap,
          Root, Requirement, Filter, MarkerSize, MaxChars, TotalMaxChars, MaxToolIters, MaxEdit
VARIABLES there, files, backups, snaps, op, flush, past, probe,
          workspaceOf, skillFiles, bootFiles, provided, bootCache, skillsCache, recall, brings,
          edits, about

------------------------------------------------------------------------------
(* Files, patches and writes                                                            *)

\* The file a hunk is looked for in has a blank the patch does not have.
Given == ("a" :> <<"x", "\n", " ", "y", "\n", "z">>) @@ ("b" :> <<"z">>) @@ (".git" :> <<"w">>)

Token(is, path, to, sign, text) == [is |-> is, path |-> path, to |-> to, sign |-> sign, text |-> text]
Begin == Token("begin", "", "", "", <<>>)
End == Token("end", "", "", "", <<>>)
Operation(is, path) == Token(is, path, path, "", <<>>)
Move(path, to) == Token("move", path, to, "", <<>>)
Hint(word) == Token("hint", "", "", "", <<word>>)
Line(sign, word) == Token("line", "", "", sign, <<word>>)

Patches == {
    \* a context with other blanks, a new file, a file that moves
    <<Begin, Operation("update", "a"), Line(" ", "x"), Line("-", "y"), Line("+", "w"),
      Operation("add", "c"), Line("+", "y"), Line("+", "x"), Move("b", "d"), End>>,
    \* the first update makes the hunk of the second ambiguous, its hint decides
    <<Begin, Operation("update", "a"), Hint("z"), Line("+", "x"),
      Operation("update", "a"), Hint("y"), Line("-", "x"), End>>,
    \* what the second operation needs the first has taken
    <<Operation("delete", "b"), Operation("update", "b"), Line("-", "z")>>,
    \* two operations for one path
    <<Begin, Move("a", "c"), Line("+", "z"), Operation("add", "c"), Line("+", "w"), End>>,
    \* a file that is there, a path outside of the workspace, an update without a hunk
    <<Begin, Operation("add", "a"), Line("+", "w"), End>>,
    <<Begin, Operation("add", "outside"), Line("+", "w"), End>>,
    <<Begin, Operation("update", "a"), End>>,
    \* lines to add at the end and at a hint, and in a file no checkpoint holds
    <<Begin, Operation("update", "b"), Line("+", "y"), Hint("z"), Line("+", "w"),
      Operation("update", ".git"), Line("-", "w"), Line("+", "x"), Line("+", "x"), End>>}

Writes == {[path |-> "b", text |-> <<"y">>], [path |-> "c", text |-> <<"z">>]}
Others == {[path |-> "a", text |-> <<"w">>], [path |-> "b", text |-> <<>>]}

\* The diary of the first day is a file the tools know, too.
Diary == <<"b", "d">>
Remark == [s \in Session |-> s]

W == INSTANCE Workspace

workspace == <<there, files, backups, snaps, op, flush, past>>

Texts(symbols, m, n) == UNION {[1 .. k -> symbols] : k \in m .. n}
Probes == UNION {Texts(symbols, 0, 4) \X Texts(symbols, 1, 3) :
                    symbols \in {{"a", "b", " ", "\t"}, {"a", " ", "\t", "\n"}}}

------------------------------------------------------------------------------
(* What turns bring to the prompt: two of one session, and one of another              *)

MCSessionOf == <<"s", "s", "r">>

SkillFile(name, rank, needs, always, hidden, loads) ==
    [name |-> name, rank |-> rank, needs |-> needs, always |-> always, hidden |-> hidden,
     loads |-> loads]

\* A skill and a hidden one of its name that is preferred, but needs something; the same
\* with one that does not load, and one that is always eligible.
MCSkillDirs == {
    {SkillFile("k", 1, {}, FALSE, FALSE, TRUE), SkillFile("k", 2, {"git"}, FALSE, TRUE, TRUE)},
    {SkillFile("k", 1, {}, FALSE, FALSE, TRUE), SkillFile("k", 2, {}, FALSE, FALSE, FALSE),
     SkillFile("l", 1, {"git"}, TRUE, FALSE, TRUE)}}

\* Files that are trimmed by one round of the loop or more, and one the total leaves out.
MCSizes == {<<100, 130>>, <<300, 300, 10>>}

C == INSTANCE TurnContext
        WITH turn <- brings, workspace <- workspaceOf, Workspace <- Root,
             Turn <- DOMAIN MCSessionOf, Session <- {"s", "r"}, SessionOf <- MCSessionOf,
             SkillDirs <- MCSkillDirs, Sizes <- MCSizes

ASSUME C!ContextAssumption

bringing == <<workspaceOf, skillFiles, bootFiles, provided, bootCache, skillsCache, recall,
              brings, edits>>

\* One workspace holds the one, the other the other.
MCContextInit ==
    /\ C!ContextInit
    /\ workspaceOf = CHOOSE w \in Root : TRUE
    /\ skillFiles[workspaceOf] = CHOOSE d \in MCSkillDirs : TRUE
    /\ bootFiles[workspaceOf] = CHOOSE z \in MCSizes : TRUE
    /\ \A w \in Root \ {workspaceOf} : /\ skillFiles[w] # skillFiles[workspaceOf]
                                      /\ bootFiles[w] # bootFiles[workspaceOf]
    /\ provided = {} /\ recall = "on"

------------------------------------------------------------------------------

MCInit ==
    /\ Init /\ W!WorkspaceInit /\ MCContextInit
    /\ \/ about \in {"loop", "files", "context"} /\ probe = << <<>>, <<"b">> >>
       \/ about = "search" /\ probe \in Probes  \* no step

LoopNext == about = "loop" /\ Next /\ UNCHANGED <<workspace, bringing, probe, about>>
FilesNext == about = "files" /\ W!WorkspaceNext /\ UNCHANGED <<vars, bringing, probe, about>>
ContextNext == about = "context" /\ C!ContextNext /\ UNCHANGED <<vars, workspace, probe, about>>

MCSpec ==
    MCInit /\ [][LoopNext \/ FilesNext \/ ContextNext]_<<vars, workspace, bringing, probe, about>>

\* What a tool or a restore takes from the workspace can be had back, and what a memory
\* flush noted down (Workspace).
FilesAreRecoverable == W!Recoverable /\ W!NotesAreKept

\* A patch does what it says, and a hunk is found where its words are and nowhere else
\* (Workspace, FuzzyMatch).
PatchesAreExact ==
    /\ W!PatchIsExact
    /\ about = "search" =>
          W!MatchHoldsPattern(probe[1], probe[2]) /\ W!ReplacesOnce(probe[1], probe[2], <<"b">>)

\* The skills of a turn are those of its workspace, the bootstrap files of a session stay the
\* same and keep within their budget (TurnContext).
ContextIsSound == C!ContextIsSound
====
