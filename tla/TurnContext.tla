----------------------------- MODULE TurnContext -----------------------------
(* What a turn brings to the model before its first round (_run_agent_session_turn *)
(* up to the system prompt): the skills of its workspace through the skills cache,   *)
(* a slash command, the recall of active memory, the user's message, and the files   *)
(* of the workspace through the bootstrap cache.  Turns of several sessions run at    *)
(* once in one process and share both caches and the recall configuration.            *)
EXTENDS Integers, Sequences

CONSTANTS
    Workspace, Session, Turn,
    SessionOf,      \* the session of a turn
    SkillDirs,      \* what the skill directories seen from a workspace may hold: sets of files
    Requirement,    \* what skills may require: binaries, variables, systems
    Filter,         \* the names that skill_filter lets pass
    Sizes,          \* the lengths that the bootstrap files may have, in injection order
    MarkerSize,     \* the length of the truncation marker of a file
    MaxChars, TotalMaxChars,    \* bootstrapMaxChars, bootstrapTotalMaxChars
    MaxToolIters,   \* _MAX_TOOL_ITERS
    MaxEdit         \* bound on edits, switches, settings and restarts

ContextAssumption ==
    /\ SessionOf \in [Turn -> Session]
    /\ Sizes \subseteq Seq(Nat)
    /\ {MarkerSize, MaxChars, TotalMaxChars, MaxToolIters, MaxEdit} \subseteq Nat

VARIABLES
    workspace,      \* the workspace of the runtime
    skillFiles,     \* the skill files seen from a workspace
    bootFiles,      \* the lengths of its bootstrap files
    provided,       \* the requirements that are met
    bootCache,      \* the bootstrap cache, by session
    skillsCache,    \* the one slot of the skills cache
    recall,         \* active_memory_config of the runtime
    turn,
    edits

contextVars == <<workspace, skillFiles, bootFiles, provided, bootCache, skillsCache, recall,
                 turn, edits>>
world == <<workspace, skillFiles, bootFiles, provided, recall, edits>>

NoTurn == [pc |-> "none", workspace |-> "", from |-> "", skills |-> {},
           visible |-> {}, bound |-> FALSE, calls |-> 0, recalled |-> FALSE,
           committed |-> FALSE, boot |-> <<>>]
NoSlot == [loaded |-> FALSE]
Running == {t \in Turn : turn[t].pc \in {"skills", "recall", "prompted"}}

ContextInit ==
    /\ workspace \in Workspace
    /\ skillFiles \in [Workspace -> SkillDirs] /\ bootFiles \in [Workspace -> Sizes]
    /\ provided \in SUBSET Requirement
    /\ bootCache = <<>> /\ skillsCache = NoSlot
    /\ recall \in {"absent", "on"}
    /\ turn = [t \in Turn |-> NoTurn]
    /\ edits = 0

--------------------------------------------------------------------------------
(* Skills.                                                                         *)

\* load_skill_entries: files that do not load are passed over; of equal names the file of the
\* higher source, and in it the later directory, wins.
Entries(files) ==
    {f \in files : /\ f.loads
                   /\ \A g \in files : g.loads /\ g.name = f.name => g.rank <= f.rank}

\* check_skill_eligibility, of a turn: neither configuration nor allowlist is handed on.
Eligible(entries) ==
    {f \in entries : f.name \in Filter /\ (f.always \/ f.needs \subseteq provided)}

\* filter_visible_skills: what the prompt lists.
Visible(eligible) == {f \in eligible : ~f.hidden}

\* Mutant: the slot is looked up by session alone.
SkillsOfSession(s, w) ==
    IF skillsCache.loaded /\ skillsCache.session = s THEN skillsCache
    ELSE [loaded |-> TRUE, session |-> s, workspace |-> w, from |-> w,
          entries |-> Entries(skillFiles[w])]

\* get_or_load_skills for this session and workspace: the slot, loaded again if it is another's.
SkillsOf(s, w) ==
    IF skillsCache.loaded /\ skillsCache.session = s /\ skillsCache.workspace = w
    THEN skillsCache
    ELSE [loaded |-> TRUE, session |-> s, workspace |-> w, from |-> w,
          entries |-> Entries(skillFiles[w])]

\* The turn begins: _load_turn_skills and _prepare_skill_command, with no await between.
TurnBegins(t) ==
    LET w == workspace
        slot == SkillsOf(SessionOf[t], w)
        eligible == Eligible(slot.entries)
    IN /\ turn[t].pc = "none"
       /\ \A o \in Running : SessionOf[o] # SessionOf[t]
       /\ skillsCache' = slot
       /\ turn' = [turn EXCEPT ![t] =
                     [NoTurn EXCEPT !.pc = "skills", !.workspace = w, !.from = slot.from,
                                    !.skills = eligible,
                                    !.visible = Visible(eligible),
                                    !.bound = recall # "absent"]]
       /\ UNCHANGED <<world, bootCache>>

\* skills_list, of any client, with the key of the runtime: it takes the slot, too.
SkillsList(s) ==
    /\ skillsCache' = SkillsOf(s, workspace)
    /\ UNCHANGED <<world, bootCache, turn>>

--------------------------------------------------------------------------------
(* Active memory.                                                                  *)

\* recall_active_memory: the configuration the turn was given is on, and there is a query.
RecallStarts(t) ==
    /\ turn[t].pc = "skills" /\ turn[t].bound /\ recall = "on"
    /\ turn' = [turn EXCEPT ![t].pc = "recall", ![t].calls = 1]
    /\ UNCHANGED <<world, bootCache, skillsCache>>

\* The model asks for tools, whose results go into the next call.
RecallContinues(t) ==
    /\ turn[t].pc = "recall" /\ turn[t].calls < MaxToolIters
    /\ turn' = [turn EXCEPT ![t].calls = @ + 1]
    /\ UNCHANGED <<world, bootCache, skillsCache>>

--------------------------------------------------------------------------------
(* The prompt.                                                                     *)

\* trim_bootstrap_content: the length of what is left of a file within max.  The first round
\* of its loop is two over, the next ones fifty less.
Trimmed(n, max) ==
    LET Fit[a \in 0..max] ==
            IF a < MarkerSize THEN MarkerSize
            ELSE IF a + 2 <= max THEN a + 2
            ELSE IF a - 50 < MarkerSize + 20 THEN MarkerSize
            ELSE Fit[a - 50]
    IN IF n <= max THEN n ELSE Fit[max]

\* build_bootstrap_context: the lengths of the files, as long as something of the total is left.
Injected(sizes) ==
    LET Left[i \in 0..Len(sizes)] ==
            IF i = 0 THEN TotalMaxChars
            ELSE LET l == Left[i - 1]
                 IN IF l <= 0 THEN l
                    ELSE l - Trimmed(sizes[i], IF MaxChars <= l THEN MaxChars ELSE l)
    IN [i \in {j \in 1..Len(sizes) : Left[j - 1] > 0} |-> Left[i - 1] - Left[i]]

\* get_or_load_bootstrap_files: the key is the session alone.
BootOf(s, w) ==
    IF s \in DOMAIN bootCache THEN bootCache[s] ELSE Injected(bootFiles[w])

\* With the recall, if there was one, the user's message is committed and the system prompt
\* built: the recall ended with a text (or nothing), gave up after its calls, or raised.
Prompts(t) ==
    LET s == SessionOf[t]
        boot == BootOf(s, turn[t].workspace)
    IN /\ \/ turn[t].pc = "recall"
          \/ turn[t].pc = "skills" /\ ~(turn[t].bound /\ recall = "on")
       /\ \E found \in IF turn[t].pc = "recall" THEN BOOLEAN ELSE {FALSE} :
             turn' = [turn EXCEPT ![t].pc = "prompted", ![t].recalled = found,
                                  ![t].committed = TRUE, ![t].boot = boot]
       /\ bootCache' = [x \in DOMAIN bootCache \cup {s} |-> IF x = s THEN boot ELSE bootCache[x]]
       /\ UNCHANGED <<world, skillsCache>>

\* The rounds of the turn are over (AgentLoop), or it is cancelled in them or before.
TurnEnds(t) ==
    /\ t \in Running
    /\ turn' = [turn EXCEPT ![t].pc = "ended"]
    /\ UNCHANGED <<world, bootCache, skillsCache>>

--------------------------------------------------------------------------------
(* What changes under the turns.                                                   *)

Changes == edits < MaxEdit /\ edits' = edits + 1

\* A tool of a turn, or the user, edits the files of a workspace.
Edits(w) ==
    /\ Changes
    /\ \/ \E d \in SkillDirs \ {skillFiles[w]} :
             skillFiles' = [skillFiles EXCEPT ![w] = d] /\ UNCHANGED bootFiles
       \/ \E z \in Sizes \ {bootFiles[w]} :
             bootFiles' = [bootFiles EXCEPT ![w] = z] /\ UNCHANGED skillFiles
    /\ UNCHANGED <<workspace, provided, bootCache, skillsCache, recall, turn>>

\* A binary or a variable comes or goes.
Provides(x) ==
    /\ Changes
    /\ provided' = IF x \in provided THEN provided \ {x} ELSE provided \cup {x}
    /\ UNCHANGED <<workspace, skillFiles, bootFiles, bootCache, skillsCache, recall, turn>>

\* active_memory_set changes the configuration in place; the first one makes it.
RecallSet(to) ==
    /\ Changes /\ recall # to
    /\ recall' = to
    /\ UNCHANGED <<workspace, skillFiles, bootFiles, provided, bootCache, skillsCache, turn>>

\* runtime_update to an agent of another workspace, which no turn is under.
Switches(w) ==
    /\ Changes /\ Running = {} /\ w # workspace
    /\ workspace' = w
    /\ recall' \in {"absent", "on"}
    /\ UNCHANGED <<skillFiles, bootFiles, provided, bootCache, skillsCache, turn>>

\* The daemon is started again: the caches are gone, and the turns.
Restarts ==
    /\ Changes
    /\ bootCache' = <<>> /\ skillsCache' = NoSlot
    /\ recall' \in {"absent", "on"}
    /\ turn' = [t \in Turn |->
                  IF turn[t].pc = "none" THEN NoTurn ELSE [turn[t] EXCEPT !.pc = "lost"]]
    /\ UNCHANGED <<workspace, skillFiles, bootFiles, provided>>

ContextNext ==
    \/ \E t \in Turn : \/ TurnBegins(t) \/ RecallStarts(t) \/ RecallContinues(t)
                       \/ Prompts(t) \/ TurnEnds(t)
    \/ \E s \in Session : SkillsList(s)
    \/ \E w \in Workspace : Edits(w) \/ Switches(w)
    \/ \E x \in Requirement : Provides(x)
    \/ \E to \in {"on", "off"} : RecallSet(to)
    \/ Restarts

ContextSpec == ContextInit /\ [][ContextNext]_contextVars

--------------------------------------------------------------------------------
(* Properties.                                                                     *)

\* A turn works with the skills of its own workspace, one of each name, each of them eligible,
\* though one slot serves all sessions, clients and workspaces (SkillsCache.get_entries).
SkillsAreOwn ==
    \A t \in Running :
        /\ turn[t].from = turn[t].workspace
        /\ turn[t].visible \subseteq turn[t].skills
        /\ \A f, g \in turn[t].skills : f.name = g.name => f = g

\* Until the daemon is started again all turns of a session get the same bootstrap files, so
\* that the prefix of the prompt can be cached: edits, turns of other sessions and another
\* workspace of the runtime do not show (get_or_load_bootstrap_files).
PrefixIsStable ==
    \A t \in Turn : turn[t].committed /\ turn[t].pc # "lost" =>
        /\ SessionOf[t] \in DOMAIN bootCache
        /\ turn[t].boot = bootCache[SessionOf[t]]

\* A file keeps within its budget, or is but the marker; all files together are at most one
\* marker over theirs (build_bootstrap_context).
BudgetIsKept ==
    \A s \in DOMAIN bootCache :
        LET boot == bootCache[s]
            Total[i \in 0..Len(boot)] == IF i = 0 THEN 0 ELSE Total[i - 1] + boot[i]
        IN /\ \A i \in DOMAIN boot : boot[i] <= MaxChars \/ boot[i] = MarkerSize
           /\ Total[Len(boot)] <= TotalMaxChars + MarkerSize

ContextIsSound == SkillsAreOwn /\ PrefixIsStable /\ BudgetIsKept

\* What a comment says (loop.py 936), and the code does not do: a turn that was cancelled
\* after a model was called for it has left its prompt in the session.
PromptIsAnchored ==
    \A t \in Turn : turn[t].pc = "ended" /\ turn[t].calls > 0 => turn[t].committed
================================================================================
