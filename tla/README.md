# nano-openclaw, modelled in TLA+

TLA+ modules, TLC configurations and TLAPS proofs about the concurrent and
crash-exposed parts of nano-openclaw: the daemon, its channels, and the sessions and
voice mode of the web page. Paths below are relative to `src/nano_openclaw/`.

    tlc -workers 2 -config MCBackendTurns.cfg MCBackendTurns   # one run
    tlapm BackendTurnsProofs.tla                               # one module of proofs

`PROJECT.json` lists the runs, the mutants (bugs each property is shown to catch),
the source lines of each definition, the hazards and the findings.

## 1. The system

nano-openclaw is an LLM agent that runs as a daemon. One `EmbeddedBackend`
(`services/backend_embedded.py`) owns the conversations and the current agent
runtime; terminals, browsers, messenger bots and voice devices are clients of it,
in the same process or over a websocket. All of it is one asyncio event loop: a
step of a model is the code between two awaits. The browser is a second such loop.

| component | state | operations | what is hard |
|---|---|---|---|
| runtime update (`services/runtime_update.py`, `core/runtime.py`, `services/runtime_factory.py`) | the runtime, a guard with readers and a writer per runtime, a cron loop per runtime | enter/leave the guard, `runtime_update` (build, check, swap, restart channels, close the old one) | each runtime has a guard of its own, so two updates overlap; closing awaits a cron loop that awaits the guard |
| turns (`services/backend_embedded.py`, `services/runs.py`) | `active_turn_id`, `session.lock`, cancel tokens, run registry | `chat_send`, `_run_turn`, `chat_abort`, `sessions_compact`, `aclose` | checks before awaits, two ways to cancel, terminal event before or after the release |
| approvals (`services/approval_broker.py`, `approvals/manager.py`, `core/loop.py`) | waiting requests, futures, allowlist in memory and on disk | `request_decision`, `decide`, `deny_all`, dispatch of a batch of calls | answer, cancel, interrupt and shutdown race for one future; the allowlist on disk |
| session store (`services/agent_session.py`, `session/transcript.py`, `session/store.py`) | objects in memory, a transcript per session, `sessions.json` | create, load, select, reset, compact, delete, commit of a turn | memory and file have to agree at every await, and after a crash in a write |
| agent loop and compaction (`core/loop.py`, `core/compact.py`) | history, scratch copy, `CompactionState` | rounds of a turn, truncated replies, terminal tools, conclusion, commit, `compact_if_needed`, `_prune_old_tool_results` | cuts between calls and results, failing summaries, messages shared with the history |
| files of the workspace (`core/tools.py`, `core/patch_parser.py`, `fuzzy_match.py`, `features/checkpoint/service.py`, the memory flush of `core/loop.py`) | the files, checkpoints, directories put aside | `write_file`, `apply_patch`, checkpoint, restore, flush | two phases over changing files, loose matching, renames with a crash between, other processes |
| subagents (`features/subagents/*`, `features/review_fork/plugin.py`) | records, tasks and tokens of runs, pending announcements | spawn, the ends of a run, kill, wait, drain | turns, reviews and podcasts share slots and waits; turns stop with results in hand |
| podcast (`services/backend_embedded.py`, `features/voice/podcast.py`) | rounds, sequence numbers, generation, research per agent, queued inputs | start, round, speakers in parallel, input, update/remove/add an agent, stop | members change and users interject while speakers run; the client waits for each number |
| podcast player (`adapters/webui/static/voice-podcast.js`) | jobs, the pump, the priority answer, synthesis slots | events of the podcast, pump, interject, remove, change a voice | the pump awaits while everything it will look at is reset |
| voice conversation (`voice-core.js`, `voice-shell.js`, `voice-speaker-*.js`, `voice-pcm-player.js`, `app.js`, `adapters/webui/server.py`) | the core's model, microphone, a chain of engines, timers | the transition function, engines that fail over, taps, the turn over the websocket | late callbacks, echo, hidden tabs, events of other clients |
| web pages (`adapters/webui/server.py`, `services/slash.py`, `app.js`) | a socket and a session per page, what the page shows and takes for running | select, create, clear, delete, send, cancel, by socket or HTTP | two ways to the page that overtake one another, other pages that change the sessions |
| cron (`features/schedule/*`) | `jobs.json`, `state.json`, running tasks | tick, recovery, execution, deferral, create, delete | state read at a tick and written minutes later; restart computes slots anew |
| memory (`features/memory/extractor.py`, `dreaming.py`, `zvec_provider.py`, `tools.py`) | cursors and stashes; index, manifest, recall counts, MEMORY.md | hook, extraction; search, sweep, diary | cursors into a history that changes, several files written one after the other, a lock that sweeps queue for |
| event subscribers (`services/backend_embedded.py`, `api/ws_route.py`, `api/backend_websocket.py`) | a bounded queue per subscriber in the daemon, one in the client | emit, push, pump, dispatch, take, close | overflow must be announced, across two queues and two filters |
| RPC and the remote terminal (`api/*`, `adapters/cli/ws_repl.py`) | pending requests, subscribers, what the renderer has open | call, answer, time out, send, stream, abort | a turn begins and ends before its id arrives; the connection goes at any point |
| MCP servers (`features/mcp/*`) | a task, a status and a session per server, the tools in the registry | start of a runtime with a timeout per server, calls, close | a server becomes ready as it is given up; one that is gone keeps its session |
| skills and the curator (`features/skills/usage.py`, `curator.py`) | `.usage.json` and its lock, the curator's flags | record an event, age, pause, enable | several processes read, change and replace the same files |
| what a turn brings to its prompt (`features/skills/*`, `features/memory/active.py`, `core/workspace/*`, `core/loop.py`) | one slot of skills, a cache of bootstrap files, the recall settings | load, gate, recall, trim, build the prompt | caches shared by sessions, clients and workspaces that change |
| gateway (`services/channels.py`, `daemon/server.py`) | the channel adapters, started and stopped | start, stop, `restart_all`, `stop_all`, shutdown | adapters' `stop()` is awaited by several callers; which runtime an adapter holds |
| daemon control (`daemon/cli.py`, `pidfile.py`, `restart.py`) | processes, `gateway.pid`, the port | start, stop, run, restart in place | a file, a port and a process that disagree; signals at any moment |
| wechat (`wechat/bot.py`, `ilink.py`, `notify.py`, `adapters/channels/wechat.py`) | poll and token, tasks, map of users, file of notifications | poll, message, reply in pieces, deliver, start, stop | two tasks and two bots rewrite one file; sends fail half-way |
| xiaozhi (`adapters/xiaozhi/*`) | recognition, tasks, music, audio of the device | listen, final text, interrupt, speak, play, abort, close | an interruption in every phase of what it interrupts |

What is left out: section 7.

Interactions: a turn enters the guard of the runtime, takes the session's lock,
asks for approvals through the broker, takes a checkpoint before it changes a file,
writes through the session's transcript writer and tells subscribers. Its rounds may
spawn subagents, whose results come back as messages of a later round; after it the
memory hook may start an extraction. `runtime_update` is the writer of the guard and
restarts the channels and the schedulers. Cron jobs are turns without a client that
enter the guard their loop was built with; their results go to the notification file of
a channel. Terminals, the web page and the channels are subscribers and send turns.

What makes it correct, in a sentence each: no swap under a turn; a session has one
turn and the turn ends once; nothing dangerous runs without consent; what a client
was told is done is on disk; a model is asked well-formed questions about the request at
hand; what a tool takes from a file can be had back; a parent learns what its subagents
found; a job's slot runs once; no turn is skipped by the memory, and no memory kept
twice; a lost event is announced; a prompt comes back; one adapter serves an account;
the pid file names the daemon that serves; a notification is shown in full, in order and
once; a device has one voice; the page does not listen to itself and passes nothing over.

## 2. The modules

One module per component; the MC modules put components that share no state into one
run. Such a run begins with a choice, the variable `about`, of the component the
behaviour is about, and the variables of the other keep their initial values: TLC
explores the sum of the state spaces, not their product, and the names of the
component's modules stay what they are. Where components do share state, one module
EXTENDS the other (`BackendTurns` and `Gateway` extend `RuntimeUpdate`).

| module | models | composes |
|---|---|---|
| `RuntimeUpdate` | the guard and the hot swap | |
| `RemoteTui` | RPC over a websocket and the terminal at its end | |
| `McpRuntime` | the MCP servers of one runtime | |
| `McpRuntimeProofs` | theorems about it | EXTENDS `McpRuntime`, `TLAPS` |
| `MCRuntimeUpdate` | three servers for TLC | `RuntimeUpdate`, `RemoteTui`, `McpRuntime` |
| `TurnService` | what the backend promises of turns: an abstract specification | |
| `BackendTurns` | turns, aborts, forced compactions, `aclose` | EXTENDS `RuntimeUpdate`; implements `TurnService` |
| `BackendTurnsProofs` | theorems about the guard and about turns | EXTENDS `BackendTurns`, `TLAPS` |
| `MCBackendTurns` | its two kinds of behaviours for TLC | EXTENDS `BackendTurns` |
| `Approvals` | batches of tool calls and their approvals | |
| `MCApprovals` | its commands and patterns for TLC | EXTENDS `Approvals` |
| `ApprovalsProofs` | theorems about it | EXTENDS `Approvals`, `TLAPS` |
| `SessionStore` | objects, transcripts, index, crashes | |
| `SessionStoreProofs` | theorems about it, and about recursion over lines and messages | EXTENDS `SessionStore`, `TLAPS` |
| `WebPages` | the sessions as the pages of the web UI see them | |
| `MCSessionStore` | their symmetry for TLC | `SessionStore`, `WebPages` |
| `AgentLoop` | the rounds of a turn and the compaction of its history | |
| `AgentLoopProofs` | theorems about it | EXTENDS `AgentLoop`, `TLAPS` |
| `Workspace`, `FuzzyMatch` | files, patches, checkpoints, flushes; the search for a hunk | `Workspace` EXTENDS `FuzzyMatch` |
| `TurnContext` | skills, recall and bootstrap files of turns | |
| `MCAgentLoop` | patches, texts and skills for TLC | `AgentLoop`, `Workspace`, `TurnContext` |
| `Subagents` | runs of subagents and the turns that spawn and wait | |
| `SubagentsProofs` | theorems about it | EXTENDS `Subagents`, `TLAPS` |
| `Podcast` | the discussion, in the backend | |
| `MCSubagents` | | `Subagents`, `Podcast` |
| `CronScheduler` | the scheduler and its files | |
| `MemoryRecall` | index, recall counts, dreaming | |
| `MemoryExtractor` | extraction after turns | |
| `SkillCurator` | usage of skills and their ageing, by several processes | |
| `MCBackground` | | EXTENDS `CronScheduler`; `MemoryRecall`, `MemoryExtractor`, `SkillCurator` |
| `BackgroundProofs` | theorems about the four | EXTENDS `MCBackground`, `TLAPS` |
| `Gateway` | channels, updates and the shutdown of the daemon | EXTENDS `RuntimeUpdate` |
| `EventStream` | one local or remote consumer of the event stream | |
| `DaemonControl` | processes, pid file, port, commands | |
| `MCGateway` | | `Gateway`, `EventStream`, `DaemonControl` |
| `GatewayProofs` | theorems about the three | EXTENDS `MCGateway`, `TLAPS` |
| `WechatChannel` | one account | |
| `XiaozhiConnection` | one device | |
| `Chunking` | the split of a long text into messages | |
| `MCDevices` | their scenarios and texts for TLC | `XiaozhiConnection`, `WechatChannel`, `Chunking` |
| `VoiceTalk` | the voice conversation of the page | |
| `PodcastPlayer` | the player of the page | |
| `MCVoice` | | `VoiceTalk`, `PodcastPlayer` |

How state and code correspond:

* **RuntimeUpdate.** A build of the runtime is a *generation*. `readers[g]` and
  `writer[g]` are the two counters of `RuntimeUpdateGuard`; `runtime` is
  `EmbeddedBackend.runtime`. An update goes idle → building (`UpdateStart`, inside
  `writer()`) → `UpdateSwap` or `UpdateReject` → restarting → closing → draining →
  idle. `AgentRuntime.close` is two steps, because it awaits the cron loop and then
  the client: `UpdateStopsScheduler`, `UpdateClosesClient`. A loop that is still in
  `_run_missed_jobs` (`recovering`) is cut with its run; one past it is awaited.
* **BackendTurns.** `turn[t]` is the place of the task in `_run_turn`; `queue[s]` is
  the FIFO of waiters of `session.lock`; `cancelled` is the cooperative token,
  `interrupted` a pending `task.cancel()`. `configured[t]` and `client[t]` are the
  generations from which the turn took its tools and its client: the first at its
  first step, the second when it has the lock. `ended[t]` is the list of terminal
  events, kept to state that there is one.
* **Approvals.** `phase[t]` is where the batch is, `results[t]` the calls already
  answered; `pending` is the broker's dictionary, `answer` the results set on the
  futures in it; `allowlist` is the manager's list, `stored` the file. A pattern is
  named by the command it was taken from, and the constant `Matches` says which
  commands it matches. `Exempt` are the calls that `check_request` lets through whatever the
  mode (tools that are not in `dangerous_tools`, `write_file` of memory notes), `Protected`
  the `bash` commands that install Python packages, for which `dispatch` does not ask it at
  all; `AskMode` and `SecurityMode` are the policy. An `unattended` turn has nobody to ask:
  what needs approval is refused at once (`DenyNext`).
* **SessionStore.** An *object* is an `AgentBackendSession`. `disk[s]` is the list of
  lines of the transcript, for each *s* that has one; a line half written (`torn`) swallows the next one
  (`garbled`). `scratch[t]` is the copy the agent loop works on, `ops[t]` the lines
  `_commit_turn` will write. A message is its kind and its turn.
* **AgentLoop.** A message is its kind and a number; a summary is the set of messages
  it was made of. `scratch` is `scratch_history`, `phase` the place in
  `_run_agent_session_turn`: at the top of a round, in the model call, in the call that
  follows a truncated reply, in the tools, in the concluding call. The helpers of
  `compact.py` are operators on sequences with the code's indices (`Align`,
  `EnsureLastText`, `SevereCut`, `SplitCut`, `TrimStart`, `Sanitized`, `Prunable`);
  whether a threshold is met is a choice, where the cut falls is computed. Pruning
  happens in place to messages the history shares, so `pruned` outlives a stopped turn.
  A batch of calls and its results are one message each, as in the code.
* **WebPages.** `conn[p]` is the socket of a page with what the endpoint keeps for it (`up`,
  `down` its two directions, `queue` its subscriber, `current` its session), `page[p]` what
  `app.js` shows and takes for running, `answer[p]` the answer of an HTTP route on its way,
  `store` the manager. One page's message is dealt with at a time, as the endpoint awaits
  each; `stops` and `deletes` are the two places where it awaits.
* **Subagents.** `status[r]` is the record of run *r*; a record that is not terminal
  has a task. `pending[s]` is `_pending_announcements`, `turn[s]` the place of the
  session's turn; an announcement is the id of its run. Completed, failed and timed out
  are one outcome, since they differ in the text only.
* **CronScheduler.** Time is minutes; an expression is a period. `marked` is
  `running_at_ms`; `loop` is down, recovering or up; a run is waiting (task spawned),
  running or free.
* **EventStream.** `queue` is the queue of the backend's subscriber, `wire` the
  websocket, `remoteQueue` the client's queue. An item is an event or a gap with its
  number (for a gap, `expected_next_seq`). `remote` and `filter` are chosen at the
  start: a consumer in the process or behind a connection, of one session or all.
* **Gateway.** `instances[c]` is `ChannelManager._instances`, `state[x]` what the
  adapter itself does, `stopping` the awaits of an adapter's `stop()` with who awaits.
* **RemoteTui.** `up` and `down` are the frames of the websocket; `handled` is the request
  the daemon's loop awaits, which keeps the next one waiting; `calls` and `pending` are
  `_call` and `_pending_requests`; `turns` are the turns of the session, of other clients
  too, with what each has said; `sub` is the subscriber that `ws_repl` opens before it
  sends; `view` is what the renderer has shown and has open.
* **Workspace.** `files` maps paths to texts, sequences of words, blanks and newlines;
  `snaps` are checkpoints (`listed` once meta.json is written), `backups` the directories
  restores put aside, `op` the call that is at work. A patch is a sequence of tokens, one
  per line. The parser, the validation, the search with its four strategies and the two
  phases are operators; calls, failures and other processes are actions. A tool begins with a
  checkpoint or, in a registry without the hook, at once (`BeginsUnsaved`, `op.unsaved`).
  `flush` is the silent turn before a compaction.
* **Podcast.** `host`, `round` and `speaker` are the places of `_run_podcast`,
  `group` the agents with their settings, `input` the queue of interjections, `player`
  what the client has been told of each number. A generation is what `reset_generation`
  begins anew.
* **PodcastPlayer.** `talk[s]` is the job of sequence *s*, `feed` the events on their way,
  `player` the pump with its flags, `answer` the priority speech, `orphan` a synthesis
  that was given up and still has its slot.
* **VoiceTalk.** `page` is the model of `voice-core.js` with what its commands start; an
  event is an operator from page to page, as in the code a function from model to model and
  commands. `link`, the server and the turn are what `app.js` and `server.py` do with it.
  `speech.heard` is the chain's `audioHeard`, `speech.fired` the player's `audibleFired`: the
  player reports its first sound since it was stopped, and the chain asks anew for each
  response. `turn.heard` is what really sounded, `turn.again` what of it is read once more.
* **MemoryRecall.** A chunk is a path, a line and what it says; `manifest` is what the
  index says it holds, `recall` the counts, `sweeper[r]` a dreaming scheduler per runtime
  and the manual sweep, `waiting` the FIFO of the lock.
* **MemoryExtractor.** A message stands for those of a turn: the number of the turn, negative
  for a summary, and what the id has of its text (`start`, from the constant `Start`: the first
  32 characters of the first block, and nothing of one that begins with thinking). `state[g]`
  is an `ExtractorState` (cursor, in-flight task, pending payload); a cursor is a place and a
  start, and `After` compares just these. Its turn is history: it says when the cursor was
  found at another message than its own (`Mistaken`), and `mistaken` has what that passed over.
* **McpRuntime.** `hook` is where the life of the runtime stands, `at` the server for which
  `initialize` waits; `task`, `ready`, `status` and `session` are the four dictionaries by
  server. A wait ends because the server is ready (`WaitEnds`) or because its time is up
  (`WaitExpires`), and then the cancelled task is waited for (`Reaped`).
* **SkillCurator.** `proc[p]` is what a process does: it holds the file it loaded under the
  lock, or the report and flags that a run of the curator read. The four counters of a
  record are one, its times one day. The pinned skills are a constant: `set_pinned` has no caller.
* **TurnContext.** A skill file is a record of its name, the rank of its directory, what it
  requires and how it is exposed; a bootstrap file is its length. `turn[t]` has what the turn
  was given: the workspace, the skills and the files.
* **DaemonControl.** `proc[p]` is where `run_daemon` stands in process *p* and the signals
  it got; `op[o]` the command at terminal *o*; the port is open when a process serves or
  drains.
* **WechatChannel.** `poll` is the loop with its cursor and failures, `tasks` the tasks of
  messages with their buffers, `rows` the file of notifications, `poller[b]` the delivering
  task of bot *b*: a stopped bot may be in the middle of a send when its successor starts.
* **Chunking.** `ChunkText` is `chunk_text`, with its scan of fences and its two searches for a
  break; a `ValueError` is a part that failed.
* **XiaozhiConnection.** `asr` is the recognition with its generation, `task[k]` a task
  of `_run_transcript` and where it stands, `music` the playback controller and its lock,
  `audio` who sends audio, `active` the turn of the backend.

Every component's module states its type invariant where it has one to state;
`runtime_update` (in `GuardSafety`), `turns` (`TurnsConsistent` begins with it), `sessions`
(`PagesAreSound`), `background` (`JobsAreSound`, `SkillsAreSound`) and `agent_loop`
(`ConversationIsKept`) check theirs, in the others the run's checks are spent on the behaviour.

History variables record what an invariant needs to excuse exactly: `unrecorded`
and `refired` (CronScheduler), `shortened`, `gone` and `deleted` (SessionStore),
`overlapped` (Gateway), `unended` (EventStream), `dropped`, `lost`, `cutOff`, `mended`
and `noted` (AgentLoop), `discarded` (Subagents), `past` (Workspace, PodcastPlayer),
`dropped` (RemoteTui), `alone` (DaemonControl), `hasty` (WebPages), `overwritten` (WechatChannel),
`page.astray` and `turn.again` (VoiceTalk), `mistaken` (MemoryExtractor). Each stands for a defect named in section 6 or for the
environment; everything outside the excuse is checked in the same run.

## 3. The runs

Ten runs must pass, two show a disagreement. A run that passes has a mutant for
each of its properties: a change of the modelled code with which TLC finds the
property violated under the same configuration. A property of an MC module is often a
conjunction of named properties of its components.

| run | properties | shows | bounds, and why they are enough |
|---|---|---|---|
| `runtime_update` (263 399 states) | `GuardSafety`, `NoOrphanScheduler`, `SwapIsExclusive`; `TuiIsSound` = `OwnTurnIsShown`, `PendingIsAnswered`; `McpIsSound` = `NothingLeaks`, `StatusIsTrue`, `NamesAreKept`; `WaitersGoOn` = `UpdateEnds`, `PromptReturns`, `StartEnds`, `CloseEnds` | no update over a turn, the serving runtime stays open, no old cron loop is left, updates end; a stream shows its own turn whole, no request is forgotten, the prompt comes back; no connection to a server outlives its runtime, and none keeps it from starting or closing | two runs, a cron run, two updates, five generations: two updates overlap in every order, are refused, and each can go round more than once. Terminal: two turns, two requests at a time, queues of two: a turn of another client comes before, between and after. Servers: three, one without a transport, two with tools of one name, one with a tool named like a built-in one, a call: each may hang, fail, break or be lost while another one is waited for |
| `turns` (236 641) | `TurnsAreSound` = `TurnsConsistent`, `OneRuntimePerTurn`; `ImplementsTurnService`; `CallsKeepTheirWord` = `AbortReleases`, `EveryCallEnds`, `ClosedIsDrained`, `ThinkingNotLeftBehind` | registry, lock, guard and phase agree; a turn sees one runtime; turns implement `TurnService`; aborts and `aclose` end and leave nothing behind | two turns. About updates: one session, an update, a cron run, an adapter that raises, and either `aclose` or a compaction. About aborts: two sessions, an abort, a compaction, `aclose`, no update |
| `approvals` (851 186) | `RunsOnlyWithConsent`, `RefusalStopsBatch`, `AnswerIsObeyed`, `PendingIsAwaited`, `AllowAlwaysIsForever`, `PromptEnds` | what the policy restricts runs with consent only, refusal, obedience, allow-always, end of prompts | two turns, attended or not, and eight batches of up to two calls out of a command with a pattern, one without, an exempt call and a protected installation: one turn's allow-always meets the other's question for the same command, what is free stands before and behind what is not; restarts between |
| `sessions` (795 037) | `TranscriptIsKept` = `ReloadKeepsMessages`, `DoneIsDurable`; `SessionsAreSound` = `OneWriterPerSession`, `WrittenIsListed`, `DeletedStaysDeleted`; `PagesAreSound` = `PageFollows`, `ButtonIsRight` | memory = transcript, answers durable, one writer, what is written is listed, deleted stays deleted; a page shows the session it is told about, and its button stops only what runs | two sessions, two turns, a call of reset or compact, two objects alive, one restart anywhere; symmetric in sessions and turns. Two calls at once are covered by the theorems (section 5). Pages: two, three sessions, a turn, three things that users do, a lost socket: one page deletes what the other one shows, while either waits for an answer |
| `sessions_forced` | `CompactedStaysCompacted` | *finding*: compacted messages come back at a restart | one session |
| `agent_loop` (1 815 461) | `WireIsPaired`; `ConversationIsKept` = `NothingVanishes`, `RequestKept`, `ResultsAreRead`; `FilesAreRecoverable` = `Recoverable`, `NotesAreKept`; `PatchesAreExact` = `PatchIsExact`, `MatchHoldsPattern`, `ReplacesOnce`; `ContextIsSound` = `SkillsAreOwn`, `PrefixIsStable`, `BudgetIsKept` | requests are well-formed, nothing said is lost unaccounted, the request at hand and unread results stay; what a call with a checkpoint takes can be had back; patches do what they say; a turn has the skills of its workspace and a stable prefix | two turns, three messages with calls, three compactions of either form: a compaction of a compaction inside one turn, with `context_recent_turns` 1 so that every cut meets a group. Files: three calls, each with the hook for checkpoints or without, one mishap anywhere, eight patches chosen for their interplay; the search over all texts up to four symbols and patterns up to three. Context: two workspaces, two sessions, three turns, directories of two and three skill files of two names, lengths about the budget, one change: both caches are filled by another one before they are read |
| `agent_loop_reset` | `SummaryForgetsReset` | *finding*: the summary of the old conversation survives a reset | same |
| `subagents` (586 531) | `ResultsArrive` = `ParentKnowsItsRuns`, `AnnouncedOnce`; `PodcastIsSound` = `PlayerIsNotStuck`, `ResearchIsFresh`; `WaitingEnds` = `WaitIsOver`, `PodcastEnds` | a parent that goes on knows its runs, a result is announced once, waits end; each number of a podcast is spoken or skipped, research that is used knows what was said | two runs of turns, one of a review, one of a podcast, two slots, two sessions, three turns: a later turn inherits the runs and results of one that stopped. Podcast: a founder and a member that joins, two rounds, two changes: one change meets the consequences of the other |
| `background` (718 841) | `JobsAreSound` = `TypeOK`, `NoOverlap`, `NoStuckJob`, `NoRefire`; `MemoryIsExact` = `IndexIsComplete`, `PromotionIsExact`, `NothingIsSkipped`, `OneExtractionEach`; `SkillsAreSound` = `EventsAreCounted`, `PinnedStay`; `BackgroundProceeds` = `OneShotRuns`, `RecallIsKept`, `ManualRuns`, `StashIsExtracted` | jobs, memory and skills | cron: a recurring and a one-shot job, two runs, four minutes with period two, one crash anywhere, one deferral. Recall: a daily file of two chunks, two edits, two runtimes, two times, one death. Extraction: three turns whose messages begin in one of two ways, one compaction, one reset, one end: the cursor is found at its own message, at none and at another one. Skills: two processes, a pinned skill and another, as many days as it takes to archive, two events, two runs or changes of flags: an event falls between the report and the change it causes |
| `gateway` (191 856) | `DaemonIsSound` = `LiveIsRegistered`, `AdaptersOnCurrent`, `ServingIsRecorded`; `StreamIsComplete` = `StreamInOrder`, `LossIsAnnounced`; `StreamIsLive` = `LossIsReported`, `CloseReleases`; `StopsStop` = `StopsEnd`, `StopStops` | channels, stream, pid file | two accounts and adapters, one update, a stopping client, one chat run. Queues of three (the code has hundreds) dropping two, wire of two, six events: the gap itself is dropped by a second overflow. Three processes, a restart, four commands |
| `devices` (255 797) | `VoiceIsSound` = `OneVoice`, `AbortDiscards`; `WechatIsSound` = `DeliveryIsExact`, `MapIsDurable`, `ChunkingIsSound`; `TalkersAreServed` = `ConnectionSettles`, `NobodyIsForgotten` | the device, the bot, the texts it sends | every text of up to four lines out of six (words, fences of every kind that matters to another one), for a limit that splits blocks and one that a block hardly fits; for device and bot five scenarios each (the module lists them), chosen so that each pair of the interesting events meets in one; a scenario bounds how many of each event there are |
| `voice_browser` (311 407) | `TalkIsSound` = `NoEcho`, `ReplyIsHeard`, `ReadOnce`; `PlayerIsSound` = `PumpIsAwake`, `NothingIsPassedOver`; `SoundGoesOn` = `ListensAgain`, `SaidIsHeard` | the voice page | talk: five combinations of turns, pieces of speech, touches, SSML, wake word, two messages on the net. Player: a host and two agents, three lines, two changes, one synthesis slot |

Deadlock is checked in `approvals`, where something can always happen. In the others it is off because the bounded behaviour ends: turns are sent
once, time stops at its bound, the daemon exits, a runtime is closed, a scenario is over.

Properties worth a second look: `ImplementsTurnService` (the terminal event and the
release of the session are one step for everybody else), `ConversationIsKept`
(any sequence of compactions, not one call of the helper),
`ReloadKeepsMessages` (at every await a restart would find what is in memory),
`StreamIsComplete` (a gap dropped by an overflow is folded into the next),
`OneRuntimePerTurn` (two reads of `self.runtime`, an await between them),
`Recoverable` (between the two renames of a restore, too), `NothingIsSkipped` (a cursor
that is a place and a few characters, into a list that is rewritten: the mistaken match is the
one way to lose a turn), `NoticesInOrder` (two bots, a chunk whose answer was lost),
`NoEcho` (timers and callbacks of engines that were stopped), `PumpIsAwake` (every way
a pause may end).

## 4. Fairness

The event loop runs every ready task, so steps that only wait for the loop, for a
timer or for another step are weakly fair. A turn may wait for a human and a stream may
trickle on: neither a turn, nor a forced compaction, nor an answer has fairness. Cron runs do end
(their model calls and tools have timeouts), the daemon is started again after a
crash, and minutes pass: `OneShotRuns` needs all three. In `gateway` an adapter's
`stop()` returns or raises, the consumer reads on, and a command at a terminal goes on.
In `subagents` runs end: rounds are bounded by `max_iterations`, model calls by the SDK's
timeout and three attempts, nobody is asked for approval; `run_timeout_seconds` is not
counted on, since its default is none. The wait looks again every 100 ms. Nothing makes a
turn go on otherwise. Of the terminal, the client's and the daemon's steps and the
timeouts are fair; the connection may be lost and need not be. In `devices` the bot polls
on and sending is strongly fair: `NobodyIsForgotten` is about a user whom messages can
reach at all, that is, not every attempt fails. In `voice_browser` the browser calls back
and the server answers; nobody has to touch the page.

In `McpRuntime` the hook goes on, timers expire and cancelled tasks end; no server need
answer, so `StartEnds` says that servers that hang cannot keep a runtime from starting.

For `XiaozhiConnection`, `VoiceTalk`, `PodcastPlayer` and the parts of `MCBackground` one weak fairness
condition covers all fair steps together. That is as good as one per step there: the
bounds end every behaviour, so a step that stays enabled is taken once the others are
used up. For the same reason `[]<>P` says in several properties what `P` at the end would.

## 5. What is proved

Of the guard, `BackendTurnsProofs` proves, for any sets of runs and updates and any bound
on generations (the assumptions are that chat and cron runs are distinct, that
`NoUpdate` is not an update and that the bound is a number):

* `GuardTypeCorrect`: the type invariant.
* `GuardSafe`: `GuardSafety`, that is the type invariant, `WriterExcludesReaders`, `ForegroundOnCurrent`
  and `CurrentIsOpen`.
* `GuardNoOrphans`: without an update under way only the current cron loop lives.
* `GuardSwapExclusive`: a swap happens without readers and goes forward.

The argument. The properties are not inductive: nothing in `CurrentIsOpen` says why
the update that closes generation *n* does not find *n* current again.
`GuardIndInv` adds three facts. `WriterIsItsUpdate`: an update that is under way
holds the writer slot of the generation it replaces, and nobody else does; so two
updates replace different generations. `UpdatesInOrder`: before its swap an update
replaces the current runtime and has built the newest; after it the generation it
retires is behind. `SchedulersAccountedFor`: a cron loop that lives belongs to the
current runtime or to exactly the update that will stop it. The proof has a lemma per
action.

`ApprovalsProofs` proves, for any turns, commands, matching of patterns and length of
a batch, and for any policy, exemptions and protected commands, every safety property of the
run `approvals`: `ConsentIsRequired` (`RunsOnlyWithConsent`, which is about what the policy
restricts: `Restricted`; section 6 has what it does not), `RefusalIsFinal` (`RefusalStopsBatch`), `AnswersAreObeyed`
(`AnswerIsObeyed`), `RequestsAreAwaited` (`PendingIsAwaited`) and, as an action
property, `AlwaysMeansForever` (`AllowAlwaysIsForever`). The assumptions are that
patterns match commands, that the bound on a batch is a positive number and that
`NoAnswer` is no decision.

The argument. `RunsOnlyWithConsent` alone is not inductive: it does not say that the
answer a turn wakes up with was given to *this* call. `ConsentInv` adds, per turn and
call: a call is answered only when its turn has come to it, and a request that is shown
is unanswered and is the one its turn waits for or was interrupted at (`InTurn`); what
became of a call is what was decided about it, and an allow-always is stored before the
turn goes on (`Decided`); a turn asks only before any refusal (`Places`); and the
manager's list is the file. Most lemmas then go through two facts: a turn whose own
calls, results and answers stay keeps its part of the invariant (`TurnUntouched`), and
appending one result that follows from the decision keeps it
(`NextResultKeepsInv`).

Of turns, `BackendTurnsProofs` proves, for any sessions, turns, aborts, compactions, cron runs, updates and
generations:

* `TurnsSafe`: `TurnsAreSound`, that is registry, session, lock, guard and task of a turn
  agree (`TurnsConsistent`) and a turn works with one runtime (`OneRuntimePerTurn`).
* `TurnsImplementService`: `ImplementsTurnService`. Initial states map to initial states,
  and every step to one of `TurnService` or to a stutter. The step that ends a turn
  removes it from session and registry and appends its terminal event, and that the turn
  had none before comes from `TurnOutcome`.
* `AbortsRelease` and `CloseDrains`: `AbortReleases` and `ClosedIsDrained`, two parts of the
  run's `CallsKeepTheirWord`, **if no adapter raises in `decorate_tools`**. The hypothesis
  (`~DecorateMayFail`) is needed: with it both are false (section 6), and the run checks
  them in its behaviours about aborts, where no adapter raises.

`TurnsIndInv` says that the place of a turn's task determines every other place that knows of
it (`TurnPlaces`, `CompactionPlaces`), that nobody stands twice in a queue (`QueuesAreLines`,
or the removal of a cancelled waiter would leave it there), that a turn in the guard is
counted at the runtime it got its tools from, which is the current one (`TurnRuntime`: with
`GuardIndInv` above, no update swaps while there is a reader), and `TurnOutcome`. For the
calls, `CallsIndInv` adds that `task.cancel()` strikes begun turns only, and that `aclose`
still has to wait for every registered turn.

Of cron, `BackgroundProofs` proves, for any jobs, runs, period, horizon and number of restarts:
`JobsSafe`, that is `JobsAreSound`. `NoOverlap` needs that a job whose run is under way is
marked (`RunningIsMarked`), since that is all a tick looks at, and `NoRefire` that the slot
of a run and the next slot of a job lie behind everything the job was run for (`SlotsAhead`,
`NextAhead`); the latter holds since the record of the last run, which recovery starts
from, covers all slots run, except for jobs whose record was lost with the daemon
(`unrecorded`).

Of what else the daemon does on its own it proves, for the behaviours of `MCBackground`, under
`BackgroundAssumption` (the bounds are numbers; the daily files are finitely many and
`MEMORY.md` is none of them; no process is called `Nobody`, pinned
skills are skills and a skill is stale before it is archived):

* `SkillsSound`, that is `SkillsAreSound`, for any skills, processes, days and limits, with deaths
  of processes anywhere. A process that changes the usage file holds what it loaded under
  the lock, and writes all of it back; `CuratorInv` says that this is still the file, since
  whoever stands there is the owner of the lock (`ProcessKnows`), and that what a run of the
  curator means to age was never pinned: rows are taken before the locks, hours of steps
  may lie between.
* `MemoryExact`, that is `MemoryIsExact`, in two halves. `RecallInv`, for any files, keys, edits,
  runtimes and deaths, adds to `IndexIsComplete` and `PromotionIsExact` that the manifest never has a time
  that its file has yet to reach (`ManifestOK`), or an edit could make a stale entry look
  current; `BlocksAreWritten` shows that a promotion appends blocks `MEMORY.md` does not have,
  each once.
  `ExtractorInv`, for any turns, compactions, resets, ends and cooldown and any set `Start` of
  what an id has of a message, says what makes a cursor, a place and a few characters, mean
  anything in a history that was cut or emptied since: every history and every snapshot is a
  summary or a turn, and then consecutive turns (`Talk`, `HistoryOK`); so if the cursor is found
  at the message it was taken from, everything before its place was seen by an extraction, is in
  a summary or is in `mistaken` (`CursorOK`, `Covers`), and if it is found at another one, that
  is the case the property excuses, and what a window leaves out then goes into `mistaken`; a
  snapshot that waits in the stash is newer than the one being read (`Sound`, `Before`).

Of the stream, `GatewayProofs` proves, for any sessions, filters, queue sizes and number of events, under
`StreamAssumption` (an overflow drops at least one item and not more than a queue
holds): `StreamOrdered`, that is `StreamInOrder`; and `StreamComplete`, that is
`StreamIsComplete`, if a remote subscriber filters no session (`RemoteFilter \subseteq
{NoSession}`, as in the run: otherwise the gap of the daemon is filtered away, section 6).
The invariant takes the stream in its four parts: each in order and before the next
(`PartsInOrder`), nothing numbered ahead of the backend (`NothingAhead`: a gap is numbered
with the next event), and every event offered is accounted for somewhere (`AllAccounted`). The
lemmas on `Elems` say what append, tail and overflow do to the items of a part, whichever
part it is.

Of channels and processes it proves, for any accounts (finitely many), adapters, calls of
`channels_stop`, generations and processes:

* `AdaptersRegistered`: `LiveIsRegistered`, for any number of updates at once. It needs that an
  entry of the manager is an adapter made for that account, and that whoever waits for the stop
  of an adapter knows the entry of its account, unless two of them wait (`ChannelsInv`): then a
  pop takes away the entry of the adapter that was stopped.
* `DaemonSound`: `DaemonIsSound`, **for one update and one command at a time** (`OneUpdate`,
  `OneTerminal`); without these hypotheses it is false (section 6). Updates may follow one
  another, and the run has a single one: the attempt to prove the property showed that an adapter
  lost by overlapping stops stays on the runtime it has when the next update restarts the
  channels, so `AdaptersOnCurrent` excepts it. `RestartInv`: an adapter of an older runtime is one that
  `restart_all` is stopping or has in its queue (`RestartReaches`; `OrderHasAll` says that the
  queue has every running account). `ControlInv`: one process at most, its pid in the file from
  before it takes the port, and a command that will remove the file knows that none lives, or
  which one does.

`SubagentsProofs`, for any runs, reviews, sessions, slots and number of turns:
`SubagentsReport`, that is `ResultsArrive`. An announcement moves between three sequences,
and `KnownGrows`, `KnownMoves` and `KnownShrinks` say what that does to their
concatenation; the invariant adds that a run has a requester from its spawn on, that only
what is over was discarded and that a turn awaits runs of its session.

`SessionStoreProofs`, for any sessions, turns, calls, objects and restarts, with crashes in
the middle of writes: `SessionsSafe`, that is `SessionsAreSound`. `OneWriterPerSession` is
about objects that are given up while a task holds them, so `StoreIndInv` keeps account of
those: a session in memory without a file was never given up
(`UnwrittenHasOneObject`; only its own writer can make the file, so what the object
believes about the header is true, `ManagerKnows`); an id is given out once
(`IdsAreCreated`); an active turn is on the object the manager has (`ActiveIsLoaded`) and
its prompt is in the file (`TurnsAtWork`), so a commit never makes a file anew; a forced
compaction, the one call that may write for an object that was given up, is not on a
session that counts as deleted (`CallsAtWork`). `FilesAreListed` is about every file but a lone
header, which a crash in the first write leaves unlisted.

The same module proves `TranscriptsAreKept`, that is `TranscriptIsKept`: what a restart would find is what is in
memory, at every step, and an answer a client was told about is in the file. It relates what
a recursion makes of the lines of a file (`Load`) to what it makes of the messages in memory
(`Said`); both are recursive functions, whose existence follows from well-founded induction
over the places of a sequence (`Recursion`), and `HeardAppend`, `ExtendFacts`, `RotatedFacts`
and their like say what one more line, a compaction or a rotation does to them. `KeepIndInv` adds to `StoreIndInv`, for any number of calls and objects:

* who works on an object has its lock, and a turn that has not begun has nothing pending
  (`LocksHeld`);
* a reply is the last word of its turn and a turn says nothing before its prompt, in memory
  and in the file (`MessagesInOrder`, `LinesInOrder`): or a repeated commit would count;
* the copy of a turn that has prompted is the history and what it said since, or a cut of
  that by a compaction, and its file has no torn end (`TurnsSpeak`): so the lines it will
  write, behind those that are there, read as its copy;
* an answer in the file is in memory, or was given up with the lines around it
  (`RepliesKept`), and one that was told about is in a file or gone (`AnswersStay`).

The attempt to prove it found what the run with one call cannot reach: a reset that waits for
a session that is deleted and comes back (section 6, `ResetRuns`).

`AgentLoopProofs`, for any number of turns, rounds, groups of calls, compactions, notes and
resets and any number of recent turns that a compaction keeps (`LoopBounds`: numbers, at least
one round and one recent turn): `LoopWireIsPaired` and `LoopKeepsConversation`, that is
`WireIsPaired` and `ConversationIsKept`. `WireIsPaired` speaks of the moment of a request; that
it holds then depends on every cut before it. `LoopIndInv` says of history and copy at every
step that a reply stands behind its calls, that a group of calls comes once and has its reply
unless it is open (`Pairs`); that everything said is in a message, in a summary or counted as
lost (`Keeps`); that the request is the last text and not the first message, unless a todo
reminder came after it (`RequestStands`), and that what the model has not read is at the end
and whole (`UnreadAreLast`). `CutsAreClean` and its lemmas say of `Align`, `EnsureLastText`,
`SplitCut` and `SevereCut` that a cut falls between groups and before the last text, whatever
the history; `SanitizedIs` says what the recursion over it returns, `MendedStep` what it adds per
message.

`McpRuntimeProofs`, for any servers, tools, names that collide and calls, if the configuration
lists each server once and a server lists its own tools (`McpAssumption`): `ServersSafe`, that
is `McpIsSound`. `McpIndInv` adds that a connected server was not cancelled before the close
(`ConnectedIsHeld`: a timeout that strikes as the server connects makes it a failed one), and
that the servers before the one `initialize` waits for are decided (`PassedAreDecided`).
`MaterializedNames` says what is registered when names collide.

Each inductive invariant was checked by TLC over the instance of its run before it was proved.

Only model-checked, and why:

* All liveness: fairness and ENABLED are beyond the prover.
* `CompactedStaysCompacted` and `SummaryForgetsReset` are false (section 6).
* `CallsKeepTheirWord` and `ThinkingNotLeftBehind` as they stand: the first has a
  liveness part and is restricted to the behaviours without a failing adapter.
* `PatchesAreExact`, `FilesAreRecoverable`, `WechatIsSound` with `ChunkingIsSound`: what a
  recursion (the parser, the search for a hunk, `Rest`) makes of every text, in modules that
  declare recursive operators, which the prover's arithmetic does not survive.
* `ContextIsSound`, whose `BudgetIsKept` is about a sum over the files of a prompt.
* `PodcastIsSound`, `VoiceIsSound`, `TalkIsSound`,
  `PlayerIsSound`, `TuiIsSound` and `PagesAreSound`: not attempted. Each
  is a conjunction over several components or excuses what its history variables name, and its
  inductive invariant would have to say where every task stands.

## 6. Where code and text disagree

With a run (section 3): a forced compaction does not rotate the transcript
(`sessions_forced`); a reset keeps the state of the summariser (`agent_loop_reset`).

Disagreements with a doc or comment that the modules state as a property TLC finds
violated, and that no run keeps:

* `HunksLocateOrNothing` (Workspace): `apply_patch` tells the model "if any hunk fails to
  locate, NO files are modified" (`core/tools.py:812`). Two updates of one file are both
  validated against the original, and the second may fail when the first is written.
* `LiveIsFlushed` (RemoteTui): "Make sure any half-open Live trees flush before we move
  on" (`adapters/cli/ws_repl.py:261`). A tree whose tool or run has not ended stays open.
* `StatusIsTrue` (DaemonControl): the pid file "answers "is a daemon running?""
  (`daemon/pidfile.py:3`). A daemon that ends, or a `start` that takes a starting daemon for
  stale, removes the file of another one that serves.
* `InputIsHeard` (Podcast): what the user says during a discussion is confirmed
  (`README.md` of the repository, line 315); said after the last round, it is confirmed
  and never put to the discussion (`services/backend_embedded.py:2418`, `2589`).
* `OthersGoOn` (PodcastPlayer): "the other members go on with the discussion" (the notice
  at `adapters/webui/static/voice-podcast.js:1960`). Removing a member stops the
  utterance of another that is being played (lines 1228-1232).
* `DrainedMeansPlayed`, `SsmlInOnePiece` (VoiceTalk): the chain of engines reports drained
  in a gap between two sentences, which `voice-pcm-player.js:9-11` is written to prevent; the
  two-piece delivery of SSML (`tests/voice-core.test.js:556`) is read twice when the text is
  grown after its end.
* `NothingRunsUnasked` (Approvals): with `ask=always`, "always" (the docstring of
  `check_request`, `approvals/manager.py:77-81`). `dispatch` does not ask it about a `bash`
  command that installs Python packages while `allow_global_pip` is off, its default
  (`core/tools.py:197-204`; a test wants it so, `tests/test_tools.py:242`): the command runs
  without a prompt, in an environment that keeps pip out of the global site. And tools outside `dangerous_tools`, notes that `write_file` puts under
  memory/ or into MEMORY.md (`approvals/manager.py:91-103`) and what the allowlist matches
  (105-113) come before `ask_mode == "always"` is looked at. `RunsOnlyWithConsent` speaks of the other calls
  (`Restricted`).
* `NoTurnIsPassedOver` (MemoryExtractor): "better to over-include than to silently skip recent
  turns" (`features/memory/extractor.py:131-132`). The id of a message is its place, its role and
  32 characters of its first block, of which a thinking block has none (108-122). After a
  compaction, or a reset, which leaves the state with its cursor (`services/agent_session.py:260-271`),
  the message at that place may have the same id, and the turns before it are in no extraction.
  `NothingIsSkipped` excuses this match and no other.
* `NotReadAgain` (VoiceTalk): what has sounded is not read again when a level of the chain
  fails (`voice-speaker-fallback.js:13-15`). The player reports its first sound once until it is
  stopped (`voice-pcm-player.js:71`, 213), and `begin()` of the next response forgets the report
  (`voice-speaker-fallback.js:226-234`): a level that fails in a second response of a turn
  is taken for silent, and the next one reads from its start. `ReadOnce` and `ReplyIsHeard` do
  not count what is read again so (`turn.again`).
* `PromptIsAnchored` (TurnContext): "User input is committed before the model call starts so
  a cancelled or failed turn still leaves a resumable session anchored by the submitted
  prompt" (`core/loop.py:936`). The recall, and the description of an image, call a model before
  the commit (lines 607, 991); a `task.cancel()` in them leaves no trace of the prompt.

* `chunk_text` promises that "each segment is independently well-formed markdown"
  (`adapters/channels/chunking.py:148`). A cut inside the line of a fence leaves half of it on
  either side; `CodeStaysCode` excuses that (`CutsFence`). The comment that an end at
  `fence.end+1` "should not trigger a reopen" (line 181) is not what the condition does.

Met while modelling, excused in a property or left out of its scope, without a run:

* `sessions_compact` calls `self.runtime.client` and is no reader of the guard
  (`services/backend_embedded.py:844-857`): an update closes that client under it.
* A job that was created after the last slot of its expression is run for that slot at
  the next start (`features/schedule/scheduler.py:462`).
* The gap of the daemon has no session key (`api/backend_websocket.py:89`), and a client
  subscriber with one filters it away; in `gateway` the remote consumer takes all sessions,
  and `PromptReturns` excepts turns of which a queue dropped an event.
* `decorate_tools` of an adapter may raise before `_run_turn` reaches its `try`
  (`services/backend_embedded.py:502-513`): session and registry keep the turn, and
  an abort returns without having released anything. `turns` includes the step
  in its behaviours about updates.
* Allow-always on a tool without a pattern (`restart`, `switch_model`) is not
  remembered (`approvals/manager.py:186-203`), and a pattern of one tool is matched
  against the arguments of the others (`approvals/policy.py:154-178`);
  `AllowAlwaysIsForever` speaks of what the patterns match.
* An interrupted turn leaves its request in the broker (`approval_broker.py:96-122`);
  `PendingIsAwaited` excuses interrupted turns.
* After two compactions `rotate` keeps the first summary as an ordinary message
  (`session/transcript.py:316-322`), and a compaction whose summary fails shortens the
  memory only (`core/loop.py:1098-1109`). `ReloadKeepsMessages` compares without
  summaries and excuses shortened objects.
* An append after a torn line joins it (`session/transcript.py:243-247`); excused
  while the file has such a line.
* `sessions_delete` while a forced compaction waits for the model: the compaction
  writes the file again. `DeletedStaysDeleted` and `OneWriterPerSession` excuse it.
* A reset waits for the lock of the object it found (`services/agent_session.py:260-271`). If
  another call holds it, the session can be deleted and, by a forced compaction that then writes
  the file anew, come back; a client loads it into another object and prompts; and the reset
  clears the file under that one. `ReloadKeepsMessages` counts the new object as shortened.
* A crash between the turn of a job and the write of its state runs the slot again
  (`features/schedule/scheduler.py:309-337`); `NoRefire` excuses just that run.
* `aclose` drops the end marker when the queue is full
  (`services/backend_embedded.py:182-187`); `CloseReleases` excuses that queue.
* `ChannelManager.stop` pops the entry of whoever is there after its await
  (`services/channels.py:236-254`); accounts stopped by two at a time are excused. The adapter
  that is lost so goes on answering, on the runtime of its start, through all later updates.
* Two overlapping updates can leave an adapter on the older runtime
  (`services/channels.py:265-290`); `gateway` has one update.
* A reply that is truncated twice and holds calls ends the turn with calls nobody
  answers (`core/loop.py:1183-1190`); providers refuse the next request until a
  compaction adds stubs, and if that turn stops the stubs are gone. `WireIsPaired`
  excuses `cutOff` calls that are not `mended`.
* A todo reminder or an announcement is text of the user to
  `_find_last_real_user_message_idx` (`core/compact.py:320-327`), so a later compaction
  may fold the request itself; a request that is the first message is folded by the
  aggressive form in any case (`core/compact.py:1038-1048`). `RequestKept` and
  `ResultsAreRead` excuse both.
* The trim drops the middle of the tail without a summary (`core/compact.py:1113-1131`),
  a failed or empty summary drops the head, and an empty one forgets the previous
  summary. `NothingVanishes` counts them as `dropped`. The circuit breaker never closes
  again for the session object (`core/compact.py:113-121`).
* A stopped turn leaves what its compactions did to `previous_summary` and to the bodies
  of old results; its messages show up in the next summary.
* A killed subagent ends as an error and is announced, because the loop answers its
  token with `TurnCancelled`; the comment at `features/subagents/runner.py:341` says
  killed runs are not. Only a cancelled task is `killed`.
* Results of subagents reach the parent only in a turn that spawns and goes on to a
  further round (`core/loop.py:1258`), and a turn that fails after that takes them with
  it; the tool promises they are auto-announced (`features/subagents/tools.py:109`). A
  wait also waits for reviews and podcast runs of the session. `ParentKnowsItsRuns` and
  `AnnouncedOnce` excuse `discarded` runs.
* Subagents keep the client they were spawned with and are no readers of the guard.
* After an update the shutdown closes the runtime the daemon began with
  (`daemon/server.py:223`), not the one that serves.
* **Files.** A restore deletes what checkpoints leave out (.git, .venv, *.log;
  `features/checkpoint/service.py:125-131`), two restores in one second collide on the name
  of the backup, and a crash between the renames leaves only the directory put aside.
  Failures of the hook that takes checkpoints are swallowed (`core/tools.py:283-287`). The hook
  is installed on the registry of the first runtime (`services/backend_embedded.py:244-249`): a
  `runtime_update` that builds a registry swaps in one without it (1075-1096), and those of cron
  jobs and review forks never have it (`features/schedule/scheduler.py:240-251`,
  `features/review_fork/plugin.py:55-71`). What `write_file` and `apply_patch` take there is in
  no checkpoint. The
  memory flush rewrites the diary without a checkpoint: a full disk or a crash after the
  truncation empties the day's file (`core/loop.py:1480`). `Recoverable` and `NotesAreKept`
  speak of calls with a checkpoint and except the rest. The flush's request is not retried, and its error fails the turn before the
  compaction; `sessions_compact` of the gateway does no flush, the REPL does.
* **Patches.** A hunk found loosely swallows blanks around it and puts the patch's own
  blanks in place of those of context lines (`fuzzy_match.py:196-256`); `PatchIsExact` counts
  words.
* **Terminal.** A BUSY or failed `chat_send` leaves its subscriber registered
  (`adapters/cli/ws_repl.py:532-543`); after the loss of the connection calls fail with
  "send failed" for ever; a full queue gets no end marker at the loss (`unended`). The daemon
  answers requests of one connection one after the other, so an abort waits for them.
* **Daemon.** The pid file is written before the port is bound and removed by whoever
  ends; `start` takes a daemon that is still building, draining or re-executing for stale;
  a SIGTERM before the handler is installed leaves the file; a reused pid is sent SIGTERM.
  `ServingIsRecorded` speaks of commands typed one after the other.
* **Podcast.** `podcast.stopped` comes twice; an input whose files are read when the run
  ends is confirmed; an agent that was removed cannot come back; an exception of a
  research ends the podcast; the discussion holds a reader of the guard throughout, so a hot
  update waits for it.
* **Player.** The response to `update_agent` resets the player once more
  (`voice-podcast.js:1162`; excused by `past.twice`); a stale pump counts on after a reset
  (`Astray`); a pump that awaited a job plays it although paused; the `finally` of a priority
  speech that was replaced clears the flags of its successor; a lost acceptance leaves the
  player paused.
* **Talk.** Callbacks of the local engine carry no id of their utterance
  (`voice-speaker-local.js:76-77`), an error of a turn while listening does not stop the
  microphone (`voice-core.js:607`), hidden tabs are checked at some of the places that open
  the microphone or speak: `page.astray` names what happened. A duplicate `turn.cancelled`
  reopens the microphone with a message under way; a BUSY error without a turn id ends the
  tracked turn of another client; `chat.send` on a session another tab deleted raises
  outside of any `try` and ends the websocket.
* **Web pages.** A select prunes the blank sessions of other pages, and the next message of such
  a page is for a session that is gone: `chat.send` raises and ends its endpoint. A user who
  sends before his page has moved leaves page and daemon on two sessions (`hasty`). A BUSY error
  clears the button though a turn runs, and so does an overflow ("refreshing session" refreshes
  it not): `ButtonIsRight` says one direction only.
* **Memory.** A failing extraction advances the cursor, although "on failure we keep the
  old cursor" (`features/memory/extractor.py:300`); "any earlier interesting messages are
  still part of it" (line 68) is false after a compaction; `f"key={key}" in existing` matches
  a longer key (`features/memory/dreaming.py:457`); a torn recall file starts from zero; a
  file that cannot be read is recorded as indexed. `StashIsExtracted`, `RecallIsKept` and
  `PromotionIsExact` except these.
* **MCP.** A session whose server is gone stays, and its tools with it: a call fails, but not
  as "not connected" (`features/mcp/runtime.py:292`). A server that is given up as it becomes
  ready counts as failed and has its tools registered. Two servers' tools of one sanitised
  name are both kept, and the last one is registered, in spite of "(avoid conflicts)"
  (`features/mcp/materialize.py:25`). Servers are started at once but their timeouts run one
  after the other.
* **Skills.** The curator's flags have no lock, and its run saves the flags it read at its
  start: a pause by another process in between is lost (`features/skills/curator.py:236-254`).
  The report is read without the lock, so a use after it does not save a skill from its
  `set_state`. A use never revives an archived skill.
* **Prompt.** "Call this when: session is reset, ... workspace files are known to have
  changed" (`core/workspace/cache.py:66`): `clear_session_cache` has no caller, so the files
  of a session are those of its first turn until the daemon ends. The slot of the skills cache
  is taken by every other session. `timeout_ms` of active memory is never read, and its
  cache is made anew for each turn (`features/memory/runtime.py:21`). The last file may exceed
  the total by a truncation marker.
* **Wechat.** `run()` cancels the delivering task only when it is cancelled in
  `get_updates`, so two bots may deliver; a fresh token is not picked up, in spite of the
  comment at `wechat/bot.py:430`; tasks of a stopped bot write a stale map (`overwritten`);
  what was polled and not handled is lost in a crash; `mark_failed` of a second poller
  takes back a row that was sent.
* **Xiaozhi.** The id of the interrupted turn is read before the interrupted task's
  `chat_send` answers (`adapters/xiaozhi/connection.py:436-446`); `except: self._asr = None`
  in `_start_asr` may drop a newer recognition; a request to exit survives in the `finally`
  of an interrupted task.

## 7. Not modelled, and the plan

Never: parsing of configuration, formatting, prompts, rendering, HTTP to model and search
providers. What a model answers is a free choice. The local REPL and the slash commands
issue one operation at a time, HTTP routes of the web page keep nothing that a property is
about, attachments are data. When a review fork is due is a counter of one session.

Not yet: two cron loops over one set of files during an update, a composition too large for
a run; a torn `exec-approvals.json`; an exception of the recogniser that `_stop_asr` of a
xiaozhi connection stops; the Aliyun recognizer of the page; lost updates of the
curator's flags (section 6) are in the model, and no property excludes them.

Next, proofs, in this order: `OneVoice` of `XiaozhiConnection`; `PendingIsAnswered` of
`RemoteTui`.
