# OPPi in TLA+

OPPi is an agent runtime: a Rust core that drives a model through *turns*
(`src/crates/oppi-core`), a server that puts this core behind JSON lines on
stdin and stdout (`oppi-server`), a terminal client (`oppi-shell`), a sandbox
for commands (`oppi-sandbox`), and a set of TypeScript extensions for another
agent. This directory models the Rust side wherever its correctness depends on
the order of things: the turn engine with its pauses, the conversation with the
model, subagents, the turns a host drives, the file and shell tools, replay after
a crash, goals, the server's threads, the shell with its loop, threads, keys,
settings and logins, and the files every process shares. TLC checks each model
on small instances; TLAPS proves the safety properties of most of them for every value
of the constants.

1. [The system](#1-the-system)
2. [The modules](#2-the-modules)
3. [The runs](#3-the-runs)
4. [Fairness](#4-fairness)
5. [What is proved](#5-what-is-proved)
6. [What the models show of the code](#6-what-the-models-show-of-the-code)
7. [What is not modelled](#7-what-is-not-modelled)
8. [What could come next](#8-what-could-come-next)

Line numbers are those of the commit modelled; `core` is
`src/crates/oppi-core/src/lib.rs`, `server` is
`src/crates/oppi-server/src/main.rs`, `shell` is
`src/crates/oppi-shell/src/main.rs`, `tui` is `src/crates/oppi-shell/src/tui.rs`,
`sandbox` is `src/crates/oppi-sandbox/src/lib.rs`.

To run: `tlc -config <config>.cfg <module>` for the rows of section 3, and
`tlapm <module>.tla` for the modules of section 5.

---

## 1. The system

```
   user ── keys ──> oppi-shell ── JSON lines ──> oppi-server main loop
                      │  polls events               │  one request at a time
                      │  settings file              ├─ Arc<Mutex<Runtime>> ── oppi-core
                      │                             │     turns, approvals, questions,
                      │                             │     goals, transcripts, subagents,
                      │                             │     tools ──> oppi-sandbox ──> processes
                      │                             │     provider ──> the model service
                      │                             ├─ background threads (run, resume)
                      │                             ├─ event mirror  ──> event files
                      │                             └─ TurnInterruptRegistry
                      └── auth.json <── locks ──> every other process of the user
```

### Components

| component | state | operations | hard behaviour | module |
|---|---|---|---|---|
| agentic turn engine (core 6173-8100) | turns, approvals, questions, `direct_provider_turns` (transcripts of paused turns), interrupt registry, the locals of `drive_agentic_turn` | run, resume, interrupt, request and answer approvals and questions; the loop model → tools → model | a turn pauses in the middle of a step and is resumed from a transcript; interrupts from another thread; late answers; errors half way into a request | AgenticTurn, TurnLifecycle |
| provider protocol (core 740-2110) | the provider's messages, the parser of a stream | seed, request, put the pieces of an answer together, hand results back, snapshot | pieces in any order, repeated, cut; ids of two kinds; pauses and restarts | ProviderStream |
| subagents (core 8300-8700, oppi-agents) | definitions, run records, nested drives, policies of turns | register, dispatch, block, complete, the agent tool | rights over several levels; a child that pauses, fails on its way in, or is resumed on its own | Subagents |
| host-driven turns (core 5600-7250) | threads, turns, approvals, registries, todos, suggestion | start, fork, rename, archive; start, record tools, finish; approvals of the host's own | ids the host chooses; batches refused half way; a replay beside every handler | HostRequests |
| tools (core 4900-5600, 8700-10100; oppi-tools) | the files, an answer | read, search, list, write, edit, render, image, feedback; the preflight and the review | others change the files between a tool's steps; policies of turns and of calls | FileTools |
| sandbox and background tasks (oppi-sandbox, core 9040-9430) | process, readers, job, log, task table | decide, plan, spawn, wait, kill; start, list, read and kill tasks | deadlines, processes that hold a pipe, errors after the start, a crash that gives names again | SandboxPolicy, SandboxRun |
| crash recovery (core 7262-7520, server 123, 324) | event mirror, persisted event id, event files | write events, replay, abort what cannot go on | replay is a second implementation of every handler; a batch may be cut | TurnRecovery |
| thread goals (goals.rs, core 5690-5960) | goal, timer, continuation counter | set, clear, claim a continuation, the two goal tools, hooks at the ends of turns | budget, time and status change in many places; saturation; a client that continues by itself | ThreadGoals |
| server loop and background turns (server 170-720) | mutex, background threads, mirror, registry, answer | one request after the other; run and resume in a thread with a start deadline; interrupt with a deadline | deadlines against late answers, poisoned mutex, answers found by searching events | ServerTurns |
| shell session (shell 1300-1460, 4360-5420) | active turn, pending pause, event cursor, follow-up queue, goal shown | prompt, queue, poll, interrupt, steer, approve, deny, answer; new, fork, resume | the shell knows the server from events that lag; subagents emit the same events; pages of events older than an answer | ShellSession, ShellThreads |
| shell commands and settings (shell) | provider, models, roles, scope, effort, modes, bridge; the settings file | every command that sets one of them, the login picker | each save reads and writes the whole file; what fits one model does not fit the next | ShellSettings |
| logins (shell 9200-9900) | listener, browser tabs, device codes | both login flows | tabs outlive their flows; one port for every shell; deadlines | LoginFlow |
| keys and overlays (tui) | overlay, draft, palette, docks | what each key does in each layer | nine layers look at a key; overlays show what was | ShellKeys |
| event store (event_store.rs, server 123-350) | one file of JSON lines for each thread, cursor | append, list, reserve thread numbers | appends that fail or are cut anywhere, several files in one batch | EventLog |
| credential store (core 1110-1800) | `auth.json`, lock directory | read or refresh, two logins | several processes, stale locks, refresh tokens that work once | AuthStore |
| TypeScript extensions, CLI, plugin stores, intake worker, scripts | | | | no: section 7 |

`PROJECT.json` lists every component with its sources and its status, and under
"hazards" each place where a test would hardly reach, with the property that
watches it or the reason why none does.

### How the parts interact

* **One mutex.** The runtime is behind one mutex; a background thread holds it
  from before its turn starts until the turn ends or pauses (server 178). Every
  other request waits, with three exceptions: events are listed from the
  mirror, a run is handed to a thread of its own, and an interrupt that finds
  the mutex taken goes into the `TurnInterruptRegistry`, which the driver reads
  between its steps (core 7929). This is why the modules of the runtime's own
  requests (HostRequests, Subagents, FileTools) take a request or a tool as a
  whole, and only ServerTurns and AgenticTurn look between.
* **One source of truth, twice.** Handlers change the runtime and emit events;
  the events are mirrored, appended to files, and replayed at the next start by
  `apply_replayed_event` (core 7318). TurnRecovery, ThreadGoals, HostRequests and
  Subagents each carry the replay of their part beside its handlers.
* **Clients see events only.** The shell polls a list of events and keeps its
  own idea of the active turn, the pending pause, the goal and the queue.
* **auth.json and the settings file** are shared between processes that know
  nothing of each other.

### What makes each part correct

* *Engine*: a running turn is driven by somebody; a paused turn has all it
  needs to go on; an interrupted turn does no more work and ends; an ended turn
  stays ended; a gated tool runs only with consent.
* *Provider*: the step is what the service said; every request carries the
  prompt once and each result behind its call.
* *Subagents*: a nested turn has no right the outer one lacks; a run's record
  tells what its turn did.
* *Host*: what the host was told is on file; a gated call succeeds only with
  consent.
* *Tools, sandbox*: they keep to the policy and adapters keep it too; a refusal
  ran nothing; a call comes to an end; nobody's file or log is overwritten.
* *Recovery*: replaying the events gives the state that was there; what can go on
  does, once; a refusal is remembered.
* *Goals*: an exhausted goal is not active; prompts are capped and stop after a
  failure; no second is charged twice; what is on file is what there is.
* *Server*: what a client has seen is on file; every request is answered; a
  turn denied by an interrupt never completes; an answer names the turn it
  started.
* *Shell*: the active turn is alive; a queued prompt is not forgotten; the goal
  shown, the settings on file and the overlay on the screen are the ones there
  are; a login's code goes to its own flow, and a login ends.
* *Event files*: a loaded thread has no hole.
* *Credentials*: no login is lost, no token used twice.

---

## 2. The modules

```
   TurnLifecycle        what a client may count on
        ^ INSTANCE (refinement)
   AgenticTurn
        ^ EXTENDS
   TurnRecovery         + files, crashes, restarts

   ThreadGoals

   ServerTurns <── EXTENDS ── ShellSession
                                  ^
                   MCShell ───────┼── ShellThreads, ShellSettings, ShellKeys, LoginFlow

   SandboxPolicy <── EXTENDS ── SandboxRun, FileTools  <── MCSandbox
   EventLog, AuthStore  <── MCStores
   Subagents <── MCSubagents     HostRequests <── MCHostRequests
   ProviderStream <── MCProviderStream
```

Proofs are in modules of their own, which only extend what they are about:

| module | about |
|---|---|
| TurnProofs | AgenticTurn, TurnLifecycle, TurnRecovery |
| RuntimeProofs | ThreadGoals, HostRequests |
| ServerTurnsProofs | ServerTurns, ShellSession |
| ConversationProofs | Subagents, ProviderStream |
| SandboxProofs | SandboxRun, FileTools, SandboxPolicy |
| StoresProofs | AuthStore, LoginFlow, EventLog |
| ShellProofs | ShellSettings, ShellThreads, ShellKeys |
| Folding | what `FoldLeft` computes, for any operator: replay is a fold |

Integers, sequences and sets stand for themselves; texts, tool arguments,
display items, text deltas and diagnostics are left out. Variables keep the
names of the fields they stand for. Variables marked *history* in a module are
read by properties only. The operators with a comment *Mutant of ...* or *The
bug of ...* are wrong versions of the definition they stand before; `PROJECT.json`
says which property notices each. A module has at most one type invariant; section 5 says
which are proved.

MCShell, MCStores and MCSandbox put parts that do not share state side by side: the
first state chooses which part moves, so their states add up and do not
multiply, and one run serves them all. MCSubagents, MCHostRequests and
MCProviderStream only give constants their values.

### AgenticTurn, TurnLifecycle

| variable | in the code |
|---|---|
| `turns`, `next_turn` | `Runtime::turns`, its counter |
| `approvals`, `questions` and their counters | `Runtime::pending_approvals`, `Runtime::questions` |
| `snapshots` | `direct_provider_turns`: the transcript of a paused turn, of which only the calls not answered yet are kept |
| `interrupts` | `TurnInterruptRegistry` |
| `drive` | the locals of `drive_agentic_turn`; its turn is `NoTurn` when nobody holds the runtime |
| `emitted` | the events of the last step that a replay acts on |
| `issued`, `consented`, `ran`, `reran` | history |

The grain is one look at the interrupt registry: everything `drive_agentic_turn`
does between two looks is one action, since no other thread can tell it apart.
`DriveStep` is the loop: `InterruptDrive`, `RunPendingCall`, `GuardContinuation`,
`CallModel`, `ModelAnswers` or `ModelFails`, `StreamStep`, `EnterTools`, one of
`ExecuteCall`, `RejectQuestion`, `GuardianDenies`, `AskUser`,
`RequestToolApproval`, `DuplicateResult` for each call, the two halves of a pause
(`PauseForUser`, `PauseForApproval`), then `SettleStep`, `Continue` or
`Complete`. `Request` is what clients do: `RunAgenticTurn`,
`ResumeAgenticTurn`, `InterruptTurn` with the mutex, `RequestInterrupt` without
it, `RequestApproval`, `RespondApproval`, `RespondQuestion`, and the requests
refused half way (`RunAgenticTurnRefused`, `ResumeRefused`).

`Unusual` names three requests the API takes and no client of the repository
makes; runs say whether they are in. TurnLifecycle is the client's view: a turn
starts running, leaves the driver waiting or ended, is resumed from waiting,
and the driver always comes back. AgenticTurn implements it with
`status <- IF drive.turn = t THEN "running" ELSE turns[t]`: on the way into a
resume the record still says waiting.

### TurnRecovery

`log` is the part of the mirror past `persisted_event_id`, `disk` is what
`replay_events` makes of the files. `PersistNewEvents` writes the log after a
request or, cut, any prefix of it (`torn`); `Crash` loses the rest;
`StartServer` is the new process: replay, `recover_incomplete_turns`, and the
events this writes. `ShutdownAndStart` is the orderly way. `EngineStep` is any
step of AgenticTurn with its events added to the log.

### ThreadGoals

`goal`, `timer`, `continuations` are the three maps of `Runtime` for one thread;
`driven` and `waiting` reduce the turns to what goals see of them. `ModelStep`
charges tokens; `CompleteTurn`, `PauseTurn`, `FailTurn` are the hooks at the ends
of a turn, and `GuardEndsTurn` is the end that has no hook; `ClaimContinuation` and `CapContinuations` are the two outcomes of
`thread/goal/continue`; `StartHostTurn` is `start_turn`, which unlike
`run_agentic_turn` starts the timer. `saved` is what a replay makes of the
goal's events, `Restart` installs it.

### ProviderStream

One turn and its model. `messages` is what the provider sends next: seeded
(`SeedMessages`) from the thread's history, which `CompactProviderHistory` cuts to size, message by
message from the newest on (`KeepMessage`).
`NextStep` makes a request; `reply` is what the service is answering and how much
of it has come, `parser` what `parse_openai_codex_stream` or the chat parser has
made of it: items announced, pieces of arguments, finished items, a final
snapshot that lists them all again, in every order and with repeats
(`Stream`). A call is an id, and an item may have an id of its own; `PushCodexFunctionCall`
is where two reports become one. `RunTool`, `PauseStep`, `Resume`, `StepEnds` hand
results back (`ObserveToolResult`), and `ResumeUnanswered` is the resume that names no
pending call, which hands nothing back. No resume names a call that waited earlier: a client has the
id of the pending one only (shell 5069); `ProviderRestarts` forgets the process and keeps the
transcript of a paused turn.

### Subagents

`stack` is the nested drives, the innermost last; each has its tools and its
turn. `ExecuteAgentTool` is the way in: the definition that wins for a name, the
child's tools (`subagent_tool_definitions`: what the parent has, less what the
call and the definition deny), its policy (`SubagentSandboxPolicy`: the least of the parent's,
the definition's and the call's), the run's record, the child's turn.
`AgentCallRefused` fails between the dispatch and the drive. `Pause`, `Complete` and
`Abort` end the innermost drive and give the parent its result; a paused
child may be resumed on its own (`ResumeAgenticTurn`). A host registers definitions and
sets run records; `PersistNewEvents` and `Restart` are the files and a new process.
Skills are part of it because their selection decides which files' tools and rules a
turn is given.

### HostRequests

`rt` is the runtime as a record, `disk` what a replay makes of the files,
`unsaved` the events of the runtime that are on no file. Every handler is a
function from the request to a new `rt` and its events (`Step`; `StepOf` for one that records the tools of a turn), and `ApplyReplayedEvent` of an
event is the second implementation. `Request` is the server's frame around
each: emitted, appended, answered; a request refused half way leaves events
that the next accepted one saves (`LookRequest` is one that does nothing else).
`ThreadRequest`, `TurnRequest`, `PauseRequest`, `QuestionRequest`,
`RegistryRequest` group the requests; a batch is started, asked for and finished call by
call. `HostRestart` replays, and aborts what was open.

### SandboxPolicy, SandboxRun, FileTools

SandboxPolicy is the pure part: roots and rules of a profile, protected and
denied paths, the default policy of a mode and that of the user's settings, the
decision (`EvaluateExec`), the plan and what each adapter makes of it
(`AdapterWrites`, `AdapterNetwork`). A path is the sequence of its names.

SandboxRun follows one call at a time: `ForegroundCall` asks the policy, plans and
chooses an adapter; `PosixSpawn`, or `CreateSuspended` and `ResumeThread` on
Windows; then the process (`child`), one it started that holds its output (`kid`),
and both readers go on by themselves while the call polls (`SeeExit`,
`Deadline`), joins the readers and returns. `BackgroundCall` names a log after the next
event and the number of tasks, empties it and starts a task that nobody waits
for; `ShellTaskTool` lists, reads and kills. `Crash` forgets the tasks and the events that
were not written, not the processes.

FileTools takes a tool call step by step, since the user's editor and background
commands change the files between the steps (`SaveFile`, `RemoveFile`). `Decide` is the
gate (the call's policy or the turn's, the preflight, the review); then a reader
shows files, `EditReads` and `EditWrites` are apart, a picture is asked for between
the look at its file (`ImageAsks`) and its writing (`ImageAnswered`).

### ServerTurns

`holder` is the mutex (`Free`, `Main` or a background thread), `root` the turn it
drives, `main` the place of the main loop. Each background thread waits in
`lock()` (`JobTakesLock`), drives (`PassCheck`, `Work`, `StartSubagentTurn`,
`TakeInterrupt`, `Panic`) and releases. The client's `RunInBackground` spawns a
thread, `AnswerStart` is the wait for its `TurnStarted` event with its deadline,
`RequestInterrupt` and `AnswerInterrupt` the same for interrupts; `AskForLock`
is every request that needs the mutex, followed by `Resume` or `Steer`;
`GiveAnswer` persists new events and then writes the answer. A deadline may pass
at any time: the model has no clock, so it includes every speed of the machine.

### ShellSession, ShellThreads

ShellSession extends ServerTurns with the only client: `at` is the place of the
event loop (keys → poll → boundary → keys, or waiting in a call), `active` and
`pending` what the shell believes, `cursor` the events it has processed, `queue`
the follow-ups. `KeyNext` is what the user may press, `LoopNext` what the loop
does by itself; `Digest` is the processing of polled events, `TakeAnswer` what
an answer, or an error that closes the shell, does. A prompt typed or queued is sent in two calls
(`start_turn_for_role_with_system_append`, shell 2779): `model/register` (`SubmitPrompt` or
`StartNextQueued`, then ServerTurns' `AskToRegister` and `Register`), which waits for the mutex and the shell
with it, and after its answer the run itself (`RunPrompt`). The mock provider, which skips the first call, is
for tests and left out.

ShellThreads leaves the server out and looks at several threads: `threads` is the log, the
goal and the open turn of each as the runtime has them, and goes on by itself
(`TurnGoes`); `current`, `position`, `shownGoal`, `shownPause`, `shownTurn` and
`followUps` are the shell's. `ChangeThread` (new, fork, resume) loads a page
of the thread's events; `PollThread` reads another page; `GoalCommand`,
`CreateGoal` and `SetCreatedGoal` are the requests with their answers;
`StartFollowUp` and `ContinueGoal` are what the loop starts by itself.

### ShellSettings

The shell's own copy (provider, models of roles, scope, modes, picker, bridge), the
settings file, and what the runtime was told. The catalogue of models is
reduced to the classes the code tells apart by name. `SettingsCommand` is every command
that sets something, with its errors: a command that returns an error ends the
shell. `FileBreaks` makes the file unreadable; every `Save` reads it first.

### ShellKeys

`Taker(key)` is the first of nine layers that claims a key; `Press` is what that
layer does: the overlays with the items of each panel, the question, the docks,
the key bindings, the palette, the editor. What commands do is what the other
modules say of them, reduced to the values that choose layers and items
(`AnyCommand`). `overlay.of` is what was the case when the overlay's items were
made.

### LoginFlow

Shells, the one callback port, and the browser tabs their flows opened, which
outlive them. `LoginStep` is the command's way through a flow, `TabConnects` and
`StrayConnects` are connections to the listener, `ReadCallback` reads one.
What is saved is AuthStore's matter.

### EventLog, AuthStore

`files` holds for each thread its lines and whether the last one has its end.
An append is two writes (the line, its end): `FailAppend` and `Crash` leave any of
nothing, an empty file, part of a line, or a line without end (`Leftovers`).
`ReadEvents` and `Unreadable` are the two ways a reader treats a bad line.
`StartThread` and `EmitEvent` go on between the lines of a batch.

AuthStore has one action for each file system or network call of a process that
refreshes or logs in: `TakeLock`, `FindLockTaken`, `CheckLock`, `RemoveLock`,
`ReadAgain`, `RefreshCodex`, `RefreshCopilot`, `TruncateFile`, `FillFile`, `Unlock`;
`DiskFails` is the write that returns an error, before it has emptied the file or after.
`AgeLock` makes a lock look older than 30 s, of a living process too. The
authority (`newest`) takes each refresh token once. `Die` stops a process anywhere.

---

## 3. The runs

| run | module, config | states | shows |
|---|---|---|---|
| agentic_direct | AgenticTurn, AgenticTurnDirect | 92 k | **RunningTurnIsDriven**; live: **InterruptedTurnAborts**, **KeepsLifecycle** (refinement of TurnLifecycle) |
| agentic_any_request | AgenticTurn, AgenticTurnAnyRequest | 337 k | **GatedRunsOnlyWithConsent**, **InterruptStopsWork**, whatever is asked |
| recovery | TurnRecovery | 1.6 M | **ReplayAgrees**, **PausedTurnSurvives**, **NoCallRunsTwiceAcrossRestarts**, **RefusalOutlivesRestart** |
| goals | ThreadGoals | 196 k | **PromptsAreCapped**, **NoSecondChargedTwice**, **GoalIsOnFile**, **NoPromptAfterFailure** |
| provider | MCProviderStream, ProviderStream | 1.2 M | **StreamTellsTheStep**, **OutputsAnswerCalls**, **PromptIsSentOnce** |
| subagents | MCSubagents, Subagents | 1.2 M | **NestedTurnsStayWithin**, **RunTellsTheTurn** |
| host | MCHostRequests, HostRequests | 1.4 M | **HostStateIsOnFile**, **SuccessNeedsConsent** |
| sandbox | MCSandbox, Sandbox | 337 k | **AdapterKeepsThePolicy**, **RefusalMeansNotRun**, **LogsAreNotShared**, **ToolsKeepToThePolicy**, **OutputsAreTheirOwn**; live: **RunReturns** |
| server | ServerTurns | 1.8 M | **SeenIsSaved**, **DeniedTurnNeverCompletes**, **AnswerNamesOwnTurn** |
| shell | MCShell | 550 k | **ActiveTurnIsAlive**, **SettingsAreOnFile**, **OverlayIsCurrent**, **GoalShownIsTheGoal**, **CodesGoToTheirFlow**; live: **QueuedPromptsRun**, **EveryRequestIsAnswered**, **LoginsEnd** |
| shell_busy | ShellSession, ShellSessionBusy | – | PromptsWaitForTheTurn is violated (section 6) |
| stores | MCStores | 1.6 M | **LoadedThreadsAreWhole**, **LoginsSurvive**, **NoTokenOfferedTwice** |

### Bounds, and why they are enough to be of use

* **AgenticTurn.** Two turns, so that one can wait while another is driven and a
  late answer can meet either. Two approvals and one question with one
  continuation, so that a turn can pause, be resumed and pause again in a second
  step. Two calls in a step, one gated and one that asks, so that a pause can
  come before, between or after the others. The run over any request gives up
  the second step for both kinds of provider and the unusual requests.
* **TurnRecovery.** One turn: replay treats turns one by one. Two crashes (the
  second may hit what the first recovery wrote) and one shutdown, with two
  approvals, so that an approval used before a restart can be confused with
  one asked for after it.
* **ThreadGoals.** Three seconds, two turns, a counter that saturates at 3 with
  budgets 2 and 3 and steps of 0 to 2 tokens: every order of reaching, passing,
  raising and saturating occurs. Three claims against a cap of one.
* **ProviderStream.** Three calls: one whose item has an id of its own, one whose
  item shares it, one of a tool the turn does not have. Arguments of two pieces,
  so that none, some and all are three cases. Three histories: empty, longer
  than three messages and five characters take, and just as long. Three requests
  of one turn, and as many restarts as pauses allow.
* **Subagents.** One outermost turn and two below it, two run records, two definitions
  of one name (a project's shadows the built-in), one crash, and calls that ask for more
  and for less than they may have.
* **HostRequests.** Two threads, two turns, up to four requests about turns, three of
  the rest and six in all, with one restart anywhere; the ids of the host are 0 and 1, the
  first the runtime gives, so that they collide.
* **Sandbox.** A workspace with a folder and a repository and one directory
  outside; policies and requests that differ in what decides, on three
  platforms, with and without an adapter; at most two tasks, two events between saves and one
  crash. File tools: five files, one change by others while a call runs, every policy of the
  turn against every tool.
* **ServerTurns.** Two conversation threads, two background threads (one drives
  while the other waits), one subagent turn, one panic. `MaxEvents` 2 bounds
  pauses: a turn pauses only while the mirror is shorter.
* **MCShell.** Session: one conversation thread, as a shell has, two prompts, four events, and as many
  background threads as prompts, so that no prompt lacks a thread because of the bound.
  Settings: three commands in two starts, enough for any two saves and a
  provider changed below them. Keys: two values of the configuration, one queued
  prompt. Threads: two, with five events in all against pages of three and two, so that both
  limits are met. Logins: two shells, two flows, one stray connection.
* **MCStores.** Two threads with four events and two deaths: a spoilt line must
  be left by the first death, written to by the second process, and met by
  the third. Three processes at the credential file: one that holds the lock too long, one that
  removes it, one that takes it; two attempts stand for ten, since the code does the
  same in each. The processes are interchangeable (symmetry).

Deadlock is checked for `goals` and `sandbox`; the other systems may rightly stop at
their bounds (every turn used, every process dead) and set `CHECK_DEADLOCK FALSE`.

---

## 4. Fairness

* **AgenticTurn, FairSpec: WF of `DriveStep`.** The thread that drives holds the
  mutex and is a thread of the operating system; what it waits for comes to an
  end, since model requests and tool runs carry time limits. Nothing is assumed
  of clients: nobody need resume, answer or interrupt. So an interrupted turn
  aborts and the driver gives the runtime back, but a waiting turn may wait for
  ever.
* **ShellSession.** Weak fairness of the shell's loop; of a
  drive's own steps (it ends, by the above); of the main loop's waits, whose
  deadlines pass; and of each background thread in `lock()`, which gets the mutex
  if it stays free. Of the user nothing is assumed, so `QueuedPromptsRun` has
  "or a pause waits for the user" as an alternative. Panics and subagents are never
  forced.
* **SandboxRun, Fairness.** The call's own steps are taken and its deadline comes
  (it polls a clock). The command need not end; what outlives it need not either,
  so `RunReturns` excepts a process that keeps the output open.
* **LoginFlow, LoginFairness.** Time passes, and an authority answers or refuses
  in the end. The library's requests have no read timeout in this code, so this is an
  assumption about the authorities. Nothing is assumed of browsers or of who else
  connects: `LoginsEnd` excepts a connection that stays open and says nothing.

The other runs have no liveness property.

---

## 5. What is proved

Seven modules hold the theorems and one, Folding, the lemmas several of them need. They hold for
every number of turns, calls, processes, threads, events, flows, agents, policies, keys and files,
from the named assumptions on the constants alone: that bounds are numbers, that there is a thread
(`Threads # {}`), that policies, agents, calls and recorded tools are of their types (`PoliciesAreTyped`,
`AgentsAreTyped`, `UsesAreTyped`), that ids are numbers in the order of their map (`IdsAreNat`), that a
thread's earlier messages are of earlier turns (`HistoriesAreEarlier`), and that paths are paths (`PathsAssumption`; it lists the names the code
adds too, since no prover knows that a string in quotes is in `STRING`). TLC evaluates each
assumption in the runs.

| theorem | says | supposes |
|---|---|---|
| *TurnProofs* | | |
| TypeCorrect | `Spec => []TypeOK` | |
| TranscriptCorrect | a transcript is kept while its turn waits or is about to, and at no other time | |
| RunningTurnIsAlwaysDriven | no running turn is left without a driver | A |
| ImplementsLifecycle | every step of the engine is a step of TurnLifecycle or none | A |
| EndedTurnsStayEnded | TerminalIsFinal | |
| InterruptedDriveStops | InterruptStopsWork | |
| ConsentCorrect | no gated tool ran that nobody approved | |
| ReplayCorrect | ReplayAgrees: when all is written, a restart would find what a client sees now | A |
| PausedTurnsSurvive | PausedTurnSurvives: a turn that can go on after a restart has what it needs | A, B |
| CallsRunOnce | NoCallRunsTwiceAcrossRestarts | C |
| RefusedNeverRuns | RefusalOutlivesRestart | C |
| *RuntimeProofs* | | |
| GoalTypeCorrect, BudgetCorrect, PromptsCorrect, ChargesCorrect, FileCorrect | the goal's types, ActiveGoalHasBudget, and PromptsAreCapped, NoSecondChargedTwice, GoalIsOnFile | |
| FailureStopsPrompts | NoPromptAfterFailure: none after an error or an interrupt ended a turn; the guard on continuations is no such end (section 6) | |
| HostTypeCorrect | HostTypeOK | |
| HostFileCorrect | HostStateIsOnFile, for batches and logs of any length and any ids a host chooses | |
| HostConsentCorrect | SuccessNeedsConsent | |
| *ServerTurnsProofs* | | |
| ServerTypeCorrect | the server's records keep their types | |
| SeenCorrect | SeenIsSaved: what a client was shown is on file | |
| DeniedCorrect | DeniedTurnNeverCompletes | |
| AnswerCorrect | AnswerNamesOwnTurn | |
| SessionTypeCorrect, ActiveTurnCorrect | the shell's types, and ActiveTurnIsAlive: once all is listed, the active turn runs | |
| *ConversationProofs* | | |
| NestedCorrect | NestedTurnsStayWithin: no tool and no right is gained at any depth | |
| RunsCorrect | RunTellsTheTurn, over crashes too | |
| StreamIsTold | StreamTellsTheStep, for any number of calls and pieces and any order of events | F |
| OutputsAreAnswers | OutputsAnswerCalls, over any number of requests, pauses and restarts; calls passed over, and those a resume names no approval of, have no output | F |
| PromptIsOnce | PromptIsSentOnce, for any history and any limit of it | |
| *SandboxProofs* | | |
| RefusalCorrect | RefusalMeansNotRun | |
| LogsCorrect | LogsAreNotShared | |
| ToolsCorrect | ToolsKeepToThePolicy, whatever others do to the files meanwhile | D |
| OutputsCorrect | OutputsAreTheirOwn | D |
| AdapterCorrect | AdapterKeepsThePolicy | E |
| *StoresProofs* | | |
| SurvivalCorrect | LoginsSurvive: no write puts an older login back | |
| TokensCorrect | NoTokenOfferedTwice, until a holder is robbed, dies, loses an answer or fails to write a new token | |
| CodesCorrect, LoginTypeCorrect | CodesGoToTheirFlow, and the types | |
| EventLogTypeCorrect, LoadedThreadsCorrect | LoadedThreadsAreWhole, and the types | |
| *ShellProofs* | | |
| SettingsCorrect | SettingsAreOnFile | |
| ThreadsTypeCorrect, GoalShownCorrect | GoalShownIsTheGoal, whatever the limits of the pages, and the types | |
| KeysTypeCorrect, OverlayCorrect | OverlayIsCurrent, and the types | |

What a theorem supposes beyond the assumptions is what the model shows to be needed:

* **A**: no client names two kinds of provider in one request (`"conflictingProvider" \notin
  Unusual`). Such a run is left running, and such a resume is refused after it took the
  transcript away, with no event: memory and files then differ.
* **B**: no client answers with `question/respond` what a waiting turn asked
  (`"answerOutOfBand" \notin Unusual`). The question is closed and the turn waits on.
* **C**: providers are direct and no request is unusual. A provider that is not direct runs the calls
  the client hands in, and nothing but the client keeps them apart.
* **D**: a policy that a call carries names the directories it grants (`CallsNameRoots`).
  With no directory the code falls back to the project, which `MayTouch`, what a call may do, does not
  know.
* **E**: commands run in a whole directory, the writable roots are paths and no patterns, and
  nobody denies `/` (`PlainInputs`). The adapter leaves a denial of `/` out
  (`deny_mount_paths`, sandbox 1578-1622), and mounts no pattern. The proof found this limit; TLC's
  policies had no such denial.
* **F**: every item that is a call has an id of its own that no other has (`ItemsAreTold`; it may be
  the id of the call). Without one the parser cannot tell that an announced call and a finished one are the
  same (`Key`, core 1866-1874, 1986-2004): in an instance with such calls TLC finds StreamTellsTheStep and
  OutputsAnswerCalls violated. PromptIsOnce needs no such thing.

**The argument for the engine** is layered. `TypeInv` adds to TypeOK the *shape* of
a drive: an idle drive is exactly `IdleDrive`, a pausing one has a call left,
pending approvals exist. `Control` is what makes transcripts inductive: a turn
exists just below the counter, the driven turn is running or waiting (not ended,
or a step of the driver would reopen it), and a kept transcript belongs to a
waiting turn nobody drives or to one just pausing. Without the last part, a
resume that drops the transcript and a pause that keeps one could not be told
apart. `Consent` follows an approval from the client to the tool: approved
records, the calls given to the drive, and those pending after a resume are all
consented, so what runs is. Each layer has one lemma for `DriveStep` and one for
`Request`, with one step for each action.

**The argument for recovery** is about what a restart *would* find, `Replayed`, the fold of
`ApplyReplayedEvent` over the log from what is on file. `AgreeInv` compares it with the memory
at every moment and not only when all is written (`Matches`): nothing is on file of a driven turn between its
start and its next pause but the transcript that goes ahead of the pause, and an approval of an ended turn
is cancelled on file while it is still pending in memory. A step adds events, so by
FoldConcat its replay starts from the one before. As a write may be cut after any event, every
prefix gives a runtime a process can start from (`AllSound`). `PauseInv` adds, for
memory and for the files, that a waiting turn has its question open and owes the answer it waits
for (`GoesOn`). `CallsInv` is the ledger of calls: what is owed was issued and never ran, one turn owes
it, what ran was approved or never asked about, and who was refused is on record.

**The argument for goals** is one invariant, `GoalInv`: TypeOK, ActiveGoalHasBudget,
GoalIsOnFile and three that relate history to state. `Clocks`: no more was
charged than time has passed, and neither the timer nor the one a restart would
build starts before as many seconds as were charged; this is why no second
counts twice, across restarts too. `Claims`: prompts since the objective was set do not exceed the
counter. `Failures`: after a failed turn the goal is not active and no turn is
driven, so no claim is possible. A turn the continuation guard ends is not failed in this sense.

**The argument for the host's requests.** `HostInv` compares the runtime with what a replay of the files and of the
events still unsaved would give (`Told`). The two agree (`Agree`) but for two things. A replay cancels what an ended turn had
asked for, while it stays pending in memory; and a turn that runs may wait on file. What the user answered and
which turns have ended is the same for both, and no stronger claim is inductive. For each kind of event a
lemma says that it tells a replay what its handler did (`Tells`); by FoldAppend so do the events of a
request (`Follows`), and by FoldConcat those a refused one leaves with those of the next. An approval asked
for on behalf of a turn that has ended would open it again on file, so the argument carries along that a turn whose tools are
recorded goes on (`Fine`). Consent is about both sides of a restart: in memory and on file what is approved was granted (`GrantedIn`),
a batch is checked again before its results are written, and the two folds over it, of starts and of results, leave
a set of steps in which every success was earned (`Steps`, FoldStays). A restart aborts the turns that go on in an order
nobody chooses; there are finitely many, so they make a sequence.

**The argument for the server.** `Drives` says who drives what: the mutex is held exactly
while a turn is driven, by the thread whose turn it is, and until a panic no other turn runs but
subagents of it. On it rest the other layers. `Shown`: an answer reaches no further than
the mirror had been saved when it was made, and an error shows nothing. `Noted`: a turn whose interrupt
was noted down waits with its note, or is driven and has not looked at the registry yet, so nothing
of it runs before the look. `Starting`: while a request waits for its start and none
overlapped it, either its job is queued and the mirror has not grown, or the first new event is the
start of its turn. The least of the events found is the one `find_turn_started_after`
returns; that there is a least one is the only use of well-founded induction here and in Subagents.

**The argument for the session.** The shell's steps are steps of the server or leave it alone, so
`ServerInv` holds in ShellSession too. A call to `model/register` starts nothing
and names nothing. `AnswersAreNews`: an answer that names a turn comes before the shell has
listed the event of its start; so a turn it makes active ended only after an event the shell
has yet to see, and once everything is listed the active turn runs (`ActiveRuns`).

**The argument for subagents.** The order on policies is transitive, and
`subagent_sandbox_policy` never gives more than the parent has, whatever the definition and the call ask
(`ChildHasNoMore`). A name that has a definition has an active one (`ActiveIsOne`), so what is asked is of
its type. `Frames` makes the stack inductive: its turns run and are distinct, so a
child's policy is attached to no turn below it, and each frame's run was called for its turn, so the status
a drive leaves is told to the right run. `DiskTells` is RunTellsTheTurn of what is on file; without
it a restart could bring a run back as completed and its turn not.

**The argument for the provider.** `Streams` tells the parser's state by what has been sent, at every
moment of an answer. For Codex: which calls are collected or announced, and how much of each one's
arguments has come; nothing is said of the order. It is kept by every event, repeats included, because a
report of a call already collected changes nothing. At the end (`Gathered`) no call is collected twice, none that was not
asked for, and if the answer is whole, all are, with all their pieces (`Told`): StreamTellsTheStep is
a count of the same. What is flushed from the announced ones is a fold over keys in their order, which
brings what each of them has and never leaves the parsers that collect truly (FoldGathers). `Transcript` is OutputsAnswerCalls
with what a step in the making adds to it: each call is answered, passed over, still to run or waited for,
each call that waits was made and has no answer, and the service does not ask again for a call it has made.
PromptIsSentOnce has an invariant of its own, `PromptInv`, with types alone for what the stream has brought:
the fold that cuts the history keeps the prompt of the turn at whatever limit (`KeepMessage`), and nothing
later adds a prompt.

**The arguments for sandbox and tools.** A refusal ran nothing, because a call that has a plan but no process
has run nothing and was not refused yet (`Waiting`). Logs are nobody else's, because each is named after an event
number that is not above the last one (`Dated`): the next is new, until a crash gives numbers again.
A tool that is about to open a file has done nothing yet and has passed the check of its path
(`ToolInv`); the rights depend on paths and policies and not on files, so what others do to the files takes
nothing of it back. A planned call's plan is the one `Plan` makes of an admitted call (`PlanInv`); the rest is about
paths: `IsPrefix` is transitive, making a path whole twice makes no difference, and each denied path and each
root's metadata lies under something the adapter mounts read-only.

**The argument for credentials.** `Locking`: until a living process is robbed, who is between taking and
giving back the lock owns it. So `ReadIsOnFile`, what it read is what the file has, and a write
changes only what the operation is about. For tokens, `NewestTokenIsKept` adds who has the newest token of a
chain: the file, or the one process that has refreshed it and not written yet, as long as no such process
dies, loses the answer or finds that the disk takes no writes; and a chain just logged in
to is on no file and nobody else's.

**The arguments for logins and the shell's own state.** A flow has one owner, and until that owner has offered a
code nobody has offered that flow's (`LoginInv`); what a login exchanges came from a tab of its own flow. A
settings file has all its fields, so a save changes one and keeps the rest. A goal is what the last event of its
thread's log that sets one says (`LogsTell`), and what the shell shows is right if no event it has not listed
sets one (`ShellKnows`). An overlay that is
open takes every key but the second Ctrl+C (`TakerClaims`), so a setting can change only with the overlay that
changes it (`ScreenFollows`).

**The argument for the event files.** What the cursor has passed is on file, or the file of its thread does not
parse and is left out as a whole (`CursorKeepsUp`); while a batch is written, so is what stands before the events
still in it. A line spoils its file or holds its event, and a spoilt file stays spoilt, so whole threads go and
no part of one. That needs one thing more: numbers of threads are above those of all files, spoilt ones included
(`NumbersAreNew`), or a new thread would be taken for one some request was answered for. Loading is a fold over the
files of a fold over their lines, and it brings just the events of the files that parse (FoldGathers).

**Folding.** The library's induction theorems take the hypothesis as an operator, which no prover here can
instantiate. So the hypothesis is a set, the numbers it holds for, and induction is that a set of
numbers which is not empty has a least one (`NatSetInduction`). From it follow the lemmas on `FoldLeft`, for any
operator: what it is over nothing (FoldEmpty), over one element more (FoldAppend) and over two sequences
(FoldConcat), that a set no element leaves holds the result (FoldStays), and that the result has what each element
brings (FoldGathers). They say nothing of the program by themselves; a proof module takes them by `INSTANCE Folding WITH op <- ...`.

**Only model-checked.** Liveness, since no prover here has ENABLED: InterruptedTurnAborts, the live half of
KeepsLifecycle, QueuedPromptsRun, EveryRequestIsAnswered, RunReturns, LoginsEnd. Every safety property of a
passing run is stated by a theorem.

---

## 6. What the models show of the code

One run ends in a violation, of a property taken from what the shell tells its user
(`PROJECT.json`, "findings"):

* **shell_busy.** The end of a subagent's turn clears the shell's active turn (shell
  5217) while its parent is still driven. Enter then sends the prompt instead of queueing it, and the first call
  of the sending, `model/register` (shell 2792), waits for the runtime the turn holds (server 637). No second
  turn starts before the first ends or pauses; the shell stands still until then and sees no event, no key and no
  interrupt. The shell says "Enter submits/queues while busy" (shell 1564) and "Enter queues follow-up while the
  turn runs" (tui 2754), and the README the same (203).

The rest was met while modelling. No text of the repository says otherwise, or
the models let it happen and the properties leave it out; each is what the
code does.

**Engine.**

* A call that needs an approval or an answer ends the drive at once (core 7711,
  7809) and the calls after it in the same step are dropped. The transcript of the
  resumed turn then has calls without an output.
* `run_agentic_turn` marks the turn running before `model_provider` rejects
  `modelProvider` with `modelSteps` (core 6262): the turn stays running. This is
  `conflictingProvider`, left out where RunningTurnIsDriven is checked.
* A batch cut after `AskUserResolved` leaves a waiting turn with a transcript and no
  open question, which recovery keeps (core 7262) and no answer resumes.
  PausedTurnSurvives supposes no such cut.
* A tool run by a resume whose events were lost in a crash runs again.

**Goals.**

* The continuation guard (core 7573-7598) ends a turn as aborted without
  `finish_goal_turn_accounting`: the goal stays active, so the client is given
  prompts until the cap, and the timer runs on, so the time until the next turn's accounting is
  charged to the goal. NoPromptAfterFailure is about the other ends.
* `run_agentic_turn` does not start a goal's timer, only `start_turn` and
  `resume_agentic_turn` do (core 6173): from the second turn on no time is
  charged, while the prompt tells the model how much it has spent.
* `set_thread_goal` keeps the old goal's timer (core 5774); `update_goal` drops it
  uncharged (5777). An interrupt of a *waiting* turn leaves the goal active, unlike
  one of a driven turn (core 6526).

**Provider.**

* A resume is accepted without an id, or with one that was not approved (core 6359-6397). The
  call that waited is then neither run nor answered, and the next request carries it without an output
  (core 8017-8036). OutputsAnswerCalls counts it with the calls a pause passed over.
* A stream that just ends is taken for a complete answer; pieces missing, a call with half its
  arguments fails and one with all of them runs.
* A call without an item id that is also announced may be counted twice, and two of them are
  merged.
* A tool's name with `__` in it and no namespace is decoded to another name.
* Messages left out of a long history leave holes between the others; the text of an
  answer that lists no message item is lost; a steer after the seeding does not reach the
  running turn's requests.

**Subagents.**

* `read` in a list of tools also grants `get_goal`, and `write` also `create_goal` and
  `update_goal`, by their capabilities.
* A resumed agent is given the tools its client asks for (core 6388), not those of the
  call that started it: NestedTurnsStayWithin is about one drive.
* Policies of turns and registered definitions are not replayed; a crash in the middle of a
  call leaves its run running for ever; there is no bound on depth. The run a host dispatches takes the
  mode of the request without comparing it to the definition's.

**Host.**

* A request refused half way leaves its events, and the next accepted one writes them:
  a batch refused at its third call leaves `ToolBatchStarted` on file, and a
  generated id that is refused uses its number up.
* `emit_tool_call_started` (core 10131-10182) inserts an approval under the next number without
  looking: a host that chose that id loses its own.
* An interrupt, or the end of a turn, leaves its approvals pending while a replay cancels
  them; a replay leaves a turn waiting that was running; a suggestion taken back
  comes back. HostStateIsOnFile is about the rest.
* An approval of no turn counts for every turn of its thread with that call id, and
  is never used up. `start_thread` and `thread/fork` keep a title raw that
  `rename` would refuse. An archived thread takes turns.

**Tools and sandbox.**

* An error while the call waits for a command or reads its output is returned as a refusal though the
  command ran, and a Windows task whose log cannot be made private again is killed and
  reported as not started: RefusalMeansNotRun leaves errors after the start out.
* A background start empties its log before the policy is asked; killing a task waits for
  its process without a limit; a process that holds the output blocks a call past its
  deadline. After a crash that lost events a task may be given the log of a running one.
* Under the managed network every plan is refused, so proxy settings are never applied;
  the two Unix adapters disagree on a network that was to be asked for; the branch for Windows job
  objects is not reached. Exit code 259 reads as still running.
* In auto-review every writing tool is refused at its second check, also one that was approved,
  since "ask" counts as denied there. A call's own `policy` argument replaces the turn's for files while
  the network is asked of the turn's.
* `edit_file` writes back what it read; a picture overwrites a file made during its request;
  two feedback drafts of one second share a name. Any result that names a path is
  announced as an artifact (core 8159).

**Server.**

* A run answered with "background turn did not start before timeout" (server 251) still
  starts when its thread gets the mutex.
* `find_turn_started_after` (server 275) may answer with a turn of an overlapping
  request; AnswerNamesOwnTurn is about requests that do not overlap.
* `turn/steer` waits for the mutex (server 637), so it reaches a running turn only
  when that has ended, and is refused (core 6518).

**Shell.**

* Polling does not clear a pause whose turn was aborted (shell 5225), while
  `load_thread_state` does (4462). The stale pause holds the queue, and
  answering it closes the shell. Escape just after the end of a turn closes it
  too (core 6534, shell 5330), as does any command used wrongly, without a shutdown.
* `load_thread_state` does not set the active turn: a thread resumed while its turn runs looks
  idle, and Enter sends a prompt, whose `model/register` waits for that turn with the shell. It lists 5000 events, later ones are taken for new.
* A change of thread clears the follow-ups and keeps the suggestion, the todos and the login picker of
  the thread before; the picker takes the next prompt as its answer.
* `/goal <objective>` asks and then sets: it replaces a goal the model's tool made in between.
* Ctrl+P never gets past the second model, since the current one is listed first (tui 2192).
  The level of effort stays when the model changes to one without it; `--effort` is not
  checked; a saved "off" does not survive a start.
* Two shells with one settings file lose each other's saves, and a death inside a save leaves a
  file that no later save can read: SettingsAreOnFile has one shell and a file that may break.
* With an approval pending `a` and `d` act in the middle of a prompt, as `l`, `r`, `k` do under the background
  dock; with a question pending a typed command sends the highlighted answer (tui 556-630). Ctrl+D in any
  overlay leaves the shell while a turn runs. Alt+Up overwrites a draft.
* A tab of an earlier login that is loaded again, or a connection that says nothing
  useful, ends the login that waits; one that says nothing at all holds it past its 300 s.
  A login skips its question when another domain's credential is stored, and a
  file that cannot be read counts as none, so the save at the end fails.

**Files.**

* A line cut within a character makes the reader give up on every file
  (event_store.rs 292), and the server starts in memory. A line that lost only
  its end reads well, and the next append spoils the thread for the start after.
  Two servers in one directory write the same files.
* A lock older than 30 s is removed although a refresh may take 120 s (core 1522,
  1209), and `Drop` removes whatever lock is there; a login can then be written
  over. A death between truncating and filling `auth.json` leaves an empty file
  that no request repairs. The first read, without the lock, may meet it. A refresh whose
  answer is lost leaves a used token, and every later one fails until the next login. So does one whose
  write fails (core 1596-1605, returned at 1786): if the file could not be opened it keeps the used token, and if
  it was emptied it holds none.

---

## 7. What is not modelled

* **Within modelled components**: the server's authentication and its idle parts of the
  dispatch table (each a call into the runtime, represented where the runtime is
  modelled); event snapshots, idempotency records and the advisory lock of
  event_store.rs, which nothing but tests calls; tokens, access lists and accounts of
  Windows, and what a kernel makes of an adapter's arguments; the drawing of frames (`ratatui_ui`
  and the `render_*` functions of tui.rs) and the shell's commands that only print;
  the contents of files, prompts, reviews and diagrams.
* **The TypeScript extensions** (`packages/pi-package`): callbacks of another program's
  host, which is not in the repository, so that the order in which they are called would be guessed. Hazards seen in them:

| where | what |
|---|---|
| permissions.ts 1102, 1139, 1190 | a call allowed for the session outlives a change to read-only; parallel reviews pass the circuit breaker together; caches cleared during a review |
| shell-tool.ts 316, 483, 506, 521 | two registers of one task disagree; a late progress report; SIGTERM once and then no end; an answer before the exit's own handler is done |
| enter-routing.ts 103 | a queued prompt that is taken back stays in the chain |
| smart-compact.ts 253, 441 | outcomes dropped between compactions; a compaction that ends in another session |
| memory.ts 1741, 1923, 2626 | a plan from a stale list deletes by name; a rejected promise is kept; a second synchronisation on one repository |
| plugins.ts 550 | two commands write the store back whole |

* **Left aside**: protocol types (no behaviour), widgets and layout, the command
  line (starts programs and prints), displays and one-shot extensions, the
  intake worker (one counter), scripts that audit evidence.

---

## 8. What could come next

In the order of what each would tell:

1. *Two compositions.* Subagents with AgenticTurn, so that a child's pause meets the parent's transcript;
   ShellThreads with ServerTurns, so that pages of events arrive while background turns run.
2. *The extensions.* shell-tool.ts and its background tasks keep two registers in one process of Node, whose event
   loop is known even where the host's callbacks are not.
