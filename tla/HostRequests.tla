---------------------------- MODULE HostRequests ----------------------------
(***************************************************************************)
(* The runtime as its host drives it: threads, turns whose tool calls the  *)
(* host runs and records, approvals and questions, and the registries      *)
(* (plugins, MCP servers, models, memory, todos, the suggested message).   *)
(*                                                                         *)
(* Each request runs alone, under the runtime's mutex.  It emits events;   *)
(* the server writes those of an accepted request, with what an earlier    *)
(* refused one has left, before it answers.  A restart replays the file    *)
(* and aborts the turns that were not ended.                               *)
(***************************************************************************)
EXTENDS Naturals, Sequences, SequencesExt, FiniteSets

CONSTANTS
  Titles,         \* titles a client asks for; "blank" and "long" among them
  Calls,          \* ids of tool calls
  ToolUses,       \* recorded tool uses: [call, gated, ok, safe]
  HostIds,        \* ids a host gives to a request; 0 asks for a new one
  Plugins, Servers, Models,
  TodoLists,      \* lists of the todo tool: sequences of [id, status]
  MaxThreads, MaxHostTurns, MaxCrashes,
  MaxRequests     \* of each group, and of both: [turns, rest, all]

ASSUME UsesAreTyped == ToolUses \subseteq [call : Calls, gated : BOOLEAN, ok : BOOLEAN, safe : BOOLEAN]
ASSUME BoundsAreNumbers ==
  /\ {MaxThreads, MaxHostTurns, MaxCrashes} \subseteq Nat
  /\ MaxRequests \in [turns : Nat, rest : Nat, all : Nat]
ASSUME TitlesAreClassed == {"blank", "long"} \subseteq Titles

VARIABLES
  rt,         \* the runtime
  disk,       \* what a replay makes of the event files
  unsaved,    \* events of the runtime that are not in the files
  asked, crashes,
  granted,    \* history: the calls the user has approved, with thread and turn
  worked      \* history: the gated calls recorded as successful

hostVars == <<rt, disk, unsaved, asked, crashes, granted, worked>>

Empty == [id \in {} |-> 0]
NoTurn == 0
NoModel == "none"
NoSuggestion == "none"
MaxTurnContinuations == 8

NewRuntime ==
  [threads |-> Empty, turns |-> Empty, approvals |-> Empty, questions |-> Empty,
   plugins |-> {}, servers |-> {}, models |-> {}, selected |-> NoModel,
   memory |-> FALSE, todos |-> <<>>, suggestion |-> NoSuggestion,
   nextTurn |-> 0, nextApproval |-> 0, nextQuestion |-> 0]

Terminal(status) == status \in {"Completed", "Aborted", "Failed"}
Put(f, key, value) == [k \in DOMAIN f \cup {key} |-> IF k = key THEN value ELSE f[k]]

-----------------------------------------------------------------------------
(* The replay of an event.                                                 *)

MaxOf(m, n) == IF m > n THEN m ELSE n
\* The number at the end of a generated id; the names of hosts have none.
NumericSuffix(id) == IF id \in Nat THEN id ELSE 0

Status(r, turn, status) ==
  IF turn \in DOMAIN r.turns THEN [r EXCEPT !.turns[turn].status = status] ELSE r

\* The bug of a replay that cancels every approval of an ended turn.
ClearAllPauses(r, turn) ==
  [r EXCEPT !.approvals =
     [a \in DOMAIN @ |-> IF @[a].turn = turn THEN [@[a] EXCEPT !.outcome = "cancelled"] ELSE @[a]]]

ClearPendingPauses(r, turn) ==
  [r EXCEPT !.approvals =
     [a \in DOMAIN @ |->
       IF @[a].turn = turn /\ @[a].outcome = "pending"
       THEN [@[a] EXCEPT !.outcome = "cancelled"] ELSE @[a]]]

ApplyReplayedEvent(r, event) ==
  CASE event.kind \in {"ThreadStarted", "ThreadForked", "ThreadUpdated", "ThreadResumed"} ->
         [r EXCEPT !.threads = Put(@, event.id, event.thread)]
    [] event.kind = "TurnStarted" ->
         [r EXCEPT !.turns = Put(@, event.turn, [thread |-> event.thread, status |-> "Running"]),
                   !.nextTurn = MaxOf(@, event.turn)]
    [] event.kind = "TurnCompleted" ->
         ClearPendingPauses(Status(r, event.turn, "Completed"), event.turn)
    [] event.kind \in {"TurnAborted", "TurnInterrupted"} ->
         ClearPendingPauses(Status(r, event.turn, "Aborted"), event.turn)
    [] event.kind = "ApprovalRequested" ->
         [Status(r, event.owner.turn, "WaitingForApproval") EXCEPT
            !.approvals = Put(@, event.id, event.owner),
            !.nextApproval = MaxOf(@, NumericSuffix(event.id))]
    [] event.kind = "ApprovalResolved" ->
         IF event.id \in DOMAIN r.approvals
         THEN [r EXCEPT !.approvals[event.id].outcome = event.outcome] ELSE r
    [] event.kind = "QuestionRequested" ->
         [r EXCEPT !.questions = Put(@, event.id, [thread |-> event.thread, resolved |-> FALSE]),
                   !.nextQuestion = MaxOf(@, NumericSuffix(event.id))]
    [] event.kind = "QuestionResolved" ->
         IF event.id \in DOMAIN r.questions
         THEN [r EXCEPT !.questions[event.id].resolved = TRUE] ELSE r
    [] event.kind = "PluginRegistered" -> [r EXCEPT !.plugins = @ \cup {event.id}]
    [] event.kind = "McpServerRegistered" -> [r EXCEPT !.servers = @ \cup {event.id}]
    [] event.kind = "ModelRegistered" -> [r EXCEPT !.models = @ \cup {event.id}]
    [] event.kind = "ModelSelected" -> [r EXCEPT !.selected = event.id]
    [] event.kind = "MemoryStatusChanged" -> [r EXCEPT !.memory = event.enabled]
    [] event.kind = "TodosUpdated" -> [r EXCEPT !.todos = event.todos]
    [] event.kind = "SuggestionOffered" -> [r EXCEPT !.suggestion = event.message]
    [] event.kind \in {"ToolBatchStarted", "ToolBatchCompleted", "ToolCallCompleted",
                       "Diagnostic", "HandoffCompacted"} -> r

ReplayEvents(events) == FoldLeft(ApplyReplayedEvent, disk, events)

-----------------------------------------------------------------------------
(* A request at work: the runtime so far, the events it has emitted,       *)
(* whether it is refused, and the thread and turn it records tools of.     *)
(* The server saves after an accepted request.                             *)

StepOf(thread, turn, r, log) ==
  [rt |-> r, log |-> log, refused |-> FALSE, thread |-> thread, turn |-> turn]
Step(r, log) == StepOf(0, NoTurn, r, log)
Emit(s, event) == [s EXCEPT !.log = Append(@, event)]
Refuse(s) == [s EXCEPT !.refused = TRUE]

Request(s) ==
  /\ rt' = s.rt
  /\ IF s.refused
     THEN unsaved' = unsaved \o s.log /\ disk' = disk
     ELSE unsaved' = <<>> /\ disk' = ReplayEvents(unsaved \o s.log)
  /\ UNCHANGED crashes

Quiet == UNCHANGED <<granted, worked>>

Counted(group) ==
  /\ asked[group] < MaxRequests[group]
  /\ asked.turns + asked.rest < MaxRequests.all
  /\ asked' = [asked EXCEPT ![group] = @ + 1]

-----------------------------------------------------------------------------
(* Threads.                                                                *)

NormalizeThreadTitle(title) == IF title = "blank" THEN "none" ELSE title

SetThread(id, thread, kind) ==
  /\ Request(Step([rt EXCEPT !.threads = Put(@, id, thread)],
                  <<[kind |-> kind, id |-> id, thread |-> thread]>>))
  /\ Quiet

NextThread == Cardinality(DOMAIN rt.threads) + 1

StartThread(title) ==
  /\ NextThread <= MaxThreads
  /\ SetThread(NextThread, [title |-> title, archived |-> FALSE, from |-> 0], "ThreadStarted")

ForkThread(source, title) ==
  /\ NextThread <= MaxThreads
  /\ SetThread(NextThread, [title |-> title, archived |-> FALSE, from |-> source], "ThreadForked")

ResumeThread(id) == SetThread(id, rt.threads[id], "ThreadResumed")

RenameThread(id, title) ==
  /\ title # "long"
  /\ SetThread(id, [rt.threads[id] EXCEPT !.title = NormalizeThreadTitle(title)], "ThreadUpdated")

ArchiveThread(id) ==
  SetThread(id, [rt.threads[id] EXCEPT !.archived = TRUE], "ThreadUpdated")

-----------------------------------------------------------------------------
(* Tools run by the host, recorded in batches.                             *)

\* The bug of consent that is not tied to its thread.
HasApprovalAnywhere(r, thread, turn, call) ==
  \E a \in DOMAIN r.approvals :
    LET owner == r.approvals[a]
    IN owner.call = call /\ owner.outcome = "approved" /\ owner.turn \in {turn, NoTurn}

HasApprovedToolCall(r, thread, turn, call) ==
  \E a \in DOMAIN r.approvals :
    LET owner == r.approvals[a]
    IN /\ owner.thread = thread
       /\ owner.call = call
       /\ owner.outcome = "approved"
       /\ owner.turn \in {turn, NoTurn}

ValidateToolPairing(uses) ==
  \A i, j \in DOMAIN uses : uses[i].call = uses[j].call => i = j

ValidateToolBatchItems(r, thread, turn, uses) ==
  /\ ValidateToolPairing(uses)
  /\ \A i \in DOMAIN uses :
       uses[i].gated /\ uses[i].ok => HasApprovedToolCall(r, thread, turn, uses[i].call)

\* Runs of safe uses go together, any other use goes alone.
JoinsBatch(batches, use) ==
  /\ use.safe
  /\ batches # <<>>
  /\ \A i \in DOMAIN Last(batches) : Last(batches)[i].safe

PlaceUse(batches, use) ==
  IF JoinsBatch(batches, use) THEN Append(Front(batches), Append(Last(batches), use))
  ELSE Append(batches, <<use>>)

PartitionOrderedToolBatches(uses) == FoldLeft(PlaceUse, <<>>, uses)

\* A gated call without consent asks for one under the next number, taking
\* the place of a request that has the same id.
EmitToolCallStarted(s, use) ==
  IF ~use.gated \/ HasApprovedToolCall(s.rt, s.thread, s.turn, use.call) THEN s
  ELSE LET id == s.rt.nextApproval + 1
           owner == [thread |-> s.thread, turn |-> s.turn, call |-> use.call, outcome |-> "pending"]
       IN Emit([s EXCEPT !.rt.nextApproval = id, !.rt.approvals = Put(@, id, owner)],
               [kind |-> "ApprovalRequested", id |-> id, owner |-> owner])

EmitToolResultCompleted(s, use) ==
  Emit(s, [kind |-> "ToolCallCompleted", turn |-> s.turn, use |-> use])

RecordToolBatchItems(s, uses) ==
  IF ~ValidateToolBatchItems(s.rt, s.thread, s.turn, uses) THEN Refuse(s)
  ELSE FoldLeft(EmitToolResultCompleted, FoldLeft(EmitToolCallStarted, s, uses), uses)

RecordBatch(s, uses) ==
  IF s.refused THEN s
  ELSE LET done == RecordToolBatchItems(Emit(s, [kind |-> "ToolBatchStarted"]), uses)
       IN IF done.refused THEN done ELSE Emit(done, [kind |-> "ToolBatchCompleted"])

RecordedBatches(s, batches) == FoldLeft(RecordBatch, s, batches)

EnsureTurnMutable(thread, turn) ==
  rt.turns[turn].thread = thread /\ ~Terminal(rt.turns[turn].status)

\* The successes among the results that reached the log.
Worked(thread, log) ==
  {[thread |-> thread, turn |-> log[i].turn, call |-> log[i].use.call] :
     i \in {j \in DOMAIN log : log[j].kind = "ToolCallCompleted" /\ log[j].use.gated /\ log[j].use.ok}}

RecordToolBatch(thread, turn, uses) ==
  LET batches == PartitionOrderedToolBatches(uses)
      s == RecordedBatches(StepOf(thread, turn, rt, <<>>), batches)
  IN /\ EnsureTurnMutable(thread, turn)
     /\ \A i \in DOMAIN batches : ValidateToolBatchItems(rt, thread, turn, batches[i])
     /\ Request(s)
     /\ worked' = worked \cup Worked(thread, s.log)
     /\ UNCHANGED granted

\* A single record carries no gate.
RecordTool(thread, turn, use) ==
  LET s == RecordToolBatchItems(StepOf(thread, turn, rt, <<>>), <<[use EXCEPT !.gated = FALSE]>>)
  IN /\ EnsureTurnMutable(thread, turn)
     /\ Request(s)
     /\ Quiet

-----------------------------------------------------------------------------
(* Turns.                                                                  *)

StartTurn(thread, uses, continuations, defer) ==
  LET turn == rt.nextTurn + 1
      started == StepOf(thread, turn,
                        [rt EXCEPT !.nextTurn = turn,
                                   !.turns = Put(@, turn, [thread |-> thread, status |-> "Running"])],
                        <<[kind |-> "TurnStarted", turn |-> turn, thread |-> thread]>>)
      Ended(s, status, kind) ==
        Emit([s EXCEPT !.rt.turns[turn].status = status], [kind |-> kind, turn |-> turn])
      recorded == IF uses = <<>> THEN started ELSE RecordToolBatchItems(started, uses)
      s == IF continuations > MaxTurnContinuations THEN Ended(started, "Aborted", "TurnAborted")
           ELSE IF defer THEN recorded
           ELSE Ended(recorded, "Completed", "TurnCompleted")
  IN /\ turn <= MaxHostTurns
     /\ ValidateToolBatchItems(rt, thread, turn, uses)
     /\ Request(s)
     /\ worked' = worked \cup Worked(thread, s.log)
     /\ UNCHANGED granted

\* Approvals that are pending stay so in memory; the replay cancels them.
InterruptTurn(thread, turn) ==
  /\ EnsureTurnMutable(thread, turn)
  /\ Request(Emit(Step([rt EXCEPT !.turns[turn].status = "Aborted"], <<>>),
                  [kind |-> "TurnInterrupted", turn |-> turn]))
  /\ Quiet

-----------------------------------------------------------------------------
(* Approvals and questions of the host.                                    *)

RequestApproval(thread, given, call) ==
  LET fresh == given = 0
      id == IF fresh THEN rt.nextApproval + 1 ELSE given
      numbered == IF fresh THEN [rt EXCEPT !.nextApproval = id] ELSE rt
      owner == [thread |-> thread, turn |-> NoTurn, call |-> call, outcome |-> "pending"]
  IN /\ Request(IF id \in DOMAIN rt.approvals THEN Refuse(Step(numbered, <<>>))
                ELSE Emit(Step([numbered EXCEPT !.approvals = Put(@, id, owner)], <<>>),
                          [kind |-> "ApprovalRequested", id |-> id, owner |-> owner]))
     /\ Quiet

RespondApproval(id, outcome) ==
  LET owner == rt.approvals[id]
  IN /\ owner.outcome = "pending"
     /\ Request(Emit(Step([rt EXCEPT !.approvals[id].outcome = outcome], <<>>),
                     [kind |-> "ApprovalResolved", id |-> id, outcome |-> outcome]))
     /\ granted' = IF outcome = "approved"
                   THEN granted \cup {[thread |-> owner.thread, turn |-> owner.turn, call |-> owner.call]}
                   ELSE granted
     /\ UNCHANGED worked

RequestQuestion(thread, given) ==
  LET fresh == given = 0
      id == IF fresh THEN rt.nextQuestion + 1 ELSE given
      numbered == IF fresh THEN [rt EXCEPT !.nextQuestion = id] ELSE rt
  IN /\ Request(IF id \in DOMAIN rt.questions THEN Refuse(Step(numbered, <<>>))
                ELSE Emit(Step([numbered EXCEPT !.questions =
                                  Put(@, id, [thread |-> thread, resolved |-> FALSE])], <<>>),
                          [kind |-> "QuestionRequested", id |-> id, thread |-> thread]))
     /\ Quiet

RespondQuestion(id) ==
  /\ ~rt.questions[id].resolved
  /\ Request(Emit(Step([rt EXCEPT !.questions[id].resolved = TRUE], <<>>),
                  [kind |-> "QuestionResolved", id |-> id]))
  /\ Quiet

-----------------------------------------------------------------------------
(* The registries.                                                         *)

RegisterPlugin(id) ==
  /\ Request(Step([rt EXCEPT !.plugins = @ \cup {id}], <<[kind |-> "PluginRegistered", id |-> id]>>))
  /\ Quiet
RegisterMcp(id) ==
  /\ Request(Step([rt EXCEPT !.servers = @ \cup {id}], <<[kind |-> "McpServerRegistered", id |-> id]>>))
  /\ Quiet
RegisterModel(id) ==
  /\ Request(Step([rt EXCEPT !.models = @ \cup {id}], <<[kind |-> "ModelRegistered", id |-> id]>>))
  /\ Quiet
SelectModel(id) ==
  /\ id \in rt.models
  /\ Request(Step([rt EXCEPT !.selected = id], <<[kind |-> "ModelSelected", id |-> id]>>))
  /\ Quiet
SetMemoryStatus(enabled) ==
  /\ Request(Step([rt EXCEPT !.memory = enabled],
                  <<[kind |-> "MemoryStatusChanged", enabled |-> enabled]>>))
  /\ Quiet

\* Requests that leave a note in the log and change nothing.
Note(kind) == Request(Step(rt, <<[kind |-> kind]>>)) /\ Quiet
McpAction(id) == id \in rt.servers /\ Note("Diagnostic")
MemoryControl == Note("Diagnostic")
CompactHandoff == Note("HandoffCompacted")

-----------------------------------------------------------------------------
(* Todos and the suggested message, which tools of a turn write too.       *)

\* A blank id becomes the place in the list; a repeated one gets the place
\* after it.
NormalizeTodoWriteState(items) ==
  LET Add(state, i) ==
        LET raw == IF items[i].id = <<>> THEN <<i>> ELSE items[i].id
            id == IF raw \in state.seen THEN Append(raw, i) ELSE raw
        IN [seen |-> state.seen \cup {id},
            todos |-> Append(state.todos, [id |-> id, status |-> items[i].status])]
  IN FoldLeft(Add, [seen |-> {}, todos |-> <<>>], [i \in DOMAIN items |-> i]).todos

SetTodos(todos) ==
  /\ Request(Step([rt EXCEPT !.todos = todos], <<[kind |-> "TodosUpdated", todos |-> todos]>>))
  /\ Quiet

ExecuteTodoWriteTool(items) ==
  /\ \A i \in DOMAIN items : items[i].status # "invalid"
  /\ SetTodos(NormalizeTodoWriteState(items))

Done(todo) == [todo EXCEPT !.status = "completed"]

TodoClientDone(id) ==
  LET named == {i \in DOMAIN rt.todos : rt.todos[i].id = id}
      first == CHOOSE i \in named : \A j \in named : i <= j
  IN named # {} /\ SetTodos([rt.todos EXCEPT ![first] = Done(@)])

TodoClientDoneAll ==
  SetTodos([i \in DOMAIN rt.todos |->
              IF rt.todos[i].status = "cancelled" THEN rt.todos[i] ELSE Done(rt.todos[i])])

TodoClientClear == SetTodos(<<>>)

\* A suggestion that is not sure enough takes the last one back, in memory
\* only: no event says so.
ExecuteSuggestNextTool(message) ==
  /\ Request(Step([rt EXCEPT !.suggestion = message],
                  IF message = NoSuggestion THEN <<>>
                  ELSE <<[kind |-> "SuggestionOffered", message |-> message]>>))
  /\ Quiet

-----------------------------------------------------------------------------
(* Requests that only look: the lists, the metrics, the status of the      *)
(* sandbox.  One that is accepted saves, with nothing new, the events that *)
(* a request refused half way has left in the runtime; with nothing left   *)
(* it is no step.                                                          *)

LookRequest ==
  /\ unsaved # <<>>
  /\ Request(Step(rt, <<>>))
  /\ Quiet
  /\ UNCHANGED asked

-----------------------------------------------------------------------------
(* A restart of the server.                                                *)

AbortTurn(r, turn) == ApplyReplayedEvent(r, [kind |-> "TurnAborted", turn |-> turn])

RecoverIncompleteTurns(r) ==
  FoldLeft(AbortTurn, r, SetToSeq({t \in DOMAIN r.turns : ~Terminal(r.turns[t].status)}))

HostRestart ==
  /\ crashes < MaxCrashes
  /\ crashes' = crashes + 1
  /\ disk' = RecoverIncompleteTurns(disk)
  /\ rt' = disk'
  /\ unsaved' = <<>>
  /\ UNCHANGED <<asked, granted, worked>>

HostInit ==
  /\ rt = NewRuntime /\ disk = NewRuntime
  /\ unsaved = <<>>
  /\ asked = [turns |-> 0, rest |-> 0] /\ crashes = 0
  /\ granted = {} /\ worked = {}

ThreadRequest ==
  \/ \E title \in Titles : StartThread(title)
  \/ \E id \in DOMAIN rt.threads :
       \/ ResumeThread(id)
       \/ ArchiveThread(id)
       \/ \E title \in Titles : ForkThread(id, title) \/ RenameThread(id, title)

UsesUpTo(n) == UNION {[1..k -> ToolUses] : k \in 0..n}

TurnRequest ==
  \/ \E thread \in DOMAIN rt.threads, uses \in UsesUpTo(1), defer \in BOOLEAN,
       continuations \in {0, MaxTurnContinuations + 1} : StartTurn(thread, uses, continuations, defer)
  \/ \E thread \in DOMAIN rt.threads, turn \in DOMAIN rt.turns :
       \/ InterruptTurn(thread, turn)
       \/ \E use \in ToolUses : RecordTool(thread, turn, use)
       \/ \E uses \in UsesUpTo(2) : RecordToolBatch(thread, turn, uses)

PauseRequest ==
  \/ \E thread \in DOMAIN rt.threads, id \in HostIds :
       \E call \in Calls : RequestApproval(thread, id, call)
  \/ \E id \in DOMAIN rt.approvals, outcome \in {"approved", "denied"} : RespondApproval(id, outcome)

QuestionRequest ==
  \/ \E thread \in DOMAIN rt.threads, id \in HostIds : RequestQuestion(thread, id)
  \/ \E id \in DOMAIN rt.questions : RespondQuestion(id)

RegistryRequest ==
  /\ DOMAIN rt.threads # {}
  /\ \/ \E id \in Plugins : RegisterPlugin(id)
     \/ \E id \in Servers : RegisterMcp(id) \/ McpAction(id)
     \/ \E id \in Models : RegisterModel(id) \/ SelectModel(id)
     \/ \E enabled \in BOOLEAN : SetMemoryStatus(enabled)
     \/ MemoryControl \/ CompactHandoff
     \/ \E items \in TodoLists : ExecuteTodoWriteTool(items)
     \/ \E i \in DOMAIN rt.todos : TodoClientDone(rt.todos[i].id)
     \/ TodoClientDoneAll \/ TodoClientClear
     \/ \E message \in {NoSuggestion, "go on"} : ExecuteSuggestNextTool(message)

\* What the server does with the method of a request.  A request that the
\* token, the decoding of its parameters or a guard turns away before it
\* changes anything is no step; goals and the turns of the agentic loop have
\* modules of their own.
HostNext ==
  \/ LookRequest
  \/ Counted("rest") /\ (ThreadRequest \/ QuestionRequest \/ RegistryRequest)
  \/ Counted("turns") /\ (TurnRequest \/ PauseRequest)
  \/ HostRestart
HostSpec == HostInit /\ [][HostNext]_hostVars
-----------------------------------------------------------------------------
(* Properties.                                                             *)

Outcomes == {"pending", "approved", "denied", "cancelled"}

HostTypeOK ==
  /\ \A t \in DOMAIN rt.turns :
       /\ rt.turns[t].thread \in DOMAIN rt.threads
       /\ rt.turns[t].status \in {"Running", "WaitingForApproval", "Completed", "Aborted"}
  /\ \A a \in DOMAIN rt.approvals :
       rt.approvals[a].outcome \in Outcomes /\ rt.approvals[a].thread \in DOMAIN rt.threads
  /\ rt.selected \in rt.models \cup {NoModel}
  /\ \A group \in DOMAIN asked : asked[group] \in 0..MaxRequests[group]
  /\ crashes \in 0..MaxCrashes

Answered(r) == {[id |-> a, outcome |-> r.approvals[a].outcome] :
                  a \in {b \in DOMAIN r.approvals : r.approvals[b].outcome \in {"approved", "denied"}}}
Closed(r) == {[turn |-> t, status |-> r.turns[t].status] :
                t \in {u \in DOMAIN r.turns : Terminal(r.turns[u].status)}}

\* A restart loses nothing the host was told: the events the server has
\* written, with those of a refused request that the next accepted one writes
\* (unsaved; none are left when a request was accepted), rebuild the threads, the registries, the model that is selected,
\* the memory switch, the todos, the answers of the user and the turns that
\* have ended (apply_replayed_event against each request of the runtime).
HostStateIsOnFile ==
  LET log == ReplayEvents(unsaved)
  IN /\ log.threads = rt.threads
     /\ <<log.plugins, log.servers, log.models>> = <<rt.plugins, rt.servers, rt.models>>
     /\ log.selected = rt.selected
     /\ log.memory = rt.memory
     /\ log.todos = rt.todos
     /\ log.questions = rt.questions
     /\ DOMAIN log.turns = DOMAIN rt.turns
     /\ Closed(log) = Closed(rt)
     /\ Answered(log) = Answered(rt)

\* A gated call is recorded as successful only after the user has approved
\* that call, for that turn or for the whole thread, whatever the batches,
\* the ids of the host and the restarts in between (has_approved_tool_call).
SuccessNeedsConsent ==
  \A use \in worked :
    \E consent \in granted :
      /\ consent.thread = use.thread
      /\ consent.call = use.call
      /\ consent.turn \in {use.turn, NoTurn}
=============================================================================
