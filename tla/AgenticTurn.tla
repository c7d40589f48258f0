---------------------------- MODULE AgenticTurn ----------------------------
(***************************************************************************)
(* The agentic turn engine of oppi-core: Runtime::run_agentic_turn,        *)
(* Runtime::drive_agentic_turn, the pauses for an approval or an answer,   *)
(* Runtime::resume_agentic_turn and the two ways to interrupt a turn.      *)
(*                                                                         *)
(* The Runtime sits behind one mutex, so at most one turn is driven at a   *)
(* time (variable drive) and every other request waits for the driver,     *)
(* with one exception: the TurnInterruptRegistry is shared, and a request  *)
(* that finds the mutex taken by a background turn writes to it.  A step   *)
(* of the driver here is the code from one look at that registry to the    *)
(* next, which is as fine as any other thread can tell.                    *)
(*                                                                         *)
(* One conversation thread is modelled.  Items, diagnostics, text deltas,  *)
(* phases of display and the sandbox policy are left out; the goal hooks   *)
(* of the same handlers are modelled in ThreadGoals.                       *)
(***************************************************************************)
EXTENDS Naturals, Sequences, FiniteSets

CONSTANTS
  MaxTurns,          \* bound: turns ever started
  MaxApprovals,      \* bound: approval requests ever made
  MaxQuestions,      \* bound: ask_user questions ever asked
  MaxContinuations,  \* params.max_continuations of every drive (default 8)
  MaxStepCalls,      \* bound: tool calls in one model step
  Calls,             \* tool call identifiers
  AskCalls,          \* those that call the ask_user tool
  GatedCalls,        \* those that need an approval
  NoCall,            \* no tool call
  Providers,         \* the kinds of model provider in use
  Unusual            \* requests the API takes and no client of this repository makes

ASSUME BoundsAssumption ==
  /\ MaxTurns \in Nat \ {0}
  /\ MaxApprovals \in Nat
  /\ MaxQuestions \in Nat
  /\ MaxContinuations \in Nat
  /\ MaxStepCalls \in Nat

ASSUME CallsAssumption ==
  /\ AskCalls \subseteq Calls
  /\ GatedCalls \subseteq Calls
  /\ NoCall \notin Calls

ASSUME ProvidersAssumption == Providers \subseteq {"scripted", "direct"}

\* conflictingProvider: modelSteps sent together with a direct provider.
\* anyApproval: approvedToolCallIds that name more than the pending call.
\* answerOutOfBand: question/respond on a question an ask_user tool asked.
ASSUME UnusualAssumption ==
  Unusual \subseteq {"conflictingProvider", "anyApproval", "answerOutOfBand"}

NoTurn == 0
Turn == 1..MaxTurns
ApprovalId == 1..MaxApprovals
QuestionId == 1..MaxQuestions
NoQuestion == 0

Terminal == {"completed", "aborted"}
Waiting == {"waitingForApproval", "waitingForUser"}
Status == {"absent", "running"} \cup Waiting \cup Terminal

VARIABLES
  turns,       \* turn -> status; "absent" before it is started
  next_turn,   \* the turn counter
  approvals,   \* approval id -> its turn, its call, its outcome
  next_approval,
  questions,   \* question id -> its turn, its call, whether it is resolved
  next_question,
  snapshots,   \* direct_provider_turns: turn -> transcript of a paused turn
  interrupts,  \* the turns in the TurnInterruptRegistry
  drive,       \* the turn being driven and the locals of drive_agentic_turn
  emitted,     \* the events of the last step that a replay acts on
  issued,      \* history: call ids the model has used
  consented,   \* history: call ids some client approved
  ran,         \* history: calls whose tool has run
  reran        \* history: calls whose tool has run again

requests == <<approvals, next_approval, questions, next_question>>
history == <<issued, consented, ran, reran>>
vars == <<turns, next_turn, requests, snapshots, interrupts, drive, emitted, history>>

-----------------------------------------------------------------------------
(* Records.                                                                *)

\* A client's decision to cancel counts as a denial; "cancelled" is what a
\* replay makes of approvals nobody answered.
NoApproval == [turn |-> NoTurn, call |-> NoCall, outcome |-> "absent"]
Approval == [turn : Turn \cup {NoTurn}, call : Calls,
             outcome : {"pending", "approved", "denied", "cancelled"}] \cup {NoApproval}

NoQuestionAsked == [turn |-> NoTurn, call |-> NoCall, state |-> "absent"]
Question == [turn : Turn, call : Calls, state : {"open", "resolved"}] \cup {NoQuestionAsked}

\* What a transcript holds of the last assistant message: the calls that no
\* tool message has answered yet.
NoSnapshot == [held |-> FALSE, unanswered |-> {}]
Snapshot == [held : BOOLEAN, unanswered : SUBSET Calls]

\* An event a replay acts on; ids and outcome belong to the request events,
\* unanswered to the transcript snapshot.
EventKind == {"TurnStarted", "TurnCompleted", "TurnAborted", "TurnInterrupted",
              "ApprovalRequested", "ApprovalResolved", "AskUserRequested",
              "AskUserResolved", "ProviderTranscriptSnapshot"}
Event == [kind : EventKind, turn : Turn \cup {NoTurn}, ids : SUBSET Nat,
          call : Calls \cup {NoCall}, outcome : {"none", "approved", "denied"},
          unanswered : SUBSET Calls]

TurnEvent(kind, t) ==
  [kind |-> kind, turn |-> t, ids |-> {}, call |-> NoCall,
   outcome |-> "none", unanswered |-> {}]
RequestEvent(kind, t, ids, c, outcome) ==
  [kind |-> kind, turn |-> t, ids |-> ids, call |-> c,
   outcome |-> outcome, unanswered |-> {}]
SnapshotEvent(t, open) ==
  [kind |-> "ProviderTranscriptSnapshot", turn |-> t, ids |-> {}, call |-> NoCall,
   outcome |-> "none", unanswered |-> open]

Phase == {"system", "api", "tokens", "tools", "loop"}
Place == {"idle", "pending", "loop", "model", "stepped", "streamed", "calls",
          "settled", "pausingForUser", "pausingForApproval"}

IdleDrive ==
  [turn |-> NoTurn, at |-> "idle", background |-> FALSE, direct |-> FALSE,
   phase |-> "loop", continuation |-> 0, approved |-> {}, pending |-> {},
   calls |-> <<>>, provided |-> {}, duplicate |-> FALSE, final |-> FALSE,
   unanswered |-> {}]

Drive ==
  [turn : Turn \cup {NoTurn}, at : Place, background : BOOLEAN, direct : BOOLEAN,
   phase : Phase, continuation : Nat, approved : SUBSET Calls,
   pending : SUBSET ApprovalId, calls : Seq(Calls), provided : SUBSET Calls,
   duplicate : BOOLEAN, final : BOOLEAN, unanswered : SUBSET Calls]

TypeOK ==
  /\ turns \in [Turn -> Status]
  /\ next_turn \in 0..MaxTurns
  /\ approvals \in [ApprovalId -> Approval]
  /\ next_approval \in 0..MaxApprovals
  /\ questions \in [QuestionId -> Question]
  /\ next_question \in 0..MaxQuestions
  /\ snapshots \in [Turn -> Snapshot]
  /\ interrupts \subseteq Turn
  /\ drive \in Drive
  /\ emitted \in Seq(Event)
  /\ issued \subseteq Calls
  /\ consented \subseteq Calls
  /\ ran \subseteq Calls
  /\ reran \subseteq ran

Init ==
  /\ turns = [t \in Turn |-> "absent"]
  /\ next_turn = 0
  /\ approvals = [a \in ApprovalId |-> NoApproval]
  /\ next_approval = 0
  /\ questions = [q \in QuestionId |-> NoQuestionAsked]
  /\ next_question = 0
  /\ snapshots = [t \in Turn |-> NoSnapshot]
  /\ interrupts = {}
  /\ drive = IdleDrive
  /\ emitted = <<>>
  /\ issued = {}
  /\ consented = {}
  /\ ran = {}
  /\ reran = {}

-----------------------------------------------------------------------------
(* Helpers.                                                                *)

Idle == drive.turn = NoTurn

\* AgenticLoopState::transition and valid_agentic_transition, from the phase
\* the loop is first entered in.
ValidTransition(current, next) ==
  <<current, next>> \in {<<"system", "api">>, <<"api", "tokens">>,
                         <<"tokens", "tools">>, <<"tools", "loop">>,
                         <<"loop", "api">>}

\* Mutant of HasApprovedCall: any answer to the approval will do.
HasResolvedCall(t, c) ==
  \E a \in ApprovalId : /\ approvals[a].call = c
                        /\ approvals[a].outcome \in {"approved", "denied"}
                        /\ approvals[a].turn \in {t, NoTurn}

\* has_approved_tool_call: an approval the host asked for outside any turn
\* counts for every turn of the thread.
HasApprovedCall(t, c) ==
  \E a \in ApprovalId : /\ approvals[a].call = c
                        /\ approvals[a].outcome = "approved"
                        /\ approvals[a].turn \in {t, NoTurn}

\* The drive stopped the call: an approval is needed and nobody gave it.
NeedsApproval(c) ==
  /\ c \in GatedCalls
  /\ c \notin drive.provided
  /\ c \notin drive.approved
  /\ ~HasApprovedCall(drive.turn, c)

AsksUser(c) == c \in AskCalls /\ c \notin drive.provided

\* execute_agentic_tool with no provided result: the tool really runs.
RunTool(c) ==
  /\ ran' = ran \cup {c}
  /\ reran' = IF c \in ran THEN reran \cup {c} ELSE reran
  /\ UNCHANGED <<issued, consented>>

\* provider.observe_tool_result: the transcript now answers the call.
Observed(d, c) == [d EXCEPT !.unanswered = @ \ {c}]

\* What is left of the step once its first call is dealt with.
NextCall(d) ==
  [Observed(d, Head(d.calls)) EXCEPT !.calls = Tail(@),
                                     !.provided = @ \ {Head(d.calls)}]

\* set_phase: the phase moves on and the driver's copy of the turn, which is
\* running, becomes the turn other requests see.
SetPhase(d) == turns' = [turns EXCEPT ![d.turn] = "running"]

\* abort_agentic_turn and interrupt_agentic_turn: the turn ends and its
\* transcript goes; the approvals and questions it left are not touched.
EndAborted(kind) ==
  /\ turns' = [turns EXCEPT ![drive.turn] = "aborted"]
  /\ snapshots' = [snapshots EXCEPT ![drive.turn] = NoSnapshot]
  /\ emitted' = <<TurnEvent(kind, drive.turn)>>
  /\ drive' = IdleDrive
  /\ UNCHANGED <<next_turn, requests>>

\* The driver looks at the registry and finds nothing for its turn.
NotInterrupted(place) ==
  /\ drive.at = place
  /\ drive.turn \notin interrupts

-----------------------------------------------------------------------------
(* Starting a turn.                                                        *)

\* approved_tool_call_ids a client may send with a new turn.
FirstApprovals == IF "anyApproval" \in Unusual THEN SUBSET GatedCalls ELSE {{}}

StartTurn(t, first) ==
  /\ next_turn' = next_turn + 1
  /\ turns' = [turns EXCEPT ![t] = "running"]
  /\ emitted' = <<TurnEvent("TurnStarted", t)>>
  /\ consented' = consented \cup first
  /\ UNCHANGED <<requests, snapshots, interrupts, issued, ran, reran>>

RunAgenticTurn(provider, background, first) ==
  /\ Idle
  /\ next_turn < MaxTurns
  /\ StartTurn(next_turn + 1, first)
  /\ drive' = [IdleDrive EXCEPT !.turn = next_turn + 1, !.at = "loop",
                                !.background = background,
                                !.direct = (provider = "direct"),
                                !.phase = "system", !.approved = first]

\* model_provider refuses a request with both kinds of provider, but by then
\* the turn is in the map and its events are out.
RunAgenticTurnRefused(first) ==
  /\ "conflictingProvider" \in Unusual
  /\ Idle
  /\ next_turn < MaxTurns
  /\ StartTurn(next_turn + 1, first)
  /\ UNCHANGED drive

-----------------------------------------------------------------------------
(* The loop of drive_agentic_turn.                                         *)

\* take_requested_interrupt answers: the request is consumed, the turn ends.
InterruptDrive ==
  /\ drive.at \in {"pending", "loop", "stepped", "streamed", "calls", "settled"}
  /\ drive.turn \in interrupts
  /\ interrupts' = interrupts \ {drive.turn}
  /\ EndAborted("TurnInterrupted")
  /\ UNCHANGED history

\* Approved calls a resume carries in run before the loop is entered.  Their
\* order, that of the approval ids as strings, is left open.
RunPendingCall ==
  /\ NotInterrupted("pending")
  /\ \E a \in drive.pending :
       /\ RunTool(approvals[a].call)
       /\ drive' = [Observed(drive, approvals[a].call)
                      EXCEPT !.pending = @ \ {a},
                             !.at = IF drive.pending = {a} THEN "loop" ELSE "pending"]
  /\ emitted' = <<>>
  /\ UNCHANGED <<turns, next_turn, requests, snapshots, interrupts>>

\* params.cancellation names this call or this continuation.
CancelDrive ==
  /\ \/ NotInterrupted("pending")
     \/ NotInterrupted("loop") /\ drive.continuation <= MaxContinuations
     \/ NotInterrupted("calls") /\ drive.calls # <<>>
  /\ EndAborted("TurnAborted")
  /\ UNCHANGED <<interrupts, history>>

GuardContinuation ==
  /\ NotInterrupted("loop")
  /\ drive.continuation > MaxContinuations
  /\ EndAborted("TurnAborted")
  /\ UNCHANGED <<interrupts, history>>

\* The Api phase; the provider is being asked for its next step.
CallModel ==
  /\ NotInterrupted("loop")
  /\ drive.continuation <= MaxContinuations
  /\ ValidTransition(drive.phase, "api")
  /\ drive' = [drive EXCEPT !.at = "model", !.phase = "api"]
  /\ SetPhase(drive)
  /\ emitted' = <<>>
  /\ UNCHANGED <<next_turn, requests, snapshots, interrupts, history>>

\* Mutant of ModelFails: the error is returned and the turn left as it is.
ModelErrorReturned ==
  /\ drive.at = "model"
  /\ drive.direct
  /\ drive' = IdleDrive
  /\ emitted' = <<>>
  /\ UNCHANGED <<turns, next_turn, requests, snapshots, interrupts, history>>

\* provider.next_step fails: the registry is not looked at.
ModelFails ==
  /\ drive.at = "model"
  /\ drive.direct
  /\ EndAborted("TurnAborted")
  /\ UNCHANGED <<interrupts, history>>

\* The calls of one step: no identifier twice.
StepCalls == UNION {{s \in [1..n -> Calls] : \A i, j \in 1..n : s[i] = s[j] => i = j}
                      : n \in 0..MaxStepCalls}
CallsOf(s) == {s[i] : i \in DOMAIN s}

\* A direct provider uses fresh call ids and brings no results; a script may
\* name any call and bring results, of its own calls or not, one of them twice.
ModelAnswers ==
  /\ drive.at = "model"
  /\ \E calls \in StepCalls, provided \in SUBSET Calls, duplicate \in BOOLEAN,
        final \in BOOLEAN :
       /\ drive.direct => /\ CallsOf(calls) \cap issued = {}
                          /\ provided = {}
                          /\ ~final
       /\ duplicate => provided # {}
       /\ drive' = [drive EXCEPT
                      !.at = "stepped", !.calls = calls, !.provided = provided,
                      !.duplicate = duplicate, !.final = final \/ calls = <<>>,
                      !.unanswered = IF drive.direct THEN @ \cup CallsOf(calls) ELSE @]
       /\ issued' = issued \cup CallsOf(calls)
  /\ emitted' = <<>>
  /\ UNCHANGED <<turns, next_turn, requests, snapshots, interrupts, consented, ran, reran>>

StreamStep ==
  /\ NotInterrupted("stepped")
  /\ ValidTransition(drive.phase, "tokens")
  /\ drive' = [drive EXCEPT !.at = "streamed", !.phase = "tokens"]
  /\ SetPhase(drive)
  /\ emitted' = <<>>
  /\ UNCHANGED <<next_turn, requests, snapshots, interrupts, history>>

EnterTools ==
  /\ NotInterrupted("streamed")
  /\ ~drive.duplicate
  /\ ValidTransition(drive.phase, "tools")
  /\ drive' = [drive EXCEPT !.at = "calls", !.phase = "tools"]
  /\ SetPhase(drive)
  /\ emitted' = <<>>
  /\ UNCHANGED <<next_turn, requests, snapshots, interrupts, history>>

\* tool_results_by_call_id refuses two results for one call.
DuplicateResult ==
  /\ NotInterrupted("streamed")
  /\ drive.duplicate
  /\ EndAborted("TurnAborted")
  /\ UNCHANGED <<interrupts, history>>

\* Mutant of ExecuteCall: the registry is not looked at between two calls.
ExecuteCallAnyway ==
  /\ drive.at = "calls"
  /\ drive.calls # <<>>
  /\ LET c == Head(drive.calls) IN
       /\ ~AsksUser(c)
       /\ ~NeedsApproval(c)
       /\ IF c \in drive.provided THEN UNCHANGED history ELSE RunTool(c)
  /\ drive' = NextCall(drive)
  /\ emitted' = <<>>
  /\ UNCHANGED <<turns, next_turn, requests, snapshots, interrupts>>

ExecuteCall ==
  /\ NotInterrupted("calls")
  /\ drive.calls # <<>>
  /\ LET c == Head(drive.calls) IN
       /\ ~AsksUser(c)
       /\ ~NeedsApproval(c)
       /\ IF c \in drive.provided THEN UNCHANGED history ELSE RunTool(c)
  /\ drive' = NextCall(drive)
  /\ emitted' = <<>>
  /\ UNCHANGED <<turns, next_turn, requests, snapshots, interrupts>>

\* A malformed ask_user request uses up a question id, is answered with an
\* error, and the step goes on.
RejectQuestion ==
  /\ NotInterrupted("calls")
  /\ drive.calls # <<>>
  /\ AsksUser(Head(drive.calls))
  /\ next_question < MaxQuestions
  /\ next_question' = next_question + 1
  /\ drive' = NextCall(drive)
  /\ emitted' = <<>>
  /\ UNCHANGED <<turns, next_turn, approvals, next_approval, questions, snapshots,
                 interrupts, history>>

\* So is a call the guardian review denies.
GuardianDenies ==
  /\ NotInterrupted("calls")
  /\ drive.calls # <<>>
  /\ ~AsksUser(Head(drive.calls))
  /\ NeedsApproval(Head(drive.calls))
  /\ drive' = NextCall(drive)
  /\ emitted' = <<>>
  /\ UNCHANGED <<turns, next_turn, requests, snapshots, interrupts, history>>

\* persist_provider_replay_snapshot: only a direct provider has a transcript.
KeepTranscript ==
  IF drive.direct
  THEN /\ snapshots' = [snapshots EXCEPT ![drive.turn] =
                          [held |-> TRUE, unanswered |-> drive.unanswered]]
       /\ emitted' = <<SnapshotEvent(drive.turn, drive.unanswered)>>
  ELSE /\ emitted' = <<>>
       /\ UNCHANGED snapshots

\* The question goes into the map and the transcript is kept ...
AskUser ==
  /\ NotInterrupted("calls")
  /\ drive.calls # <<>>
  /\ AsksUser(Head(drive.calls))
  /\ next_question < MaxQuestions
  /\ next_question' = next_question + 1
  /\ questions' = [questions EXCEPT ![next_question + 1] =
                     [turn |-> drive.turn, call |-> Head(drive.calls), state |-> "open"]]
  /\ KeepTranscript
  /\ drive' = [drive EXCEPT !.at = "pausingForUser"]
  /\ UNCHANGED <<turns, next_turn, approvals, next_approval, interrupts, history>>

RequestToolApproval ==
  /\ NotInterrupted("calls")
  /\ drive.calls # <<>>
  /\ ~AsksUser(Head(drive.calls))
  /\ NeedsApproval(Head(drive.calls))
  /\ next_approval < MaxApprovals
  /\ next_approval' = next_approval + 1
  /\ approvals' = [approvals EXCEPT ![next_approval + 1] =
                     [turn |-> drive.turn, call |-> Head(drive.calls), outcome |-> "pending"]]
  /\ KeepTranscript
  /\ drive' = [drive EXCEPT !.at = "pausingForApproval"]
  /\ UNCHANGED <<turns, next_turn, questions, next_question, interrupts, history>>

\* ... then the turn waits, the request is announced and the driver returns.
PauseForUser ==
  /\ drive.at = "pausingForUser"
  /\ turns' = [turns EXCEPT ![drive.turn] = "waitingForUser"]
  /\ emitted' = <<RequestEvent("AskUserRequested", drive.turn, {next_question},
                               Head(drive.calls), "none")>>
  /\ drive' = IdleDrive
  /\ UNCHANGED <<next_turn, requests, snapshots, interrupts, history>>

PauseForApproval ==
  /\ drive.at = "pausingForApproval"
  /\ turns' = [turns EXCEPT ![drive.turn] = "waitingForApproval"]
  /\ emitted' = <<RequestEvent("ApprovalRequested", drive.turn, {next_approval},
                               Head(drive.calls), "none")>>
  /\ drive' = IdleDrive
  /\ UNCHANGED <<next_turn, requests, snapshots, interrupts, history>>

\* Every call is dealt with: results without a call abort the turn.
SettleStep ==
  /\ NotInterrupted("calls")
  /\ drive.calls = <<>>
  /\ drive.provided = {}
  /\ ValidTransition(drive.phase, "loop")
  /\ drive' = [drive EXCEPT !.at = "settled", !.phase = "loop"]
  /\ SetPhase(drive)
  /\ emitted' = <<>>
  /\ UNCHANGED <<next_turn, requests, snapshots, interrupts, history>>

ResultWithoutCall ==
  /\ NotInterrupted("calls")
  /\ drive.calls = <<>>
  /\ drive.provided # {}
  /\ EndAborted("TurnAborted")
  /\ UNCHANGED <<interrupts, history>>

Continue ==
  /\ NotInterrupted("settled")
  /\ ~drive.final
  /\ drive' = [drive EXCEPT !.at = "loop", !.continuation = @ + 1]
  /\ emitted' = <<>>
  /\ UNCHANGED <<turns, next_turn, requests, snapshots, interrupts, history>>

\* Mutant of Complete: the last look at the registry is left out.
CompleteAnyway ==
  /\ drive.at = "settled"
  /\ drive.final
  /\ turns' = [turns EXCEPT ![drive.turn] = "completed"]
  /\ snapshots' = [snapshots EXCEPT ![drive.turn] = NoSnapshot]
  /\ emitted' = <<TurnEvent("TurnCompleted", drive.turn)>>
  /\ drive' = IdleDrive
  /\ UNCHANGED <<next_turn, requests, interrupts, history>>

Complete ==
  /\ NotInterrupted("settled")
  /\ drive.final
  /\ turns' = [turns EXCEPT ![drive.turn] = "completed"]
  /\ snapshots' = [snapshots EXCEPT ![drive.turn] = NoSnapshot]
  /\ emitted' = <<TurnEvent("TurnCompleted", drive.turn)>>
  /\ drive' = IdleDrive
  /\ UNCHANGED <<next_turn, requests, interrupts, history>>

-----------------------------------------------------------------------------
(* Resuming a paused turn.                                                 *)

\* The newest approval of a turn, which is the one a client has on screen.
LatestCall(t) ==
  {approvals[a].call : a \in {b \in ApprovalId :
     approvals[b].turn = t /\ \A c \in ApprovalId : approvals[c].turn = t => c <= b}}

\* approved_tool_call_ids a client may send with a resume.
ResumeApprovals(t, q) ==
  IF "anyApproval" \in Unusual THEN SUBSET GatedCalls
  ELSE IF q = NoQuestion THEN {{}, LatestCall(t)} ELSE {{}}

\* The status and ownership checks; q is the question an answer names.
Resumable(t, q) ==
  IF q = NoQuestion
  THEN turns[t] = "waitingForApproval"
  ELSE /\ turns[t] = "waitingForUser"
       /\ questions[q].turn = t
       /\ questions[q].state = "open"

NewlyApproved(t, given) ==
  {a \in ApprovalId : /\ approvals[a].turn = t
                      /\ approvals[a].outcome = "pending"
                      /\ approvals[a].call \in given}

\* What a resume does before it has a provider: it resolves the question it
\* answers and the approvals it names, and takes the transcript.
ApplyResume(t, q, given) ==
  /\ questions' = IF q = NoQuestion THEN questions
                  ELSE [questions EXCEPT ![q].state = "resolved"]
  /\ approvals' = [a \in ApprovalId |->
                     IF a \in NewlyApproved(t, given)
                     THEN [approvals[a] EXCEPT !.outcome = "approved"]
                     ELSE approvals[a]]
  /\ snapshots' = [snapshots EXCEPT ![t] = NoSnapshot]
  /\ consented' = consented \cup given
  /\ emitted' =
       (IF q = NoQuestion THEN <<>>
        ELSE <<RequestEvent("AskUserResolved", t, {q}, NoCall, "none")>>) \o
       (IF NewlyApproved(t, given) = {} THEN <<>>
        ELSE <<RequestEvent("ApprovalResolved", t, NewlyApproved(t, given), NoCall,
                            "approved")>>)
  /\ UNCHANGED <<turns, next_turn, next_approval, next_question, interrupts,
                 issued, ran, reran>>

\* pending_approved_tool_calls: with a transcript at hand, every approved
\* call of the turn that the request names.
PendingCalls(t, given) ==
  IF snapshots[t].held
  THEN {a \in ApprovalId : /\ approvals[a].turn = t
                           /\ approvals[a].call \in given
                           /\ approvals[a].outcome \in {"pending", "approved"}}
  ELSE {}

ResumeAgenticTurn(t, q, given, provider) ==
  /\ Idle
  /\ Resumable(t, q)
  /\ ApplyResume(t, q, given)
  /\ drive' = [IdleDrive EXCEPT
       !.turn = t,
       !.at = IF PendingCalls(t, given) = {} THEN "loop" ELSE "pending",
       !.direct = snapshots[t].held \/ provider = "direct",
       !.approved = given,
       !.pending = PendingCalls(t, given),
       !.unanswered = IF q = NoQuestion THEN snapshots[t].unanswered
                      ELSE snapshots[t].unanswered \ {questions[q].call}]

\* model_provider refuses the resume after all of that is done.
ResumeRefused(t, q, given) ==
  /\ "conflictingProvider" \in Unusual
  /\ Idle
  /\ Resumable(t, q)
  /\ ApplyResume(t, q, given)
  /\ UNCHANGED drive

-----------------------------------------------------------------------------
(* The other requests about turns, approvals and questions.                *)

\* turn/interrupt while no turn is driven: Runtime::interrupt_turn.
InterruptTurn(t) ==
  /\ Idle
  /\ turns[t] \notin Terminal \cup {"absent"}
  /\ turns' = [turns EXCEPT ![t] = "aborted"]
  /\ snapshots' = [snapshots EXCEPT ![t] = NoSnapshot]
  /\ interrupts' = interrupts \ {t}
  /\ emitted' = <<TurnEvent("TurnInterrupted", t)>>
  /\ UNCHANGED <<next_turn, requests, drive, history>>

\* turn/interrupt while a background turn holds the mutex: the registry takes
\* the name of any turn, driven or not.
RequestInterrupt(t) ==
  /\ drive.background
  /\ turns[t] # "absent"
  /\ t \notin interrupts
  /\ interrupts' = interrupts \cup {t}
  /\ emitted' = <<>>
  /\ UNCHANGED <<turns, next_turn, requests, snapshots, drive, history>>

\* approval/request: an approval that belongs to no turn.
RequestApproval(c) ==
  /\ Idle
  /\ next_approval < MaxApprovals
  /\ next_approval' = next_approval + 1
  /\ approvals' = [approvals EXCEPT ![next_approval + 1] =
                     [turn |-> NoTurn, call |-> c, outcome |-> "pending"]]
  /\ emitted' = <<RequestEvent("ApprovalRequested", NoTurn, {next_approval + 1}, c, "none")>>
  /\ UNCHANGED <<turns, next_turn, questions, next_question, snapshots, interrupts,
                 drive, history>>

RespondApproval(a, decision) ==
  /\ Idle
  /\ approvals[a].outcome = "pending"
  /\ approvals' = [approvals EXCEPT ![a].outcome = decision]
  /\ consented' = IF decision = "approved" THEN consented \cup {approvals[a].call}
                  ELSE consented
  /\ emitted' = <<RequestEvent("ApprovalResolved", approvals[a].turn, {a}, NoCall, decision)>>
  /\ UNCHANGED <<turns, next_turn, next_approval, questions, next_question, snapshots,
                 interrupts, drive, issued, ran, reran>>

\* question/respond checks the thread of a question and nothing else.
RespondQuestion(q) ==
  /\ "answerOutOfBand" \in Unusual
  /\ Idle
  /\ questions[q].state = "open"
  /\ questions' = [questions EXCEPT ![q].state = "resolved"]
  /\ emitted' = <<RequestEvent("AskUserResolved", questions[q].turn, {q}, NoCall, "none")>>
  /\ UNCHANGED <<turns, next_turn, approvals, next_approval, next_question, snapshots,
                 interrupts, drive, history>>

-----------------------------------------------------------------------------

DriveStep ==
  \/ InterruptDrive
  \/ RunPendingCall
  \/ CancelDrive
  \/ GuardContinuation
  \/ CallModel
  \/ ModelFails
  \/ ModelAnswers
  \/ StreamStep
  \/ EnterTools
  \/ DuplicateResult
  \/ ExecuteCall
  \/ RejectQuestion
  \/ GuardianDenies
  \/ AskUser
  \/ RequestToolApproval
  \/ PauseForUser
  \/ PauseForApproval
  \/ SettleStep
  \/ ResultWithoutCall
  \/ Continue
  \/ Complete

Request ==
  \/ \E provider \in Providers, background \in BOOLEAN, first \in FirstApprovals :
       RunAgenticTurn(provider, background, first)
  \/ \E first \in FirstApprovals : RunAgenticTurnRefused(first)
  \/ \E t \in Turn, q \in QuestionId \cup {NoQuestion} :
       \E given \in ResumeApprovals(t, q) :
         \/ \E provider \in Providers : ResumeAgenticTurn(t, q, given, provider)
         \/ ResumeRefused(t, q, given)
  \/ \E t \in Turn : InterruptTurn(t) \/ RequestInterrupt(t)
  \/ \E c \in GatedCalls : RequestApproval(c)
  \/ \E a \in ApprovalId, decision \in {"approved", "denied"} : RespondApproval(a, decision)
  \/ \E q \in QuestionId : RespondQuestion(q)

Next == DriveStep \/ Request

Spec == Init /\ [][Next]_vars

\* The thread that drives a turn keeps running: a model request and a tool
\* both come back, at the latest when their timeout expires.
FairSpec == Spec /\ WF_vars(DriveStep)

-----------------------------------------------------------------------------
(* Properties.                                                             *)

\* A turn that shows as running is the one being driven: no way out of the
\* loop, and no error on the way in, leaves a running turn behind that nobody
\* will ever finish.
RunningTurnIsDriven == \A t \in Turn : turns[t] = "running" => drive.turn = t

\* A paused turn can be taken up again: its question is still open, and, when
\* turns talk to a provider, its transcript is kept and still lacks the answer
\* the pause is waiting for.
PausedTurnCanGoOn ==
  \A t \in Turn : turns[t] \in Waiting /\ drive.turn # t =>
    /\ turns[t] = "waitingForUser" =>
         \E q \in QuestionId :
           /\ questions[q].turn = t
           /\ questions[q].state = "open"
           /\ Providers = {"direct"} => questions[q].call \in snapshots[t].unanswered
    /\ turns[t] = "waitingForApproval" /\ Providers = {"direct"} =>
         LatestCall(t) # {} /\ LatestCall(t) \subseteq snapshots[t].unanswered

\* A transcript is kept for a paused turn, or one about to pause, and for no
\* other: restart recovery takes its presence as leave to keep the turn.
TranscriptOnlyWhilePaused ==
  \A t \in Turn : snapshots[t].held =>
    \/ turns[t] \in Waiting
    \/ drive.turn = t /\ drive.at \in {"pausingForUser", "pausingForApproval"}

\* A tool that needs an approval has run only if some client approved it.
GatedRunsOnlyWithConsent == ran \cap GatedCalls \subseteq consented

\* With such a provider no tool runs twice for one call, over any number of
\* pauses and resumes.
NoCallRunsTwice == reran = {}

\* Once an interrupt is requested no further tool of the turn starts and no
\* further model request goes out.
InterruptStopsWork ==
  [][drive.turn # NoTurn /\ drive.turn \in interrupts =>
       /\ ran' = ran
       /\ reran' = reran
       /\ drive.at # "model" => drive'.at # "model"]_vars

\* A turn that completed or was aborted stays so: no late answer, interrupt or
\* resume reopens it or changes how it ended.
TerminalIsFinal ==
  [][\A t \in Turn : turns[t] \in Terminal => turns'[t] = turns[t]]_vars

\* A driven turn whose interrupt is requested before it starts to pause ends up
\* aborted; it can neither pause nor complete.
InterruptedTurnAborts ==
  \A t \in Turn :
    /\ drive.turn = t
    /\ t \in interrupts
    /\ drive.at \notin {"pausingForUser", "pausingForApproval"}
    ~> turns[t] = "aborted"

\* The engine keeps the promises of TurnLifecycle: to a client, a turn under
\* the driver is running, whatever its record says on the way into a resume;
\* and a driver always gives the runtime back, the turn ended or waiting.
Lifecycle == INSTANCE TurnLifecycle
  WITH status <- [t \in Turn |-> IF drive.turn = t THEN "running" ELSE turns[t]],
       active <- drive.turn
KeepsLifecycle == Lifecycle!LiveSpec
=============================================================================
