------------------------------ MODULE TurnProofs ------------------------------
(***************************************************************************)
(* Theorems about the turns of the engine, for every value of the          *)
(* constants, proved with TLAPS.                                           *)
(*                                                                         *)
(* The first part is about AgenticTurn: one process that never stops.  The *)
(* second is about TurnRecovery: crashes, restarts, and the event files in *)
(* between.  It uses the types and the steps of the first.                 *)
(***************************************************************************)
EXTENDS TurnRecovery, SequenceTheorems, FiniteSetTheorems, TLAPS

USE DEF NoTurn, NoQuestion, Turn, ApprovalId, QuestionId

-----------------------------------------------------------------------------
(* Part one: AgenticTurn                                                   *)
-----------------------------------------------------------------------------
(* The inductive invariant of the type theorem.                            *)

\* An idle driver has nothing of an earlier drive; a busy one is somewhere in
\* its code; one about to pause still has the call it pauses for at hand; and
\* the calls a resume runs first have an approval behind them.
Shape ==
  /\ Idle => drive = IdleDrive
  /\ ~Idle => drive.at # "idle"
  /\ drive.at \in {"pausingForUser", "pausingForApproval"} => drive.calls # <<>>
  /\ \A a \in drive.pending : approvals[a].outcome # "absent"

TypeInv == TypeOK /\ Shape

LEMMA BoundsAreNat ==
  /\ MaxTurns \in Nat \ {0}
  /\ MaxApprovals \in Nat
  /\ MaxQuestions \in Nat
  /\ MaxContinuations \in Nat
  /\ MaxStepCalls \in Nat
BY BoundsAssumption

\* Events are events: the constructors stay in the type.
LEMMA TurnEventType ==
  ASSUME NEW k \in EventKind, NEW t \in Turn \cup {NoTurn}
  PROVE  /\ TurnEvent(k, t) \in Event
         /\ <<TurnEvent(k, t)>> \in Seq(Event)
BY DEF TurnEvent, Event

LEMMA RequestEventType ==
  ASSUME NEW k \in EventKind, NEW t \in Turn \cup {NoTurn}, NEW ids \in SUBSET Nat,
         NEW c \in Calls \cup {NoCall}, NEW o \in {"none", "approved", "denied"}
  PROVE  /\ RequestEvent(k, t, ids, c, o) \in Event
         /\ <<RequestEvent(k, t, ids, c, o)>> \in Seq(Event)
BY DEF TurnEvent, RequestEvent, Event

LEMMA SnapshotEventType ==
  ASSUME NEW t \in Turn \cup {NoTurn}, NEW open \in SUBSET Calls
  PROVE  <<SnapshotEvent(t, open)>> \in Seq(Event)
BY DEF TurnEvent, SnapshotEvent, Event, EventKind

\* The calls of a step are a sequence of calls.
LEMMA StepCallsType == StepCalls \subseteq Seq(Calls)
BY SeqDef, BoundsAreNat DEF StepCalls

LEMMA InitType == Init => TypeInv
BY BoundsAreNat DEF Init, TypeInv, TypeOK, Shape, Status, Approval, NoApproval, Question,
   NoQuestionAsked, Snapshot, NoSnapshot, Drive, IdleDrive, Phase, Place, Idle, Event,
   Terminal, Waiting

\* abort_agentic_turn and interrupt_agentic_turn keep the types.
LEMMA EndAbortedType ==
  ASSUME TypeInv, NEW kind \in EventKind, EndAborted(kind),
         issued' \subseteq Calls, consented' \subseteq Calls, ran' \subseteq Calls,
         reran' \subseteq ran', interrupts' \subseteq Turn
  PROVE  TypeInv'
<1>1. <<TurnEvent(kind, drive.turn)>> \in Seq(Event)
  BY TurnEventType DEF TypeInv, TypeOK, Drive
<1>2. IdleDrive \in Drive
  BY DEF IdleDrive, Drive, Place, Phase
<1>3. QED
  BY <1>1, <1>2 DEF EndAborted, TypeInv, TypeOK, Shape, Idle, IdleDrive, Status, Terminal,
     Snapshot, NoSnapshot, requests

\* execute_agentic_tool keeps the types.
LEMMA RunToolType ==
  ASSUME TypeInv, NEW c \in Calls, RunTool(c)
  PROVE  /\ issued' \subseteq Calls /\ consented' \subseteq Calls /\ ran' \subseteq Calls
         /\ reran' \subseteq ran'
BY DEF RunTool, TypeInv, TypeOK

LEMMA NextCallType ==
  ASSUME NEW d \in Drive, d.calls # <<>>
  PROVE  /\ NextCall(d) \in Drive
         /\ Head(d.calls) \in Calls
         /\ NextCall(d).turn = d.turn
         /\ NextCall(d).at = d.at
         /\ NextCall(d).pending = d.pending
<1>1. d.calls \in Seq(Calls) /\ Head(d.calls) \in Calls /\ Tail(d.calls) \in Seq(Calls)
  BY HeadTailProperties DEF Drive
<1>2. Observed(d, Head(d.calls)) \in Drive
  BY DEF Observed, Drive
<1>3. QED
  BY <1>1, <1>2 DEF NextCall, Observed, Drive

\* A step of the driver that touches its own state, the status of its turn and
\* the history keeps the types if these have theirs.
LEMMA DriveMoves ==
  ASSUME TypeInv, ~Idle,
         drive' \in Drive, drive'.turn = drive.turn, drive'.pending \subseteq drive.pending,
         drive'.at \notin {"idle", "pausingForUser", "pausingForApproval"},
         turns' \in [Turn -> Status], emitted' = <<>>,
         UNCHANGED <<next_turn, requests, snapshots, interrupts>>,
         issued' \subseteq Calls, consented' \subseteq Calls, ran' \subseteq Calls,
         reran' \subseteq ran'
  PROVE  TypeInv'
<1>1. TypeOK'
  BY DEF TypeInv, TypeOK, requests
<1>2. Shape'
  BY DEF TypeInv, Shape, Idle, requests
<1>3. QED
  BY <1>1, <1>2 DEF TypeInv

LEMMA SetPhaseType ==
  ASSUME TypeInv, SetPhase(drive)
  PROVE  turns' \in [Turn -> Status]
BY DEF SetPhase, TypeInv, TypeOK, Status

LEMMA KeepTranscriptType ==
  ASSUME TypeInv, KeepTranscript
  PROVE  snapshots' \in [Turn -> Snapshot] /\ emitted' \in Seq(Event)
<1>1. drive.turn \in Turn \cup {NoTurn} /\ drive.unanswered \in SUBSET Calls
  BY DEF TypeInv, TypeOK, Drive
<1>2. <<SnapshotEvent(drive.turn, drive.unanswered)>> \in Seq(Event)
  BY <1>1, SnapshotEventType
<1>3. [held |-> TRUE, unanswered |-> drive.unanswered] \in Snapshot
  BY <1>1 DEF Snapshot
<1>4. snapshots' \in [Turn -> Snapshot]
  <2>1. \/ snapshots' = snapshots
        \/ snapshots' = [snapshots EXCEPT ![drive.turn] =
                           [held |-> TRUE, unanswered |-> drive.unanswered]]
    BY Zenon DEF KeepTranscript
  <2>2. QED
    BY <1>3, <2>1 DEF TypeInv, TypeOK
<1>5. emitted' \in Seq(Event)
  <2>1. emitted' = <<>> \/ emitted' = <<SnapshotEvent(drive.turn, drive.unanswered)>>
    BY Zenon DEF KeepTranscript
  <2>2. <<>> \in Seq(Event)
    OBVIOUS
  <2>3. CASE emitted' = <<>>
    BY ONLY <2>2, <2>3
  <2>4. CASE emitted' = <<SnapshotEvent(drive.turn, drive.unanswered)>>
    BY ONLY <1>2, <2>4
  <2>5. QED
    BY <2>1, <2>3, <2>4
<1>6. QED
  BY <1>4, <1>5

LEMMA DriveStepType == TypeInv /\ DriveStep => TypeInv'
<1> SUFFICES ASSUME TypeInv, DriveStep PROVE TypeInv'
  OBVIOUS
<1> USE BoundsAreNat
<1>a. drive \in Drive /\ drive.turn \in Turn \cup {NoTurn}
  BY DEF TypeInv, TypeOK, Drive
<1>b. IdleDrive \in Drive
  BY DEF IdleDrive, Drive, Place, Phase
<1>c. <<>> \in Seq(Event)
  OBVIOUS
<1>1. CASE InterruptDrive
  BY <1>1, EndAbortedType DEF InterruptDrive, EventKind, history, TypeInv, TypeOK
<1>2. CASE RunPendingCall
  <2>1. PICK a \in drive.pending :
          /\ RunTool(approvals[a].call)
          /\ drive' = [Observed(drive, approvals[a].call)
                         EXCEPT !.pending = @ \ {a},
                                !.at = IF drive.pending = {a} THEN "loop" ELSE "pending"]
    BY <1>2 DEF RunPendingCall
  <2>2. approvals[a].call \in Calls
    <3>1. a \in ApprovalId /\ approvals[a].outcome # "absent"
      BY <1>a, <2>1 DEF TypeInv, TypeOK, Shape, Drive
    <3>2. approvals[a] \in Approval
      BY <3>1 DEF TypeInv, TypeOK
    <3>3. QED
      BY <3>1, <3>2 DEF Approval, NoApproval
  <2>3. /\ drive' \in Drive
        /\ drive'.turn = drive.turn
        /\ drive'.pending \subseteq drive.pending
        /\ drive'.at \in {"loop", "pending"}
    BY <1>a, <2>1, <2>2 DEF Observed, Drive, Place
  <2>4. ~Idle
    BY <1>2 DEF RunPendingCall, NotInterrupted, TypeInv, Shape, IdleDrive
  <2>5. QED
    BY <1>2, <2>1, <2>2, <2>3, <2>4, RunToolType, DriveMoves DEF RunPendingCall, TypeInv, TypeOK
<1>3. CASE CancelDrive
  BY <1>3, EndAbortedType DEF CancelDrive, EventKind, history, TypeInv, TypeOK
<1>4. CASE GuardContinuation
  BY <1>4, EndAbortedType DEF GuardContinuation, EventKind, history, TypeInv, TypeOK
<1>5. CASE CallModel
  <2>1. /\ drive' \in Drive
        /\ drive'.turn = drive.turn /\ drive'.pending = drive.pending /\ drive'.at = "model"
    BY <1>a, <1>5 DEF CallModel, Drive, Place, Phase
  <2>2. ~Idle
    BY <1>5 DEF CallModel, NotInterrupted, TypeInv, Shape, IdleDrive
  <2>3. QED
    BY <1>5, <2>1, <2>2, DriveMoves, SetPhaseType DEF CallModel, history, TypeInv, TypeOK
<1>6. CASE ModelFails
  BY <1>6, EndAbortedType DEF ModelFails, EventKind, history, TypeInv, TypeOK
<1>7. CASE ModelAnswers
  <2>1. PICK calls \in StepCalls, provided \in SUBSET Calls, duplicate \in BOOLEAN,
             final \in BOOLEAN :
          /\ drive' = [drive EXCEPT
                         !.at = "stepped", !.calls = calls, !.provided = provided,
                         !.duplicate = duplicate, !.final = final \/ calls = <<>>,
                         !.unanswered = IF drive.direct THEN @ \cup CallsOf(calls) ELSE @]
          /\ issued' = issued \cup CallsOf(calls)
    BY <1>7 DEF ModelAnswers
  <2>2. calls \in Seq(Calls) /\ CallsOf(calls) \subseteq Calls
    BY StepCallsType, ElementOfSeq DEF CallsOf
  <2>3. /\ drive' \in Drive
        /\ drive'.turn = drive.turn /\ drive'.pending = drive.pending /\ drive'.at = "stepped"
    BY <1>a, <2>1, <2>2 DEF Drive, Place
  <2>4. QED
    BY <1>7, <1>c, <2>1, <2>2, <2>3 DEF ModelAnswers, TypeInv, TypeOK, Shape, Idle,
       IdleDrive, requests
<1>8. CASE StreamStep
  <2>1. /\ drive' \in Drive
        /\ drive'.turn = drive.turn /\ drive'.pending = drive.pending /\ drive'.at = "streamed"
    BY <1>a, <1>8 DEF StreamStep, Drive, Place, Phase
  <2>2. ~Idle
    BY <1>8 DEF StreamStep, NotInterrupted, TypeInv, Shape, IdleDrive
  <2>3. QED
    BY <1>8, <2>1, <2>2, DriveMoves, SetPhaseType DEF StreamStep, history, TypeInv, TypeOK
<1>9. CASE EnterTools
  <2>1. /\ drive' \in Drive
        /\ drive'.turn = drive.turn /\ drive'.pending = drive.pending /\ drive'.at = "calls"
    BY <1>a, <1>9 DEF EnterTools, Drive, Place, Phase
  <2>2. ~Idle
    BY <1>9 DEF EnterTools, NotInterrupted, TypeInv, Shape, IdleDrive
  <2>3. QED
    BY <1>9, <2>1, <2>2, DriveMoves, SetPhaseType DEF EnterTools, history, TypeInv, TypeOK
<1>10. CASE DuplicateResult
  BY <1>10, EndAbortedType DEF DuplicateResult, EventKind, history, TypeInv, TypeOK
<1>11. CASE ExecuteCall
  <2>1. ~Idle /\ drive.at = "calls" /\ drive.calls # <<>>
    BY <1>11 DEF ExecuteCall, NotInterrupted, TypeInv, Shape, IdleDrive
  <2>2. /\ issued' \subseteq Calls /\ consented' \subseteq Calls /\ ran' \subseteq Calls
        /\ reran' \subseteq ran'
    BY <1>11, <1>a, <2>1, NextCallType, RunToolType DEF ExecuteCall, history, TypeInv, TypeOK
  <2>3. QED
    BY <1>11, <1>a, <1>c, <2>1, <2>2, NextCallType
       DEF ExecuteCall, TypeInv, TypeOK, Shape, Idle, requests
<1>12. CASE RejectQuestion
  BY <1>12, <1>a, <1>c, NextCallType
     DEF RejectQuestion, NotInterrupted, TypeInv, TypeOK, Shape, Idle, IdleDrive, history
<1>13. CASE GuardianDenies
  BY <1>13, <1>a, <1>c, NextCallType
     DEF GuardianDenies, NotInterrupted, TypeInv, TypeOK, Shape, Idle, IdleDrive, requests, history
<1>14. CASE AskUser
  <2>1. /\ ~Idle /\ drive.calls # <<>> /\ drive.turn \in Turn
        /\ Head(drive.calls) \in Calls
    BY <1>14, <1>a, NextCallType DEF AskUser, NotInterrupted, TypeInv, Shape, Idle, IdleDrive
  <2>2. /\ questions' \in [QuestionId -> Question]
        /\ next_question' \in 0..MaxQuestions
    BY <1>14, <2>1 DEF AskUser, TypeInv, TypeOK, Question
  <2>3. snapshots' \in [Turn -> Snapshot] /\ emitted' \in Seq(Event)
    BY <1>14, KeepTranscriptType DEF AskUser
  <2>4. /\ drive' \in Drive
        /\ drive'.turn = drive.turn /\ drive'.pending = drive.pending
        /\ drive'.at = "pausingForUser" /\ drive'.calls = drive.calls
    BY <1>14, <1>a DEF AskUser, Drive, Place
  <2>5. QED
    BY <1>14, <2>1, <2>2, <2>3, <2>4 DEF AskUser, TypeInv, TypeOK, Shape, Idle, history
<1>15. CASE RequestToolApproval
  <2>1. /\ ~Idle /\ drive.calls # <<>> /\ drive.turn \in Turn
        /\ Head(drive.calls) \in Calls
    BY <1>15, <1>a, NextCallType
       DEF RequestToolApproval, NotInterrupted, TypeInv, Shape, Idle, IdleDrive
  <2>2. /\ approvals' \in [ApprovalId -> Approval]
        /\ next_approval' \in 0..MaxApprovals
        /\ \A a \in ApprovalId : approvals[a].outcome # "absent" => approvals'[a].outcome # "absent"
    BY <1>15, <2>1 DEF RequestToolApproval, TypeInv, TypeOK, Approval
  <2>3. snapshots' \in [Turn -> Snapshot] /\ emitted' \in Seq(Event)
    BY <1>15, KeepTranscriptType DEF RequestToolApproval
  <2>4. /\ drive' \in Drive
        /\ drive'.turn = drive.turn /\ drive'.pending = drive.pending
        /\ drive'.pending \subseteq ApprovalId
        /\ drive'.at = "pausingForApproval" /\ drive'.calls = drive.calls
    BY <1>15, <1>a DEF RequestToolApproval, Drive, Place
  <2>5. QED
    BY <1>15, <2>1, <2>2, <2>3, <2>4 DEF RequestToolApproval, TypeInv, TypeOK, Shape, Idle, history
<1>16. CASE PauseForUser
  <2>1. Head(drive.calls) \in Calls /\ {next_question} \in SUBSET Nat
    BY <1>16, <1>a, NextCallType DEF PauseForUser, TypeInv, TypeOK, Shape
  <2>2. emitted' \in Seq(Event)
    BY <1>16, <1>a, <2>1, RequestEventType DEF PauseForUser, EventKind
  <2>3. QED
    BY <1>16, <1>b, <2>2 DEF PauseForUser, TypeInv, TypeOK, Shape, Idle, IdleDrive, Status,
       Waiting, requests, history
<1>17. CASE PauseForApproval
  <2>1. Head(drive.calls) \in Calls /\ {next_approval} \in SUBSET Nat
    BY <1>17, <1>a, NextCallType DEF PauseForApproval, TypeInv, TypeOK, Shape
  <2>2. emitted' \in Seq(Event)
    BY <1>17, <1>a, <2>1, RequestEventType DEF PauseForApproval, EventKind
  <2>3. QED
    BY <1>17, <1>b, <2>2 DEF PauseForApproval, TypeInv, TypeOK, Shape, Idle, IdleDrive, Status,
       Waiting, requests, history
<1>18. CASE SettleStep
  <2>1. /\ drive' \in Drive
        /\ drive'.turn = drive.turn /\ drive'.pending = drive.pending /\ drive'.at = "settled"
    BY <1>a, <1>18 DEF SettleStep, Drive, Place, Phase
  <2>2. ~Idle
    BY <1>18 DEF SettleStep, NotInterrupted, TypeInv, Shape, IdleDrive
  <2>3. QED
    BY <1>18, <2>1, <2>2, DriveMoves, SetPhaseType DEF SettleStep, history, TypeInv, TypeOK
<1>19. CASE ResultWithoutCall
  BY <1>19, EndAbortedType DEF ResultWithoutCall, EventKind, history, TypeInv, TypeOK
<1>20. CASE Continue
  <2>1. drive.continuation + 1 \in Nat
    BY <1>a DEF Drive
  <2>2. /\ drive' = [drive EXCEPT !.at = "loop", !.continuation = drive.continuation + 1]
        /\ drive.at = "settled"
    BY <1>20 DEF Continue, NotInterrupted
  <2>3. /\ drive' \in Drive
        /\ drive'.turn = drive.turn /\ drive'.pending = drive.pending /\ drive'.at = "loop"
    BY <1>a, <2>1, <2>2 DEF Drive, Place
  <2>4. ~Idle
    BY <2>2 DEF TypeInv, Shape, IdleDrive
  <2>5. QED
    BY <1>20, <2>3, <2>4, DriveMoves DEF Continue, history, TypeInv, TypeOK
<1>21. CASE Complete
  <2>1. <<TurnEvent("TurnCompleted", drive.turn)>> \in Seq(Event)
    BY <1>a, TurnEventType DEF EventKind
  <2>2. QED
    BY <1>21, <1>b, <2>1 DEF Complete, TypeInv, TypeOK, Shape, Idle, IdleDrive, Status,
       Terminal, Snapshot, NoSnapshot, requests, history
<1>22. QED
  BY <1>1, <1>2, <1>3, <1>4, <1>5, <1>6, <1>7, <1>8, <1>9, <1>10, <1>11, <1>12, <1>13,
     <1>14, <1>15, <1>16, <1>17, <1>18, <1>19, <1>20, <1>21 DEF DriveStep

-----------------------------------------------------------------------------
(* The requests keep the types.                                            *)

LEMMA FirstApprovalsType ==
  \A first \in FirstApprovals : first \subseteq Calls
BY CallsAssumption DEF FirstApprovals

LEMMA ResumeApprovalsType ==
  ASSUME TypeInv, NEW t \in Turn, NEW q \in QuestionId \cup {NoQuestion},
         NEW given \in ResumeApprovals(t, q)
  PROVE  given \subseteq Calls
<1>1. LatestCall(t) \subseteq Calls
  BY BoundsAreNat DEF LatestCall, TypeInv, TypeOK, Approval, NoApproval
<1>2. QED
  BY <1>1, CallsAssumption DEF ResumeApprovals

LEMMA StartTurnType ==
  ASSUME TypeInv, next_turn < MaxTurns, NEW first \in SUBSET Calls,
         StartTurn(next_turn + 1, first), drive' \in Drive, Shape'
  PROVE  TypeInv'
<1>1. next_turn + 1 \in Turn
  BY BoundsAreNat DEF TypeInv, TypeOK
<1>2. <<TurnEvent("TurnStarted", next_turn + 1)>> \in Seq(Event)
  BY <1>1, TurnEventType DEF EventKind
<1>3. QED
  BY <1>1, <1>2, BoundsAreNat DEF StartTurn, TypeInv, TypeOK, Status, requests

LEMMA ApplyResumeType ==
  ASSUME TypeInv, NEW t \in Turn, NEW q \in QuestionId \cup {NoQuestion},
         NEW given \in SUBSET Calls, ApplyResume(t, q, given), Resumable(t, q), drive' \in Drive
  PROVE  /\ TypeOK'
         /\ \A a \in ApprovalId : approvals[a].outcome # "absent" => approvals'[a].outcome # "absent"
<1>1. questions' \in [QuestionId -> Question]
  <2>1. CASE q = NoQuestion
    BY <2>1 DEF ApplyResume, TypeInv, TypeOK
  <2>2. CASE q # NoQuestion
    <3>1. questions' = [questions EXCEPT ![q].state = "resolved"] /\ q \in QuestionId
      BY <2>2 DEF ApplyResume
    <3>2. questions[q] \in [turn : Turn, call : Calls, state : {"open", "resolved"}]
      BY <2>2, <3>1 DEF Resumable, TypeInv, TypeOK, Question, NoQuestionAsked
    <3>3. [questions[q] EXCEPT !.state = "resolved"] \in Question
      BY <3>2 DEF Question
    <3>4. QED
      BY <3>1, <3>3 DEF TypeInv, TypeOK
  <2>3. QED
    BY <2>1, <2>2
<1>2. /\ approvals' \in [ApprovalId -> Approval]
      /\ \A a \in ApprovalId : approvals[a].outcome # "absent" => approvals'[a].outcome # "absent"
  <2>1. approvals' = [a \in ApprovalId |->
                       IF a \in NewlyApproved(t, given)
                       THEN [approvals[a] EXCEPT !.outcome = "approved"]
                       ELSE approvals[a]]
    BY DEF ApplyResume
  <2>2. ASSUME NEW a \in ApprovalId, a \in NewlyApproved(t, given)
        PROVE  [approvals[a] EXCEPT !.outcome = "approved"] \in Approval
    BY <2>2 DEF NewlyApproved, TypeInv, TypeOK, Approval, NoApproval
  <2>3. ASSUME NEW a \in ApprovalId
        PROVE  /\ approvals'[a] \in Approval
               /\ approvals[a].outcome # "absent" => approvals'[a].outcome # "absent"
    <3>1. CASE a \in NewlyApproved(t, given)
      <4>1. approvals'[a] = [approvals[a] EXCEPT !.outcome = "approved"]
        BY <2>1, <3>1
      <4>2. approvals[a] \in [turn : Turn \cup {NoTurn}, call : Calls,
                              outcome : {"pending", "approved", "denied", "cancelled"}]
        BY <3>1 DEF NewlyApproved, TypeInv, TypeOK, Approval, NoApproval
      <4>3. QED
        BY <4>1, <4>2, <2>2, <3>1
    <3>2. CASE a \notin NewlyApproved(t, given)
      BY <2>1, <3>2 DEF TypeInv, TypeOK
    <3>3. QED
      BY <3>1, <3>2
  <2>4. QED
    BY <2>1, <2>3
<1>3. emitted' \in Seq(Event)
  <2>1. /\ {q} \in SUBSET Nat
        /\ NewlyApproved(t, given) \in SUBSET Nat
    BY BoundsAreNat DEF NewlyApproved
  <2> DEFINE first == IF q = NoQuestion THEN <<>>
                      ELSE <<RequestEvent("AskUserResolved", t, {q}, NoCall, "none")>>
             second == IF NewlyApproved(t, given) = {} THEN <<>>
                       ELSE <<RequestEvent("ApprovalResolved", t, NewlyApproved(t, given),
                                           NoCall, "approved")>>
  <2>2. first \in Seq(Event)
    BY <2>1, RequestEventType DEF EventKind
  <2>3. second \in Seq(Event)
    BY <2>1, RequestEventType DEF EventKind
  <2>4. emitted' = first \o second
    BY DEF ApplyResume
  <2> HIDE DEF first, second
  <2>5. QED
    BY <2>2, <2>3, <2>4, ConcatProperties
<1>4. snapshots' \in [Turn -> Snapshot]
  BY DEF ApplyResume, TypeInv, TypeOK, Snapshot, NoSnapshot
<1>5. QED
  BY <1>1, <1>2, <1>3, <1>4 DEF ApplyResume, TypeInv, TypeOK

LEMMA RequestType == TypeInv /\ Request => TypeInv'
<1> SUFFICES ASSUME TypeInv, Request PROVE TypeInv'
  OBVIOUS
<1> USE BoundsAreNat
<1>a. drive \in Drive /\ IdleDrive \in Drive /\ <<>> \in Seq(Event)
  BY DEF TypeInv, TypeOK, IdleDrive, Drive, Place, Phase
<1>1. ASSUME NEW provider \in Providers, NEW background \in BOOLEAN,
             NEW first \in FirstApprovals, RunAgenticTurn(provider, background, first)
      PROVE  TypeInv'
  <2>1. next_turn + 1 \in Turn /\ first \in SUBSET Calls
    BY <1>1, FirstApprovalsType DEF RunAgenticTurn, TypeInv, TypeOK
  <2>x. (provider = "direct") \in BOOLEAN
    BY Zenon
  <2>2. PICK direct \in BOOLEAN :
          drive' = [IdleDrive EXCEPT !.turn = next_turn + 1, !.at = "loop",
                                     !.background = background,
                                     !.direct = direct,
                                     !.phase = "system", !.approved = first]
    BY <1>1, <2>x, Zenon DEF RunAgenticTurn
  <2>3. drive' \in Drive
    BY <1>a, <2>1, <2>2 DEF Drive, Place, Phase
  <2>4. Shape'
    BY <2>1, <2>2 DEF Shape, Idle, IdleDrive
  <2>5. QED
    BY <1>1, <2>1, <2>3, <2>4, StartTurnType DEF RunAgenticTurn
<1>2. ASSUME NEW first \in FirstApprovals, RunAgenticTurnRefused(first)
      PROVE  TypeInv'
  <2>1. first \in SUBSET Calls
    BY FirstApprovalsType
  <2>2. Shape'
    BY <1>2 DEF RunAgenticTurnRefused, StartTurn, TypeInv, Shape, Idle, IdleDrive, requests
  <2>3. QED
    BY <1>2, <1>a, <2>1, <2>2, StartTurnType DEF RunAgenticTurnRefused
<1>3. ASSUME NEW t \in Turn, NEW q \in QuestionId \cup {NoQuestion},
             NEW given \in ResumeApprovals(t, q), NEW provider \in Providers,
             ResumeAgenticTurn(t, q, given, provider)
      PROVE  TypeInv'
  <2>1. given \in SUBSET Calls
    BY ResumeApprovalsType
  <2> DEFINE at == IF PendingCalls(t, given) = {} THEN "loop" ELSE "pending"
             unanswered == IF q = NoQuestion THEN snapshots[t].unanswered
                           ELSE snapshots[t].unanswered \ {questions[q].call}
  <2>x. (snapshots[t].held \/ provider = "direct") \in BOOLEAN
    BY Zenon
  <2>2. PICK direct \in BOOLEAN :
          drive' = [IdleDrive EXCEPT !.turn = t, !.at = at, !.direct = direct,
                                     !.approved = given, !.pending = PendingCalls(t, given),
                                     !.unanswered = unanswered]
    BY <1>3, <2>x, Zenon DEF ResumeAgenticTurn, at, unanswered
  <2>3. PendingCalls(t, given) \in SUBSET ApprovalId
    BY DEF PendingCalls
  <2>4. at \in {"loop", "pending"} /\ unanswered \in SUBSET Calls
    BY DEF TypeInv, TypeOK, Snapshot
  <2> HIDE DEF at, unanswered
  <2>5. drive' \in Drive
    BY <1>a, <2>1, <2>2, <2>3, <2>4 DEF Drive, Place, Phase
  <2>6. /\ drive'.turn = t /\ drive'.at \in {"loop", "pending"}
        /\ drive'.pending = PendingCalls(t, given)
    BY <2>2, <2>4 DEF IdleDrive
  <2>7. \A a \in PendingCalls(t, given) : approvals[a].outcome # "absent"
    BY DEF PendingCalls
  <2>8. /\ TypeOK'
        /\ \A a \in ApprovalId : approvals[a].outcome # "absent" => approvals'[a].outcome # "absent"
    <3>1. ApplyResume(t, q, given) /\ Resumable(t, q)
      BY <1>3 DEF ResumeAgenticTurn
    <3>2. TypeOK'
      BY <2>1, <2>5, <3>1, ApplyResumeType
    <3>3. \A a \in ApprovalId : approvals[a].outcome # "absent" => approvals'[a].outcome # "absent"
      BY <2>1, <2>5, <3>1, ApplyResumeType
    <3>4. QED
      BY <3>2, <3>3
  <2>9. QED
    BY <2>3, <2>6, <2>7, <2>8 DEF TypeInv, Shape, Idle
<1>4. ASSUME NEW t \in Turn, NEW q \in QuestionId \cup {NoQuestion},
             NEW given \in ResumeApprovals(t, q), ResumeRefused(t, q, given)
      PROVE  TypeInv'
  <2>1. given \in SUBSET Calls
    BY ResumeApprovalsType
  <2>2. drive' = drive /\ drive = IdleDrive
    BY <1>4 DEF ResumeRefused, TypeInv, Shape
  <2>3. TypeOK'
    BY <1>4, <1>a, <2>1, <2>2, ApplyResumeType DEF ResumeRefused
  <2>4. QED
    BY <2>2, <2>3 DEF TypeInv, Shape, Idle, IdleDrive
<1>5. ASSUME NEW t \in Turn, InterruptTurn(t)
      PROVE  TypeInv'
  <2>1. <<TurnEvent("TurnInterrupted", t)>> \in Seq(Event)
    BY TurnEventType DEF EventKind
  <2>2. QED
    BY <1>5, <2>1 DEF InterruptTurn, TypeInv, TypeOK, Shape, Idle, Status, Terminal, Snapshot,
       NoSnapshot, requests, history
<1>6. ASSUME NEW t \in Turn, RequestInterrupt(t)
      PROVE  TypeInv'
  BY <1>6, <1>a DEF RequestInterrupt, TypeInv, TypeOK, Shape, Idle, requests, history
<1>7. ASSUME NEW c \in GatedCalls, RequestApproval(c)
      PROVE  TypeInv'
  <2>1. next_approval + 1 \in ApprovalId /\ c \in Calls
    BY <1>7, CallsAssumption DEF RequestApproval, TypeInv, TypeOK
  <2>2. emitted' \in Seq(Event)
    BY <1>7, <2>1, RequestEventType DEF RequestApproval, EventKind
  <2>3. [turn |-> NoTurn, call |-> c, outcome |-> "pending"] \in Approval
    BY <2>1 DEF Approval
  <2>4. drive' = drive /\ drive = IdleDrive
    BY <1>7 DEF RequestApproval, TypeInv, Shape
  <2>5. TypeOK'
    BY <1>7, <2>1, <2>2, <2>3 DEF RequestApproval, TypeInv, TypeOK, history
  <2>6. QED
    BY <2>4, <2>5 DEF TypeInv, Shape, Idle, IdleDrive
<1>8. ASSUME NEW a \in ApprovalId, NEW decision \in {"approved", "denied"},
             RespondApproval(a, decision)
      PROVE  TypeInv'
  <2>1. approvals[a] \in [turn : Turn \cup {NoTurn}, call : Calls,
                          outcome : {"pending", "approved", "denied", "cancelled"}]
    BY <1>8 DEF RespondApproval, TypeInv, TypeOK, Approval, NoApproval
  <2>2. [approvals[a] EXCEPT !.outcome = decision] \in Approval
    BY <2>1 DEF Approval
  <2>3. approvals' \in [ApprovalId -> Approval]
    <3>1. approvals' = [approvals EXCEPT ![a] = [approvals[a] EXCEPT !.outcome = decision]]
      BY <1>8 DEF RespondApproval
    <3>2. QED
      BY <2>2, <3>1 DEF TypeInv, TypeOK
  <2>4. {a} \in SUBSET Nat
    OBVIOUS
  <2>5. emitted' \in Seq(Event)
    BY <1>8, <2>1, <2>4, RequestEventType DEF RespondApproval, EventKind
  <2>6. consented' \subseteq Calls
    BY <1>8, <2>1 DEF RespondApproval, TypeInv, TypeOK
  <2>7. drive' = drive /\ drive = IdleDrive
    BY <1>8 DEF RespondApproval, TypeInv, Shape
  <2>8. TypeOK'
    BY <1>8, <2>3, <2>5, <2>6 DEF RespondApproval, TypeInv, TypeOK
  <2>9. QED
    BY <2>7, <2>8 DEF TypeInv, Shape, Idle, IdleDrive
<1>9. ASSUME NEW q \in QuestionId, RespondQuestion(q)
      PROVE  TypeInv'
  <2>1. questions[q] \in [turn : Turn, call : Calls, state : {"open", "resolved"}]
    BY <1>9 DEF RespondQuestion, TypeInv, TypeOK, Question, NoQuestionAsked
  <2>2. [questions[q] EXCEPT !.state = "resolved"] \in Question
    BY <2>1 DEF Question
  <2>3. questions' \in [QuestionId -> Question]
    <3>1. questions' = [questions EXCEPT ![q] = [questions[q] EXCEPT !.state = "resolved"]]
      BY <1>9 DEF RespondQuestion
    <3>2. QED
      BY <2>2, <3>1 DEF TypeInv, TypeOK
  <2>4. {q} \in SUBSET Nat
    OBVIOUS
  <2>5. emitted' \in Seq(Event)
    BY <1>9, <2>1, <2>4, RequestEventType DEF RespondQuestion, EventKind
  <2>6. QED
    BY <1>9, <2>3, <2>5 DEF RespondQuestion, TypeInv, TypeOK, Shape, Idle, history
<1>10. QED
  BY <1>1, <1>2, <1>3, <1>4, <1>5, <1>6, <1>7, <1>8, <1>9 DEF Request

\* TypeOK: every record the engine keeps is of its kind at all times, the
\* driver's locals included.
THEOREM TypeCorrect == Spec => []TypeOK
<1>1. TypeInv /\ UNCHANGED vars => TypeInv'
  BY DEF TypeInv, TypeOK, Shape, Idle, vars, requests, history
<1>2. TypeInv /\ [Next]_vars => TypeInv'
  BY <1>1, DriveStepType, RequestType DEF Next
<1>3. TypeInv => TypeOK
  BY DEF TypeInv
<1>4. QED
  BY InitType, <1>2, <1>3, PTL DEF Spec

-----------------------------------------------------------------------------
(* Turns and transcripts.                                                  *)

Pausing == {"pausingForUser", "pausingForApproval"}

\* The turns started are the first next_turn; the one driven has not ended; and
\* a transcript is kept for a paused turn, which is not driven, or for the
\* driven turn between the two halves of its pause.
Control ==
  /\ \A t \in Turn : turns[t] = "absent" <=> t > next_turn
  /\ ~Idle => turns[drive.turn] \in {"running"} \cup Waiting
  /\ \A t \in Turn : snapshots[t].held =>
       \/ turns[t] \in Waiting /\ drive.turn # t
       \/ drive.turn = t /\ drive.at \in Pausing

LEMMA InitControl == Init => Control
BY BoundsAreNat DEF Init, Control, Idle, IdleDrive, NoSnapshot

LEMMA EndAbortedControl ==
  ASSUME TypeInv, Control, ~Idle, NEW kind, EndAborted(kind)
  PROVE  Control'
BY BoundsAreNat DEF EndAborted, TypeInv, TypeOK, Control, Idle, IdleDrive, Status, Waiting,
   Terminal, NoSnapshot, Pausing, Drive

\* A step inside the loop, away from a pause.
LEMMA LoopControl ==
  ASSUME TypeInv, Control, ~Idle,
         drive.at \notin Pausing, drive'.turn = drive.turn, drive'.at \notin Pausing,
         turns' = turns \/ SetPhase(drive), UNCHANGED <<next_turn, snapshots>>
  PROVE  Control'
BY BoundsAreNat DEF SetPhase, TypeInv, TypeOK, Control, Idle, Waiting, Drive

\* The first half of a pause.
LEMMA KeepControl ==
  ASSUME TypeInv, Control, ~Idle, KeepTranscript,
         drive'.turn = drive.turn, drive'.at \in Pausing, UNCHANGED <<turns, next_turn>>
  PROVE  Control'
<1>1. \A t \in Turn : snapshots'[t].held => snapshots[t].held \/ t = drive.turn
  <2>1. \/ snapshots' = snapshots
        \/ snapshots' = [snapshots EXCEPT ![drive.turn] =
                           [held |-> TRUE, unanswered |-> drive.unanswered]]
    BY Zenon DEF KeepTranscript
  <2>2. QED
    BY <2>1 DEF TypeInv, TypeOK
<1>2. QED
  BY <1>1 DEF Control, Idle

\* The second half of a pause.
LEMMA PauseControl ==
  ASSUME TypeInv, Control, ~Idle, drive.at \in Pausing, NEW w \in Waiting,
         turns' = [turns EXCEPT ![drive.turn] = w], drive' = IdleDrive,
         UNCHANGED <<next_turn, snapshots>>
  PROVE  Control'
BY BoundsAreNat DEF TypeInv, TypeOK, Control, Idle, IdleDrive, Waiting, Drive

LEMMA DriveStepControl == TypeInv /\ Control /\ DriveStep => Control'
<1> SUFFICES ASSUME TypeInv, Control, DriveStep PROVE Control'
  OBVIOUS
<1>a. drive \in Drive
  BY DEF TypeInv, TypeOK
<1>b. ~Idle
  <2>1. drive.at # "idle"
    BY Zenon DEF DriveStep, InterruptDrive, RunPendingCall, CancelDrive, GuardContinuation,
       CallModel, ModelFails, ModelAnswers, StreamStep, EnterTools, DuplicateResult, ExecuteCall,
       RejectQuestion, GuardianDenies, AskUser, RequestToolApproval, PauseForUser,
       PauseForApproval, SettleStep, ResultWithoutCall, Continue, Complete, NotInterrupted
  <2>2. QED
    BY <2>1 DEF TypeInv, Shape, IdleDrive
<1>1. CASE \/ InterruptDrive \/ CancelDrive \/ GuardContinuation \/ ModelFails
           \/ DuplicateResult \/ ResultWithoutCall
  BY <1>1, <1>b, EndAbortedControl
     DEF InterruptDrive, CancelDrive, GuardContinuation, ModelFails, DuplicateResult,
         ResultWithoutCall
<1>2. CASE RunPendingCall
  <2>1. drive'.turn = drive.turn /\ drive.at \notin Pausing /\ drive'.at \notin Pausing
    BY <1>2, <1>a DEF RunPendingCall, NotInterrupted, Observed, Pausing, Drive
  <2>2. QED
    BY <1>2, <1>b, <2>1, LoopControl DEF RunPendingCall
<1>3. CASE CallModel \/ StreamStep \/ EnterTools \/ SettleStep \/ Continue \/ ModelAnswers
  <2>1. drive'.turn = drive.turn /\ drive.at \notin Pausing /\ drive'.at \notin Pausing
    BY <1>3, <1>a DEF CallModel, StreamStep, EnterTools, SettleStep, Continue, ModelAnswers,
       NotInterrupted, Pausing, Drive
  <2>2. QED
    BY <1>3, <1>b, <2>1, LoopControl
       DEF CallModel, StreamStep, EnterTools, SettleStep, Continue, ModelAnswers
<1>4. CASE ExecuteCall \/ RejectQuestion \/ GuardianDenies
  <2>1. drive'.turn = drive.turn /\ drive.at \notin Pausing /\ drive'.at \notin Pausing
    BY <1>4, <1>a, NextCallType DEF ExecuteCall, RejectQuestion, GuardianDenies, NotInterrupted, Pausing
  <2>2. QED
    BY <1>4, <1>b, <2>1, LoopControl DEF ExecuteCall, RejectQuestion, GuardianDenies
<1>5. CASE AskUser \/ RequestToolApproval
  <2>1. drive'.turn = drive.turn /\ drive'.at \in Pausing
    BY <1>5, <1>a DEF AskUser, RequestToolApproval, Pausing, Drive
  <2>2. QED
    BY <1>5, <1>b, <2>1, KeepControl DEF AskUser, RequestToolApproval
<1>6. CASE PauseForUser \/ PauseForApproval
  BY <1>6, <1>b, PauseControl DEF PauseForUser, PauseForApproval, Pausing, Waiting
<1>7. CASE Complete
  BY <1>7, <1>b, BoundsAreNat
     DEF Complete, TypeInv, TypeOK, Control, Idle, IdleDrive, Waiting, NoSnapshot, Pausing
<1>8. QED
  BY <1>1, <1>2, <1>3, <1>4, <1>5, <1>6, <1>7 DEF DriveStep

LEMMA RequestControl == TypeInv /\ Control /\ Request => Control'
<1> SUFFICES ASSUME TypeInv, Control, Request PROVE Control'
  OBVIOUS
<1> USE BoundsAreNat
<1>a. Idle => drive = IdleDrive
  BY DEF TypeInv, Shape
<1>1. ASSUME NEW provider \in Providers, NEW background \in BOOLEAN,
             NEW first \in FirstApprovals, RunAgenticTurn(provider, background, first)
      PROVE  Control'
  <2>1. drive'.turn = next_turn + 1
    BY <1>1 DEF RunAgenticTurn, IdleDrive
  <2>2. QED
    BY <1>1, <2>1 DEF RunAgenticTurn, StartTurn, TypeInv, TypeOK, Control, Idle, Waiting, Pausing
<1>2. ASSUME NEW first \in FirstApprovals, RunAgenticTurnRefused(first)
      PROVE  Control'
  BY <1>2 DEF RunAgenticTurnRefused, StartTurn, TypeInv, TypeOK, Control, Idle, Waiting, Pausing
<1>3. ASSUME NEW t \in Turn, NEW q \in QuestionId \cup {NoQuestion},
             NEW given \in ResumeApprovals(t, q), NEW provider \in Providers,
             ResumeAgenticTurn(t, q, given, provider)
      PROVE  Control'
  <2>1. drive'.turn = t /\ drive'.at \notin Pausing
    BY <1>3 DEF ResumeAgenticTurn, IdleDrive, Pausing
  <2>2. turns[t] \in Waiting /\ turns' = turns /\ next_turn' = next_turn
        /\ snapshots' = [snapshots EXCEPT ![t] = NoSnapshot]
    BY <1>3 DEF ResumeAgenticTurn, Resumable, ApplyResume, Waiting
  <2>3. Idle
    BY <1>3 DEF ResumeAgenticTurn
  <2>4. QED
    BY <1>a, <2>1, <2>2, <2>3
       DEF TypeInv, TypeOK, Control, Idle, IdleDrive, Waiting, Pausing, NoSnapshot
<1>4. ASSUME NEW t \in Turn, NEW q \in QuestionId \cup {NoQuestion},
             NEW given \in ResumeApprovals(t, q), ResumeRefused(t, q, given)
      PROVE  Control'
  BY <1>4 DEF ResumeRefused, ApplyResume, TypeInv, TypeOK, Control, Idle, Waiting, Pausing,
     NoSnapshot
<1>5. ASSUME NEW t \in Turn, InterruptTurn(t)
      PROVE  Control'
  BY <1>5 DEF InterruptTurn, TypeInv, TypeOK, Control, Idle, Waiting, Pausing, NoSnapshot
<1>6. ASSUME UNCHANGED <<turns, next_turn, snapshots, drive>>
      PROVE  Control'
  BY <1>6 DEF Control, Idle
<1>7. QED
  BY <1>1, <1>2, <1>3, <1>4, <1>5, <1>6
     DEF Request, RequestInterrupt, RequestApproval, RespondApproval, RespondQuestion

LEMMA ControlInvariant == Spec => [](TypeInv /\ Control)
<1>1. TypeInv /\ Control /\ UNCHANGED vars => (TypeInv /\ Control)'
  BY DEF TypeInv, TypeOK, Shape, Control, Idle, vars, requests, history
<1>2. TypeInv /\ Control /\ [Next]_vars => (TypeInv /\ Control)'
  BY <1>1, DriveStepType, RequestType, DriveStepControl, RequestControl DEF Next
<1>3. QED
  BY InitType, InitControl, <1>2, PTL DEF Spec

\* TranscriptOnlyWhilePaused: the transcript drive_agentic_turn keeps is gone
\* as soon as its turn is driven again or ends, however it ends.
THEOREM TranscriptCorrect == Spec => []TranscriptOnlyWhilePaused
<1>1. Control => TranscriptOnlyWhilePaused
  BY DEF Control, TranscriptOnlyWhilePaused, Pausing
<1>2. QED
  BY ControlInvariant, <1>1, PTL

-----------------------------------------------------------------------------
(* The turns seen from outside: TurnLifecycle is implemented.              *)

\* What a client is told of the turns: the status TurnLifecycle speaks of.
Shown == [t \in Turn |-> IF drive.turn = t THEN "running" ELSE turns[t]]

\* A turn changes its status and the others keep theirs.
LEMMA ShownSet ==
  ASSUME TypeInv, NEW t \in Turn, NEW s,
         IF drive'.turn = t THEN s = "running" ELSE turns'[t] = s,
         \A u \in Turn \ {t} : /\ drive.turn # u /\ drive'.turn # u
                              /\ turns'[u] = turns[u]
  PROVE  Shown' = [Shown EXCEPT ![t] = s]
<1>1. \A u \in Turn : Shown'[u] = [Shown EXCEPT ![t] = s][u]
  BY DEF Shown
<1>2. /\ Shown' = [u \in Turn |-> Shown'[u]]
      /\ [Shown EXCEPT ![t] = s] = [u \in Turn |-> [Shown EXCEPT ![t] = s][u]]
  BY DEF Shown
<1>3. QED
  BY <1>1, <1>2, Zenon

\* How each step of the driver looks from outside: nothing, or the driven turn
\* leaves.
LEMMA DriveStepShown ==
  ASSUME TypeInv, Control, RunningTurnIsDriven, DriveStep
  PROVE  /\ RunningTurnIsDriven'
         /\ \/ Shown' = Shown /\ drive'.turn = drive.turn
            \/ /\ drive.turn \in Turn
               /\ \E s \in Terminal \cup Waiting : Lifecycle!Leave(drive.turn, s)
<1>a. drive \in Drive /\ ~Idle /\ drive.turn \in Turn
  <2>1. drive.at # "idle"
    BY Zenon DEF DriveStep, InterruptDrive, RunPendingCall, CancelDrive, GuardContinuation,
       CallModel, ModelFails, ModelAnswers, StreamStep, EnterTools, DuplicateResult, ExecuteCall,
       RejectQuestion, GuardianDenies, AskUser, RequestToolApproval, PauseForUser,
       PauseForApproval, SettleStep, ResultWithoutCall, Continue, Complete, NotInterrupted
  <2>2. QED
    BY <2>1 DEF TypeInv, TypeOK, Shape, IdleDrive, Drive, Idle
<1>b. Shown = [t \in Turn |-> IF drive.turn = t THEN "running" ELSE turns[t]]
  BY DEF Shown
<1>1. ASSUME NEW w \in Terminal \cup Waiting,
             turns' = [turns EXCEPT ![drive.turn] = w], drive' = IdleDrive
      PROVE  /\ RunningTurnIsDriven'
             /\ Lifecycle!Leave(drive.turn, w)
  <2>1. /\ drive'.turn = 0 /\ turns'[drive.turn] = w
        /\ \A u \in Turn \ {drive.turn} : turns'[u] = turns[u]
    BY <1>a, <1>1 DEF IdleDrive, TypeInv, TypeOK
  <2>2. Shown' = [Shown EXCEPT ![drive.turn] = w]
    BY <1>a, <2>1, ShownSet, BoundsAreNat
  <2>3. Lifecycle!Leave(drive.turn, w)
    BY <2>1, <2>2 DEF Lifecycle!Leave, Lifecycle!NoTurn, Shown
  <2>4. RunningTurnIsDriven'
    BY <1>a, <1>1, <2>1 DEF RunningTurnIsDriven, Terminal, Waiting
  <2>5. QED
    BY <2>3, <2>4
<1>2. ASSUME drive'.turn = drive.turn, turns' = turns \/ SetPhase(drive)
      PROVE  /\ RunningTurnIsDriven'
             /\ Shown' = Shown
  BY <1>a, <1>2 DEF RunningTurnIsDriven, Shown, SetPhase, TypeInv, TypeOK
<1>3. CASE \/ InterruptDrive \/ CancelDrive \/ GuardContinuation \/ ModelFails
           \/ DuplicateResult \/ ResultWithoutCall \/ Complete
  <2>1. PICK w \in Terminal : turns' = [turns EXCEPT ![drive.turn] = w] /\ drive' = IdleDrive
    BY <1>3 DEF InterruptDrive, CancelDrive, GuardContinuation, ModelFails, DuplicateResult,
       ResultWithoutCall, Complete, EndAborted, Terminal
  <2>2. w \in Terminal \cup Waiting
    OBVIOUS
  <2>3. RunningTurnIsDriven' /\ Lifecycle!Leave(drive.turn, w)
    BY <2>1, <2>2, <1>1
  <2>4. QED
    BY <1>a, <2>2, <2>3
<1>4. CASE PauseForUser \/ PauseForApproval
  <2>1. PICK w \in Waiting : turns' = [turns EXCEPT ![drive.turn] = w] /\ drive' = IdleDrive
    BY <1>4 DEF PauseForUser, PauseForApproval, Waiting
  <2>2. w \in Terminal \cup Waiting
    OBVIOUS
  <2>3. RunningTurnIsDriven' /\ Lifecycle!Leave(drive.turn, w)
    BY <2>1, <2>2, <1>1
  <2>4. QED
    BY <1>a, <2>2, <2>3
<1>5. CASE \/ RunPendingCall \/ CallModel \/ StreamStep \/ EnterTools \/ SettleStep \/ Continue
           \/ ModelAnswers \/ AskUser \/ RequestToolApproval
  <2>1. drive'.turn = drive.turn /\ (turns' = turns \/ SetPhase(drive))
    BY <1>5, <1>a DEF RunPendingCall, CallModel, StreamStep, EnterTools, SettleStep, Continue,
       ModelAnswers, AskUser, RequestToolApproval, NotInterrupted, Observed, Drive
  <2>2. QED
    BY <2>1, <1>2
<1>6. CASE ExecuteCall \/ RejectQuestion \/ GuardianDenies
  <2>1. drive'.turn = drive.turn /\ turns' = turns
    BY <1>6, <1>a, NextCallType DEF ExecuteCall, RejectQuestion, GuardianDenies
  <2>2. QED
    BY <2>1, <1>2
<1>7. QED
  BY <1>3, <1>4, <1>5, <1>6 DEF DriveStep

\* How each request looks from outside.
LEMMA RequestShown ==
  ASSUME "conflictingProvider" \notin Unusual,
         TypeInv, Control, RunningTurnIsDriven, Request
  PROVE  /\ RunningTurnIsDriven'
         /\ \/ Shown' = Shown /\ drive'.turn = drive.turn
            \/ \E t \in Turn : Lifecycle!Start(t) \/ Lifecycle!Resume(t) \/ Lifecycle!GiveUp(t)
<1> USE BoundsAreNat
<1>1. ASSUME NEW provider \in Providers, NEW background \in BOOLEAN,
             NEW first \in FirstApprovals, RunAgenticTurn(provider, background, first),
             NEW n \in Turn, n = next_turn + 1
      PROVE  RunningTurnIsDriven' /\ Lifecycle!Start(n)
  <2>1. /\ drive'.turn = n /\ drive.turn = 0
        /\ turns' = [turns EXCEPT ![n] = "running"]
    BY <1>1 DEF RunAgenticTurn, StartTurn, IdleDrive, Idle, TypeInv, TypeOK
  <2>2. RunningTurnIsDriven'
    BY <2>1 DEF RunningTurnIsDriven, TypeInv, TypeOK
  <2>3. \A s \in Turn : s < n => turns[s] # "absent"
    BY <1>1 DEF Control, TypeInv, TypeOK
  <2>4. turns[n] = "absent"
    BY <1>1, <2>1 DEF Control, TypeInv, TypeOK
  <2>5. Lifecycle!Start(n)
    <3>1. Shown' = [Shown EXCEPT ![n] = "running"]
      <4>1. /\ turns'[n] = "running"
            /\ \A u \in Turn \ {n} : turns'[u] = turns[u]
        BY <2>1 DEF TypeInv, TypeOK
      <4>2. \A u \in Turn \ {n} : drive.turn # u /\ drive'.turn # u
        BY <2>1
      <4>3. QED
        BY <2>1, <4>1, <4>2, ShownSet
    <3>2. Shown[n] = "absent" /\ \A s \in Turn : s < n => Shown[s] # "absent"
      BY <2>1, <2>3, <2>4 DEF Shown
    <3>3. QED
      BY <2>1, <3>1, <3>2 DEF Lifecycle!Start, Lifecycle!NoTurn, Lifecycle!Turn, Shown
  <2>6. QED
    BY <2>2, <2>5
<1>2. ASSUME NEW t \in Turn, NEW q \in QuestionId \cup {NoQuestion},
             NEW given \in ResumeApprovals(t, q), NEW provider \in Providers,
             ResumeAgenticTurn(t, q, given, provider)
      PROVE  RunningTurnIsDriven' /\ Lifecycle!Resume(t)
  <2>1. /\ drive'.turn = t /\ drive.turn = 0 /\ turns' = turns /\ turns[t] \in Waiting
    BY <1>2 DEF ResumeAgenticTurn, ApplyResume, Resumable, IdleDrive, Idle, Waiting
  <2>2. RunningTurnIsDriven'
    BY <2>1 DEF RunningTurnIsDriven
  <2>3. Lifecycle!Resume(t)
    <3>1. Shown' = [Shown EXCEPT ![t] = "running"]
      BY <2>1, ShownSet
    <3>2. Shown[t] \in Waiting
      BY <2>1 DEF Shown
    <3>3. QED
      BY <2>1, <3>1, <3>2
         DEF Lifecycle!Resume, Lifecycle!NoTurn, Lifecycle!Waiting, Waiting, Shown
  <2>4. QED
    BY <2>2, <2>3
<1>3. ASSUME NEW t \in Turn, InterruptTurn(t)
      PROVE  RunningTurnIsDriven' /\ Lifecycle!GiveUp(t)
  <2>1. /\ drive'.turn = 0 /\ drive.turn = 0 /\ turns' = [turns EXCEPT ![t] = "aborted"]
        /\ turns[t] \in {"running"} \cup Waiting
    BY <1>3 DEF InterruptTurn, Idle, TypeInv, TypeOK, Status, Terminal
  <2>2. RunningTurnIsDriven' /\ turns[t] \in Waiting
    BY <2>1 DEF RunningTurnIsDriven, TypeInv, TypeOK
  <2>3. Lifecycle!GiveUp(t)
    <3>1. Shown' = [Shown EXCEPT ![t] = "aborted"]
      BY <2>1, ShownSet DEF TypeInv, TypeOK
    <3>2. Shown[t] \in Waiting
      BY <2>1, <2>2 DEF Shown
    <3>3. QED
      BY <2>1, <3>1, <3>2
         DEF Lifecycle!GiveUp, Lifecycle!NoTurn, Lifecycle!Waiting, Waiting, Shown
  <2>4. QED
    BY <2>2, <2>3
<1>4. ASSUME UNCHANGED <<turns, drive>>
      PROVE  RunningTurnIsDriven' /\ Shown' = Shown /\ drive'.turn = drive.turn
  BY <1>4 DEF RunningTurnIsDriven, Shown
<1>5. CASE \E provider \in Providers, background \in BOOLEAN, first \in FirstApprovals :
             RunAgenticTurn(provider, background, first)
  <2>1. next_turn + 1 \in Turn
    BY <1>5 DEF RunAgenticTurn, TypeInv, TypeOK
  <2>2. PICK n \in Turn : n = next_turn + 1
    BY <2>1
  <2>3. RunningTurnIsDriven' /\ Lifecycle!Start(n)
    BY <1>5, <1>1, <2>2
  <2>4. QED
    BY <2>3
<1>6. CASE \E t \in Turn, q \in QuestionId \cup {NoQuestion} :
             \E given \in ResumeApprovals(t, q), provider \in Providers :
               ResumeAgenticTurn(t, q, given, provider)
  BY <1>6, <1>2
<1>7. CASE \E t \in Turn : InterruptTurn(t)
  BY <1>7, <1>3
<1>8. CASE \/ \E t \in Turn : RequestInterrupt(t)
           \/ \E c \in GatedCalls : RequestApproval(c)
           \/ \E a \in ApprovalId, decision \in {"approved", "denied"} :
                RespondApproval(a, decision)
           \/ \E q \in QuestionId : RespondQuestion(q)
  <2>1. UNCHANGED <<turns, drive>>
    BY <1>8 DEF RequestInterrupt, RequestApproval, RespondApproval, RespondQuestion
  <2>2. QED
    BY <2>1, <1>4
<1>9. QED
  BY <1>5, <1>6, <1>7, <1>8 DEF Request, RunAgenticTurnRefused, ResumeRefused

LEMMA LifecycleInvariant ==
  ASSUME "conflictingProvider" \notin Unusual
  PROVE  Spec => [](TypeInv /\ Control /\ RunningTurnIsDriven)
<1>1. Init => RunningTurnIsDriven
  BY DEF Init, RunningTurnIsDriven
<1>2. TypeInv /\ Control /\ RunningTurnIsDriven /\ [Next]_vars => RunningTurnIsDriven'
  <2>1. RunningTurnIsDriven /\ UNCHANGED vars => RunningTurnIsDriven'
    BY DEF RunningTurnIsDriven, vars
  <2>2. QED
    BY <2>1, DriveStepShown, RequestShown DEF Next
<1>3. QED
  BY ControlInvariant, <1>1, <1>2, PTL DEF Spec

\* RunningTurnIsDriven: if no request names two kinds of provider, every way out
\* of drive_agentic_turn settles the status of the turn before the runtime is
\* given back.
THEOREM RunningTurnIsAlwaysDriven ==
  ASSUME "conflictingProvider" \notin Unusual
  PROVE  Spec => []RunningTurnIsDriven
BY LifecycleInvariant, PTL

\* The engine implements TurnLifecycle: its starts, resumes, pauses, ends and
\* interrupts are steps of the lifecycle and all its other steps are invisible.
THEOREM ImplementsLifecycle ==
  ASSUME "conflictingProvider" \notin Unusual
  PROVE  Spec => Lifecycle!Spec
<1>1. Init => Lifecycle!Init
  BY DEF Init, IdleDrive, Lifecycle!Init, Lifecycle!NoTurn, Lifecycle!Turn
<1>2. TypeInv /\ Control /\ RunningTurnIsDriven /\ [Next]_vars
        => [Lifecycle!Next]_Lifecycle!vars
  <2> SUFFICES ASSUME TypeInv, Control, RunningTurnIsDriven, [Next]_vars
               PROVE  [Lifecycle!Next]_Lifecycle!vars
    OBVIOUS
  <2>1. CASE UNCHANGED vars
    BY <2>1 DEF vars, Lifecycle!vars
  <2>2. CASE Shown' = Shown /\ drive'.turn = drive.turn
    BY <2>2 DEF Shown, Lifecycle!vars
  <2>3. CASE /\ drive.turn \in Turn
              /\ \E s \in Terminal \cup Waiting : Lifecycle!Leave(drive.turn, s)
    <3>1. Terminal \cup Waiting = Lifecycle!Terminal \cup Lifecycle!Waiting
      BY DEF Lifecycle!Terminal, Lifecycle!Waiting, Terminal, Waiting
    <3>2. drive.turn \in Lifecycle!Turn
      BY <2>3 DEF Lifecycle!Turn
    <3>3. QED
      BY <2>3, <3>1, <3>2, Zenon DEF Lifecycle!Next
  <2>4. CASE \E t \in Turn : Lifecycle!Start(t) \/ Lifecycle!Resume(t) \/ Lifecycle!GiveUp(t)
    BY <2>4 DEF Lifecycle!Next, Lifecycle!Turn
  <2>5. QED
    BY <2>1, <2>2, <2>3, <2>4, DriveStepShown, RequestShown DEF Next
<1>3. QED
  BY LifecycleInvariant, <1>1, <1>2, PTL DEF Spec, Lifecycle!Spec

-----------------------------------------------------------------------------
(* How turns end, and what an interrupt stops.                             *)

\* The driver changes the status of its own turn only.
LEMMA DriveStepTurns ==
  ASSUME DriveStep
  PROVE  turns' = turns \/ \E w : turns' = [turns EXCEPT ![drive.turn] = w]
BY DEF DriveStep, InterruptDrive, RunPendingCall, CancelDrive, GuardContinuation,
   CallModel, ModelFails, ModelAnswers, StreamStep, EnterTools, DuplicateResult, ExecuteCall,
   RejectQuestion, GuardianDenies, AskUser, RequestToolApproval, PauseForUser,
   PauseForApproval, SettleStep, ResultWithoutCall, Continue, Complete, EndAborted, SetPhase

\* TerminalIsFinal: ensure_turn_mutable, the status checks of a resume and the
\* driver's hold on one live turn together keep every ended turn ended.
THEOREM EndedTurnsStayEnded == Spec => TerminalIsFinal
<1>1. TypeInv /\ Control /\ [Next]_vars
        => [\A t \in Turn : turns[t] \in Terminal => turns'[t] = turns[t]]_vars
  <2> SUFFICES ASSUME TypeInv, Control, [Next]_vars,
                      NEW t \in Turn, turns[t] \in Terminal
               PROVE  turns'[t] = turns[t]
    OBVIOUS
  <2>1. CASE UNCHANGED vars
    BY <2>1 DEF vars
  <2>2. CASE DriveStep
    <3>1. ~Idle => drive.turn # t
      BY DEF Control, Waiting, Terminal
    <3>2. Idle => drive.turn # t
      BY DEF Idle
    <3>3. QED
      BY <2>2, <3>1, <3>2, DriveStepTurns DEF TypeInv, TypeOK
  <2>3. CASE Request
    <3>1. CASE \E provider \in Providers, background \in BOOLEAN, first \in FirstApprovals :
                 RunAgenticTurn(provider, background, first)
      <4>1. turns' = [turns EXCEPT ![next_turn + 1] = "running"]
        BY <3>1 DEF RunAgenticTurn, StartTurn
      <4>2. t # next_turn + 1
        BY BoundsAreNat DEF Control, Terminal, TypeInv, TypeOK
      <4>3. QED
        BY <4>1, <4>2 DEF TypeInv, TypeOK
    <3>2. CASE \E first \in FirstApprovals : RunAgenticTurnRefused(first)
      <4>1. turns' = [turns EXCEPT ![next_turn + 1] = "running"]
        BY <3>2 DEF RunAgenticTurnRefused, StartTurn
      <4>2. t # next_turn + 1
        BY BoundsAreNat DEF Control, Terminal, TypeInv, TypeOK
      <4>3. QED
        BY <4>1, <4>2 DEF TypeInv, TypeOK
    <3>3. CASE \E u \in Turn : InterruptTurn(u)
      <4>1. PICK u \in Turn : InterruptTurn(u)
        BY <3>3
      <4>2. u # t /\ turns' = [turns EXCEPT ![u] = "aborted"]
        BY <4>1 DEF InterruptTurn
      <4>3. QED
        BY <4>2 DEF TypeInv, TypeOK
    <3>4. ASSUME NEW u, NEW q, NEW given, NEW provider,
                 ResumeAgenticTurn(u, q, given, provider) \/ ResumeRefused(u, q, given)
          PROVE  turns' = turns
      BY <3>4 DEF ResumeAgenticTurn, ResumeRefused, ApplyResume
    <3>5. CASE \/ \E u \in Turn : RequestInterrupt(u)
               \/ \E c \in GatedCalls : RequestApproval(c)
               \/ \E a \in ApprovalId, decision \in {"approved", "denied"} :
                    RespondApproval(a, decision)
               \/ \E q \in QuestionId : RespondQuestion(q)
      BY <3>5 DEF RequestInterrupt, RequestApproval, RespondApproval, RespondQuestion
    <3>6. QED
      BY <2>3, <3>1, <3>2, <3>3, <3>4, <3>5 DEF Request
  <2>4. QED
    BY <2>1, <2>2, <2>3 DEF Next
<1>2. QED
  BY ControlInvariant, <1>1, PTL DEF Spec, TerminalIsFinal

\* InterruptStopsWork: the registry is looked at before every tool and before
\* every model request.
THEOREM InterruptedDriveStops == Spec => InterruptStopsWork
<1>1. TypeInv /\ [Next]_vars =>
        [drive.turn # NoTurn /\ drive.turn \in interrupts =>
           /\ ran' = ran
           /\ reran' = reran
           /\ drive.at # "model" => drive'.at # "model"]_vars
  <2> SUFFICES ASSUME TypeInv, [Next]_vars, drive.turn # NoTurn, drive.turn \in interrupts
               PROVE  /\ ran' = ran
                      /\ reran' = reran
                      /\ drive.at # "model" => drive'.at # "model"
    OBVIOUS
  <2>a. drive \in Drive /\ ~Idle
    BY DEF TypeInv, TypeOK, Idle
  <2>1. CASE UNCHANGED vars
    BY <2>1 DEF vars, history
  <2>2. CASE InterruptDrive \/ ModelFails
    BY <2>2 DEF InterruptDrive, ModelFails, EndAborted, IdleDrive, history
  <2>3. CASE PauseForUser \/ PauseForApproval
    BY <2>3, <2>a DEF PauseForUser, PauseForApproval, IdleDrive, history
  <2>7. CASE ModelAnswers
    BY <2>7 DEF ModelAnswers
  <2>4. CASE DriveStep /\ ~(\/ InterruptDrive \/ ModelFails \/ ModelAnswers \/ PauseForUser
                            \/ PauseForApproval)
    BY <2>4 DEF DriveStep, RunPendingCall, CancelDrive, GuardContinuation, CallModel,
       StreamStep, EnterTools, DuplicateResult, ExecuteCall, RejectQuestion, GuardianDenies,
       AskUser, RequestToolApproval, SettleStep, ResultWithoutCall, Continue, Complete,
       NotInterrupted
  <2>5. CASE Request
    <3>1. \E t \in Turn : RequestInterrupt(t)
      BY <2>5, <2>a DEF Request, RunAgenticTurn, RunAgenticTurnRefused, ResumeAgenticTurn,
         ResumeRefused, InterruptTurn, RequestApproval, RespondApproval, RespondQuestion
    <3>2. QED
      BY <3>1 DEF RequestInterrupt, history
  <2>6. QED
    BY <2>1, <2>2, <2>3, <2>4, <2>5, <2>7 DEF Next
<1>2. QED
  BY ControlInvariant, <1>1, PTL DEF Spec, InterruptStopsWork

-----------------------------------------------------------------------------
(* Consent.                                                                *)

\* Every approval that counts as given was given by a client: those on record,
\* those a request carries, and those whose calls a resume runs first, which are
\* dealt with before the loop is entered.
Consent ==
  /\ drive.at # "pending" => drive.pending = {}
  /\ \A a \in ApprovalId : approvals[a].outcome = "approved" => approvals[a].call \in consented
  /\ \A a \in drive.pending : approvals[a].outcome = "approved"
  /\ drive.approved \subseteq consented
  /\ ran \cap GatedCalls \subseteq consented

LEMMA InitConsent == Init => Consent
BY DEF Init, Consent, IdleDrive, NoApproval

\* A step that approves nothing, starts no tool and leaves the drive with no
\* more than it had.
LEMMA SameConsent ==
  ASSUME Consent, consented' = consented, ran' = ran,
         \A a \in ApprovalId : approvals'[a].outcome = "approved" => approvals'[a] = approvals[a],
         \A a \in drive.pending : approvals'[a] = approvals[a],
         drive'.pending \subseteq drive.pending, drive'.approved \subseteq drive.approved,
         drive'.at # "pending" => drive'.pending = {}
  PROVE  Consent'
BY DEF Consent

LEMMA DriveStepConsent == TypeInv /\ Consent /\ DriveStep => Consent'
<1> SUFFICES ASSUME TypeInv, Consent, DriveStep PROVE Consent'
  OBVIOUS
<1>a. drive \in Drive /\ drive.pending \subseteq ApprovalId
  BY DEF TypeInv, TypeOK, Drive
<1>b. IdleDrive.pending = {} /\ IdleDrive.approved = {}
  BY DEF IdleDrive
<1>1. CASE \/ InterruptDrive \/ CancelDrive \/ GuardContinuation \/ ModelFails
           \/ DuplicateResult \/ ResultWithoutCall
  <2>1. drive' = IdleDrive /\ UNCHANGED <<approvals, consented, ran>>
    BY <1>1 DEF InterruptDrive, CancelDrive, GuardContinuation, ModelFails, DuplicateResult,
       ResultWithoutCall, EndAborted, requests, history
  <2>2. QED
    BY <2>1, <1>b, SameConsent
<1>2. CASE Complete \/ PauseForUser \/ PauseForApproval
  <2>1. drive' = IdleDrive /\ UNCHANGED <<approvals, consented, ran>>
    BY <1>2 DEF Complete, PauseForUser, PauseForApproval, requests, history
  <2>2. QED
    BY <2>1, <1>b, SameConsent
<1>3. CASE RunPendingCall
  <2>1. PICK a \in drive.pending :
          /\ RunTool(approvals[a].call)
          /\ drive' = [Observed(drive, approvals[a].call)
                         EXCEPT !.pending = @ \ {a},
                                !.at = IF drive.pending = {a} THEN "loop" ELSE "pending"]
    BY <1>3 DEF RunPendingCall
  <2>2. /\ drive'.pending \subseteq drive.pending /\ drive'.approved = drive.approved
        /\ drive'.at # "pending" => drive'.pending = {}
    BY <1>a, <2>1 DEF Observed, Drive
  <2>3. /\ approvals[a].call \in consented /\ ran' = ran \cup {approvals[a].call}
        /\ consented' = consented /\ approvals' = approvals
    BY <1>3, <1>a, <2>1 DEF Consent, RunTool, RunPendingCall, requests
  <2>4. QED
    BY <2>2, <2>3 DEF Consent
<1>4. CASE CallModel \/ StreamStep \/ EnterTools \/ SettleStep \/ Continue \/ AskUser
  <2>1. /\ drive'.pending = drive.pending /\ drive'.approved = drive.approved
        /\ UNCHANGED <<approvals, consented, ran>>
    BY <1>4, <1>a DEF CallModel, StreamStep, EnterTools, SettleStep, Continue, AskUser, Drive,
       requests, history
  <2>2. drive.pending = {}
    BY <1>4 DEF CallModel, StreamStep, EnterTools, SettleStep, Continue, AskUser, NotInterrupted,
       Consent
  <2>3. QED
    BY <2>1, <2>2, SameConsent
<1>5. CASE ModelAnswers
  <2>1. /\ drive'.pending = drive.pending /\ drive'.approved = drive.approved
        /\ UNCHANGED <<approvals, consented, ran>>
    BY <1>5, <1>a DEF ModelAnswers, Drive, requests
  <2>2. drive.pending = {}
    BY <1>5 DEF ModelAnswers, Consent
  <2>3. QED
    BY <2>1, <2>2, SameConsent
<1>6. CASE ExecuteCall
  <2>1. /\ drive.calls # <<>> /\ drive' = NextCall(drive) /\ approvals' = approvals
        /\ ~NeedsApproval(Head(drive.calls))
        /\ IF Head(drive.calls) \in drive.provided THEN UNCHANGED history
           ELSE RunTool(Head(drive.calls))
    BY <1>6 DEF ExecuteCall, requests
  <2>2. drive'.pending = drive.pending /\ drive'.approved = drive.approved /\ drive.pending = {}
    BY <1>6, <1>a, <2>1 DEF ExecuteCall, NotInterrupted, NextCall, Observed, Drive, Consent
  <2>3. CASE UNCHANGED history
    BY <2>1, <2>2, <2>3, SameConsent DEF history
  <2>4. CASE RunTool(Head(drive.calls)) /\ Head(drive.calls) \notin drive.provided
    <3>1. Head(drive.calls) \in GatedCalls => Head(drive.calls) \in consented
      BY <2>1, <2>4 DEF NeedsApproval, HasApprovedCall, Consent
    <3>2. QED
      BY <2>1, <2>2, <2>4, <3>1 DEF RunTool, Consent
  <2>5. QED
    BY <2>1, <2>3, <2>4
<1>7. CASE RejectQuestion \/ GuardianDenies
  <2>1. /\ drive'.pending = drive.pending /\ drive'.approved = drive.approved
        /\ UNCHANGED <<approvals, consented, ran>> /\ drive.pending = {}
    BY <1>7, <1>a DEF RejectQuestion, GuardianDenies, NotInterrupted, Consent, NextCall, Observed, Drive, requests, history
  <2>2. QED
    BY <2>1, SameConsent
<1>8. CASE RequestToolApproval
  <2>1. /\ drive'.pending = {} /\ drive'.approved = drive.approved
        /\ UNCHANGED <<consented, ran>>
    BY <1>8, <1>a DEF RequestToolApproval, NotInterrupted, Consent, Drive, history
  <2>2. \A a \in ApprovalId : \/ approvals'[a] = approvals[a]
                            \/ approvals'[a].outcome = "pending"
    BY <1>8 DEF RequestToolApproval, TypeInv, TypeOK
  <2>3. QED
    BY <2>1, <2>2 DEF Consent
<1>9. QED
  BY <1>1, <1>2, <1>3, <1>4, <1>5, <1>6, <1>7, <1>8 DEF DriveStep

LEMMA RequestConsent == TypeInv /\ Consent /\ Request => Consent'
<1> SUFFICES ASSUME TypeInv, Consent, Request PROVE Consent'
  OBVIOUS
<1>1. ASSUME NEW provider \in Providers, NEW background \in BOOLEAN,
             NEW first \in FirstApprovals, RunAgenticTurn(provider, background, first)
      PROVE  Consent'
  <2>1. drive'.pending = {} /\ drive'.approved = first
    BY <1>1 DEF RunAgenticTurn, IdleDrive
  <2>2. QED
    BY <1>1, <2>1 DEF RunAgenticTurn, StartTurn, Consent, requests
<1>2. ASSUME NEW first \in FirstApprovals, RunAgenticTurnRefused(first)
      PROVE  Consent'
  BY <1>2 DEF RunAgenticTurnRefused, StartTurn, Consent, requests
<1>3. ASSUME NEW t \in Turn, NEW q \in QuestionId \cup {NoQuestion},
             NEW given \in ResumeApprovals(t, q), ApplyResume(t, q, given)
      PROVE  /\ \A a \in ApprovalId :
                  approvals'[a].outcome = "approved" => approvals'[a].call \in consented'
             /\ \A a \in PendingCalls(t, given) : approvals'[a].outcome = "approved"
             /\ given \subseteq consented' /\ consented \subseteq consented'
             /\ ran' = ran
  <2>1. /\ \A a \in ApprovalId : approvals'[a] = IF a \in NewlyApproved(t, given)
                                 THEN [approvals[a] EXCEPT !.outcome = "approved"]
                                 ELSE approvals[a]
        /\ consented' = consented \cup given
        /\ ran' = ran
    BY <1>3 DEF ApplyResume
  <2>2. ASSUME NEW a \in ApprovalId, a \in NewlyApproved(t, given)
        PROVE  /\ approvals'[a].outcome = "approved"
               /\ approvals'[a].call = approvals[a].call /\ approvals[a].call \in given
    <3>1. approvals[a] \in [turn : Turn \cup {NoTurn}, call : Calls,
                            outcome : {"pending", "approved", "denied", "cancelled"}]
      BY <2>2 DEF NewlyApproved, TypeInv, TypeOK, Approval, NoApproval
    <3>2. approvals'[a] = [approvals[a] EXCEPT !.outcome = "approved"]
      BY <2>1, <2>2
    <3>3. QED
      BY <2>2, <3>1, <3>2 DEF NewlyApproved
  <2>3. ASSUME NEW a \in ApprovalId, a \notin NewlyApproved(t, given)
        PROVE  approvals'[a] = approvals[a]
    BY <2>1, <2>3
  <2>4. \A a \in PendingCalls(t, given) :
          a \in ApprovalId /\ (a \in NewlyApproved(t, given) \/ approvals[a].outcome = "approved")
    BY DEF PendingCalls, NewlyApproved
  <2>5. QED
    BY <2>1, <2>2, <2>3, <2>4 DEF Consent
<1>4. ASSUME NEW t \in Turn, NEW q \in QuestionId \cup {NoQuestion},
             NEW given \in ResumeApprovals(t, q), NEW provider \in Providers,
             ResumeAgenticTurn(t, q, given, provider)
      PROVE  Consent'
  <2>1. /\ drive'.pending = PendingCalls(t, given) /\ drive'.approved = given
        /\ drive'.at # "pending" => drive'.pending = {}
    BY <1>4 DEF ResumeAgenticTurn, IdleDrive
  <2>2. ApplyResume(t, q, given)
    BY <1>4 DEF ResumeAgenticTurn
  <2>3. QED
    BY <1>3, <2>1, <2>2 DEF Consent
<1>5. ASSUME NEW t \in Turn, NEW q \in QuestionId \cup {NoQuestion},
             NEW given \in ResumeApprovals(t, q), ResumeRefused(t, q, given)
      PROVE  Consent'
  <2>1. drive'.pending = {} /\ drive'.approved = {}
    BY <1>5 DEF ResumeRefused, TypeInv, Shape, IdleDrive
  <2>2. ApplyResume(t, q, given)
    BY <1>5 DEF ResumeRefused
  <2>3. QED
    BY <1>3, <2>1, <2>2 DEF Consent
<1>6. ASSUME UNCHANGED <<approvals, drive, consented, ran>>
      PROVE  Consent'
  BY <1>6 DEF Consent
<1>7. ASSUME NEW c \in GatedCalls, RequestApproval(c)
      PROVE  Consent'
  <2>1. \A a \in ApprovalId : \/ approvals'[a] = approvals[a]
                            \/ approvals'[a].outcome = "pending"
    BY <1>7 DEF RequestApproval, TypeInv, TypeOK
  <2>2. drive'.pending = {} /\ drive'.approved = {} /\ consented' = consented /\ ran' = ran
    BY <1>7 DEF RequestApproval, TypeInv, Shape, IdleDrive, history
  <2>3. QED
    BY <2>1, <2>2 DEF Consent
<1>8. ASSUME NEW a \in ApprovalId, NEW decision \in {"approved", "denied"},
             RespondApproval(a, decision)
      PROVE  Consent'
  <2>1. approvals[a] \in [turn : Turn \cup {NoTurn}, call : Calls,
                          outcome : {"pending", "approved", "denied", "cancelled"}]
    BY <1>8 DEF RespondApproval, TypeInv, TypeOK, Approval, NoApproval
  <2>2. /\ approvals'[a].outcome = decision /\ approvals'[a].call = approvals[a].call
        /\ \A b \in ApprovalId \ {a} : approvals'[b] = approvals[b]
    BY <1>8, <2>1 DEF RespondApproval, TypeInv, TypeOK
  <2>3. drive'.pending = {} /\ drive'.approved = {} /\ ran' = ran
    BY <1>8 DEF RespondApproval, TypeInv, Shape, IdleDrive
  <2>4. consented \subseteq consented' /\ (decision = "approved" => approvals[a].call \in consented')
    BY <1>8 DEF RespondApproval
  <2>5. QED
    BY <2>2, <2>3, <2>4 DEF Consent
<1>9. QED
  BY <1>1, <1>2, <1>4, <1>5, <1>6, <1>7, <1>8
     DEF Request, InterruptTurn, RequestInterrupt, RespondQuestion, requests, history

\* GatedRunsOnlyWithConsent: whatever the turns are resumed with, a tool that
\* needs an approval runs only for a call some client approved.
THEOREM ConsentCorrect == Spec => []GatedRunsOnlyWithConsent
<1>1. TypeInv /\ Consent /\ [Next]_vars => (TypeInv /\ Consent)'
  <2>1. TypeInv /\ Consent /\ UNCHANGED vars => (TypeInv /\ Consent)'
    BY DEF TypeInv, TypeOK, Shape, Consent, Idle, vars, requests, history
  <2>2. QED
    BY <2>1, DriveStepType, RequestType, DriveStepConsent, RequestConsent DEF Next
<1>2. Consent => GatedRunsOnlyWithConsent
  BY DEF Consent, GatedRunsOnlyWithConsent
<1>3. QED
  BY InitType, InitConsent, <1>1, <1>2, PTL DEF Spec

-----------------------------------------------------------------------------
(* Part two: TurnRecovery                                                  *)

\* A replay of events is a fold of ApplyReplayedEvent.
Events == INSTANCE Folding WITH op <- ApplyReplayedEvent

\* Nothing to replay, one event, one sequence of events after the other.
LEMMA ReplayFolds == \A s, es : ReplayEvents(s, es) = Events!Fold(s, es)
BY DEF ReplayEvents, Events!Fold, FoldLeft, Events!FoldLeft, MapThenFoldSet,
   Events!MapThenFoldSet, Max, Events!Max

LEMMA ReplayNone == \A s : ReplayEvents(s, <<>>) = s
BY ReplayFolds, Events!FoldEmpty

LEMMA ReplayOne == \A s, e : ReplayEvents(s, <<e>>) = ApplyReplayedEvent(s, e)
BY ReplayFolds, Events!FoldOne

LEMMA ReplayAppend ==
  ASSUME NEW s, NEW es \in Seq(Event), NEW e \in Event
  PROVE  ReplayEvents(s, Append(es, e)) = ApplyReplayedEvent(ReplayEvents(s, es), e)
BY ReplayFolds, Events!FoldAppend

LEMMA ReplayConcat ==
  ASSUME NEW s, NEW es \in Seq(Event), NEW fs \in Seq(Event)
  PROVE  ReplayEvents(s, es \o fs) = ReplayEvents(ReplayEvents(s, es), fs)
BY ReplayFolds, Events!FoldConcat

-----------------------------------------------------------------------------
(* What a replay of the files gives, before and after everything is        *)
(* written.                                                                *)

\* The runtime a restart would find if the whole log were written.
Replayed == ReplayEvents(disk, log)

Runtimes ==
  [turns : [Turn -> Status], next_turn : 0..MaxTurns,
   approvals : [ApprovalId -> Approval], next_approval : 0..MaxApprovals,
   questions : [QuestionId -> Question], next_question : 0..MaxQuestions,
   snapshots : [Turn -> Snapshot]]

\* A runtime the next process can start from: its turns are the first
\* next_turn, its approvals and questions have numbers up to the counters; a turn
\* nobody started or somebody ended has no transcript.
Sound(s) ==
  /\ s \in Runtimes
  /\ \A t \in Turn : s.turns[t] = "absent" <=> t > s.next_turn
  /\ \A a \in ApprovalId : s.approvals[a].outcome # "absent" => a <= s.next_approval
  /\ \A q \in QuestionId : s.questions[q].state # "absent" => q <= s.next_question
  /\ \A t \in Turn : s.turns[t] \in Terminal \cup {"absent"} => s.snapshots[t] = NoSnapshot
  /\ \A t \in Turn : s.snapshots[t].held \/ s.snapshots[t] = NoSnapshot

\* So is every runtime on the way from what is written to what is known: a
\* write may stop after any event.
AllSound(s, events) == \A n \in 0..Len(events) : Sound(ReplayEvents(s, SubSeq(events, 1, n)))

Files ==
  /\ disk \in Runtimes
  /\ log \in Seq(Event)
  /\ AllSound(disk, log)

\* An approval on file is the one in memory; one still pending there, of a
\* turn that has ended, is cancelled on file.
SameApproval(s, a) ==
  \/ s.approvals[a] = approvals[a]
  \/ /\ approvals[a].turn \in Turn
     /\ turns[approvals[a].turn] \in Terminal
     /\ approvals[a].outcome = "pending"
     /\ s.approvals[a] = [approvals[a] EXCEPT !.outcome = "cancelled"]

SameQuestion(s, q) ==
  \/ s.questions[q] = questions[q]
  \/ /\ questions[q].turn \in Turn
     /\ turns[questions[q].turn] \in Terminal
     /\ questions[q].state = "open"
     /\ s.questions[q] = [questions[q] EXCEPT !.state = "resolved"]

\* The turn that is driven: nothing is written of it between its start, or its
\* resume, and its end or its next pause, but the transcript that goes ahead
\* of a pause.
DrivenTurn(s) ==
  LET t == drive.turn IN
    /\ turns[t] \in {"running"} \cup Waiting
    /\ s.turns[t] \in {"running"} \cup Waiting
    /\ drive.at \notin Pausing => snapshots[t] = NoSnapshot
    /\ drive.at \in Pausing => s.snapshots[t] = snapshots[t]
    /\ s.snapshots[t] = NoSnapshot \/ drive.direct
    /\ drive.at = "pausingForApproval" =>
         /\ next_approval \in ApprovalId
         /\ approvals[next_approval] =
              [turn |-> t, call |-> Head(drive.calls), outcome |-> "pending"]
    /\ drive.at = "pausingForUser" =>
         /\ next_question \in QuestionId
         /\ questions[next_question] =
              [turn |-> t, call |-> Head(drive.calls), state |-> "open"]

\* A replay tells of the turns, approvals and questions what the memory does.
Matches(s) ==
  /\ \A t \in Turn : turns[t] = "absent" <=> s.turns[t] = "absent"
  /\ \A t \in Turn : drive.turn # t => s.turns[t] = turns[t]
  /\ \A t \in Turn : drive.turn # t /\ turns[t] \notin Terminal => s.snapshots[t] = snapshots[t]
  /\ \A a \in ApprovalId :
       ~(drive.at = "pausingForApproval" /\ a = next_approval) => SameApproval(s, a)
  /\ \A q \in QuestionId :
       ~(drive.at = "pausingForUser" /\ q = next_question) => SameQuestion(s, q)
  /\ ~Idle => DrivenTurn(s)

\* The memory itself.
Memory ==
  /\ \A t \in Turn : turns[t] = "absent" <=> t > next_turn
  /\ \A t \in Turn : turns[t] = "absent" => snapshots[t] = NoSnapshot
  /\ \A t \in Turn : snapshots[t].held \/ snapshots[t] = NoSnapshot
  /\ \A a \in ApprovalId : approvals[a].outcome # "absent" => a <= next_approval
  /\ \A q \in QuestionId : questions[q].state # "absent" => q <= next_question

AgreeInv ==
  /\ TypeInv
  /\ Memory
  /\ Files
  /\ Matches(Replayed)


-----------------------------------------------------------------------------
(* What the events do to a runtime on file.                                *)

LEMMA OtherRequests ==
  ASSUME NEW s \in Runtimes, NEW F \in [ApprovalId -> Approval], NEW G \in [QuestionId -> Question]
  PROVE  [s EXCEPT !.approvals = F, !.questions = G] \in Runtimes
BY DEF Runtimes

LEMMA OtherTurns ==
  ASSUME NEW s \in Runtimes, NEW F \in [Turn -> Status], NEW G \in [Turn -> Snapshot]
  PROVE  [s EXCEPT !.turns = F, !.snapshots = G] \in Runtimes
BY DEF Runtimes

\* Another outcome, another state: the rest of the record stays.
LEMMA ApprovalFields ==
  \A p \in Approval : \A o :
    LET n == [p EXCEPT !.outcome = o] IN
      n.turn = p.turn /\ n.call = p.call /\ n.outcome = o
BY DEF Approval, NoApproval

LEMMA QuestionFields ==
  \A p \in Question : \A o :
    LET n == [p EXCEPT !.state = o] IN
      n.turn = p.turn /\ n.call = p.call /\ n.state = o
BY DEF Question, NoQuestionAsked

LEMMA SameTurns ==
  ASSUME TypeInv, NEW s
  PROVE  /\ \A a \in ApprovalId : SameApproval(s, a) =>
              s.approvals[a].turn = approvals[a].turn /\ s.approvals[a].call = approvals[a].call
         /\ \A q \in QuestionId : SameQuestion(s, q) =>
              s.questions[q].turn = questions[q].turn /\ s.questions[q].call = questions[q].call
<1>1. /\ \A a \in ApprovalId : approvals[a] \in Approval
      /\ \A q \in QuestionId : questions[q] \in Question
  BY DEF TypeInv, TypeOK
<1>2. \A a \in ApprovalId : SameApproval(s, a) =>
        s.approvals[a].turn = approvals[a].turn /\ s.approvals[a].call = approvals[a].call
  <2> SUFFICES ASSUME NEW a \in ApprovalId, SameApproval(s, a)
               PROVE  /\ s.approvals[a].turn = approvals[a].turn
                      /\ s.approvals[a].call = approvals[a].call
    OBVIOUS
  <2> DEFINE n == [approvals[a] EXCEPT !.outcome = "cancelled"]
  <2>1. n.turn = approvals[a].turn /\ n.call = approvals[a].call
    BY <1>1, ApprovalFields
  <2>2. s.approvals[a] = approvals[a] \/ s.approvals[a] = n
    BY DEF SameApproval
  <2> HIDE DEF n
  <2> QED BY <2>1, <2>2
<1>3. \A q \in QuestionId : SameQuestion(s, q) =>
        s.questions[q].turn = questions[q].turn /\ s.questions[q].call = questions[q].call
  <2> SUFFICES ASSUME NEW q \in QuestionId, SameQuestion(s, q)
               PROVE  /\ s.questions[q].turn = questions[q].turn
                      /\ s.questions[q].call = questions[q].call
    OBVIOUS
  <2> DEFINE n == [questions[q] EXCEPT !.state = "resolved"]
  <2>1. n.turn = questions[q].turn /\ n.call = questions[q].call
    BY <1>1, QuestionFields
  <2>2. s.questions[q] = questions[q] \/ s.questions[q] = n
    BY DEF SameQuestion
  <2> HIDE DEF n
  <2> QED BY <2>1, <2>2
<1> QED BY <1>2, <1>3

LEMMA ClearPauses ==
  ASSUME NEW s \in Runtimes, NEW X \in SUBSET Turn
  PROVE  LET r == ClearPendingPauses(s, X) IN
         /\ r \in Runtimes
         /\ r.turns = s.turns /\ r.snapshots = s.snapshots
         /\ r.next_turn = s.next_turn /\ r.next_approval = s.next_approval
         /\ r.next_question = s.next_question
         /\ \A a \in ApprovalId : r.approvals[a] =
              IF s.approvals[a].turn \in X /\ s.approvals[a].outcome = "pending"
              THEN [s.approvals[a] EXCEPT !.outcome = "cancelled"] ELSE s.approvals[a]
         /\ \A q \in QuestionId : r.questions[q] =
              IF s.questions[q].turn \in X
              THEN [s.questions[q] EXCEPT !.state = "resolved"] ELSE s.questions[q]
<1> DEFINE r == ClearPendingPauses(s, X)
           A(a) == IF s.approvals[a].turn \in X /\ s.approvals[a].outcome = "pending"
                   THEN [s.approvals[a] EXCEPT !.outcome = "cancelled"] ELSE s.approvals[a]
           Q(q) == IF s.questions[q].turn \in X
                   THEN [s.questions[q] EXCEPT !.state = "resolved"] ELSE s.questions[q]
<1>1. \A a \in ApprovalId : A(a) \in Approval
  <2> SUFFICES ASSUME NEW a \in ApprovalId PROVE A(a) \in Approval
    OBVIOUS
  <2>1. s.approvals[a] \in Approval
    BY DEF Runtimes
  <2> QED BY <2>1 DEF Approval, NoApproval
<1>2. \A q \in QuestionId : Q(q) \in Question
  <2> SUFFICES ASSUME NEW q \in QuestionId PROVE Q(q) \in Question
    OBVIOUS
  <2>1. s.questions[q] \in Question
    BY DEF Runtimes
  <2> QED BY <2>1 DEF Question, NoQuestionAsked
<1>3. r = [s EXCEPT !.approvals = [a \in ApprovalId |-> A(a)],
                    !.questions = [q \in QuestionId |-> Q(q)]]
  BY DEF ClearPendingPauses
<1>4. \A a \in ApprovalId : r.approvals[a] = A(a)
  BY <1>3 DEF Runtimes
<1>5. \A q \in QuestionId : r.questions[q] = Q(q)
  BY <1>3 DEF Runtimes
<1>6. /\ r.approvals \in [ApprovalId -> Approval] /\ r.questions \in [QuestionId -> Question]
      /\ r.turns = s.turns /\ r.snapshots = s.snapshots
      /\ r.next_turn = s.next_turn /\ r.next_approval = s.next_approval
      /\ r.next_question = s.next_question
  BY <1>1, <1>2, <1>3 DEF Runtimes
<1>7. r \in Runtimes
  <2>1. /\ [a \in ApprovalId |-> A(a)] \in [ApprovalId -> Approval]
        /\ [q \in QuestionId |-> Q(q)] \in [QuestionId -> Question]
    BY <1>1, <1>2
  <2> HIDE DEF A, Q, r
  <2> QED BY <1>3, <2>1, OtherRequests
<1> QED BY <1>4, <1>5, <1>6, <1>7

\* r is what s becomes when turn t ends as w.
Ended(s, r, t, w) ==
  /\ r \in Runtimes
  /\ r.turns = [s.turns EXCEPT ![t] = w]
  /\ r.snapshots = [s.snapshots EXCEPT ![t] = NoSnapshot]
  /\ r.next_turn = s.next_turn /\ r.next_approval = s.next_approval
  /\ r.next_question = s.next_question
  /\ \A a \in ApprovalId : r.approvals[a] =
       IF s.approvals[a].turn = t /\ s.approvals[a].outcome = "pending"
       THEN [s.approvals[a] EXCEPT !.outcome = "cancelled"] ELSE s.approvals[a]
  /\ \A q \in QuestionId : r.questions[q] =
       IF s.questions[q].turn = t
       THEN [s.questions[q] EXCEPT !.state = "resolved"] ELSE s.questions[q]

LEMMA EndTurnIs ==
  ASSUME NEW s \in Runtimes, NEW t \in Turn, NEW w \in Status
  PROVE  Ended(s, EndTurn(s, t, w), t, w)
<1> DEFINE p == ClearPendingPauses(s, {t})
           r == EndTurn(s, t, w)
<1>1. /\ p \in Runtimes
      /\ p.turns = s.turns /\ p.snapshots = s.snapshots
      /\ p.next_turn = s.next_turn /\ p.next_approval = s.next_approval
      /\ p.next_question = s.next_question
      /\ \A a \in ApprovalId : p.approvals[a] =
           IF s.approvals[a].turn = t /\ s.approvals[a].outcome = "pending"
           THEN [s.approvals[a] EXCEPT !.outcome = "cancelled"] ELSE s.approvals[a]
      /\ \A q \in QuestionId : p.questions[q] =
           IF s.questions[q].turn = t
           THEN [s.questions[q] EXCEPT !.state = "resolved"] ELSE s.questions[q]
  BY ClearPauses, {t} \in SUBSET Turn
<1>2. r = [p EXCEPT !.turns[t] = w, !.snapshots[t] = NoSnapshot]
  BY DEF EndTurn
<1> HIDE DEF p, r
<1>3. NoSnapshot \in Snapshot
  BY DEF NoSnapshot, Snapshot
<1>5. r = [p EXCEPT !.turns = [p.turns EXCEPT ![t] = w],
                    !.snapshots = [p.snapshots EXCEPT ![t] = NoSnapshot]]
  BY <1>2
<1>6. /\ [p.turns EXCEPT ![t] = w] \in [Turn -> Status]
      /\ [p.snapshots EXCEPT ![t] = NoSnapshot] \in [Turn -> Snapshot]
  BY <1>1, <1>3 DEF Runtimes
<1>4. /\ r.turns = [p.turns EXCEPT ![t] = w]
      /\ r.snapshots = [p.snapshots EXCEPT ![t] = NoSnapshot]
      /\ r.next_turn = p.next_turn /\ r.next_approval = p.next_approval
      /\ r.next_question = p.next_question
      /\ r.approvals = p.approvals /\ r.questions = p.questions
  BY <1>1, <1>5 DEF Runtimes
<1>7. r \in Runtimes
  BY <1>1, <1>5, <1>6, OtherTurns
<1> HIDE DEF r
<1>8. Ended(s, r, t, w)
  BY <1>1, <1>4, <1>7 DEF Ended
<1> QED BY <1>8 DEF r

\* The event of an end.
LEMMA ApplyEnd ==
  ASSUME NEW s, NEW t,
         NEW kind \in {"TurnCompleted", "TurnAborted", "TurnInterrupted"}
  PROVE  \E w \in Terminal :
           /\ w = IF kind = "TurnCompleted" THEN "completed" ELSE "aborted"
           /\ ApplyReplayedEvent(s, TurnEvent(kind, t)) = EndTurn(s, t, w)
<1>1. TurnEvent(kind, t).kind = kind /\ TurnEvent(kind, t).turn = t
  BY DEF TurnEvent
<1>2. CASE kind = "TurnCompleted"
  BY <1>1, <1>2, Zenon DEF ApplyReplayedEvent, Terminal
<1>3. CASE kind = "TurnAborted"
  BY <1>1, <1>3 DEF ApplyReplayedEvent, Terminal
<1>4. CASE kind = "TurnInterrupted"
  BY <1>1, <1>4 DEF ApplyReplayedEvent, Terminal
<1> QED BY <1>2, <1>3, <1>4

-----------------------------------------------------------------------------
(* The log grows at its end and is written from its start.                 *)

LEMMA PrefixOfFirst ==
  ASSUME NEW one \in Seq(Event), NEW two \in Seq(Event), NEW n \in 0..Len(one)
  PROVE  SubSeq(one \o two, 1, n) = SubSeq(one, 1, n)
<1>1. n \in Nat /\ n <= Len(one) /\ n <= Len(one \o two)
  OBVIOUS
<1>2. \A i \in 1..n : (one \o two)[i] = one[i]
  OBVIOUS
<1> QED BY <1>1, <1>2

LEMMA PrefixOfSecond ==
  ASSUME NEW one \in Seq(Event), NEW two \in Seq(Event), NEW n \in 0..Len(two)
  PROVE  SubSeq(one \o two, 1, Len(one) + n) = one \o SubSeq(two, 1, n)
OBVIOUS

LEMMA PrefixType ==
  ASSUME NEW seq \in Seq(Event), NEW n \in 0..Len(seq)
  PROVE  SubSeq(seq, 1, n) \in Seq(Event)
OBVIOUS

LEMMA Whole == \A seq \in Seq(Event) : SubSeq(seq, 1, Len(seq)) = seq
OBVIOUS

\* Sound to the end of one sequence, and from there to the end of the next.
LEMMA SoundGrows ==
  ASSUME NEW s, NEW one \in Seq(Event), NEW two \in Seq(Event),
         AllSound(s, one), AllSound(ReplayEvents(s, one), two)
  PROVE  AllSound(s, one \o two)
<1> SUFFICES ASSUME NEW n \in 0..Len(one \o two)
             PROVE  Sound(ReplayEvents(s, SubSeq(one \o two, 1, n)))
  BY DEF AllSound
<1>1. Len(one \o two) = Len(one) + Len(two) /\ Len(one) \in Nat /\ Len(two) \in Nat
  OBVIOUS
<1>2. CASE n <= Len(one)
  <2>1. n \in 0..Len(one)
    BY <1>1, <1>2
  <2> QED BY <2>1, PrefixOfFirst, Zenon DEF AllSound
<1>3. CASE n > Len(one)
  <2> DEFINE m == n - Len(one)
  <2>1. m \in 0..Len(two) /\ n = Len(one) + m
    BY <1>1, <1>3
  <2> HIDE DEF m
  <2>2. SubSeq(one \o two, 1, n) = one \o SubSeq(two, 1, m)
    BY <2>1, PrefixOfSecond
  <2>3. SubSeq(two, 1, m) \in Seq(Event)
    BY <2>1, PrefixType
  <2>4. ReplayEvents(s, SubSeq(one \o two, 1, n))
          = ReplayEvents(ReplayEvents(s, one), SubSeq(two, 1, m))
    <3>1. ReplayEvents(s, one \o SubSeq(two, 1, m))
            = ReplayEvents(ReplayEvents(s, one), SubSeq(two, 1, m))
      BY <2>3, ReplayConcat, Zenon
    <3> QED BY <2>2, <3>1, Zenon
  <2> QED BY <2>1, <2>4 DEF AllSound
<1> QED BY <1>1, <1>2, <1>3

LEMMA SoundEnd ==
  ASSUME NEW s, NEW seq \in Seq(Event), AllSound(s, seq)
  PROVE  Sound(s) /\ Sound(ReplayEvents(s, seq))
<1>1. Len(seq) \in 0..Len(seq) /\ 0 \in 0..Len(seq) /\ SubSeq(seq, 1, 0) = <<>>
  OBVIOUS
<1>2. Sound(ReplayEvents(s, SubSeq(seq, 1, 0))) /\ Sound(ReplayEvents(s, SubSeq(seq, 1, Len(seq))))
  BY <1>1, Zenon DEF AllSound
<1>3. SubSeq(seq, 1, Len(seq)) = seq
  BY Whole
<1>4. ReplayEvents(s, SubSeq(seq, 1, 0)) = s
  BY <1>1, ReplayNone, Zenon
<1>5. ReplayEvents(s, SubSeq(seq, 1, Len(seq))) = ReplayEvents(s, seq)
  BY <1>3, Zenon
<1> QED BY <1>2, <1>4, <1>5, Zenon

LEMMA SoundNone ==
  ASSUME NEW s, Sound(s)
  PROVE  AllSound(s, <<>>)
<1> SUFFICES ASSUME NEW n \in 0..Len(<<>>) PROVE Sound(ReplayEvents(s, SubSeq(<<>>, 1, n)))
  BY DEF AllSound
<1>1. SubSeq(<<>>, 1, n) = <<>>
  OBVIOUS
<1> QED BY <1>1, ReplayNone

LEMMA SoundOne ==
  ASSUME NEW s, NEW e \in Event, Sound(s), Sound(ApplyReplayedEvent(s, e))
  PROVE  AllSound(s, <<e>>)
<1> SUFFICES ASSUME NEW n \in 0..Len(<<e>>) PROVE Sound(ReplayEvents(s, SubSeq(<<e>>, 1, n)))
  BY DEF AllSound
<1>1. n = 0 \/ n = 1
  OBVIOUS
<1>2. SubSeq(<<e>>, 1, 0) = <<>>
  OBVIOUS
<1>3. SubSeq(<<e>>, 1, 1) = <<e>>
  <2>1. <<e>> \in Seq(Event) /\ Len(<<e>>) = 1
    OBVIOUS
  <2> QED BY <2>1, Whole, Zenon
<1> QED BY <1>1, <1>2, <1>3, ReplayNone, ReplayOne

LEMMA NothingNew ==
  ASSUME Files, log' = log \o emitted', disk' = disk, emitted' = <<>>
  PROVE  Files' /\ Replayed' = Replayed
<1>1. log' = log
  BY DEF Files
<1> QED BY <1>1 DEF Files, Replayed

LEMMA SomeNew ==
  ASSUME Files, log' = log \o emitted', disk' = disk, emitted' \in Seq(Event),
         AllSound(Replayed, emitted')
  PROVE  Files' /\ Replayed' = ReplayEvents(Replayed, emitted')
<1>1. log \in Seq(Event) /\ log' \in Seq(Event)
  BY DEF Files
<1>2. Replayed' = ReplayEvents(Replayed, emitted')
  BY <1>1, ReplayConcat DEF Replayed
<1>3. AllSound(disk, log \o emitted')
  BY <1>1, SoundGrows DEF Files, Replayed
<1> QED BY <1>1, <1>2, <1>3 DEF Files

LEMMA OneNew ==
  ASSUME Files, log' = log \o emitted', disk' = disk,
         NEW e \in Event, emitted' = <<e>>, Sound(ApplyReplayedEvent(Replayed, e))
  PROVE  Files' /\ Replayed' = ApplyReplayedEvent(Replayed, e)
<1>1. Sound(Replayed)
  BY SoundEnd DEF Files, Replayed
<1>2. AllSound(Replayed, <<e>>)
  BY <1>1, SoundOne
<1>3. emitted' \in Seq(Event) /\ emitted' = <<e>>
  OBVIOUS
<1>4. AllSound(Replayed, emitted')
  BY <1>2, <1>3
<1>5. Files' /\ Replayed' = ReplayEvents(Replayed, emitted')
  BY <1>3, <1>4, SomeNew
<1> QED BY <1>3, <1>5, ReplayOne

LEMMA FilesSound == Files => Sound(disk) /\ Sound(Replayed) /\ Replayed \in Runtimes
<1>1. ASSUME Files PROVE Sound(disk) /\ Sound(Replayed)
  BY <1>1, SoundEnd DEF Files, Replayed
<1> QED BY <1>1 DEF Sound

-----------------------------------------------------------------------------
(* Steps of the engine that no replay sees.                                *)

\* The driver goes from one place of its loop to another.
LEMMA LoopAgrees ==
  ASSUME AgreeInv, TypeInv', ~Idle, log' = log \o emitted', disk' = disk, emitted' = <<>>,
         drive'.turn = drive.turn, drive'.direct = drive.direct,
         drive.at \notin Pausing, drive'.at \notin Pausing,
         turns' = turns \/ turns' = [turns EXCEPT ![drive.turn] = "running"],
         UNCHANGED <<next_turn, approvals, next_approval, questions, snapshots>>,
         next_question' \in {next_question, next_question + 1}
  PROVE  AgreeInv'
<1>1. Files' /\ Replayed' = Replayed
  BY NothingNew DEF AgreeInv
<1>2. /\ drive.turn \in Turn /\ turns \in [Turn -> Status]
      /\ turns[drive.turn] \in {"running"} \cup Waiting
  BY DEF AgreeInv, Matches, DrivenTurn, TypeInv, TypeOK, Idle, Drive
<1>3. /\ turns'[drive.turn] \in {"running"} \cup Waiting
      /\ \A t \in Turn : t # drive.turn => turns'[t] = turns[t]
      /\ \A t \in Turn : turns'[t] \in Terminal <=> turns[t] \in Terminal
      /\ \A t \in Turn : turns'[t] = "absent" <=> turns[t] = "absent"
  BY <1>2 DEF Terminal, Waiting
<1>4. Memory'
  <2>1. \A q \in QuestionId : questions[q].state # "absent" => q <= next_question'
    <3> SUFFICES ASSUME NEW q \in QuestionId, q <= next_question PROVE q <= next_question'
      BY DEF AgreeInv, Memory
    <3>1. q \in Nat /\ next_question \in Nat
      BY BoundsAreNat DEF AgreeInv, TypeInv, TypeOK
    <3> QED BY <3>1
  <2> QED BY <1>3, <2>1 DEF AgreeInv, Memory
<1>5. Matches(Replayed)'
  BY <1>1, <1>2, <1>3 DEF AgreeInv, Matches, DrivenTurn, SameApproval, SameQuestion, Idle, Pausing
<1> QED BY <1>1, <1>4, <1>5 DEF AgreeInv

\* Nothing changes but what the registry of interrupts holds.
LEMMA SameAgrees ==
  ASSUME AgreeInv, TypeInv', log' = log \o emitted', disk' = disk, emitted' = <<>>,
         UNCHANGED <<turns, next_turn, requests, snapshots, drive>>
  PROVE  AgreeInv'
<1>1. Files' /\ Replayed' = Replayed
  BY NothingNew DEF AgreeInv
<1>2. Memory' /\ Matches(Replayed)'
  BY <1>1 DEF AgreeInv, Memory, Matches, DrivenTurn, SameApproval, SameQuestion, Idle, requests
<1> QED BY <1>1, <1>2 DEF AgreeInv

-----------------------------------------------------------------------------
(* A turn ends.                                                            *)

LEMMA EndSound ==
  ASSUME NEW s, Sound(s), NEW t \in Turn, s.turns[t] # "absent", NEW w \in Terminal
  PROVE  Sound(EndTurn(s, t, w))
<1>1. w \in Status
  BY DEF Status
<1>2. s \in Runtimes
  BY DEF Sound
<1> DEFINE r == EndTurn(s, t, w)
<1>3. Ended(s, r, t, w)
  BY <1>1, <1>2, EndTurnIs
<1> HIDE DEF r
<1>4. w # "absent"
  BY DEF Terminal
<1>5. /\ s.turns \in [Turn -> Status] /\ s.snapshots \in [Turn -> Snapshot]
      /\ s.approvals \in [ApprovalId -> Approval]
  BY <1>2 DEF Runtimes
<1>6. \A u \in Turn : /\ r.turns[u] = "absent" <=> u > r.next_turn
                      /\ r.turns[u] \in Terminal \cup {"absent"} => r.snapshots[u] = NoSnapshot
                      /\ r.snapshots[u].held \/ r.snapshots[u] = NoSnapshot
  BY <1>3, <1>4, <1>5 DEF Sound, Ended
<1>7. \A a \in ApprovalId : r.approvals[a].outcome # "absent" => a <= r.next_approval
  <2> SUFFICES ASSUME NEW a \in ApprovalId, r.approvals[a].outcome # "absent"
               PROVE  a <= r.next_approval
    OBVIOUS
  <2>1. s.approvals[a].outcome # "absent"
    BY <1>3 DEF Ended
  <2> QED BY <1>3, <2>1 DEF Sound, Ended
<1>q. \A q \in QuestionId : r.questions[q].state # "absent" => q <= r.next_question
  <2> SUFFICES ASSUME NEW q \in QuestionId, r.questions[q].state # "absent"
               PROVE  q <= r.next_question
    OBVIOUS
  <2>1. s.questions[q].state # "absent"
    <3>1. s.questions[q] \in Question
      BY <1>2 DEF Runtimes
    <3>2. CASE s.questions[q].turn = t
      BY <3>1, <3>2 DEF Question, NoQuestionAsked
    <3>3. CASE s.questions[q].turn # t
      BY <1>3, <3>3 DEF Ended
    <3> QED BY <3>2, <3>3
  <2> QED BY <1>3, <2>1 DEF Sound, Ended
<1>8. Sound(r)
  BY <1>3, <1>6, <1>7, <1>q DEF Sound, Ended
<1> QED BY <1>8 DEF r

LEMMA EndAgrees ==
  ASSUME AgreeInv, TypeInv', log' = log \o emitted', disk' = disk,
         NEW t \in Turn, turns[t] \notin Terminal \cup {"absent"}, Idle \/ t = drive.turn,
         drive.at \notin Pausing, drive' = IdleDrive,
         NEW kind \in {"TurnCompleted", "TurnAborted", "TurnInterrupted"},
         emitted' = <<TurnEvent(kind, t)>>,
         turns' = [turns EXCEPT ![t] = IF kind = "TurnCompleted" THEN "completed" ELSE "aborted"],
         snapshots' = [snapshots EXCEPT ![t] = NoSnapshot],
         UNCHANGED <<next_turn, requests>>
  PROVE  AgreeInv'
<1> DEFINE s == Replayed
<1>1. Sound(s) /\ s \in Runtimes
  BY FilesSound DEF AgreeInv
<1>2. PICK w \in Terminal :
         /\ w = IF kind = "TurnCompleted" THEN "completed" ELSE "aborted"
         /\ ApplyReplayedEvent(s, TurnEvent(kind, t)) = EndTurn(s, t, w)
  BY ApplyEnd
<1>3. s.turns[t] # "absent"
  BY DEF AgreeInv, Matches
<1>4. Sound(EndTurn(s, t, w))
  BY <1>1, <1>3, EndSound
<1>5. TurnEvent(kind, t) \in Event
  BY TurnEventType DEF EventKind
<1>6. Files' /\ Replayed' = EndTurn(s, t, w)
  BY <1>2, <1>4, <1>5, OneNew DEF AgreeInv
<1> DEFINE r == Replayed'
<1>7. /\ r.turns = [s.turns EXCEPT ![t] = w]
      /\ r.snapshots = [s.snapshots EXCEPT ![t] = NoSnapshot]
      /\ \A a \in ApprovalId : r.approvals[a] =
           IF s.approvals[a].turn = t /\ s.approvals[a].outcome = "pending"
           THEN [s.approvals[a] EXCEPT !.outcome = "cancelled"] ELSE s.approvals[a]
      /\ \A q \in QuestionId : r.questions[q] =
           IF s.questions[q].turn = t
           THEN [s.questions[q] EXCEPT !.state = "resolved"] ELSE s.questions[q]
  <2>1. w \in Status
    BY DEF Status
  <2>2. Ended(s, EndTurn(s, t, w), t, w)
    BY <1>1, <2>1, EndTurnIs
  <2>3. Ended(s, Replayed', t, w)
    BY <1>6, <2>2
  <2> QED BY <2>3 DEF Ended
<1>8. /\ s.turns \in [Turn -> Status] /\ s.snapshots \in [Turn -> Snapshot]
      /\ turns \in [Turn -> Status] /\ snapshots \in [Turn -> Snapshot]
      /\ approvals \in [ApprovalId -> Approval] /\ questions \in [QuestionId -> Question]
      /\ w # "absent" /\ turns' = [turns EXCEPT ![t] = w]
  BY <1>1, <1>2 DEF AgreeInv, TypeInv, TypeOK, Runtimes, Terminal
<1>9. Memory'
  BY <1>8 DEF AgreeInv, Memory, requests
<1>10. ~(drive.turn \in Turn) \/ drive.turn = t
  BY DEF Idle
<1>11. /\ \A u \in Turn : turns'[u] = "absent" <=> r.turns[u] = "absent"
       /\ \A u \in Turn : r.turns[u] = turns'[u]
       /\ \A u \in Turn : turns'[u] \notin Terminal => r.snapshots[u] = snapshots'[u]
  <2>1. /\ \A u \in Turn : turns[u] = "absent" <=> s.turns[u] = "absent"
        /\ \A u \in Turn : drive.turn # u => s.turns[u] = turns[u]
        /\ \A u \in Turn : drive.turn # u /\ turns[u] \notin Terminal => s.snapshots[u] = snapshots[u]
    BY DEF AgreeInv, Matches
  <2>2. \A u \in Turn : u # t => drive.turn # u
    BY <1>10
  <2>3. turns'[t] = w /\ r.turns[t] = w /\ w \in Terminal
    BY <1>7, <1>8
  <2>4. \A u \in Turn : u # t => /\ turns'[u] = turns[u] /\ snapshots'[u] = snapshots[u]
                                 /\ r.turns[u] = s.turns[u] /\ r.snapshots[u] = s.snapshots[u]
    BY <1>7, <1>8
  <2> HIDE DEF r, s
  <2>5. ASSUME NEW u \in Turn
        PROVE  /\ r.turns[u] = turns'[u]
               /\ turns'[u] \notin Terminal => r.snapshots[u] = snapshots'[u]
    <3>1. CASE u = t
      BY <2>3, <3>1
    <3>2. CASE u # t
      <4>1. /\ turns'[u] = turns[u] /\ snapshots'[u] = snapshots[u]
            /\ r.turns[u] = s.turns[u] /\ r.snapshots[u] = s.snapshots[u]
        BY <2>4, <3>2
      <4>2. s.turns[u] = turns[u] /\ (turns[u] \notin Terminal => s.snapshots[u] = snapshots[u])
        BY <2>1, <2>2, <3>2
      <4>3. QED BY <4>1, <4>2
    <3>3. QED BY <3>1, <3>2
  <2> QED BY <2>5
<1>12. ASSUME NEW a \in ApprovalId PROVE SameApproval(Replayed, a)'
  <2>1. SameApproval(s, a)
    BY DEF AgreeInv, Matches, Pausing
  <2>2. approvals' = approvals /\ approvals[a] \in Approval
    BY <1>8 DEF requests
  <2>3. s.approvals[a].turn = approvals[a].turn
    BY <2>1, SameTurns DEF AgreeInv
  <2>4. CASE s.approvals[a] = approvals[a]
    BY <1>2, <1>7, <1>8, <2>2, <2>4 DEF SameApproval
  <2>5. CASE s.approvals[a] # approvals[a]
    <3>1. /\ approvals[a].turn \in Turn /\ turns[approvals[a].turn] \in Terminal
          /\ approvals[a].outcome = "pending"
          /\ s.approvals[a] = [approvals[a] EXCEPT !.outcome = "cancelled"]
      BY <2>1, <2>5 DEF SameApproval
    <3>2. approvals[a].turn # t /\ turns'[approvals[a].turn] = turns[approvals[a].turn]
      BY <1>8, <3>1
    <3>3. r.approvals[a] = s.approvals[a]
      BY <1>7, <2>3, <3>2
    <3> QED BY <2>2, <3>1, <3>2, <3>3 DEF SameApproval
  <2> QED BY <2>4, <2>5
<1>13. ASSUME NEW q \in QuestionId PROVE SameQuestion(Replayed, q)'
  <2>1. SameQuestion(s, q)
    BY DEF AgreeInv, Matches, Pausing
  <2>2. questions' = questions /\ questions[q] \in Question
    BY <1>8 DEF requests
  <2>3. s.questions[q].turn = questions[q].turn
    BY <2>1, SameTurns DEF AgreeInv
  <2>4. CASE s.questions[q] = questions[q]
    <3>1. CASE questions[q].turn = t /\ questions[q].state = "open"
      BY <1>2, <1>7, <1>8, <2>2, <2>4, <3>1 DEF SameQuestion
    <3>2. CASE questions[q].turn = t /\ questions[q].state # "open"
      <4>1. [questions[q] EXCEPT !.state = "resolved"] = questions[q]
        BY <2>2, <3>2 DEF Question, NoQuestionAsked
      <4> QED BY <1>7, <2>2, <2>4, <3>2, <4>1 DEF SameQuestion
    <3>3. CASE questions[q].turn # t
      BY <1>7, <2>2, <2>3, <2>4, <3>3 DEF SameQuestion
    <3> QED BY <3>1, <3>2, <3>3
  <2>5. CASE s.questions[q] # questions[q]
    <3>1. /\ questions[q].turn \in Turn /\ turns[questions[q].turn] \in Terminal
          /\ questions[q].state = "open"
          /\ s.questions[q] = [questions[q] EXCEPT !.state = "resolved"]
      BY <2>1, <2>5 DEF SameQuestion
    <3>2. questions[q].turn # t /\ turns'[questions[q].turn] = turns[questions[q].turn]
      BY <1>8, <3>1
    <3>3. r.questions[q] = s.questions[q]
      BY <1>7, <2>3, <3>2
    <3> QED BY <2>2, <3>1, <3>2, <3>3 DEF SameQuestion
  <2> QED BY <2>4, <2>5
<1>14. Idle'
  BY DEF Idle, IdleDrive
<1>15. Matches(Replayed)'
  BY <1>11, <1>12, <1>13, <1>14 DEF Matches
<1> QED BY <1>6, <1>9, <1>15 DEF AgreeInv

-----------------------------------------------------------------------------
(* A turn starts.                                                          *)

LEMMA NextTurnAgrees ==
  ASSUME NEW s, Sound(s), TypeInv, Memory, Matches(s)
  PROVE  s.next_turn = next_turn
<1>1. /\ s.next_turn \in 0..MaxTurns /\ next_turn \in 0..MaxTurns /\ MaxTurns \in Nat
      /\ \A t \in Turn : t > next_turn <=> t > s.next_turn
  BY BoundsAreNat DEF Sound, Runtimes, TypeInv, TypeOK, Memory, Matches
<1>2. next_turn < s.next_turn => FALSE
  <2> HAVE next_turn < s.next_turn
  <2>1. s.next_turn \in Turn
    BY <1>1
  <2> QED BY <1>1, <2>1
<1>3. s.next_turn < next_turn => FALSE
  <2> HAVE s.next_turn < next_turn
  <2>1. next_turn \in Turn
    BY <1>1
  <2> QED BY <1>1, <2>1
<1> QED BY <1>1, <1>2, <1>3

LEMMA StartAgrees ==
  ASSUME AgreeInv, TypeInv', log' = log \o emitted', disk' = disk,
         NEW provider \in Providers, NEW background \in BOOLEAN, NEW first \in FirstApprovals,
         RunAgenticTurn(provider, background, first)
  PROVE  AgreeInv'
<1> DEFINE s == Replayed
           t == next_turn + 1
           r == Replayed'
<1>1. Sound(s) /\ s \in Runtimes
  BY FilesSound DEF AgreeInv
<1>2. s.next_turn = next_turn
  BY <1>1, NextTurnAgrees DEF AgreeInv
<1>3. t \in Turn /\ t > next_turn /\ next_turn \in 0..MaxTurns /\ MaxTurns \in Nat
  BY BoundsAreNat DEF RunAgenticTurn, AgreeInv, TypeInv, TypeOK
<1>4. /\ s.turns \in [Turn -> Status] /\ s.snapshots \in [Turn -> Snapshot]
      /\ turns \in [Turn -> Status] /\ snapshots \in [Turn -> Snapshot]
  BY <1>1 DEF AgreeInv, TypeInv, TypeOK, Runtimes
<1>5. /\ turns[t] = "absent" /\ s.turns[t] = "absent"
      /\ snapshots[t] = NoSnapshot /\ s.snapshots[t] = NoSnapshot
  <2>1. turns[t] = "absent" /\ snapshots[t] = NoSnapshot
    BY <1>3 DEF AgreeInv, Memory
  <2>2. s.turns[t] = "absent" /\ s.snapshots[t] = NoSnapshot
    BY <1>1, <1>2, <1>3 DEF Sound
  <2> QED BY <2>1, <2>2
<1> DEFINE e == [s EXCEPT !.turns = [s.turns EXCEPT ![t] = "running"], !.next_turn = t]
<1>6. ApplyReplayedEvent(s, TurnEvent("TurnStarted", t)) = e
  <2>1. /\ TurnEvent("TurnStarted", t).kind = "TurnStarted"
        /\ TurnEvent("TurnStarted", t).turn = t
    BY DEF TurnEvent
  <2>2. ApplyReplayedEvent(s, TurnEvent("TurnStarted", t))
          = [s EXCEPT !.turns[t] = "running", !.next_turn = Bump(@, t)]
    BY <2>1 DEF ApplyReplayedEvent
  <2>3. Bump(s.next_turn, t) = t
    BY <1>2, <1>3 DEF Bump
  <2> HIDE DEF s, t
  <2>4. s \in Runtimes
    BY <1>1
  <2> QED BY <2>2, <2>3, <2>4 DEF Runtimes
<1>7. /\ e \in Runtimes
      /\ e.turns = [s.turns EXCEPT ![t] = "running"] /\ e.next_turn = t
      /\ e.approvals = s.approvals /\ e.next_approval = s.next_approval
      /\ e.questions = s.questions /\ e.next_question = s.next_question
      /\ e.snapshots = s.snapshots
  <2>1. t \in 0..MaxTurns /\ [s.turns EXCEPT ![t] = "running"] \in [Turn -> Status]
    BY <1>3, <1>4 DEF Status
  <2> HIDE DEF s, t
  <2>2. s \in Runtimes
    BY <1>1
  <2> QED BY <2>1, <2>2 DEF Runtimes
<1>8. Sound(e)
  <2> HIDE DEF e
  <2>1. \A u \in Turn : e.turns[u] = "absent" <=> u > e.next_turn
    BY <1>1, <1>2, <1>3, <1>4, <1>7 DEF Sound
  <2>2. \A u \in Turn : e.turns[u] \in Terminal \cup {"absent"} => e.snapshots[u] = NoSnapshot
    BY <1>1, <1>4, <1>5, <1>7 DEF Sound
  <2> QED BY <1>1, <1>7, <2>1, <2>2 DEF Sound
<1>9. TurnEvent("TurnStarted", t) \in Event
  BY <1>3, TurnEventType DEF EventKind
<1>10. emitted' = <<TurnEvent("TurnStarted", t)>>
  BY DEF RunAgenticTurn, StartTurn
<1>11. Files' /\ Replayed' = e
  BY <1>6, <1>8, <1>9, <1>10, OneNew DEF AgreeInv
<1>12. /\ turns' = [turns EXCEPT ![t] = "running"] /\ next_turn' = t
       /\ UNCHANGED <<approvals, next_approval, questions, next_question, snapshots>>
       /\ drive'.turn = t /\ drive'.at = "loop" /\ Idle
  BY DEF RunAgenticTurn, StartTurn, IdleDrive, requests
<1> HIDE DEF e
<1>13. Memory'
  BY <1>3, <1>4, <1>5, <1>12 DEF AgreeInv, Memory
<1>14. \A u \in Turn : u # t => /\ turns'[u] = turns[u] /\ r.turns[u] = s.turns[u]
  BY <1>4, <1>7, <1>11, <1>12
<1>15. /\ turns'[t] = "running" /\ r.turns[t] = "running"
       /\ r.snapshots = s.snapshots /\ r.approvals = s.approvals /\ r.questions = s.questions
  BY <1>3, <1>4, <1>7, <1>11, <1>12
<1>16. /\ \A u \in Turn : turns'[u] = "absent" <=> r.turns[u] = "absent"
       /\ \A u \in Turn : drive'.turn # u => r.turns[u] = turns'[u]
       /\ \A u \in Turn : drive'.turn # u /\ turns'[u] \notin Terminal =>
            r.snapshots[u] = snapshots'[u]
  <2>1. /\ \A u \in Turn : turns[u] = "absent" <=> s.turns[u] = "absent"
        /\ \A u \in Turn : drive.turn # u => s.turns[u] = turns[u]
        /\ \A u \in Turn : drive.turn # u /\ turns[u] \notin Terminal => s.snapshots[u] = snapshots[u]
    BY DEF AgreeInv, Matches
  <2>2. \A u \in Turn : drive.turn # u
    BY <1>12 DEF Idle
  <2> HIDE DEF r, s, t
  <2> QED BY <1>12, <1>14, <1>15, <2>1, <2>2
<1>17. \A u \in Turn : turns[u] \in Terminal => turns'[u] \in Terminal
  BY <1>5, <1>14 DEF Terminal
<1>18. /\ \A a \in ApprovalId : SameApproval(Replayed, a)'
       /\ \A q \in QuestionId : SameQuestion(Replayed, q)'
  <2>1. /\ \A a \in ApprovalId : SameApproval(s, a)
        /\ \A q \in QuestionId : SameQuestion(s, q)
    BY <1>12 DEF AgreeInv, Matches, Idle, TypeInv, Shape, IdleDrive
  <2> QED BY <1>12, <1>15, <1>17, <2>1 DEF SameApproval, SameQuestion
<1>19. DrivenTurn(Replayed)'
  BY <1>5, <1>12, <1>15 DEF DrivenTurn, Pausing
<1>20. Matches(Replayed)'
  BY <1>16, <1>18, <1>19 DEF Matches
<1> QED BY <1>11, <1>13, <1>20 DEF AgreeInv

-----------------------------------------------------------------------------
(* A turn pauses: first the request and the transcript, then the status.   *)

\* What keeping the transcript does to the files and to the memory.
LEMMA KeepTranscriptAgrees ==
  ASSUME AgreeInv, TypeInv', log' = log \o emitted', disk' = disk,
         ~Idle, drive.at \notin Pausing, KeepTranscript
  PROVE  /\ Files'
         /\ Replayed'.turns = Replayed.turns
         /\ Replayed'.approvals = Replayed.approvals
         /\ Replayed'.questions = Replayed.questions
         /\ \A u \in Turn : u # drive.turn => /\ snapshots'[u] = snapshots[u]
                                              /\ Replayed'.snapshots[u] = Replayed.snapshots[u]
         /\ Replayed'.snapshots[drive.turn] = snapshots'[drive.turn]
         /\ Replayed'.snapshots[drive.turn] = NoSnapshot \/ drive.direct
         /\ snapshots'[drive.turn].held \/ snapshots'[drive.turn] = NoSnapshot
<1> DEFINE s == Replayed
           t == drive.turn
           k == [held |-> TRUE, unanswered |-> drive.unanswered]
<1>1. Sound(s) /\ s \in Runtimes
  BY FilesSound DEF AgreeInv
<1>2. t \in Turn /\ drive.unanswered \in SUBSET Calls
  BY DEF AgreeInv, TypeInv, TypeOK, Drive, Idle
<1>3. /\ s.turns[t] \in {"running"} \cup Waiting
      /\ snapshots[t] = NoSnapshot
      /\ s.snapshots[t] = NoSnapshot \/ drive.direct
  BY DEF AgreeInv, Matches, DrivenTurn
<1>4. /\ s.turns \in [Turn -> Status] /\ s.snapshots \in [Turn -> Snapshot]
      /\ snapshots \in [Turn -> Snapshot]
  BY <1>1 DEF AgreeInv, TypeInv, TypeOK, Runtimes
<1>5. CASE drive.direct
  <2> DEFINE e == SnapshotEvent(t, drive.unanswered)
             r == [s EXCEPT !.snapshots = [s.snapshots EXCEPT ![t] = k]]
  <2>1. e \in Event /\ emitted' = <<e>> /\ snapshots' = [snapshots EXCEPT ![t] = k]
    <3>1. e \in Event
      BY <1>2 DEF SnapshotEvent, Event, EventKind
    <3> QED BY <1>5, <3>1, Zenon DEF KeepTranscript
  <2>2. ApplyReplayedEvent(s, e) = r
    <3>1. /\ e.kind = "ProviderTranscriptSnapshot" /\ e.turn = t
          /\ e.unanswered = drive.unanswered
      BY DEF SnapshotEvent
    <3>2. ApplyReplayedEvent(s, e) =
            [s EXCEPT !.snapshots[e.turn] = [held |-> TRUE, unanswered |-> e.unanswered]]
      BY <3>1 DEF ApplyReplayedEvent
    <3>3. ApplyReplayedEvent(s, e) = [s EXCEPT !.snapshots[t] = k]
      BY <3>1, <3>2
    <3> HIDE DEF s, t, k, e
    <3>4. s \in Runtimes
      BY <1>1
    <3> QED BY <3>3, <3>4 DEF Runtimes
  <2>3. k \in Snapshot /\ k.held
    BY <1>2 DEF Snapshot
  <2>4. /\ r \in Runtimes /\ r.turns = s.turns /\ r.next_turn = s.next_turn
        /\ r.approvals = s.approvals /\ r.next_approval = s.next_approval
        /\ r.questions = s.questions /\ r.next_question = s.next_question
        /\ r.snapshots = [s.snapshots EXCEPT ![t] = k]
    <3>1. [s.snapshots EXCEPT ![t] = k] \in [Turn -> Snapshot]
      BY <1>4, <2>3
    <3> HIDE DEF s, t, k
    <3>2. s \in Runtimes
      BY <1>1
    <3> QED BY <3>1, <3>2 DEF Runtimes
  <2> HIDE DEF r, k, e
  <2>5. Sound(r)
    <3>1. \A u \in Turn : r.turns[u] \in Terminal \cup {"absent"} => r.snapshots[u] = NoSnapshot
      BY <1>1, <1>3, <1>4, <2>4 DEF Sound, Terminal, Waiting
    <3>2. \A u \in Turn : r.snapshots[u].held \/ r.snapshots[u] = NoSnapshot
      BY <1>1, <1>4, <2>3, <2>4 DEF Sound
    <3> QED BY <1>1, <2>4, <3>1, <3>2 DEF Sound
  <2>6. Files' /\ Replayed' = r
    BY <2>1, <2>2, <2>5, OneNew DEF AgreeInv
  <2> QED BY <1>2, <1>4, <1>5, <2>1, <2>3, <2>4, <2>6
<1>6. CASE ~drive.direct
  <2>1. emitted' = <<>> /\ snapshots' = snapshots
    BY <1>6, Zenon DEF KeepTranscript
  <2>2. Files' /\ Replayed' = Replayed
    BY <2>1, NothingNew DEF AgreeInv
  <2> QED BY <1>3, <1>6, <2>1, <2>2
<1> QED BY <1>5, <1>6

LEMMA PausingAgrees ==
  ASSUME AgreeInv, TypeInv', log' = log \o emitted', disk' = disk,
         ~Idle, drive.at \notin Pausing, KeepTranscript,
         NEW place \in Pausing, drive' = [drive EXCEPT !.at = place],
         UNCHANGED <<turns, next_turn>>,
         next_approval <= next_approval', next_question <= next_question',
         \A a \in ApprovalId : approvals'[a] # approvals[a] =>
           place = "pausingForApproval" /\ a = next_approval',
         \A q \in QuestionId : questions'[q] # questions[q] =>
           place = "pausingForUser" /\ q = next_question',
         place = "pausingForApproval" =>
           /\ next_approval' \in ApprovalId
           /\ approvals'[next_approval'] =
                [turn |-> drive.turn, call |-> Head(drive.calls), outcome |-> "pending"],
         place = "pausingForUser" =>
           /\ next_question' \in QuestionId
           /\ questions'[next_question'] =
                [turn |-> drive.turn, call |-> Head(drive.calls), state |-> "open"]
  PROVE  AgreeInv'
<1> DEFINE s == Replayed
           t == drive.turn
           r == Replayed'
<1>1. /\ Files' /\ r.turns = s.turns /\ r.approvals = s.approvals /\ r.questions = s.questions
      /\ \A u \in Turn : u # t => /\ snapshots'[u] = snapshots[u]
                                  /\ r.snapshots[u] = s.snapshots[u]
      /\ r.snapshots[t] = snapshots'[t]
      /\ r.snapshots[t] = NoSnapshot \/ drive.direct
      /\ snapshots'[t].held \/ snapshots'[t] = NoSnapshot
  BY KeepTranscriptAgrees
<1>2. /\ t \in Turn /\ turns[t] \in {"running"} \cup Waiting
      /\ s.turns[t] \in {"running"} \cup Waiting
  BY DEF AgreeInv, TypeInv, TypeOK, Drive, Idle, Matches, DrivenTurn
<1>3. /\ drive'.turn = t /\ drive'.at = place /\ drive'.direct = drive.direct
      /\ drive'.calls = drive.calls
  BY DEF AgreeInv, TypeInv, TypeOK, Drive
<1>4. Memory'
  <2>1. \A u \in Turn : /\ turns[u] = "absent" => snapshots'[u] = NoSnapshot
                        /\ snapshots'[u].held \/ snapshots'[u] = NoSnapshot
    BY <1>1, <1>2 DEF AgreeInv, Memory, Waiting
  <2>2. \A a \in ApprovalId : approvals'[a].outcome # "absent" => a <= next_approval'
    <3> SUFFICES ASSUME NEW a \in ApprovalId, approvals'[a].outcome # "absent"
                 PROVE  a <= next_approval'
      OBVIOUS
    <3>1. next_approval \in Nat /\ next_approval' \in Nat
      BY BoundsAreNat DEF AgreeInv, TypeInv, TypeOK
    <3> QED BY <3>1, BoundsAreNat DEF AgreeInv, Memory
  <2>3. \A q \in QuestionId : questions'[q].state # "absent" => q <= next_question'
    <3> SUFFICES ASSUME NEW q \in QuestionId, questions'[q].state # "absent"
                 PROVE  q <= next_question'
      OBVIOUS
    <3>1. next_question \in Nat /\ next_question' \in Nat
      BY BoundsAreNat DEF AgreeInv, TypeInv, TypeOK
    <3> QED BY <3>1, BoundsAreNat DEF AgreeInv, Memory
  <2> QED BY <2>1, <2>2, <2>3 DEF AgreeInv, Memory
<1>5. /\ \A u \in Turn : turns'[u] = "absent" <=> r.turns[u] = "absent"
      /\ \A u \in Turn : drive'.turn # u => r.turns[u] = turns'[u]
      /\ \A u \in Turn : drive'.turn # u /\ turns'[u] \notin Terminal =>
           r.snapshots[u] = snapshots'[u]
  <2>1. /\ \A u \in Turn : turns[u] = "absent" <=> s.turns[u] = "absent"
        /\ \A u \in Turn : drive.turn # u => s.turns[u] = turns[u]
        /\ \A u \in Turn : drive.turn # u /\ turns[u] \notin Terminal => s.snapshots[u] = snapshots[u]
    BY DEF AgreeInv, Matches
  <2> HIDE DEF r, s
  <2> QED BY <1>1, <1>3, <2>1
<1>6. /\ \A a \in ApprovalId : ~(place = "pausingForApproval" /\ a = next_approval') =>
           SameApproval(Replayed, a)'
      /\ \A q \in QuestionId : ~(place = "pausingForUser" /\ q = next_question') =>
           SameQuestion(Replayed, q)'
  <2>1. /\ \A a \in ApprovalId : SameApproval(s, a)
        /\ \A q \in QuestionId : SameQuestion(s, q)
    BY DEF AgreeInv, Matches, Pausing
  <2>2. ASSUME NEW a \in ApprovalId, ~(place = "pausingForApproval" /\ a = next_approval')
        PROVE  SameApproval(Replayed, a)'
    <3>1. /\ approvals'[a] = approvals[a] /\ turns' = turns
          /\ Replayed'.approvals[a] = Replayed.approvals[a]
      BY <1>1, <2>2
    <3> QED BY ONLY <2>1, <3>1, SameApproval(s, a) DEF SameApproval
  <2>3. ASSUME NEW q \in QuestionId, ~(place = "pausingForUser" /\ q = next_question')
        PROVE  SameQuestion(Replayed, q)'
    <3>1. /\ questions'[q] = questions[q] /\ turns' = turns
          /\ Replayed'.questions[q] = Replayed.questions[q]
      BY <1>1, <2>3
    <3> QED BY ONLY <2>1, <3>1, SameQuestion(s, q) DEF SameQuestion
  <2> QED BY <2>2, <2>3
<1>7. DrivenTurn(Replayed)'
  <2> HIDE DEF r, s, t
  <2>1. /\ turns'[t] \in {"running"} \cup Waiting /\ r.turns[t] \in {"running"} \cup Waiting
        /\ drive'.at \in Pausing
    BY <1>1, <1>2, <1>3
  <2> QED BY <1>1, <1>3, <2>1 DEF DrivenTurn, r, s, t
<1>8. Matches(Replayed)'
  BY <1>3, <1>5, <1>6, <1>7 DEF Matches
<1> QED BY <1>1, <1>4, <1>8 DEF AgreeInv

LEMMA AskUserAgrees ==
  ASSUME AgreeInv, TypeInv', log' = log \o emitted', disk' = disk, AskUser
  PROVE  AgreeInv'
<1>1. ~Idle /\ drive.at \notin Pausing /\ KeepTranscript
  BY DEF AskUser, NotInterrupted, AgreeInv, TypeInv, Shape, IdleDrive, Pausing
<1>2. /\ next_question' = next_question + 1 /\ next_question + 1 \in QuestionId
      /\ questions' = [questions EXCEPT ![next_question + 1] =
                     [turn |-> drive.turn, call |-> Head(drive.calls), state |-> "open"]]
      /\ drive' = [drive EXCEPT !.at = "pausingForUser"]
      /\ UNCHANGED <<turns, next_turn, approvals, next_approval>>
  BY BoundsAreNat DEF AskUser, AgreeInv, TypeInv, TypeOK
<1>3. questions \in [QuestionId -> Question] /\ next_approval \in Nat /\ next_question \in Nat
  BY BoundsAreNat DEF AgreeInv, TypeInv, TypeOK
<1> QED BY <1>1, <1>2, <1>3, PausingAgrees DEF Pausing

LEMMA RequestToolApprovalAgrees ==
  ASSUME AgreeInv, TypeInv', log' = log \o emitted', disk' = disk, RequestToolApproval
  PROVE  AgreeInv'
<1>1. ~Idle /\ drive.at \notin Pausing /\ KeepTranscript
  BY DEF RequestToolApproval, NotInterrupted, AgreeInv, TypeInv, Shape, IdleDrive, Pausing
<1>2. /\ next_approval' = next_approval + 1 /\ next_approval + 1 \in ApprovalId
      /\ approvals' = [approvals EXCEPT ![next_approval + 1] =
                     [turn |-> drive.turn, call |-> Head(drive.calls), outcome |-> "pending"]]
      /\ drive' = [drive EXCEPT !.at = "pausingForApproval"]
      /\ UNCHANGED <<turns, next_turn, questions, next_question>>
  BY BoundsAreNat DEF RequestToolApproval, AgreeInv, TypeInv, TypeOK
<1>3. approvals \in [ApprovalId -> Approval] /\ next_approval \in Nat /\ next_question \in Nat
  BY BoundsAreNat DEF AgreeInv, TypeInv, TypeOK
<1> QED BY <1>1, <1>2, <1>3, PausingAgrees DEF Pausing

LEMMA OnlyId == \A i : TheId({i}) = i
BY DEF TheId

LEMMA PauseForUserAgrees ==
  ASSUME AgreeInv, TypeInv', log' = log \o emitted', disk' = disk, PauseForUser
  PROVE  AgreeInv'
<1> DEFINE s == Replayed
           t == drive.turn
           q == next_question
           c == Head(drive.calls)
           n == [turn |-> t, call |-> c, state |-> "open"]
           e == RequestEvent("AskUserRequested", t, {q}, c, "none")
           T == [s.turns EXCEPT ![t] = "waitingForUser"]
           G == [s.questions EXCEPT ![q] = n]
           m == IF q > s.next_question THEN q ELSE s.next_question
           z == [s EXCEPT !.turns = T, !.questions = G, !.next_question = m]
           r == Replayed'
<1>1. Sound(s) /\ s \in Runtimes
  BY FilesSound DEF AgreeInv
<1>2. /\ drive.at = "pausingForUser" /\ ~Idle /\ t \in Turn
      /\ turns' = [turns EXCEPT ![t] = "waitingForUser"]
      /\ emitted' = <<e>> /\ drive' = IdleDrive
      /\ UNCHANGED <<next_turn, approvals, next_approval, questions, next_question, snapshots>>
  BY DEF PauseForUser, requests, AgreeInv, TypeInv, TypeOK, Drive, Shape, IdleDrive, Idle
<1>3. /\ turns[t] \in {"running"} \cup Waiting /\ s.turns[t] \in {"running"} \cup Waiting
      /\ s.snapshots[t] = snapshots[t]
      /\ q \in QuestionId /\ questions[q] = n
  BY <1>2 DEF AgreeInv, Matches, DrivenTurn, Pausing
<1>4. /\ s.turns \in [Turn -> Status] /\ s.snapshots \in [Turn -> Snapshot]
      /\ s.questions \in [QuestionId -> Question] /\ s.next_question \in 0..MaxQuestions
      /\ turns \in [Turn -> Status] /\ questions \in [QuestionId -> Question]
  BY <1>1 DEF AgreeInv, TypeInv, TypeOK, Runtimes
<1>5. n \in Question /\ c \in Calls
  <2>1. questions[q] \in Question /\ n.turn # NoTurn
    BY <1>2, <1>3, <1>4
  <2> QED BY <1>3, <2>1 DEF Question, NoQuestionAsked
<1>6. e \in Event
  BY <1>2, <1>3, <1>5, RequestEventType DEF EventKind
<1>7. ApplyReplayedEvent(s, e) = z
  <2>1. /\ e.kind = "AskUserRequested" /\ e.turn = t /\ e.ids = {q} /\ e.call = c
    BY DEF RequestEvent
  <2>2. ApplyReplayedEvent(s, e) =
         [WaitFor(s, e.turn, "waitingForUser") EXCEPT
            !.next_question = Bump(@, TheId(e.ids)),
            !.questions[TheId(e.ids)] =
               [turn |-> e.turn, call |-> e.call, state |-> "open"]]
    BY <2>1 DEF ApplyReplayedEvent
  <2>3. WaitFor(s, t, "waitingForUser") = [s EXCEPT !.turns = T]
    BY <1>2 DEF WaitFor
  <2>4. ApplyReplayedEvent(s, e) =
         [[s EXCEPT !.turns = T] EXCEPT !.next_question = Bump(@, q), !.questions[q] = n]
    BY <2>1, <2>2, <2>3, OnlyId
  <2> HIDE DEF s, t, e, n, T
  <2>5. s \in Runtimes
    BY <1>1
  <2> QED BY <2>4, <2>5 DEF Runtimes, Bump
<1>8. /\ z \in Runtimes /\ z.turns = T /\ z.questions = G
      /\ z.approvals = s.approvals /\ z.snapshots = s.snapshots
      /\ z.next_turn = s.next_turn /\ z.next_approval = s.next_approval
      /\ z.next_question = m /\ m \in Nat /\ m >= s.next_question /\ m >= q
  <2>1. T \in [Turn -> Status] /\ G \in [QuestionId -> Question] /\ m \in 0..MaxQuestions
        /\ m \in Nat /\ m >= s.next_question /\ m >= q
    BY <1>2, <1>3, <1>4, <1>5, BoundsAreNat DEF Status, Waiting
  <2> HIDE DEF s, T, G, m
  <2>2. s \in Runtimes
    BY <1>1
  <2> QED BY <2>1, <2>2 DEF Runtimes
<1> HIDE DEF z, m, e
<1>9. Sound(z)
  <2>1. \A u \in Turn : /\ z.turns[u] = "absent" <=> u > z.next_turn
                        /\ z.turns[u] \in Terminal \cup {"absent"} => z.snapshots[u] = NoSnapshot
    BY <1>1, <1>3, <1>4, <1>8 DEF Sound, Terminal, Waiting
  <2>2. \A i \in QuestionId : z.questions[i].state # "absent" => i <= z.next_question
    <3> SUFFICES ASSUME NEW i \in QuestionId, z.questions[i].state # "absent"
                 PROVE  i <= z.next_question
      OBVIOUS
    <3>1. CASE i = q
      BY <1>8, <3>1
    <3>2. CASE i # q
      <4>1. s.questions[i].state # "absent"
        BY <1>4, <1>8, <3>2
      <4>2. i <= s.next_question /\ s.next_question \in Nat /\ i \in Nat
        BY <1>1, <1>4, <4>1, BoundsAreNat DEF Sound
      <4> QED BY <1>8, <4>2
    <3> QED BY <3>1, <3>2
  <2> QED BY <1>1, <1>8, <2>1, <2>2 DEF Sound
<1>10. Files' /\ Replayed' = z
  BY <1>2, <1>6, <1>7, <1>9, OneNew DEF AgreeInv
<1>11. Memory'
  BY <1>2, <1>3, <1>4 DEF AgreeInv, Memory, Waiting
<1>12. /\ \A u \in Turn : turns'[u] = "absent" <=> r.turns[u] = "absent"
       /\ \A u \in Turn : r.turns[u] = turns'[u]
       /\ \A u \in Turn : turns'[u] \notin Terminal => r.snapshots[u] = snapshots'[u]
  <2>1. /\ \A u \in Turn : turns[u] = "absent" <=> s.turns[u] = "absent"
        /\ \A u \in Turn : drive.turn # u => s.turns[u] = turns[u]
        /\ \A u \in Turn : drive.turn # u /\ turns[u] \notin Terminal => s.snapshots[u] = snapshots[u]
    BY DEF AgreeInv, Matches
  <2>2. \A u \in Turn : u # t => turns'[u] = turns[u] /\ r.turns[u] = s.turns[u]
    BY <1>2, <1>4, <1>8, <1>10
  <2>3. turns'[t] = "waitingForUser" /\ r.turns[t] = "waitingForUser" /\ r.snapshots = s.snapshots
    BY <1>2, <1>4, <1>8, <1>10
  <2> HIDE DEF r, s
  <2> QED BY <1>2, <1>3, <2>1, <2>2, <2>3
<1>13. \A u \in Turn : turns[u] \in Terminal => turns'[u] \in Terminal
  BY <1>2, <1>3, <1>4 DEF Terminal, Waiting
<1>14. ASSUME NEW a \in ApprovalId PROVE SameApproval(Replayed, a)'
  <2>1. SameApproval(s, a)
    BY <1>2 DEF AgreeInv, Matches
  <2>2. approvals'[a] = approvals[a] /\ Replayed'.approvals[a] = Replayed.approvals[a]
    BY <1>2, <1>8, <1>10
  <2> QED BY ONLY <1>13, <2>1, <2>2 DEF SameApproval
<1>15. ASSUME NEW i \in QuestionId PROVE SameQuestion(Replayed, i)'
  <2>1. CASE i = q
    <3>1. questions'[i] = n /\ Replayed'.questions[i] = n
      BY <1>2, <1>3, <1>4, <1>8, <1>10, <2>1
    <3> QED BY <3>1 DEF SameQuestion
  <2>2. CASE i # q
    <3>1. SameQuestion(s, i)
      BY <1>2, <2>2 DEF AgreeInv, Matches
    <3>2. questions'[i] = questions[i] /\ Replayed'.questions[i] = Replayed.questions[i]
      BY <1>2, <1>4, <1>8, <1>10, <2>2
    <3> QED BY ONLY <1>13, <3>1, <3>2 DEF SameQuestion
  <2> QED BY <2>1, <2>2
<1>16. Idle'
  BY <1>2 DEF Idle, IdleDrive
<1>17. Matches(Replayed)'
  BY <1>12, <1>14, <1>15, <1>16 DEF Matches
<1> QED BY <1>10, <1>11, <1>17 DEF AgreeInv

LEMMA PauseForApprovalAgrees ==
  ASSUME AgreeInv, TypeInv', log' = log \o emitted', disk' = disk, PauseForApproval
  PROVE  AgreeInv'
<1> DEFINE s == Replayed
           t == drive.turn
           a == next_approval
           c == Head(drive.calls)
           n == [turn |-> t, call |-> c, outcome |-> "pending"]
           e == RequestEvent("ApprovalRequested", t, {a}, c, "none")
           T == [s.turns EXCEPT ![t] = "waitingForApproval"]
           G == [s.approvals EXCEPT ![a] = n]
           m == IF a > s.next_approval THEN a ELSE s.next_approval
           z == [s EXCEPT !.turns = T, !.approvals = G, !.next_approval = m]
           r == Replayed'
<1>1. Sound(s) /\ s \in Runtimes
  BY FilesSound DEF AgreeInv
<1>2. /\ drive.at = "pausingForApproval" /\ ~Idle /\ t \in Turn
      /\ turns' = [turns EXCEPT ![t] = "waitingForApproval"]
      /\ emitted' = <<e>> /\ drive' = IdleDrive
      /\ UNCHANGED <<next_turn, approvals, next_approval, questions, next_question, snapshots>>
  BY DEF PauseForApproval, requests, AgreeInv, TypeInv, TypeOK, Drive, Shape, IdleDrive, Idle
<1>3. /\ turns[t] \in {"running"} \cup Waiting /\ s.turns[t] \in {"running"} \cup Waiting
      /\ s.snapshots[t] = snapshots[t]
      /\ a \in ApprovalId /\ approvals[a] = n
  BY <1>2 DEF AgreeInv, Matches, DrivenTurn, Pausing
<1>4. /\ s.turns \in [Turn -> Status] /\ s.snapshots \in [Turn -> Snapshot]
      /\ s.approvals \in [ApprovalId -> Approval] /\ s.next_approval \in 0..MaxApprovals
      /\ turns \in [Turn -> Status] /\ approvals \in [ApprovalId -> Approval]
  BY <1>1 DEF AgreeInv, TypeInv, TypeOK, Runtimes
<1>5. n \in Approval /\ c \in Calls
  <2>1. approvals[a] \in Approval /\ n.turn # NoTurn
    BY <1>2, <1>3, <1>4
  <2> QED BY <1>3, <2>1 DEF Approval, NoApproval
<1>6. e \in Event
  BY <1>2, <1>3, <1>5, RequestEventType DEF EventKind
<1>7. ApplyReplayedEvent(s, e) = z
  <2>1. /\ e.kind = "ApprovalRequested" /\ e.turn = t /\ e.ids = {a} /\ e.call = c
    BY DEF RequestEvent
  <2>2. ApplyReplayedEvent(s, e) =
         [WaitFor(s, e.turn, "waitingForApproval") EXCEPT
            !.next_approval = Bump(@, TheId(e.ids)),
            !.approvals[TheId(e.ids)] =
               [turn |-> e.turn, call |-> e.call, outcome |-> "pending"]]
    BY <2>1 DEF ApplyReplayedEvent
  <2>3. WaitFor(s, t, "waitingForApproval") = [s EXCEPT !.turns = T]
    BY <1>2 DEF WaitFor
  <2>4. ApplyReplayedEvent(s, e) =
         [[s EXCEPT !.turns = T] EXCEPT !.next_approval = Bump(@, a), !.approvals[a] = n]
    BY <2>1, <2>2, <2>3, OnlyId
  <2> HIDE DEF s, t, e, n, T
  <2>5. s \in Runtimes
    BY <1>1
  <2> QED BY <2>4, <2>5 DEF Runtimes, Bump
<1>8. /\ z \in Runtimes /\ z.turns = T /\ z.approvals = G
      /\ z.questions = s.questions /\ z.snapshots = s.snapshots
      /\ z.next_turn = s.next_turn /\ z.next_approval = m /\ z.next_question = s.next_question
      /\ m \in Nat /\ m >= s.next_approval /\ m >= a
  <2>1. T \in [Turn -> Status] /\ G \in [ApprovalId -> Approval] /\ m \in 0..MaxApprovals
        /\ m \in Nat /\ m >= s.next_approval /\ m >= a
    BY <1>2, <1>3, <1>4, <1>5, BoundsAreNat DEF Status, Waiting
  <2> HIDE DEF s, T, G, m
  <2>2. s \in Runtimes
    BY <1>1
  <2> QED BY <2>1, <2>2 DEF Runtimes
<1> HIDE DEF z, m, e
<1>9. Sound(z)
  <2>1. \A u \in Turn : /\ z.turns[u] = "absent" <=> u > z.next_turn
                        /\ z.turns[u] \in Terminal \cup {"absent"} => z.snapshots[u] = NoSnapshot
    BY <1>1, <1>3, <1>4, <1>8 DEF Sound, Terminal, Waiting
  <2>2. \A i \in ApprovalId : z.approvals[i].outcome # "absent" => i <= z.next_approval
    <3> SUFFICES ASSUME NEW i \in ApprovalId, z.approvals[i].outcome # "absent"
                 PROVE  i <= z.next_approval
      OBVIOUS
    <3>1. CASE i = a
      BY <1>8, <3>1
    <3>2. CASE i # a
      <4>1. s.approvals[i].outcome # "absent"
        BY <1>4, <1>8, <3>2
      <4>2. i <= s.next_approval /\ s.next_approval \in Nat /\ i \in Nat
        BY <1>1, <1>4, <4>1, BoundsAreNat DEF Sound
      <4> QED BY <1>8, <4>2
    <3> QED BY <3>1, <3>2
  <2> QED BY <1>1, <1>8, <2>1, <2>2 DEF Sound
<1>10. Files' /\ Replayed' = z
  BY <1>2, <1>6, <1>7, <1>9, OneNew DEF AgreeInv
<1>11. Memory'
  BY <1>2, <1>3, <1>4 DEF AgreeInv, Memory, Waiting
<1>12. /\ \A u \in Turn : turns'[u] = "absent" <=> r.turns[u] = "absent"
       /\ \A u \in Turn : r.turns[u] = turns'[u]
       /\ \A u \in Turn : turns'[u] \notin Terminal => r.snapshots[u] = snapshots'[u]
  <2>1. /\ \A u \in Turn : turns[u] = "absent" <=> s.turns[u] = "absent"
        /\ \A u \in Turn : drive.turn # u => s.turns[u] = turns[u]
        /\ \A u \in Turn : drive.turn # u /\ turns[u] \notin Terminal => s.snapshots[u] = snapshots[u]
    BY DEF AgreeInv, Matches
  <2>2. \A u \in Turn : u # t => turns'[u] = turns[u] /\ r.turns[u] = s.turns[u]
    BY <1>2, <1>4, <1>8, <1>10
  <2>3. /\ turns'[t] = "waitingForApproval" /\ r.turns[t] = "waitingForApproval"
        /\ r.snapshots = s.snapshots /\ s.snapshots[t] = snapshots[t] /\ snapshots' = snapshots
        /\ t = drive.turn
    BY <1>2, <1>3, <1>4, <1>8, <1>10
  <2> HIDE DEF r, s, t
  <2> QED BY <2>1, <2>2, <2>3
<1>13. \A u \in Turn : turns[u] \in Terminal => turns'[u] \in Terminal
  BY <1>2, <1>3, <1>4 DEF Terminal, Waiting
<1>14. ASSUME NEW i \in ApprovalId PROVE SameApproval(Replayed, i)'
  <2>1. CASE i = a
    <3>1. approvals'[i] = n /\ Replayed'.approvals[i] = n
      BY <1>2, <1>3, <1>4, <1>8, <1>10, <2>1
    <3> QED BY <3>1 DEF SameApproval
  <2>2. CASE i # a
    <3>1. SameApproval(s, i)
      BY <1>2, <2>2 DEF AgreeInv, Matches
    <3>2. approvals'[i] = approvals[i] /\ Replayed'.approvals[i] = Replayed.approvals[i]
      BY <1>2, <1>4, <1>8, <1>10, <2>2
    <3> QED BY ONLY <1>13, <3>1, <3>2 DEF SameApproval
  <2> QED BY <2>1, <2>2
<1>15. ASSUME NEW q \in QuestionId PROVE SameQuestion(Replayed, q)'
  <2>1. SameQuestion(s, q)
    BY <1>2 DEF AgreeInv, Matches
  <2>2. questions'[q] = questions[q] /\ Replayed'.questions[q] = Replayed.questions[q]
    BY <1>2, <1>8, <1>10
  <2> QED BY ONLY <1>13, <2>1, <2>2 DEF SameQuestion
<1>16. Idle'
  BY <1>2 DEF Idle, IdleDrive
<1>17. Matches(Replayed)'
  BY <1>12, <1>14, <1>15, <1>16 DEF Matches
<1> QED BY <1>10, <1>11, <1>17 DEF AgreeInv

-----------------------------------------------------------------------------
(* Requests about approvals, questions and turns.                          *)

LEMMA RequestsSound ==
  ASSUME NEW s, Sound(s), NEW z \in Runtimes,
         z.turns = s.turns, z.snapshots = s.snapshots, z.next_turn = s.next_turn,
         \A a \in ApprovalId : z.approvals[a].outcome # "absent" => a <= z.next_approval,
         \A q \in QuestionId : z.questions[q].state # "absent" => q <= z.next_question
  PROVE  Sound(z)
BY DEF Sound

LEMMA IdleRequestAgrees ==
  ASSUME AgreeInv, TypeInv', Files', Idle, drive' = drive,
         UNCHANGED <<turns, next_turn, snapshots>>,
         Replayed'.turns = Replayed.turns, Replayed'.snapshots = Replayed.snapshots,
         \A a \in ApprovalId : SameApproval(Replayed, a)',
         \A q \in QuestionId : SameQuestion(Replayed, q)',
         \A a \in ApprovalId : approvals'[a].outcome # "absent" => a <= next_approval',
         \A q \in QuestionId : questions'[q].state # "absent" => q <= next_question'
  PROVE  AgreeInv'
<1>1. Memory'
  BY DEF AgreeInv, Memory
<1>2. Idle'
  BY DEF Idle
<1>3. /\ \A u \in Turn : turns[u] = "absent" <=> Replayed.turns[u] = "absent"
      /\ \A u \in Turn : drive.turn # u => Replayed.turns[u] = turns[u]
      /\ \A u \in Turn : drive.turn # u /\ turns[u] \notin Terminal =>
           Replayed.snapshots[u] = snapshots[u]
  BY DEF AgreeInv, Matches
<1>4. Matches(Replayed)'
  BY <1>2, <1>3 DEF Matches
<1> QED BY <1>1, <1>4 DEF AgreeInv

LEMMA RequestApprovalAgrees ==
  ASSUME AgreeInv, TypeInv', log' = log \o emitted', disk' = disk,
         NEW c \in GatedCalls, RequestApproval(c)
  PROVE  AgreeInv'
<1> DEFINE s == Replayed
           a == next_approval + 1
           n == [turn |-> NoTurn, call |-> c, outcome |-> "pending"]
           e == RequestEvent("ApprovalRequested", NoTurn, {a}, c, "none")
           G == [s.approvals EXCEPT ![a] = n]
           m == IF a > s.next_approval THEN a ELSE s.next_approval
           z == [s EXCEPT !.approvals = G, !.next_approval = m]
<1>1. Sound(s) /\ s \in Runtimes
  BY FilesSound DEF AgreeInv
<1>2. /\ Idle /\ a \in ApprovalId /\ next_approval \in Nat /\ next_approval' = a
      /\ approvals' = [approvals EXCEPT ![a] = n]
      /\ emitted' = <<e>>
      /\ UNCHANGED <<turns, next_turn, questions, next_question, snapshots, drive>>
  BY BoundsAreNat DEF RequestApproval, AgreeInv, TypeInv, TypeOK
<1>3. /\ s.approvals \in [ApprovalId -> Approval] /\ s.next_approval \in 0..MaxApprovals
      /\ approvals \in [ApprovalId -> Approval] /\ c \in Calls /\ n \in Approval
  BY <1>1, CallsAssumption DEF AgreeInv, TypeInv, TypeOK, Runtimes, Approval
<1>4. e \in Event
  BY <1>2, <1>3, RequestEventType DEF EventKind
<1>5. ApplyReplayedEvent(s, e) = z
  <2>1. /\ e.kind = "ApprovalRequested" /\ e.turn = NoTurn /\ e.ids = {a} /\ e.call = c
    BY DEF RequestEvent
  <2>2. ApplyReplayedEvent(s, e) =
         [WaitFor(s, e.turn, "waitingForApproval") EXCEPT
            !.next_approval = Bump(@, TheId(e.ids)),
            !.approvals[TheId(e.ids)] =
               [turn |-> e.turn, call |-> e.call, outcome |-> "pending"]]
    BY <2>1 DEF ApplyReplayedEvent
  <2>3. WaitFor(s, NoTurn, "waitingForApproval") = s
    BY DEF WaitFor
  <2>4. ApplyReplayedEvent(s, e) =
         [s EXCEPT !.next_approval = Bump(@, a), !.approvals[a] = n]
    BY <2>1, <2>2, <2>3, OnlyId
  <2> HIDE DEF s, a, e, n
  <2>5. s \in Runtimes
    BY <1>1
  <2> QED BY <2>4, <2>5 DEF Runtimes, Bump
<1>6. /\ z \in Runtimes /\ z.approvals = G /\ z.next_approval = m
      /\ z.turns = s.turns /\ z.questions = s.questions /\ z.snapshots = s.snapshots
      /\ z.next_turn = s.next_turn /\ z.next_question = s.next_question
      /\ m \in Nat /\ m >= s.next_approval /\ m >= a
  <2>1. G \in [ApprovalId -> Approval] /\ m \in 0..MaxApprovals
        /\ m \in Nat /\ m >= s.next_approval /\ m >= a
    BY <1>2, <1>3, BoundsAreNat
  <2> HIDE DEF s, G, m
  <2>2. s \in Runtimes
    BY <1>1
  <2> QED BY <2>1, <2>2 DEF Runtimes
<1> HIDE DEF z, m, e
<1>7. Sound(z)
  <2>1. \A i \in ApprovalId : z.approvals[i].outcome # "absent" => i <= z.next_approval
    <3> SUFFICES ASSUME NEW i \in ApprovalId, z.approvals[i].outcome # "absent"
                 PROVE  i <= z.next_approval
      OBVIOUS
    <3>1. CASE i = a
      BY <1>6, <3>1
    <3>2. CASE i # a
      <4>1. s.approvals[i].outcome # "absent"
        BY <1>3, <1>6, <3>2
      <4>2. i <= s.next_approval /\ s.next_approval \in Nat /\ i \in Nat
        BY <1>1, <1>3, <4>1, BoundsAreNat DEF Sound
      <4> QED BY <1>6, <4>2
    <3> QED BY <3>1, <3>2
  <2>2. \A q \in QuestionId : z.questions[q].state # "absent" => q <= z.next_question
    BY <1>1, <1>6 DEF Sound
  <2> QED BY <1>1, <1>6, <2>1, <2>2, RequestsSound
<1>8. Files' /\ Replayed' = z
  BY <1>2, <1>4, <1>5, <1>7, OneNew DEF AgreeInv
<1>9. ASSUME NEW i \in ApprovalId PROVE SameApproval(Replayed, i)'
  <2>1. CASE i = a
    <3>1. approvals'[i] = n /\ Replayed'.approvals[i] = n
      BY <1>2, <1>3, <1>6, <1>8, <2>1
    <3> QED BY <3>1 DEF SameApproval
  <2>2. CASE i # a
    <3>1. SameApproval(s, i)
      BY <1>2 DEF AgreeInv, Matches, Idle, TypeInv, Shape, IdleDrive
    <3>2. /\ approvals'[i] = approvals[i] /\ Replayed'.approvals[i] = Replayed.approvals[i]
          /\ turns' = turns
      BY <1>2, <1>3, <1>6, <1>8, <2>2
    <3> QED BY ONLY <3>1, <3>2 DEF SameApproval
  <2> QED BY <2>1, <2>2
<1>10. ASSUME NEW q \in QuestionId PROVE SameQuestion(Replayed, q)'
  <2>1. SameQuestion(s, q)
    BY <1>2 DEF AgreeInv, Matches, Idle, TypeInv, Shape, IdleDrive
  <2>2. /\ questions'[q] = questions[q] /\ Replayed'.questions[q] = Replayed.questions[q]
        /\ turns' = turns
    BY <1>2, <1>6, <1>8
  <2> QED BY ONLY <2>1, <2>2 DEF SameQuestion
<1>11. \A i \in ApprovalId : approvals'[i].outcome # "absent" => i <= next_approval'
  <2> SUFFICES ASSUME NEW i \in ApprovalId, approvals'[i].outcome # "absent"
               PROVE  i <= next_approval'
    OBVIOUS
  <2>1. i \in Nat
    BY BoundsAreNat
  <2>2. CASE i = a
    BY <1>2, <2>1, <2>2
  <2>3. CASE i # a
    <3>1. i <= next_approval
      BY <1>2, <1>3, <2>3 DEF AgreeInv, Memory
    <3> QED BY <1>2, <2>1, <3>1
  <2> QED BY <2>2, <2>3
<1>12. Replayed'.turns = Replayed.turns /\ Replayed'.snapshots = Replayed.snapshots
  BY <1>6, <1>8
<1>13. \A q \in QuestionId : questions'[q].state # "absent" => q <= next_question'
  BY <1>2 DEF AgreeInv, Memory
<1> QED BY <1>2, <1>8, <1>9, <1>10, <1>11, <1>12, <1>13, IdleRequestAgrees

\* r is what s becomes when the approvals ids are answered.
Resolved(s, r, ids, outcome) ==
  /\ r \in Runtimes
  /\ r.turns = s.turns /\ r.snapshots = s.snapshots /\ r.questions = s.questions
  /\ r.next_turn = s.next_turn /\ r.next_approval = s.next_approval
  /\ r.next_question = s.next_question
  /\ \A a \in ApprovalId : r.approvals[a] =
       IF a \in ids THEN [s.approvals[a] EXCEPT !.outcome = outcome] ELSE s.approvals[a]

LEMMA ResolveIs ==
  ASSUME NEW s \in Runtimes, NEW ids \in SUBSET ApprovalId,
         \A a \in ids : s.approvals[a].outcome # "absent",
         NEW outcome \in {"approved", "denied"}
  PROVE  Resolved(s, ResolveApprovals(s, ids, outcome), ids, outcome)
<1> DEFINE A(a) == IF a \in ids THEN [s.approvals[a] EXCEPT !.outcome = outcome]
                   ELSE s.approvals[a]
           F == [a \in ApprovalId |-> A(a)]
           r == ResolveApprovals(s, ids, outcome)
<1>1. F \in [ApprovalId -> Approval]
  <2> SUFFICES ASSUME NEW a \in ApprovalId PROVE A(a) \in Approval
    OBVIOUS
  <2>1. s.approvals[a] \in Approval
    BY DEF Runtimes
  <2> QED BY <2>1 DEF Approval, NoApproval
<1>2. r = [s EXCEPT !.approvals = F]
  BY DEF ResolveApprovals, Runtimes
<1>3. \A a \in ApprovalId : F[a] = A(a)
  OBVIOUS
<1> HIDE DEF F, r
<1>4. /\ r \in Runtimes /\ r.approvals = F
      /\ r.turns = s.turns /\ r.snapshots = s.snapshots /\ r.questions = s.questions
      /\ r.next_turn = s.next_turn /\ r.next_approval = s.next_approval
      /\ r.next_question = s.next_question
  BY <1>1, <1>2 DEF Runtimes
<1>5. Resolved(s, r, ids, outcome)
  BY <1>3, <1>4 DEF Resolved
<1> QED BY <1>5 DEF r

LEMMA ResolveSound ==
  ASSUME NEW s, Sound(s), NEW ids \in SUBSET ApprovalId,
         \A a \in ids : s.approvals[a].outcome # "absent",
         NEW outcome \in {"approved", "denied"}
  PROVE  Sound(ResolveApprovals(s, ids, outcome))
<1> DEFINE r == ResolveApprovals(s, ids, outcome)
<1>1. s \in Runtimes
  BY DEF Sound
<1>2. Resolved(s, r, ids, outcome)
  BY <1>1, ResolveIs
<1> HIDE DEF r
<1>3. \A a \in ApprovalId : r.approvals[a].outcome # "absent" => s.approvals[a].outcome # "absent"
  BY <1>2 DEF Resolved
<1>4. Sound(r)
  BY <1>2, <1>3, RequestsSound DEF Sound, Resolved
<1> QED BY <1>4 DEF r

LEMMA RespondApprovalAgrees ==
  ASSUME AgreeInv, TypeInv', log' = log \o emitted', disk' = disk,
         NEW a \in ApprovalId, NEW decision \in {"approved", "denied"},
         RespondApproval(a, decision)
  PROVE  AgreeInv'
<1> DEFINE s == Replayed
           e == RequestEvent("ApprovalResolved", approvals[a].turn, {a}, NoCall, decision)
           z == ResolveApprovals(s, {a}, decision)
           d == [approvals[a] EXCEPT !.outcome = decision]
<1>1. Sound(s) /\ s \in Runtimes
  BY FilesSound DEF AgreeInv
<1>2. /\ Idle /\ approvals[a].outcome = "pending"
      /\ approvals' = [approvals EXCEPT ![a] = d]
      /\ emitted' = <<e>>
      /\ UNCHANGED <<turns, next_turn, next_approval, questions, next_question, snapshots, drive>>
  BY DEF RespondApproval, AgreeInv, TypeInv, TypeOK
<1>3. /\ approvals \in [ApprovalId -> Approval] /\ approvals[a] \in Approval
      /\ s.approvals \in [ApprovalId -> Approval]
  BY <1>1 DEF AgreeInv, TypeInv, TypeOK, Runtimes
<1>4. \A i \in ApprovalId : SameApproval(s, i)
  BY <1>2 DEF AgreeInv, Matches, Idle, TypeInv, Shape, IdleDrive
<1>5. /\ s.approvals[a].outcome # "absent"
      /\ [s.approvals[a] EXCEPT !.outcome = decision] = d
  <2>1. CASE s.approvals[a] = approvals[a]
    BY <1>2, <2>1
  <2>2. CASE s.approvals[a] = [approvals[a] EXCEPT !.outcome = "cancelled"]
    BY <1>2, <1>3, <2>2 DEF Approval, NoApproval
  <2> QED BY <1>4, <2>1, <2>2 DEF SameApproval
<1>6. e \in Event
  <2>1. approvals[a].turn \in Turn \cup {NoTurn}
    BY <1>3 DEF Approval, NoApproval
  <2>2. {a} \in SUBSET Nat
    BY BoundsAreNat
  <2> QED BY <2>1, <2>2, RequestEventType DEF EventKind
<1>7. ApplyReplayedEvent(s, e) = z
  <2>1. e.kind = "ApprovalResolved" /\ e.ids = {a} /\ e.outcome = decision
    BY DEF RequestEvent
  <2> QED BY <2>1 DEF ApplyReplayedEvent
<1>8. \A i \in {a} : s.approvals[i].outcome # "absent"
  BY <1>5
<1>9. /\ z.turns = s.turns /\ z.snapshots = s.snapshots /\ z.questions = s.questions
      /\ \A i \in ApprovalId : z.approvals[i] =
           IF i \in {a} THEN [s.approvals[i] EXCEPT !.outcome = decision] ELSE s.approvals[i]
  <2>1. {a} \in SUBSET ApprovalId
    OBVIOUS
  <2>2. Resolved(s, z, {a}, decision)
    BY <1>1, <1>8, <2>1, ResolveIs
  <2> HIDE DEF z
  <2> QED BY <2>2 DEF Resolved
<1>10. Sound(z)
  BY <1>1, <1>8, ResolveSound
<1> HIDE DEF z
<1>11. Files' /\ Replayed' = z
  BY <1>2, <1>6, <1>7, <1>10, OneNew DEF AgreeInv
<1>12. ASSUME NEW i \in ApprovalId PROVE SameApproval(Replayed, i)'
  <2>1. CASE i = a
    <3>1. approvals'[i] = d /\ Replayed'.approvals[i] = d
      BY <1>2, <1>3, <1>5, <1>9, <1>11, <2>1
    <3> QED BY <3>1 DEF SameApproval
  <2>2. CASE i # a
    <3>1. /\ approvals'[i] = approvals[i] /\ Replayed'.approvals[i] = Replayed.approvals[i]
          /\ turns' = turns
      BY <1>2, <1>3, <1>9, <1>11, <2>2
    <3> QED BY ONLY <1>4, <3>1, i \in ApprovalId DEF SameApproval
  <2> QED BY <2>1, <2>2
<1>13. ASSUME NEW q \in QuestionId PROVE SameQuestion(Replayed, q)'
  <2>1. SameQuestion(s, q)
    BY <1>2 DEF AgreeInv, Matches, Idle, TypeInv, Shape, IdleDrive
  <2>2. /\ questions'[q] = questions[q] /\ Replayed'.questions[q] = Replayed.questions[q]
        /\ turns' = turns
    BY <1>2, <1>9, <1>11
  <2> QED BY ONLY <2>1, <2>2 DEF SameQuestion
<1>14. \A i \in ApprovalId : approvals'[i].outcome # "absent" => i <= next_approval'
  BY <1>2, <1>3 DEF AgreeInv, Memory
<1>15. Replayed'.turns = Replayed.turns /\ Replayed'.snapshots = Replayed.snapshots
  BY <1>9, <1>11
<1>16. \A q \in QuestionId : questions'[q].state # "absent" => q <= next_question'
  BY <1>2 DEF AgreeInv, Memory
<1> QED BY <1>2, <1>11, <1>12, <1>13, <1>14, <1>15, <1>16, IdleRequestAgrees

\* r is what s becomes when question q is answered, or what it is if q is none.
Answered(s, r, q) ==
  /\ r \in Runtimes
  /\ r.turns = s.turns /\ r.snapshots = s.snapshots /\ r.approvals = s.approvals
  /\ r.next_turn = s.next_turn /\ r.next_approval = s.next_approval
  /\ r.next_question = s.next_question
  /\ r.questions = IF q = NoQuestion THEN s.questions ELSE
       [s.questions EXCEPT ![q] = [s.questions[q] EXCEPT !.state = "resolved"]]

LEMMA AnswerIs ==
  ASSUME NEW s \in Runtimes, NEW q \in QuestionId, s.questions[q].state # "absent"
  PROVE  Answered(s, [s EXCEPT !.questions[q].state = "resolved"], q)
<1> DEFINE p == [s.questions[q] EXCEPT !.state = "resolved"]
           F == [s.questions EXCEPT ![q] = p]
           r == [s EXCEPT !.questions[q].state = "resolved"]
<1>1. F \in [QuestionId -> Question]
  <2>1. s.questions \in [QuestionId -> Question] /\ s.questions[q] \in Question
    BY DEF Runtimes
  <2>2. p \in Question
    BY <2>1 DEF Question, NoQuestionAsked
  <2> HIDE DEF p
  <2> QED BY <2>1, <2>2
<1>2. r = [s EXCEPT !.questions = F]
  BY DEF Runtimes
<1> HIDE DEF F, r
<1>3. /\ r \in Runtimes /\ r.questions = F
      /\ r.turns = s.turns /\ r.snapshots = s.snapshots /\ r.approvals = s.approvals
      /\ r.next_turn = s.next_turn /\ r.next_approval = s.next_approval
      /\ r.next_question = s.next_question
  BY <1>1, <1>2 DEF Runtimes
<1> QED BY <1>3 DEF F, r, Answered

\* A turn resumes: at most an answer and then at most some approvals.
AnswerEvents(t, q) ==
  IF q = NoQuestion THEN <<>>
  ELSE <<RequestEvent("AskUserResolved", t, {q}, NoCall, "none")>>

ApprovedEvents(t, ids) ==
  IF ids = {} THEN <<>>
  ELSE <<RequestEvent("ApprovalResolved", t, ids, NoCall, "approved")>>

LEMMA ReplayAnswer ==
  ASSUME NEW s, Sound(s), NEW t \in Turn, NEW q \in QuestionId \cup {NoQuestion},
         q # NoQuestion => s.questions[q].state # "absent"
  PROVE  /\ AnswerEvents(t, q) \in Seq(Event)
         /\ AllSound(s, AnswerEvents(t, q))
         /\ Sound(ReplayEvents(s, AnswerEvents(t, q)))
         /\ Answered(s, ReplayEvents(s, AnswerEvents(t, q)), q)
<1>1. s \in Runtimes
  BY DEF Sound
<1>2. CASE q = NoQuestion
  <2>1. AnswerEvents(t, q) = <<>> /\ <<>> \in Seq(Event)
    BY <1>2 DEF AnswerEvents
  <2>2. Answered(s, s, q)
    BY <1>1, <1>2 DEF Answered
  <2>3. AllSound(s, <<>>) /\ ReplayEvents(s, <<>>) = s
    BY SoundNone, ReplayNone
  <2> QED BY <2>1, <2>2, <2>3
<1>3. CASE q # NoQuestion
  <2> DEFINE e == RequestEvent("AskUserResolved", t, {q}, NoCall, "none")
             r == [s EXCEPT !.questions[q].state = "resolved"]
  <2>1. e \in Event
    <3>1. {q} \in SUBSET Nat
      BY BoundsAreNat
    <3> QED BY <3>1, RequestEventType DEF EventKind
  <2>2. ApplyReplayedEvent(s, e) = r
    <3>1. e.kind = "AskUserResolved" /\ e.ids = {q}
      BY DEF RequestEvent
    <3>2. ApplyReplayedEvent(s, e) = [s EXCEPT !.questions[TheId(e.ids)].state = "resolved"]
      BY <3>1 DEF ApplyReplayedEvent
    <3> QED BY <3>1, <3>2, OnlyId
  <2>3. q \in QuestionId
    BY <1>3
  <2>4. Answered(s, r, q)
    BY <1>1, <1>3, <2>3, AnswerIs
  <2> HIDE DEF e, r
  <2>5. Sound(r)
    <3>1. \A i \in QuestionId : r.questions[i].state # "absent" => i <= r.next_question
      <4> SUFFICES ASSUME NEW i \in QuestionId, r.questions[i].state # "absent"
                   PROVE  i <= s.next_question
        BY <2>4 DEF Answered
      <4>1. s.questions[i].state # "absent"
        BY <1>1, <1>3, <2>3, <2>4 DEF Answered, Runtimes
      <4> QED BY <4>1 DEF Sound
    <3> QED BY <2>4, <3>1, RequestsSound DEF Answered, Sound
  <2>6. AnswerEvents(t, q) = <<e>> /\ <<e>> \in Seq(Event)
    BY <1>3, <2>1 DEF AnswerEvents, e
  <2>7. AllSound(s, <<e>>) /\ ReplayEvents(s, <<e>>) = r
    BY <2>1, <2>2, <2>5, SoundOne, ReplayOne
  <2> QED BY <2>4, <2>5, <2>6, <2>7
<1> QED BY <1>2, <1>3

LEMMA ReplayApproved ==
  ASSUME NEW s, Sound(s), NEW t \in Turn, NEW ids \in SUBSET ApprovalId,
         \A a \in ids : s.approvals[a].outcome # "absent"
  PROVE  /\ ApprovedEvents(t, ids) \in Seq(Event)
         /\ AllSound(s, ApprovedEvents(t, ids))
         /\ Sound(ReplayEvents(s, ApprovedEvents(t, ids)))
         /\ Resolved(s, ReplayEvents(s, ApprovedEvents(t, ids)), ids, "approved")
<1>1. s \in Runtimes
  BY DEF Sound
<1>2. CASE ids = {}
  <2>1. ApprovedEvents(t, ids) = <<>> /\ <<>> \in Seq(Event)
    BY <1>2 DEF ApprovedEvents
  <2>2. Resolved(s, s, ids, "approved")
    BY <1>1, <1>2 DEF Resolved
  <2>3. AllSound(s, <<>>) /\ ReplayEvents(s, <<>>) = s
    BY SoundNone, ReplayNone
  <2> QED BY <2>1, <2>2, <2>3
<1>3. CASE ids # {}
  <2> DEFINE e == RequestEvent("ApprovalResolved", t, ids, NoCall, "approved")
             r == ResolveApprovals(s, ids, "approved")
  <2>1. e \in Event
    <3>1. ids \in SUBSET Nat
      BY BoundsAreNat
    <3> QED BY <3>1, RequestEventType DEF EventKind
  <2>2. ApplyReplayedEvent(s, e) = r
    <3>1. e.kind = "ApprovalResolved" /\ e.ids = ids /\ e.outcome = "approved"
      BY DEF RequestEvent
    <3> QED BY <3>1 DEF ApplyReplayedEvent
  <2>3. Resolved(s, r, ids, "approved")
    BY <1>1, ResolveIs
  <2>4. Sound(r)
    BY ResolveSound
  <2> HIDE DEF e, r
  <2>5. ApprovedEvents(t, ids) = <<e>> /\ <<e>> \in Seq(Event)
    <3>1. ApprovedEvents(t, ids) = <<e>>
      BY <1>3, Zenon DEF ApprovedEvents, e
    <3> QED BY <2>1, <3>1
  <2>6. AllSound(s, <<e>>) /\ ReplayEvents(s, <<e>>) = r
    BY <2>1, <2>2, <2>4, SoundOne, ReplayOne
  <2> QED BY <2>3, <2>4, <2>5, <2>6
<1> QED BY <1>2, <1>3

LEMMA RespondQuestionAgrees ==
  ASSUME AgreeInv, TypeInv', log' = log \o emitted', disk' = disk,
         NEW q \in QuestionId, RespondQuestion(q)
  PROVE  AgreeInv'
<1> DEFINE s == Replayed
           t == questions[q].turn
           d == [questions[q] EXCEPT !.state = "resolved"]
<1>1. Sound(s) /\ s \in Runtimes
  BY FilesSound DEF AgreeInv
<1>2. /\ Idle /\ questions[q].state = "open"
      /\ questions' = [questions EXCEPT ![q] = d]
      /\ emitted' = <<RequestEvent("AskUserResolved", t, {q}, NoCall, "none")>>
      /\ UNCHANGED <<turns, next_turn, approvals, next_approval, next_question, snapshots, drive>>
  BY DEF RespondQuestion, AgreeInv, TypeInv, TypeOK
<1>3. /\ questions \in [QuestionId -> Question] /\ questions[q] \in Question
      /\ s.questions \in [QuestionId -> Question] /\ t \in Turn /\ q # NoQuestion
  BY <1>1, <1>2 DEF AgreeInv, TypeInv, TypeOK, Runtimes, Question, NoQuestionAsked
<1>4. /\ \A i \in QuestionId : SameQuestion(s, i)
      /\ \A a \in ApprovalId : SameApproval(s, a)
  BY <1>2 DEF AgreeInv, Matches, Idle, TypeInv, Shape, IdleDrive
<1>5. /\ s.questions[q].state # "absent"
      /\ [s.questions[q] EXCEPT !.state = "resolved"] = d
  <2>1. CASE s.questions[q] = questions[q]
    BY <1>2, <2>1
  <2>2. CASE s.questions[q] = d
    BY <1>2, <1>3, <2>2 DEF Question, NoQuestionAsked
  <2> QED BY <1>4, <2>1, <2>2 DEF SameQuestion
<1>6. emitted' = AnswerEvents(t, q)
  BY <1>2, <1>3 DEF AnswerEvents
<1>7. /\ emitted' \in Seq(Event) /\ AllSound(Replayed, emitted')
      /\ Answered(Replayed, ReplayEvents(Replayed, emitted'), q)
  BY <1>1, <1>3, <1>5, <1>6, ReplayAnswer
<1>8. Files' /\ Answered(Replayed, Replayed', q)
  BY <1>7, SomeNew DEF AgreeInv
<1>9. /\ Replayed'.turns = Replayed.turns /\ Replayed'.snapshots = Replayed.snapshots
      /\ Replayed'.approvals = Replayed.approvals
      /\ Replayed'.questions = [s.questions EXCEPT ![q] = d]
  BY <1>3, <1>5, <1>8 DEF Answered
<1>10. ASSUME NEW i \in QuestionId PROVE SameQuestion(Replayed, i)'
  <2>1. CASE i = q
    <3>1. questions'[i] = d /\ Replayed'.questions[i] = d
      BY <1>2, <1>3, <1>9, <2>1
    <3> QED BY <3>1 DEF SameQuestion
  <2>2. CASE i # q
    <3>1. /\ questions'[i] = questions[i] /\ Replayed'.questions[i] = Replayed.questions[i]
          /\ turns' = turns
      BY <1>2, <1>3, <1>9, <2>2
    <3> QED BY ONLY <1>4, <3>1, i \in QuestionId DEF SameQuestion
  <2> QED BY <2>1, <2>2
<1>11. ASSUME NEW a \in ApprovalId PROVE SameApproval(Replayed, a)'
  <2>1. /\ approvals'[a] = approvals[a] /\ Replayed'.approvals[a] = Replayed.approvals[a]
        /\ turns' = turns
    BY <1>2, <1>9
  <2> QED BY ONLY <1>4, <2>1, a \in ApprovalId DEF SameApproval
<1>12. \A a \in ApprovalId : approvals'[a].outcome # "absent" => a <= next_approval'
  BY <1>2 DEF AgreeInv, Memory
<1>13. \A i \in QuestionId : questions'[i].state # "absent" => i <= next_question'
  BY <1>2, <1>3 DEF AgreeInv, Memory
<1> QED BY <1>2, <1>8, <1>9, <1>10, <1>11, <1>12, <1>13, IdleRequestAgrees

LEMMA ResumeAgrees ==
  ASSUME AgreeInv, TypeInv', log' = log \o emitted', disk' = disk,
         NEW t \in Turn, NEW q \in QuestionId \cup {NoQuestion}, NEW given, NEW provider,
         ResumeAgenticTurn(t, q, given, provider)
  PROVE  AgreeInv'
<1> DEFINE s == Replayed
           ids == NewlyApproved(t, given)
           m == ReplayEvents(s, AnswerEvents(t, q))
<1>1. Sound(s) /\ s \in Runtimes
  BY FilesSound DEF AgreeInv
<1>2. /\ Idle /\ Resumable(t, q)
      /\ questions' = IF q = NoQuestion THEN questions
                      ELSE [questions EXCEPT ![q].state = "resolved"]
      /\ approvals' = [a \in ApprovalId |->
                         IF a \in ids THEN [approvals[a] EXCEPT !.outcome = "approved"]
                         ELSE approvals[a]]
      /\ snapshots' = [snapshots EXCEPT ![t] = NoSnapshot]
      /\ emitted' = AnswerEvents(t, q) \o ApprovedEvents(t, ids)
      /\ UNCHANGED <<turns, next_turn, next_approval, next_question>>
  BY Zenon DEF ResumeAgenticTurn, ApplyResume, AnswerEvents, ApprovedEvents
<1>3. /\ drive'.turn = t /\ drive'.at \in {"loop", "pending"}
      /\ drive'.direct = (snapshots[t].held \/ provider = "direct")
  BY DEF ResumeAgenticTurn, IdleDrive
<1>4. /\ questions \in [QuestionId -> Question] /\ approvals \in [ApprovalId -> Approval]
      /\ turns \in [Turn -> Status] /\ snapshots \in [Turn -> Snapshot]
      /\ s.questions \in [QuestionId -> Question] /\ s.approvals \in [ApprovalId -> Approval]
  BY <1>1 DEF AgreeInv, TypeInv, TypeOK, Runtimes
<1>5. /\ \A i \in QuestionId : SameQuestion(s, i)
      /\ \A a \in ApprovalId : SameApproval(s, a)
  BY <1>2 DEF AgreeInv, Matches, Idle, TypeInv, Shape, IdleDrive
<1>6. /\ turns[t] \in Waiting
      /\ q # NoQuestion => q \in QuestionId /\ questions[q].turn = t /\ questions[q].state = "open"
  BY <1>2 DEF Resumable, Waiting
<1>7. turns[t] \notin Terminal
  BY <1>6 DEF Waiting, Terminal
<1>8. q # NoQuestion => s.questions[q] = questions[q]
  BY <1>5, <1>6, <1>7 DEF SameQuestion
<1>9. /\ ids \in SUBSET ApprovalId
      /\ \A a \in ids : s.approvals[a] = approvals[a] /\ approvals[a].outcome = "pending"
  BY <1>5, <1>7 DEF NewlyApproved, SameApproval
<1> HIDE DEF ids
<1>10. /\ AnswerEvents(t, q) \in Seq(Event) /\ AllSound(s, AnswerEvents(t, q))
       /\ Sound(m) /\ Answered(s, m, q)
  BY <1>1, <1>6, <1>8, ReplayAnswer
<1>11. m.approvals = s.approvals
  BY <1>10 DEF Answered
<1>12. /\ ApprovedEvents(t, ids) \in Seq(Event) /\ AllSound(m, ApprovedEvents(t, ids))
       /\ Resolved(m, ReplayEvents(m, ApprovedEvents(t, ids)), ids, "approved")
  <2>1. \A a \in ids : m.approvals[a].outcome # "absent"
    BY <1>9, <1>11
  <2> HIDE DEF m
  <2> QED BY <1>9, <1>10, <2>1, ReplayApproved
<1>13. /\ emitted' \in Seq(Event) /\ AllSound(Replayed, emitted')
       /\ ReplayEvents(Replayed, emitted') = ReplayEvents(m, ApprovedEvents(t, ids))
  <2>1. AllSound(Replayed, emitted')
    BY <1>2, <1>10, <1>12, SoundGrows
  <2>2. ReplayEvents(s, AnswerEvents(t, q) \o ApprovedEvents(t, ids))
          = ReplayEvents(m, ApprovedEvents(t, ids))
    BY <1>10, <1>12, ReplayConcat
  <2>3. emitted' \in Seq(Event)
    BY <1>2, <1>10, <1>12
  <2> QED BY <1>2, <2>1, <2>2, <2>3
<1>14. Files' /\ Resolved(m, Replayed', ids, "approved")
  BY <1>12, <1>13, SomeNew DEF AgreeInv
<1>15. /\ Replayed'.turns = Replayed.turns /\ Replayed'.snapshots = Replayed.snapshots
       /\ Replayed'.questions = m.questions
       /\ \A a \in ApprovalId : Replayed'.approvals[a] =
            IF a \in ids THEN [s.approvals[a] EXCEPT !.outcome = "approved"] ELSE s.approvals[a]
  BY <1>10, <1>11, <1>14 DEF Resolved, Answered
<1>16. ASSUME NEW i \in QuestionId PROVE SameQuestion(Replayed, i)'
  <2>1. CASE i = q
    <3>1. /\ q # NoQuestion
          /\ Replayed'.questions[i] = [s.questions[q] EXCEPT !.state = "resolved"]
          /\ questions'[i] = [questions[q] EXCEPT !.state = "resolved"]
      <4>1. q # NoQuestion /\ q \in QuestionId
        BY <2>1
      <4>2. Replayed'.questions = [s.questions EXCEPT ![q] = [s.questions[q] EXCEPT !.state = "resolved"]]
        BY <1>10, <1>15, <4>1, Zenon DEF Answered
      <4>3. questions' = [questions EXCEPT ![q].state = "resolved"]
        BY <1>2, <4>1, Zenon
      <4> QED BY <1>4, <2>1, <4>1, <4>2, <4>3
    <3> QED BY <1>8, <3>1 DEF SameQuestion
  <2>2. CASE i # q
    <3>1. /\ questions'[i] = questions[i] /\ Replayed'.questions[i] = Replayed.questions[i]
          /\ turns' = turns
      BY <1>2, <1>4, <1>10, <1>15, <2>2 DEF Answered
    <3> QED BY ONLY <1>5, <3>1, i \in QuestionId DEF SameQuestion
  <2> QED BY <2>1, <2>2
<1>17. ASSUME NEW a \in ApprovalId PROVE SameApproval(Replayed, a)'
  <2>1. CASE a \in ids
    <3>1. Replayed'.approvals[a] = approvals'[a]
      BY <1>2, <1>9, <1>15, <2>1
    <3> QED BY <3>1 DEF SameApproval
  <2>2. CASE a \notin ids
    <3>1. /\ approvals'[a] = approvals[a] /\ Replayed'.approvals[a] = Replayed.approvals[a]
          /\ turns' = turns
      BY <1>2, <1>15, <2>2
    <3> QED BY ONLY <1>5, <3>1, a \in ApprovalId DEF SameApproval
  <2> QED BY <2>1, <2>2
<1>18. Memory'
  <2>1. \A a \in ApprovalId : approvals'[a].outcome # "absent" => a <= next_approval'
    <3> SUFFICES ASSUME NEW a \in ApprovalId, approvals'[a].outcome # "absent"
                 PROVE  a <= next_approval
      BY <1>2
    <3>1. approvals[a].outcome # "absent"
      BY <1>2, <1>9
    <3> QED BY <3>1 DEF AgreeInv, Memory
  <2>2. \A u \in Turn : /\ turns[u] = "absent" => snapshots'[u] = NoSnapshot
                        /\ snapshots'[u].held \/ snapshots'[u] = NoSnapshot
    BY <1>2, <1>4 DEF AgreeInv, Memory
  <2>3. \A i \in QuestionId : questions'[i].state # "absent" => i <= next_question'
    <3> SUFFICES ASSUME NEW i \in QuestionId, questions'[i].state # "absent"
                 PROVE  i <= next_question
      BY <1>2
    <3>1. questions[i].state # "absent"
      BY <1>2, <1>4, <1>6
    <3> QED BY <3>1 DEF AgreeInv, Memory
  <2> QED BY <1>2, <2>1, <2>2, <2>3 DEF AgreeInv, Memory
<1>19. /\ \A u \in Turn : turns[u] = "absent" <=> s.turns[u] = "absent"
       /\ \A u \in Turn : s.turns[u] = turns[u]
       /\ \A u \in Turn : turns[u] \notin Terminal => s.snapshots[u] = snapshots[u]
  BY <1>2 DEF AgreeInv, Matches, Idle
<1>20. /\ \A u \in Turn : turns'[u] = "absent" <=> Replayed'.turns[u] = "absent"
       /\ \A u \in Turn : drive'.turn # u => Replayed'.turns[u] = turns'[u]
       /\ \A u \in Turn : drive'.turn # u /\ turns'[u] \notin Terminal =>
            Replayed'.snapshots[u] = snapshots'[u]
  BY <1>2, <1>3, <1>4, <1>15, <1>19
<1>21. DrivenTurn(Replayed)'
  <2>1. s.snapshots[t] = snapshots[t] /\ s.turns[t] = turns[t]
    BY <1>7, <1>19
  <2>2. snapshots[t].held \/ snapshots[t] = NoSnapshot
    BY DEF AgreeInv, Memory
  <2>3. /\ turns'[drive'.turn] \in {"running"} \cup Waiting
        /\ Replayed'.turns[drive'.turn] \in {"running"} \cup Waiting
        /\ snapshots'[drive'.turn] = NoSnapshot
        /\ Replayed'.snapshots[drive'.turn] = NoSnapshot \/ drive'.direct
        /\ drive'.at \notin Pausing
    BY <1>2, <1>3, <1>4, <1>6, <1>15, <2>1, <2>2 DEF Pausing
  <2> QED BY <2>3 DEF DrivenTurn, Pausing
<1>22. Matches(Replayed)'
  BY <1>16, <1>17, <1>20, <1>21 DEF Matches
<1> QED BY <1>14, <1>18, <1>22 DEF AgreeInv

\* turn/interrupt while no turn is driven.
LEMMA InterruptTurnAgrees ==
  ASSUME AgreeInv, TypeInv', log' = log \o emitted', disk' = disk,
         NEW t \in Turn, InterruptTurn(t)
  PROVE  AgreeInv'
<1>1. /\ Idle /\ drive = IdleDrive /\ drive' = IdleDrive /\ drive.at \notin Pausing
      /\ turns[t] \notin Terminal \cup {"absent"}
      /\ turns' = [turns EXCEPT ![t] = "aborted"]
      /\ snapshots' = [snapshots EXCEPT ![t] = NoSnapshot]
      /\ emitted' = <<TurnEvent("TurnInterrupted", t)>>
      /\ UNCHANGED <<next_turn, requests>>
  BY DEF InterruptTurn, AgreeInv, TypeInv, Shape, IdleDrive, Pausing
<1> QED BY <1>1, EndAgrees

-----------------------------------------------------------------------------
(* The engine.                                                             *)

\* The driver's own ends: abort_agentic_turn, interrupt_agentic_turn.
LEMMA EndAbortedAgrees ==
  ASSUME AgreeInv, TypeInv', log' = log \o emitted', disk' = disk, ~Idle,
         drive.at \notin Pausing, NEW kind \in {"TurnAborted", "TurnInterrupted"}, EndAborted(kind)
  PROVE  AgreeInv'
<1>1. drive.turn \in Turn /\ turns[drive.turn] \notin Terminal \cup {"absent"}
  BY DEF AgreeInv, TypeInv, TypeOK, Drive, Idle, Matches, DrivenTurn, Waiting, Terminal
<1>2. /\ turns' = [turns EXCEPT ![drive.turn] = "aborted"]
      /\ snapshots' = [snapshots EXCEPT ![drive.turn] = NoSnapshot]
      /\ emitted' = <<TurnEvent(kind, drive.turn)>>
      /\ drive' = IdleDrive
      /\ UNCHANGED <<next_turn, requests>>
  BY DEF EndAborted
<1> QED BY <1>1, <1>2, EndAgrees

LEMMA BusyDriver ==
  ASSUME TypeInv, NEW place \in Place \ {"idle"}, drive.at = place
  PROVE  ~Idle
BY DEF TypeInv, Shape, IdleDrive

LEMMA DriveStepAgrees ==
  ASSUME AgreeInv, TypeInv', log' = log \o emitted', disk' = disk, DriveStep
  PROVE  AgreeInv'
<1>1. TypeInv /\ drive \in Drive
  BY DEF AgreeInv, TypeInv, TypeOK
<1>2. CASE InterruptDrive
  <2>1. ~Idle /\ drive.at \notin Pausing /\ EndAborted("TurnInterrupted")
    BY <1>1, <1>2 DEF InterruptDrive, TypeInv, Shape, IdleDrive, Pausing
  <2> QED BY <2>1, EndAbortedAgrees
<1>3. CASE RunPendingCall
  <2>1. /\ ~Idle /\ drive.at \notin Pausing /\ emitted' = <<>>
        /\ UNCHANGED <<turns, next_turn, requests, snapshots>>
    BY <1>1, <1>3 DEF RunPendingCall, NotInterrupted, TypeInv, Shape, IdleDrive, Pausing
  <2>2. /\ drive'.turn = drive.turn /\ drive'.direct = drive.direct /\ drive'.at \notin Pausing
    BY <1>1, <1>3 DEF RunPendingCall, Observed, Drive, Pausing
  <2> QED BY <2>1, <2>2, LoopAgrees DEF requests
<1>4. CASE CancelDrive
  <2>1. ~Idle /\ drive.at \notin Pausing /\ EndAborted("TurnAborted")
    BY <1>1, <1>4 DEF CancelDrive, NotInterrupted, TypeInv, Shape, IdleDrive, Pausing
  <2> QED BY <2>1, EndAbortedAgrees
<1>5. CASE GuardContinuation
  <2>1. ~Idle /\ drive.at \notin Pausing /\ EndAborted("TurnAborted")
    BY <1>1, <1>5 DEF GuardContinuation, NotInterrupted, TypeInv, Shape, IdleDrive, Pausing
  <2> QED BY <2>1, EndAbortedAgrees
<1>6. CASE CallModel
  <2>1. /\ ~Idle /\ drive.at \notin Pausing /\ emitted' = <<>>
        /\ turns' = [turns EXCEPT ![drive.turn] = "running"]
        /\ UNCHANGED <<next_turn, requests, snapshots>>
        /\ drive'.turn = drive.turn /\ drive'.direct = drive.direct /\ drive'.at \notin Pausing
    BY <1>1, <1>6 DEF CallModel, NotInterrupted, SetPhase, TypeInv, Shape, IdleDrive, Pausing, Drive
  <2> QED BY <2>1, LoopAgrees DEF requests
<1>7. CASE ModelFails
  <2>1. ~Idle /\ drive.at \notin Pausing /\ EndAborted("TurnAborted")
    BY <1>1, <1>7 DEF ModelFails, TypeInv, Shape, IdleDrive, Pausing
  <2> QED BY <2>1, EndAbortedAgrees
<1>8. CASE ModelAnswers
  <2>1. /\ ~Idle /\ drive.at \notin Pausing /\ emitted' = <<>>
        /\ UNCHANGED <<turns, next_turn, requests, snapshots>>
    BY <1>1, <1>8 DEF ModelAnswers, TypeInv, Shape, IdleDrive, Pausing
  <2>2. /\ drive'.turn = drive.turn /\ drive'.direct = drive.direct /\ drive'.at \notin Pausing
    BY <1>1, <1>8 DEF ModelAnswers, Drive, Pausing
  <2> QED BY <2>1, <2>2, LoopAgrees DEF requests
<1>9. CASE StreamStep
  <2>1. /\ ~Idle /\ drive.at \notin Pausing /\ emitted' = <<>>
        /\ turns' = [turns EXCEPT ![drive.turn] = "running"]
        /\ UNCHANGED <<next_turn, requests, snapshots>>
        /\ drive'.turn = drive.turn /\ drive'.direct = drive.direct /\ drive'.at \notin Pausing
    BY <1>1, <1>9 DEF StreamStep, NotInterrupted, SetPhase, TypeInv, Shape, IdleDrive, Pausing, Drive
  <2> QED BY <2>1, LoopAgrees DEF requests
<1>10. CASE EnterTools
  <2>1. /\ ~Idle /\ drive.at \notin Pausing /\ emitted' = <<>>
        /\ turns' = [turns EXCEPT ![drive.turn] = "running"]
        /\ UNCHANGED <<next_turn, requests, snapshots>>
        /\ drive'.turn = drive.turn /\ drive'.direct = drive.direct /\ drive'.at \notin Pausing
    BY <1>1, <1>10 DEF EnterTools, NotInterrupted, SetPhase, TypeInv, Shape, IdleDrive, Pausing, Drive
  <2> QED BY <2>1, LoopAgrees DEF requests
<1>11. CASE DuplicateResult
  <2>1. ~Idle /\ drive.at \notin Pausing /\ EndAborted("TurnAborted")
    BY <1>1, <1>11 DEF DuplicateResult, NotInterrupted, TypeInv, Shape, IdleDrive, Pausing
  <2> QED BY <2>1, EndAbortedAgrees
<1>12. ASSUME drive.at = "calls", drive.calls # <<>>
       PROVE  /\ NextCall(drive).turn = drive.turn
              /\ NextCall(drive).at = drive.at
              /\ NextCall(drive).direct = drive.direct
  <2>1. NextCall(drive).turn = drive.turn /\ NextCall(drive).at = drive.at
    BY <1>1, <1>12, NextCallType
  <2>2. NextCall(drive).direct = drive.direct
    BY <1>1 DEF NextCall, Observed, Drive
  <2> QED BY <2>1, <2>2
<1>13. CASE ExecuteCall \/ GuardianDenies
  <2>1. /\ ~Idle /\ drive.at = "calls" /\ drive.calls # <<>> /\ emitted' = <<>>
        /\ drive' = NextCall(drive)
        /\ UNCHANGED <<turns, next_turn, requests, snapshots>>
    BY <1>1, <1>13 DEF ExecuteCall, GuardianDenies, NotInterrupted, TypeInv, Shape, IdleDrive
  <2>2. drive'.turn = drive.turn /\ drive'.direct = drive.direct /\ drive'.at = "calls"
    BY <1>12, <2>1
  <2> QED BY <2>1, <2>2, LoopAgrees DEF requests, Pausing
<1>14. CASE RejectQuestion
  <2>1. /\ ~Idle /\ drive.at = "calls" /\ drive.calls # <<>> /\ emitted' = <<>>
        /\ drive' = NextCall(drive)
        /\ UNCHANGED <<turns, next_turn, approvals, next_approval, questions, snapshots>>
        /\ next_question' = next_question + 1
    BY <1>1, <1>14 DEF RejectQuestion, NotInterrupted, TypeInv, Shape, IdleDrive
  <2>2. drive'.turn = drive.turn /\ drive'.direct = drive.direct /\ drive'.at = "calls"
    BY <1>12, <2>1
  <2> QED BY <2>1, <2>2, LoopAgrees DEF Pausing
<1>15. CASE AskUser
  BY <1>15, AskUserAgrees
<1>16. CASE RequestToolApproval
  BY <1>16, RequestToolApprovalAgrees
<1>17. CASE PauseForUser
  BY <1>17, PauseForUserAgrees
<1>18. CASE PauseForApproval
  BY <1>18, PauseForApprovalAgrees
<1>19. CASE SettleStep
  <2>1. /\ ~Idle /\ drive.at \notin Pausing /\ emitted' = <<>>
        /\ turns' = [turns EXCEPT ![drive.turn] = "running"]
        /\ UNCHANGED <<next_turn, requests, snapshots>>
        /\ drive'.turn = drive.turn /\ drive'.direct = drive.direct /\ drive'.at \notin Pausing
    BY <1>1, <1>19 DEF SettleStep, NotInterrupted, SetPhase, TypeInv, Shape, IdleDrive, Pausing, Drive
  <2> QED BY <2>1, LoopAgrees DEF requests
<1>20. CASE ResultWithoutCall
  <2>1. ~Idle /\ drive.at \notin Pausing /\ EndAborted("TurnAborted")
    BY <1>1, <1>20 DEF ResultWithoutCall, NotInterrupted, TypeInv, Shape, IdleDrive, Pausing
  <2> QED BY <2>1, EndAbortedAgrees
<1>21. CASE Continue
  <2>1. /\ ~Idle /\ drive.at \notin Pausing /\ emitted' = <<>>
        /\ UNCHANGED <<turns, next_turn, requests, snapshots>>
        /\ drive'.turn = drive.turn /\ drive'.direct = drive.direct /\ drive'.at \notin Pausing
    BY <1>1, <1>21 DEF Continue, NotInterrupted, TypeInv, Shape, IdleDrive, Pausing, Drive
  <2> QED BY <2>1, LoopAgrees DEF requests
<1>22. CASE Complete
  <2>1. /\ ~Idle /\ drive.at \notin Pausing
        /\ turns' = [turns EXCEPT ![drive.turn] = "completed"]
        /\ snapshots' = [snapshots EXCEPT ![drive.turn] = NoSnapshot]
        /\ emitted' = <<TurnEvent("TurnCompleted", drive.turn)>>
        /\ drive' = IdleDrive
        /\ UNCHANGED <<next_turn, requests>>
    BY <1>1, <1>22 DEF Complete, NotInterrupted, TypeInv, Shape, IdleDrive, Pausing
  <2>2. drive.turn \in Turn /\ turns[drive.turn] \notin Terminal \cup {"absent"}
    BY <1>1, <2>1 DEF AgreeInv, Drive, Idle, Matches, DrivenTurn, Waiting, Terminal
  <2> QED BY <2>1, <2>2, EndAgrees
<1> QED
  BY <1>2, <1>3, <1>4, <1>5, <1>6, <1>7, <1>8, <1>9, <1>10, <1>11, <1>13, <1>14, <1>15,
     <1>16, <1>17, <1>18, <1>19, <1>20, <1>21, <1>22 DEF DriveStep

LEMMA RequestAgrees ==
  ASSUME AgreeInv, TypeInv', log' = log \o emitted', disk' = disk, Request,
         "conflictingProvider" \notin Unusual
  PROVE  AgreeInv'
<1>1. CASE \E provider \in Providers, background \in BOOLEAN, first \in FirstApprovals :
             RunAgenticTurn(provider, background, first)
  BY <1>1, StartAgrees
<1>2. CASE \E first \in FirstApprovals : RunAgenticTurnRefused(first)
  BY <1>2 DEF RunAgenticTurnRefused
<1>3. CASE \E t \in Turn, q \in QuestionId \cup {NoQuestion} :
             \E given \in ResumeApprovals(t, q) :
               \/ \E provider \in Providers : ResumeAgenticTurn(t, q, given, provider)
               \/ ResumeRefused(t, q, given)
  <2>1. PICK t \in Turn, q \in QuestionId \cup {NoQuestion} :
             \E given \in ResumeApprovals(t, q) :
               \/ \E provider \in Providers : ResumeAgenticTurn(t, q, given, provider)
               \/ ResumeRefused(t, q, given)
    BY <1>3
  <2>2. PICK given \in ResumeApprovals(t, q) :
               \/ \E provider \in Providers : ResumeAgenticTurn(t, q, given, provider)
               \/ ResumeRefused(t, q, given)
    BY <2>1
  <2>3. ~ResumeRefused(t, q, given)
    BY DEF ResumeRefused
  <2>4. PICK provider \in Providers : ResumeAgenticTurn(t, q, given, provider)
    BY <2>2, <2>3
  <2> QED BY <2>4, ResumeAgrees
<1>4. CASE \E t \in Turn : InterruptTurn(t) \/ RequestInterrupt(t)
  <2>1. PICK t \in Turn : InterruptTurn(t) \/ RequestInterrupt(t)
    BY <1>4
  <2>2. CASE InterruptTurn(t)
    BY <2>2, InterruptTurnAgrees
  <2>3. CASE RequestInterrupt(t)
    <3>1. emitted' = <<>> /\ UNCHANGED <<turns, next_turn, requests, snapshots, drive>>
      BY <2>3 DEF RequestInterrupt
    <3> QED BY <3>1, SameAgrees
  <2> QED BY <2>1, <2>2, <2>3
<1>5. CASE \E c \in GatedCalls : RequestApproval(c)
  BY <1>5, RequestApprovalAgrees
<1>6. CASE \E a \in ApprovalId, decision \in {"approved", "denied"} : RespondApproval(a, decision)
  BY <1>6, RespondApprovalAgrees
<1>7. CASE \E q \in QuestionId : RespondQuestion(q)
  BY <1>7, RespondQuestionAgrees
<1> QED BY <1>1, <1>2, <1>3, <1>4, <1>5, <1>6, <1>7 DEF Request

LEMMA EngineStepAgrees ==
  ASSUME AgreeInv, EngineStep, "conflictingProvider" \notin Unusual
  PROVE  AgreeInv'
<1>1. Next /\ log' = log \o emitted' /\ disk' = disk
  BY DEF EngineStep
<1>2. TypeInv
  BY DEF AgreeInv
<1>3. CASE DriveStep
  BY <1>1, <1>2, <1>3, DriveStepType, DriveStepAgrees
<1>4. CASE Request
  BY <1>1, <1>2, <1>4, RequestType, RequestAgrees
<1> QED BY <1>1, <1>3, <1>4 DEF Next

-----------------------------------------------------------------------------
(* The files are written: a first part of the log moves to the disk.       *)

LEMMA Split ==
  ASSUME NEW seq \in Seq(Event), NEW n \in 1..Len(seq)
  PROVE  /\ SubSeq(seq, 1, n) \in Seq(Event) /\ SubSeq(seq, n + 1, Len(seq)) \in Seq(Event)
         /\ seq = SubSeq(seq, 1, n) \o SubSeq(seq, n + 1, Len(seq))
         /\ Len(SubSeq(seq, 1, n)) = n
<1>1. /\ SubSeq(seq, 1, n) \in Seq(Event) /\ SubSeq(seq, n + 1, Len(seq)) \in Seq(Event)
      /\ Len(SubSeq(seq, 1, n)) = n /\ Len(SubSeq(seq, n + 1, Len(seq))) = Len(seq) - n
  OBVIOUS
<1>2. \A i \in 1..Len(seq) :
        seq[i] = (SubSeq(seq, 1, n) \o SubSeq(seq, n + 1, Len(seq)))[i]
  <2> SUFFICES ASSUME NEW i \in 1..Len(seq)
               PROVE  seq[i] = (SubSeq(seq, 1, n) \o SubSeq(seq, n + 1, Len(seq)))[i]
    OBVIOUS
  <2>1. CASE i <= n
    BY <2>1
  <2>2. CASE i > n
    BY <2>2
  <2> QED BY <2>1, <2>2
<1> QED BY <1>1, <1>2

LEMMA PersistAgrees ==
  ASSUME AgreeInv, PersistNewEvents
  PROVE  AgreeInv'
<1>1. PICK n \in 1..Len(log) :
        /\ disk' = ReplayEvents(disk, SubSeq(log, 1, n))
        /\ log' = SubSeq(log, n + 1, Len(log))
  BY DEF PersistNewEvents
<1>2. UNCHANGED vars
  BY DEF PersistNewEvents
<1>3. log \in Seq(Event) /\ AllSound(disk, log)
  BY DEF AgreeInv, Files
<1> DEFINE one == SubSeq(log, 1, n)
           two == SubSeq(log, n + 1, Len(log))
<1>4. one \in Seq(Event) /\ two \in Seq(Event) /\ log = one \o two /\ Len(one) = n
  BY <1>3, Split
<1> HIDE DEF one, two
<1>5. disk' = ReplayEvents(disk, one) /\ log' = two
  BY <1>1 DEF one, two
<1>6. Replayed' = Replayed
  BY <1>4, <1>5, ReplayConcat DEF Replayed
<1>7. AllSound(disk', log')
  <2> SUFFICES ASSUME NEW m \in 0..Len(two)
               PROVE  Sound(ReplayEvents(ReplayEvents(disk, one), SubSeq(two, 1, m)))
    BY <1>5 DEF AllSound
  <2>1. SubSeq(two, 1, m) \in Seq(Event)
    BY <1>4, PrefixType
  <2>2. SubSeq(log, 1, n + m) = one \o SubSeq(two, 1, m)
    BY <1>4, PrefixOfSecond
  <2>3. n + m \in 0..Len(log)
    BY <1>4
  <2>4. Sound(ReplayEvents(disk, SubSeq(log, 1, n + m)))
    BY <1>3, <2>3 DEF AllSound
  <2>5. ReplayEvents(disk, one \o SubSeq(two, 1, m))
          = ReplayEvents(ReplayEvents(disk, one), SubSeq(two, 1, m))
    BY <1>4, <2>1, ReplayConcat
  <2> QED BY <2>2, <2>4, <2>5
<1>8. disk' \in Runtimes
  BY <1>4, <1>7, <1>5, SoundEnd DEF Sound
<1>9. Files'
  BY <1>4, <1>5, <1>7, <1>8 DEF Files
<1>10. TypeInv' /\ Memory'
  BY <1>2 DEF AgreeInv, TypeInv, TypeOK, Shape, Idle, Memory, vars, requests, history
<1>11. Matches(Replayed)'
  BY <1>2, <1>6 DEF AgreeInv, Matches, DrivenTurn, SameApproval, SameQuestion, Idle, vars,
     requests
<1> QED BY <1>9, <1>10, <1>11 DEF AgreeInv

-----------------------------------------------------------------------------
(* The next process starts.                                                *)

\* s with the turns X aborted, one after the other in any order.
Aborted(s, X) ==
  [ClearPendingPauses(s, X) EXCEPT
     !.turns = [t \in Turn |-> IF t \in X THEN "aborted" ELSE s.turns[t]],
     !.snapshots = [t \in Turn |-> IF t \in X THEN NoSnapshot ELSE s.snapshots[t]]]

\* What that is, field by field.
AbortedAs(s, r, X) ==
  /\ r \in Runtimes
  /\ r.turns = [t \in Turn |-> IF t \in X THEN "aborted" ELSE s.turns[t]]
  /\ r.snapshots = [t \in Turn |-> IF t \in X THEN NoSnapshot ELSE s.snapshots[t]]
  /\ r.next_turn = s.next_turn /\ r.next_approval = s.next_approval
  /\ r.next_question = s.next_question
  /\ \A a \in ApprovalId : r.approvals[a] =
       IF s.approvals[a].turn \in X /\ s.approvals[a].outcome = "pending"
       THEN [s.approvals[a] EXCEPT !.outcome = "cancelled"] ELSE s.approvals[a]
  /\ \A q \in QuestionId : r.questions[q] =
       IF s.questions[q].turn \in X
       THEN [s.questions[q] EXCEPT !.state = "resolved"] ELSE s.questions[q]

\* A runtime is its seven fields.
LEMMA SameRuntime ==
  ASSUME NEW r \in Runtimes, NEW s \in Runtimes,
         r.turns = s.turns, r.snapshots = s.snapshots,
         r.next_turn = s.next_turn, r.next_approval = s.next_approval,
         r.next_question = s.next_question,
         \A a \in ApprovalId : r.approvals[a] = s.approvals[a],
         \A q \in QuestionId : r.questions[q] = s.questions[q]
  PROVE  r = s
<1>1. r.approvals \in [ApprovalId -> Approval] /\ s.approvals \in [ApprovalId -> Approval]
  BY DEF Runtimes
<1>2. r.questions \in [QuestionId -> Question] /\ s.questions \in [QuestionId -> Question]
  BY DEF Runtimes
<1>3. r.approvals = s.approvals
  <2>1. /\ r.approvals = [a \in ApprovalId |-> r.approvals[a]]
        /\ s.approvals = [a \in ApprovalId |-> s.approvals[a]]
    BY <1>1
  <2> QED BY <2>1, Zenon
<1>4. r.questions = s.questions
  <2>1. /\ r.questions = [q \in QuestionId |-> r.questions[q]]
        /\ s.questions = [q \in QuestionId |-> s.questions[q]]
    BY <1>2
  <2> QED BY <2>1, Zenon
<1> QED BY <1>3, <1>4 DEF Runtimes

LEMMA AbortedIs ==
  ASSUME NEW s \in Runtimes, NEW X \in SUBSET Turn
  PROVE  AbortedAs(s, Aborted(s, X), X)
<1> DEFINE p == ClearPendingPauses(s, X)
           T == [t \in Turn |-> IF t \in X THEN "aborted" ELSE s.turns[t]]
           G == [t \in Turn |-> IF t \in X THEN NoSnapshot ELSE s.snapshots[t]]
           r == Aborted(s, X)
<1>1. /\ p \in Runtimes
      /\ p.next_turn = s.next_turn /\ p.next_approval = s.next_approval
      /\ p.next_question = s.next_question
      /\ \A a \in ApprovalId : p.approvals[a] =
           IF s.approvals[a].turn \in X /\ s.approvals[a].outcome = "pending"
           THEN [s.approvals[a] EXCEPT !.outcome = "cancelled"] ELSE s.approvals[a]
      /\ \A q \in QuestionId : p.questions[q] =
           IF s.questions[q].turn \in X
           THEN [s.questions[q] EXCEPT !.state = "resolved"] ELSE s.questions[q]
  BY ClearPauses
<1>2. T \in [Turn -> Status] /\ G \in [Turn -> Snapshot]
  BY DEF Runtimes, Status, Terminal, Snapshot, NoSnapshot
<1>3. r = [p EXCEPT !.turns = T, !.snapshots = G]
  BY DEF Aborted
<1> HIDE DEF p, r, T, G
<1>4. /\ r \in Runtimes /\ r.turns = T /\ r.snapshots = G
      /\ r.approvals = p.approvals /\ r.questions = p.questions
      /\ r.next_turn = p.next_turn /\ r.next_approval = p.next_approval
      /\ r.next_question = p.next_question
  BY <1>1, <1>2, <1>3 DEF Runtimes
<1>5. AbortedAs(s, r, X)
  BY <1>1, <1>4 DEF AbortedAs, T, G
<1> QED BY <1>5 DEF r

LEMMA AbortNone ==
  ASSUME NEW s \in Runtimes
  PROVE  Aborted(s, {}) = s
<1> DEFINE r == Aborted(s, {})
<1>1. AbortedAs(s, r, {})
  BY AbortedIs
<1> HIDE DEF r
<1>2. s.turns \in [Turn -> Status] /\ s.snapshots \in [Turn -> Snapshot]
  BY DEF Runtimes
<1>3. r.turns = s.turns /\ r.snapshots = s.snapshots
  BY <1>1, <1>2 DEF AbortedAs
<1>4. r = s
  BY <1>1, <1>3, SameRuntime DEF AbortedAs
<1> QED BY <1>4 DEF r

\* One more turn aborted.
LEMMA AbortMore ==
  ASSUME NEW s \in Runtimes, NEW X \in SUBSET Turn, NEW t \in Turn
  PROVE  EndTurn(Aborted(s, X), t, "aborted") = Aborted(s, X \cup {t})
<1> DEFINE p == Aborted(s, X)
           r == EndTurn(p, t, "aborted")
           z == Aborted(s, X \cup {t})
<1>1. AbortedAs(s, p, X) /\ AbortedAs(s, z, X \cup {t})
  <2>1. X \cup {t} \in SUBSET Turn
    OBVIOUS
  <2> QED BY <2>1, AbortedIs
<1>2. Ended(p, r, t, "aborted")
  <2>1. p \in Runtimes /\ "aborted" \in Status
    BY <1>1 DEF AbortedAs, Status, Terminal
  <2> HIDE DEF p
  <2> QED BY <2>1, EndTurnIs
<1> HIDE DEF p, r, z
<1>3. s.turns \in [Turn -> Status] /\ s.snapshots \in [Turn -> Snapshot]
  BY DEF Runtimes
<1>4. r.turns = z.turns
  <2>1. r.turns \in [Turn -> Status] /\ z.turns \in [Turn -> Status]
    BY <1>1, <1>2 DEF AbortedAs, Ended, Runtimes
  <2>2. \A u \in Turn : r.turns[u] = z.turns[u]
    BY <1>1, <1>2, <1>3 DEF AbortedAs, Ended
  <2>3. /\ r.turns = [u \in Turn |-> r.turns[u]]
        /\ z.turns = [u \in Turn |-> z.turns[u]]
    BY <2>1
  <2> QED BY <2>2, <2>3, Zenon
<1>5. r.snapshots = z.snapshots
  <2>1. r.snapshots \in [Turn -> Snapshot] /\ z.snapshots \in [Turn -> Snapshot]
    BY <1>1, <1>2 DEF AbortedAs, Ended, Runtimes
  <2>2. \A u \in Turn : r.snapshots[u] = z.snapshots[u]
    BY <1>1, <1>2, <1>3 DEF AbortedAs, Ended
  <2>3. /\ r.snapshots = [u \in Turn |-> r.snapshots[u]]
        /\ z.snapshots = [u \in Turn |-> z.snapshots[u]]
    BY <2>1
  <2> QED BY <2>2, <2>3, Zenon
<1>6. ASSUME NEW a \in ApprovalId PROVE r.approvals[a] = z.approvals[a]
  <2> DEFINE c == [s.approvals[a] EXCEPT !.outcome = "cancelled"]
  <2>1. s.approvals[a] \in Approval
    BY DEF Runtimes
  <2>2. c.turn = s.approvals[a].turn /\ c.outcome = "cancelled"
    BY <2>1, ApprovalFields
  <2>3. p.approvals[a] = IF s.approvals[a].turn \in X /\ s.approvals[a].outcome = "pending"
                         THEN c ELSE s.approvals[a]
    BY <1>1 DEF AbortedAs
  <2>4. z.approvals[a] = IF s.approvals[a].turn \in X \cup {t} /\ s.approvals[a].outcome = "pending"
                         THEN c ELSE s.approvals[a]
    BY <1>1 DEF AbortedAs
  <2>5. r.approvals[a] = IF p.approvals[a].turn = t /\ p.approvals[a].outcome = "pending"
                         THEN [p.approvals[a] EXCEPT !.outcome = "cancelled"] ELSE p.approvals[a]
    BY <1>2 DEF Ended
  <2>6. p.approvals[a] = s.approvals[a] => [p.approvals[a] EXCEPT !.outcome = "cancelled"] = c
    OBVIOUS
  <2> HIDE DEF c
  <2> QED BY <2>2, <2>3, <2>4, <2>5, <2>6
<1>7. ASSUME NEW q \in QuestionId PROVE r.questions[q] = z.questions[q]
  <2> DEFINE c == [s.questions[q] EXCEPT !.state = "resolved"]
  <2>1. s.questions[q] \in Question
    BY DEF Runtimes
  <2>2. c.turn = s.questions[q].turn /\ [c EXCEPT !.state = "resolved"] = c
    BY <2>1 DEF Question, NoQuestionAsked
  <2>3. p.questions[q] = IF s.questions[q].turn \in X THEN c ELSE s.questions[q]
    BY <1>1 DEF AbortedAs
  <2>4. z.questions[q] = IF s.questions[q].turn \in X \cup {t} THEN c ELSE s.questions[q]
    BY <1>1 DEF AbortedAs
  <2>5. r.questions[q] = IF p.questions[q].turn = t
                         THEN [p.questions[q] EXCEPT !.state = "resolved"] ELSE p.questions[q]
    BY <1>2 DEF Ended
  <2>6. p.questions[q] = s.questions[q] => [p.questions[q] EXCEPT !.state = "resolved"] = c
    OBVIOUS
  <2>7. p.questions[q] = c => [p.questions[q] EXCEPT !.state = "resolved"] = c
    BY <2>2
  <2> HIDE DEF c
  <2> QED BY <2>2, <2>3, <2>4, <2>5, <2>6, <2>7
<1>8. r = z
  BY <1>1, <1>2, <1>4, <1>5, <1>6, <1>7, SameRuntime DEF AbortedAs, Ended
<1> QED BY <1>8 DEF p, r, z

LEMMA AbortedSound ==
  ASSUME NEW s, Sound(s), NEW X \in SUBSET Turn, \A t \in X : s.turns[t] # "absent"
  PROVE  Sound(Aborted(s, X))
<1> DEFINE r == Aborted(s, X)
<1>1. AbortedAs(s, r, X) /\ s \in Runtimes
  BY AbortedIs DEF Sound
<1> HIDE DEF r
<1>2. \A t \in Turn : /\ r.turns[t] = IF t \in X THEN "aborted" ELSE s.turns[t]
                      /\ r.snapshots[t] = IF t \in X THEN NoSnapshot ELSE s.snapshots[t]
  BY <1>1 DEF AbortedAs
<1>3. \A a \in ApprovalId : r.approvals[a].outcome # "absent" => s.approvals[a].outcome # "absent"
  BY <1>1 DEF AbortedAs
<1>q. \A q \in QuestionId : r.questions[q].state # "absent" => s.questions[q].state # "absent"
  <2> SUFFICES ASSUME NEW q \in QuestionId, r.questions[q].state # "absent"
               PROVE  s.questions[q].state # "absent"
    OBVIOUS
  <2>1. s.questions[q] \in Question
    BY <1>1 DEF Runtimes
  <2>2. CASE s.questions[q].turn \in X
    BY <2>1, <2>2 DEF Question, NoQuestionAsked
  <2>3. CASE s.questions[q].turn \notin X
    BY <1>1, <2>3 DEF AbortedAs
  <2> QED BY <2>2, <2>3
<1>4. /\ r \in Runtimes /\ r.next_turn = s.next_turn /\ r.next_approval = s.next_approval
      /\ r.next_question = s.next_question
  BY <1>1 DEF AbortedAs
<1>5. Sound(r)
  BY <1>2, <1>3, <1>q, <1>4 DEF Sound
<1> QED BY <1>5 DEF r

\* The events of a start, written one after the other.
LEMMA ReplayAborts ==
  ASSUME NEW s, Sound(s), NEW X \in SUBSET Turn, \A t \in X : s.turns[t] # "absent",
         NEW events \in AbortEvents(X)
  PROVE  /\ events \in Seq(Event)
         /\ AllSound(s, events)
         /\ ReplayEvents(s, events) = Aborted(s, X)
<1> DEFINE N == Cardinality(X)
<1>1. IsFiniteSet(X) /\ N \in Nat
  <2>1. IsFiniteSet(Turn)
    BY FS_Interval, BoundsAreNat
  <2>2. IsFiniteSet(X)
    BY <2>1, FS_Subset
  <2> QED BY <2>2, FS_CardinalityType
<1>2. PICK order \in [1..N -> X] :
        /\ \A i, j \in 1..N : order[i] = order[j] => i = j
        /\ events = [i \in 1..N |-> TurnEvent("TurnAborted", order[i])]
  BY DEF AbortEvents
<1>3. \A t \in X : \E i \in 1..N : order[i] = t
  <2>1. order \in Injection(1..N, X)
    BY <1>2 DEF Injection, IsInjective
  <2>2. Cardinality(1..N) = N
    BY <1>1, FS_Interval
  <2>3. order \in Surjection(1..N, X)
    BY <1>1, <2>1, <2>2, FS_Injection
  <2> QED BY <2>3 DEF Surjection
<1> HIDE DEF N
<1>4. /\ events \in Seq(Event) /\ Len(events) = N
      /\ \A i \in 1..N : events[i] = TurnEvent("TurnAborted", order[i]) /\ order[i] \in X
  <2>1. \A i \in 1..N : TurnEvent("TurnAborted", order[i]) \in Event
    BY <1>2, TurnEventType DEF EventKind
  <2> QED BY <1>1, <1>2, <2>1
<1>ord. N \in Nat /\ \A i \in 1..N : order[i] \in X /\ order[i] \in Turn
  <2>1. N \in Nat
    BY <1>1
  <2>2. \A i \in 1..N : order[i] \in X
    BY <1>2
  <2>3. \A x \in X : x \in Turn
    OBVIOUS
  <2> QED BY <2>1, <2>2, <2>3
<1> DEFINE Done(n) == {order[i] : i \in 1..n}
           T == {n \in Nat : n <= N => ReplayEvents(s, SubSeq(events, 1, n)) = Aborted(s, Done(n))}
<1>5. s \in Runtimes
  BY DEF Sound
<1>6. 0 \in T
  <2>1. Done(0) = {} /\ SubSeq(events, 1, 0) = <<>>
    BY <1>4
  <2>2. ReplayEvents(s, SubSeq(events, 1, 0)) = Aborted(s, Done(0))
    BY <1>5, <2>1, ReplayNone, AbortNone
  <2> QED BY <2>2
<1>7. ASSUME NEW n \in Nat, n \in T PROVE n + 1 \in T
  <2> SUFFICES ASSUME n + 1 <= N
               PROVE  ReplayEvents(s, SubSeq(events, 1, n + 1)) = Aborted(s, Done(n + 1))
    OBVIOUS
  <2>1. ReplayEvents(s, SubSeq(events, 1, n)) = Aborted(s, Done(n))
    BY <1>1, <1>7
  <2>2. n + 1 \in 1..N /\ order[n + 1] \in Turn
    <3>1. n \in Nat /\ N \in Nat /\ n + 1 <= N
      BY <1>7, <1>ord
    <3>2. n + 1 \in 1..N
      BY ONLY <3>1
    <3> QED BY <1>ord, <3>2
  <2> DEFINE t == order[n + 1]
             e == TurnEvent("TurnAborted", t)
             first == SubSeq(events, 1, n)
  <2>3. /\ first \in Seq(Event) /\ e \in Event
        /\ SubSeq(events, 1, n + 1) = Append(first, e)
    <3>1. n \in 0..Len(events)
      BY <1>1, <1>4
    <3>2. first \in Seq(Event)
      BY <1>4, <3>1, PrefixType
    <3>3. e \in Event
      BY <2>2, TurnEventType DEF EventKind
    <3>4. events[n + 1] = e
      BY <1>4, <2>2
    <3>5. SubSeq(events, 1, n + 1) = Append(SubSeq(events, 1, n), events[n + 1])
      BY <1>1, <1>4, <2>2
    <3> QED BY <3>2, <3>3, <3>4, <3>5
  <2>4. Done(n) \in SUBSET Turn /\ Done(n + 1) = Done(n) \cup {t}
    <3>1. \A i \in 1..(n + 1) : order[i] \in Turn
      <4>1. n \in Nat /\ N \in Nat /\ n + 1 <= N
        BY <1>7, <1>ord
      <4>2. \A i \in 1..(n + 1) : i \in 1..N
        BY ONLY <4>1
      <4> QED BY <1>ord, <4>2
    <3>2. 1..(n + 1) = (1..n) \cup {n + 1}
      OBVIOUS
    <3> QED BY <3>1, <3>2
  <2> HIDE DEF Done, first, e, t
  <2>5. ReplayEvents(s, Append(first, e)) = ApplyReplayedEvent(ReplayEvents(s, first), e)
    BY <2>3, ReplayAppend
  <2>6. \A r : ApplyReplayedEvent(r, e) = EndTurn(r, t, "aborted")
    <3>1. e.kind = "TurnAborted" /\ e.turn = t
      BY DEF e, TurnEvent
    <3> QED BY <3>1 DEF ApplyReplayedEvent
  <2>7. EndTurn(Aborted(s, Done(n)), t, "aborted") = Aborted(s, Done(n) \cup {t})
    BY <1>5, <2>2, <2>4, AbortMore DEF t
  <2> QED BY <2>1, <2>3, <2>4, <2>5, <2>6, <2>7, Zenon DEF first
<1> HIDE DEF T
<1>8. Nat \subseteq T
  BY <1>6, <1>7, Events!NatSetInduction
<1>9. \A n \in 0..N : ReplayEvents(s, SubSeq(events, 1, n)) = Aborted(s, Done(n))
  BY <1>1, <1>8 DEF T
<1>10. AllSound(s, events)
  <2> SUFFICES ASSUME NEW n \in 0..N PROVE Sound(ReplayEvents(s, SubSeq(events, 1, n)))
    BY <1>4 DEF AllSound
  <2>1. Done(n) \in SUBSET Turn /\ \A t \in Done(n) : s.turns[t] # "absent"
    <3>1. \A i \in 1..n : i \in 1..N
      BY <1>ord
    <3>2. \A i \in 1..n : order[i] \in X /\ order[i] \in Turn
      BY <1>ord, <3>1
    <3> QED BY <3>2
  <2> HIDE DEF Done
  <2>2. Sound(Aborted(s, Done(n)))
    BY <2>1, AbortedSound
  <2> QED BY <1>9, <2>2
<1>11. ReplayEvents(s, events) = Aborted(s, X)
  <2>1. Done(N) = X
    <3>1. \A i \in 1..N : order[i] \in X
      BY <1>ord
    <3>2. \A x \in X : x \in Done(N)
      BY <1>3
    <3> QED BY <3>1, <3>2
  <2>2. SubSeq(events, 1, N) = events
    BY <1>4, Whole
  <2>3. ReplayEvents(s, SubSeq(events, 1, N)) = Aborted(s, Done(N))
    BY <1>1, <1>9
  <2> QED BY <2>1, <2>2, <2>3
<1> QED BY <1>4, <1>10, <1>11

\* What the next process has in memory.
LEMMA StartServerAgrees ==
  ASSUME AgreeInv, StartServer
  PROVE  AgreeInv'
<1> DEFINE X == Recoverable(disk)
           p == ClearPendingPauses(disk, X)
<1>1. Sound(disk) /\ disk \in Runtimes
  BY FilesSound DEF AgreeInv, Sound
<1>2. X \in SUBSET Turn /\ \A t \in X : disk.turns[t] # "absent"
  BY DEF Recoverable
<1>3. emitted' \in AbortEvents(X) /\ log' = emitted' /\ disk' = disk
  BY DEF StartServer
<1> HIDE DEF X
<1>4. /\ emitted' \in Seq(Event) /\ AllSound(disk, emitted')
      /\ ReplayEvents(disk, emitted') = Aborted(disk, X)
  BY <1>1, <1>2, <1>3, ReplayAborts
<1>5. Files' /\ Replayed' = Aborted(disk, X)
  BY <1>1, <1>3, <1>4 DEF Files, Replayed
<1>6. AbortedAs(disk, Replayed', X)
  BY <1>1, <1>2, <1>5, AbortedIs
<1>7. /\ p \in Runtimes
      /\ p.turns = disk.turns /\ p.snapshots = disk.snapshots
      /\ p.next_turn = disk.next_turn /\ p.next_approval = disk.next_approval
      /\ p.next_question = disk.next_question
      /\ \A a \in ApprovalId : p.approvals[a] =
           IF disk.approvals[a].turn \in X /\ disk.approvals[a].outcome = "pending"
           THEN [disk.approvals[a] EXCEPT !.outcome = "cancelled"] ELSE disk.approvals[a]
      /\ \A q \in QuestionId : p.questions[q] =
           IF disk.questions[q].turn \in X
           THEN [disk.questions[q] EXCEPT !.state = "resolved"] ELSE disk.questions[q]
  BY <1>1, <1>2, ClearPauses
<1> DEFINE F == [t \in Turn |-> IF t \in X THEN "aborted" ELSE p.turns[t]]
<1>8. RecoverIncompleteTurns(disk) = [p EXCEPT !.turns = F]
  BY DEF RecoverIncompleteTurns, X
<1>9. /\ drive' = IdleDrive /\ interrupts' = {} /\ UNCHANGED history
      /\ turns' = RecoverIncompleteTurns(disk).turns
      /\ next_turn' = RecoverIncompleteTurns(disk).next_turn
      /\ approvals' = RecoverIncompleteTurns(disk).approvals
      /\ next_approval' = RecoverIncompleteTurns(disk).next_approval
      /\ questions' = RecoverIncompleteTurns(disk).questions
      /\ next_question' = RecoverIncompleteTurns(disk).next_question
      /\ snapshots' = RecoverIncompleteTurns(disk).snapshots
  BY DEF StartServer
<1> HIDE DEF p
<1>10. /\ turns' = F /\ snapshots' = p.snapshots
       /\ approvals' = p.approvals /\ next_approval' = p.next_approval
       /\ questions' = p.questions /\ next_question' = p.next_question
       /\ next_turn' = p.next_turn
  BY <1>7, <1>8, <1>9 DEF Runtimes
<1>11. /\ F \in [Turn -> Status]
       /\ \A t \in Turn : turns'[t] = IF t \in X THEN "aborted" ELSE disk.turns[t]
  BY <1>1, <1>7, <1>10 DEF Runtimes, Status, Terminal
<1> HIDE DEF F
<1>12. TypeInv'
  <2>1. IdleDrive \in Drive
    BY DEF IdleDrive, Drive, Place, Phase
  <2>2. TypeOK'
    BY <1>4, <1>7, <1>9, <1>10, <1>11, <2>1
       DEF AgreeInv, TypeInv, TypeOK, Runtimes, history
  <2>3. Shape'
    BY <1>9 DEF Shape, IdleDrive, Idle
  <2> QED BY <2>2, <2>3 DEF TypeInv
<1>13. Memory'
  <2>1. \A t \in Turn : turns'[t] = "absent" <=> t > next_turn'
    BY <1>1, <1>2, <1>7, <1>10, <1>11 DEF Sound
  <2>2. \A t \in Turn : /\ turns'[t] = "absent" => snapshots'[t] = NoSnapshot
                        /\ snapshots'[t].held \/ snapshots'[t] = NoSnapshot
    BY <1>1, <1>7, <1>10, <1>11 DEF Sound
  <2>3. \A a \in ApprovalId : approvals'[a].outcome # "absent" => a <= next_approval'
    <3> SUFFICES ASSUME NEW a \in ApprovalId, approvals'[a].outcome # "absent"
                 PROVE  a <= next_approval'
      OBVIOUS
    <3>1. disk.approvals[a].outcome # "absent"
      BY <1>7, <1>10
    <3> QED BY <1>1, <1>7, <1>10, <3>1 DEF Sound
  <2>4. \A q \in QuestionId : questions'[q].state # "absent" => q <= next_question'
    <3> SUFFICES ASSUME NEW q \in QuestionId, questions'[q].state # "absent"
                 PROVE  q <= next_question'
      OBVIOUS
    <3>1. disk.questions[q].state # "absent"
      <4>1. disk.questions[q] \in Question
        BY <1>1 DEF Runtimes
      <4>2. CASE disk.questions[q].turn \in X
        BY <1>2, <4>1, <4>2 DEF Question, NoQuestionAsked
      <4>3. CASE disk.questions[q].turn \notin X
        BY <1>7, <1>10, <4>3
      <4> QED BY <4>2, <4>3
    <3> QED BY <1>1, <1>7, <1>10, <3>1 DEF Sound
  <2> QED BY <2>1, <2>2, <2>3, <2>4 DEF Memory
<1>14. /\ \A t \in Turn : /\ Replayed'.turns[t] = turns'[t]
                          /\ turns'[t] \notin Terminal => Replayed'.snapshots[t] = snapshots'[t]
       /\ \A a \in ApprovalId : Replayed'.approvals[a] = approvals'[a]
       /\ \A q \in QuestionId : Replayed'.questions[q] = questions'[q]
  <2>1. \A t \in Turn : Replayed'.turns[t] = turns'[t]
    BY <1>6, <1>11 DEF AbortedAs
  <2>2. ASSUME NEW t \in Turn, turns'[t] \notin Terminal
        PROVE  Replayed'.snapshots[t] = snapshots'[t]
    <3>1. t \notin X
      BY <1>11, <2>2 DEF Terminal
    <3> QED BY <1>6, <1>7, <1>10, <3>1 DEF AbortedAs
  <2>3. \A a \in ApprovalId : Replayed'.approvals[a] = approvals'[a]
    BY <1>6, <1>7, <1>10 DEF AbortedAs
  <2>4. \A q \in QuestionId : Replayed'.questions[q] = questions'[q]
    BY <1>6, <1>7, <1>10 DEF AbortedAs
  <2> QED BY <2>1, <2>2, <2>3, <2>4
<1>15. Matches(Replayed)'
  BY <1>9, <1>14 DEF Matches, SameApproval, SameQuestion, Idle, IdleDrive
<1> QED BY <1>5, <1>12, <1>13, <1>15 DEF AgreeInv

\* Before anything happened the files are empty, and so is the runtime.
LEMMA InitAgrees ==
  ASSUME RecoveryInit
  PROVE  AgreeInv
<1>1. TypeInv
  BY InitType DEF RecoveryInit
<1>2. Sound(EmptyRuntime)
  BY BoundsAreNat DEF EmptyRuntime, Sound, Runtimes, Status, Approval, NoApproval, Question,
     NoQuestionAsked, Snapshot, NoSnapshot, Terminal, Waiting
<1>3. Files /\ Replayed = EmptyRuntime
  BY <1>2, SoundNone, ReplayNone DEF RecoveryInit, Files, Replayed, Sound
<1>4. Memory
  BY BoundsAreNat DEF RecoveryInit, Init, Memory, NoSnapshot, NoApproval, NoQuestionAsked
<1>5. Matches(EmptyRuntime)
  BY DEF RecoveryInit, Init, Matches, EmptyRuntime, SameApproval, SameQuestion, IdleDrive, Idle
<1> QED BY <1>1, <1>3, <1>4, <1>5 DEF AgreeInv

\* Every step of the server keeps it.
LEMMA StepAgrees ==
  ASSUME AgreeInv, [RecoveryNext]_recoveryVars, "conflictingProvider" \notin Unusual
  PROVE  AgreeInv'
<1>1. CASE EngineStep
  BY <1>1, EngineStepAgrees
<1>2. CASE PersistNewEvents
  BY <1>2, PersistAgrees
<1>3. CASE Crash \/ ShutdownAndStart
  BY <1>3, StartServerAgrees DEF Crash, ShutdownAndStart
<1>4. CASE UNCHANGED recoveryVars
  <2>1. UNCHANGED vars /\ disk' = disk /\ log' = log
    BY <1>4 DEF recoveryVars
  <2>2. TypeInv' /\ Memory'
    BY <2>1 DEF AgreeInv, TypeInv, TypeOK, Shape, Idle, Memory, vars, requests, history
  <2>3. Files' /\ Replayed' = Replayed
    BY <2>1 DEF AgreeInv, Files, Replayed
  <2>4. Matches(Replayed)'
    BY <2>1, <2>3 DEF AgreeInv, Matches, DrivenTurn, SameApproval, SameQuestion, Idle, vars,
       requests
  <2> QED BY <2>2, <2>3, <2>4 DEF AgreeInv
<1> QED BY <1>1, <1>2, <1>3, <1>4 DEF RecoveryNext

\* With no turn driven and nothing left to write, a client sees on file what it
\* sees in memory.
LEMMA AgreeIsSeen == AgreeInv => ReplayAgrees
<1> SUFFICES ASSUME AgreeInv, Idle, log = <<>>
             PROVE  ClientView(disk) = ClientView(LiveRuntime)
  BY DEF ReplayAgrees
<1>1. disk \in Runtimes /\ Matches(disk) /\ TypeOK
  BY ReplayNone DEF AgreeInv, Replayed, Files, TypeInv
<1>2. drive.turn = NoTurn /\ drive.at \notin Pausing
  BY DEF AgreeInv, TypeInv, Shape, IdleDrive, Idle, Pausing
<1>3. \A t \in Turn : /\ disk.turns[t] = turns[t]
                      /\ turns[t] \notin Terminal => disk.snapshots[t] = snapshots[t]
  BY <1>1, <1>2 DEF Matches, Idle
<1>4. \A a \in ApprovalId : SameApproval(disk, a)
  BY <1>1, <1>2 DEF Matches, Pausing
<1>5. \A q \in QuestionId : SameQuestion(disk, q)
  BY <1>1, <1>2 DEF Matches, Pausing
<1>6. disk.turns = turns
  <2>1. disk.turns = [t \in Turn |-> disk.turns[t]] /\ turns = [t \in Turn |-> turns[t]]
    BY <1>1 DEF Runtimes, TypeOK
  <2> QED BY <1>3, <2>1, Zenon
<1> DEFINE W == {u \in Turn : turns[u] \in Waiting}
<1>7. [t \in W |-> disk.snapshots[t]] = [t \in W |-> snapshots[t]]
  <2>1. \A t \in W : disk.snapshots[t] = snapshots[t]
    BY <1>3 DEF Waiting, Terminal
  <2> QED BY <2>1, Zenon
<1>8. \A q \in QuestionId :
        disk.questions[q].state = "open" /\ turns[disk.questions[q].turn] \in Waiting
          <=> questions[q].state = "open" /\ turns[questions[q].turn] \in Waiting
  <2> TAKE q \in QuestionId
  <2>1. CASE disk.questions[q] = questions[q]
    BY <2>1, Zenon
  <2>2. CASE /\ turns[questions[q].turn] \in Terminal
             /\ disk.questions[q] = [questions[q] EXCEPT !.state = "resolved"]
    <3>1. /\ disk.questions[q].turn = questions[q].turn
          /\ disk.questions[q].state = "resolved"
      BY <1>1, <2>2, QuestionFields DEF TypeOK
    <3> QED BY <2>2, <3>1 DEF Waiting, Terminal
  <2> QED BY <1>5, <2>1, <2>2 DEF SameQuestion
<1>9. \A a \in ApprovalId :
        (/\ disk.approvals[a].outcome = "pending" /\ disk.approvals[a].turn # NoTurn
         /\ turns[disk.approvals[a].turn] \in Waiting)
          <=> (/\ approvals[a].outcome = "pending" /\ approvals[a].turn # NoTurn
               /\ turns[approvals[a].turn] \in Waiting)
  <2> TAKE a \in ApprovalId
  <2>1. CASE disk.approvals[a] = approvals[a]
    BY <2>1, Zenon
  <2>2. CASE /\ turns[approvals[a].turn] \in Terminal
             /\ disk.approvals[a] = [approvals[a] EXCEPT !.outcome = "cancelled"]
    <3>1. /\ disk.approvals[a].turn = approvals[a].turn
          /\ disk.approvals[a].outcome = "cancelled"
      BY <1>1, <2>2, ApprovalFields DEF TypeOK
    <3> QED BY <2>2, <3>1 DEF Waiting, Terminal
  <2> QED BY <1>4, <2>1, <2>2 DEF SameApproval
<1> QED BY <1>6, <1>7, <1>8, <1>9 DEF ClientView, LiveRuntime

\* Replay and the live handlers agree: when everything is written and no turn is
\* driven, the runtime a restart builds from the files is the one in memory, as
\* far as a client can act on it.  A resume whose provider request names another
\* turn is left out: it is refused after it took the transcript away, and
\* writes nothing of it.
THEOREM ReplayCorrect ==
  ASSUME "conflictingProvider" \notin Unusual
  PROVE  RecoverySpec => []ReplayAgrees
<1>1. RecoveryInit => AgreeInv
  BY InitAgrees
<1>2. AgreeInv /\ [RecoveryNext]_recoveryVars => AgreeInv'
  BY StepAgrees
<1> QED BY <1>1, <1>2, AgreeIsSeen, PTL DEF RecoverySpec

-----------------------------------------------------------------------------
(* Paused turns.                                                           *)

Direct == Providers = {"direct"}

\* What a runtime keeps of a waiting turn: its question, open; with nothing but
\* direct providers, a transcript that still lacks the answer to the question, or
\* to the newest approval.
GoesOn(s, t) ==
  /\ s.turns[t] = "waitingForUser" =>
       \E q \in QuestionId : /\ s.questions[q].turn = t
                             /\ s.questions[q].state = "open"
                             /\ Direct => s.questions[q].call \in s.snapshots[t].unanswered
  /\ Direct /\ s.turns[t] = "waitingForApproval" =>
       \E a \in ApprovalId : /\ s.approvals[a].turn = t
                             /\ s.approvals[a].call \in s.snapshots[t].unanswered
                             /\ \A b \in ApprovalId : s.approvals[b].turn = t => b <= a

\* The calls of a step are answered one after the other, each once, and the
\* transcript of a pause lacks the answers of all that are left.
Steps ==
  /\ Direct /\ ~Idle => drive.direct
  /\ drive.direct => CallsOf(drive.calls) \subseteq drive.unanswered
  /\ \A i, j \in 1..Len(drive.calls) : drive.calls[i] = drive.calls[j] => i = j
  /\ drive.at = "pending" => drive.calls = <<>>
  /\ drive.at \in Pausing /\ drive.direct =>
       snapshots[drive.turn].unanswered = drive.unanswered

\* A background turn, the only one whose events may be written while it is
\* driven, is running on file too: it never was a resumed one.  And the approval
\* a turn is about to pause for is nobody's on file.
Ahead ==
  /\ drive.background => Replayed.turns[drive.turn] = "running"
  /\ drive.at = "pausingForApproval" => Replayed.approvals[next_approval] = NoApproval

LiveGoesOn == \A t \in Turn : drive.turn # t => GoesOn(LiveRuntime, t)
FilesGoOn == \A t \in Turn : GoesOn(disk, t)

PauseInv ==
  /\ crashes \in Nat
  /\ Steps
  /\ Ahead
  /\ crashes = 0 \/ ~torn => LiveGoesOn
  /\ ~torn => FilesGoOn

-----------------------------------------------------------------------------
(* What a step of the driver does to the turn, in kinds.                   *)

\* The turn ends: completed, interrupted, cancelled or failed.
DriveEnds ==
  /\ ~Idle
  /\ drive' = IdleDrive
  /\ \E w \in Terminal : turns' = [turns EXCEPT ![drive.turn] = w]
  /\ snapshots' = [snapshots EXCEPT ![drive.turn] = NoSnapshot]
  /\ UNCHANGED <<requests, history>>

\* The driver goes on and does nothing a call could tell.
DriveLoops ==
  /\ ~Idle
  /\ drive.at \notin Pausing \cup {"pending"}
  /\ drive'.at \notin Pausing \cup {"pending"}
  /\ \A f \in {"turn", "background", "direct", "approved", "pending", "calls", "provided",
               "unanswered"} : drive'[f] = drive[f]
  /\ turns' = turns \/ turns' = [turns EXCEPT ![drive.turn] = "running"]
  /\ emitted' = <<>>
  /\ UNCHANGED <<requests, snapshots, history>>

LEMMA DriveKinds ==
  ASSUME TypeInv, DriveStep
  PROVE  \/ DriveEnds \/ DriveLoops \/ RunPendingCall \/ ModelAnswers
         \/ ExecuteCall \/ RejectQuestion \/ GuardianDenies
         \/ AskUser \/ RequestToolApproval \/ PauseForUser \/ PauseForApproval
<1>1. drive \in Drive /\ (Idle => drive.at = "idle")
  BY DEF TypeInv, TypeOK, Shape, IdleDrive
<1>2. CASE \/ InterruptDrive \/ CancelDrive \/ GuardContinuation \/ ModelFails
           \/ DuplicateResult \/ ResultWithoutCall
  <2>1. ~Idle /\ \E kind : EndAborted(kind) /\ UNCHANGED history
    BY <1>1, <1>2 DEF InterruptDrive, CancelDrive, GuardContinuation, ModelFails,
       DuplicateResult, ResultWithoutCall, NotInterrupted
  <2>2. "aborted" \in Terminal
    BY DEF Terminal
  <2> QED BY <2>1, <2>2 DEF EndAborted, DriveEnds
<1>3. CASE Complete
  <2>1. ~Idle /\ "completed" \in Terminal
    BY <1>1, <1>3 DEF Complete, NotInterrupted, Terminal
  <2> QED BY <1>3, <2>1 DEF Complete, DriveEnds
<1>4. CASE CallModel \/ StreamStep \/ EnterTools \/ SettleStep
  <2>1. /\ ~Idle /\ drive.at \in {"loop", "stepped", "streamed", "calls"}
        /\ turns' = [turns EXCEPT ![drive.turn] = "running"]
        /\ emitted' = <<>>
        /\ UNCHANGED <<requests, snapshots, history>>
        /\ \E at \in {"model", "streamed", "calls", "settled"}, phase \in Phase :
             drive' = [drive EXCEPT !.at = at, !.phase = phase]
    BY <1>1, <1>4 DEF CallModel, StreamStep, EnterTools, SettleStep, NotInterrupted, SetPhase,
       Phase
  <2>2. /\ drive'.at \in {"model", "streamed", "calls", "settled"}
        /\ \A f \in {"turn", "background", "direct", "approved", "pending", "calls", "provided",
                     "unanswered"} : drive'[f] = drive[f]
    BY <1>1, <2>1 DEF Drive
  <2> QED BY <2>1, <2>2 DEF DriveLoops, Pausing
<1>5. CASE Continue
  <2>1. /\ ~Idle /\ drive.at = "settled" /\ turns' = turns /\ emitted' = <<>>
        /\ UNCHANGED <<requests, snapshots, history>>
    BY <1>1, <1>5 DEF Continue, NotInterrupted
  <2>2. /\ drive'.at = "loop"
        /\ \A f \in {"turn", "background", "direct", "approved", "pending", "calls", "provided",
                     "unanswered"} : drive'[f] = drive[f]
    BY <1>1, <1>5 DEF Continue, Drive
  <2> QED BY <2>1, <2>2 DEF DriveLoops, Pausing
<1> QED BY <1>2, <1>3, <1>4, <1>5 DEF DriveStep

\* The first call of a step is dealt with.
LEMMA NextCallSteps ==
  ASSUME NEW d \in Drive, d.calls # <<>>
  PROVE  /\ \A f \in {"turn", "at", "background", "direct", "approved", "pending"} :
              NextCall(d)[f] = d[f]
         /\ NextCall(d).calls = Tail(d.calls)
         /\ NextCall(d).unanswered = d.unanswered \ {Head(d.calls)}
         /\ NextCall(d).provided = d.provided \ {Head(d.calls)}
BY DEF NextCall, Observed, Drive

\* Calls that are all different stay so, without the first.
LEMMA TailCalls ==
  ASSUME NEW s \in Seq(Calls), s # <<>>,
         \A i, j \in 1..Len(s) : s[i] = s[j] => i = j
  PROVE  /\ Tail(s) \in Seq(Calls) /\ Head(s) \in CallsOf(s)
         /\ \A i, j \in 1..Len(Tail(s)) : Tail(s)[i] = Tail(s)[j] => i = j
         /\ CallsOf(Tail(s)) = CallsOf(s) \ {Head(s)}
<1>1. /\ Len(s) \in Nat /\ Len(s) > 0 /\ Head(s) = s[1] /\ Tail(s) \in Seq(Calls)
      /\ Len(Tail(s)) = Len(s) - 1 /\ \A i \in 1..Len(Tail(s)) : Tail(s)[i] = s[i + 1]
      /\ DOMAIN s = 1..Len(s) /\ DOMAIN Tail(s) = 1..Len(Tail(s))
  OBVIOUS
<1> DEFINE r == Tail(s)
<1> HIDE DEF r
<1>2. \A i, j \in 1..Len(r) : r[i] = r[j] => i = j
  <2> SUFFICES ASSUME NEW i \in 1..Len(r), NEW j \in 1..Len(r), r[i] = r[j] PROVE i = j
    OBVIOUS
  <2>1. i + 1 \in 1..Len(s) /\ j + 1 \in 1..Len(s) /\ s[i + 1] = s[j + 1]
    BY <1>1 DEF r
  <2>2. i + 1 = j + 1
    BY <2>1
  <2> QED BY <1>1, <2>2
<1>3. ASSUME NEW c \in CallsOf(r) PROVE c \in CallsOf(s) \ {Head(s)}
  <2>1. PICK i \in 1..Len(r) : c = r[i]
    BY <1>1 DEF CallsOf, r
  <2>2. i + 1 \in 1..Len(s) /\ c = s[i + 1] /\ 1 \in 1..Len(s) /\ i + 1 # 1
    BY <1>1, <2>1 DEF r
  <2>3. c # s[1]
    BY <2>2
  <2> QED BY <1>1, <2>2, <2>3 DEF CallsOf
<1>4. ASSUME NEW c \in CallsOf(s) \ {Head(s)} PROVE c \in CallsOf(r)
  <2>1. PICK i \in 1..Len(s) : c = s[i]
    BY <1>1 DEF CallsOf
  <2>2. i # 1
    BY <1>1, <2>1
  <2>3. i - 1 \in 1..Len(r)
    BY <1>1, <2>2 DEF r
  <2>4. c = r[i - 1]
    BY <1>1, <2>1, <2>3 DEF r
  <2> QED BY <1>1, <2>3, <2>4 DEF CallsOf, r
<1>5. Head(s) \in CallsOf(s)
  BY <1>1 DEF CallsOf
<1> QED BY <1>1, <1>2, <1>3, <1>4, <1>5 DEF r

\* The step keeps the order of the calls.
LEMMA DriveSteps ==
  ASSUME TypeInv, Steps, DriveStep
  PROVE  Steps'
<1>1. drive \in Drive /\ drive.calls \in Seq(Calls) /\ (Idle => drive.at = "idle")
  BY DEF TypeInv, TypeOK, Shape, IdleDrive, Drive
<1>2. ASSUME drive' = IdleDrive PROVE Steps'
  <2>1. CallsOf(<<>>) = {}
    BY DEF CallsOf
  <2>2. /\ Idle' /\ drive'.calls = <<>> /\ drive'.at \notin Pausing /\ ~drive'.direct
        /\ Len(drive'.calls) = 0
    BY <1>2 DEF IdleDrive, Idle, Pausing
  <2> QED BY <2>1, <2>2 DEF Steps
<1>3. CASE DriveEnds \/ PauseForUser \/ PauseForApproval
  BY <1>2, <1>3 DEF DriveEnds, PauseForUser, PauseForApproval
<1>4. CASE DriveLoops
  <2>1. /\ ~Idle /\ drive'.at \notin Pausing \cup {"pending"}
        /\ drive'.turn = drive.turn /\ drive'.direct = drive.direct
        /\ drive'.calls = drive.calls /\ drive'.unanswered = drive.unanswered
    BY <1>4 DEF DriveLoops
  <2> QED BY <2>1 DEF Steps, Idle, Pausing
<1>5. CASE RunPendingCall
  <2>1. drive.at = "pending" /\ drive.calls = <<>> /\ ~Idle
    BY <1>1, <1>5 DEF RunPendingCall, NotInterrupted, Steps
  <2>2. /\ drive'.at \in {"pending", "loop"} /\ drive'.turn = drive.turn
        /\ drive'.direct = drive.direct /\ drive'.calls = <<>>
    BY <1>1, <1>5, <2>1 DEF RunPendingCall, Observed, Drive
  <2>3. CallsOf(<<>>) = {} /\ Len(<<>>) = 0
    BY DEF CallsOf
  <2> QED BY <2>1, <2>2, <2>3 DEF Steps, Idle, Pausing
<1>6. CASE ModelAnswers
  <2>1. PICK calls \in StepCalls :
          /\ drive'.at = "stepped" /\ drive'.calls = calls /\ drive'.turn = drive.turn
          /\ drive'.direct = drive.direct
          /\ drive'.unanswered = IF drive.direct THEN drive.unanswered \cup CallsOf(calls)
                                 ELSE drive.unanswered
    BY <1>1, <1>6 DEF ModelAnswers, Drive
  <2>2. ~Idle
    BY <1>1, <1>6 DEF ModelAnswers
  <2>3. \A i, j \in 1..Len(calls) : calls[i] = calls[j] => i = j
    <3>1. PICK n \in 0..MaxStepCalls : /\ calls \in [1..n -> Calls]
                                       /\ \A i, j \in 1..n : calls[i] = calls[j] => i = j
      BY DEF StepCalls
    <3>2. n \in Nat /\ Len(calls) = n
      BY <3>1, BoundsAreNat
    <3> QED BY <3>1, <3>2
  <2> QED BY <2>1, <2>2, <2>3 DEF Steps, Idle, Pausing
<1>7. CASE ExecuteCall \/ RejectQuestion \/ GuardianDenies
  <2>1. drive.at = "calls" /\ drive.calls # <<>> /\ drive' = NextCall(drive) /\ ~Idle
    BY <1>1, <1>7 DEF ExecuteCall, RejectQuestion, GuardianDenies, NotInterrupted
  <2>2. /\ drive'.at = "calls" /\ drive'.turn = drive.turn /\ drive'.direct = drive.direct
        /\ drive'.calls = Tail(drive.calls)
        /\ drive'.unanswered = drive.unanswered \ {Head(drive.calls)}
    BY <1>1, <2>1, NextCallSteps
  <2>3. /\ \A i, j \in 1..Len(drive'.calls) : drive'.calls[i] = drive'.calls[j] => i = j
        /\ CallsOf(drive'.calls) = CallsOf(drive.calls) \ {Head(drive.calls)}
    BY <1>1, <2>1, <2>2, TailCalls DEF Steps
  <2> QED BY <2>1, <2>2, <2>3 DEF Steps, Idle, Pausing
<1>8. CASE AskUser \/ RequestToolApproval
  <2>1. /\ ~Idle /\ KeepTranscript
        /\ \E place \in Pausing : drive' = [drive EXCEPT !.at = place]
    BY <1>1, <1>8 DEF AskUser, RequestToolApproval, NotInterrupted, Pausing
  <2>2. /\ drive'.at \in Pausing /\ drive'.turn = drive.turn /\ drive'.direct = drive.direct
        /\ drive'.calls = drive.calls /\ drive'.unanswered = drive.unanswered
    BY <1>1, <2>1 DEF Drive
  <2>3. drive.turn \in Turn /\ snapshots \in [Turn -> Snapshot]
    BY <1>1, <2>1 DEF TypeInv, TypeOK, Drive, Idle
  <2>4. drive.direct => snapshots'[drive.turn].unanswered = drive.unanswered
    BY <2>1, <2>3 DEF KeepTranscript
  <2> QED BY <2>1, <2>2, <2>4 DEF Steps, Idle, Pausing
<1> QED BY <1>3, <1>4, <1>5, <1>6, <1>7, <1>8, DriveKinds

\* So does every request.
LEMMA RequestSteps ==
  ASSUME TypeInv, Steps, Request, "conflictingProvider" \notin Unusual
  PROVE  Steps'
<1>1. ASSUME drive'.calls = <<>>, drive'.at \notin Pausing, ~Idle', Direct => drive'.direct
      PROVE  Steps'
  <2>1. CallsOf(<<>>) = {} /\ Len(<<>>) = 0
    BY DEF CallsOf
  <2> QED BY <1>1, <2>1 DEF Steps
<1>2. ASSUME NEW provider \in Providers, NEW background \in BOOLEAN,
             NEW first \in FirstApprovals, RunAgenticTurn(provider, background, first)
      PROVE  Steps'
  <2>1. /\ drive'.calls = <<>> /\ drive'.at = "loop" /\ drive'.turn = next_turn + 1
        /\ drive'.direct = (provider = "direct")
    BY <1>2 DEF RunAgenticTurn, IdleDrive
  <2>2. next_turn + 1 # NoTurn
    BY BoundsAreNat DEF TypeInv, TypeOK
  <2>3. Direct => drive'.direct
    BY <2>1 DEF Direct
  <2> QED BY <1>1, <2>1, <2>2, <2>3 DEF Idle, Pausing
<1>3. ASSUME NEW t \in Turn, NEW q, NEW given, NEW provider \in Providers,
             ResumeAgenticTurn(t, q, given, provider)
      PROVE  Steps'
  <2>1. /\ drive'.calls = <<>> /\ drive'.at \in {"loop", "pending"} /\ drive'.turn = t
        /\ drive'.direct = (snapshots[t].held \/ provider = "direct")
    BY <1>3 DEF ResumeAgenticTurn, IdleDrive
  <2>2. Direct => drive'.direct
    BY <2>1 DEF Direct
  <2> QED BY <1>1, <2>1, <2>2 DEF Idle, Pausing
<1>4. ASSUME drive' = drive, drive.at \in Pausing => snapshots' = snapshots
      PROVE  Steps'
  BY <1>4 DEF Steps, Idle, Pausing
<1>5. Idle => drive.at \notin Pausing
  BY DEF TypeInv, Shape, IdleDrive, Pausing
<1> QED
  BY <1>2, <1>3, <1>4, <1>5
     DEF Request, RunAgenticTurnRefused, ResumeRefused, InterruptTurn, RequestInterrupt,
         RequestApproval, RespondApproval, RespondQuestion

-----------------------------------------------------------------------------
(* What a paused turn needs stays with it.                                 *)

\* From one runtime to another: a turn that still waits as it did, with its
\* transcript and its open questions, and no other approvals than before.
LEMMA StillGoesOn ==
  ASSUME NEW s, NEW r, NEW t \in Turn, GoesOn(s, t),
         r.turns[t] \in Waiting =>
           /\ r.turns[t] = s.turns[t] /\ r.snapshots[t] = s.snapshots[t]
           /\ \A q \in QuestionId :
                s.questions[q].turn = t /\ s.questions[q].state = "open" =>
                  r.questions[q] = s.questions[q]
           /\ \A a \in ApprovalId :
                /\ r.approvals[a].turn = t => s.approvals[a].turn = t
                /\ s.approvals[a].turn = t => /\ r.approvals[a].turn = t
                                              /\ r.approvals[a].call = s.approvals[a].call
  PROVE  GoesOn(r, t)
<1>1. CASE r.turns[t] \in Waiting
  <2>1. ASSUME r.turns[t] = "waitingForUser"
        PROVE  \E q \in QuestionId : /\ r.questions[q].turn = t
                                     /\ r.questions[q].state = "open"
                                     /\ Direct => r.questions[q].call \in r.snapshots[t].unanswered
    BY <1>1, <2>1 DEF GoesOn
  <2>2. ASSUME Direct, r.turns[t] = "waitingForApproval"
        PROVE  \E a \in ApprovalId : /\ r.approvals[a].turn = t
                                     /\ r.approvals[a].call \in r.snapshots[t].unanswered
                                     /\ \A b \in ApprovalId : r.approvals[b].turn = t => b <= a
    <3>1. PICK a \in ApprovalId : /\ s.approvals[a].turn = t
                                  /\ s.approvals[a].call \in s.snapshots[t].unanswered
                                  /\ \A b \in ApprovalId : s.approvals[b].turn = t => b <= a
      BY <1>1, <2>2 DEF GoesOn
    <3>2. /\ r.approvals[a].turn = t /\ r.approvals[a].call \in r.snapshots[t].unanswered
          /\ \A b \in ApprovalId : r.approvals[b].turn = t => b <= a
      BY <1>1, <3>1
    <3> QED BY <3>2
  <2> QED BY <2>1, <2>2 DEF GoesOn
<1>2. CASE r.turns[t] \notin Waiting
  BY <1>2 DEF GoesOn, Waiting
<1> QED BY <1>1, <1>2

\* A step that is about turn d, and no other.
Others(d) ==
  /\ \A t \in Turn \ {d} : turns'[t] = turns[t] /\ snapshots'[t] = snapshots[t]
  /\ \A q \in QuestionId :
       questions[q].state = "open" /\ questions[q].turn # d => questions'[q] = questions[q]
  /\ \A a \in ApprovalId :
       \/ approvals'[a].turn = approvals[a].turn /\ approvals'[a].call = approvals[a].call
       \/ {approvals[a].turn, approvals'[a].turn} \subseteq {d, NoTurn}

LEMMA OthersGoOn ==
  ASSUME LiveGoesOn, NEW d, Others(d), Idle \/ drive.turn = d
  PROVE  \A t \in Turn \ {d} : GoesOn(LiveRuntime', t)
<1> SUFFICES ASSUME NEW t \in Turn, t # d PROVE GoesOn(LiveRuntime', t)
  OBVIOUS
<1> DEFINE s == LiveRuntime
           r == LiveRuntime'
<1>1. /\ s.turns = turns /\ s.snapshots = snapshots
      /\ s.questions = questions /\ s.approvals = approvals
      /\ r.turns = turns' /\ r.snapshots = snapshots'
      /\ r.questions = questions' /\ r.approvals = approvals'
  BY DEF LiveRuntime
<1>2. GoesOn(s, t)
  BY DEF LiveGoesOn, Idle
<1> HIDE DEF s, r
<1>3. turns'[t] = turns[t] /\ snapshots'[t] = snapshots[t]
  BY DEF Others
<1>4. \A q \in QuestionId :
        questions[q].state = "open" /\ questions[q].turn = t => questions'[q] = questions[q]
  BY DEF Others
<1>5. \A a \in ApprovalId :
        /\ approvals'[a].turn = t => approvals[a].turn = t
        /\ approvals[a].turn = t => /\ approvals'[a].turn = t
                                    /\ approvals'[a].call = approvals[a].call
  BY DEF Others
<1>6. GoesOn(r, t)
  BY <1>1, <1>2, <1>3, <1>4, <1>5, StillGoesOn
<1> QED BY <1>6 DEF r

\* The driver works on its own turn.
LEMMA DriveOthers ==
  ASSUME TypeInv, Memory, DriveStep
  PROVE  Others(drive.turn)
<1> DEFINE d == drive.turn
<1>1. /\ turns \in [Turn -> Status] /\ snapshots \in [Turn -> Snapshot]
      /\ approvals \in [ApprovalId -> Approval] /\ questions \in [QuestionId -> Question]
      /\ next_approval \in Nat /\ next_question \in Nat
  BY BoundsAreNat DEF TypeInv, TypeOK
<1>2. ASSUME UNCHANGED requests,
             turns' = turns \/ \E w : turns' = [turns EXCEPT ![d] = w],
             snapshots' = snapshots \/ \E w : snapshots' = [snapshots EXCEPT ![d] = w]
      PROVE  Others(d)
  BY <1>1, <1>2 DEF Others, requests
<1>3. turns' = turns \/ \E w : turns' = [turns EXCEPT ![d] = w]
  BY DriveStepTurns
<1>4. CASE DriveEnds \/ DriveLoops
  BY <1>2, <1>3, <1>4 DEF DriveEnds, DriveLoops
<1>5. CASE RunPendingCall \/ ModelAnswers \/ ExecuteCall \/ GuardianDenies \/ PauseForUser
           \/ PauseForApproval
  BY <1>2, <1>3, <1>5
     DEF RunPendingCall, ModelAnswers, ExecuteCall, GuardianDenies, PauseForUser, PauseForApproval
<1>6. CASE RejectQuestion
  BY <1>1, <1>6 DEF RejectQuestion, Others
<1>7. \A w \in Turn \ {d} : KeepTranscript => snapshots'[w] = snapshots[w]
  BY <1>1 DEF KeepTranscript
<1>8. CASE AskUser
  <2>1. /\ turns' = turns /\ approvals' = approvals /\ KeepTranscript
        /\ questions' = [questions EXCEPT ![next_question + 1] =
                           [turn |-> d, call |-> Head(drive.calls), state |-> "open"]]
    BY <1>8 DEF AskUser
  <2>2. \A q \in QuestionId : q = next_question + 1 => questions[q].state = "absent"
    BY <1>1 DEF Memory
  <2> QED BY <1>1, <1>7, <2>1, <2>2 DEF Others
<1>9. CASE RequestToolApproval
  <2>1. /\ turns' = turns /\ questions' = questions /\ KeepTranscript
        /\ approvals' = [approvals EXCEPT ![next_approval + 1] =
                           [turn |-> d, call |-> Head(drive.calls), outcome |-> "pending"]]
    BY <1>9 DEF RequestToolApproval
  <2>2. \A a \in ApprovalId : a = next_approval + 1 => approvals[a].turn = NoTurn
    <3>1. \A a \in ApprovalId : a = next_approval + 1 => approvals[a].outcome = "absent"
      BY <1>1 DEF Memory
    <3> QED BY <1>1, <3>1 DEF Approval, NoApproval
  <2> QED BY <1>1, <1>7, <2>1, <2>2 DEF Others
<1> QED BY <1>4, <1>5, <1>6, <1>8, <1>9, DriveKinds

\* A pause leaves what is needed behind; an end needs nothing.
LEMMA DriveGoesOn ==
  ASSUME AgreeInv, Steps, LiveGoesOn, DriveStep
  PROVE  LiveGoesOn'
<1> DEFINE d == drive.turn
           r == LiveRuntime'
<1>0. TypeInv /\ Memory
  BY DEF AgreeInv
<1>1. \A t \in Turn \ {d} : GoesOn(r, t)
  BY <1>0, DriveOthers, OthersGoOn
<1>2. /\ turns \in [Turn -> Status] /\ snapshots \in [Turn -> Snapshot]
      /\ approvals \in [ApprovalId -> Approval] /\ drive \in Drive
  BY <1>0 DEF TypeInv, TypeOK
<1>3. /\ r.turns = turns' /\ r.snapshots = snapshots'
      /\ r.questions = questions' /\ r.approvals = approvals'
  BY DEF LiveRuntime
<1> HIDE DEF r
<1>4. ASSUME drive' = IdleDrive, d \in Turn => GoesOn(r, d) PROVE LiveGoesOn'
  BY <1>1, <1>4 DEF LiveGoesOn, r
<1>5. ASSUME drive'.turn = drive.turn PROVE LiveGoesOn'
  BY <1>1, <1>5 DEF LiveGoesOn, r
<1>6. CASE DriveEnds
  <2>1. d \in Turn => turns'[d] \in Terminal
    BY <1>2, <1>6 DEF DriveEnds
  <2>2. d \in Turn => GoesOn(r, d)
    BY <1>3, <2>1 DEF GoesOn, Terminal
  <2> QED BY <1>4, <1>6, <2>2 DEF DriveEnds
<1>7. CASE DriveLoops
  BY <1>5, <1>7 DEF DriveLoops
<1>8. CASE RunPendingCall \/ ModelAnswers
  <2>1. drive'.turn = drive.turn
    BY <1>2, <1>8 DEF RunPendingCall, ModelAnswers, Observed, Drive
  <2> QED BY <1>5, <2>1
<1>9. CASE ExecuteCall \/ RejectQuestion \/ GuardianDenies
  <2>1. drive'.turn = drive.turn
    BY <1>2, <1>9, NextCallSteps DEF ExecuteCall, RejectQuestion, GuardianDenies
  <2> QED BY <1>5, <2>1
<1>10. CASE AskUser \/ RequestToolApproval
  <2>1. drive'.turn = drive.turn
    BY <1>2, <1>10 DEF AskUser, RequestToolApproval, Drive
  <2> QED BY <1>5, <2>1
<1>11. ASSUME drive.at \in Pausing
       PROVE  /\ d \in Turn /\ DrivenTurn(Replayed)
              /\ Direct => Head(drive.calls) \in snapshots[d].unanswered
  <2>1. ~Idle /\ drive.calls # <<>> /\ drive.calls \in Seq(Calls)
    BY <1>0, <1>2, <1>11 DEF TypeInv, Shape, IdleDrive, Pausing, Drive
  <2>2. Head(drive.calls) \in CallsOf(drive.calls)
    BY <2>1, TailCalls DEF Steps
  <2> QED BY <1>2, <1>11, <2>1, <2>2 DEF Steps, Drive, Idle, AgreeInv, Matches
<1>12. CASE PauseForUser
  <2>1. /\ drive.at = "pausingForUser" /\ drive' = IdleDrive
        /\ turns' = [turns EXCEPT ![d] = "waitingForUser"]
        /\ UNCHANGED <<questions, next_question, snapshots>>
    BY <1>12 DEF PauseForUser, requests
  <2>2. /\ d \in Turn /\ next_question \in QuestionId
        /\ questions[next_question] =
             [turn |-> d, call |-> Head(drive.calls), state |-> "open"]
        /\ Direct => Head(drive.calls) \in snapshots[d].unanswered
    BY <1>11, <2>1 DEF Pausing, DrivenTurn
  <2>3. GoesOn(r, d)
    BY <1>2, <1>3, <2>1, <2>2 DEF GoesOn
  <2> QED BY <1>4, <2>1, <2>3
<1>13. CASE PauseForApproval
  <2>1. /\ drive.at = "pausingForApproval" /\ drive' = IdleDrive
        /\ turns' = [turns EXCEPT ![d] = "waitingForApproval"]
        /\ UNCHANGED <<approvals, next_approval, snapshots>>
    BY <1>13 DEF PauseForApproval, requests
  <2>2. /\ d \in Turn /\ next_approval \in ApprovalId
        /\ approvals[next_approval] =
             [turn |-> d, call |-> Head(drive.calls), outcome |-> "pending"]
        /\ Direct => Head(drive.calls) \in snapshots[d].unanswered
    BY <1>11, <2>1 DEF Pausing, DrivenTurn
  <2>3. \A b \in ApprovalId : approvals[b].turn = d => b <= next_approval
    BY <1>0, <1>2, <2>2 DEF Memory, Approval, NoApproval
  <2>4. GoesOn(r, d)
    BY <1>2, <1>3, <2>1, <2>2, <2>3 DEF GoesOn
  <2> QED BY <1>4, <2>1, <2>4
<1> QED
  BY <1>0, <1>6, <1>7, <1>8, <1>9, <1>10, <1>12, <1>13, DriveKinds

\* The requests of the clients: none takes from another turn what it needs.
LEMMA RequestGoesOn ==
  ASSUME AgreeInv, LiveGoesOn, Request,
         {"conflictingProvider", "answerOutOfBand"} \cap Unusual = {}
  PROVE  LiveGoesOn'
<1> DEFINE r == LiveRuntime'
<1>0. TypeInv /\ Memory
  BY DEF AgreeInv
<1>1. /\ turns \in [Turn -> Status] /\ snapshots \in [Turn -> Snapshot]
      /\ approvals \in [ApprovalId -> Approval] /\ questions \in [QuestionId -> Question]
      /\ drive \in Drive /\ next_approval \in Nat /\ next_turn \in Nat
  BY <1>0, BoundsAreNat DEF TypeInv, TypeOK
<1>2. /\ r.turns = turns' /\ r.snapshots = snapshots'
      /\ r.questions = questions' /\ r.approvals = approvals'
  BY DEF LiveRuntime
<1> HIDE DEF r
<1>3. ASSUME NEW d, Others(d), Idle \/ drive.turn = d,
             drive'.turn = d \/ (d \in Turn => turns'[d] \in Terminal)
      PROVE  LiveGoesOn'
  <2>1. \A t \in Turn \ {d} : GoesOn(r, t)
    BY <1>3, OthersGoOn DEF r
  <2>2. d \in Turn /\ turns'[d] \in Terminal => GoesOn(r, d)
    BY <1>2 DEF GoesOn, Terminal
  <2> QED BY <1>3, <2>1, <2>2 DEF LiveGoesOn, r
<1>4. ASSUME NEW provider \in Providers, NEW background \in BOOLEAN,
             NEW first \in FirstApprovals, RunAgenticTurn(provider, background, first)
      PROVE  LiveGoesOn'
  <2>1. Others(next_turn + 1)
    BY <1>1, <1>4 DEF RunAgenticTurn, StartTurn, Others, requests
  <2>2. Idle /\ drive'.turn = next_turn + 1
    BY <1>4 DEF RunAgenticTurn, IdleDrive
  <2> QED BY <1>3, <2>1, <2>2
<1>5. ASSUME NEW t \in Turn, NEW q \in QuestionId \cup {NoQuestion}, NEW given, NEW provider,
             ResumeAgenticTurn(t, q, given, provider)
      PROVE  LiveGoesOn'
  <2>1. /\ Resumable(t, q) /\ UNCHANGED turns
        /\ snapshots' = [snapshots EXCEPT ![t] = NoSnapshot]
        /\ questions' = IF q = NoQuestion THEN questions
                        ELSE [questions EXCEPT ![q].state = "resolved"]
        /\ \A a \in ApprovalId : approvals'[a] =
             IF a \in NewlyApproved(t, given) THEN [approvals[a] EXCEPT !.outcome = "approved"]
             ELSE approvals[a]
    BY <1>5 DEF ResumeAgenticTurn, ApplyResume
  <2>2. \A i \in QuestionId : questions[i].turn # t => questions'[i] = questions[i]
    BY <1>1, <2>1 DEF Resumable
  <2>3. ASSUME NEW a \in ApprovalId
        PROVE  approvals'[a].turn = approvals[a].turn /\ approvals'[a].call = approvals[a].call
    <3>1. approvals[a] \in Approval
      BY <1>1
    <3>2. CASE a \in NewlyApproved(t, given)
      <4> DEFINE n == [approvals[a] EXCEPT !.outcome = "approved"]
      <4>1. n.turn = approvals[a].turn /\ n.call = approvals[a].call
        BY <3>1, ApprovalFields
      <4>2. approvals'[a] = n
        BY <2>1, <3>2, Zenon
      <4> QED BY <4>1, <4>2, Zenon
    <3>3. CASE a \notin NewlyApproved(t, given)
      BY <2>1, <3>3
    <3> QED BY <3>2, <3>3
  <2>4. Others(t)
    BY <1>1, <2>1, <2>2, <2>3 DEF Others
  <2>5. Idle /\ drive'.turn = t
    BY <1>5 DEF ResumeAgenticTurn, IdleDrive
  <2> QED BY <1>3, <2>4, <2>5
<1>6. ASSUME NEW t \in Turn, InterruptTurn(t) PROVE LiveGoesOn'
  <2>1. Others(t) /\ Idle /\ turns'[t] \in Terminal
    BY <1>1, <1>6 DEF InterruptTurn, Others, requests, Terminal
  <2> QED BY <1>3, <2>1
<1>7. ASSUME NEW t \in Turn, RequestInterrupt(t) PROVE LiveGoesOn'
  <2>1. Others(drive.turn) /\ drive'.turn = drive.turn
    BY <1>1, <1>7 DEF RequestInterrupt, Others, requests
  <2> QED BY <1>3, <2>1
<1>8. ASSUME NEW c \in GatedCalls, RequestApproval(c) PROVE LiveGoesOn'
  <2>1. /\ Idle /\ UNCHANGED <<turns, questions, snapshots>>
        /\ approvals' = [approvals EXCEPT ![next_approval + 1] =
                           [turn |-> NoTurn, call |-> c, outcome |-> "pending"]]
    BY <1>8 DEF RequestApproval
  <2>2. \A a \in ApprovalId : a = next_approval + 1 => approvals[a].turn = NoTurn
    <3>1. \A a \in ApprovalId : a = next_approval + 1 => approvals[a].outcome = "absent"
      BY <1>0, <1>1 DEF Memory
    <3> QED BY <1>1, <3>1 DEF Approval, NoApproval
  <2>3. Others(NoTurn)
    BY <1>1, <2>1, <2>2 DEF Others
  <2>4. NoTurn \notin Turn
    BY BoundsAreNat
  <2> QED BY <1>3, <2>1, <2>3, <2>4
<1>9. ASSUME NEW a \in ApprovalId, NEW decision \in {"approved", "denied"},
             RespondApproval(a, decision)
      PROVE  LiveGoesOn'
  <2>1. /\ Idle /\ UNCHANGED <<turns, questions, snapshots>>
        /\ approvals' = [approvals EXCEPT ![a] = [approvals[a] EXCEPT !.outcome = decision]]
    BY <1>1, <1>9 DEF RespondApproval
  <2>2. ASSUME NEW b \in ApprovalId
        PROVE  approvals'[b].turn = approvals[b].turn /\ approvals'[b].call = approvals[b].call
    <3>1. approvals[a] \in Approval
      BY <1>1
    <3>2. CASE b = a
      BY <1>1, <2>1, <3>1, <3>2, ApprovalFields
    <3>3. CASE b # a
      BY <1>1, <2>1, <3>3
    <3> QED BY <3>2, <3>3
  <2>3. Others(NoTurn)
    BY <1>1, <2>1, <2>2 DEF Others
  <2>4. NoTurn \notin Turn
    BY BoundsAreNat
  <2> QED BY <1>3, <2>1, <2>3, <2>4
<1> QED
  BY <1>4, <1>5, <1>6, <1>7, <1>8, <1>9
     DEF Request, RunAgenticTurnRefused, ResumeRefused, RespondQuestion

-----------------------------------------------------------------------------
(* The turn under way on file.                                             *)

LEMMA ReplayedNext ==
  ASSUME AgreeInv, TypeInv', log' = log \o emitted', disk' = disk
  PROVE  Replayed' = ReplayEvents(Replayed, emitted')
<1>1. log \in Seq(Event) /\ emitted' \in Seq(Event)
  BY DEF AgreeInv, Files, TypeInv, TypeOK
<1> QED BY <1>1, ReplayConcat DEF Replayed

LEMMA DriveAhead ==
  ASSUME AgreeInv, TypeInv', Ahead, log' = log \o emitted', disk' = disk, DriveStep
  PROVE  Ahead'
<1>0. TypeInv /\ drive \in Drive
  BY DEF AgreeInv, TypeInv, TypeOK
<1>1. ASSUME drive' = IdleDrive PROVE Ahead'
  BY <1>1 DEF Ahead, IdleDrive
<1>2. ASSUME Replayed'.turns = Replayed.turns, drive'.turn = drive.turn,
             drive'.background = drive.background, drive'.at # "pausingForApproval"
      PROVE  Ahead'
  BY <1>2 DEF Ahead
<1>3. ASSUME emitted' = <<>> PROVE Replayed' = Replayed
  BY <1>3, ReplayedNext, ReplayNone
<1>4. CASE DriveEnds \/ PauseForUser \/ PauseForApproval
  BY <1>1, <1>4 DEF DriveEnds, PauseForUser, PauseForApproval
<1>5. CASE DriveLoops
  BY <1>2, <1>3, <1>5 DEF DriveLoops, Pausing
<1>6. CASE RunPendingCall \/ ModelAnswers
  <2>1. /\ emitted' = <<>> /\ drive'.turn = drive.turn /\ drive'.background = drive.background
        /\ drive'.at # "pausingForApproval"
    BY <1>0, <1>6 DEF RunPendingCall, ModelAnswers, Observed, Drive
  <2> QED BY <1>2, <1>3, <2>1
<1>7. CASE ExecuteCall \/ RejectQuestion \/ GuardianDenies
  <2>1. /\ emitted' = <<>> /\ drive.at = "calls" /\ drive.calls # <<>> /\ drive' = NextCall(drive)
    BY <1>7 DEF ExecuteCall, RejectQuestion, GuardianDenies, NotInterrupted
  <2>2. /\ drive'.turn = drive.turn /\ drive'.background = drive.background
        /\ drive'.at # "pausingForApproval"
    BY <1>0, <2>1, NextCallSteps
  <2> QED BY <1>2, <1>3, <2>1, <2>2
<1>8. CASE AskUser \/ RequestToolApproval
  <2>1. /\ drive.at = "calls" /\ ~Idle /\ KeepTranscript
        /\ \E place \in Pausing : drive' = [drive EXCEPT !.at = place]
    BY <1>0, <1>8 DEF AskUser, RequestToolApproval, NotInterrupted, Pausing, TypeInv, Shape,
       IdleDrive
  <2>2. drive'.turn = drive.turn /\ drive'.background = drive.background
    BY <1>0, <2>1 DEF Drive
  <2>3. Replayed'.turns = Replayed.turns /\ Replayed'.approvals = Replayed.approvals
    BY <2>1, KeepTranscriptAgrees DEF Pausing
  <2>4. CASE AskUser
    <3>1. drive'.at = "pausingForUser"
      BY <1>0, <2>4 DEF AskUser, Drive
    <3> QED BY <1>2, <2>2, <2>3, <3>1
  <2>5. CASE RequestToolApproval
    <3> DEFINE a == next_approval + 1
    <3>1. a \in ApprovalId /\ next_approval' = a
      BY <1>0, <2>5, BoundsAreNat DEF RequestToolApproval, TypeInv, TypeOK
    <3>2. approvals[a] = NoApproval
      <4>1. approvals[a] \in Approval /\ approvals[a].outcome = "absent"
        BY <1>0, <3>1, BoundsAreNat DEF AgreeInv, Memory, TypeInv, TypeOK
      <4> QED BY <4>1 DEF Approval
    <3>3. SameApproval(Replayed, a)
      BY <2>1, <3>1 DEF AgreeInv, Matches
    <3>4. Replayed.approvals[a] = NoApproval
      BY <3>2, <3>3 DEF SameApproval, NoApproval
    <3> QED BY <2>2, <2>3, <3>1, <3>4 DEF Ahead
  <2> QED BY <1>8, <2>4, <2>5
<1> QED BY <1>0, <1>4, <1>5, <1>6, <1>7, <1>8, DriveKinds

LEMMA RequestAhead ==
  ASSUME AgreeInv, TypeInv', Ahead, log' = log \o emitted', disk' = disk, Request,
         "conflictingProvider" \notin Unusual
  PROVE  Ahead'
<1>0. TypeInv
  BY DEF AgreeInv
<1>1. ASSUME NEW provider \in Providers, NEW background \in BOOLEAN,
             NEW first \in FirstApprovals, RunAgenticTurn(provider, background, first)
      PROVE  Ahead'
  <2> DEFINE t == next_turn + 1
             e == TurnEvent("TurnStarted", t)
  <2>1. emitted' = <<e>> /\ drive'.turn = t /\ drive'.at = "loop"
    BY <1>1 DEF RunAgenticTurn, StartTurn, IdleDrive
  <2>2. t \in Turn
    BY <1>0, <1>1, BoundsAreNat DEF RunAgenticTurn, TypeInv, TypeOK
  <2>3. Replayed' = ApplyReplayedEvent(Replayed, e)
    BY <2>1, ReplayedNext, ReplayOne
  <2>4. e.kind = "TurnStarted" /\ e.turn = t
    BY DEF TurnEvent
  <2>5. Replayed \in Runtimes
    BY FilesSound DEF AgreeInv
  <2> HIDE DEF e
  <2>6. Replayed' = [Replayed EXCEPT !.turns[t] = "running", !.next_turn = Bump(@, t)]
    BY <2>3, <2>4 DEF ApplyReplayedEvent
  <2>7. Replayed'.turns[t] = "running"
    BY <2>2, <2>5, <2>6 DEF Runtimes
  <2> QED BY <2>1, <2>7 DEF Ahead
<1>2. ASSUME NEW t, NEW q, NEW given, NEW provider, ResumeAgenticTurn(t, q, given, provider)
      PROVE  Ahead'
  <2>1. drive'.background = FALSE /\ drive'.at # "pausingForApproval"
    BY <1>2 DEF ResumeAgenticTurn, IdleDrive
  <2> QED BY <2>1 DEF Ahead
<1>3. ASSUME Idle, drive' = drive PROVE Ahead'
  BY <1>0, <1>3 DEF Ahead, TypeInv, Shape, IdleDrive
<1>4. ASSUME NEW t, RequestInterrupt(t) PROVE Ahead'
  <2>1. /\ emitted' = <<>> /\ drive' = drive /\ next_approval' = next_approval
    BY <1>4 DEF RequestInterrupt, requests
  <2>2. Replayed' = Replayed
    BY <2>1, ReplayedNext, ReplayNone
  <2> QED BY <2>1, <2>2 DEF Ahead
<1> QED
  BY <1>1, <1>2, <1>3, <1>4
     DEF Request, RunAgenticTurnRefused, ResumeRefused, InterruptTurn, RequestApproval,
         RespondApproval, RespondQuestion

\* Whenever the server writes, what a waiting turn needs is in what there is to
\* write.
LEMMA ReplayGoesOn ==
  ASSUME AgreeInv, Ahead, LiveGoesOn, Idle \/ drive.background
  PROVE  \A t \in Turn : GoesOn(Replayed, t)
<1> SUFFICES ASSUME NEW t \in Turn PROVE GoesOn(Replayed, t)
  OBVIOUS
<1>0. /\ TypeInv /\ Matches(Replayed) /\ approvals \in [ApprovalId -> Approval]
      /\ NoTurn \notin Turn
  BY BoundsAreNat DEF AgreeInv, TypeInv, TypeOK
<1>1. CASE drive.turn = t
  <2>1. Replayed.turns[t] = "running"
    BY <1>0, <1>1 DEF Ahead, Idle
  <2> QED BY <2>1 DEF GoesOn
<1>2. CASE drive.turn # t
  <2> DEFINE s == LiveRuntime
  <2>1. /\ s.turns = turns /\ s.snapshots = snapshots
        /\ s.questions = questions /\ s.approvals = approvals
    BY DEF LiveRuntime
  <2>2. GoesOn(s, t)
    BY <1>2 DEF LiveGoesOn
  <2> HIDE DEF s
  <2>3. Replayed.turns[t] = turns[t]
    BY <1>0, <1>2 DEF Matches
  <2>4. drive.at \in Pausing => ~Idle /\ DrivenTurn(Replayed)
    BY <1>0 DEF TypeInv, Shape, IdleDrive, Pausing, Matches
  <2>5. ASSUME turns[t] \in Waiting
        PROVE  /\ Replayed.snapshots[t] = snapshots[t]
               /\ \A q \in QuestionId :
                    questions[q].turn = t /\ questions[q].state = "open" =>
                      Replayed.questions[q] = questions[q]
               /\ \A a \in ApprovalId :
                    /\ Replayed.approvals[a].turn = t => approvals[a].turn = t
                    /\ approvals[a].turn = t => /\ Replayed.approvals[a].turn = t
                                                /\ Replayed.approvals[a].call = approvals[a].call
    <3>1. turns[t] \notin Terminal
      BY <2>5 DEF Waiting, Terminal
    <3>2. Replayed.snapshots[t] = snapshots[t]
      BY <1>0, <1>2, <3>1 DEF Matches
    <3>3. ASSUME NEW q \in QuestionId, questions[q].turn = t, questions[q].state = "open"
          PROVE  Replayed.questions[q] = questions[q]
      <4>1. ~(drive.at = "pausingForUser" /\ q = next_question)
        BY <1>2, <2>4, <3>3 DEF DrivenTurn, Pausing
      <4>2. SameQuestion(Replayed, q)
        BY <1>0, <4>1 DEF Matches
      <4> QED BY <3>1, <3>3, <4>2 DEF SameQuestion
    <3>4. ASSUME NEW a \in ApprovalId
          PROVE  /\ Replayed.approvals[a].turn = t => approvals[a].turn = t
                 /\ approvals[a].turn = t => /\ Replayed.approvals[a].turn = t
                                             /\ Replayed.approvals[a].call = approvals[a].call
      <4>1. CASE drive.at = "pausingForApproval" /\ a = next_approval
        <5>1. Replayed.approvals[a].turn = NoTurn
          BY <4>1 DEF Ahead, NoApproval
        <5>2. approvals[a].turn = drive.turn
          BY <2>4, <4>1 DEF DrivenTurn, Pausing
        <5> QED BY <1>0, <1>2, <5>1, <5>2
      <4>2. CASE ~(drive.at = "pausingForApproval" /\ a = next_approval)
        <5>1. SameApproval(Replayed, a)
          BY <1>0, <4>2 DEF Matches
        <5>2. approvals[a] \in Approval
          BY <1>0
        <5>3. CASE Replayed.approvals[a] = approvals[a]
          BY <5>3
        <5>4. CASE Replayed.approvals[a] = [approvals[a] EXCEPT !.outcome = "cancelled"]
          BY <5>2, <5>4, ApprovalFields
        <5> QED BY <5>1, <5>3, <5>4 DEF SameApproval
      <4> QED BY <4>1, <4>2
    <3> QED BY <3>2, <3>3, <3>4
  <2> QED BY <2>1, <2>2, <2>3, <2>5, StillGoesOn
<1> QED BY <1>1, <1>2

-----------------------------------------------------------------------------
(* Writing and starting again.                                             *)

\* A write changes what is left to write, not what a replay of all of it gives.
LEMMA PersistReplays ==
  ASSUME AgreeInv, PersistNewEvents
  PROVE  /\ Replayed' = Replayed
         /\ ~torn' => ~torn /\ disk' = Replayed
<1>1. PICK n \in 1..Len(log) :
        /\ disk' = ReplayEvents(disk, SubSeq(log, 1, n))
        /\ log' = SubSeq(log, n + 1, Len(log))
        /\ torn' = (torn \/ n < Len(log))
  BY DEF PersistNewEvents
<1>2. log \in Seq(Event) /\ Len(log) \in Nat
  BY DEF AgreeInv, Files
<1> DEFINE one == SubSeq(log, 1, n)
           two == SubSeq(log, n + 1, Len(log))
<1>3. one \in Seq(Event) /\ two \in Seq(Event) /\ log = one \o two
  BY <1>2, Split
<1>4. n = Len(log) => one = log
  BY <1>2, Whole
<1> HIDE DEF one, two
<1>5. disk' = ReplayEvents(disk, one) /\ log' = two
  BY <1>1 DEF one, two
<1>6. Replayed' = Replayed
  BY <1>3, <1>5, ReplayConcat DEF Replayed
<1>7. ~torn' => ~torn /\ ~(n < Len(log))
  BY <1>1, Zenon
<1>8. ~(n < Len(log)) => n = Len(log)
  BY <1>2
<1> QED BY <1>1, <1>4, <1>5, <1>6, <1>7, <1>8 DEF Replayed

\* What the next process has in memory.
LEMMA Restarted ==
  ASSUME disk \in Runtimes, StartServer
  PROVE  \E X \in SUBSET Turn :
           /\ \A t \in Turn : turns'[t] = IF t \in X THEN "aborted" ELSE disk.turns[t]
           /\ snapshots' = disk.snapshots
           /\ \A a \in ApprovalId : approvals'[a] =
                IF disk.approvals[a].turn \in X /\ disk.approvals[a].outcome = "pending"
                THEN [disk.approvals[a] EXCEPT !.outcome = "cancelled"] ELSE disk.approvals[a]
           /\ \A q \in QuestionId : questions'[q] =
                IF disk.questions[q].turn \in X
                THEN [disk.questions[q] EXCEPT !.state = "resolved"] ELSE disk.questions[q]
<1> DEFINE X == Recoverable(disk)
           p == ClearPendingPauses(disk, X)
           F == [t \in Turn |-> IF t \in X THEN "aborted" ELSE p.turns[t]]
<1>1. X \in SUBSET Turn
  BY DEF Recoverable
<1>2. RecoverIncompleteTurns(disk) = [p EXCEPT !.turns = F]
  BY DEF RecoverIncompleteTurns
<1>3. /\ turns' = RecoverIncompleteTurns(disk).turns
      /\ approvals' = RecoverIncompleteTurns(disk).approvals
      /\ questions' = RecoverIncompleteTurns(disk).questions
      /\ snapshots' = RecoverIncompleteTurns(disk).snapshots
  BY DEF StartServer
<1> HIDE DEF X
<1>4. /\ p \in Runtimes
      /\ p.turns = disk.turns /\ p.snapshots = disk.snapshots
      /\ \A a \in ApprovalId : p.approvals[a] =
           IF disk.approvals[a].turn \in X /\ disk.approvals[a].outcome = "pending"
           THEN [disk.approvals[a] EXCEPT !.outcome = "cancelled"] ELSE disk.approvals[a]
      /\ \A q \in QuestionId : p.questions[q] =
           IF disk.questions[q].turn \in X
           THEN [disk.questions[q] EXCEPT !.state = "resolved"] ELSE disk.questions[q]
  BY <1>1, ClearPauses
<1> HIDE DEF p
<1>5. /\ turns' = F /\ snapshots' = p.snapshots
      /\ approvals' = p.approvals /\ questions' = p.questions
  BY <1>2, <1>3, <1>4 DEF Runtimes
<1>6. \A t \in Turn : turns'[t] = IF t \in X THEN "aborted" ELSE disk.turns[t]
  BY <1>4, <1>5
<1> QED BY <1>1, <1>4, <1>5, <1>6

\* It finds what the files hold for a paused turn.
LEMMA StartGoesOn ==
  ASSUME disk \in Runtimes, FilesGoOn, StartServer
  PROVE  LiveGoesOn'
<1>1. PICK X \in SUBSET Turn :
           /\ \A t \in Turn : turns'[t] = IF t \in X THEN "aborted" ELSE disk.turns[t]
           /\ snapshots' = disk.snapshots
           /\ \A a \in ApprovalId : approvals'[a] =
                IF disk.approvals[a].turn \in X /\ disk.approvals[a].outcome = "pending"
                THEN [disk.approvals[a] EXCEPT !.outcome = "cancelled"] ELSE disk.approvals[a]
           /\ \A q \in QuestionId : questions'[q] =
                IF disk.questions[q].turn \in X
                THEN [disk.questions[q] EXCEPT !.state = "resolved"] ELSE disk.questions[q]
  BY Restarted
<1> DEFINE r == LiveRuntime'
<1>2. /\ r.turns = turns' /\ r.snapshots = snapshots'
      /\ r.questions = questions' /\ r.approvals = approvals'
  BY DEF LiveRuntime
<1> HIDE DEF r
<1>3. ASSUME NEW t \in Turn PROVE GoesOn(r, t)
  <2>1. GoesOn(disk, t)
    BY DEF FilesGoOn
  <2>2. CASE turns'[t] \in Waiting
    <3>1. t \notin X /\ turns'[t] = disk.turns[t]
      BY <1>1, <2>2 DEF Waiting
    <3>2. \A q \in QuestionId : disk.questions[q].turn = t => questions'[q] = disk.questions[q]
      BY <1>1, <3>1
    <3>3. ASSUME NEW a \in ApprovalId
          PROVE  /\ approvals'[a].turn = disk.approvals[a].turn
                 /\ approvals'[a].call = disk.approvals[a].call
      <4>1. disk.approvals[a] \in Approval
        BY DEF Runtimes
      <4> DEFINE n == [disk.approvals[a] EXCEPT !.outcome = "cancelled"]
      <4>2. n.turn = disk.approvals[a].turn /\ n.call = disk.approvals[a].call
        BY <4>1, ApprovalFields
      <4>3. approvals'[a] = n \/ approvals'[a] = disk.approvals[a]
        BY <1>1, Zenon
      <4> HIDE DEF n
      <4> QED BY <4>2, <4>3
    <3> QED BY <1>1, <1>2, <2>1, <3>1, <3>2, <3>3, StillGoesOn
  <2>3. CASE turns'[t] \notin Waiting
    BY <1>2, <2>3 DEF GoesOn, Waiting
  <2> QED BY <2>2, <2>3
<1> QED BY <1>3 DEF LiveGoesOn, r

-----------------------------------------------------------------------------
(* Paused turns survive.                                                   *)

LEMMA InitPauses == RecoveryInit => PauseInv
<1> SUFFICES ASSUME RecoveryInit PROVE PauseInv
  OBVIOUS
<1>1. Steps
  <2>1. CallsOf(<<>>) = {} /\ Len(<<>>) = 0
    BY DEF CallsOf
  <2> QED BY <2>1 DEF RecoveryInit, Init, Steps, IdleDrive, Idle, Pausing
<1>2. Ahead
  BY DEF RecoveryInit, Init, Ahead, IdleDrive
<1>3. LiveGoesOn /\ FilesGoOn
  BY DEF RecoveryInit, Init, LiveGoesOn, FilesGoOn, GoesOn, LiveRuntime, EmptyRuntime
<1> QED BY <1>1, <1>2, <1>3 DEF PauseInv, RecoveryInit

LEMMA StepPauses ==
  ASSUME AgreeInv, AgreeInv', PauseInv, [RecoveryNext]_recoveryVars,
         {"conflictingProvider", "answerOutOfBand"} \cap Unusual = {}
  PROVE  PauseInv'
<1>0. TypeInv /\ TypeInv' /\ disk \in Runtimes /\ "conflictingProvider" \notin Unusual
  BY DEF AgreeInv, Files
<1>1. CASE EngineStep
  <2>1. /\ Next /\ log' = log \o emitted' /\ disk' = disk /\ torn' = torn /\ crashes' = crashes
    BY <1>1 DEF EngineStep
  <2>2. Steps'
    BY <1>0, <2>1, DriveSteps, RequestSteps DEF PauseInv, Next
  <2>3. Ahead'
    BY <1>0, <2>1, DriveAhead, RequestAhead DEF PauseInv, Next
  <2>4. LiveGoesOn => LiveGoesOn'
    BY <2>1, DriveGoesOn, RequestGoesOn DEF PauseInv, Next
  <2>5. FilesGoOn => FilesGoOn'
    BY <2>1 DEF FilesGoOn
  <2> QED BY <2>1, <2>2, <2>3, <2>4, <2>5 DEF PauseInv
<1>2. CASE PersistNewEvents
  <2>1. UNCHANGED vars /\ crashes' = crashes /\ (Idle \/ drive.background)
    BY <1>2 DEF PersistNewEvents
  <2>2. /\ Replayed' = Replayed
        /\ ~torn' => ~torn /\ disk' = Replayed
    BY <1>2, PersistReplays
  <2>3. Steps' /\ Ahead' /\ (LiveGoesOn => LiveGoesOn')
    BY <2>1, <2>2 DEF PauseInv, Steps, Idle, Ahead, LiveGoesOn, LiveRuntime, vars, requests
  <2>4. ~torn' => FilesGoOn'
    BY <2>1, <2>2, ReplayGoesOn DEF PauseInv, FilesGoOn
  <2>5. crashes' = 0 \/ ~torn' => LiveGoesOn'
    BY <2>1, <2>2, <2>3 DEF PauseInv
  <2> QED BY <2>1, <2>3, <2>4, <2>5 DEF PauseInv
<1>3. CASE Crash \/ ShutdownAndStart
  <2>1. StartServer /\ drive' = IdleDrive /\ disk' = disk /\ torn' = torn
    BY <1>3 DEF Crash, ShutdownAndStart, StartServer
  <2>2. Steps'
    <3>1. CallsOf(<<>>) = {} /\ Len(<<>>) = 0
      BY DEF CallsOf
    <3> QED BY <2>1, <3>1 DEF Steps, IdleDrive, Idle, Pausing
  <2>3. Ahead'
    BY <2>1 DEF Ahead, IdleDrive
  <2>4. ~torn' => FilesGoOn'
    BY <2>1 DEF PauseInv, FilesGoOn
  <2>5. crashes' = 0 \/ ~torn' => LiveGoesOn'
    <3>1. CASE ~torn
      BY <1>0, <2>1, <3>1, StartGoesOn DEF PauseInv
    <3>2. CASE ShutdownAndStart /\ crashes = 0
      <4>1. Replayed = disk
        BY <3>2, ReplayNone DEF ShutdownAndStart, Replayed
      <4>2. FilesGoOn
        BY <3>2, <4>1, ReplayGoesOn DEF ShutdownAndStart, PauseInv, FilesGoOn
      <4> QED BY <1>0, <2>1, <4>2, StartGoesOn
    <3>3. CASE Crash
      <4>1. crashes' # 0
        BY <3>3 DEF Crash, PauseInv
      <4>2. ~torn' => ~torn
        BY <2>1, Zenon
      <4> QED BY <3>1, <4>1, <4>2
    <3> QED BY <1>3, <2>1, <3>1, <3>2, <3>3 DEF ShutdownAndStart
  <2>6. crashes' \in Nat
    BY <1>3 DEF PauseInv, Crash, ShutdownAndStart
  <2> QED BY <2>2, <2>3, <2>4, <2>5, <2>6 DEF PauseInv
<1>4. CASE UNCHANGED recoveryVars
  <2>1. UNCHANGED vars /\ UNCHANGED <<disk, log, torn, crashes>>
    BY <1>4 DEF recoveryVars
  <2> QED BY <2>1 DEF PauseInv, Steps, Idle, Ahead, Replayed, LiveGoesOn, LiveRuntime,
     FilesGoOn, vars, requests
<1> QED BY <1>1, <1>2, <1>3, <1>4 DEF RecoveryNext

LEMMA LatestIsAnswered ==
  ASSUME NEW t \in Turn, NEW a \in ApprovalId, approvals[a].turn = t,
         \A b \in ApprovalId : approvals[b].turn = t => b <= a
  PROVE  LatestCall(t) = {approvals[a].call}
<1>1. ASSUME NEW b \in ApprovalId, approvals[b].turn = t,
             \A c \in ApprovalId : approvals[c].turn = t => c <= b
      PROVE  b = a
  <2>1. a <= b /\ b <= a
    BY <1>1
  <2> QED BY <2>1
<1> QED BY <1>1 DEF LatestCall

LEMMA PausesAreSeen == PauseInv => PausedTurnSurvives
<1> SUFFICES ASSUME LiveGoesOn, NEW t \in Turn, turns[t] \in Waiting, drive.turn # t
             PROVE  /\ turns[t] = "waitingForUser" =>
                         \E q \in QuestionId :
                           /\ questions[q].turn = t
                           /\ questions[q].state = "open"
                           /\ Direct => questions[q].call \in snapshots[t].unanswered
                    /\ turns[t] = "waitingForApproval" /\ Direct =>
                         LatestCall(t) # {} /\ LatestCall(t) \subseteq snapshots[t].unanswered
  BY DEF PauseInv, PausedTurnSurvives, PausedTurnCanGoOn, Direct
<1>1. GoesOn(LiveRuntime, t)
  BY DEF LiveGoesOn
<1>2. turns[t] = "waitingForUser" =>
        \E q \in QuestionId :
          /\ questions[q].turn = t
          /\ questions[q].state = "open"
          /\ Direct => questions[q].call \in snapshots[t].unanswered
  BY <1>1 DEF GoesOn, LiveRuntime
<1>3. ASSUME turns[t] = "waitingForApproval", Direct
      PROVE  LatestCall(t) # {} /\ LatestCall(t) \subseteq snapshots[t].unanswered
  <2>1. PICK a \in ApprovalId :
          /\ approvals[a].turn = t
          /\ approvals[a].call \in snapshots[t].unanswered
          /\ \A b \in ApprovalId : approvals[b].turn = t => b <= a
    BY <1>1, <1>3 DEF GoesOn, LiveRuntime
  <2>2. LatestCall(t) = {approvals[a].call}
    BY <2>1, LatestIsAnswered
  <2> QED BY <2>1, <2>2
<1> QED BY <1>2, <1>3

\* A turn that waits keeps what it needs to go on, over every crash and restart
\* that tears no batch of events: its open question and, with direct providers,
\* a transcript that still lacks the answer it waits for.  Two requests are left
\* out: a resume that is refused after it took the transcript away, and
\* question/respond for the question of a waiting turn, which closes it.
THEOREM PausedTurnsSurvive ==
  ASSUME {"conflictingProvider", "answerOutOfBand"} \cap Unusual = {}
  PROVE  RecoverySpec => []PausedTurnSurvives
<1>1. RecoveryInit => AgreeInv /\ PauseInv
  BY InitAgrees, InitPauses
<1>2. AgreeInv /\ [RecoveryNext]_recoveryVars => AgreeInv'
  BY StepAgrees
<1>3. AgreeInv /\ AgreeInv' /\ PauseInv /\ [RecoveryNext]_recoveryVars => PauseInv'
  BY StepPauses
<1> QED BY <1>1, <1>2, <1>3, PausesAreSeen, PTL DEF RecoverySpec

-----------------------------------------------------------------------------
(* Calls over shutdowns.                                                   *)

OfTurn(a) == approvals[a].turn # NoTurn

\* The calls a turn's transcript has no answer to.
Owed(t) == IF drive.turn = t THEN drive.unanswered ELSE snapshots[t].unanswered

\* What is still owed was issued and never ran, and nobody else owes it.
Owing ==
  /\ reran = {}
  /\ ran \subseteq issued
  /\ drive.provided = {}
  /\ \A t \in Turn : Owed(t) \subseteq issued \ ran
  /\ \A t, u \in Turn : t # u => Owed(t) \cap Owed(u) = {}

\* A turn asks once about a call, before it runs, and what ran was approved or
\* was never asked about.
Asked ==
  /\ \A a \in ApprovalId : OfTurn(a) =>
       /\ approvals[a].call \in issued
       /\ approvals[a].call \in ran => approvals[a].outcome = "approved"
       /\ approvals[a].call \in CallsOf(drive.calls) => drive.at = "pausingForApproval"
  /\ \A a, b \in ApprovalId :
       OfTurn(a) /\ OfTurn(b) /\ approvals[a].call = approvals[b].call => a = b

\* The calls a resume runs first are approved and still owed.
Cleared ==
  \A a \in drive.pending : /\ OfTurn(a) /\ approvals[a].outcome = "approved"
                           /\ approvals[a].call \in drive.unanswered

\* Who refused a call stands on record.
Recorded ==
  \A c \in refused : \E a \in ApprovalId :
    OfTurn(a) /\ approvals[a].call = c /\ approvals[a].outcome = "denied"

CallsInv == Owing /\ Asked /\ Cleared /\ Recorded

CallsCorrect == crashes = 0 => CallsInv

-----------------------------------------------------------------------------
(* Steps in kinds, by what they do to the calls.                           *)

\* A turn's approvals keep turn and call, and change their outcome once.
KeepsAsked ==
  \A a \in ApprovalId : OfTurn(a) =>
    /\ approvals'[a].turn = approvals[a].turn
    /\ approvals'[a].call = approvals[a].call
    /\ approvals'[a].outcome = approvals[a].outcome \/ approvals[a].outcome = "pending"

OwesLess == \A t \in Turn : Owed(t)' \subseteq Owed(t)

LEMMA OwingLess ==
  ASSUME Owing, OwesLess, UNCHANGED history, drive'.provided = {}
  PROVE  Owing'
<1>1. issued' = issued /\ ran' = ran /\ reran' = reran
  BY DEF history
<1>2. \A t \in Turn : Owed(t)' \subseteq issued \ ran
  BY DEF Owing, OwesLess
<1>3. \A t, u \in Turn : t # u => Owed(t)' \cap Owed(u)' = {}
  BY DEF Owing, OwesLess
<1> HIDE DEF Owed
<1> QED BY <1>1, <1>2, <1>3 DEF Owing

LEMMA OwingRuns ==
  ASSUME Owing, OwesLess, drive'.provided = {},
         NEW d \in Turn, NEW c \in Owed(d), c \notin Owed(d)', RunTool(c)
  PROVE  Owing' /\ ran' = ran \cup {c}
<1>1. c \in issued /\ c \notin ran
  BY DEF Owing
<1>2. issued' = issued /\ ran' = ran \cup {c} /\ reran' = reran
  BY <1>1 DEF RunTool
<1>3. ASSUME NEW t \in Turn PROVE Owed(t)' \subseteq issued \ (ran \cup {c})
  <2>1. Owed(t)' \subseteq issued \ ran
    BY DEF Owing, OwesLess
  <2>2. t # d => c \notin Owed(t)
    BY DEF Owing
  <2> QED BY <2>1, <2>2 DEF OwesLess
<1>4. \A t, u \in Turn : t # u => Owed(t)' \cap Owed(u)' = {}
  BY DEF Owing, OwesLess
<1>5. ran' \subseteq issued'
  BY <1>1, <1>2 DEF Owing
<1> QED BY <1>2, <1>3, <1>4, <1>5 DEF Owing

LEMMA OwingGrows ==
  ASSUME Owing, drive'.provided = {}, NEW d \in Turn, NEW C,
         C \cap issued = {}, issued' = issued \cup C, ran' = ran, reran' = reran,
         \A t \in Turn : Owed(t)' \subseteq IF t = d THEN Owed(t) \cup C ELSE Owed(t)
  PROVE  Owing'
<1>1. C \cap ran = {}
  BY DEF Owing
<1>2. ASSUME NEW t \in Turn PROVE Owed(t)' \subseteq issued' \ ran'
  BY <1>1 DEF Owing
<1>3. \A t \in Turn : Owed(t) \cap C = {}
  BY DEF Owing
<1>4. \A t, u \in Turn : t # u => Owed(t)' \cap Owed(u)' = {}
  BY <1>3 DEF Owing
<1>5. ran' \subseteq issued'
  BY DEF Owing
<1> QED BY <1>2, <1>4, <1>5 DEF Owing

LEMMA AskedStays ==
  ASSUME Asked, KeepsAsked, issued \subseteq issued',
         \A a \in ApprovalId : OfTurn(a)' => OfTurn(a),
         \A a \in ApprovalId : OfTurn(a) /\ approvals[a].call \in ran' =>
           approvals[a].call \in ran \/ approvals[a].outcome = "approved",
         \A a \in ApprovalId : OfTurn(a) /\ approvals[a].call \in CallsOf(drive'.calls) =>
           drive'.at = "pausingForApproval"
  PROVE  Asked'
<1>1. ASSUME NEW a \in ApprovalId, OfTurn(a)'
      PROVE  /\ approvals'[a].call \in issued'
             /\ approvals'[a].call \in ran' => approvals'[a].outcome = "approved"
             /\ approvals'[a].call \in CallsOf(drive'.calls) => drive'.at = "pausingForApproval"
  <2>1. OfTurn(a)
    BY <1>1
  <2>2. /\ approvals'[a].call = approvals[a].call
        /\ approvals'[a].outcome = approvals[a].outcome \/ approvals[a].outcome = "pending"
    BY <2>1 DEF KeepsAsked
  <2>3. /\ approvals[a].call \in issued
        /\ approvals[a].call \in ran => approvals[a].outcome = "approved"
    BY <2>1 DEF Asked
  <2> QED BY <2>1, <2>2, <2>3
<1>2. \A a, b \in ApprovalId :
        OfTurn(a)' /\ OfTurn(b)' /\ approvals'[a].call = approvals'[b].call => a = b
  BY DEF Asked, KeepsAsked
<1> QED BY <1>1, <1>2 DEF Asked

LEMMA ClearedStays ==
  ASSUME Cleared, KeepsAsked, drive.pending \subseteq ApprovalId,
         drive'.pending \subseteq drive.pending,
         \A a \in drive'.pending : approvals[a].call \in drive'.unanswered
  PROVE  Cleared'
BY DEF Cleared, KeepsAsked, OfTurn

LEMMA RecordedStays ==
  ASSUME Recorded, KeepsAsked,
         refused' \subseteq refused \cup {approvals'[a].call : a \in Refusals(approvals')}
  PROVE  Recorded'
<1> SUFFICES ASSUME NEW c \in refused'
             PROVE  \E a \in ApprovalId : /\ OfTurn(a)' /\ approvals'[a].call = c
                                          /\ approvals'[a].outcome = "denied"
  BY DEF Recorded
<1>1. CASE c \in refused
  BY <1>1 DEF Recorded, KeepsAsked, OfTurn
<1>2. CASE c \in {approvals'[a].call : a \in Refusals(approvals')}
  BY <1>2 DEF Refusals, OfTurn
<1> QED BY <1>1, <1>2

-----------------------------------------------------------------------------
(* The driver and the calls.                                               *)

\* What is the same in every step of the driver.
LEMMA OwedElsewhere ==
  ASSUME TypeInv, Memory, DriveStep
  PROVE  /\ drive.turn \in Turn
         /\ drive' = IdleDrive \/ drive'.turn = drive.turn =>
              \A t \in Turn \ {drive.turn} : Owed(t)' = Owed(t)
         /\ Owed(drive.turn) = drive.unanswered
<1>1. Others(drive.turn)
  BY DriveOthers
<1>2. drive \in Drive /\ ~Idle
  <2>1. Idle => drive.at = "idle"
    BY DEF TypeInv, Shape, IdleDrive
  <2>2. drive.at # "idle" \/ DriveEnds \/ DriveLoops
    BY DriveKinds
       DEF RunPendingCall, ModelAnswers, ExecuteCall, RejectQuestion, GuardianDenies, AskUser,
           RequestToolApproval, PauseForUser, PauseForApproval, NotInterrupted
  <2> QED BY <2>1, <2>2 DEF DriveEnds, DriveLoops, TypeInv, TypeOK
<1>3. drive.turn \in Turn
  BY <1>2 DEF Drive, Idle
<1>4. ASSUME drive' = IdleDrive \/ drive'.turn = drive.turn
      PROVE  \A t \in Turn \ {drive.turn} : Owed(t)' = Owed(t)
  <2>1. drive'.turn = NoTurn \/ drive'.turn = drive.turn
    BY <1>4 DEF IdleDrive
  <2>2. NoTurn \notin Turn
    BY BoundsAreNat
  <2> QED BY <1>1, <2>1, <2>2 DEF Others, Owed
<1> QED BY <1>3, <1>4 DEF Owed

\* The calls a step has left are not asked about before it gets to them.
LEMMA NotAsked ==
  ASSUME Asked, drive.at # "pausingForApproval", NEW a \in ApprovalId, OfTurn(a)
  PROVE  approvals[a].call \notin CallsOf(drive.calls)
BY DEF Asked

LEMMA DriveCalls ==
  ASSUME AgreeInv, Steps, CallsInv, DriveStep, Direct,
         refused' = refused \cup {approvals'[a].call : a \in Refusals(approvals')}
  PROVE  CallsInv'
<1>0. /\ TypeInv /\ Memory /\ drive \in Drive /\ (Idle => drive.at = "idle")
      /\ snapshots \in [Turn -> Snapshot] /\ approvals \in [ApprovalId -> Approval]
      /\ drive.pending \subseteq ApprovalId /\ drive.calls \in Seq(Calls)
  BY DEF AgreeInv, TypeInv, TypeOK, Shape, IdleDrive, Drive
<1>1. PICK d \in Turn :
      /\ d = drive.turn
      /\ drive' = IdleDrive \/ drive'.turn = d =>
           \A t \in Turn \ {d} : Owed(t)' = Owed(t)
      /\ Owed(d) = drive.unanswered
  BY <1>0, OwedElsewhere
<1>2. ASSUME UNCHANGED requests PROVE KeepsAsked /\ Recorded'
  <2>1. KeepsAsked
    BY <1>2 DEF KeepsAsked, requests
  <2> QED BY <2>1, RecordedStays DEF CallsInv
<1>3. ASSUME drive' = IdleDrive, UNCHANGED requests, UNCHANGED history,
             snapshots'[d].unanswered \subseteq drive.unanswered
      PROVE  CallsInv'
  <2>1. Owed(d)' = snapshots'[d].unanswered
    BY <1>1, <1>3, BoundsAreNat DEF Owed, IdleDrive
  <2>2. OwesLess
    BY <1>1, <1>3, <2>1 DEF OwesLess
  <2>3. /\ drive'.provided = {} /\ drive'.pending = {} /\ CallsOf(drive'.calls) = {}
    BY <1>3 DEF IdleDrive, CallsOf
  <2>4. Owing'
    BY <1>3, <2>2, <2>3, OwingLess DEF CallsInv
  <2>5. Asked'
    BY <1>2, <1>3, <2>3, AskedStays DEF CallsInv, history, requests, OfTurn
  <2>6. Cleared'
    BY <2>3 DEF Cleared
  <2> QED BY <1>2, <1>3, <2>4, <2>5, <2>6 DEF CallsInv
<1>4. CASE DriveEnds
  BY <1>0, <1>1, <1>3, <1>4 DEF DriveEnds, NoSnapshot
<1>5. CASE PauseForUser \/ PauseForApproval
  <2>1. /\ drive' = IdleDrive /\ UNCHANGED requests /\ UNCHANGED history
        /\ snapshots' = snapshots /\ drive.at \in Pausing
    BY <1>5 DEF PauseForUser, PauseForApproval, Pausing
  <2>2. drive.direct
    BY <1>0, <2>1 DEF Steps, Pausing
  <2> QED BY <1>1, <1>3, <2>1, <2>2 DEF Steps
<1>6. CASE DriveLoops
  <2>1. /\ UNCHANGED requests /\ UNCHANGED history
        /\ drive'.turn = d /\ drive'.pending = drive.pending /\ drive'.calls = drive.calls
        /\ drive'.provided = drive.provided /\ drive'.unanswered = drive.unanswered
        /\ drive.at # "pausingForApproval"
    BY <1>1, <1>6 DEF DriveLoops, Pausing
  <2>2. OwesLess
    BY <1>1, <2>1 DEF OwesLess, Owed
  <2>3. Owing'
    BY <2>1, <2>2, OwingLess DEF CallsInv, Owing
  <2>4. Asked'
    BY <1>2, <2>1, AskedStays, NotAsked DEF CallsInv, history, requests, OfTurn
  <2>5. Cleared'
    BY <1>0, <1>2, <2>1, ClearedStays DEF CallsInv, Cleared
  <2> QED BY <1>2, <2>1, <2>3, <2>4, <2>5 DEF CallsInv
<1>7. CASE RunPendingCall
  <2>1. PICK a \in drive.pending :
          /\ RunTool(approvals[a].call)
          /\ drive' = [Observed(drive, approvals[a].call)
                        EXCEPT !.pending = @ \ {a},
                               !.at = IF drive.pending = {a} THEN "loop" ELSE "pending"]
    BY <1>7 DEF RunPendingCall
  <2> DEFINE c == approvals[a].call
  <2>2. /\ drive'.turn = d /\ drive'.pending = drive.pending \ {a}
        /\ drive'.calls = drive.calls /\ drive'.provided = drive.provided
        /\ drive'.unanswered = drive.unanswered \ {c}
    BY <1>0, <1>1, <2>1 DEF Observed, Drive
  <2>3. /\ a \in ApprovalId /\ OfTurn(a) /\ approvals[a].outcome = "approved"
        /\ c \in drive.unanswered
    BY <1>0, <2>1 DEF CallsInv, Cleared
  <2>4. UNCHANGED requests /\ drive.at = "pending" /\ drive.calls = <<>>
    BY <1>7 DEF RunPendingCall, NotInterrupted, Steps
  <2>5. OwesLess /\ c \in Owed(d) /\ c \notin Owed(d)'
    BY <1>1, <2>2, <2>3 DEF OwesLess, Owed
  <2> HIDE DEF c
  <2>6. Owing' /\ ran' = ran \cup {c}
    BY <1>1, <2>1, <2>2, <2>5, OwingRuns DEF CallsInv, Owing, c
  <2>7. \A b \in ApprovalId : OfTurn(b) /\ approvals[b].call = c => b = a
    BY <2>3 DEF CallsInv, Asked, c
  <2>8. issued' = issued /\ CallsOf(drive'.calls) = {}
    BY <2>1, <2>2, <2>4 DEF RunTool, CallsOf
  <2>9. Asked'
    BY <1>2, <2>3, <2>4, <2>6, <2>7, <2>8, AskedStays DEF CallsInv, requests, OfTurn
  <2>10. Cleared'
    <3>1. \A b \in drive'.pending : approvals[b].call \in drive'.unanswered
      BY <1>0, <2>2, <2>7 DEF CallsInv, Cleared
    <3> QED BY <1>0, <1>2, <2>2, <2>4, <3>1, ClearedStays DEF CallsInv
  <2> QED BY <1>2, <2>4, <2>6, <2>9, <2>10 DEF CallsInv
<1>8. CASE ModelAnswers
  <2>1. drive.direct /\ drive.at = "model"
    BY <1>0, <1>8 DEF Steps, ModelAnswers
  <2>2. PICK calls \in StepCalls, final \in BOOLEAN, duplicate \in BOOLEAN :
          /\ CallsOf(calls) \cap issued = {}
          /\ drive' = [drive EXCEPT
                         !.at = "stepped", !.calls = calls, !.provided = {},
                         !.duplicate = duplicate, !.final = final \/ calls = <<>>,
                         !.unanswered = IF drive.direct THEN @ \cup CallsOf(calls) ELSE @]
          /\ issued' = issued \cup CallsOf(calls)
    BY <1>8, <2>1 DEF ModelAnswers
  <2> DEFINE C == CallsOf(calls)
  <2>3. /\ drive'.turn = d /\ drive'.pending = drive.pending
        /\ drive'.calls = calls /\ drive'.provided = {}
        /\ drive'.unanswered = drive.unanswered \cup C
    BY <1>0, <1>1, <2>1, <2>2 DEF Drive
  <2>4. UNCHANGED requests /\ ran' = ran /\ reran' = reran
    BY <1>8 DEF ModelAnswers
  <2> HIDE DEF C
  <2>5. \A t \in Turn : Owed(t)' \subseteq IF t = d THEN Owed(t) \cup C ELSE Owed(t)
    BY <1>1, <2>3 DEF Owed
  <2>6. C \cap issued = {} /\ issued' = issued \cup C
    BY <2>2 DEF C
  <2>7. Owing'
    BY <1>1, <2>3, <2>4, <2>5, <2>6, OwingGrows DEF CallsInv
  <2>8. Asked'
    <3>1. \A a \in ApprovalId : OfTurn(a) => approvals[a].call \notin CallsOf(drive'.calls)
      BY <2>3, <2>6 DEF CallsInv, Asked, C
    <3> QED BY <1>2, <2>4, <2>6, <3>1, AskedStays DEF CallsInv, requests, OfTurn
  <2>9. Cleared'
    BY <1>0, <1>2, <2>3, <2>4, ClearedStays DEF CallsInv, Cleared
  <2> QED BY <1>2, <2>4, <2>7, <2>8, <2>9 DEF CallsInv
<1>9. CASE ExecuteCall \/ RejectQuestion \/ GuardianDenies
  <2> DEFINE c == Head(drive.calls)
  <2>1. /\ drive.at = "calls" /\ drive.calls # <<>> /\ drive' = NextCall(drive) /\ drive.direct
        /\ approvals' = approvals
    BY <1>0, <1>9 DEF ExecuteCall, RejectQuestion, GuardianDenies, NotInterrupted, Steps, requests
  <2>2. /\ drive'.turn = d /\ drive'.at = "calls" /\ drive'.pending = drive.pending
        /\ drive'.unanswered = drive.unanswered \ {c}
        /\ drive'.provided = drive.provided \ {c} /\ drive'.calls = Tail(drive.calls)
    BY <1>0, <1>1, <2>1, NextCallSteps
  <2>3. c \in CallsOf(drive.calls) /\ CallsOf(drive'.calls) = CallsOf(drive.calls) \ {c}
    BY <1>0, <2>1, <2>2, TailCalls DEF Steps
  <2>4. c \in drive.unanswered
    BY <2>1, <2>3 DEF Steps
  <2>5. UNCHANGED history \/ RunTool(c)
    BY <1>9 DEF ExecuteCall, RejectQuestion, GuardianDenies
  <2>6. \A a \in ApprovalId : OfTurn(a) => approvals[a].call \notin CallsOf(drive.calls)
    BY <2>1, NotAsked DEF CallsInv
  <2> HIDE DEF c
  <2>7. OwesLess /\ c \in Owed(d) /\ c \notin Owed(d)'
    BY <1>1, <2>2, <2>4 DEF OwesLess, Owed
  <2>8. drive'.provided = {}
    BY <2>2 DEF CallsInv, Owing
  <2>9. /\ Owing' /\ issued' = issued
        /\ ran' = ran \/ ran' = ran \cup {c}
    <3>1. CASE UNCHANGED history
      BY <2>7, <2>8, <3>1, OwingLess DEF CallsInv, history
    <3>2. CASE RunTool(c)
      BY <1>1, <2>7, <2>8, <3>2, OwingRuns DEF CallsInv, RunTool
    <3> QED BY <2>5, <3>1, <3>2
  <2>10. KeepsAsked
    BY <2>1 DEF KeepsAsked
  <2>11. Asked'
    BY <2>1, <2>3, <2>6, <2>9, <2>10, AskedStays DEF CallsInv, OfTurn
  <2>12. Cleared'
    <3>1. \A a \in drive'.pending : approvals[a].call \in drive'.unanswered
      BY <1>0, <2>2, <2>3, <2>6 DEF CallsInv, Cleared
    <3> QED BY <1>0, <2>2, <2>10, <3>1, ClearedStays DEF CallsInv
  <2>13. Recorded'
    BY <2>10, RecordedStays DEF CallsInv
  <2> QED BY <2>9, <2>11, <2>12, <2>13 DEF CallsInv
<1>10. ASSUME drive.at = "calls", UNCHANGED history, drive'.turn = d,
              \A f \in {"pending", "calls", "provided", "unanswered"} : drive'[f] = drive[f]
       PROVE  Owing'
  <2>1. OwesLess
    BY <1>1, <1>10 DEF OwesLess, Owed
  <2> QED BY <1>10, <2>1, OwingLess DEF CallsInv, Owing
<1>11. CASE AskUser
  <2>1. /\ drive.at = "calls" /\ UNCHANGED history /\ drive'.turn = d
        /\ \A f \in {"pending", "calls", "provided", "unanswered"} : drive'[f] = drive[f]
        /\ approvals' = approvals
    BY <1>0, <1>1, <1>11 DEF AskUser, NotInterrupted, Drive
  <2>2. KeepsAsked
    BY <2>1 DEF KeepsAsked
  <2>3. Asked'
    BY <2>1, <2>2, AskedStays, NotAsked DEF CallsInv, history, OfTurn
  <2>4. Cleared'
    BY <1>0, <2>1, <2>2, ClearedStays DEF CallsInv, Cleared
  <2>5. Recorded'
    BY <2>2, RecordedStays DEF CallsInv
  <2> QED BY <1>10, <2>1, <2>3, <2>4, <2>5 DEF CallsInv
<1>12. CASE RequestToolApproval
  <2> DEFINE n == next_approval + 1
             c == Head(drive.calls)
  <2>1. /\ drive.at = "calls" /\ UNCHANGED history /\ drive'.turn = d
        /\ \A f \in {"pending", "calls", "provided", "unanswered"} : drive'[f] = drive[f]
        /\ drive'.at = "pausingForApproval" /\ drive.calls # <<>> /\ drive.direct
    BY <1>0, <1>1, <1>12 DEF RequestToolApproval, NotInterrupted, Drive, Steps
  <2>2. /\ approvals' = [approvals EXCEPT ![n] =
                           [turn |-> d, call |-> c, outcome |-> "pending"]]
        /\ n \in ApprovalId /\ approvals[n].outcome = "absent"
    BY <1>0, <1>1, <1>12, BoundsAreNat DEF RequestToolApproval, TypeInv, TypeOK, Memory
  <2>3. ~OfTurn(n) /\ NoTurn \notin Turn
    BY <1>0, <2>2, BoundsAreNat DEF OfTurn, Approval, NoApproval
  <2>4. c \in CallsOf(drive.calls) /\ c \in drive.unanswered
    BY <1>0, <2>1, TailCalls DEF Steps
  <2>5. /\ approvals'[n].turn = d /\ approvals'[n].call = c /\ approvals'[n].outcome = "pending"
        /\ \A a \in ApprovalId : a # n => approvals'[a] = approvals[a]
    BY <1>0, <2>2
  <2> HIDE DEF n, c
  <2>6. \A a \in ApprovalId : OfTurn(a) => approvals[a].call # c
    BY <2>1, <2>4, NotAsked DEF CallsInv
  <2>7. KeepsAsked
    BY <2>3, <2>5 DEF KeepsAsked
  <2>8. c \in issued /\ c \notin ran
    BY <1>1, <2>4 DEF CallsInv, Owing
  <2>9. issued' = issued /\ ran' = ran
    BY <2>1 DEF history
  <2>10. Asked'
    <3>1. ASSUME NEW a \in ApprovalId, OfTurn(a)'
          PROVE  /\ approvals'[a].call \in issued'
                 /\ approvals'[a].call \in ran' => approvals'[a].outcome = "approved"
                 /\ approvals'[a].call \in CallsOf(drive'.calls) =>
                      drive'.at = "pausingForApproval"
      <4>1. CASE a = n
        BY <2>1, <2>5, <2>8, <2>9, <4>1
      <4>2. CASE a # n
        BY <2>1, <2>5, <2>9, <3>1, <4>2 DEF CallsInv, Asked, OfTurn
      <4> QED BY <4>1, <4>2
    <3>2. ASSUME NEW a \in ApprovalId, NEW b \in ApprovalId, OfTurn(a)', OfTurn(b)',
                 approvals'[a].call = approvals'[b].call
          PROVE  a = b
      <4>1. CASE a # n /\ b # n
        BY <2>5, <3>2, <4>1 DEF CallsInv, Asked, OfTurn
      <4>2. CASE a = n \/ b = n
        BY <2>5, <2>6, <3>2, <4>2 DEF OfTurn
      <4> QED BY <4>1, <4>2
    <3> QED BY <3>1, <3>2 DEF Asked
  <2>11. Cleared'
    BY <1>0, <2>1, <2>7, ClearedStays DEF CallsInv, Cleared
  <2>12. Recorded'
    BY <2>7, RecordedStays DEF CallsInv
  <2> QED BY <1>10, <2>1, <2>10, <2>11, <2>12 DEF CallsInv
<1> QED
  BY <1>0, <1>4, <1>5, <1>6, <1>7, <1>8, <1>9, <1>11, <1>12, DriveKinds

-----------------------------------------------------------------------------
(* The requests and the calls.                                             *)

\* A resume runs no call but the one the turn is waiting to run.
LEMMA ResumeClears ==
  ASSUME TypeInv, CallsInv, LiveGoesOn, Idle, Direct, Unusual = {}, NEW t \in Turn,
         NEW q \in QuestionId \cup {NoQuestion}, NEW given \in ResumeApprovals(t, q),
         Resumable(t, q)
  PROVE  \/ PendingCalls(t, given) = {}
         \/ q = NoQuestion /\ \E a \in ApprovalId :
              /\ PendingCalls(t, given) \subseteq {a} /\ OfTurn(a) /\ approvals[a].turn = t
              /\ approvals[a].call \in given
              /\ approvals[a].call \in snapshots[t].unanswered
<1>1. t # NoTurn
  BY BoundsAreNat
<1>2. given = {} \/ (q = NoQuestion /\ given = LatestCall(t))
  BY DEF ResumeApprovals
<1>3. CASE given = {}
  BY <1>3 DEF PendingCalls
<1>4. CASE q = NoQuestion /\ given = LatestCall(t)
  <2>1. GoesOn(LiveRuntime, t) /\ turns[t] = "waitingForApproval"
    BY <1>1, <1>4 DEF LiveGoesOn, Resumable, Idle
  <2>2. PICK a \in ApprovalId :
          /\ approvals[a].turn = t
          /\ approvals[a].call \in snapshots[t].unanswered
          /\ \A b \in ApprovalId : approvals[b].turn = t => b <= a
    BY <2>1 DEF GoesOn, LiveRuntime
  <2>3. given = {approvals[a].call}
    BY <1>4, <2>2, LatestIsAnswered
  <2>4. OfTurn(a)
    BY <1>1, <2>2 DEF OfTurn
  <2>5. \A b \in ApprovalId : approvals[b].turn = t /\ approvals[b].call \in given => b = a
    BY <1>1, <2>2, <2>3, <2>4 DEF CallsInv, Asked, OfTurn
  <2>6. PendingCalls(t, given) \subseteq {a}
    BY <2>5 DEF PendingCalls
  <2> QED BY <1>4, <2>2, <2>3, <2>4, <2>6
<1> QED BY <1>2, <1>3, <1>4

LEMMA RequestCalls ==
  ASSUME AgreeInv, CallsInv, LiveGoesOn, Request, Direct, Unusual = {},
         refused' = refused \cup {approvals'[a].call : a \in Refusals(approvals')}
  PROVE  CallsInv'
<1>0. /\ TypeInv /\ Memory /\ drive \in Drive /\ (Idle => drive = IdleDrive)
      /\ snapshots \in [Turn -> Snapshot] /\ approvals \in [ApprovalId -> Approval]
      /\ NoTurn \notin Turn
  BY BoundsAreNat DEF AgreeInv, TypeInv, TypeOK, Shape
<1>1. Idle => \A t \in Turn : Owed(t) = snapshots[t].unanswered
  BY <1>0 DEF Idle, Owed
<1>2. CallsOf(<<>>) = {}
  BY DEF CallsOf
<1>3. ASSUME Idle, KeepsAsked, \A a \in ApprovalId : OfTurn(a)' => OfTurn(a),
             OwesLess, issued' = issued, ran' = ran, reran' = reran,
             drive'.calls = <<>>, drive'.provided = {}, Cleared'
      PROVE  CallsInv'
  <2>1. Owing'
    BY <1>3 DEF CallsInv, Owing, OwesLess
  <2>2. Asked'
    BY <1>2, <1>3, AskedStays DEF CallsInv
  <2>3. Recorded'
    BY <1>3, RecordedStays DEF CallsInv
  <2> QED BY <1>3, <2>1, <2>2, <2>3 DEF CallsInv
<1>4. ASSUME Idle, drive' = drive
      PROVE  drive'.calls = <<>> /\ drive'.provided = {} /\ drive'.pending = {} /\ Cleared'
  BY <1>0, <1>4 DEF IdleDrive, Cleared
<1>5. ASSUME approvals' = approvals
      PROVE  KeepsAsked /\ \A a \in ApprovalId : OfTurn(a)' => OfTurn(a)
  BY <1>5 DEF KeepsAsked, OfTurn
<1>6. ASSUME NEW provider \in Providers, NEW background \in BOOLEAN,
             NEW first \in FirstApprovals, RunAgenticTurn(provider, background, first)
      PROVE  CallsInv'
  <2>1. /\ drive'.calls = <<>> /\ drive'.provided = {} /\ drive'.pending = {}
        /\ drive'.unanswered = {} /\ drive'.turn = next_turn + 1 /\ Idle
    BY <1>6 DEF RunAgenticTurn, IdleDrive
  <2>2. /\ issued' = issued /\ ran' = ran /\ reran' = reran
        /\ approvals' = approvals /\ snapshots' = snapshots
    BY <1>6 DEF RunAgenticTurn, StartTurn, requests
  <2>3. OwesLess
    BY <1>1, <2>1, <2>2 DEF OwesLess, Owed
  <2>4. Cleared'
    BY <2>1 DEF Cleared
  <2> QED BY <1>3, <1>5, <2>1, <2>2, <2>3, <2>4
<1>7. ASSUME NEW t \in Turn, NEW q \in QuestionId \cup {NoQuestion},
             NEW given \in ResumeApprovals(t, q), NEW provider \in Providers,
             ResumeAgenticTurn(t, q, given, provider)
      PROVE  CallsInv'
  <2> DEFINE P == PendingCalls(t, given)
  <2>1. Idle /\ Resumable(t, q) /\ ApplyResume(t, q, given)
    BY <1>7 DEF ResumeAgenticTurn
  <2>2. /\ drive'.calls = <<>> /\ drive'.provided = {} /\ drive'.turn = t
        /\ drive'.pending = P
        /\ drive'.unanswered = IF q = NoQuestion THEN snapshots[t].unanswered
                               ELSE snapshots[t].unanswered \ {questions[q].call}
    BY <1>7 DEF ResumeAgenticTurn, IdleDrive
  <2>3. /\ issued' = issued /\ ran' = ran /\ reran' = reran
        /\ snapshots' = [snapshots EXCEPT ![t] = NoSnapshot]
        /\ approvals' = [a \in ApprovalId |->
                           IF a \in NewlyApproved(t, given)
                           THEN [approvals[a] EXCEPT !.outcome = "approved"]
                           ELSE approvals[a]]
    BY <2>1 DEF ApplyResume
  <2> HIDE DEF P
  <2>4. OwesLess
    BY <1>0, <1>1, <2>1, <2>2, <2>3 DEF OwesLess, Owed
  <2>5. ASSUME NEW a \in ApprovalId
        PROVE  /\ approvals'[a].turn = approvals[a].turn
               /\ approvals'[a].call = approvals[a].call
               /\ IF a \in NewlyApproved(t, given)
                  THEN approvals'[a].outcome = "approved" /\ approvals[a].outcome = "pending"
                  ELSE approvals'[a].outcome = approvals[a].outcome
    <3> DEFINE n == [approvals[a] EXCEPT !.outcome = "approved"]
    <3>1. n.turn = approvals[a].turn /\ n.call = approvals[a].call /\ n.outcome = "approved"
      BY <1>0, ApprovalFields
    <3>2. approvals'[a] = IF a \in NewlyApproved(t, given) THEN n ELSE approvals[a]
      BY <2>3
    <3> HIDE DEF n
    <3>3. a \in NewlyApproved(t, given) => approvals[a].outcome = "pending"
      BY DEF NewlyApproved
    <3> QED BY <3>1, <3>2, <3>3
  <2>6. KeepsAsked /\ \A a \in ApprovalId : OfTurn(a)' => OfTurn(a)
    <3>1. KeepsAsked
      BY <2>5 DEF KeepsAsked
    <3> QED BY <2>5, <3>1 DEF OfTurn
  <2>7. Cleared'
    <3>1. CASE P = {}
      BY <2>2, <3>1 DEF Cleared
    <3>2. ASSUME q = NoQuestion, NEW a \in ApprovalId, P \subseteq {a}, OfTurn(a),
                 approvals[a].turn = t, approvals[a].call \in given,
                 approvals[a].call \in snapshots[t].unanswered
          PROVE  Cleared'
      <4> SUFFICES ASSUME a \in P
                   PROVE  /\ OfTurn(a)' /\ approvals'[a].outcome = "approved"
                          /\ approvals'[a].call \in drive'.unanswered
        BY <2>2, <3>2 DEF Cleared
      <4>1. OfTurn(a)' /\ approvals'[a].call \in drive'.unanswered
        BY <2>2, <2>5, <3>2 DEF OfTurn
      <4>2. approvals[a].outcome \in {"pending", "approved"}
        BY DEF P, PendingCalls
      <4>3. approvals[a].outcome = "pending" => a \in NewlyApproved(t, given)
        BY <3>2 DEF NewlyApproved
      <4> QED BY <2>5, <4>1, <4>2, <4>3
    <3> QED BY <1>0, <2>1, <3>1, <3>2, ResumeClears DEF P
  <2> QED BY <1>3, <2>1, <2>2, <2>3, <2>4, <2>6, <2>7
<1>8. ASSUME NEW t \in Turn, InterruptTurn(t)
      PROVE  CallsInv'
  <2>1. /\ Idle /\ drive' = drive /\ approvals' = approvals
        /\ issued' = issued /\ ran' = ran /\ reran' = reran
        /\ snapshots' = [snapshots EXCEPT ![t] = NoSnapshot]
    BY <1>8 DEF InterruptTurn, requests, history
  <2>2. OwesLess
    BY <1>0, <1>1, <2>1 DEF OwesLess, Owed, NoSnapshot, Idle
  <2> QED BY <1>3, <1>4, <1>5, <2>1, <2>2
<1>9. ASSUME NEW t \in Turn, RequestInterrupt(t)
      PROVE  CallsInv'
  <2>1. /\ drive' = drive /\ approvals' = approvals /\ snapshots' = snapshots
        /\ UNCHANGED history
    BY <1>9 DEF RequestInterrupt, requests
  <2>2. Owing' /\ Asked' /\ Cleared'
    BY <2>1 DEF CallsInv, Owing, Owed, Asked, Cleared, OfTurn, history
  <2>3. Recorded'
    BY <1>5, <2>1, RecordedStays DEF CallsInv
  <2> QED BY <2>2, <2>3 DEF CallsInv
<1>10. ASSUME NEW c \in GatedCalls, RequestApproval(c)
       PROVE  CallsInv'
  <2> DEFINE n == next_approval + 1
  <2>1. /\ Idle /\ drive' = drive /\ snapshots' = snapshots
        /\ issued' = issued /\ ran' = ran /\ reran' = reran
    BY <1>10 DEF RequestApproval, history
  <2>2. /\ approvals' = [approvals EXCEPT ![n] =
                           [turn |-> NoTurn, call |-> c, outcome |-> "pending"]]
        /\ n \in ApprovalId /\ approvals[n].outcome = "absent"
    BY <1>0, <1>10, BoundsAreNat DEF RequestApproval, TypeInv, TypeOK, Memory
  <2>3. ~OfTurn(n)
    BY <1>0, <2>2 DEF OfTurn, Approval, NoApproval
  <2>4. /\ approvals'[n].turn = NoTurn
        /\ \A a \in ApprovalId : a # n => approvals'[a] = approvals[a]
    BY <1>0, <2>2
  <2> HIDE DEF n
  <2>5. KeepsAsked /\ \A a \in ApprovalId : OfTurn(a)' => OfTurn(a)
    BY <2>3, <2>4 DEF KeepsAsked, OfTurn
  <2>6. OwesLess
    BY <2>1 DEF OwesLess, Owed
  <2> QED BY <1>3, <1>4, <2>1, <2>5, <2>6
<1>11. ASSUME NEW a \in ApprovalId, NEW decision \in {"approved", "denied"},
              RespondApproval(a, decision)
       PROVE  CallsInv'
  <2>1. /\ Idle /\ drive' = drive /\ snapshots' = snapshots
        /\ issued' = issued /\ ran' = ran /\ reran' = reran
        /\ approvals[a].outcome = "pending"
        /\ approvals' = [approvals EXCEPT ![a] = [approvals[a] EXCEPT !.outcome = decision]]
    BY <1>11 DEF RespondApproval
  <2>2. ASSUME NEW b \in ApprovalId
        PROVE  /\ approvals'[b].turn = approvals[b].turn /\ approvals'[b].call = approvals[b].call
               /\ approvals'[b].outcome = approvals[b].outcome \/ approvals[b].outcome = "pending"
    <3>1. CASE b = a
      <4> DEFINE n == [approvals[a] EXCEPT !.outcome = decision]
      <4>1. n.turn = approvals[a].turn /\ n.call = approvals[a].call
        BY <1>0, ApprovalFields
      <4>2. approvals'[b] = n
        BY <1>0, <2>1, <3>1
      <4> HIDE DEF n
      <4> QED BY <2>1, <3>1, <4>1, <4>2
    <3>2. CASE b # a
      BY <1>0, <2>1, <3>2
    <3> QED BY <3>1, <3>2
  <2>3. KeepsAsked /\ \A b \in ApprovalId : OfTurn(b)' => OfTurn(b)
    <3>1. KeepsAsked
      BY <2>2 DEF KeepsAsked
    <3> QED BY <2>2, <3>1 DEF OfTurn
  <2>4. OwesLess
    BY <2>1 DEF OwesLess, Owed
  <2> QED BY <1>3, <1>4, <2>1, <2>3, <2>4
<1> QED
  BY <1>6, <1>7, <1>8, <1>9, <1>10, <1>11
     DEF Request, RunAgenticTurnRefused, ResumeRefused, RespondQuestion

\* A shutdown between two requests, with everything written, forgets nothing a
\* call depends on.
LEMMA StartCalls ==
  ASSUME AgreeInv, CallsInv, Idle, log = <<>>, StartServer
  PROVE  CallsInv'
<1>0. /\ TypeInv /\ drive = IdleDrive /\ NoTurn \notin Turn
      /\ snapshots \in [Turn -> Snapshot] /\ approvals \in [ApprovalId -> Approval]
      /\ disk \in Runtimes
  BY BoundsAreNat DEF AgreeInv, TypeInv, TypeOK, Shape, Files
<1>1. Replayed = disk
  BY ReplayNone DEF Replayed
<1>2. PICK X \in SUBSET Turn :
           /\ \A t \in Turn : turns'[t] = IF t \in X THEN "aborted" ELSE disk.turns[t]
           /\ snapshots' = disk.snapshots
           /\ \A a \in ApprovalId : approvals'[a] =
                IF disk.approvals[a].turn \in X /\ disk.approvals[a].outcome = "pending"
                THEN [disk.approvals[a] EXCEPT !.outcome = "cancelled"] ELSE disk.approvals[a]
           /\ \A q \in QuestionId : questions'[q] =
                IF disk.questions[q].turn \in X
                THEN [disk.questions[q] EXCEPT !.state = "resolved"] ELSE disk.questions[q]
  BY <1>0, Restarted
<1>3. /\ drive' = IdleDrive /\ refused' = refused
      /\ issued' = issued /\ ran' = ran /\ reran' = reran
  BY DEF StartServer, history
<1>4. ASSUME NEW a \in ApprovalId
      PROVE  /\ approvals'[a].turn = approvals[a].turn /\ approvals'[a].call = approvals[a].call
             /\ approvals'[a].outcome = approvals[a].outcome \/ approvals[a].outcome = "pending"
  <2>1. SameApproval(disk, a)
    BY <1>0, <1>1 DEF AgreeInv, Matches, IdleDrive
  <2>2. /\ disk.approvals[a].turn = approvals[a].turn /\ disk.approvals[a].call = approvals[a].call
        /\ \/ disk.approvals[a].outcome = approvals[a].outcome
           \/ approvals[a].outcome = "pending"
    BY <1>0, <2>1, SameTurns DEF SameApproval
  <2> DEFINE n == [disk.approvals[a] EXCEPT !.outcome = "cancelled"]
  <2>3. n.turn = disk.approvals[a].turn /\ n.call = disk.approvals[a].call
    BY <1>0, ApprovalFields DEF Runtimes
  <2>4. \/ disk.approvals[a].outcome = "pending" /\ approvals'[a] = n
        \/ approvals'[a] = disk.approvals[a]
    BY <1>2, Zenon
  <2> HIDE DEF n
  <2> QED BY <2>2, <2>3, <2>4
<1>5. KeepsAsked /\ \A a \in ApprovalId : OfTurn(a)' => OfTurn(a)
  <2>1. KeepsAsked
    BY <1>4 DEF KeepsAsked
  <2> QED BY <1>4, <2>1 DEF OfTurn
<1>6. ASSUME NEW t \in Turn PROVE Owed(t)' \subseteq Owed(t)
  <2>1. Owed(t) = snapshots[t].unanswered /\ Owed(t)' = disk.snapshots[t].unanswered
    BY <1>0, <1>2, <1>3 DEF Owed, IdleDrive
  <2>2. disk.turns[t] = turns[t]
    BY <1>0, <1>1 DEF AgreeInv, Matches, IdleDrive
  <2>3. CASE turns[t] \in Terminal
    <3>1. Sound(disk)
      <4>1. Sound(Replayed)
        BY FilesSound DEF AgreeInv
      <4> QED BY <1>1, <4>1
    <3>2. disk.snapshots[t] = NoSnapshot
      BY <2>2, <2>3, <3>1 DEF Sound
    <3> QED BY <2>1, <3>2 DEF NoSnapshot
  <2>4. CASE turns[t] \notin Terminal
    BY <1>0, <1>1, <2>1, <2>4 DEF AgreeInv, Matches, IdleDrive
  <2> QED BY <2>3, <2>4
<1>7. Owing'
  <2>1. drive'.provided = {} /\ UNCHANGED history
    BY <1>3 DEF IdleDrive, StartServer
  <2> QED BY <1>6, <2>1, OwingLess DEF CallsInv, OwesLess
<1>8. Asked'
  <2>1. CallsOf(drive'.calls) = {}
    BY <1>3 DEF IdleDrive, CallsOf
  <2> QED BY <1>3, <1>5, <2>1, AskedStays DEF CallsInv
<1>9. Cleared'
  BY <1>3 DEF Cleared, IdleDrive
<1>10. Recorded'
  BY <1>3, <1>5, RecordedStays DEF CallsInv
<1> QED BY <1>7, <1>8, <1>9, <1>10 DEF CallsInv

-----------------------------------------------------------------------------
(* No call runs twice, and no refused one runs.                            *)

LEMMA InitCalls ==
  ASSUME RecoveryInit
  PROVE  CallsCorrect
<1>1. CallsOf(<<>>) = {}
  BY DEF CallsOf
<1>2. Owing
  BY DEF RecoveryInit, Init, Owing, Owed, IdleDrive, NoSnapshot
<1>3. Asked /\ Cleared /\ Recorded
  BY <1>1 DEF RecoveryInit, Init, Asked, Cleared, Recorded, OfTurn, NoApproval, IdleDrive
<1> QED BY <1>2, <1>3 DEF CallsInv, CallsCorrect

LEMMA StepKeepsCalls ==
  ASSUME AgreeInv, PauseInv, CallsCorrect, [RecoveryNext]_recoveryVars, Direct, Unusual = {}
  PROVE  CallsCorrect'
<1> SUFFICES ASSUME crashes' = 0 PROVE CallsInv'
  BY DEF CallsCorrect
<1>1. CASE EngineStep
  <2>1. /\ Next /\ crashes = 0
        /\ refused' = refused \cup {approvals'[a].call : a \in Refusals(approvals')}
    BY <1>1 DEF EngineStep
  <2>2. CallsInv /\ LiveGoesOn /\ Steps
    BY <2>1 DEF CallsCorrect, PauseInv
  <2> QED BY <2>1, <2>2, DriveCalls, RequestCalls DEF Next
<1>2. CASE PersistNewEvents
  BY <1>2 DEF PersistNewEvents, CallsCorrect, CallsInv, Owing, Owed, Asked, Cleared, Recorded,
     OfTurn, vars, requests, history
<1>3. CASE Crash
  BY <1>3 DEF Crash, PauseInv
<1>4. CASE ShutdownAndStart
  BY <1>4, StartCalls DEF ShutdownAndStart, CallsCorrect
<1>5. CASE UNCHANGED recoveryVars
  BY <1>5 DEF recoveryVars, CallsCorrect, CallsInv, Owing, Owed, Asked, Cleared, Recorded,
     OfTurn, vars, requests, history
<1> QED BY <1>1, <1>2, <1>3, <1>4, <1>5 DEF RecoveryNext

LEMMA CallsAreSeen ==
  ASSUME CallsCorrect
  PROVE  NoCallRunsTwiceAcrossRestarts /\ RefusalOutlivesRestart
<1> SUFFICES ASSUME CallsInv PROVE reran = {} /\ refused \cap ran = {}
  BY DEF CallsCorrect, NoCallRunsTwiceAcrossRestarts, NoCallRunsTwice, RefusalOutlivesRestart
<1>1. reran = {}
  BY DEF CallsInv, Owing
<1>2. ASSUME NEW c \in refused PROVE c \notin ran
  <2>1. PICK a \in ApprovalId :
          OfTurn(a) /\ approvals[a].call = c /\ approvals[a].outcome = "denied"
    BY DEF CallsInv, Recorded
  <2> QED BY <2>1 DEF CallsInv, Asked
<1> QED BY <1>1, <1>2

\* The inductive invariant of the last two theorems, under direct providers and
\* clients that keep to the approvals they are shown.
LEMMA CallsInvariant ==
  ASSUME Direct, Unusual = {}
  PROVE  RecoverySpec => []CallsCorrect
<1>1. RecoveryInit => AgreeInv /\ PauseInv /\ CallsCorrect
  BY InitAgrees, InitPauses, InitCalls
<1>2. AgreeInv /\ [RecoveryNext]_recoveryVars => AgreeInv'
  BY StepAgrees
<1>3. AgreeInv /\ AgreeInv' /\ PauseInv /\ [RecoveryNext]_recoveryVars => PauseInv'
  BY StepPauses
<1>4. AgreeInv /\ PauseInv /\ CallsCorrect /\ [RecoveryNext]_recoveryVars => CallsCorrect'
  BY StepKeepsCalls
<1> QED BY <1>1, <1>2, <1>3, <1>4, PTL DEF RecoverySpec

\* With direct providers and clients that name only the approval a turn shows,
\* no tool runs twice for one call, whatever is paused, interrupted, shut down
\* and started again: the approval used and the answer given are not forgotten.
THEOREM CallsRunOnce ==
  ASSUME Providers = {"direct"}, Unusual = {}
  PROVE  RecoverySpec => []NoCallRunsTwiceAcrossRestarts
<1>1. CallsCorrect => NoCallRunsTwiceAcrossRestarts
  BY CallsAreSeen
<1>2. RecoverySpec => []CallsCorrect
  BY CallsInvariant DEF Direct
<1> QED BY <1>1, <1>2, PTL

\* Under the same clients, a call whose approval somebody denied never runs: not
\* after a resume, and not after a shutdown either.
THEOREM RefusedNeverRuns ==
  ASSUME Providers = {"direct"}, Unusual = {}
  PROVE  RecoverySpec => []RefusalOutlivesRestart
<1>1. CallsCorrect => RefusalOutlivesRestart
  BY CallsAreSeen
<1>2. RecoverySpec => []CallsCorrect
  BY CallsInvariant DEF Direct
<1> QED BY <1>1, <1>2, PTL
=============================================================================
