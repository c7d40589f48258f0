---------------------------- MODULE TurnRecovery ----------------------------
(***************************************************************************)
(* Crashes and restarts of oppi-server around the agentic turn engine.     *)
(*                                                                         *)
(* The runtime mirrors every event; ServerState::persist_new_events writes *)
(* the new ones to the event files after a request that succeeded, also    *)
(* while a background turn is under way.  At the next start the files are  *)
(* replayed (Runtime::replay_events) and the turns that cannot go on are   *)
(* aborted (Runtime::recover_incomplete_turns).  The files are modelled by *)
(* what a replay of them yields (variable disk), the mirror by the events  *)
(* that are not in the files yet (variable log); EventLog is about the     *)
(* files themselves.                                                       *)
(***************************************************************************)
EXTENDS AgenticTurn, SequencesExt

CONSTANTS
  MaxCrashes,    \* bound: times the process dies
  MaxRestarts    \* bound: times it is shut down and started again

ASSUME RecoveryAssumption ==
  /\ MaxCrashes \in Nat
  /\ MaxRestarts \in Nat

VARIABLES
  log,       \* events in the mirror past the persisted event id
  disk,      \* the runtime a replay of the event files gives
  torn,      \* history: writing a batch of events stopped half way once
  refused,   \* history: calls whose approval somebody denied
  crashes,   \* how often the process died
  restarts   \* how often it was shut down

recoveryVars == <<vars, log, disk, torn, refused, crashes, restarts>>

EmptyRuntime ==
  [turns         |-> [t \in Turn |-> "absent"],
   next_turn     |-> 0,
   approvals     |-> [a \in ApprovalId |-> NoApproval],
   next_approval |-> 0,
   questions     |-> [q \in QuestionId |-> NoQuestionAsked],
   next_question |-> 0,
   snapshots     |-> [t \in Turn |-> NoSnapshot]]

-----------------------------------------------------------------------------
(* Replay.                                                                 *)

Bump(counter, id) == IF id > counter THEN id ELSE counter

ClearPendingPauses(s, ended) ==
  [s EXCEPT
     !.approvals = [a \in ApprovalId |->
        IF s.approvals[a].turn \in ended /\ s.approvals[a].outcome = "pending"
        THEN [s.approvals[a] EXCEPT !.outcome = "cancelled"] ELSE s.approvals[a]],
     !.questions = [q \in QuestionId |->
        IF s.questions[q].turn \in ended
        THEN [s.questions[q] EXCEPT !.state = "resolved"] ELSE s.questions[q]]]

\* Mutant of EndTurn: only the pauses of the turn are closed.
EndTurnUnseen(s, t, status) == ClearPendingPauses(s, {t})

EndTurn(s, t, status) ==
  [ClearPendingPauses(s, {t}) EXCEPT !.turns[t] = status, !.snapshots[t] = NoSnapshot]

\* Mutant of ResolveApprovals: a resolved approval is an approved one.
ResolveAsApproved(s, ids, outcome) ==
  [s EXCEPT !.approvals = [a \in ApprovalId |->
     IF a \in ids THEN [@[a] EXCEPT !.outcome = "approved"] ELSE @[a]]]

ResolveApprovals(s, ids, outcome) ==
  [s EXCEPT !.approvals = [a \in ApprovalId |->
     IF a \in ids THEN [@[a] EXCEPT !.outcome = outcome] ELSE @[a]]]

\* Mutant of WaitFor: the request is kept, the status of its turn is not.
WaitForNothing(s, t, status) == s

WaitFor(s, t, status) ==
  IF t = NoTurn THEN s ELSE [s EXCEPT !.turns[t] = status]

TheId(ids) == CHOOSE i \in ids : TRUE

\* apply_replayed_event.  Nothing is written when a resume sets a turn going
\* again: until its next event a replay finds it waiting, transcript and all.
ApplyReplayedEvent(s, e) ==
  CASE e.kind = "TurnStarted" ->
         [s EXCEPT !.turns[e.turn] = "running", !.next_turn = Bump(@, e.turn)]
    [] e.kind = "TurnCompleted" -> EndTurn(s, e.turn, "completed")
    [] e.kind \in {"TurnAborted", "TurnInterrupted"} -> EndTurn(s, e.turn, "aborted")
    [] e.kind = "ApprovalRequested" ->
         [WaitFor(s, e.turn, "waitingForApproval") EXCEPT
            !.next_approval = Bump(@, TheId(e.ids)),
            !.approvals[TheId(e.ids)] =
               [turn |-> e.turn, call |-> e.call, outcome |-> "pending"]]
    [] e.kind = "ApprovalResolved" -> ResolveApprovals(s, e.ids, e.outcome)
    [] e.kind = "AskUserRequested" ->
         [WaitFor(s, e.turn, "waitingForUser") EXCEPT
            !.next_question = Bump(@, TheId(e.ids)),
            !.questions[TheId(e.ids)] =
               [turn |-> e.turn, call |-> e.call, state |-> "open"]]
    [] e.kind = "AskUserResolved" -> [s EXCEPT !.questions[TheId(e.ids)].state = "resolved"]
    [] e.kind = "ProviderTranscriptSnapshot" ->
         [s EXCEPT !.snapshots[e.turn] = [held |-> TRUE, unanswered |-> e.unanswered]]

ReplayEvents(s, events) == FoldLeft(ApplyReplayedEvent, s, events)

-----------------------------------------------------------------------------
(* Recovery.                                                               *)

TurnHasProviderReplaySnapshot(s, t) == s.turns[t] \in Waiting /\ s.snapshots[t].held

Recoverable(s) ==
  {t \in Turn : /\ s.turns[t] \notin Terminal \cup {"absent"}
                /\ ~TurnHasProviderReplaySnapshot(s, t)}

\* Mutant of RecoverIncompleteTurns: the pauses of every turn are cleared.
RecoverClearingAll(s) ==
  [ClearPendingPauses(s, Turn) EXCEPT
     !.turns = [t \in Turn |-> IF t \in Recoverable(s) THEN "aborted" ELSE @[t]]]

RecoverIncompleteTurns(s) ==
  [ClearPendingPauses(s, Recoverable(s)) EXCEPT
     !.turns = [t \in Turn |-> IF t \in Recoverable(s) THEN "aborted" ELSE @[t]]]

\* The turns are walked in the order of a map: any order.
AbortEvents(lost) ==
  {[i \in 1..Cardinality(lost) |-> TurnEvent("TurnAborted", order[i])] :
     order \in {f \in [1..Cardinality(lost) -> lost] : \A i, j \in DOMAIN f : f[i] = f[j] => i = j}}

-----------------------------------------------------------------------------

RecoveryInit ==
  /\ Init
  /\ log = <<>>
  /\ disk = EmptyRuntime
  /\ torn = FALSE
  /\ refused = {}
  /\ crashes = 0
  /\ restarts = 0

\* An approval that belongs to no turn answers for none.
Refusals(requested) ==
  {a \in ApprovalId : requested[a].outcome = "denied" /\ requested[a].turn # NoTurn}

EngineStep ==
  /\ Next
  /\ log' = log \o emitted'
  /\ refused' = refused \cup {approvals'[a].call : a \in Refusals(approvals')}
  /\ UNCHANGED <<disk, torn, crashes, restarts>>

\* persist_new_events runs on the thread that reads requests: between two of
\* them, or beside a background turn.  An append that fails leaves the rest of
\* the batch for the next time (the code writes all of it again: a replay goes
\* by id, and finds the second copy of an event right after the first).
PersistNewEvents ==
  /\ Idle \/ drive.background
  /\ log # <<>>
  /\ \E n \in 1..Len(log) :
       /\ disk' = ReplayEvents(disk, SubSeq(log, 1, n))
       /\ log' = SubSeq(log, n + 1, Len(log))
       /\ torn' = (torn \/ n < Len(log))
  /\ UNCHANGED <<vars, refused, crashes, restarts>>

\* ServerState::with_persistence starts the next process: what the model and
\* the tools did stays done, the rest is what the files say.  The turns it
\* aborts are announced and written like any event.
StartServer ==
  /\ LET s == RecoverIncompleteTurns(disk) IN
       /\ turns' = s.turns
       /\ next_turn' = s.next_turn
       /\ approvals' = s.approvals
       /\ next_approval' = s.next_approval
       /\ questions' = s.questions
       /\ next_question' = s.next_question
       /\ snapshots' = s.snapshots
  /\ interrupts' = {}
  /\ drive' = IdleDrive
  /\ emitted' \in AbortEvents(Recoverable(disk))
  /\ log' = emitted'
  /\ UNCHANGED <<disk, torn, history, refused>>

\* The process dies wherever it is; so it does when its standard input closes.
Crash ==
  /\ crashes < MaxCrashes
  /\ crashes' = crashes + 1
  /\ StartServer
  /\ UNCHANGED restarts

\* server/shutdown waits for the turn under way, and the server stops only if
\* everything could be written.
ShutdownAndStart ==
  /\ Idle
  /\ log = <<>>
  /\ restarts < MaxRestarts
  /\ restarts' = restarts + 1
  /\ StartServer
  /\ UNCHANGED crashes

RecoveryNext == EngineStep \/ PersistNewEvents \/ Crash \/ ShutdownAndStart

RecoverySpec == RecoveryInit /\ [][RecoveryNext]_recoveryVars

-----------------------------------------------------------------------------
(* Properties.  RunningTurnIsDriven of AgenticTurn is checked here again,  *)
(* over crashes and restarts.                                              *)

\* What a client may still act on: the status of every turn, and for the
\* waiting ones the transcript, the open questions and the open approvals.
ClientView(s) ==
  [turns |-> s.turns,
   transcripts |-> [t \in {u \in Turn : s.turns[u] \in Waiting} |-> s.snapshots[t]],
   questions |-> {q \in QuestionId : s.questions[q].state = "open"
                                     /\ s.turns[s.questions[q].turn] \in Waiting},
   approvals |-> {a \in ApprovalId : /\ s.approvals[a].outcome = "pending"
                                     /\ s.approvals[a].turn # NoTurn
                                     /\ s.turns[s.approvals[a].turn] \in Waiting}]

LiveRuntime ==
  [turns |-> turns, approvals |-> approvals, questions |-> questions, snapshots |-> snapshots]

\* When everything is written and no turn is driven, the runtime a restart
\* would build is the one there is, as far as a client can act on it: replay
\* and the live handlers agree event by event.
ReplayAgrees == Idle /\ log = <<>> => ClientView(disk) = ClientView(LiveRuntime)

\* While every batch of events is written whole, whatever crash or restart comes
\* in between, a waiting turn has what it needs to go on: its transcript and an
\* open pause.
PausedTurnSurvives == ~torn => PausedTurnCanGoOn

\* While the process has not died, no tool runs twice for one call: a shutdown
\* between two requests loses neither the approval used nor the answer given.
NoCallRunsTwiceAcrossRestarts == crashes = 0 => NoCallRunsTwice

\* A call somebody refused does not run, after such a restart either.
RefusalOutlivesRestart == crashes = 0 => refused \cap ran = {}
=============================================================================
