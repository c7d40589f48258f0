---------------------------- MODULE ShellSession ----------------------------
(***************************************************************************)
(* The event loop of oppi-shell's terminal interfaces over ServerTurns: it *)
(* takes a key, polls the events of its thread and starts the next queued  *)
(* prompt.  The shell knows the server only from answers and events, and   *)
(* what it knows lags behind.                                              *)
(*                                                                         *)
(* Every call waits for its answer; an error of any call but model/register*)
(* leaves the loop and closes the shell.  Approvals and questions fill one *)
(* slot here.  The provider is one over HTTP: the mock, which has no model *)
(* to register and starts no subagents, is left out, and so are the        *)
(* continuations of a goal (ThreadGoals), commands that only look and the  *)
(* change to another thread.                                               *)
(***************************************************************************)
EXTENDS ServerTurns

CONSTANT MaxPrompts  \* bound: prompts the user types

ASSUME ShellAssumption == MaxPrompts \in Nat

VARIABLES
  at,       \* where the loop is
  calling,  \* what the call under way is for
  active,   \* active_turn_id
  pending,  \* the turn of pending_approval or pending_question
  cursor,   \* events processed
  queue,    \* length of follow_up_queue
  typed     \* prompts typed so far

shellVars == <<at, calling, active, pending, cursor, queue, typed>>
allVars == <<vars, shellVars>>

Thread == CHOOSE thread \in Threads : TRUE

Start == {"prompt", "followUp"}

ShellTypeOK ==
  /\ TypeOK
  /\ at \in {"keys", "poll", "start", "run", "boundary", "call", "closed"}
  /\ calling \in Start \cup {"none", "poll", "boundary", "interrupt", "deny", "resume", "steer"}
  /\ active \in {NoTurn} \cup TurnId
  /\ pending \in {NoTurn} \cup TurnId
  /\ cursor \in 0..Len(mirror)
  /\ queue \in 0..MaxPrompts
  /\ typed \in 0..MaxPrompts

ShellInit ==
  /\ Init
  /\ at = "keys"
  /\ calling = "none"
  /\ active = NoTurn
  /\ pending = NoTurn
  /\ cursor = 0
  /\ queue = 0
  /\ typed = 0

-----------------------------------------------------------------------------
(* Keys.                                                                   *)

Busy == active # NoTurn \/ pending # NoTurn

\* mutable_turn_id
MutableTurn == IF active # NoTurn THEN active ELSE pending

Call(what) == at' = "call" /\ calling' = what

Interrupt(t) == InterruptDirectly(t) \/ RequestInterrupt(t)

NoKey ==
  /\ at = "keys"
  /\ at' = "poll"
  /\ UNCHANGED <<vars, calling, active, pending, cursor, queue, typed>>

\* Enter queues the prompt ...
QueuePrompt ==
  /\ at = "keys"
  /\ typed < MaxPrompts
  /\ Busy
  /\ typed' = typed + 1
  /\ queue' = queue + 1
  /\ at' = "poll"
  /\ UNCHANGED <<vars, calling, active, pending, cursor>>

\* restore_latest_follow_up: back into the editor.
RestoreLatest ==
  /\ at = "keys"
  /\ queue > 0
  /\ queue' = queue - 1
  /\ typed' = typed - 1
  /\ at' = "poll"
  /\ UNCHANGED <<vars, calling, active, pending, cursor>>

\* ... or starts a turn with it, and first names the model of its role to the
\* server.
SubmitPrompt ==
  /\ at = "keys"
  /\ typed < MaxPrompts
  /\ ~Busy
  /\ typed' = typed + 1
  /\ AskToRegister(Thread)
  /\ Call("prompt")
  /\ UNCHANGED <<active, pending, cursor, queue>>

InterruptActiveTurn ==
  /\ at = "keys"
  /\ MutableTurn # NoTurn
  /\ Interrupt(MutableTurn)
  /\ Call("interrupt")
  /\ UNCHANGED <<active, pending, cursor, queue, typed>>

SteerActiveTurn ==
  /\ at = "keys"
  /\ MutableTurn # NoTurn
  /\ AskForLock("steer", MutableTurn)
  /\ Call("steer")
  /\ UNCHANGED <<active, pending, cursor, queue, typed>>

\* /approve, and /answer alike: the pause is taken before the call is made.
ResumePending ==
  /\ at = "keys"
  /\ pending # NoTurn
  /\ AskForLock("resume", pending)
  /\ pending' = NoTurn
  /\ Call("resume")
  /\ UNCHANGED <<active, cursor, queue, typed>>

DenyPending ==
  /\ at = "keys"
  /\ pending # NoTurn
  /\ Interrupt(pending)
  /\ pending' = NoTurn
  /\ Call("deny")
  /\ UNCHANGED <<active, cursor, queue, typed>>

-----------------------------------------------------------------------------
(* The rest of the loop.                                                   *)

\* events/list, once in the loop and until a boundary after a resume.
PollEvents ==
  /\ at \in {"poll", "boundary"}
  /\ ListEvents(Thread)
  /\ Call(IF at = "poll" THEN "poll" ELSE "boundary")
  /\ UNCHANGED <<active, pending, cursor, queue, typed>>

StartNextQueued ==
  /\ at = "start"
  /\ IF Busy \/ queue = 0
     THEN /\ at' = "keys"
          /\ UNCHANGED <<vars, calling, queue>>
     ELSE /\ queue' = queue - 1
          /\ AskToRegister(Thread)
          /\ Call("followUp")
  /\ UNCHANGED <<active, pending, cursor, typed>>

\* The end of start_turn_for_role_with_system_append: turn/run-agentic.
RunPrompt ==
  /\ at = "run"
  /\ RunInBackground(Thread)
  /\ at' = "call"
  /\ UNCHANGED <<calling, active, pending, cursor, queue, typed>>

LastOf(events) == CHOOSE i \in events : \A k \in events : k <= i

\* Mutant of Digest: an aborted turn leaves active_turn_id alone.
DigestWithoutAborts(upto) ==
  LET listed == (cursor + 1)..upto
      pauses == {i \in listed : mirror[i].kind = "paused"}
      telling == {i \in listed : mirror[i].kind # "aborted"}
  IN
    /\ cursor' = IF upto > cursor THEN upto ELSE cursor
    /\ pending' = IF pauses = {} THEN pending ELSE mirror[LastOf(pauses)].turn
    /\ active' = IF telling = {} THEN active
                 ELSE IF mirror[LastOf(telling)].kind = "started"
                 THEN mirror[LastOf(telling)].turn ELSE NoTurn

\* poll_turn_events_with_output: the last beginning, end or pause decides what
\* is active, whosever it is; a pause is remembered until it is answered.
Digest(upto) ==
  LET listed == (cursor + 1)..upto
      pauses == {i \in listed : mirror[i].kind = "paused"}
  IN
    /\ cursor' = IF upto > cursor THEN upto ELSE cursor
    /\ pending' = IF pauses = {} THEN pending ELSE mirror[LastOf(pauses)].turn
    /\ active' = IF listed = {} THEN active
                 ELSE IF mirror[LastOf(listed)].kind = "started"
                 THEN mirror[LastOf(listed)].turn ELSE NoTurn

\* The outcome poll_turn_events returns.
Outcome(upto) ==
  LET boundaries == {i \in (cursor + 1)..upto : mirror[i].kind # "started"} IN
    IF boundaries = {} THEN "none" ELSE mirror[LastOf(boundaries)].kind

\* What the loop does with the answer of its call.
HandleAnswer ==
  \* Whether the model was registered does not matter.
  \/ /\ answer.kind = "register"
     /\ at' = "run"
     /\ UNCHANGED <<calling, active, pending, cursor>>
  \/ /\ answer.kind # "register"
     /\ ~answer.ok
     /\ at' = "closed"
     /\ UNCHANGED <<calling, active, pending, cursor>>
  \/ /\ answer.ok
     /\ answer.kind = "run"
     /\ active' = answer.turn
     /\ at' = IF calling = "prompt" THEN "poll" ELSE "keys"
     /\ calling' = "none"
     /\ UNCHANGED <<pending, cursor>>
  \/ /\ answer.ok
     /\ calling = "interrupt"
     /\ active' = NoTurn
     /\ pending' = NoTurn
     /\ at' = "poll"
     /\ calling' = "none"
     /\ UNCHANGED cursor
  \/ /\ answer.ok
     /\ calling \in {"deny", "steer", "resume"}
     /\ at' = IF calling = "resume" THEN "boundary" ELSE "poll"
     /\ calling' = "none"
     /\ UNCHANGED <<active, pending, cursor>>
  \/ /\ answer.ok
     /\ calling = "poll"
     /\ Digest(answer.upto)
     /\ at' = IF \/ Outcome(answer.upto) = "completed"
                 \/ /\ Outcome(answer.upto) = "none"
                    /\ active' = NoTurn
                    /\ pending' = NoTurn
              THEN "start" ELSE "keys"
     /\ calling' = "none"
  \/ /\ answer.ok
     /\ calling = "boundary"
     /\ Digest(answer.upto)
     /\ at' = IF Outcome(answer.upto) = "none" THEN "boundary" ELSE "poll"
     /\ calling' = "none"

TakeAnswer ==
  /\ at = "call"
  /\ GiveAnswer
  /\ HandleAnswer
  /\ UNCHANGED <<queue, typed>>

-----------------------------------------------------------------------------

KeyNext ==
  \/ QueuePrompt
  \/ RestoreLatest
  \/ SubmitPrompt
  \/ InterruptActiveTurn
  \/ SteerActiveTurn
  \/ ResumePending
  \/ DenyPending

LoopNext ==
  \/ NoKey
  \/ PollEvents
  \/ StartNextQueued
  \/ RunPrompt
  \/ TakeAnswer

ServerNext ==
  /\ \/ DriveNext
     \/ \E j \in JobId : JobTakesLock(j)
     \/ AnswerStart
     \/ AnswerInterrupt
     \/ Resume
     \/ Steer
     \/ Register
  /\ UNCHANGED shellVars

ShellNext == KeyNext \/ LoopNext \/ ServerNext

ShellSpec == ShellInit /\ [][ShellNext]_allVars

\* The operating system runs every thread and the loop goes round, a drive comes
\* to an end (AgenticTurn bounds it, its tools and model requests have deadlines
\* of their own) and the deadlines of the main loop pass.
ShellFairness ==
  /\ WF_allVars(LoopNext)
  /\ WF_allVars((TakeInterrupt \/ PassCheck \/ Work) /\ UNCHANGED shellVars)
  /\ WF_allVars((AnswerStart \/ AnswerInterrupt \/ Resume \/ Steer \/ Register)
                 /\ UNCHANGED shellVars)
  /\ \A j \in 1..MaxJobs : WF_allVars(j \in JobId /\ JobTakesLock(j) /\ UNCHANGED shellVars)

FairShellSpec == ShellSpec /\ ShellFairness

-----------------------------------------------------------------------------
(* Properties.                                                             *)

UpToDate == at \notin {"call", "closed"} /\ cursor = Len(mirror)

\* A shell that has processed every event and still shows a running turn is
\* right: no interleaving of answers, polls, interrupts and subagent turns
\* leaves it waiting for a turn that is over.
ActiveTurnIsAlive ==
  UpToDate /\ active # NoTurn => turns[active].status = "running"

\* A queued prompt is run, unless the shell closes or waits for the user's word
\* on a pause.
QueuedPromptsRun == queue > 0 ~> queue = 0 \/ pending # NoTurn \/ at = "closed"

\* The shell begins to send a prompt only when no turn is driven that nobody
\* interrupted: what is typed while the agent works is queued.  Its first call is
\* model/register, which waits for the turn and the shell's loop with it.
PromptsWaitForTheTurn ==
  [][request.kind # "register" /\ request'.kind = "register" /\ Driving
       => root \in interrupts]_allVars
=============================================================================
