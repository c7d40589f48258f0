----------------------------- MODULE ServerTurns -----------------------------
(***************************************************************************)
(* The threads of oppi-server: the main loop, which answers one line of    *)
(* stdin after the other, and the background threads that drive turns.     *)
(* They share the runtime under one mutex, the mirror of its events, the   *)
(* registry of interrupts and the slot for a background thread's result.   *)
(*                                                                         *)
(* AgenticTurn models what driving a turn does; here a drive only looks    *)
(* for an interrupt, starts subagent turns and ends.  The mutex is held    *)
(* from before a turn starts until after it ends, so a background thread   *)
(* takes it and starts its turn in one step: until TurnStarted is mirrored *)
(* nobody can tell the two apart.  The deadlines of the main loop may pass *)
(* at any time.  The client has one request under way, as the pipe and     *)
(* RpcClient have it.                                                      *)
(***************************************************************************)
EXTENDS Integers, Sequences, FiniteSets

CONSTANTS
  Threads,       \* conversation threads
  MaxJobs,       \* bound: background threads ever spawned
  MaxSubagents,  \* bound: turns started by subagents
  MaxEvents,     \* bound: a turn pauses only while the mirror is shorter
  MaxPanics      \* bound: panics of the engine

ASSUME ServerAssumption ==
  /\ Threads # {}
  /\ MaxJobs \in Nat
  /\ MaxSubagents \in Nat
  /\ MaxEvents \in Nat
  /\ MaxPanics \in Nat

VARIABLES
  holder,      \* who holds the runtime mutex
  poisoned,    \* whether a panic poisoned it
  root,        \* the turn its holder drives
  checked,     \* whether the drive has looked for an interrupt since it last had to
  jobs,        \* the background threads, with what their result slots say
  turns,       \* turns of the runtime
  mirror,      \* event_mirror: the events about the beginnings and ends of turns
  interrupts,  \* turn_interrupts
  main,        \* where the main loop is
  request,     \* the request it works on
  answer,      \* the answer it is about to give
  persisted,   \* persisted_event_id
  seen,        \* history: events the client has been shown
  denied,      \* history: turns that waited when their interrupt was taken down
  overlapped   \* history: background threads asked for while a turn was under way

driveVars == <<holder, poisoned, root, checked>>
mainVars == <<main, request, answer, persisted, seen>>
history == <<denied, overlapped>>
vars == <<driveVars, jobs, turns, mirror, interrupts, mainVars, history>>

Free == -1
Main == 0
NoTurn == 0
NoJob == 0

JobId == 1..Len(jobs)
TurnId == 1..Len(turns)

TurnStatus == {"running", "waiting", "completed", "aborted"}
Ended == {"completed", "aborted"}
Turn == [thread : Threads, parent : Nat, status : TurnStatus]
Job == [thread : Threads, state : {"queued", "driving", "over", "failed"}, turn : Nat]
Event == [thread : Threads, turn : Nat, kind : {"started", "paused"} \cup Ended]
Kind == {"run", "interrupt", "resume", "steer", "register", "list", "none"}
Request == [kind : Kind, thread : Threads, turn : Nat, job : Nat, after : Nat]
Answer == [kind : Kind, ok : BOOLEAN, turn : Nat, job : Nat, upto : Nat]
NoRequest == [kind |-> "none", thread |-> CHOOSE thread \in Threads : TRUE, turn |-> NoTurn,
              job |-> NoJob, after |-> 0]
NoAnswer == [kind |-> "none", ok |-> FALSE, turn |-> NoTurn, job |-> NoJob,
             upto |-> 0]

TypeOK ==
  /\ holder \in {Free, Main} \cup JobId
  /\ poisoned \in BOOLEAN
  /\ root \in {NoTurn} \cup TurnId
  /\ checked \in BOOLEAN
  /\ jobs \in Seq(Job)
  /\ turns \in Seq(Turn)
  /\ mirror \in Seq(Event)
  /\ interrupts \subseteq TurnId
  /\ main \in {"idle", "blocked", "driving", "starting", "interrupting", "answering"}
  /\ request \in Request
  /\ answer \in Answer
  /\ persisted \in 0..Len(mirror)
  /\ seen \in 0..Len(mirror)
  /\ denied \subseteq TurnId
  /\ overlapped \subseteq JobId

Init ==
  /\ holder = Free
  /\ poisoned = FALSE
  /\ root = NoTurn
  /\ checked = FALSE
  /\ jobs = <<>>
  /\ turns = <<>>
  /\ mirror = <<>>
  /\ interrupts = {}
  /\ main = "idle"
  /\ request = NoRequest
  /\ answer = NoAnswer
  /\ persisted = 0
  /\ seen = 0
  /\ denied = {}
  /\ overlapped = {}

-----------------------------------------------------------------------------
(* What a drive does, whoever holds the mutex.                             *)

Emit(t, kind) == mirror' = Append(mirror, [thread |-> turns[t].thread, turn |-> t, kind |-> kind])

\* The turn at work: a running subagent turn of the driven one, else that one.
AtWork ==
  IF \E t \in TurnId : turns[t].parent = root /\ turns[t].status = "running"
  THEN CHOOSE t \in TurnId : turns[t].parent = root /\ turns[t].status = "running"
  ELSE root

Driving == root # NoTurn

\* The holder lets go of the mutex: a background thread is over, the main loop
\* has its answer.
Release(ok) ==
  /\ holder' = Free
  /\ root' = NoTurn
  /\ IF holder = Main
     THEN /\ main' = "answering"
          /\ answer' = [kind |-> request.kind, ok |-> ok, turn |-> root, job |-> NoJob,
                        upto |-> IF ok THEN Len(mirror') ELSE 0]
          /\ UNCHANGED jobs
     ELSE /\ jobs' = [jobs EXCEPT ![holder].state = "over"]
          /\ UNCHANGED <<main, answer>>

\* The turn at work ends or pauses; a subagent turn goes back to its parent.
EndAtWork(status) ==
  LET t == AtWork IN
    /\ turns' = [turns EXCEPT ![t].status = status]
    /\ Emit(t, IF status = "waiting" THEN "paused" ELSE status)
    /\ checked' = FALSE
    /\ IF t = root THEN Release(TRUE) ELSE UNCHANGED <<holder, root, jobs, main, answer>>

\* take_requested_interrupt, at the head of the loop and between two tools ...
TakeInterrupt ==
  /\ Driving
  /\ AtWork \in interrupts
  /\ interrupts' = interrupts \ {AtWork}
  /\ EndAtWork("aborted")
  /\ UNCHANGED <<poisoned, request, persisted, seen, history>>

\* Mutant of PassCheck: a drive does not look for an interrupt before its first step.
PassCheckBlindly ==
  /\ Driving
  /\ ~checked
  /\ checked' = TRUE
  /\ UNCHANGED <<holder, poisoned, root, jobs, turns, mirror, interrupts, mainVars, history>>

\* ... finds none.
PassCheck ==
  /\ Driving
  /\ ~checked
  /\ AtWork \notin interrupts
  /\ checked' = TRUE
  /\ UNCHANGED <<holder, poisoned, root, jobs, turns, mirror, interrupts, mainVars, history>>

Work ==
  /\ Driving
  /\ checked
  /\ \E status \in TurnStatus \ {"running"} :
       /\ status = "waiting" => Len(mirror) < MaxEvents
       /\ EndAtWork(status)
  /\ UNCHANGED <<poisoned, interrupts, request, persisted, seen, history>>

\* The agent tool starts a turn of its own in the same thread.
StartSubagentTurn ==
  /\ Driving
  /\ checked
  /\ AtWork = root
  /\ Cardinality({t \in TurnId : turns[t].parent # NoTurn}) < MaxSubagents
  /\ turns' = Append(turns, [thread |-> turns[root].thread, parent |-> root,
                             status |-> "running"])
  /\ mirror' = Append(mirror, [thread |-> turns[root].thread, turn |-> Len(turns) + 1,
                               kind |-> "started"])
  /\ checked' = FALSE
  /\ UNCHANGED <<holder, poisoned, root, jobs, interrupts, mainVars, history>>

\* A panic unwinds through the guard of the mutex.  catch_unwind makes an error
\* of it on the main loop; a background thread dies and leaves its slot empty.
Panic ==
  /\ Driving
  /\ MaxPanics > 0
  /\ ~poisoned
  /\ poisoned' = TRUE
  /\ Release(FALSE)
  /\ UNCHANGED <<checked, turns, mirror, interrupts, request, persisted, seen, history>>

\* A background thread gets the mutex and starts its turn, or finds it poisoned.
JobTakesLock(j) ==
  /\ jobs[j].state = "queued"
  /\ holder = Free
  /\ IF poisoned
     THEN /\ jobs' = [jobs EXCEPT ![j].state = "failed"]
          /\ UNCHANGED <<holder, root, checked, turns, mirror>>
     ELSE /\ holder' = j
          /\ root' = Len(turns) + 1
          /\ checked' = FALSE
          /\ jobs' = [jobs EXCEPT ![j].state = "driving", ![j].turn = Len(turns) + 1]
          /\ turns' = Append(turns, [thread |-> jobs[j].thread, parent |-> NoTurn,
                                     status |-> "running"])
          /\ mirror' = Append(mirror, [thread |-> jobs[j].thread, turn |-> Len(turns) + 1,
                                       kind |-> "started"])
  /\ UNCHANGED <<poisoned, interrupts, mainVars, history>>

-----------------------------------------------------------------------------
(* The main loop.                                                          *)

\* A turn the client knows of and has not seen the end of.
OpenToClient(t) ==
  LET shown == {i \in 1..seen : mirror[i].turn = t} IN
    shown # {} /\ \A i \in shown : mirror[i].kind \notin Ended

Receive(kind, thread, turn, job) ==
  /\ main = "idle"
  /\ request' = [kind |-> kind, thread |-> thread, turn |-> turn, job |-> job,
                 after |-> Len(mirror)]

Say(req, ok, turn, upto) ==
  /\ main' = "answering"
  /\ answer' = [kind |-> req.kind, ok |-> ok, turn |-> turn, job |-> req.job,
                upto |-> IF ok THEN upto ELSE 0]

\* Mutant of GiveAnswer: what the answer shows is persisted with the next one.
GiveAnswerFirst ==
  /\ main = "answering"
  /\ main' = "idle"
  /\ persisted' = IF answer.ok THEN seen ELSE persisted
  /\ seen' = IF answer.upto > seen THEN answer.upto ELSE seen
  /\ request' = NoRequest
  /\ answer' = NoAnswer
  /\ UNCHANGED <<driveVars, jobs, turns, mirror, interrupts, history>>

\* The end of response_for_line_with_state_action: events are written out after
\* a request that went well, then the answer is.
GiveAnswer ==
  /\ main = "answering"
  /\ main' = "idle"
  /\ persisted' = IF answer.ok THEN Len(mirror) ELSE persisted
  /\ seen' = IF answer.upto > seen THEN answer.upto ELSE seen
  /\ request' = NoRequest
  /\ answer' = NoAnswer
  /\ UNCHANGED <<driveVars, jobs, turns, mirror, interrupts, history>>

\* events/list, from the runtime or, while a turn holds it, from the mirror.
ListEvents(thread) ==
  /\ Receive("list", thread, NoTurn, NoJob)
  /\ Say(request', ~(holder = Free /\ poisoned), NoTurn, Len(mirror))
  /\ UNCHANGED <<driveVars, jobs, turns, mirror, interrupts, persisted, seen, history>>

UnderWay == Driving \/ \E j \in JobId : jobs[j].state = "queued"

\* Mutant of RunInBackground: the search for the turn begins with the first event.
RunFromTheStart(thread) ==
  /\ Len(jobs) < MaxJobs
  /\ main = "idle"
  /\ request' = [kind |-> "run", thread |-> thread, turn |-> NoTurn, job |-> Len(jobs) + 1,
                 after |-> 0]
  /\ jobs' = Append(jobs, [thread |-> thread, state |-> "queued", turn |-> NoTurn])
  /\ main' = "starting"
  /\ overlapped' = IF UnderWay THEN overlapped \cup {Len(jobs) + 1} ELSE overlapped
  /\ UNCHANGED <<driveVars, turns, mirror, interrupts, answer, persisted, seen, denied>>

\* run_agentic_background spawns a thread ...
RunInBackground(thread) ==
  /\ Len(jobs) < MaxJobs
  /\ Receive("run", thread, NoTurn, Len(jobs) + 1)
  /\ jobs' = Append(jobs, [thread |-> thread, state |-> "queued", turn |-> NoTurn])
  /\ main' = "starting"
  /\ overlapped' = IF UnderWay THEN overlapped \cup {Len(jobs) + 1} ELSE overlapped
  /\ UNCHANGED <<driveVars, turns, mirror, interrupts, answer, persisted, seen, denied>>

\* find_turn_started_after
StartsAfter(thread, after) ==
  {i \in (after + 1)..Len(mirror) : mirror[i].thread = thread /\ mirror[i].kind = "started"}

\* ... and waits for a turn to start in its thread, for an error in the slot or
\* for the deadline.
AnswerStart ==
  /\ main = "starting"
  /\ LET found == StartsAfter(request.thread, request.after) IN
       IF found # {}
       THEN LET first == CHOOSE i \in found : \A k \in found : i <= k IN
              Say(request, TRUE, mirror[first].turn, Len(mirror))
       ELSE Say(request, FALSE, NoTurn, 0)
  /\ UNCHANGED <<driveVars, jobs, turns, mirror, interrupts, request, persisted, seen, history>>

\* interrupt_turn, when nobody holds the mutex.
InterruptDirectly(t) ==
  /\ holder = Free
  /\ Receive("interrupt", turns[t].thread, t, NoJob)
  /\ IF ~poisoned /\ turns[t].status \notin Ended
     THEN /\ turns' = [turns EXCEPT ![t].status = "aborted"]
          /\ interrupts' = interrupts \ {t}
          /\ Emit(t, "aborted")
          /\ Say(request', TRUE, t, Len(mirror'))
     ELSE /\ Say(request', FALSE, NoTurn, 0)
          /\ UNCHANGED <<turns, interrupts, mirror>>
  /\ UNCHANGED <<driveVars, jobs, persisted, seen, history>>

\* request_background_interrupt, when somebody does.
RequestInterrupt(t) ==
  /\ holder # Free
  /\ Receive("interrupt", turns[t].thread, t, NoJob)
  /\ interrupts' = interrupts \cup {t}
  /\ denied' = IF turns[t].status = "waiting" THEN denied \cup {t} ELSE denied
  /\ main' = "interrupting"
  /\ UNCHANGED <<driveVars, jobs, turns, mirror, answer, persisted, seen, overlapped>>

\* Mutant of AnswerInterrupt: the wait has no deadline.
AnswerInterruptWhenHeard ==
  /\ main = "interrupting"
  /\ \E i \in (request.after + 1)..Len(mirror) :
       mirror[i].turn = request.turn /\ mirror[i].kind = "aborted"
  /\ Say(request, TRUE, request.turn, Len(mirror))
  /\ UNCHANGED <<driveVars, jobs, turns, mirror, interrupts, request, persisted, seen, history>>

\* The abort was seen or the deadline has passed: the answer is the same.
AnswerInterrupt ==
  /\ main = "interrupting"
  /\ Say(request, TRUE, request.turn, Len(mirror))
  /\ UNCHANGED <<driveVars, jobs, turns, mirror, interrupts, request, persisted, seen, history>>

\* Every other request waits for the mutex.
AskForLock(kind, t) ==
  /\ kind \in {"resume", "steer"}
  /\ Receive(kind, turns[t].thread, t, NoJob)
  /\ main' = "blocked"
  /\ UNCHANGED <<driveVars, jobs, turns, mirror, interrupts, answer, persisted, seen, history>>

\* model/register, which is about no turn, like all the requests that only need
\* the mutex.
AskToRegister(thread) ==
  /\ Receive("register", thread, NoTurn, NoJob)
  /\ main' = "blocked"
  /\ UNCHANGED <<driveVars, jobs, turns, mirror, interrupts, answer, persisted, seen, history>>

\* resume_agentic_turn drives the turn on the main loop.
Resume ==
  /\ main = "blocked"
  /\ request.kind = "resume"
  /\ holder = Free
  /\ IF ~poisoned /\ turns[request.turn].status = "waiting"
     THEN /\ holder' = Main
          /\ root' = request.turn
          /\ checked' = FALSE
          /\ turns' = [turns EXCEPT ![request.turn].status = "running"]
          /\ main' = "driving"
          /\ UNCHANGED answer
     ELSE /\ Say(request, FALSE, NoTurn, 0)
          /\ UNCHANGED <<holder, root, checked, turns>>
  /\ UNCHANGED <<poisoned, jobs, mirror, interrupts, request, persisted, seen, history>>

\* steer_turn
Steer ==
  /\ main = "blocked"
  /\ request.kind = "steer"
  /\ holder = Free
  /\ Say(request, ~poisoned /\ turns[request.turn].status \notin Ended, request.turn, Len(mirror))
  /\ UNCHANGED <<driveVars, jobs, turns, mirror, interrupts, request, persisted, seen, history>>

\* register_model: its answer shows no event of a turn.
Register ==
  /\ main = "blocked"
  /\ request.kind = "register"
  /\ holder = Free
  /\ Say(request, ~poisoned, NoTurn, 0)
  /\ UNCHANGED <<driveVars, jobs, turns, mirror, interrupts, request, persisted, seen, history>>

-----------------------------------------------------------------------------

DriveNext ==
  \/ TakeInterrupt
  \/ PassCheck
  \/ Work
  \/ StartSubagentTurn
  \/ Panic

ClientNext ==
  \/ \E thread \in Threads :
       ListEvents(thread) \/ RunInBackground(thread) \/ AskToRegister(thread)
  \/ \E t \in TurnId :
       /\ OpenToClient(t)
       /\ \/ InterruptDirectly(t)
          \/ RequestInterrupt(t)
          \/ \E kind \in {"resume", "steer"} : AskForLock(kind, t)

MainNext ==
  \/ AnswerStart
  \/ AnswerInterrupt
  \/ Resume
  \/ Steer
  \/ Register
  \/ GiveAnswer

Next ==
  \/ DriveNext
  \/ \E j \in JobId : JobTakesLock(j)
  \/ ClientNext
  \/ MainNext

Spec == Init /\ [][Next]_vars

-----------------------------------------------------------------------------
(* Properties.                                                             *)

\* What an answer shows is on file when the client gets it, though other threads
\* go on emitting between the two: an event a client has acted on survives.
SeenIsSaved == seen <= persisted

\* A waiting turn that is interrupted while another turn holds the runtime is
\* only noted down.  The note outlives the other turn: a later resume finds it
\* and the turn does not complete.
DeniedTurnNeverCompletes == \A t \in denied : turns[t].status # "completed"

\* The answer to turn/run-agentic names the turn that request started, if no
\* turn was under way when it was made.
AnswerNamesOwnTurn ==
  answer.kind = "run" /\ answer.ok /\ answer.job \notin overlapped =>
    jobs[answer.job].turn = answer.turn

\* The main loop comes back to stdin from every request, though turns hold the
\* mutex, interrupts may not be heard and the engine may panic.
EveryRequestIsAnswered == main # "idle" ~> main = "idle"
=============================================================================
