---------------------------- MODULE ShellThreads ----------------------------
(***************************************************************************)
(* What oppi-shell shows of its thread (the goal, the turn, the pause) and *)
(* what waits for it (the follow-up queue), while it changes from thread   *)
(* to thread and turns go on in all of them.                               *)
(*                                                                         *)
(* The shell knows a thread from the answers of its requests and from the  *)
(* pages of events it lists; it acts on what it shows.  The runtime is as  *)
(* much of it as the shell can tell: the log of events, the goal, and the  *)
(* turns that run or wait.  An error of a request closes the shell.        *)
(***************************************************************************)
EXTENDS Integers, Sequences, FiniteSetsExt

CONSTANTS
  LoadLimit,        \* the limit of events/list when a thread is loaded
  PollLimit,        \* the limit of events/list in the loop
  MaxContinuations, \* GOAL_CONTINUATION_CAP
  MaxThreads,       \* bound: threads
  MaxLogged,        \* bound: events, over all threads
  MaxFollowUps      \* bound: prompts that wait

ASSUME ThreadsAssumption ==
  /\ {LoadLimit, PollLimit, MaxThreads} \subseteq Nat \ {0}
  /\ {MaxContinuations, MaxLogged, MaxFollowUps} \subseteq Nat

VARIABLES
  threads,    \* the runtime's threads
  phase,      \* where the shell is
  current,    \* thread_id
  position,   \* cursor
  shownGoal,  \* status of current_goal
  shownPause, \* the thread of pending_approval or pending_question
  shownTurn,  \* the thread of active_turn_id
  followUps   \* the threads the prompts of follow_up_queue were typed in

threadsVars == <<threads, phase, current, position, shownGoal, shownPause, shownTurn, followUps>>

NoThread == 0
Goals == {"none", "active", "paused", "complete"}
Marks == {"started", "ended", "asked", "resolved"}

NewThread == [log |-> <<>>, goal |-> "none", running |-> 0, asking |-> 0, claims |-> 0]

Id == 1..Len(threads)
Log == threads[current].log
AllLogged == MapThenSumSet(LAMBDA t : Len(threads[t].log), Id)

ThreadsTypeOK ==
  /\ \A t \in Id :
       /\ threads[t].goal \in Goals
       /\ {threads[t].running, threads[t].asking, threads[t].claims} \subseteq Nat
       /\ \A i \in DOMAIN threads[t].log : threads[t].log[i] \in Goals \cup Marks
  /\ phase \in {"keys", "poll", "start", "boundary", "create", "closed"}
  /\ current \in Id
  /\ position \in 0..Len(Log)
  /\ shownGoal \in Goals
  /\ {shownPause, shownTurn} \subseteq Id \cup {NoThread}
  /\ followUps \in Seq(Id)

\* connect: a new thread, whose (empty) log is loaded.
ThreadsInit ==
  /\ threads = <<NewThread>>
  /\ phase = "keys"
  /\ current = 1
  /\ position = 0
  /\ shownGoal = "none"
  /\ shownPause = NoThread
  /\ shownTurn = NoThread
  /\ followUps = <<>>

-----------------------------------------------------------------------------
(* The runtime.  An event that sets the goal is the status it sets.        *)

Room(count) == AllLogged + count <= MaxLogged

\* A thread as it is after it has emitted an event.
Logging(thread, event) == [thread EXCEPT !.log = Append(@, event)]

PutGoal(thread, goal) == [Logging(thread, goal) EXCEPT !.goal = goal]

Update(t, thread) == threads' = [threads EXCEPT ![t] = thread]

\* A turn that runs creates or completes the goal, pauses or ends.
TurnGoes(t) ==
  LET thread == threads[t] IN
    /\ thread.running > 0
    /\ Room(1)
    /\ \/ thread.goal \in {"none", "complete"} /\ Update(t, PutGoal(thread, "active"))
       \/ thread.goal # "none" /\ Update(t, PutGoal(thread, "complete"))
       \/ Update(t, [Logging(thread, "asked") EXCEPT !.running = @ - 1, !.asking = @ + 1])
       \/ Update(t, [Logging(thread, "ended") EXCEPT !.running = @ - 1])
    /\ UNCHANGED <<phase, current, position, shownGoal, shownPause, shownTurn, followUps>>

StartedTurn(thread) == [Logging(thread, "started") EXCEPT !.running = @ + 1]

-----------------------------------------------------------------------------
(* What the shell takes from events and answers.                           *)

Latest(events, log) == log[Max(events)]

GoalEvents(page, log) == {i \in page : log[i] \in Goals}

\* apply_goal_response, and the goal events of a page
ShowGoal(page, log, before) ==
  shownGoal' = IF GoalEvents(page, log) = {} THEN before ELSE Latest(GoalEvents(page, log), log)

\* What a loaded page leaves pending: an answer or an end takes back the pause of
\* its own turn, and whose it is is not told apart here.
ShowPause(page, log) ==
  LET asks == {i \in page : log[i] = "asked"} IN
    shownPause' \in
      CASE asks = {} -> {NoThread}
        [] asks # {} /\ \A i \in page : i > Max(asks) => log[i] \notin {"resolved", "ended"} ->
             {current'}
        [] OTHER -> {NoThread, current'}

PageAfter(log, from, limit) == (from + 1)..Min({Len(log), from + limit})

\* Mutant of LoadThread: the goal of the thread before is not forgotten.
LoadThreadOverGoal(log) ==
  LET page == PageAfter(log, 0, LoadLimit) IN
    /\ position' = Max({0} \cup page)
    /\ ShowGoal(page, log, shownGoal)
    /\ ShowPause(page, log)

\* load_thread_state: no turn is shown as running.
LoadThread(log) ==
  LET page == PageAfter(log, 0, LoadLimit) IN
    /\ position' = Max({0} \cup page)
    /\ ShowGoal(page, log, "none")
    /\ ShowPause(page, log)

\* switch_to_thread
SwitchTo(t) ==
  /\ current' = t
  /\ LoadThread(threads'[t].log)
  /\ shownTurn' = NoThread
  /\ followUps' = <<>>

Occupied == shownTurn # NoThread \/ shownPause # NoThread

\* The requests below that the server refuses close the shell.
CloseShell ==
  /\ phase' = "closed"
  /\ UNCHANGED <<threads, current, position, shownGoal, shownPause, shownTurn, followUps>>

-----------------------------------------------------------------------------
(* Keys and commands.                                                      *)

PassBy ==
  /\ phase = "keys"
  /\ phase' = "poll"
  /\ UNCHANGED <<threads, current, position, shownGoal, shownPause, shownTurn, followUps>>

\* start_turn_for_role_with_system_append, of a thread that is as given
StartIn(thread) ==
  /\ Update(current, StartedTurn(thread))
  /\ shownTurn' = current

PromptThread ==
  /\ phase = "keys"
  /\ IF Occupied
     THEN /\ Len(followUps) < MaxFollowUps
          /\ followUps' = Append(followUps, current)
          /\ UNCHANGED <<threads, shownTurn>>
     ELSE /\ Room(1)
          /\ StartIn(threads[current])
          /\ UNCHANGED followUps
  /\ phase' = "poll"
  /\ UNCHANGED <<current, position, shownGoal, shownPause>>

\* restore_latest_follow_up
TakeBackFollowUp ==
  /\ phase = "keys"
  /\ followUps # <<>>
  /\ followUps' = SubSeq(followUps, 1, Len(followUps) - 1)
  /\ phase' = "poll"
  /\ UNCHANGED <<threads, current, position, shownGoal, shownPause, shownTurn>>

\* /goal, /goal clear, and /goal with a status or a new objective: what the
\* answer says is shown before its event is listed.
GoalCommand ==
  /\ phase = "keys"
  /\ Room(1)
  /\ \/ shownGoal' = threads[current].goal /\ UNCHANGED threads
     \/ /\ shownGoal' = "none"
        /\ IF threads[current].goal = "none" THEN UNCHANGED threads
           ELSE Update(current, [PutGoal(threads[current], "none") EXCEPT !.claims = 0])
     \/ /\ threads[current].goal # "none"
        /\ \E goal \in Goals \ {"none"} :
             shownGoal' = goal /\ Update(current, PutGoal(threads[current], goal))
     \/ /\ shownGoal' = "active"
        /\ Update(current, [PutGoal(threads[current], "active") EXCEPT !.claims = 0])
  /\ phase' = "poll"
  /\ UNCHANGED <<current, position, shownPause, shownTurn, followUps>>

\* /goal <objective>: the goal is asked for first, and is in the way unless it is
\* complete ...
CreateGoal ==
  /\ phase = "keys"
  /\ shownGoal' = threads[current].goal
  /\ phase' = IF shownGoal' \in {"none", "complete"} THEN "create" ELSE "poll"
  /\ UNCHANGED <<threads, current, position, shownPause, shownTurn, followUps>>

\* ... and then set, whatever a turn has made of it since.
SetCreatedGoal ==
  /\ phase = "create"
  /\ Room(1)
  /\ shownGoal' = "active"
  /\ Update(current, [PutGoal(threads[current], "active") EXCEPT !.claims = 0])
  /\ phase' = "poll"
  /\ UNCHANGED <<current, position, shownPause, shownTurn, followUps>>

\* /new, /fork, /resume and the picker of sessions, which leaves the thread it is
\* in alone.
ChangeThread ==
  /\ phase = "keys"
  /\ \/ /\ Len(threads) < MaxThreads
        /\ threads' = Append(threads, NewThread)
        /\ SwitchTo(Len(threads'))
     \/ UNCHANGED threads /\ \E t \in Id : SwitchTo(t)
  /\ phase' = "poll"

\* interrupt_active_turn; whose turn it is that runs or waits is not told apart.
InterruptThread ==
  LET thread == threads[current] IN
    /\ phase = "keys"
    /\ Occupied
    /\ Room(1)
    /\ IF thread.running + thread.asking = 0 THEN CloseShell
       ELSE /\ Update(current,
                 IF thread.running > 0 THEN [Logging(thread, "ended") EXCEPT !.running = @ - 1]
                 ELSE [Logging(thread, "ended") EXCEPT !.asking = @ - 1])
            /\ shownTurn' = NoThread
            /\ shownPause' = NoThread
            /\ phase' = "poll"
            /\ UNCHANGED <<current, position, shownGoal, followUps>>

\* resume_pending_approval and answer_pending_question
ResumePause ==
  LET thread == threads[current] IN
    /\ phase = "keys"
    /\ shownPause # NoThread
    /\ Room(1)
    /\ IF thread.asking = 0 THEN CloseShell
       ELSE /\ Update(current, [Logging(thread, "resolved") EXCEPT !.running = @ + 1, !.asking = @ - 1])
            /\ shownPause' = NoThread
            /\ phase' = "boundary"
            /\ UNCHANGED <<current, position, shownGoal, shownTurn, followUps>>

\* deny_pending_approval
DenyPause ==
  LET thread == threads[current] IN
    /\ phase = "keys"
    /\ shownPause # NoThread
    /\ Room(1)
    /\ IF thread.asking = 0 THEN CloseShell
       ELSE /\ Update(current, [Logging(thread, "ended") EXCEPT !.asking = @ - 1])
            /\ shownPause' = NoThread
            /\ phase' = "poll"
            /\ UNCHANGED <<current, position, shownGoal, shownTurn, followUps>>

-----------------------------------------------------------------------------
(* The loop.                                                               *)

\* poll_turn_events_with_output, once in the loop and until a boundary after a
\* pause was answered.
PollThread ==
  LET page == PageAfter(Log, position, PollLimit)
      edges == {i \in page : Log[i] \in {"started", "ended", "asked"}}
      outcomes == {i \in page : Log[i] \in {"ended", "asked"}}
      asks == {i \in page : Log[i] = "asked"}
  IN
    /\ phase \in {"poll", "boundary"}
    /\ position' = Max({position} \cup page)
    /\ ShowGoal(page, Log, shownGoal)
    /\ shownPause' = IF asks = {} THEN shownPause ELSE current
    /\ shownTurn' = IF edges = {} THEN shownTurn
                    ELSE IF Latest(edges, Log) = "started" THEN current ELSE NoThread
    /\ phase' \in
         IF phase = "boundary" THEN (IF outcomes = {} THEN {"boundary"} ELSE {"keys"})
         ELSE IF outcomes = {} THEN {"start"}
         ELSE IF Latest(outcomes, Log) = "ended" THEN {"start", "keys"} ELSE {"keys"}
    /\ UNCHANGED <<threads, current, followUps>>

\* start_next_queued_follow_up
StartFollowUp ==
  /\ phase = "start"
  /\ ~Occupied
  /\ followUps # <<>>
  /\ Room(1)
  /\ StartIn(threads[current])
  /\ followUps' = Tail(followUps)
  /\ phase' = "keys"
  /\ UNCHANGED <<current, position, shownGoal, shownPause>>

\* claim_goal_continuation_prompt, and the turn it is for: the claim's answer says
\* what the goal is, and the cap pauses it.
ContinueGoal ==
  LET thread == threads[current]
      claimed == [thread EXCEPT !.claims = @ + 1]
  IN
    /\ phase = "start"
    /\ ~Occupied
    /\ followUps = <<>>
    /\ shownGoal = "active"
    /\ Room(1)
    /\ CASE thread.goal # "active" ->
              shownGoal' = thread.goal /\ UNCHANGED <<threads, shownTurn>>
         [] thread.goal = "active" /\ thread.claims < MaxContinuations ->
              StartIn(claimed) /\ UNCHANGED shownGoal
         [] thread.goal = "active" /\ thread.claims >= MaxContinuations ->
              /\ Update(current, PutGoal(thread, "paused"))
              /\ shownGoal' = "paused"
              /\ UNCHANGED shownTurn
    /\ phase' = "keys"
    /\ UNCHANGED <<current, position, shownPause, followUps>>

NothingToStart ==
  /\ phase = "start"
  /\ Occupied \/ (followUps = <<>> /\ shownGoal # "active")
  /\ phase' = "keys"
  /\ UNCHANGED <<threads, current, position, shownGoal, shownPause, shownTurn, followUps>>

-----------------------------------------------------------------------------

ThreadCommand ==
  \/ PromptThread
  \/ TakeBackFollowUp
  \/ GoalCommand
  \/ CreateGoal
  \/ ChangeThread
  \/ InterruptThread
  \/ ResumePause
  \/ DenyPause

ThreadLoop ==
  \/ PassBy
  \/ SetCreatedGoal
  \/ PollThread
  \/ StartFollowUp
  \/ ContinueGoal
  \/ NothingToStart

ThreadsNext ==
  \/ ThreadCommand
  \/ ThreadLoop
  \/ \E t \in Id : TurnGoes(t)

ThreadsSpec == ThreadsInit /\ [][ThreadsNext]_threadsVars

-----------------------------------------------------------------------------
(* Properties.                                                             *)

\* A shell that has listed every event of its thread shows that thread's goal:
\* whatever order answers, pages of events, changes of thread and the tools of a
\* turn came in, the last word is the right one.
GoalShownIsTheGoal == position = Len(Log) => shownGoal = threads[current].goal
=============================================================================
