----------------------------- MODULE ThreadGoals -----------------------------
(***************************************************************************)
(* The goal of a conversation thread (oppi-core goals.rs and the goal      *)
(* handlers of Runtime): its token budget, the time it is charged, the     *)
(* automatic continuations a client claims for it, and how the beginnings  *)
(* and ends of turns act on it.                                            *)
(*                                                                         *)
(* AgenticTurn models the turns; here a turn is only driven, waiting or    *)
(* over.  Requests wait for the turn that is driven, so the goal changes   *)
(* under a driven turn only through the goal tools of the model.  Every    *)
(* goal event is taken to be on file once emitted: TurnRecovery is about   *)
(* events that are not.  Time passes in whole seconds.                     *)
(***************************************************************************)
EXTENDS Integers

CONSTANTS
  MaxTime,           \* bound: seconds that pass
  MaxTurns,          \* bound: turns ever started
  TokenMax,          \* i64::MAX, where the token counter saturates
  Budgets,           \* token budgets in use
  TokenDeltas,       \* tokens a model step may report
  MaxContinuations,  \* the cap clients send with a claim (GOAL_CONTINUATION_CAP)
  MaxClaims,         \* bound: claims of one process
  Unusual            \* requests no client of this repository makes

ASSUME GoalsAssumption ==
  /\ MaxTime \in Nat
  /\ MaxTurns \in Nat
  /\ TokenMax \in Nat \ {0}
  /\ Budgets \subseteq 1..TokenMax
  /\ TokenDeltas \subseteq 0..TokenMax
  /\ MaxContinuations \in Nat
  /\ MaxClaims \in Nat
  /\ Unusual \subseteq {"hostTurn"}

VARIABLES
  goal,           \* goals[thread]
  timer,          \* goal_active_started_at_ms[thread]
  continuations,  \* goal_continuations[thread]; 0 when there is no entry
  driven,         \* whether a turn of the thread is driven
  waiting,        \* how many turns of the thread wait
  started,        \* turns started so far
  now,            \* the clock
  saved,          \* what a replay of the event files makes of goal and timer
  prompts,        \* history: prompts handed out since the objective was set
  failed,         \* history: abort_ or interrupt_agentic_turn ended the last turn
                  \* and nobody acted since
  charged         \* history: seconds charged to any goal of the thread

turnVars == <<driven, waiting, started>>
vars == <<goal, timer, continuations, turnVars, now, saved, prompts, failed, charged>>

NoTimer == -1
NoBudget == 0
NoGoal == [status |-> "none", budget |-> NoBudget, used |-> 0, time |-> 0,
           created |-> 0, updated |-> 0]

GoalStatus == {"active", "paused", "budgetLimited", "complete"}
Goal == [status : GoalStatus \cup {"none"}, budget : Budgets \cup {NoBudget},
         used : 0..TokenMax, time : Nat, created : Nat, updated : Nat]
Timer == Nat \cup {NoTimer}

TypeOK ==
  /\ goal \in Goal
  /\ timer \in Timer
  /\ continuations \in Nat
  /\ driven \in BOOLEAN
  /\ waiting \in Nat
  /\ started \in Nat
  /\ now \in Nat
  /\ saved \in [goal : Goal, timer : Timer]
  /\ prompts \in Nat
  /\ failed \in BOOLEAN
  /\ charged \in Nat

Init ==
  /\ goal = NoGoal
  /\ timer = NoTimer
  /\ continuations = 0
  /\ driven = FALSE
  /\ waiting = 0
  /\ started = 0
  /\ now = 0
  /\ saved = [goal |-> NoGoal, timer |-> NoTimer]
  /\ prompts = 0
  /\ failed = FALSE
  /\ charged = 0

-----------------------------------------------------------------------------
(* goals.rs.                                                               *)

Exhausted(g) == g.budget # NoBudget /\ g.used >= g.budget

StatusAfterBudget(g) ==
  IF g.status = "active" /\ Exhausted(g) THEN "budgetLimited" ELSE g.status

WithinBudget(g) == [g EXCEPT !.status = StatusAfterBudget(g)]

\* The token counter saturates.
SaturatingAdd(used, delta) ==
  IF used + delta > TokenMax THEN TokenMax ELSE used + delta

Charge(g, tokens, seconds) ==
  WithinBudget([g EXCEPT !.used = SaturatingAdd(@, tokens), !.time = @ + seconds,
                         !.updated = now])

-----------------------------------------------------------------------------
(* Events and the timer.                                                   *)

\* ThreadGoalUpdated or ThreadGoalCleared, and what its replay will do: an
\* active goal is timed from its last update on.
Publish(g) ==
  /\ goal' = g
  /\ saved' = [goal |-> g, timer |-> IF g.status = "active" THEN g.updated ELSE NoTimer]

\* goal_active_started_at_ms.entry(..).or_insert(now)
StartedTimer == IF timer = NoTimer THEN now ELSE timer

\* begin_goal_turn_accounting
BeginGoalTurnAccounting == timer' = IF goal.status = "active" THEN StartedTimer ELSE timer

Accounted(g) == g.status \in {"active", "budgetLimited"}

ElapsedSeconds == IF timer = NoTimer THEN 0 ELSE now - timer

\* The goal once the seconds since the timer started are charged to it.
Settled == IF ElapsedSeconds > 0 /\ Accounted(goal)
           THEN Charge(goal, 0, ElapsedSeconds) ELSE goal

PausedIfActive(g) ==
  IF g.status = "active" THEN [g EXCEPT !.status = "paused", !.updated = now] ELSE g

\* Mutant of FinishGoalTurnAccounting: the timer keeps running.
FinishWithoutReset(pauseActive) ==
  /\ timer' = timer
  /\ charged' = charged + (Settled.time - goal.time)
  /\ LET g == IF pauseActive THEN PausedIfActive(Settled) ELSE Settled IN
       IF g = goal THEN UNCHANGED <<goal, saved>> ELSE Publish(g)

\* Mutant of FinishGoalTurnAccounting: a failed turn is like any other.
FinishWithoutPause(pauseActive) ==
  /\ timer' = NoTimer
  /\ charged' = charged + (Settled.time - goal.time)
  /\ IF Settled = goal THEN UNCHANGED <<goal, saved>> ELSE Publish(Settled)

\* Mutant of FinishGoalTurnAccounting: the pause is not announced.
FinishPausingSilently(pauseActive) ==
  /\ timer' = NoTimer
  /\ charged' = charged + (Settled.time - goal.time)
  /\ goal' = IF pauseActive THEN PausedIfActive(Settled) ELSE Settled
  /\ saved' = IF Settled = goal THEN saved
              ELSE [goal |-> Settled,
                    timer |-> IF Settled.status = "active" THEN Settled.updated ELSE NoTimer]

FinishGoalTurnAccounting(pauseActive) ==
  /\ timer' = NoTimer
  /\ charged' = charged + (Settled.time - goal.time)
  /\ LET g == IF pauseActive THEN PausedIfActive(Settled) ELSE Settled IN
       IF g = goal THEN UNCHANGED <<goal, saved>> ELSE Publish(g)

-----------------------------------------------------------------------------
(* Requests about the goal.                                                *)

\* The end of set_thread_goal, for a new and for a changed goal.
PutGoal(g) ==
  /\ Publish(WithinBudget(g))
  /\ timer' = IF WithinBudget(g).status = "active" THEN StartedTimer ELSE NoTimer

\* set_thread_goal with an objective: a new goal, and the continuations start
\* anew.  A timer that runs for the goal it replaces is kept.
SetObjective(status, budget) ==
  /\ PutGoal([status |-> status, budget |-> budget, used |-> 0, time |-> 0,
              created |-> now, updated |-> now])
  /\ continuations' = 0
  /\ prompts' = 0

\* Mutant of ChangeGoal: any change starts the continuations anew.
ChangeGoalAfresh(status, budget) ==
  /\ goal.status # "none"
  /\ PutGoal([goal EXCEPT !.status = status, !.budget = budget, !.updated = now])
  /\ continuations' = 0
  /\ UNCHANGED prompts

\* set_thread_goal without one: the goal there is, with another status or budget.
ChangeGoal(status, budget) ==
  /\ goal.status # "none"
  /\ PutGoal([goal EXCEPT !.status = status, !.budget = budget, !.updated = now])
  /\ UNCHANGED <<continuations, prompts>>

SetThreadGoal ==
  /\ ~driven
  /\ \E status \in GoalStatus, budget \in Budgets \cup {NoBudget} :
       SetObjective(status, budget) \/ ChangeGoal(status, budget)
  /\ failed' = FALSE
  /\ UNCHANGED <<turnVars, now, charged>>

ClearThreadGoal ==
  /\ ~driven
  /\ goal.status # "none"
  /\ Publish(NoGoal)
  /\ timer' = NoTimer
  /\ continuations' = 0
  /\ prompts' = 0
  /\ UNCHANGED <<turnVars, now, failed, charged>>

\* next_thread_goal_continuation hands out a prompt ...
ClaimContinuation ==
  /\ ~driven
  /\ goal.status = "active"
  /\ continuations < MaxContinuations
  /\ continuations' = continuations + 1
  /\ prompts' = prompts + 1
  /\ UNCHANGED <<goal, timer, turnVars, now, saved, failed, charged>>

\* ... until the cap is reached, which pauses the goal.
CapContinuations ==
  /\ ~driven
  /\ goal.status = "active"
  /\ continuations \in MaxContinuations..(MaxClaims - 1)
  /\ continuations' = continuations + 1
  /\ Publish([goal EXCEPT !.status = "paused", !.updated = now])
  /\ timer' = NoTimer
  /\ UNCHANGED <<turnVars, now, prompts, failed, charged>>

-----------------------------------------------------------------------------
(* Turns.                                                                  *)

\* run_agentic_turn does not start the timer ...
RunTurn ==
  /\ ~driven
  /\ started < MaxTurns
  /\ started' = started + 1
  /\ driven' = TRUE
  /\ failed' = FALSE
  /\ UNCHANGED <<goal, timer, continuations, waiting, now, saved, prompts, charged>>

\* ... resume_agentic_turn does, ...
ResumeTurn ==
  /\ ~driven
  /\ waiting > 0
  /\ waiting' = waiting - 1
  /\ driven' = TRUE
  /\ failed' = FALSE
  /\ BeginGoalTurnAccounting
  /\ UNCHANGED <<goal, continuations, started, now, saved, prompts, charged>>

\* ... and it does so before it finds that the turn is over or the answer wrong.
RefuseResume ==
  /\ ~driven
  /\ started > 0
  /\ BeginGoalTurnAccounting
  /\ UNCHANGED <<goal, continuations, turnVars, now, saved, prompts, failed, charged>>

\* start_turn, for turns a host drives: nothing stops the timer again.
StartHostTurn ==
  /\ "hostTurn" \in Unusual
  /\ ~driven
  /\ started < MaxTurns
  /\ started' = started + 1
  /\ BeginGoalTurnAccounting
  /\ UNCHANGED <<goal, continuations, driven, waiting, now, saved, prompts, failed, charged>>

\* The model answers and its tokens are charged.
ModelStep ==
  /\ driven
  /\ \E tokens \in TokenDeltas \ {0} :
       IF Accounted(goal) THEN Publish(Charge(goal, tokens, 0)) ELSE UNCHANGED <<goal, saved>>
  /\ UNCHANGED <<timer, continuations, turnVars, now, prompts, failed, charged>>

\* The create_goal tool.
CreateGoalFromTool ==
  /\ driven
  /\ goal.status \in {"none", "complete"}
  /\ \E budget \in Budgets \cup {NoBudget} : SetObjective("active", budget)
  /\ UNCHANGED <<turnVars, now, failed, charged>>

\* The update_goal tool, which can only complete the goal.
UpdateGoalFromTool ==
  /\ driven
  /\ ChangeGoal("complete", goal.budget)
  /\ UNCHANGED <<turnVars, now, failed, charged>>

CompleteTurn ==
  /\ driven
  /\ driven' = FALSE
  /\ FinishGoalTurnAccounting(FALSE)
  /\ UNCHANGED <<continuations, waiting, started, now, prompts, failed>>

PauseTurn ==
  /\ driven
  /\ driven' = FALSE
  /\ waiting' = waiting + 1
  /\ FinishGoalTurnAccounting(FALSE)
  /\ UNCHANGED <<continuations, started, now, prompts, failed>>

\* abort_agentic_turn and interrupt_agentic_turn
FailTurn ==
  /\ driven
  /\ driven' = FALSE
  /\ failed' = TRUE
  /\ FinishGoalTurnAccounting(TRUE)
  /\ UNCHANGED <<continuations, waiting, started, now, prompts>>

\* The continuation guard of drive_agentic_turn ends a turn that has taken too
\* many model steps as aborted, and the goal is not told: it stays as it is, and
\* so does the timer.
GuardEndsTurn ==
  /\ driven
  /\ driven' = FALSE
  /\ UNCHANGED <<goal, timer, continuations, waiting, started, now, saved, prompts, failed,
                 charged>>

\* turn/interrupt for a turn that waits: the goal is not told.
InterruptWaitingTurn ==
  /\ ~driven
  /\ waiting > 0
  /\ waiting' = waiting - 1
  /\ UNCHANGED <<goal, timer, continuations, driven, started, now, saved, prompts, failed,
                 charged>>

\* The server stops, however, and starts again: recovery keeps or aborts the
\* waiting turns, and the continuations are not on file.
Restart ==
  /\ goal' = saved.goal
  /\ timer' = saved.timer
  /\ continuations' = 0
  /\ prompts' = 0
  /\ driven' = FALSE
  /\ waiting' \in 0..waiting
  /\ UNCHANGED <<started, now, saved, failed, charged>>

Tick ==
  /\ now < MaxTime
  /\ now' = now + 1
  /\ UNCHANGED <<goal, timer, continuations, turnVars, saved, prompts, failed, charged>>

Next ==
  \/ SetThreadGoal
  \/ ClearThreadGoal
  \/ ClaimContinuation
  \/ CapContinuations
  \/ RunTurn
  \/ ResumeTurn
  \/ RefuseResume
  \/ StartHostTurn
  \/ ModelStep
  \/ CreateGoalFromTool
  \/ UpdateGoalFromTool
  \/ CompleteTurn
  \/ PauseTurn
  \/ FailTurn
  \/ GuardEndsTurn
  \/ InterruptWaitingTurn
  \/ Restart
  \/ Tick

Spec == Init /\ [][Next]_vars

-----------------------------------------------------------------------------
(* Properties.                                                             *)

\* A goal that is out of tokens is not active, whatever order budget changes,
\* reactivations, charges and restarts come in: a client that continues active
\* goals never starts another turn on an empty budget.
ActiveGoalHasBudget == goal.status = "active" => ~Exhausted(goal)

\* However often a goal is paused and set active again, one process hands out
\* no more prompts for one objective than the cap allows.
PromptsAreCapped == prompts <= MaxContinuations

\* After a turn that an error or a cancellation aborted or that was interrupted
\* while it ran, no prompt is handed out until the user sets the goal or starts a
\* turn: a failing provider is not asked again and again.  The one end this does
\* not cover is the continuation guard's (GuardEndsTurn), after which the goal is
\* active as before and only PromptsAreCapped bounds what is handed out.
NoPromptAfterFailure == [][prompts' > prompts => ~failed]_vars

\* No second is charged twice, over pauses, replaced goals and restarts.
NoSecondChargedTwice == charged <= now

\* The goal a restart finds on file is the goal there is: every handler that
\* changes it, the end of a turn too, has said so in an event.
GoalIsOnFile == saved.goal = goal
=============================================================================
