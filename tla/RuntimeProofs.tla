---------------------------- MODULE RuntimeProofs ----------------------------
(***************************************************************************)
(* Proofs about the runtime: goals, for every budget, clock and number of  *)
(* turns, and the requests of a host, for every number of threads, turns,  *)
(* tools, ids and crashes.                                                 *)
(*                                                                         *)
(* The inductive invariant GoalInv adds to the properties what they rest   *)
(* on: the file agrees with the runtime, a timer never reaches back before *)
(* the last second charged (neither the live one nor the one a replay will *)
(* build), and prompts are counted by the continuations.                   *)
(*                                                                         *)
(* HostInv says what a replay of the files and of the events not written   *)
(* yet finds: a runtime that agrees with the one in memory but for what an *)
(* end has cancelled and what waits, and in both the user has granted what *)
(* is approved.  Tells(r, q, e) is that one event e says what was done     *)
(* when r became q, Follows the same of the events of a request; each      *)
(* handler is a lemma of one of them.                                      *)
(***************************************************************************)
EXTENDS ThreadGoals, HostRequests, FiniteSetTheorems, SequenceTheorems, TLAPS

\* A timer starts after everything that has been charged.
Fair(t) == t # NoTimer => charged <= t /\ t <= now

Clocks ==
  /\ charged <= now
  /\ Fair(timer)
  /\ Fair(saved.timer)

Claims ==
  /\ prompts <= continuations
  /\ prompts <= MaxContinuations

Failures == failed => ~driven /\ goal.status # "active"

GoalInv ==
  /\ TypeOK
  /\ ActiveGoalHasBudget
  /\ GoalIsOnFile
  /\ Clocks
  /\ Claims
  /\ Failures

-----------------------------------------------------------------------------
(* The helpers.                                                            *)

LEMMA BoundsAreNat ==
  /\ MaxTime \in Nat
  /\ MaxTurns \in Nat
  /\ TokenMax \in Nat \ {0}
  /\ Budgets \subseteq 1..TokenMax
  /\ TokenDeltas \subseteq 0..TokenMax
  /\ MaxContinuations \in Nat
  /\ MaxClaims \in Nat
BY GoalsAssumption

\* The one test of the budget: what leaves it is a goal, and not an exhausted
\* active one; nothing but the status changes.
LEMMA WithinBudgetFacts ==
  ASSUME NEW g \in Goal
  PROVE  /\ WithinBudget(g) \in Goal
         /\ WithinBudget(g).status = "active" => ~Exhausted(WithinBudget(g))
         /\ WithinBudget(g).time = g.time
         /\ WithinBudget(g).updated = g.updated
BY BoundsAreNat DEF WithinBudget, StatusAfterBudget, Exhausted, Goal, GoalStatus, NoBudget

LEMMA NoGoalIsGoal == NoGoal \in Goal
BY BoundsAreNat DEF NoGoal, Goal, NoBudget

\* A charge is within the budget or ends the goal's activity, and adds exactly
\* its seconds.
LEMMA ChargeFacts ==
  ASSUME NEW g \in Goal, NEW tokens \in Nat, NEW seconds \in Nat, now \in Nat
  PROVE  /\ Charge(g, tokens, seconds) \in Goal
         /\ Charge(g, tokens, seconds).status = "active" =>
              ~Exhausted(Charge(g, tokens, seconds))
         /\ Charge(g, tokens, seconds).time = g.time + seconds
         /\ Charge(g, tokens, seconds).updated = now
<1> DEFINE h == [g EXCEPT !.used = SaturatingAdd(@, tokens), !.time = @ + seconds,
                          !.updated = now]
<1>1. SaturatingAdd(g.used, tokens) \in 0..TokenMax
  BY BoundsAreNat DEF SaturatingAdd, Goal
<1>2. g.time + seconds \in Nat
  BY DEF Goal
<1>3. /\ h = [g EXCEPT !.used = SaturatingAdd(g.used, tokens), !.time = g.time + seconds,
                     !.updated = now]
      /\ h.time = g.time + seconds
      /\ h.updated = now
  BY DEF Goal
<1>4. h \in Goal
  BY <1>1, <1>2, <1>3 DEF Goal
<1>5. Charge(g, tokens, seconds) = WithinBudget(h)
  BY DEF Charge
<1> HIDE DEF h
<1>6. QED
  BY <1>3, <1>4, <1>5, WithinBudgetFacts

LEMMA PausedFacts ==
  ASSUME NEW g \in Goal, now \in Nat, g.status = "active" => ~Exhausted(g)
  PROVE  /\ PausedIfActive(g) \in Goal
         /\ PausedIfActive(g).status # "active"
         /\ PausedIfActive(g).time = g.time
BY DEF PausedIfActive, Goal, GoalStatus

\* Whatever a handler publishes is on file, and a replay times it from now on.
LEMMA PublishFacts ==
  ASSUME TypeOK, Clocks, NEW g \in Goal, Publish(g),
         g.status = "active" => g.updated = now
  PROVE  /\ goal' = g
         /\ saved' \in [goal : Goal, timer : Timer]
         /\ saved'.goal = g
         /\ saved'.timer # NoTimer => saved'.timer = now
BY DEF Publish, TypeOK, Timer, NoTimer

\* The end of a turn: the timer stops, the elapsed seconds are charged once,
\* and the goal and its file stay in step.
LEMMA FinishFacts ==
  ASSUME GoalInv, NEW pause \in BOOLEAN, FinishGoalTurnAccounting(pause)
  PROVE  /\ goal' \in Goal
         /\ goal'.status = "active" => ~Exhausted(goal')
         /\ pause => goal'.status # "active"
         /\ timer' = NoTimer
         /\ charged' \in Nat
         /\ charged' <= now
         /\ saved' \in [goal : Goal, timer : Timer]
         /\ saved'.goal = goal'
         /\ saved'.timer # NoTimer => charged' <= saved'.timer /\ saved'.timer <= now
<1> USE BoundsAreNat
<1> DEFINE g == IF pause THEN PausedIfActive(Settled) ELSE Settled
<1>1. ElapsedSeconds \in Nat /\ charged + ElapsedSeconds <= now
  BY DEF ElapsedSeconds, GoalInv, TypeOK, Clocks, Fair, Timer, NoTimer
<1>2. /\ Settled \in Goal
      /\ Settled.status = "active" => ~Exhausted(Settled)
      /\ Settled # goal => Settled.updated = now
      /\ Settled = goal \/ Settled.time = goal.time + ElapsedSeconds
  BY <1>1, ChargeFacts DEF Settled, GoalInv, TypeOK, ActiveGoalHasBudget
<1>3. /\ g \in Goal
      /\ g.status = "active" => ~Exhausted(g)
      /\ pause => g.status # "active"
      /\ g.status = "active" => g = goal \/ g.updated = now
  BY <1>2, PausedFacts DEF GoalInv, TypeOK
<1>4. charged' \in Nat /\ charged' <= now /\ charged <= charged'
  BY <1>1, <1>2 DEF FinishGoalTurnAccounting, GoalInv, TypeOK, Goal
<1>5. g = goal => charged' = charged
  <2>1. g = goal => Settled.time = goal.time
    BY <1>2, PausedFacts DEF GoalInv, TypeOK
  <2>2. goal.time \in Nat /\ charged \in Nat
    BY DEF GoalInv, TypeOK, Goal
  <2>3. charged' = charged + (Settled.time - goal.time)
    BY DEF FinishGoalTurnAccounting
  <2>4. QED
    BY <2>1, <2>2, <2>3
<1>6. timer' = NoTimer /\ IF g = goal THEN UNCHANGED <<goal, saved>> ELSE Publish(g)
  BY DEF FinishGoalTurnAccounting
<1> HIDE DEF g
<1>7. CASE g = goal
  BY <1>3, <1>4, <1>5, <1>6, <1>7
     DEF GoalInv, TypeOK, GoalIsOnFile, Clocks, Fair
<1>8. CASE g # goal
  <2>1. Publish(g)
    BY <1>6, <1>8
  <2>2. /\ goal' = g
        /\ saved' \in [goal : Goal, timer : Timer]
        /\ saved'.goal = g
        /\ saved'.timer # NoTimer => saved'.timer = now
    BY <1>3, <1>8, <2>1, PublishFacts DEF GoalInv
  <2>3. QED
    BY <1>3, <1>4, <1>6, <2>2 DEF GoalInv, TypeOK
<1>9. QED
  BY <1>7, <1>8

\* Setting a goal: the timer that is kept or started is fair.
LEMMA PutFacts ==
  ASSUME GoalInv, NEW g \in Goal, g.updated = now, PutGoal(g)
  PROVE  /\ goal' \in Goal
         /\ goal'.status = "active" => ~Exhausted(goal')
         /\ goal'.status = "active" => g.status = "active"
         /\ timer' \in Timer
         /\ timer' # NoTimer => charged <= timer' /\ timer' <= now
         /\ saved' \in [goal : Goal, timer : Timer]
         /\ saved'.goal = goal'
         /\ saved'.timer # NoTimer => saved'.timer = now
<1>1. /\ WithinBudget(g) \in Goal
      /\ WithinBudget(g).status = "active" => ~Exhausted(WithinBudget(g))
      /\ WithinBudget(g).updated = now
  BY WithinBudgetFacts
<1>2. WithinBudget(g).status = "active" => g.status = "active"
  BY DEF WithinBudget, StatusAfterBudget, Goal
<1>3. /\ goal' = WithinBudget(g)
      /\ saved' \in [goal : Goal, timer : Timer]
      /\ saved'.goal = WithinBudget(g)
      /\ saved'.timer # NoTimer => saved'.timer = now
  BY <1>1, PublishFacts DEF PutGoal, GoalInv
<1>4. /\ timer' \in Timer
      /\ timer' # NoTimer => charged <= timer' /\ timer' <= now
  BY DEF PutGoal, StartedTimer, GoalInv, TypeOK, Timer, NoTimer, Clocks, Fair
<1>5. QED
  BY <1>1, <1>2, <1>3, <1>4

LEMMA NewGoalFacts ==
  ASSUME TypeOK, NEW status \in GoalStatus, NEW budget \in Budgets \cup {NoBudget}
  PROVE  [status |-> status, budget |-> budget, used |-> 0, time |-> 0,
          created |-> now, updated |-> now] \in Goal
BY BoundsAreNat DEF TypeOK, Goal

LEMMA ChangedGoalFacts ==
  ASSUME TypeOK, NEW status \in GoalStatus, NEW budget \in Budgets \cup {NoBudget}
  PROVE  /\ [goal EXCEPT !.status = status, !.budget = budget, !.updated = now] \in Goal
         /\ [goal EXCEPT !.status = status, !.budget = budget, !.updated = now].updated = now
BY DEF TypeOK, Goal

\* The parts of the invariant a request about the goal preserves.
LEMMA SetFacts ==
  ASSUME GoalInv, NEW status \in GoalStatus, NEW budget \in Budgets \cup {NoBudget},
         SetObjective(status, budget) \/ ChangeGoal(status, budget)
  PROVE  /\ goal' \in Goal
         /\ goal'.status = "active" => ~Exhausted(goal') /\ status = "active"
         /\ timer' \in Timer
         /\ timer' # NoTimer => charged <= timer' /\ timer' <= now
         /\ saved' \in [goal : Goal, timer : Timer]
         /\ saved'.goal = goal'
         /\ saved'.timer # NoTimer => saved'.timer = now
         /\ continuations' \in Nat
         /\ prompts' \in Nat
         /\ prompts' <= continuations'
         /\ prompts' <= MaxContinuations
<1>1. CASE SetObjective(status, budget)
  <2> DEFINE g == [status |-> status, budget |-> budget, used |-> 0, time |-> 0,
                   created |-> now, updated |-> now]
  <2>1. g \in Goal /\ g.updated = now /\ g.status = status
    BY NewGoalFacts DEF GoalInv
  <2>2. PutGoal(g)
    BY <1>1 DEF SetObjective
  <2>3. continuations' = 0 /\ prompts' = 0
    BY <1>1 DEF SetObjective
  <2> HIDE DEF g
  <2>4. QED
    BY <2>1, <2>2, <2>3, PutFacts, BoundsAreNat
<1>2. CASE ChangeGoal(status, budget)
  <2> DEFINE g == [goal EXCEPT !.status = status, !.budget = budget, !.updated = now]
  <2>1. g \in Goal /\ g.updated = now
    BY ChangedGoalFacts DEF GoalInv
  <2>2. g.status = status
    BY DEF GoalInv, TypeOK, Goal
  <2>3. PutGoal(g) /\ UNCHANGED <<continuations, prompts>>
    BY <1>2 DEF ChangeGoal
  <2> HIDE DEF g
  <2>4. QED
    BY <2>1, <2>2, <2>3, PutFacts DEF GoalInv, TypeOK, Claims
<1>3. QED
  BY <1>1, <1>2

-----------------------------------------------------------------------------
(* The inductive invariant.                                                *)

LEMMA InitGoalInv == Init => GoalInv
<1> SUFFICES ASSUME Init PROVE GoalInv
  OBVIOUS
<1>1. TypeOK
  BY NoGoalIsGoal DEF Init, TypeOK, Timer
<1>2. ActiveGoalHasBudget /\ GoalIsOnFile /\ Failures
  BY DEF Init, NoGoal, ActiveGoalHasBudget, GoalIsOnFile, Failures
<1>3. Clocks /\ Claims
  BY BoundsAreNat DEF Init, Clocks, Fair, Claims, NoTimer
<1>4. QED
  BY <1>1, <1>2, <1>3 DEF GoalInv

\* Every action preserves the invariant.
LEMMA NextGoalInv == GoalInv /\ [Next]_vars => GoalInv'
<1> SUFFICES ASSUME GoalInv, [Next]_vars PROVE GoalInv'
  OBVIOUS
<1> USE BoundsAreNat
<1> USE DEF GoalInv
<1>1. CASE SetThreadGoal
  <2>1. PICK status \in GoalStatus, budget \in Budgets \cup {NoBudget} :
          SetObjective(status, budget) \/ ChangeGoal(status, budget)
    BY <1>1 DEF SetThreadGoal
  <2>2. ~driven /\ failed' = FALSE /\ UNCHANGED <<turnVars, now, charged>>
    BY <1>1 DEF SetThreadGoal
  <2>3. TypeOK'
    BY <2>1, <2>2, SetFacts DEF TypeOK, turnVars
  <2>4. (ActiveGoalHasBudget /\ GoalIsOnFile)'
    BY <2>1, <2>2, SetFacts DEF ActiveGoalHasBudget, GoalIsOnFile
  <2>5. (Clocks /\ Claims)'
    BY <2>1, <2>2, SetFacts DEF TypeOK, Clocks, Fair, Claims
  <2>6. Failures'
    BY <2>1, <2>2 DEF Failures, turnVars
  <2>7. QED
    BY <2>3, <2>4, <2>5, <2>6
<1>2. CASE ClearThreadGoal
  <2>1. NoGoal \in Goal /\ NoGoal.status = "none"
    BY NoGoalIsGoal DEF NoGoal
  <2>2. goal' = NoGoal /\ saved' = [goal |-> NoGoal, timer |-> NoTimer]
    BY <1>2, <2>1 DEF ClearThreadGoal, Publish
  <2>3. QED
    BY <1>2, <2>1, <2>2
       DEF ClearThreadGoal, TypeOK, ActiveGoalHasBudget, GoalIsOnFile, Clocks, Fair, Claims,
           Failures, turnVars, Timer
<1>3. CASE ClaimContinuation
  BY <1>3 DEF ClaimContinuation, TypeOK, ActiveGoalHasBudget, GoalIsOnFile, Clocks, Fair,
              Claims, Failures, turnVars
<1>4. CASE CapContinuations
  <2> DEFINE g == [goal EXCEPT !.status = "paused", !.updated = now]
  <2>1. g \in Goal
    BY DEF TypeOK, Goal, GoalStatus
  <2>2. g.status = "paused"
    BY DEF TypeOK, Goal
  <2>3. goal' = g /\ saved' = [goal |-> g, timer |-> NoTimer]
    BY <1>4, <2>2 DEF CapContinuations, Publish
  <2> HIDE DEF g
  <2>4. QED
    BY <1>4, <2>1, <2>2, <2>3
       DEF CapContinuations, TypeOK, ActiveGoalHasBudget, GoalIsOnFile, Clocks, Fair, Claims,
           Failures, turnVars, Timer
<1>5. CASE RunTurn
  <2>1. TypeOK'
    <3>1. (driven \in BOOLEAN /\ failed \in BOOLEAN)'
      BY <1>5, Zenon DEF RunTurn, TypeOK
    <3>2. waiting' \in Nat /\ started' \in Nat
      BY <1>5 DEF RunTurn, TypeOK
    <3>3. timer' \in Timer
      BY <1>5 DEF RunTurn, TypeOK
    <3>4. QED
      BY <1>5, <3>1, <3>2, <3>3 DEF RunTurn, TypeOK
  <2>2. (ActiveGoalHasBudget /\ GoalIsOnFile /\ Claims /\ Failures)'
    BY <1>5 DEF RunTurn, TypeOK, ActiveGoalHasBudget, GoalIsOnFile, Claims, Failures
  <2>3. Clocks'
    BY <1>5 DEF RunTurn, TypeOK, Clocks, Fair
  <2>4. QED
    BY <2>1, <2>2, <2>3
<1>6. CASE ResumeTurn
  <2>1. TypeOK'
    <3>1. (driven \in BOOLEAN /\ failed \in BOOLEAN)'
      BY <1>6, Zenon DEF ResumeTurn, TypeOK
    <3>2. waiting' \in Nat /\ started' \in Nat
      BY <1>6 DEF ResumeTurn, TypeOK
    <3>3. timer' \in Timer
      BY <1>6 DEF ResumeTurn, BeginGoalTurnAccounting, StartedTimer, Timer, NoTimer, TypeOK
    <3>4. QED
      BY <1>6, <3>1, <3>2, <3>3 DEF ResumeTurn, TypeOK
  <2>2. (ActiveGoalHasBudget /\ GoalIsOnFile /\ Claims /\ Failures)'
    BY <1>6 DEF ResumeTurn, TypeOK, ActiveGoalHasBudget, GoalIsOnFile, Claims, Failures
  <2>3. Clocks'
    BY <1>6 DEF ResumeTurn, BeginGoalTurnAccounting, StartedTimer, Timer, NoTimer, TypeOK, Clocks, Fair
  <2>4. QED
    BY <2>1, <2>2, <2>3
<1>7. CASE RefuseResume
  BY <1>7 DEF RefuseResume, BeginGoalTurnAccounting, StartedTimer, TypeOK, Timer, NoTimer,
              ActiveGoalHasBudget, GoalIsOnFile, Clocks, Fair, Claims, Failures, turnVars
<1>8. CASE StartHostTurn
  BY <1>8 DEF StartHostTurn, BeginGoalTurnAccounting, StartedTimer, TypeOK, Timer, NoTimer,
              ActiveGoalHasBudget, GoalIsOnFile, Clocks, Fair, Claims, Failures
<1>9. CASE ModelStep
  <2>1. PICK tokens \in TokenDeltas \ {0} :
          IF Accounted(goal) THEN Publish(Charge(goal, tokens, 0)) ELSE UNCHANGED <<goal, saved>>
    BY <1>9 DEF ModelStep
  <2>2. tokens \in Nat
    OBVIOUS
  <2>3. CASE Accounted(goal)
    <3>1. /\ Charge(goal, tokens, 0) \in Goal
          /\ Charge(goal, tokens, 0).status = "active" => ~Exhausted(Charge(goal, tokens, 0))
          /\ Charge(goal, tokens, 0).updated = now
      BY <2>2, ChargeFacts DEF TypeOK
    <3>2. /\ goal' = Charge(goal, tokens, 0)
          /\ saved' \in [goal : Goal, timer : Timer]
          /\ saved'.goal = Charge(goal, tokens, 0)
          /\ saved'.timer # NoTimer => saved'.timer = now
      BY <2>1, <2>3, <3>1, PublishFacts
    <3>3. QED
      BY <1>9, <3>1, <3>2
         DEF ModelStep, TypeOK, ActiveGoalHasBudget, GoalIsOnFile, Clocks, Fair, Claims, Failures,
             turnVars
  <2>4. CASE ~Accounted(goal)
    BY <1>9, <2>1, <2>4
       DEF ModelStep, TypeOK, ActiveGoalHasBudget, GoalIsOnFile, Clocks, Fair, Claims, Failures,
           turnVars
  <2>5. QED
    BY <2>3, <2>4
<1>10. CASE CreateGoalFromTool
  <2>1. PICK budget \in Budgets \cup {NoBudget} : SetObjective("active", budget)
    BY <1>10 DEF CreateGoalFromTool
  <2>2. "active" \in GoalStatus
    BY DEF GoalStatus
  <2>3. driven /\ UNCHANGED <<turnVars, now, failed, charged>>
    BY <1>10 DEF CreateGoalFromTool
  <2>4. TypeOK'
    BY <2>1, <2>2, <2>3, SetFacts DEF TypeOK, turnVars
  <2>5. (ActiveGoalHasBudget /\ GoalIsOnFile)'
    BY <2>1, <2>2, <2>3, SetFacts DEF ActiveGoalHasBudget, GoalIsOnFile
  <2>6. (Clocks /\ Claims)'
    BY <2>1, <2>2, <2>3, SetFacts DEF TypeOK, Clocks, Fair, Claims
  <2>7. Failures'
    BY <2>3 DEF Failures, turnVars
  <2>8. QED
    BY <2>4, <2>5, <2>6, <2>7
<1>11. CASE UpdateGoalFromTool
  <2>1. "complete" \in GoalStatus /\ goal.budget \in Budgets \cup {NoBudget}
    BY DEF GoalStatus, TypeOK, Goal
  <2>2. ChangeGoal("complete", goal.budget) /\ driven /\ UNCHANGED <<turnVars, now, failed, charged>>
    BY <1>11 DEF UpdateGoalFromTool
  <2>3. TypeOK'
    BY <2>1, <2>2, SetFacts DEF TypeOK, turnVars
  <2>4. (ActiveGoalHasBudget /\ GoalIsOnFile)'
    BY <2>1, <2>2, SetFacts DEF ActiveGoalHasBudget, GoalIsOnFile
  <2>5. (Clocks /\ Claims)'
    <3>1. Claims'
      BY <2>1, <2>2, SetFacts DEF Claims
    <3>2. /\ timer' # NoTimer => charged <= timer' /\ timer' <= now
          /\ saved'.timer # NoTimer => saved'.timer = now
      BY <2>1, <2>2, SetFacts
    <3>3. QED
      BY <2>2, <3>1, <3>2 DEF TypeOK, Clocks, Fair
  <2>6. Failures'
    BY <2>1, <2>2 DEF Failures, turnVars
  <2>7. QED
    BY <2>3, <2>4, <2>5, <2>6
<1>12. CASE CompleteTurn
  <2>1. /\ FinishGoalTurnAccounting(FALSE)
        /\ driven
        /\ driven' = FALSE
        /\ UNCHANGED <<continuations, waiting, started, now, prompts, failed>>
    BY <1>12 DEF CompleteTurn
  <2>2. TypeOK'
    <3>1. (driven \in BOOLEAN /\ failed \in BOOLEAN)'
      BY <2>1, Zenon DEF TypeOK
    <3>2. waiting' \in Nat
      BY <2>1 DEF TypeOK
    <3>3. QED
      BY <2>1, <3>1, <3>2, FinishFacts DEF TypeOK, Timer
  <2>3. (ActiveGoalHasBudget /\ GoalIsOnFile)'
    BY <2>1, FinishFacts DEF ActiveGoalHasBudget, GoalIsOnFile
  <2>4. (Clocks /\ Claims)'
    BY <2>1, FinishFacts DEF Clocks, Fair, Claims
  <2>5. Failures'
    BY <2>1, FinishFacts DEF Failures
  <2>6. QED
    BY <2>2, <2>3, <2>4, <2>5
<1>13. CASE PauseTurn
  <2>1. /\ FinishGoalTurnAccounting(FALSE)
        /\ driven
        /\ driven' = FALSE
        /\ waiting' = waiting + 1
        /\ UNCHANGED <<continuations, started, now, prompts, failed>>
    BY <1>13 DEF PauseTurn
  <2>2. TypeOK'
    <3>1. (driven \in BOOLEAN /\ failed \in BOOLEAN)'
      BY <2>1, Zenon DEF TypeOK
    <3>2. waiting' \in Nat
      BY <2>1 DEF TypeOK
    <3>3. QED
      BY <2>1, <3>1, <3>2, FinishFacts DEF TypeOK, Timer
  <2>3. (ActiveGoalHasBudget /\ GoalIsOnFile)'
    BY <2>1, FinishFacts DEF ActiveGoalHasBudget, GoalIsOnFile
  <2>4. (Clocks /\ Claims)'
    BY <2>1, FinishFacts DEF Clocks, Fair, Claims
  <2>5. Failures'
    BY <2>1, FinishFacts DEF Failures
  <2>6. QED
    BY <2>2, <2>3, <2>4, <2>5
<1>14. CASE FailTurn
  <2>1. /\ FinishGoalTurnAccounting(TRUE)
        /\ driven' = FALSE
        /\ failed' = TRUE
        /\ UNCHANGED <<continuations, waiting, started, now, prompts>>
    BY <1>14 DEF FailTurn
  <2>2. TypeOK'
    <3>1. (driven \in BOOLEAN /\ failed \in BOOLEAN)'
      BY <2>1, Zenon DEF TypeOK
    <3>2. waiting' \in Nat
      BY <2>1 DEF TypeOK
    <3>3. QED
      BY <2>1, <3>1, <3>2, FinishFacts DEF TypeOK, Timer
  <2>3. (ActiveGoalHasBudget /\ GoalIsOnFile)'
    BY <2>1, FinishFacts DEF ActiveGoalHasBudget, GoalIsOnFile
  <2>4. (Clocks /\ Claims)'
    BY <2>1, FinishFacts DEF Clocks, Fair, Claims
  <2>5. Failures'
    BY <2>1, FinishFacts DEF Failures
  <2>6. QED
    BY <2>2, <2>3, <2>4, <2>5
<1>15. CASE InterruptWaitingTurn
  BY <1>15 DEF InterruptWaitingTurn, TypeOK, ActiveGoalHasBudget, GoalIsOnFile, Clocks, Fair,
               Claims, Failures
<1>16. CASE Restart
  <2>1. TypeOK'
    <3>1. (driven \in BOOLEAN /\ failed \in BOOLEAN)'
      BY <1>16, Zenon DEF Restart, TypeOK
    <3>2. waiting' \in Nat /\ started' \in Nat
      BY <1>16 DEF Restart, TypeOK
    <3>3. timer' \in Timer
      BY <1>16 DEF Restart, TypeOK
    <3>4. QED
      BY <1>16, <3>1, <3>2, <3>3 DEF Restart, TypeOK
  <2>2. (ActiveGoalHasBudget /\ GoalIsOnFile /\ Claims /\ Failures)'
    BY <1>16 DEF Restart, TypeOK, ActiveGoalHasBudget, GoalIsOnFile, Claims, Failures
  <2>3. Clocks'
    BY <1>16 DEF Restart, TypeOK, Clocks, Fair
  <2>4. QED
    BY <2>1, <2>2, <2>3
<1>17. CASE Tick
  BY <1>17 DEF Tick, TypeOK, Timer, NoTimer, ActiveGoalHasBudget, GoalIsOnFile, Clocks, Fair,
               Claims, Failures, turnVars
<1>18. CASE UNCHANGED vars
  BY <1>18 DEF vars, turnVars, TypeOK, ActiveGoalHasBudget, GoalIsOnFile, Clocks, Fair, Claims,
               Failures
<1>19. CASE GuardEndsTurn
  <2>1. TypeOK'
    <3>1. (driven \in BOOLEAN /\ failed \in BOOLEAN)'
      BY <1>19, Zenon DEF GuardEndsTurn, TypeOK
    <3>2. QED
      BY <1>19, <3>1 DEF GuardEndsTurn, TypeOK
  <2>2. (ActiveGoalHasBudget /\ GoalIsOnFile /\ Claims /\ Failures)'
    BY <1>19 DEF GuardEndsTurn, ActiveGoalHasBudget, GoalIsOnFile, Claims, Failures
  <2>3. Clocks'
    BY <1>19 DEF GuardEndsTurn, Clocks, Fair
  <2>4. QED
    BY <2>1, <2>2, <2>3
<1>20. QED
  BY <1>1, <1>2, <1>3, <1>4, <1>5, <1>6, <1>7, <1>8, <1>9, <1>10, <1>11, <1>12, <1>13, <1>14,
     <1>15, <1>16, <1>17, <1>18, <1>19 DEF Next

LEMMA GoalInvHolds == Spec => []GoalInv
BY InitGoalInv, NextGoalInv, PTL DEF Spec

-----------------------------------------------------------------------------
(* The theorems.                                                           *)

\* Every variable keeps its type: budgets, charges, the timer and the copy of
\* them that a replay builds.
THEOREM GoalTypeCorrect == Spec => []TypeOK
<1>1. GoalInv => TypeOK
  BY DEF GoalInv
<1>2. QED
  BY <1>1, GoalInvHolds, PTL

\* apply_goal_usage and set_thread_goal between them leave no exhausted goal
\* active, for every budget and every order of charges and requests.
THEOREM BudgetCorrect == Spec => []ActiveGoalHasBudget
<1>1. GoalInv => ActiveGoalHasBudget
  BY DEF GoalInv
<1>2. QED
  BY <1>1, GoalInvHolds, PTL

\* next_thread_goal_continuation hands out at most the cap's number of prompts
\* for an objective in one process, whatever the cap.
THEOREM PromptsCorrect == Spec => []PromptsAreCapped
<1>1. GoalInv => PromptsAreCapped
  BY DEF GoalInv, Claims, PromptsAreCapped
<1>2. QED
  BY <1>1, GoalInvHolds, PTL

\* finish_goal_turn_accounting charges no second twice, though a restart builds
\* its timer from the last event on file and not from the timer that ran.
THEOREM ChargesCorrect == Spec => []NoSecondChargedTwice
<1>1. GoalInv => NoSecondChargedTwice
  BY DEF GoalInv, Clocks, NoSecondChargedTwice
<1>2. QED
  BY <1>1, GoalInvHolds, PTL

\* A replay of the events finds the goal there is.
THEOREM FileCorrect == Spec => []GoalIsOnFile
<1>1. GoalInv => GoalIsOnFile
  BY DEF GoalInv
<1>2. QED
  BY <1>1, GoalInvHolds, PTL

\* After a turn that ended in abort_agentic_turn or interrupt_agentic_turn, an
\* error, a cancellation or an interrupt, no continuation is handed out until
\* somebody acts.  The end by the continuation guard leaves the goal active and is
\* no such end.
THEOREM FailureStopsPrompts == Spec => NoPromptAfterFailure
<1>1. GoalInv /\ [Next]_vars => [prompts' > prompts => ~failed]_vars
  <2> SUFFICES ASSUME GoalInv, [Next]_vars, prompts' > prompts PROVE ~failed
    OBVIOUS
  <2> USE BoundsAreNat
  <2>0. prompts \in Nat
    BY DEF GoalInv, TypeOK
  <2>1. CASE ClaimContinuation
    BY <2>1 DEF ClaimContinuation, GoalInv, Failures
  <2>2. CASE SetThreadGoal
    BY <2>0, <2>2 DEF SetThreadGoal, SetObjective, ChangeGoal
  <2>3. CASE CreateGoalFromTool
    BY <2>0, <2>3 DEF CreateGoalFromTool, SetObjective
  <2>4. CASE UpdateGoalFromTool
    BY <2>0, <2>4 DEF UpdateGoalFromTool, ChangeGoal
  <2>5. CASE ClearThreadGoal \/ CapContinuations \/ RunTurn \/ ResumeTurn \/ RefuseResume
             \/ StartHostTurn \/ ModelStep
    BY <2>0, <2>5 DEF ClearThreadGoal, CapContinuations, RunTurn, ResumeTurn, RefuseResume,
                      StartHostTurn, ModelStep
  <2>6. CASE CompleteTurn \/ PauseTurn \/ FailTurn \/ GuardEndsTurn \/ InterruptWaitingTurn
             \/ Tick
    <3>1. prompts' = prompts
      BY <2>6 DEF CompleteTurn, PauseTurn, FailTurn, GuardEndsTurn, InterruptWaitingTurn, Tick
    <3>2. QED
      BY <2>0, <3>1
  <2>7. CASE Restart
    BY <2>0, <2>7 DEF Restart
  <2>8. CASE UNCHANGED vars
    BY <2>0, <2>8 DEF vars
  <2>9. QED
    BY <2>1, <2>2, <2>3, <2>4, <2>5, <2>6, <2>7, <2>8 DEF Next
<1>2. QED
  BY <1>1, GoalInvHolds, PTL DEF Spec, NoPromptAfterFailure

-----------------------------------------------------------------------------
(* The requests of a host.  Replay and the batches are folds.              *)

Events == INSTANCE Folding WITH op <- ApplyReplayedEvent
Aborting == INSTANCE Folding WITH op <- AbortTurn
Placing == INSTANCE Folding WITH op <- PlaceUse
Starting == INSTANCE Folding WITH op <- EmitToolCallStarted
Completing == INSTANCE Folding WITH op <- EmitToolResultCompleted
Recording == INSTANCE Folding WITH op <- RecordBatch

-----------------------------------------------------------------------------
(* What a runtime is.                                                      *)

Maps(K, V) == UNION {[D -> V] : D \in SUBSET K}

Statuses == {"Running", "WaitingForApproval", "Completed", "Aborted"}
TurnOf(threads) == [thread : DOMAIN threads, status : Statuses]
ApprovalOf(threads) == [thread : DOMAIN threads, turn : Nat, call : Calls, outcome : Outcomes]

\* The runtimes that differ from one in its turns, its approvals and the numbers given.
Runtimes(r) ==
  [threads : {r.threads},
   turns : Maps(1..MaxHostTurns, TurnOf(r.threads)),
   approvals : Maps(Nat \cup HostIds, ApprovalOf(r.threads)),
   questions : {r.questions}, plugins : {r.plugins}, servers : {r.servers},
   models : {r.models}, selected : {r.selected}, memory : {r.memory},
   todos : {r.todos}, suggestion : {r.suggestion},
   nextTurn : Nat, nextApproval : Nat, nextQuestion : {r.nextQuestion}]

IsRuntime(r) == r \in Runtimes(r) /\ r.selected \in r.models \cup {NoModel}

-----------------------------------------------------------------------------
(* What a replay finds.                                                    *)

\* A replay cancels what an ended turn had asked for; in memory it stays pending.
SameApproval(x, y) ==
  y = x \/ (x.outcome = "pending" /\ y = [x EXCEPT !.outcome = "cancelled"])

ApprovalsAgree(A, B) ==
  DOMAIN B = DOMAIN A /\ \A a \in DOMAIN A : SameApproval(A[a], B[a])

\* It takes turns for waiting that run; those that ended have ended for both.
SameEnd(x, y) == Terminal(x.status) \/ Terminal(y.status) => y.status = x.status

TurnsAgree(T, U) ==
  DOMAIN U = DOMAIN T /\ \A t \in DOMAIN T : SameEnd(T[t], U[t])

SameRest(r, l) ==
  /\ l.threads = r.threads /\ l.questions = r.questions
  /\ l.plugins = r.plugins /\ l.servers = r.servers /\ l.models = r.models
  /\ l.selected = r.selected /\ l.memory = r.memory /\ l.todos = r.todos

Agree(r, l) ==
  /\ SameRest(r, l)
  /\ TurnsAgree(r.turns, l.turns)
  /\ ApprovalsAgree(r.approvals, l.approvals)

IsLog(log) == \E S : log \in Seq(S)

Replay(l, log) == FoldLeft(ApplyReplayedEvent, l, log)

\* An event tells a replay what was done to the runtime.
Tells(r, q, e) ==
  \A l : IsRuntime(l) /\ Agree(r, l) =>
    IsRuntime(ApplyReplayedEvent(l, e)) /\ Agree(q, ApplyReplayedEvent(l, e))

\* And so do the events of a request.
Follows(r, q, log) ==
  /\ IsRuntime(q)
  /\ IsLog(log)
  /\ \A l : IsRuntime(l) /\ Agree(r, l) =>
       IsRuntime(Replay(l, log)) /\ Agree(q, Replay(l, log))

-----------------------------------------------------------------------------
(* Maps.                                                                   *)

LEMMA MapIs ==
  ASSUME NEW K, NEW V, NEW f
  PROVE  f \in Maps(K, V) <=> /\ DOMAIN f \subseteq K /\ f = [k \in DOMAIN f |-> f[k]]
                              /\ \A k \in DOMAIN f : f[k] \in V
<1>1. ASSUME f \in Maps(K, V)
      PROVE  /\ DOMAIN f \subseteq K /\ f = [k \in DOMAIN f |-> f[k]]
             /\ \A k \in DOMAIN f : f[k] \in V
  <2>1. PICK D \in SUBSET K : f \in [D -> V]
    BY <1>1 DEF Maps
  <2> QED BY <2>1
<1>2. ASSUME DOMAIN f \subseteq K, f = [k \in DOMAIN f |-> f[k]], \A k \in DOMAIN f : f[k] \in V
      PROVE  f \in Maps(K, V)
  <2>1. f \in [DOMAIN f -> V]
    BY <1>2
  <2> QED BY <1>2, <2>1 DEF Maps
<1> QED BY <1>1, <1>2

LEMMA PutInMap ==
  ASSUME NEW K, NEW V, NEW f \in Maps(K, V), NEW k \in K, NEW v \in V
  PROVE  Put(f, k, v) \in Maps(K, V)
<1>1. DOMAIN f \subseteq K /\ \A x \in DOMAIN f : f[x] \in V
  BY MapIs
<1>2. Put(f, k, v) \in [DOMAIN f \cup {k} -> V]
  BY <1>1 DEF Put
<1> QED BY <1>1, <1>2 DEF Maps

LEMMA ExceptInMap ==
  ASSUME NEW K, NEW V, NEW f \in Maps(K, V), NEW k \in DOMAIN f, NEW v \in V
  PROVE  [f EXCEPT ![k] = v] \in Maps(K, V)
<1>1. PICK D \in SUBSET K : f \in [D -> V]
  BY DEF Maps
<1>2. [f EXCEPT ![k] = v] \in [D -> V]
  BY <1>1
<1> QED BY <1>2 DEF Maps

LEMMA MapsGrow ==
  ASSUME NEW K, NEW V, NEW W, V \subseteq W
  PROVE  Maps(K, V) \subseteq Maps(K, W)
<1> SUFFICES ASSUME NEW f \in Maps(K, V) PROVE f \in Maps(K, W)
  OBVIOUS
<1> QED BY MapIs

\* More threads take nothing from the types of turns and approvals.
LEMMA TypesGrow ==
  ASSUME NEW one, NEW two, DOMAIN one \subseteq DOMAIN two
  PROVE  TurnOf(one) \subseteq TurnOf(two) /\ ApprovalOf(one) \subseteq ApprovalOf(two)
BY DEF TurnOf, ApprovalOf

LEMMA RuntimeFields ==
  ASSUME NEW r, IsRuntime(r)
  PROVE  /\ r.turns \in Maps(1..MaxHostTurns, TurnOf(r.threads))
         /\ r.approvals \in Maps(Nat \cup HostIds, ApprovalOf(r.threads))
         /\ r.nextTurn \in Nat /\ r.nextApproval \in Nat
         /\ r.selected \in r.models \cup {NoModel}
BY DEF IsRuntime, Runtimes

-----------------------------------------------------------------------------
(* Threads.                                                                *)

LEMMA ThreadKept ==
  ASSUME NEW r, IsRuntime(r), NEW id, NEW thread
  PROVE  IsRuntime([r EXCEPT !.threads = Put(@, id, thread)])
<1> DEFINE new == Put(r.threads, id, thread)
<1>1. DOMAIN r.threads \subseteq DOMAIN new
  BY DEF Put
<1>2. PICK q : q = [r EXCEPT !.threads = new]
  OBVIOUS
<1> HIDE DEF new
<1>3. /\ r.turns \in Maps(1..MaxHostTurns, TurnOf(new))
      /\ r.approvals \in Maps(Nat \cup HostIds, ApprovalOf(new))
  BY <1>1, RuntimeFields, TypesGrow, MapsGrow
<1>4. IsRuntime(q)
  BY <1>2, <1>3 DEF IsRuntime, Runtimes
<1> QED BY <1>2, <1>4 DEF new

ThreadKinds == {"ThreadStarted", "ThreadForked", "ThreadUpdated", "ThreadResumed"}

LEMMA ThreadTells ==
  ASSUME NEW r, IsRuntime(r), NEW id, NEW thread, NEW kind \in ThreadKinds
  PROVE  LET q == [r EXCEPT !.threads = Put(@, id, thread)]
         IN  IsRuntime(q) /\ Tells(r, q, [kind |-> kind, id |-> id, thread |-> thread])
<1> DEFINE e == [kind |-> kind, id |-> id, thread |-> thread]
<1>1. PICK q : q = [r EXCEPT !.threads = Put(@, id, thread)]
  OBVIOUS
<1>2. ASSUME NEW l, IsRuntime(l), Agree(r, l)
      PROVE  IsRuntime(ApplyReplayedEvent(l, e)) /\ Agree(q, ApplyReplayedEvent(l, e))
  <2>1. PICK m : m = [l EXCEPT !.threads = Put(@, id, thread)]
    OBVIOUS
  <2>2. ApplyReplayedEvent(l, e) = m
    BY <2>1 DEF ApplyReplayedEvent, ThreadKinds
  <2>3. IsRuntime(m)
    BY <1>2, <2>1, ThreadKept
  <2>4. Agree(q, m)
    BY <1>1, <1>2, <2>1 DEF Agree, SameRest, IsRuntime, Runtimes
  <2> QED BY <2>2, <2>3, <2>4
<1> QED BY <1>1, <1>2, ThreadKept DEF Tells

-----------------------------------------------------------------------------
(* Turns.                                                                  *)

LEMMA TurnPut ==
  ASSUME NEW r, IsRuntime(r), NEW turn \in 1..MaxHostTurns, NEW thread \in DOMAIN r.threads,
         NEW status \in Statuses, NEW n \in Nat
  PROVE  IsRuntime([r EXCEPT !.nextTurn = n,
                             !.turns = Put(@, turn, [thread |-> thread, status |-> status])])
<1>1. [thread |-> thread, status |-> status] \in TurnOf(r.threads)
  BY DEF TurnOf
<1>2. PICK new : new = Put(r.turns, turn, [thread |-> thread, status |-> status])
  OBVIOUS
<1>3. new \in Maps(1..MaxHostTurns, TurnOf(r.threads))
  BY <1>1, <1>2, RuntimeFields, PutInMap
<1>4. IsRuntime([r EXCEPT !.nextTurn = n, !.turns = new])
  BY <1>3 DEF IsRuntime, Runtimes
<1> QED BY <1>2, <1>4

LEMMA TurnSet ==
  ASSUME NEW r, IsRuntime(r), NEW turn \in DOMAIN r.turns, NEW status \in Statuses
  PROVE  /\ IsRuntime([r EXCEPT !.turns[turn].status = status])
         /\ [r EXCEPT !.turns[turn].status = status].turns
              = [t \in DOMAIN r.turns |->
                   IF t = turn THEN [r.turns[t] EXCEPT !.status = status] ELSE r.turns[t]]
<1>1. /\ r.turns = [t \in DOMAIN r.turns |-> r.turns[t]]
      /\ \A t \in DOMAIN r.turns : r.turns[t] \in TurnOf(r.threads)
  BY RuntimeFields, MapIs
<1>2. [r.turns[turn] EXCEPT !.status = status] \in TurnOf(r.threads)
  BY <1>1 DEF TurnOf
<1>3. PICK new : new = [r.turns EXCEPT ![turn] = [r.turns[turn] EXCEPT !.status = status]]
  OBVIOUS
<1>4. new \in Maps(1..MaxHostTurns, TurnOf(r.threads))
  BY <1>2, <1>3, RuntimeFields, ExceptInMap
<1>5. [r EXCEPT !.turns[turn].status = status] = [r EXCEPT !.turns = new]
  BY <1>3
<1>6. IsRuntime([r EXCEPT !.turns = new]) /\ [r EXCEPT !.turns = new].turns = new
  BY <1>4 DEF IsRuntime, Runtimes
<1>7. new = [t \in DOMAIN r.turns |->
               IF t = turn THEN [r.turns[t] EXCEPT !.status = status] ELSE r.turns[t]]
  BY <1>1, <1>3
<1> QED BY <1>5, <1>6, <1>7

LEMMA TurnStartTells ==
  ASSUME NEW r, IsRuntime(r), NEW turn \in 1..MaxHostTurns, NEW thread \in DOMAIN r.threads
  PROVE  LET q == [r EXCEPT !.nextTurn = turn,
                            !.turns = Put(@, turn, [thread |-> thread, status |-> "Running"])]
         IN  IsRuntime(q) /\ Tells(r, q, [kind |-> "TurnStarted", turn |-> turn, thread |-> thread])
<1> DEFINE e == [kind |-> "TurnStarted", turn |-> turn, thread |-> thread]
           new == [thread |-> thread, status |-> "Running"]
<1>1. PICK q : q = [r EXCEPT !.nextTurn = turn, !.turns = Put(@, turn, new)]
  OBVIOUS
<1>2. IsRuntime(q)
  <2>1. turn \in Nat /\ "Running" \in Statuses
    BY DEF Statuses
  <2> QED BY <1>1, <2>1, TurnPut
<1>3. ASSUME NEW l, IsRuntime(l), Agree(r, l)
      PROVE  IsRuntime(ApplyReplayedEvent(l, e)) /\ Agree(q, ApplyReplayedEvent(l, e))
  <2>1. PICK n \in Nat : n = MaxOf(l.nextTurn, turn)
    BY <1>3, RuntimeFields DEF MaxOf
  <2>2. PICK m : m = [l EXCEPT !.turns = Put(@, turn, new), !.nextTurn = n]
    OBVIOUS
  <2>3. ApplyReplayedEvent(l, e) = m
    BY <2>1, <2>2 DEF ApplyReplayedEvent
  <2>4. m = [l EXCEPT !.nextTurn = n, !.turns = Put(@, turn, new)]
    BY <2>2
  <2>5. thread \in DOMAIN l.threads
    BY <1>3 DEF Agree, SameRest
  <2>6. IsRuntime(m)
    <3>1. "Running" \in Statuses
      BY DEF Statuses
    <3> QED BY <1>3, <2>4, <2>5, <3>1, TurnPut
  <2>7. /\ q.turns = Put(r.turns, turn, new) /\ q.approvals = r.approvals
        /\ m.turns = Put(l.turns, turn, new) /\ m.approvals = l.approvals
    BY <1>1, <1>3, <2>2 DEF IsRuntime, Runtimes
  <2>8. TurnsAgree(q.turns, m.turns)
    BY <1>3, <2>7 DEF Agree, TurnsAgree, Put, SameEnd
  <2>9. SameRest(q, m)
    BY <1>1, <1>3, <2>2 DEF Agree, SameRest, IsRuntime, Runtimes
  <2> QED BY <1>3, <2>3, <2>6, <2>7, <2>8, <2>9 DEF Agree
<1> QED BY <1>1, <1>2, <1>3 DEF Tells

EndKinds == {"TurnCompleted", "TurnAborted", "TurnInterrupted"}
EndOf(kind) == IF kind = "TurnCompleted" THEN "Completed" ELSE "Aborted"

\* The end of a turn, as a replay sees it.
LEMMA EndReplayed ==
  ASSUME NEW l, IsRuntime(l), NEW turn \in DOMAIN l.turns, NEW kind \in EndKinds
  PROVE  LET m == ApplyReplayedEvent(l, [kind |-> kind, turn |-> turn])
         IN  /\ IsRuntime(m) /\ m \in Runtimes(l)
             /\ SameRest(l, m)
             /\ m.turns = [t \in DOMAIN l.turns |->
                  IF t = turn THEN [l.turns[t] EXCEPT !.status = EndOf(kind)] ELSE l.turns[t]]
             /\ DOMAIN m.approvals = DOMAIN l.approvals
             /\ \A a \in DOMAIN l.approvals : SameApproval(l.approvals[a], m.approvals[a])
<1>1. PICK k : k = [l EXCEPT !.turns[turn].status = EndOf(kind)]
  OBVIOUS
<1>2. EndOf(kind) \in Statuses
  BY DEF EndOf, Statuses
<1>3. /\ IsRuntime(k)
      /\ k.turns = [t \in DOMAIN l.turns |->
           IF t = turn THEN [l.turns[t] EXCEPT !.status = EndOf(kind)] ELSE l.turns[t]]
  BY <1>1, <1>2, TurnSet
<1>4. k.approvals = l.approvals /\ SameRest(l, k) /\ k \in Runtimes(l)
  <2>1. k.approvals = l.approvals /\ SameRest(l, k)
    BY <1>1 DEF SameRest, IsRuntime, Runtimes
  <2>2. k.suggestion = l.suggestion /\ k.nextQuestion = l.nextQuestion
    BY <1>1 DEF IsRuntime, Runtimes
  <2> QED BY <1>3, <2>1, <2>2 DEF IsRuntime, Runtimes, SameRest
<1> DEFINE new == [a \in DOMAIN k.approvals |->
       IF k.approvals[a].turn = turn /\ k.approvals[a].outcome = "pending"
       THEN [k.approvals[a] EXCEPT !.outcome = "cancelled"] ELSE k.approvals[a]]
<1>5. PICK A : A = new
  OBVIOUS
<1>6. PICK m : m = [k EXCEPT !.approvals = A]
  OBVIOUS
<1>7. ApplyReplayedEvent(l, [kind |-> kind, turn |-> turn]) = m
  BY <1>1, <1>5, <1>6 DEF ApplyReplayedEvent, EndKinds, EndOf, Status, ClearPendingPauses
<1>8. A \in Maps(Nat \cup HostIds, ApprovalOf(l.threads))
  <2>1. /\ DOMAIN l.approvals \subseteq Nat \cup HostIds
        /\ \A a \in DOMAIN l.approvals : l.approvals[a] \in ApprovalOf(l.threads)
    BY RuntimeFields, MapIs
  <2>2. \A a \in DOMAIN l.approvals : A[a] \in ApprovalOf(l.threads)
    BY <1>4, <1>5, <2>1 DEF ApprovalOf, Outcomes
  <2>3. DOMAIN A = DOMAIN l.approvals /\ A = [a \in DOMAIN A |-> A[a]]
    BY <1>4, <1>5
  <2> QED BY <2>1, <2>2, <2>3, MapIs
<1>9. /\ DOMAIN A = DOMAIN l.approvals
      /\ \A a \in DOMAIN l.approvals : SameApproval(l.approvals[a], A[a])
  BY <1>4, <1>5 DEF SameApproval
<1> HIDE DEF new
<1>10. IsRuntime(m) /\ SameRest(l, m) /\ m.turns = k.turns /\ m.approvals = A /\ m \in Runtimes(l)
  BY <1>3, <1>4, <1>6, <1>8 DEF IsRuntime, Runtimes, SameRest
<1> QED BY <1>3, <1>7, <1>9, <1>10

LEMMA TurnEndTells ==
  ASSUME NEW r, IsRuntime(r), NEW turn \in DOMAIN r.turns, NEW kind \in EndKinds
  PROVE  LET q == [r EXCEPT !.turns[turn].status = EndOf(kind)]
         IN  IsRuntime(q) /\ Tells(r, q, [kind |-> kind, turn |-> turn])
<1> DEFINE e == [kind |-> kind, turn |-> turn]
<1>1. PICK q : q = [r EXCEPT !.turns[turn].status = EndOf(kind)]
  OBVIOUS
<1>2. EndOf(kind) \in Statuses
  BY DEF EndOf, Statuses
<1>3. /\ IsRuntime(q)
      /\ q.turns = [t \in DOMAIN r.turns |->
           IF t = turn THEN [r.turns[t] EXCEPT !.status = EndOf(kind)] ELSE r.turns[t]]
  BY <1>1, <1>2, TurnSet
<1>4. q.approvals = r.approvals /\ SameRest(r, q)
  BY <1>1 DEF SameRest, IsRuntime, Runtimes
<1>5. ASSUME NEW l, IsRuntime(l), Agree(r, l)
      PROVE  IsRuntime(ApplyReplayedEvent(l, e)) /\ Agree(q, ApplyReplayedEvent(l, e))
  <2>1. turn \in DOMAIN l.turns
    BY <1>5 DEF Agree, TurnsAgree
  <2>2. PICK m : m = ApplyReplayedEvent(l, e)
    OBVIOUS
  <2>3. /\ IsRuntime(m) /\ SameRest(l, m)
        /\ m.turns = [t \in DOMAIN l.turns |->
             IF t = turn THEN [l.turns[t] EXCEPT !.status = EndOf(kind)] ELSE l.turns[t]]
        /\ DOMAIN m.approvals = DOMAIN l.approvals
        /\ \A a \in DOMAIN l.approvals : SameApproval(l.approvals[a], m.approvals[a])
    BY <1>5, <2>1, <2>2, EndReplayed
  <2>4. TurnsAgree(q.turns, m.turns)
    <3>1. /\ \A t \in DOMAIN r.turns : r.turns[t] \in TurnOf(r.threads)
          /\ \A t \in DOMAIN l.turns : l.turns[t] \in TurnOf(l.threads)
      BY <1>5, RuntimeFields, MapIs
    <3>2. DOMAIN l.turns = DOMAIN r.turns /\ \A t \in DOMAIN r.turns : SameEnd(r.turns[t], l.turns[t])
      BY <1>5 DEF Agree, TurnsAgree
    <3>3. ASSUME NEW t \in DOMAIN r.turns PROVE SameEnd(q.turns[t], m.turns[t])
      <4>1. CASE t = turn
        BY <1>3, <2>3, <3>1, <3>2, <4>1 DEF SameEnd, TurnOf
      <4>2. CASE t # turn
        BY <1>3, <2>3, <3>2, <4>2
      <4> QED BY <4>1, <4>2
    <3> QED BY <1>3, <2>3, <3>2, <3>3 DEF TurnsAgree
  <2>5. ApprovalsAgree(q.approvals, m.approvals)
    <3>1. DOMAIN l.approvals = DOMAIN r.approvals
          /\ \A a \in DOMAIN r.approvals : SameApproval(r.approvals[a], l.approvals[a])
      BY <1>5 DEF Agree, ApprovalsAgree
    <3>2. \A a \in DOMAIN r.approvals : r.approvals[a] \in ApprovalOf(r.threads)
      BY RuntimeFields, MapIs
    <3>3. ASSUME NEW a \in DOMAIN r.approvals PROVE SameApproval(r.approvals[a], m.approvals[a])
      BY <2>3, <3>1, <3>2 DEF SameApproval, ApprovalOf
    <3> QED BY <1>4, <2>3, <3>1, <3>3 DEF ApprovalsAgree
  <2>6. SameRest(q, m)
    BY <1>4, <1>5, <2>3 DEF Agree, SameRest
  <2> QED BY <2>2, <2>3, <2>4, <2>5, <2>6 DEF Agree
<1> QED BY <1>1, <1>3, <1>5 DEF Tells

-----------------------------------------------------------------------------
(* Approvals and questions.                                                *)

AreApprovals(A, threads) == A \in Maps(Nat \cup HostIds, ApprovalOf(threads))
SetsApprovals(r, q, n, A) == q = [r EXCEPT !.nextApproval = n, !.approvals = A]

LEMMA ApprovalsKept ==
  ASSUME NEW r, NEW q, NEW n \in Nat, NEW A,
         IsRuntime(r), AreApprovals(A, r.threads), SetsApprovals(r, q, n, A)
  PROVE  /\ IsRuntime(q) /\ q \in Runtimes(r) /\ SameRest(r, q)
         /\ q.turns = r.turns /\ q.approvals = A
BY DEF IsRuntime, Runtimes, SameRest, AreApprovals, SetsApprovals

\* The turn an approval is for goes on, in the view of a replay too.
GoesOn(r, owner) ==
  owner.turn \in DOMAIN r.turns => ~Terminal(r.turns[owner.turn].status)

LEMMA ApprovalTells ==
  ASSUME NEW r, NEW q, NEW n \in Nat, NEW id, NEW owner, NEW new, NEW e,
         IsRuntime(r), id \in Nat \cup HostIds, owner \in ApprovalOf(r.threads),
         owner.outcome = "pending", GoesOn(r, owner),
         new = Put(r.approvals, id, owner), SetsApprovals(r, q, n, new),
         e = [kind |-> "ApprovalRequested", id |-> id, owner |-> owner]
  PROVE  /\ IsRuntime(q) /\ q \in Runtimes(r)
         /\ q.turns = r.turns /\ q.approvals = new
         /\ Tells(r, q, e)
<1>2. /\ IsRuntime(q) /\ q \in Runtimes(r) /\ SameRest(r, q)
      /\ q.turns = r.turns /\ q.approvals = new
  <2>1. AreApprovals(new, r.threads)
    BY RuntimeFields, PutInMap DEF AreApprovals
  <2> QED BY <2>1, ApprovalsKept
<1>3. ASSUME NEW l, IsRuntime(l), Agree(r, l)
      PROVE  IsRuntime(ApplyReplayedEvent(l, e)) /\ Agree(q, ApplyReplayedEvent(l, e))
  <2>1. PICK k : k = Status(l, owner.turn, "WaitingForApproval")
    OBVIOUS
  <2>2. /\ IsRuntime(k) /\ SameRest(l, k) /\ k.approvals = l.approvals
        /\ TurnsAgree(r.turns, k.turns)
    <3>1. CASE owner.turn \notin DOMAIN l.turns
      BY <1>3, <2>1, <3>1 DEF Status, SameRest, Agree
    <3>2. CASE owner.turn \in DOMAIN l.turns
      <4>1. "WaitingForApproval" \in Statuses
        BY DEF Statuses
      <4>2. k = [l EXCEPT !.turns[owner.turn].status = "WaitingForApproval"]
        BY <2>1, <3>2 DEF Status
      <4>3. /\ IsRuntime(k)
            /\ k.turns = [t \in DOMAIN l.turns |->
                 IF t = owner.turn THEN [l.turns[t] EXCEPT !.status = "WaitingForApproval"]
                 ELSE l.turns[t]]
        BY <1>3, <3>2, <4>1, <4>2, TurnSet
      <4>4. SameRest(l, k) /\ k.approvals = l.approvals
        BY <1>3, <4>2 DEF SameRest, IsRuntime, Runtimes
      <4>5. TurnsAgree(r.turns, k.turns)
        <5>1. \A t \in DOMAIN l.turns : l.turns[t] \in TurnOf(l.threads)
          BY <1>3, RuntimeFields, MapIs
        <5>2. DOMAIN l.turns = DOMAIN r.turns /\ \A t \in DOMAIN r.turns : SameEnd(r.turns[t], l.turns[t])
          BY <1>3 DEF Agree, TurnsAgree
        <5>3. ASSUME NEW t \in DOMAIN r.turns PROVE SameEnd(r.turns[t], k.turns[t])
          <6>1. CASE t = owner.turn
            <7>1. k.turns[t].status = "WaitingForApproval"
              BY <3>2, <4>3, <5>1, <6>1 DEF TurnOf
            <7>2. ~Terminal(r.turns[t].status)
              BY <6>1 DEF GoesOn
            <7> QED BY <7>1, <7>2 DEF SameEnd, Terminal
          <6>2. CASE t # owner.turn
            BY <4>3, <5>2, <6>2
          <6> QED BY <6>1, <6>2
        <5> QED BY <4>3, <5>2, <5>3 DEF TurnsAgree
      <4> QED BY <4>3, <4>4, <4>5
    <3> QED BY <3>1, <3>2
  <2>3. PICK number \in Nat : number = MaxOf(k.nextApproval, NumericSuffix(id))
    BY <2>2, RuntimeFields DEF MaxOf, NumericSuffix
  <2>4. PICK A : A = Put(l.approvals, id, owner)
    OBVIOUS
  <2>5. AreApprovals(A, k.threads)
    <3>1. k.threads = r.threads /\ l.threads = r.threads
      BY <1>3, <2>2 DEF Agree, SameRest
    <3> QED BY <1>3, <2>4, <3>1, RuntimeFields, PutInMap DEF AreApprovals
  <2>6. PICK m : m = [k EXCEPT !.nextApproval = number, !.approvals = A]
    OBVIOUS
  <2>7. ApplyReplayedEvent(l, e) = m
    <3>1. ApplyReplayedEvent(l, e) = [k EXCEPT !.approvals = Put(@, id, owner),
                                               !.nextApproval = MaxOf(@, NumericSuffix(id))]
      BY <2>1 DEF ApplyReplayedEvent
    <3>2. @ = [k EXCEPT !.nextApproval = number, !.approvals = A]
      BY <2>2, <2>3, <2>4
    <3> QED BY <2>6, <3>1, <3>2
  <2>8. /\ IsRuntime(m) /\ SameRest(k, m) /\ m.turns = k.turns /\ m.approvals = A
    <3>1. SetsApprovals(k, m, number, A)
      BY <2>6 DEF SetsApprovals
    <3> QED BY <2>2, <2>5, <3>1, ApprovalsKept
  <2>9. ApprovalsAgree(q.approvals, m.approvals)
    <3>1. DOMAIN l.approvals = DOMAIN r.approvals
          /\ \A a \in DOMAIN r.approvals : SameApproval(r.approvals[a], l.approvals[a])
      BY <1>3 DEF Agree, ApprovalsAgree
    <3>2. q.approvals = Put(r.approvals, id, owner) /\ m.approvals = Put(l.approvals, id, owner)
      BY <1>2, <2>4, <2>8
    <3>3. SameApproval(owner, owner)
      BY DEF SameApproval
    <3> QED BY <3>1, <3>2, <3>3 DEF ApprovalsAgree, Put
  <2>10. TurnsAgree(q.turns, m.turns)
    BY <1>2, <2>2, <2>8
  <2>11. SameRest(q, m)
    BY <1>2, <1>3, <2>2, <2>8 DEF Agree, SameRest
  <2> QED BY <2>7, <2>8, <2>9, <2>10, <2>11 DEF Agree
<1> QED BY <1>2, <1>3 DEF Tells

LEMMA OutcomeSet ==
  ASSUME NEW r, IsRuntime(r), NEW id \in DOMAIN r.approvals, NEW outcome \in Outcomes,
         NEW q, q = [r EXCEPT !.approvals[id].outcome = outcome]
  PROVE  /\ IsRuntime(q) /\ SameRest(r, q) /\ q.turns = r.turns
         /\ q.approvals = [a \in DOMAIN r.approvals |->
              IF a = id THEN [r.approvals[a] EXCEPT !.outcome = outcome] ELSE r.approvals[a]]
<1>1. /\ r.approvals = [a \in DOMAIN r.approvals |-> r.approvals[a]]
      /\ \A a \in DOMAIN r.approvals : r.approvals[a] \in ApprovalOf(r.threads)
  BY RuntimeFields, MapIs
<1>2. [r.approvals[id] EXCEPT !.outcome = outcome] \in ApprovalOf(r.threads)
  BY <1>1 DEF ApprovalOf
<1>3. PICK A : A = [r.approvals EXCEPT ![id] = [r.approvals[id] EXCEPT !.outcome = outcome]]
  OBVIOUS
<1>4. A \in Maps(Nat \cup HostIds, ApprovalOf(r.threads))
  BY <1>2, <1>3, RuntimeFields, ExceptInMap
<1>5. q = [r EXCEPT !.approvals = A]
  BY <1>3
<1>7. IsRuntime(q) /\ SameRest(r, q) /\ q.turns = r.turns /\ q.approvals = A
  BY <1>4, <1>5 DEF IsRuntime, Runtimes, SameRest
<1>8. A = [a \in DOMAIN r.approvals |->
             IF a = id THEN [r.approvals[a] EXCEPT !.outcome = outcome] ELSE r.approvals[a]]
  BY <1>1, <1>3
<1> QED BY <1>7, <1>8

LEMMA AnswerTells ==
  ASSUME NEW r, IsRuntime(r), NEW id \in DOMAIN r.approvals, NEW outcome \in Outcomes
  PROVE  LET q == [r EXCEPT !.approvals[id].outcome = outcome]
         IN  IsRuntime(q) /\ Tells(r, q, [kind |-> "ApprovalResolved", id |-> id, outcome |-> outcome])
<1> DEFINE e == [kind |-> "ApprovalResolved", id |-> id, outcome |-> outcome]
<1>1. PICK q : q = [r EXCEPT !.approvals[id].outcome = outcome]
  OBVIOUS
<1>2. /\ IsRuntime(q) /\ SameRest(r, q) /\ q.turns = r.turns
      /\ q.approvals = [a \in DOMAIN r.approvals |->
           IF a = id THEN [r.approvals[a] EXCEPT !.outcome = outcome] ELSE r.approvals[a]]
  BY <1>1, OutcomeSet
<1>3. ASSUME NEW l, IsRuntime(l), Agree(r, l)
      PROVE  IsRuntime(ApplyReplayedEvent(l, e)) /\ Agree(q, ApplyReplayedEvent(l, e))
  <2>1. /\ DOMAIN l.approvals = DOMAIN r.approvals
        /\ \A a \in DOMAIN r.approvals : SameApproval(r.approvals[a], l.approvals[a])
    BY <1>3 DEF Agree, ApprovalsAgree
  <2>2. PICK m : m = [l EXCEPT !.approvals[id].outcome = outcome]
    OBVIOUS
  <2>3. ApplyReplayedEvent(l, e) = m
    BY <2>1, <2>2 DEF ApplyReplayedEvent
  <2>4. /\ IsRuntime(m) /\ SameRest(l, m) /\ m.turns = l.turns
        /\ m.approvals = [a \in DOMAIN l.approvals |->
             IF a = id THEN [l.approvals[a] EXCEPT !.outcome = outcome] ELSE l.approvals[a]]
    BY <1>3, <2>1, <2>2, OutcomeSet
  <2>5. \A a \in DOMAIN r.approvals : r.approvals[a] \in ApprovalOf(r.threads)
    BY RuntimeFields, MapIs
  <2>6. ASSUME NEW a \in DOMAIN r.approvals PROVE SameApproval(q.approvals[a], m.approvals[a])
    <3>1. CASE a = id
      <4>1. SameApproval(r.approvals[a], l.approvals[a]) /\ r.approvals[a] \in ApprovalOf(r.threads)
        BY <2>1, <2>5
      <4>2. [l.approvals[a] EXCEPT !.outcome = outcome] = [r.approvals[a] EXCEPT !.outcome = outcome]
        BY <4>1 DEF SameApproval, ApprovalOf
      <4>3. q.approvals[a] = m.approvals[a]
        BY <1>2, <2>1, <2>4, <3>1, <4>2
      <4> QED BY <4>3 DEF SameApproval
    <3>2. CASE a # id
      BY <1>2, <2>1, <2>4, <3>2
    <3> QED BY <3>1, <3>2
  <2>7. ApprovalsAgree(q.approvals, m.approvals)
    BY <1>2, <2>1, <2>4, <2>6 DEF ApprovalsAgree
  <2>8. TurnsAgree(q.turns, m.turns) /\ SameRest(q, m)
    BY <1>2, <1>3, <2>4 DEF Agree, SameRest
  <2> QED BY <2>3, <2>4, <2>7, <2>8 DEF Agree
<1> QED BY <1>1, <1>2, <1>3 DEF Tells

\* What is changed is neither a turn nor an approval.
OnlyRest(r, q) ==
  /\ q \in [threads : {r.threads}, turns : {r.turns}, approvals : {r.approvals},
            questions : {q.questions}, plugins : {q.plugins}, servers : {q.servers},
            models : {q.models}, selected : {q.selected}, memory : {q.memory},
            todos : {q.todos}, suggestion : {q.suggestion},
            nextTurn : Nat, nextApproval : Nat, nextQuestion : {q.nextQuestion}]
  /\ q.selected \in q.models \cup {NoModel}

LEMMA RestKept ==
  ASSUME NEW r, IsRuntime(r), NEW q, OnlyRest(r, q)
  PROVE  IsRuntime(q) /\ q.turns = r.turns /\ q.approvals = r.approvals /\ q.threads = r.threads
BY DEF IsRuntime, Runtimes, OnlyRest

\* A replay does to what is left what the request did.
LEMMA RestTells ==
  ASSUME NEW r, IsRuntime(r), NEW q, OnlyRest(r, q), NEW e,
         \A l : IsRuntime(l) /\ Agree(r, l) =>
           OnlyRest(l, ApplyReplayedEvent(l, e)) /\ SameRest(q, ApplyReplayedEvent(l, e))
  PROVE  IsRuntime(q) /\ Tells(r, q, e)
<1>1. IsRuntime(q) /\ q.turns = r.turns /\ q.approvals = r.approvals
  BY RestKept
<1>2. ASSUME NEW l, IsRuntime(l), Agree(r, l)
      PROVE  IsRuntime(ApplyReplayedEvent(l, e)) /\ Agree(q, ApplyReplayedEvent(l, e))
  <2>1. PICK m : m = ApplyReplayedEvent(l, e)
    OBVIOUS
  <2>2. OnlyRest(l, m) /\ SameRest(q, m)
    BY <1>2, <2>1
  <2>3. IsRuntime(m) /\ m.turns = l.turns /\ m.approvals = l.approvals
    BY <1>2, <2>2, RestKept
  <2> QED BY <1>1, <1>2, <2>1, <2>2, <2>3 DEF Agree
<1> QED BY <1>1, <1>2 DEF Tells

LEMMA QuestionTells ==
  ASSUME NEW r, IsRuntime(r), NEW id, NEW thread, NEW n
  PROVE  LET q == [r EXCEPT !.questions = Put(@, id, [thread |-> thread, resolved |-> FALSE]),
                            !.nextQuestion = n]
         IN  IsRuntime(q) /\ Tells(r, q, [kind |-> "QuestionRequested", id |-> id, thread |-> thread])
<1> DEFINE e == [kind |-> "QuestionRequested", id |-> id, thread |-> thread]
           question == [thread |-> thread, resolved |-> FALSE]
<1>1. PICK q : q = [r EXCEPT !.questions = Put(@, id, question), !.nextQuestion = n]
  OBVIOUS
<1>2. OnlyRest(r, q)
  BY <1>1 DEF OnlyRest, IsRuntime, Runtimes
<1>3. ASSUME NEW l, IsRuntime(l), Agree(r, l)
      PROVE  OnlyRest(l, ApplyReplayedEvent(l, e)) /\ SameRest(q, ApplyReplayedEvent(l, e))
  <2>1. PICK number : number = MaxOf(l.nextQuestion, NumericSuffix(id))
    OBVIOUS
  <2>2. PICK m : m = [l EXCEPT !.questions = Put(@, id, question), !.nextQuestion = number]
    OBVIOUS
  <2>3. ApplyReplayedEvent(l, e) = m
    BY <1>3, <2>1, <2>2 DEF ApplyReplayedEvent, IsRuntime, Runtimes
  <2>4. OnlyRest(l, m)
    BY <1>3, <2>2 DEF OnlyRest, IsRuntime, Runtimes
  <2>5. SameRest(q, m)
    BY <1>1, <1>3, <2>2 DEF Agree, SameRest, IsRuntime, Runtimes
  <2> QED BY <2>3, <2>4, <2>5
<1> QED BY <1>1, <1>2, <1>3, RestTells

LEMMA QuestionAnswerTells ==
  ASSUME NEW r, IsRuntime(r), NEW id \in DOMAIN r.questions
  PROVE  LET q == [r EXCEPT !.questions[id].resolved = TRUE]
         IN  IsRuntime(q) /\ Tells(r, q, [kind |-> "QuestionResolved", id |-> id])
<1> DEFINE e == [kind |-> "QuestionResolved", id |-> id]
<1>1. PICK new : new = [r.questions EXCEPT ![id].resolved = TRUE]
  OBVIOUS
<1>2. PICK q : q = [r EXCEPT !.questions = new]
  OBVIOUS
<1>3. [r EXCEPT !.questions[id].resolved = TRUE] = q
  BY <1>1, <1>2
<1>4. OnlyRest(r, q)
  BY <1>2 DEF OnlyRest, IsRuntime, Runtimes
<1>5. ASSUME NEW l, IsRuntime(l), Agree(r, l)
      PROVE  OnlyRest(l, ApplyReplayedEvent(l, e)) /\ SameRest(q, ApplyReplayedEvent(l, e))
  <2>1. l.questions = r.questions
    BY <1>5 DEF Agree, SameRest
  <2>2. PICK m : m = [l EXCEPT !.questions = new]
    OBVIOUS
  <2>3. ApplyReplayedEvent(l, e) = m
    BY <1>1, <2>1, <2>2 DEF ApplyReplayedEvent
  <2>4. OnlyRest(l, m)
    BY <1>5, <2>2 DEF OnlyRest, IsRuntime, Runtimes
  <2>5. SameRest(q, m)
    BY <1>2, <1>5, <2>2 DEF Agree, SameRest, IsRuntime, Runtimes
  <2> QED BY <2>3, <2>4, <2>5
<1> QED BY <1>3, <1>4, <1>5, RestTells

-----------------------------------------------------------------------------
(* The registries.                                                         *)

LEMMA PluginTells ==
  ASSUME NEW r, IsRuntime(r), NEW id
  PROVE  LET q == [r EXCEPT !.plugins = @ \cup {id}]
         IN  IsRuntime(q) /\ Tells(r, q, [kind |-> "PluginRegistered", id |-> id])
<1> DEFINE e == [kind |-> "PluginRegistered", id |-> id]
<1>1. PICK q : q = [r EXCEPT !.plugins = @ \cup {id}]
  OBVIOUS
<1>2. OnlyRest(r, q)
  BY <1>1 DEF OnlyRest, IsRuntime, Runtimes
<1>3. ASSUME NEW l, IsRuntime(l), Agree(r, l)
      PROVE  OnlyRest(l, ApplyReplayedEvent(l, e)) /\ SameRest(q, ApplyReplayedEvent(l, e))
  <2>1. PICK m : m = [l EXCEPT !.plugins = @ \cup {id}]
    OBVIOUS
  <2>2. ApplyReplayedEvent(l, e) = m
    BY <2>1 DEF ApplyReplayedEvent
  <2> QED BY <1>1, <1>3, <2>1, <2>2 DEF OnlyRest, Agree, SameRest, IsRuntime, Runtimes
<1> QED BY <1>1, <1>2, <1>3, RestTells

LEMMA ServerTells ==
  ASSUME NEW r, IsRuntime(r), NEW id
  PROVE  LET q == [r EXCEPT !.servers = @ \cup {id}]
         IN  IsRuntime(q) /\ Tells(r, q, [kind |-> "McpServerRegistered", id |-> id])
<1> DEFINE e == [kind |-> "McpServerRegistered", id |-> id]
<1>1. PICK q : q = [r EXCEPT !.servers = @ \cup {id}]
  OBVIOUS
<1>2. OnlyRest(r, q)
  BY <1>1 DEF OnlyRest, IsRuntime, Runtimes
<1>3. ASSUME NEW l, IsRuntime(l), Agree(r, l)
      PROVE  OnlyRest(l, ApplyReplayedEvent(l, e)) /\ SameRest(q, ApplyReplayedEvent(l, e))
  <2>1. PICK m : m = [l EXCEPT !.servers = @ \cup {id}]
    OBVIOUS
  <2>2. ApplyReplayedEvent(l, e) = m
    BY <2>1 DEF ApplyReplayedEvent
  <2> QED BY <1>1, <1>3, <2>1, <2>2 DEF OnlyRest, Agree, SameRest, IsRuntime, Runtimes
<1> QED BY <1>1, <1>2, <1>3, RestTells

LEMMA ModelTells ==
  ASSUME NEW r, IsRuntime(r), NEW id
  PROVE  LET q == [r EXCEPT !.models = @ \cup {id}]
         IN  IsRuntime(q) /\ Tells(r, q, [kind |-> "ModelRegistered", id |-> id])
<1> DEFINE e == [kind |-> "ModelRegistered", id |-> id]
<1>1. PICK q : q = [r EXCEPT !.models = @ \cup {id}]
  OBVIOUS
<1>2. OnlyRest(r, q)
  BY <1>1 DEF OnlyRest, IsRuntime, Runtimes
<1>3. ASSUME NEW l, IsRuntime(l), Agree(r, l)
      PROVE  OnlyRest(l, ApplyReplayedEvent(l, e)) /\ SameRest(q, ApplyReplayedEvent(l, e))
  <2>1. PICK m : m = [l EXCEPT !.models = @ \cup {id}]
    OBVIOUS
  <2>2. ApplyReplayedEvent(l, e) = m
    BY <2>1 DEF ApplyReplayedEvent
  <2> QED BY <1>1, <1>3, <2>1, <2>2 DEF OnlyRest, Agree, SameRest, IsRuntime, Runtimes
<1> QED BY <1>1, <1>2, <1>3, RestTells

LEMMA ModelChoiceTells ==
  ASSUME NEW r, IsRuntime(r), NEW id \in r.models
  PROVE  LET q == [r EXCEPT !.selected = id]
         IN  IsRuntime(q) /\ Tells(r, q, [kind |-> "ModelSelected", id |-> id])
<1> DEFINE e == [kind |-> "ModelSelected", id |-> id]
<1>1. PICK q : q = [r EXCEPT !.selected = id]
  OBVIOUS
<1>2. OnlyRest(r, q)
  BY <1>1 DEF OnlyRest, IsRuntime, Runtimes
<1>3. ASSUME NEW l, IsRuntime(l), Agree(r, l)
      PROVE  OnlyRest(l, ApplyReplayedEvent(l, e)) /\ SameRest(q, ApplyReplayedEvent(l, e))
  <2>1. PICK m : m = [l EXCEPT !.selected = id]
    OBVIOUS
  <2>2. ApplyReplayedEvent(l, e) = m
    BY <2>1 DEF ApplyReplayedEvent
  <2> QED BY <1>1, <1>3, <2>1, <2>2 DEF OnlyRest, Agree, SameRest, IsRuntime, Runtimes
<1> QED BY <1>1, <1>2, <1>3, RestTells

LEMMA MemoryTells ==
  ASSUME NEW r, IsRuntime(r), NEW enabled
  PROVE  LET q == [r EXCEPT !.memory = enabled]
         IN  IsRuntime(q) /\ Tells(r, q, [kind |-> "MemoryStatusChanged", enabled |-> enabled])
<1> DEFINE e == [kind |-> "MemoryStatusChanged", enabled |-> enabled]
<1>1. PICK q : q = [r EXCEPT !.memory = enabled]
  OBVIOUS
<1>2. OnlyRest(r, q)
  BY <1>1 DEF OnlyRest, IsRuntime, Runtimes
<1>3. ASSUME NEW l, IsRuntime(l), Agree(r, l)
      PROVE  OnlyRest(l, ApplyReplayedEvent(l, e)) /\ SameRest(q, ApplyReplayedEvent(l, e))
  <2>1. PICK m : m = [l EXCEPT !.memory = enabled]
    OBVIOUS
  <2>2. ApplyReplayedEvent(l, e) = m
    BY <2>1 DEF ApplyReplayedEvent
  <2> QED BY <1>1, <1>3, <2>1, <2>2 DEF OnlyRest, Agree, SameRest, IsRuntime, Runtimes
<1> QED BY <1>1, <1>2, <1>3, RestTells

LEMMA TodosTell ==
  ASSUME NEW r, IsRuntime(r), NEW todos
  PROVE  LET q == [r EXCEPT !.todos = todos]
         IN  IsRuntime(q) /\ Tells(r, q, [kind |-> "TodosUpdated", todos |-> todos])
<1> DEFINE e == [kind |-> "TodosUpdated", todos |-> todos]
<1>1. PICK q : q = [r EXCEPT !.todos = todos]
  OBVIOUS
<1>2. OnlyRest(r, q)
  BY <1>1 DEF OnlyRest, IsRuntime, Runtimes
<1>3. ASSUME NEW l, IsRuntime(l), Agree(r, l)
      PROVE  OnlyRest(l, ApplyReplayedEvent(l, e)) /\ SameRest(q, ApplyReplayedEvent(l, e))
  <2>1. PICK m : m = [l EXCEPT !.todos = todos]
    OBVIOUS
  <2>2. ApplyReplayedEvent(l, e) = m
    BY <2>1 DEF ApplyReplayedEvent
  <2> QED BY <1>1, <1>3, <2>1, <2>2 DEF OnlyRest, Agree, SameRest, IsRuntime, Runtimes
<1> QED BY <1>1, <1>2, <1>3, RestTells

LEMMA SuggestionTells ==
  ASSUME NEW r, IsRuntime(r), NEW message
  PROVE  LET q == [r EXCEPT !.suggestion = message]
         IN  IsRuntime(q) /\ Tells(r, q, [kind |-> "SuggestionOffered", message |-> message])
<1> DEFINE e == [kind |-> "SuggestionOffered", message |-> message]
<1>1. PICK q : q = [r EXCEPT !.suggestion = message]
  OBVIOUS
<1>2. OnlyRest(r, q)
  BY <1>1 DEF OnlyRest, IsRuntime, Runtimes
<1>3. ASSUME NEW l, IsRuntime(l), Agree(r, l)
      PROVE  OnlyRest(l, ApplyReplayedEvent(l, e)) /\ SameRest(q, ApplyReplayedEvent(l, e))
  <2>1. PICK m : m = [l EXCEPT !.suggestion = message]
    OBVIOUS
  <2>2. ApplyReplayedEvent(l, e) = m
    BY <2>1 DEF ApplyReplayedEvent
  <2> QED BY <1>1, <1>3, <2>1, <2>2 DEF OnlyRest, Agree, SameRest, IsRuntime, Runtimes
<1> QED BY <1>1, <1>2, <1>3, RestTells

\* Events a replay does not act on.
NoteKinds == {"ToolBatchStarted", "ToolBatchCompleted", "ToolCallCompleted", "Diagnostic", "HandoffCompacted"}

LEMMA NoteTells ==
  ASSUME NEW r, NEW e, e.kind \in NoteKinds
  PROVE  Tells(r, r, e)
<1>1. \A l : ApplyReplayedEvent(l, e) = l
  BY DEF ApplyReplayedEvent, NoteKinds
<1> QED BY <1>1 DEF Tells

-----------------------------------------------------------------------------
(* The events of a request.                                                *)

LEMMA HostFolds ==
  /\ \A l, log : Replay(l, log) = Events!Fold(l, log)
  /\ \A uses : PartitionOrderedToolBatches(uses) = Placing!Fold(<<>>, uses)
  /\ \A s, uses : FoldLeft(EmitToolCallStarted, s, uses) = Starting!Fold(s, uses)
  /\ \A s, uses : FoldLeft(EmitToolResultCompleted, s, uses) = Completing!Fold(s, uses)
  /\ \A s, batches : RecordedBatches(s, batches) = Recording!Fold(s, batches)
  /\ \A s, turns : FoldLeft(AbortTurn, s, turns) = Aborting!Fold(s, turns)
<1>1. \A l, log : Replay(l, log) = Events!Fold(l, log)
  BY DEF Replay, Events!Fold, FoldLeft, Events!FoldLeft, MapThenFoldSet,
         Events!MapThenFoldSet, Max, Events!Max
<1>2. \A uses : PartitionOrderedToolBatches(uses) = Placing!Fold(<<>>, uses)
  BY DEF PartitionOrderedToolBatches, Placing!Fold, FoldLeft, Placing!FoldLeft,
         MapThenFoldSet, Placing!MapThenFoldSet, Max, Placing!Max
<1>3. \A s, uses : FoldLeft(EmitToolCallStarted, s, uses) = Starting!Fold(s, uses)
  BY DEF Starting!Fold, FoldLeft, Starting!FoldLeft, MapThenFoldSet,
         Starting!MapThenFoldSet, Max, Starting!Max
<1>4. \A s, uses : FoldLeft(EmitToolResultCompleted, s, uses) = Completing!Fold(s, uses)
  BY DEF Completing!Fold, FoldLeft, Completing!FoldLeft, MapThenFoldSet,
         Completing!MapThenFoldSet, Max, Completing!Max
<1>5. \A s, batches : RecordedBatches(s, batches) = Recording!Fold(s, batches)
  BY DEF RecordedBatches, Recording!Fold, FoldLeft, Recording!FoldLeft, MapThenFoldSet,
         Recording!MapThenFoldSet, Max, Recording!Max
<1>6. \A s, turns : FoldLeft(AbortTurn, s, turns) = Aborting!Fold(s, turns)
  BY DEF Aborting!Fold, FoldLeft, Aborting!FoldLeft, MapThenFoldSet,
         Aborting!MapThenFoldSet, Max, Aborting!Max
<1> QED BY <1>1, <1>2, <1>3, <1>4, <1>5, <1>6

LEMMA NothingFollows ==
  ASSUME NEW r, NEW q, IsRuntime(q), SameRest(r, q),
         q.turns = r.turns, q.approvals = r.approvals
  PROVE  Follows(r, q, <<>>)
<1>1. <<>> \in Seq({})
  OBVIOUS
<1>2. \A l : Replay(l, <<>>) = l
  BY HostFolds, Events!FoldEmpty
<1>3. \A l : Agree(r, l) => Agree(q, l)
  BY DEF Agree, SameRest
<1> QED BY <1>1, <1>2, <1>3 DEF Follows, IsLog

LEMMA OneMoreFollows ==
  ASSUME NEW r, NEW p, NEW q, NEW log, NEW e, Follows(r, p, log), IsRuntime(q), Tells(p, q, e)
  PROVE  Follows(r, q, Append(log, e))
<1>1. PICK S : log \in Seq(S)
  BY DEF Follows, IsLog
<1> DEFINE T == S \cup {e}
<1>2. log \in Seq(T) /\ e \in T
  BY <1>1
<1> HIDE DEF T
<1>3. Append(log, e) \in Seq(T)
  BY <1>2
<1>4. \A l : Replay(l, Append(log, e)) = ApplyReplayedEvent(Replay(l, log), e)
  BY <1>2, HostFolds, Events!FoldAppend
<1>5. ASSUME NEW l, IsRuntime(l), Agree(r, l)
      PROVE  IsRuntime(Replay(l, Append(log, e))) /\ Agree(q, Replay(l, Append(log, e)))
  <2>1. PICK m : m = Replay(l, log)
    OBVIOUS
  <2>2. IsRuntime(m) /\ Agree(p, m)
    BY <1>5, <2>1 DEF Follows
  <2> QED BY <1>4, <2>1, <2>2 DEF Tells
<1> QED BY <1>3, <1>5 DEF Follows, IsLog

LEMMA OneFollows ==
  ASSUME NEW r, NEW q, NEW e, IsRuntime(r), IsRuntime(q), Tells(r, q, e)
  PROVE  Follows(r, q, <<e>>)
<1>1. Follows(r, r, <<>>)
  BY NothingFollows DEF SameRest
<1>2. <<e>> = Append(<<>>, e)
  OBVIOUS
<1> QED BY <1>1, <1>2, OneMoreFollows

-----------------------------------------------------------------------------
(* The invariant.                                                          *)

\* The user has granted what an approval says was granted.
ConsentOf(owner) == [thread |-> owner.thread, turn |-> owner.turn, call |-> owner.call]
GrantedIn(r, given) ==
  \A a \in DOMAIN r.approvals :
    r.approvals[a].outcome = "approved" => ConsentOf(r.approvals[a]) \in given

Told ==
  /\ IsRuntime(Replay(disk, unsaved))
  /\ Agree(rt, Replay(disk, unsaved))

Saved ==
  /\ IsRuntime(rt) /\ IsRuntime(disk)
  /\ IsLog(unsaved)
  /\ Told
  /\ GrantedIn(rt, granted) /\ GrantedIn(disk, granted)
  /\ crashes \in 0..MaxCrashes

Bounded == asked \in [turns : 0..MaxRequests.turns, rest : 0..MaxRequests.rest]

HostInv == Saved /\ SuccessNeedsConsent /\ Bounded

\* A replay grants no more than there was.
LEMMA ReplayGrantsNoMore ==
  ASSUME NEW r, NEW l, NEW given, IsRuntime(r), ApprovalsAgree(r.approvals, l.approvals),
         GrantedIn(r, given)
  PROVE  GrantedIn(l, given)
<1>1. \A a \in DOMAIN r.approvals : r.approvals[a] \in ApprovalOf(r.threads)
  BY RuntimeFields, MapIs
<1>2. DOMAIN l.approvals = DOMAIN r.approvals
      /\ \A a \in DOMAIN r.approvals : SameApproval(r.approvals[a], l.approvals[a])
  BY DEF ApprovalsAgree
<1>3. ASSUME NEW a \in DOMAIN l.approvals, l.approvals[a].outcome = "approved"
      PROVE  l.approvals[a] = r.approvals[a]
  BY <1>1, <1>2, <1>3 DEF SameApproval, ApprovalOf
<1> QED BY <1>2, <1>3 DEF GrantedIn

LEMMA RequestKeeps ==
  ASSUME Saved, NEW s, Request(s), Follows(rt, s.rt, s.log),
         GrantedIn(s.rt, granted'), granted \subseteq granted'
  PROVE  Saved'
<1>1. IsRuntime(s.rt) /\ IsLog(s.log)
  BY DEF Follows
<1>2. rt' = s.rt /\ crashes' = crashes /\ crashes \in 0..MaxCrashes
  BY DEF Request, Saved
<1>3. PICK before : before = Replay(disk, unsaved)
  OBVIOUS
<1>4. PICK after : after = Replay(before, s.log)
  OBVIOUS
<1>5. IsRuntime(before) /\ Agree(rt, before)
  BY <1>3 DEF Saved, Told
<1>6. IsRuntime(after) /\ Agree(s.rt, after)
  BY <1>4, <1>5 DEF Follows
<1>7. PICK S : unsaved \in Seq(S) /\ s.log \in Seq(S)
  <2>1. PICK A : unsaved \in Seq(A)
    BY DEF Saved, IsLog
  <2>2. PICK B : s.log \in Seq(B)
    BY <1>1 DEF IsLog
  <2>3. unsaved \in Seq(A \cup B) /\ s.log \in Seq(A \cup B)
    BY <2>1, <2>2
  <2> QED BY <2>3
<1>8. after = Replay(disk, unsaved \o s.log)
  BY <1>3, <1>4, <1>7, HostFolds, Events!FoldConcat
<1>9. CASE s.refused
  <2>1. unsaved' = unsaved \o s.log /\ disk' = disk
    BY <1>9 DEF Request
  <2>2. unsaved \o s.log \in Seq(S)
    BY <1>7
  <2>3. Told'
    BY <1>2, <1>6, <1>8, <2>1 DEF Told
  <2>4. GrantedIn(disk, granted)'
    BY <2>1 DEF Saved, GrantedIn
  <2>5. IsLog(unsaved)'
    BY <2>1, <2>2 DEF IsLog
  <2> QED BY <1>1, <1>2, <2>1, <2>3, <2>4, <2>5 DEF Saved
<1>10. CASE ~s.refused
  <2>1. unsaved' = <<>> /\ disk' = after
    BY <1>8, <1>10 DEF Request, ReplayEvents, Replay
  <2>2. Replay(after, <<>>) = after
    BY HostFolds, Events!FoldEmpty
  <2>3. Told'
    BY <1>2, <1>6, <2>1, <2>2 DEF Told
  <2>4. GrantedIn(disk, granted)'
    BY <1>1, <1>6, <2>1, ReplayGrantsNoMore DEF Agree
  <2>5. <<>> \in Seq({})
    OBVIOUS
  <2>6. IsLog(unsaved)'
    BY <2>1, <2>5 DEF IsLog
  <2> QED BY <1>1, <1>2, <1>6, <2>1, <2>3, <2>4, <2>6 DEF Saved
<1> QED BY <1>9, <1>10

-----------------------------------------------------------------------------
(* Recorded tools.                                                         *)

ToolUse == [call : Calls, gated : BOOLEAN, ok : BOOLEAN, safe : BOOLEAN]

ToolEvents(threads) ==
  [kind : {"TurnStarted"}, turn : Nat, thread : DOMAIN threads]
  \cup [kind : {"ToolBatchStarted", "ToolBatchCompleted"}]
  \cup [kind : {"ApprovalRequested"}, id : Nat, owner : ApprovalOf(threads)]
  \cup [kind : {"ToolCallCompleted"}, turn : Nat, use : ToolUse]

ConsentedTo(thread, turn, call, given) ==
  \E consent \in given :
    /\ consent.thread = thread
    /\ consent.call = call
    /\ consent.turn \in {turn, NoTurn}

\* A success in a log is of the turn, and if it is gated the user has consented.
Earned(s, e, given) ==
  e.kind = "ToolCallCompleted" =>
    /\ e.turn = s.turn
    /\ e.use.gated /\ e.use.ok => ConsentedTo(s.thread, s.turn, e.use.call, given)

\* A request at work on the tools of a turn that goes on.
Fine(r, s, given) ==
  /\ Follows(r, s.rt, s.log)
  /\ GrantedIn(s.rt, given)
  /\ s.turn \in DOMAIN s.rt.turns
  /\ ~Terminal(s.rt.turns[s.turn].status)
  /\ \A i \in DOMAIN s.log : Earned(s, s.log[i], given)

Steps(r, thread, turn, given) ==
  {s \in [rt : Runtimes(r), log : Seq(ToolEvents(r.threads)), refused : BOOLEAN,
          thread : {thread}, turn : {turn}] :
     Fine(r, s, given)}

\* One event more, of a runtime that has changed as it says.
LEMMA EmitFine ==
  ASSUME NEW r, NEW thread, NEW turn, NEW given, NEW s \in Steps(r, thread, turn, given),
         NEW q \in Runtimes(r), NEW e \in ToolEvents(r.threads),
         IsRuntime(q), Tells(s.rt, q, e), q.turns = s.rt.turns, GrantedIn(q, given),
         Earned(s, e, given), NEW t, t = [s EXCEPT !.rt = q, !.log = Append(@, e)]
  PROVE  t \in Steps(r, thread, turn, given)
<1>1. /\ s.rt \in Runtimes(r) /\ s.log \in Seq(ToolEvents(r.threads)) /\ s.refused \in BOOLEAN
      /\ s.thread = thread /\ s.turn = turn
      /\ s = [rt |-> s.rt, log |-> s.log, refused |-> s.refused, thread |-> s.thread, turn |-> s.turn]
      /\ Fine(r, s, given)
  BY DEF Steps
<1>2. t = [rt |-> q, log |-> Append(s.log, e), refused |-> s.refused, thread |-> thread, turn |-> turn]
  BY <1>1
<1>3. Append(s.log, e) \in Seq(ToolEvents(r.threads))
  BY <1>1
<1>4. Follows(r, q, Append(s.log, e))
  BY <1>1, OneMoreFollows DEF Fine
<1>5. \A i \in DOMAIN Append(s.log, e) : Earned(s, Append(s.log, e)[i], given)
  <2>1. \A i \in DOMAIN s.log : Earned(s, s.log[i], given)
    BY <1>1 DEF Fine
  <2>2. ASSUME NEW i \in DOMAIN Append(s.log, e)
        PROVE  Append(s.log, e)[i] = e \/ (i \in DOMAIN s.log /\ Append(s.log, e)[i] = s.log[i])
    BY <1>1
  <2> QED BY <2>1, <2>2
<1>6. \A i \in DOMAIN t.log : Earned(t, t.log[i], given)
  BY <1>1, <1>2, <1>5 DEF Earned
<1>7. Fine(r, t, given)
  BY <1>1, <1>2, <1>4, <1>6 DEF Fine
<1>8. t \in [rt : Runtimes(r), log : Seq(ToolEvents(r.threads)), refused : BOOLEAN,
             thread : {thread}, turn : {turn}]
  BY <1>1, <1>2, <1>3
<1> QED BY <1>7, <1>8 DEF Steps

LEMMA SameRuntimes ==
  ASSUME NEW r, NEW p \in Runtimes(r), NEW q \in Runtimes(p)
  PROVE  q \in Runtimes(r) /\ p.threads = r.threads
BY DEF Runtimes

LEMMA StepFields ==
  ASSUME NEW r, NEW thread, NEW turn, NEW given, NEW s \in Steps(r, thread, turn, given)
  PROVE  /\ s.rt \in Runtimes(r) /\ s.log \in Seq(ToolEvents(r.threads)) /\ s.refused \in BOOLEAN
         /\ s.thread = thread /\ s.turn = turn
         /\ s = [rt |-> s.rt, log |-> s.log, refused |-> s.refused, thread |-> s.thread, turn |-> s.turn]
         /\ Fine(r, s, given)
         /\ IsRuntime(s.rt)
BY DEF Steps, Fine, Follows

LEMMA RefuseFine ==
  ASSUME NEW r, NEW thread, NEW turn, NEW given, NEW s \in Steps(r, thread, turn, given)
  PROVE  Refuse(s) \in Steps(r, thread, turn, given)
<1>1. PICK t : t = Refuse(s)
  OBVIOUS
<1>2. t = [rt |-> s.rt, log |-> s.log, refused |-> TRUE, thread |-> thread, turn |-> turn]
  <2>1. /\ s = [rt |-> s.rt, log |-> s.log, refused |-> s.refused, thread |-> s.thread, turn |-> s.turn]
        /\ s.thread = thread /\ s.turn = turn
    BY StepFields
  <2> QED BY <1>1, <2>1 DEF Refuse
<1>3. Fine(r, t, given)
  BY <1>2, StepFields DEF Fine, Earned
<1> QED BY <1>1, <1>2, <1>3, StepFields DEF Steps

LEMMA NoteFine ==
  ASSUME NEW r, NEW thread, NEW turn, NEW given, NEW s \in Steps(r, thread, turn, given),
         NEW e \in ToolEvents(r.threads), e.kind \in NoteKinds, Earned(s, e, given)
  PROVE  Emit(s, e) \in Steps(r, thread, turn, given)
<1>1. Tells(s.rt, s.rt, e)
  BY NoteTells
<1>2. PICK t : t = Emit(s, e)
  OBVIOUS
<1>3. t = [s EXCEPT !.rt = s.rt, !.log = Append(@, e)]
  BY <1>2, StepFields DEF Emit
<1>4. IsRuntime(s.rt) /\ s.rt \in Runtimes(r) /\ GrantedIn(s.rt, given)
  BY StepFields DEF Fine
<1> QED BY <1>1, <1>2, <1>3, <1>4, EmitFine

\* What waits for an approval is granted by nobody yet.
LEMMA PendingGrantsNothing ==
  ASSUME NEW r, NEW q, NEW id, NEW owner, NEW given, GrantedIn(r, given),
         owner.outcome = "pending", q.approvals = Put(r.approvals, id, owner)
  PROVE  GrantedIn(q, given)
BY DEF GrantedIn, Put

LEMMA StartedFine ==
  ASSUME NEW r, NEW thread \in DOMAIN r.threads, NEW turn \in Nat, NEW given,
         NEW s \in Steps(r, thread, turn, given), NEW use \in ToolUse
  PROVE  EmitToolCallStarted(s, use) \in Steps(r, thread, turn, given)
<1>1. CASE ~use.gated \/ HasApprovedToolCall(s.rt, s.thread, s.turn, use.call)
  BY <1>1 DEF EmitToolCallStarted
<1>2. CASE ~(~use.gated \/ HasApprovedToolCall(s.rt, s.thread, s.turn, use.call))
  <2>1. PICK id : id = s.rt.nextApproval + 1
    OBVIOUS
  <2>2. id \in Nat
    BY <2>1, StepFields, RuntimeFields
  <2>3. PICK owner : owner = [thread |-> thread, turn |-> turn, call |-> use.call, outcome |-> "pending"]
    OBVIOUS
  <2>4. owner \in ApprovalOf(r.threads)
    BY <2>3 DEF ApprovalOf, ToolUse, Outcomes
  <2>0. PICK new : new = Put(s.rt.approvals, id, owner)
    OBVIOUS
  <2>5. PICK q : SetsApprovals(s.rt, q, id, new)
    BY DEF SetsApprovals
  <2>6. PICK e : e = [kind |-> "ApprovalRequested", id |-> id, owner |-> owner]
    OBVIOUS
  <2>7. /\ IsRuntime(s.rt) /\ s.rt \in Runtimes(r) /\ s.rt.threads = r.threads
        /\ s.turn = turn /\ GoesOn(s.rt, owner)
    <3>1. s.rt.threads = r.threads
      BY StepFields DEF Runtimes
    <3>2. owner.turn = s.turn
      BY <2>3, StepFields
    <3> QED BY <3>1, <3>2, StepFields DEF Fine, GoesOn
  <2>8. /\ IsRuntime(q) /\ q \in Runtimes(s.rt)
        /\ q.turns = s.rt.turns /\ q.approvals = new
        /\ Tells(s.rt, q, e)
    <3>1. id \in Nat \cup HostIds /\ owner \in ApprovalOf(s.rt.threads) /\ owner.outcome = "pending"
      BY <2>2, <2>3, <2>4, <2>7
    <3>2. PICK p : p = s.rt
      OBVIOUS
    <3>3. /\ IsRuntime(p) /\ id \in Nat \cup HostIds /\ owner \in ApprovalOf(p.threads)
          /\ GoesOn(p, owner) /\ new = Put(p.approvals, id, owner) /\ SetsApprovals(p, q, id, new)
      BY <2>0, <2>5, <2>7, <3>1, <3>2
    <3>4. /\ IsRuntime(q) /\ q \in Runtimes(p)
          /\ q.turns = p.turns /\ q.approvals = new
          /\ Tells(p, q, e)
      BY <2>2, <2>6, <3>1, <3>3, ApprovalTells
    <3> QED BY <3>2, <3>4
  <2>9. q \in Runtimes(r)
    BY <2>7, <2>8, SameRuntimes
  <2>10. e \in ToolEvents(r.threads) /\ Earned(s, e, given)
    BY <2>2, <2>4, <2>6 DEF ToolEvents, Earned
  <2>11. GrantedIn(q, given)
    BY <2>3, <2>8, <2>0, StepFields, PendingGrantsNothing DEF Fine
  <2>12. PICK t : t = [s EXCEPT !.rt = q, !.log = Append(@, e)]
    OBVIOUS
  <2>13. t \in Steps(r, thread, turn, given)
    BY <2>8, <2>9, <2>10, <2>11, <2>12, EmitFine
  <2>14. EmitToolCallStarted(s, use) = t
    <3>1. /\ s = [rt |-> s.rt, log |-> s.log, refused |-> s.refused, thread |-> s.thread, turn |-> s.turn]
          /\ s.thread = thread /\ s.turn = turn
          /\ s.rt \in Runtimes(r)
      BY StepFields
    <3>2. owner = [thread |-> s.thread, turn |-> s.turn, call |-> use.call, outcome |-> "pending"]
      BY <2>3, <3>1
    <3>3. PICK u : u = [s EXCEPT !.rt.nextApproval = id, !.rt.approvals = Put(@, id, owner)]
      OBVIOUS
    <3>4. EmitToolCallStarted(s, use) = Emit(u, e)
      BY <1>2, <2>1, <2>6, <3>2, <3>3, Zenon DEF EmitToolCallStarted
    <3>5. u = [s EXCEPT !.rt = q]
      BY <2>5, <2>0, <3>1, <3>3 DEF Runtimes, SetsApprovals
    <3>6. Emit(u, e) = t
      BY <2>12, <3>1, <3>5 DEF Emit
    <3> QED BY <3>4, <3>6
  <2> QED BY <2>13, <2>14
<1> QED BY <1>1, <1>2

LEMMA CompletedFine ==
  ASSUME NEW r, NEW thread \in DOMAIN r.threads, NEW turn \in Nat, NEW given,
         NEW s \in Steps(r, thread, turn, given), NEW use \in ToolUse,
         use.gated /\ use.ok => ConsentedTo(thread, turn, use.call, given)
  PROVE  EmitToolResultCompleted(s, use) \in Steps(r, thread, turn, given)
<1>1. PICK e : e = [kind |-> "ToolCallCompleted", turn |-> turn, use |-> use]
  OBVIOUS
<1>2. EmitToolResultCompleted(s, use) = Emit(s, e)
  BY <1>1, StepFields DEF EmitToolResultCompleted
<1>3. e \in ToolEvents(r.threads) /\ e.kind \in NoteKinds
  BY <1>1 DEF ToolEvents, NoteKinds
<1>4. Earned(s, e, given)
  BY <1>1, StepFields DEF Earned
<1> QED BY <1>2, <1>3, <1>4, NoteFine

\* The call that has an approval was granted.
LEMMA ApprovedIsConsented ==
  ASSUME NEW r, NEW thread, NEW turn, NEW call, NEW given, GrantedIn(r, given),
         HasApprovedToolCall(r, thread, turn, call)
  PROVE  ConsentedTo(thread, turn, call, given)
<1>1. PICK a \in DOMAIN r.approvals :
        /\ r.approvals[a].thread = thread /\ r.approvals[a].call = call
        /\ r.approvals[a].outcome = "approved" /\ r.approvals[a].turn \in {turn, NoTurn}
  BY DEF HasApprovedToolCall
<1>2. ConsentOf(r.approvals[a]) \in given
  BY <1>1 DEF GrantedIn
<1> QED BY <1>1, <1>2 DEF ConsentedTo, ConsentOf

LEMMA ItemsFine ==
  ASSUME NEW r, NEW thread \in DOMAIN r.threads, NEW turn \in Nat, NEW given,
         NEW s \in Steps(r, thread, turn, given), NEW uses \in Seq(ToolUse)
  PROVE  RecordToolBatchItems(s, uses) \in Steps(r, thread, turn, given)
<1>1. CASE ~ValidateToolBatchItems(s.rt, s.thread, s.turn, uses)
  BY <1>1, RefuseFine DEF RecordToolBatchItems
<1>2. CASE ValidateToolBatchItems(s.rt, s.thread, s.turn, uses)
  <2> DEFINE X == Steps(r, thread, turn, given)
             S == {use \in ToolUse : use.gated /\ use.ok => ConsentedTo(thread, turn, use.call, given)}
  <2>1. uses \in Seq(S)
    <3>1. ASSUME NEW i \in DOMAIN uses PROVE uses[i] \in S
      <4>1. uses[i] \in ToolUse
        OBVIOUS
      <4>2. uses[i].gated /\ uses[i].ok => HasApprovedToolCall(s.rt, thread, turn, uses[i].call)
        BY <1>2, StepFields DEF ValidateToolBatchItems
      <4>3. GrantedIn(s.rt, given)
        BY StepFields DEF Fine
      <4> QED BY <4>1, <4>2, <4>3, ApprovedIsConsented
    <3>2. uses \in [1..Len(uses) -> ToolUse] /\ Len(uses) \in Nat /\ DOMAIN uses = 1..Len(uses)
      OBVIOUS
    <3> HIDE DEF S
    <3>3. uses \in [1..Len(uses) -> S]
      BY <3>1, <3>2
    <3> QED BY <3>2, <3>3
  <2>2. \A x \in X, use \in ToolUse : EmitToolCallStarted(x, use) \in X
    BY StartedFine
  <2>3. \A x \in X, use \in S : EmitToolResultCompleted(x, use) \in X
    BY CompletedFine
  <2> HIDE DEF X, S
  <2>4. PICK begun : begun = FoldLeft(EmitToolCallStarted, s, uses)
    OBVIOUS
  <2>5. begun \in X
    <3>1. begun = Starting!Fold(s, uses) /\ s \in X
      BY <2>4, HostFolds, Zenon DEF X
    <3> QED BY <2>2, <3>1, Starting!FoldStays
  <2>6. PICK done : done = FoldLeft(EmitToolResultCompleted, begun, uses)
    OBVIOUS
  <2>7. done \in X
    <3>1. done = Completing!Fold(begun, uses)
      BY <2>6, HostFolds, Zenon
    <3> QED BY <2>1, <2>3, <2>5, <3>1, Completing!FoldStays
  <2>8. RecordToolBatchItems(s, uses) = done
    BY <1>2, <2>4, <2>6 DEF RecordToolBatchItems
  <2> QED BY <2>7, <2>8 DEF X
<1> QED BY <1>1, <1>2

LEMMA BatchFine ==
  ASSUME NEW r, NEW thread \in DOMAIN r.threads, NEW turn \in Nat, NEW given,
         NEW s \in Steps(r, thread, turn, given), NEW uses \in Seq(ToolUse)
  PROVE  RecordBatch(s, uses) \in Steps(r, thread, turn, given)
<1>1. CASE s.refused
  BY <1>1 DEF RecordBatch
<1>2. CASE ~s.refused
  <2>1. \A kind \in {"ToolBatchStarted", "ToolBatchCompleted"} :
          /\ [kind |-> kind] \in ToolEvents(r.threads) /\ [kind |-> kind].kind \in NoteKinds
          /\ \A t : Earned(t, [kind |-> kind], given)
    BY DEF ToolEvents, NoteKinds, Earned
  <2>2. PICK begun : begun = Emit(s, [kind |-> "ToolBatchStarted"])
    OBVIOUS
  <2>3. begun \in Steps(r, thread, turn, given)
    BY <2>1, <2>2, NoteFine
  <2>4. PICK done : done = RecordToolBatchItems(begun, uses)
    OBVIOUS
  <2>5. done \in Steps(r, thread, turn, given)
    BY <2>3, <2>4, ItemsFine
  <2>6. Emit(done, [kind |-> "ToolBatchCompleted"]) \in Steps(r, thread, turn, given)
    BY <2>1, <2>5, NoteFine
  <2> QED BY <1>2, <2>2, <2>4, <2>5, <2>6 DEF RecordBatch
<1> QED BY <1>1, <1>2

LEMMA BatchesFine ==
  ASSUME NEW r, NEW thread \in DOMAIN r.threads, NEW turn \in Nat, NEW given,
         NEW s \in Steps(r, thread, turn, given), NEW batches \in Seq(Seq(ToolUse))
  PROVE  RecordedBatches(s, batches) \in Steps(r, thread, turn, given)
<1> DEFINE X == Steps(r, thread, turn, given)
<1>1. \A x \in X, uses \in Seq(ToolUse) : RecordBatch(x, uses) \in X
  BY BatchFine
<1> HIDE DEF X
<1> QED BY <1>1, HostFolds, Recording!FoldStays DEF X

\* What is partitioned is batches of the same uses' kind.
LEMMA PartitionIsBatches ==
  ASSUME NEW uses \in Seq(ToolUse)
  PROVE  PartitionOrderedToolBatches(uses) \in Seq(Seq(ToolUse))
<1> DEFINE X == Seq(Seq(ToolUse))
<1>1. ASSUME NEW batches \in Seq(Seq(ToolUse)), NEW use \in ToolUse
      PROVE  PlaceUse(batches, use) \in Seq(Seq(ToolUse))
  <2>1. CASE JoinsBatch(batches, use)
    <3>1. batches # <<>>
      BY <2>1 DEF JoinsBatch
    <3>2. Last(batches) \in Seq(ToolUse) /\ Front(batches) \in Seq(Seq(ToolUse))
      BY <3>1 DEF Last, Front
    <3>3. Append(Last(batches), use) \in Seq(ToolUse)
      BY <3>2
    <3> QED BY <2>1, <3>2, <3>3 DEF PlaceUse
  <2>2. CASE ~JoinsBatch(batches, use)
    <3>1. <<use>> \in Seq(ToolUse)
      OBVIOUS
    <3> QED BY <2>2, <3>1 DEF PlaceUse
  <2> QED BY <2>1, <2>2
<1>2. <<>> \in X
  OBVIOUS
<1>3. \A batches \in X, use \in ToolUse : PlaceUse(batches, use) \in X
  BY <1>1
<1> HIDE DEF X
<1> QED BY <1>2, <1>3, HostFolds, Placing!FoldStays DEF X

-----------------------------------------------------------------------------
(* The requests.                                                           *)

LEMMA HostBounds ==
  MaxThreads \in Nat /\ MaxHostTurns \in Nat /\ MaxCrashes \in Nat
BY BoundsAreNumbers

LEMMA StepIs ==
  /\ \A r, log : Step(r, log).rt = r /\ Step(r, log).log = log
  /\ \A r, e : Emit(Step(r, <<>>), e).rt = r /\ Emit(Step(r, <<>>), e).log = <<e>>
  /\ \A r, log : Refuse(Step(r, log)).rt = r /\ Refuse(Step(r, log)).log = log
BY DEF Step, StepOf, Emit, Refuse

LEMMA TurnsAreTyped ==
  ASSUME NEW r, IsRuntime(r)
  PROVE  /\ DOMAIN r.turns \subseteq 1..MaxHostTurns
         /\ \A t \in DOMAIN r.turns : r.turns[t] \in TurnOf(r.threads)
<1>1. PICK T : T = r.turns
  OBVIOUS
<1>2. T \in Maps(1..MaxHostTurns, TurnOf(r.threads))
  BY <1>1, RuntimeFields
<1>3. DOMAIN T \subseteq 1..MaxHostTurns /\ \A t \in DOMAIN T : T[t] \in TurnOf(r.threads)
  BY <1>2, MapIs
<1> QED BY <1>1, <1>3

\* What a request that leaves the approvals alone has to show.
LEMMA SimpleRequestKeeps ==
  ASSUME Saved, NEW s, Request(s), Quiet, Follows(rt, s.rt, s.log), s.rt.approvals = rt.approvals
  PROVE  Saved'
<1>1. GrantedIn(s.rt, granted') /\ granted \subseteq granted'
  BY DEF Saved, GrantedIn, Quiet
<1> QED BY <1>1, RequestKeeps

\* And one of a single event.
LEMMA EventRequestKeeps ==
  ASSUME Saved, NEW q, NEW e, Request(Step(q, <<e>>)), Quiet,
         IsRuntime(q), Tells(rt, q, e), q.approvals = rt.approvals
  PROVE  Saved'
<1>1. PICK s : s = Step(q, <<e>>)
  OBVIOUS
<1>2. s.rt = q /\ s.log = <<e>>
  BY <1>1, StepIs
<1>3. Follows(rt, q, <<e>>)
  BY OneFollows DEF Saved
<1> QED BY <1>1, <1>2, <1>3, SimpleRequestKeeps

\* Emitting one event to a step that has none is a step of one event.
LEMMA EmitIsStep ==
  \A q, e : Emit(Step(q, <<>>), e) = Step(q, <<e>>)
<1> SUFFICES ASSUME NEW q, NEW e PROVE Emit(Step(q, <<>>), e) = Step(q, <<e>>)
  OBVIOUS
<1>1. PICK s : s = Step(q, <<>>)
  OBVIOUS
<1>2. s = [rt |-> q, log |-> <<>>, refused |-> FALSE, thread |-> 0, turn |-> NoTurn]
  BY <1>1 DEF Step, StepOf
<1>3. PICK one : one = <<e>>
  OBVIOUS
<1>4. Append(s.log, e) = one
  BY <1>2, <1>3
<1>5. Emit(s, e) = [s EXCEPT !.log = one]
  BY <1>4, Zenon DEF Emit
<1>6. Emit(s, e) = [rt |-> q, log |-> one, refused |-> FALSE, thread |-> 0, turn |-> NoTurn]
  BY <1>2, <1>5
<1> QED BY <1>1, <1>3, <1>6, Zenon DEF Step, StepOf

LEMMA SetThreadKeeps ==
  ASSUME Saved, NEW id, NEW thread, NEW kind \in ThreadKinds, SetThread(id, thread, kind)
  PROVE  Saved'
<1>1. PICK q : q = [rt EXCEPT !.threads = Put(@, id, thread)]
  OBVIOUS
<1>2. PICK e : e = [kind |-> kind, id |-> id, thread |-> thread]
  OBVIOUS
<1>3. IsRuntime(rt)
  BY DEF Saved
<1>4. IsRuntime(q) /\ Tells(rt, q, e)
  BY <1>1, <1>2, <1>3, ThreadTells
<1>5. q.approvals = rt.approvals
  BY <1>1, <1>3 DEF IsRuntime, Runtimes
<1>6. Request(Step(q, <<e>>)) /\ Quiet
  BY <1>1, <1>2 DEF SetThread
<1> QED BY <1>4, <1>5, <1>6, EventRequestKeeps

LEMMA ThreadRequestKeeps ==
  ASSUME Saved, ThreadRequest
  PROVE  Saved' /\ Quiet
<1>1. ASSUME NEW id, NEW thread, NEW kind \in ThreadKinds, SetThread(id, thread, kind)
      PROVE  Saved' /\ Quiet
  BY <1>1, SetThreadKeeps DEF SetThread
<1>2. \A kind \in {"ThreadStarted", "ThreadForked", "ThreadUpdated", "ThreadResumed"} : kind \in ThreadKinds
  BY DEF ThreadKinds
<1>3. ASSUME NEW title, StartThread(title) PROVE Saved' /\ Quiet
  BY <1>1, <1>2, <1>3 DEF StartThread
<1>4. ASSUME NEW id, NEW title, ForkThread(id, title) PROVE Saved' /\ Quiet
  BY <1>1, <1>2, <1>4 DEF ForkThread
<1>5. ASSUME NEW id, NEW title, RenameThread(id, title) PROVE Saved' /\ Quiet
  BY <1>1, <1>2, <1>5 DEF RenameThread
<1>6. ASSUME NEW id, ResumeThread(id) \/ ArchiveThread(id) PROVE Saved' /\ Quiet
  BY <1>1, <1>2, <1>6 DEF ResumeThread, ArchiveThread
<1> QED BY <1>3, <1>4, <1>5, <1>6 DEF ThreadRequest

LEMMA QuestionRequestKeeps ==
  ASSUME Saved, QuestionRequest
  PROVE  Saved' /\ Quiet
<1>1. IsRuntime(rt)
  BY DEF Saved
<1>2. ASSUME NEW thread \in DOMAIN rt.threads, NEW given \in HostIds, RequestQuestion(thread, given)
      PROVE  Saved' /\ Quiet
  <2>1. PICK id : id = IF given = 0 THEN rt.nextQuestion + 1 ELSE given
    OBVIOUS
  <2>2. PICK n : n = IF given = 0 THEN id ELSE rt.nextQuestion
    OBVIOUS
  <2>3. PICK numbered : numbered = IF given = 0 THEN [rt EXCEPT !.nextQuestion = id] ELSE rt
    OBVIOUS
  <2>4. numbered = [rt EXCEPT !.nextQuestion = n]
    BY <1>1, <2>2, <2>3 DEF IsRuntime, Runtimes
  <2>5. CASE id \in DOMAIN rt.questions
    <3>1. Request(Refuse(Step(numbered, <<>>))) /\ Quiet
      BY <1>2, <2>1, <2>3, <2>5 DEF RequestQuestion
    <3>2. PICK s : s = Refuse(Step(numbered, <<>>))
      OBVIOUS
    <3>3. s.rt = numbered /\ s.log = <<>>
      BY <3>2, StepIs
    <3>4. /\ IsRuntime(numbered) /\ SameRest(rt, numbered)
          /\ numbered.turns = rt.turns /\ numbered.approvals = rt.approvals
      BY <1>1, <2>4 DEF IsRuntime, Runtimes, SameRest
    <3>5. Follows(rt, numbered, <<>>)
      BY <3>4, NothingFollows
    <3> QED BY <3>1, <3>2, <3>3, <3>4, <3>5, SimpleRequestKeeps
  <2>6. CASE id \notin DOMAIN rt.questions
    <3>1. PICK q : q = [rt EXCEPT !.questions = Put(@, id, [thread |-> thread, resolved |-> FALSE]),
                                  !.nextQuestion = n]
      OBVIOUS
    <3>2. PICK e : e = [kind |-> "QuestionRequested", id |-> id, thread |-> thread]
      OBVIOUS
    <3>3. IsRuntime(q) /\ Tells(rt, q, e)
      BY <1>1, <3>1, <3>2, QuestionTells
    <3>4. q = [numbered EXCEPT !.questions = Put(@, id, [thread |-> thread, resolved |-> FALSE])]
      BY <1>1, <2>4, <3>1 DEF IsRuntime, Runtimes
    <3>5. Request(Emit(Step(q, <<>>), e)) /\ Quiet
      BY <1>2, <2>1, <2>3, <2>6, <3>2, <3>4 DEF RequestQuestion
    <3>6. Request(Step(q, <<e>>))
      BY <3>5, EmitIsStep
    <3>7. q.approvals = rt.approvals
      BY <1>1, <3>1 DEF IsRuntime, Runtimes
    <3> QED BY <3>3, <3>5, <3>6, <3>7, EventRequestKeeps
  <2> QED BY <2>5, <2>6
<1>3. ASSUME NEW id \in DOMAIN rt.questions, RespondQuestion(id)
      PROVE  Saved' /\ Quiet
  <2>1. PICK q : q = [rt EXCEPT !.questions[id].resolved = TRUE]
    OBVIOUS
  <2>2. PICK e : e = [kind |-> "QuestionResolved", id |-> id]
    OBVIOUS
  <2>3. IsRuntime(q) /\ Tells(rt, q, e)
    BY <1>1, <2>1, <2>2, QuestionAnswerTells
  <2>4. Request(Step(q, <<e>>)) /\ Quiet
    BY <1>3, <2>1, <2>2, EmitIsStep DEF RespondQuestion
  <2>5. q.approvals = rt.approvals
    BY <1>1, <2>1 DEF IsRuntime, Runtimes
  <2> QED BY <2>3, <2>4, <2>5, EventRequestKeeps
<1> QED BY <1>2, <1>3 DEF QuestionRequest

\* A note in the log, and nothing else.
LEMMA NoteKeeps ==
  ASSUME Saved, NEW kind \in {"Diagnostic", "HandoffCompacted"}, Note(kind)
  PROVE  Saved' /\ Quiet
<1>1. PICK q : q = rt
  OBVIOUS
<1>2. PICK e : e = [kind |-> kind]
  OBVIOUS
<1>3. IsRuntime(q) /\ Tells(rt, q, e) /\ q.approvals = rt.approvals
  BY <1>1, <1>2, NoteTells DEF Saved, NoteKinds
<1>4. Request(Step(q, <<e>>)) /\ Quiet
  BY <1>1, <1>2 DEF Note
<1> QED BY <1>3, <1>4, EventRequestKeeps

LEMMA SetTodosKeeps ==
  ASSUME Saved, NEW todos, SetTodos(todos)
  PROVE  Saved' /\ Quiet
<1>1. PICK q : q = [rt EXCEPT !.todos = todos]
  OBVIOUS
<1>2. PICK e : e = [kind |-> "TodosUpdated", todos |-> todos]
  OBVIOUS
<1>3. IsRuntime(rt)
  BY DEF Saved
<1>4. IsRuntime(q) /\ Tells(rt, q, e)
  BY <1>1, <1>2, <1>3, TodosTell
<1>5. q.approvals = rt.approvals
  BY <1>1, <1>3 DEF IsRuntime, Runtimes
<1>6. Request(Step(q, <<e>>)) /\ Quiet
  BY <1>1, <1>2 DEF SetTodos
<1> QED BY <1>4, <1>5, <1>6, EventRequestKeeps

LEMMA SuggestionKeeps ==
  ASSUME Saved, NEW message, ExecuteSuggestNextTool(message)
  PROVE  Saved' /\ Quiet
<1>1. PICK q : q = [rt EXCEPT !.suggestion = message]
  OBVIOUS
<1>2. PICK e : e = [kind |-> "SuggestionOffered", message |-> message]
  OBVIOUS
<1>3. IsRuntime(rt)
  BY DEF Saved
<1>4. IsRuntime(q) /\ Tells(rt, q, e)
  BY <1>1, <1>2, <1>3, SuggestionTells
<1>5. q.approvals = rt.approvals /\ q.turns = rt.turns /\ SameRest(rt, q)
  BY <1>1, <1>3 DEF IsRuntime, Runtimes, SameRest
<1>6. CASE message = NoSuggestion
  <2>1. Request(Step(q, <<>>)) /\ Quiet
    BY <1>1, <1>6 DEF ExecuteSuggestNextTool
  <2>2. Follows(rt, q, <<>>)
    BY <1>4, <1>5, NothingFollows
  <2>3. PICK s : s = Step(q, <<>>)
    OBVIOUS
  <2>4. s.rt = q /\ s.log = <<>>
    BY <2>3, StepIs
  <2> QED BY <1>5, <2>1, <2>2, <2>3, <2>4, SimpleRequestKeeps
<1>7. CASE message # NoSuggestion
  <2>1. Request(Step(q, <<e>>)) /\ Quiet
    BY <1>1, <1>2, <1>7 DEF ExecuteSuggestNextTool
  <2> QED BY <1>4, <1>5, <2>1, EventRequestKeeps
<1> QED BY <1>6, <1>7

\* One event that changes one registry.
LEMMA RegistryKeeps ==
  ASSUME Saved, NEW q, NEW e, Request(Step(q, <<e>>)), Quiet,
         \/ \E id : q = [rt EXCEPT !.plugins = @ \cup {id}] /\ e = [kind |-> "PluginRegistered", id |-> id]
         \/ \E id : q = [rt EXCEPT !.servers = @ \cup {id}] /\ e = [kind |-> "McpServerRegistered", id |-> id]
         \/ \E id : q = [rt EXCEPT !.models = @ \cup {id}] /\ e = [kind |-> "ModelRegistered", id |-> id]
         \/ \E id \in rt.models : q = [rt EXCEPT !.selected = id] /\ e = [kind |-> "ModelSelected", id |-> id]
         \/ \E on : q = [rt EXCEPT !.memory = on] /\ e = [kind |-> "MemoryStatusChanged", enabled |-> on]
  PROVE  Saved'
<1>1. IsRuntime(rt)
  BY DEF Saved
<1>2. ASSUME NEW id, q = [rt EXCEPT !.plugins = @ \cup {id}], e = [kind |-> "PluginRegistered", id |-> id]
      PROVE  IsRuntime(q) /\ Tells(rt, q, e) /\ q.approvals = rt.approvals
  <2>1. IsRuntime(q) /\ Tells(rt, q, e)
    BY <1>1, <1>2, PluginTells
  <2> QED BY <1>1, <1>2, <2>1 DEF IsRuntime, Runtimes
<1>3. ASSUME NEW id, q = [rt EXCEPT !.servers = @ \cup {id}], e = [kind |-> "McpServerRegistered", id |-> id]
      PROVE  IsRuntime(q) /\ Tells(rt, q, e) /\ q.approvals = rt.approvals
  <2>1. IsRuntime(q) /\ Tells(rt, q, e)
    BY <1>1, <1>3, ServerTells
  <2> QED BY <1>1, <1>3, <2>1 DEF IsRuntime, Runtimes
<1>4. ASSUME NEW id, q = [rt EXCEPT !.models = @ \cup {id}], e = [kind |-> "ModelRegistered", id |-> id]
      PROVE  IsRuntime(q) /\ Tells(rt, q, e) /\ q.approvals = rt.approvals
  <2>1. IsRuntime(q) /\ Tells(rt, q, e)
    BY <1>1, <1>4, ModelTells
  <2> QED BY <1>1, <1>4, <2>1 DEF IsRuntime, Runtimes
<1>5. ASSUME NEW id \in rt.models, q = [rt EXCEPT !.selected = id], e = [kind |-> "ModelSelected", id |-> id]
      PROVE  IsRuntime(q) /\ Tells(rt, q, e) /\ q.approvals = rt.approvals
  <2>1. IsRuntime(q) /\ Tells(rt, q, e)
    BY <1>1, <1>5, ModelChoiceTells
  <2> QED BY <1>1, <1>5, <2>1 DEF IsRuntime, Runtimes
<1>6. ASSUME NEW on, q = [rt EXCEPT !.memory = on], e = [kind |-> "MemoryStatusChanged", enabled |-> on]
      PROVE  IsRuntime(q) /\ Tells(rt, q, e) /\ q.approvals = rt.approvals
  <2>1. IsRuntime(q) /\ Tells(rt, q, e)
    BY <1>1, <1>6, MemoryTells
  <2> QED BY <1>1, <1>6, <2>1 DEF IsRuntime, Runtimes
<1>7. IsRuntime(q) /\ Tells(rt, q, e) /\ q.approvals = rt.approvals
  BY <1>2, <1>3, <1>4, <1>5, <1>6
<1> QED BY <1>7, EventRequestKeeps

LEMMA RegistryRequestKeeps ==
  ASSUME Saved, RegistryRequest
  PROVE  Saved' /\ Quiet
<1>1. ASSUME NEW id, RegisterPlugin(id) PROVE Saved' /\ Quiet
  BY <1>1, RegistryKeeps DEF RegisterPlugin
<1>2. ASSUME NEW id, RegisterMcp(id) PROVE Saved' /\ Quiet
  BY <1>2, RegistryKeeps DEF RegisterMcp
<1>3. ASSUME NEW id, RegisterModel(id) PROVE Saved' /\ Quiet
  BY <1>3, RegistryKeeps DEF RegisterModel
<1>4. ASSUME NEW id, SelectModel(id) PROVE Saved' /\ Quiet
  BY <1>4, RegistryKeeps DEF SelectModel
<1>5. ASSUME NEW enabled, SetMemoryStatus(enabled) PROVE Saved' /\ Quiet
  BY <1>5, RegistryKeeps DEF SetMemoryStatus
<1>6. ASSUME (\E id \in Servers : McpAction(id)) \/ MemoryControl \/ CompactHandoff
      PROVE  Saved' /\ Quiet
  BY <1>6, NoteKeeps DEF McpAction, MemoryControl, CompactHandoff
<1>7. ASSUME \/ \E items \in TodoLists : ExecuteTodoWriteTool(items)
             \/ \E i \in DOMAIN rt.todos : TodoClientDone(rt.todos[i].id)
             \/ TodoClientDoneAll \/ TodoClientClear
      PROVE  Saved' /\ Quiet
  <2>1. PICK todos : SetTodos(todos)
    BY <1>7 DEF ExecuteTodoWriteTool, TodoClientDone, TodoClientDoneAll, TodoClientClear
  <2> QED BY <2>1, SetTodosKeeps
<1> QED BY <1>1, <1>2, <1>3, <1>4, <1>5, <1>6, <1>7, SuggestionKeeps DEF RegistryRequest

-----------------------------------------------------------------------------
(* Approvals the host asks for, and the answers.                           *)

LEMMA RequestApprovalKeeps ==
  ASSUME Saved, NEW thread \in DOMAIN rt.threads, NEW given \in HostIds, NEW call \in Calls,
         RequestApproval(thread, given, call)
  PROVE  Saved' /\ Quiet
<1>1. PICK r : r = rt
  OBVIOUS
<1>2. IsRuntime(r) /\ GrantedIn(r, granted)
  BY <1>1 DEF Saved
<1>3. PICK id : id = IF given = 0 THEN r.nextApproval + 1 ELSE given
  OBVIOUS
<1>4. PICK n : n = IF given = 0 THEN id ELSE r.nextApproval
  OBVIOUS
<1>5. id \in Nat \cup HostIds /\ n \in Nat
  <2>1. r.nextApproval \in Nat
    BY <1>2, RuntimeFields
  <2> QED BY <1>3, <1>4, <2>1
<1>6. PICK numbered : numbered = IF given = 0 THEN [r EXCEPT !.nextApproval = id] ELSE r
  OBVIOUS
<1>7. numbered = [r EXCEPT !.nextApproval = n]
  BY <1>2, <1>4, <1>6 DEF IsRuntime, Runtimes
<1>8. PICK owner : owner = [thread |-> thread, turn |-> NoTurn, call |-> call, outcome |-> "pending"]
  OBVIOUS
<1>9. CASE id \in DOMAIN r.approvals
  <2>1. Request(Refuse(Step(numbered, <<>>))) /\ Quiet
    BY <1>1, <1>3, <1>6, <1>9 DEF RequestApproval
  <2>2. PICK s : s = Refuse(Step(numbered, <<>>))
    OBVIOUS
  <2>3. s.rt = numbered /\ s.log = <<>>
    BY <2>2, StepIs
  <2>4. /\ IsRuntime(numbered) /\ SameRest(r, numbered)
        /\ numbered.turns = r.turns /\ numbered.approvals = r.approvals
    BY <1>2, <1>5, <1>7 DEF IsRuntime, Runtimes, SameRest
  <2>5. Follows(rt, numbered, <<>>)
    BY <1>1, <2>4, NothingFollows
  <2> QED BY <1>1, <2>1, <2>2, <2>3, <2>4, <2>5, SimpleRequestKeeps
<1>10. CASE id \notin DOMAIN r.approvals
  <2>1. PICK new : new = Put(r.approvals, id, owner)
    OBVIOUS
  <2>2. PICK q : SetsApprovals(r, q, n, new)
    BY DEF SetsApprovals
  <2>3. PICK e : e = [kind |-> "ApprovalRequested", id |-> id, owner |-> owner]
    OBVIOUS
  <2>4. /\ owner \in ApprovalOf(r.threads) /\ owner.outcome = "pending" /\ owner.turn = NoTurn
    BY <1>1, <1>8 DEF ApprovalOf, Outcomes, NoTurn
  <2>5. GoesOn(r, owner)
    <3>1. DOMAIN r.turns \subseteq 1..MaxHostTurns
      BY <1>2, TurnsAreTyped
    <3> QED BY <2>4, <3>1, HostBounds DEF GoesOn, NoTurn
  <2>6. /\ IsRuntime(q) /\ q \in Runtimes(r)
        /\ q.turns = r.turns /\ q.approvals = new
        /\ Tells(r, q, e)
    BY <1>2, <1>5, <2>1, <2>2, <2>3, <2>4, <2>5, ApprovalTells
  <2>7. [numbered EXCEPT !.approvals = Put(@, id, owner)] = q
    BY <1>2, <1>7, <2>1, <2>2 DEF SetsApprovals, IsRuntime, Runtimes
  <2>8. Request(Emit(Step(q, <<>>), e)) /\ Quiet
    BY <1>1, <1>3, <1>6, <1>8, <1>10, <2>3, <2>7 DEF RequestApproval
  <2>9. Request(Step(q, <<e>>))
    BY <2>8, EmitIsStep
  <2>10. PICK s : s = Step(q, <<e>>)
    OBVIOUS
  <2>11. s.rt = q /\ s.log = <<e>>
    BY <2>10, StepIs
  <2>12. Follows(rt, q, <<e>>)
    BY <1>1, <1>2, <2>6, OneFollows
  <2>13. GrantedIn(q, granted)
    BY <1>2, <2>1, <2>4, <2>6, PendingGrantsNothing
  <2>14. GrantedIn(q, granted') /\ granted \subseteq granted'
    BY <2>8, <2>13 DEF Quiet
  <2> QED BY <2>8, <2>9, <2>10, <2>11, <2>12, <2>14, RequestKeeps
<1> QED BY <1>9, <1>10

\* An answer the user gives.
LEMMA RespondApprovalKeeps ==
  ASSUME Saved, NEW id \in DOMAIN rt.approvals, NEW outcome \in {"approved", "denied"},
         RespondApproval(id, outcome)
  PROVE  Saved' /\ granted \subseteq granted' /\ worked' = worked
<1>1. PICK r : r = rt
  OBVIOUS
<1>2. IsRuntime(r) /\ GrantedIn(r, granted) /\ id \in DOMAIN r.approvals
  BY <1>1 DEF Saved
<1>3. outcome \in Outcomes
  BY DEF Outcomes
<1>4. PICK q : q = [r EXCEPT !.approvals[id].outcome = outcome]
  OBVIOUS
<1>5. PICK e : e = [kind |-> "ApprovalResolved", id |-> id, outcome |-> outcome]
  OBVIOUS
<1>6. IsRuntime(q) /\ Tells(r, q, e)
  BY <1>2, <1>3, <1>4, <1>5, AnswerTells
<1>7. q.approvals = [a \in DOMAIN r.approvals |->
        IF a = id THEN [r.approvals[a] EXCEPT !.outcome = outcome] ELSE r.approvals[a]]
  BY <1>2, <1>3, <1>4, OutcomeSet
<1>8. Request(Emit(Step(q, <<>>), e))
  BY <1>1, <1>4, <1>5 DEF RespondApproval
<1>9. PICK s : s = Step(q, <<e>>)
  OBVIOUS
<1>10. Request(s) /\ s.rt = q /\ s.log = <<e>>
  BY <1>8, <1>9, EmitIsStep, StepIs
<1>11. Follows(rt, q, <<e>>)
  BY <1>1, <1>2, <1>6, OneFollows
<1>12. /\ granted \subseteq granted' /\ worked' = worked
       /\ outcome = "approved" => ConsentOf(r.approvals[id]) \in granted'
  BY <1>1 DEF RespondApproval, ConsentOf
<1>13. GrantedIn(q, granted')
  <2>1. ASSUME NEW a \in DOMAIN q.approvals, q.approvals[a].outcome = "approved"
        PROVE  ConsentOf(q.approvals[a]) \in granted'
    <3>1. a \in DOMAIN r.approvals
      BY <1>7
    <3>2. r.approvals[a] \in ApprovalOf(r.threads)
      BY <1>2, <3>1, RuntimeFields, MapIs
    <3>3. CASE a = id
      <4>1. q.approvals[a] = [r.approvals[a] EXCEPT !.outcome = outcome]
        BY <1>7, <3>1, <3>3
      <4>2. q.approvals[a].outcome = outcome /\ ConsentOf(q.approvals[a]) = ConsentOf(r.approvals[a])
        BY <3>2, <4>1 DEF ApprovalOf, ConsentOf
      <4> QED BY <1>12, <2>1, <3>3, <4>2
    <3>4. CASE a # id
      <4>1. q.approvals[a] = r.approvals[a]
        BY <1>7, <3>1, <3>4
      <4> QED BY <1>2, <1>12, <2>1, <3>1, <4>1 DEF GrantedIn
    <3> QED BY <3>3, <3>4
  <2> QED BY <2>1 DEF GrantedIn
<1>14. Saved'
  BY <1>10, <1>11, <1>12, <1>13, RequestKeeps
<1> QED BY <1>12, <1>14

LEMMA PauseRequestKeeps ==
  ASSUME Saved, PauseRequest
  PROVE  Saved' /\ granted \subseteq granted' /\ worked' = worked
<1>1. ASSUME NEW thread \in DOMAIN rt.threads, NEW given \in HostIds, NEW call \in Calls,
             RequestApproval(thread, given, call)
      PROVE  Saved' /\ granted \subseteq granted' /\ worked' = worked
  BY <1>1, RequestApprovalKeeps DEF Quiet
<1> QED BY <1>1, RespondApprovalKeeps DEF PauseRequest

\* A request that looks saves what an earlier one has left.
LEMMA LookRequestKeeps ==
  ASSUME Saved, LookRequest
  PROVE  Saved' /\ Quiet
<1>1. PICK s : s = Step(rt, <<>>)
  OBVIOUS
<1>2. Request(s) /\ Quiet /\ s.rt = rt /\ s.log = <<>>
  BY <1>1, StepIs DEF LookRequest
<1>3. Follows(rt, rt, <<>>)
  BY NothingFollows DEF Saved, SameRest
<1> QED BY <1>2, <1>3, SimpleRequestKeeps

-----------------------------------------------------------------------------
(* Turns, and the tools recorded in them.                                  *)

\* A request about a turn, at its end: what its log says worked was consented to.
Finished(r, s, thread, turn, given) ==
  /\ Follows(r, s.rt, s.log)
  /\ GrantedIn(s.rt, given)
  /\ \A i \in DOMAIN s.log : s.log[i].kind = "ToolCallCompleted" =>
       /\ s.log[i].turn = turn
       /\ s.log[i].use.gated /\ s.log[i].use.ok => ConsentedTo(thread, turn, s.log[i].use.call, given)

LEMMA StepIsFinished ==
  ASSUME NEW r, NEW thread, NEW turn, NEW given, NEW s \in Steps(r, thread, turn, given)
  PROVE  Finished(r, s, thread, turn, given)
BY StepFields DEF Fine, Earned, Finished

LEMMA EndedIsFinished ==
  ASSUME NEW r, NEW thread, NEW turn, NEW given, NEW s \in Steps(r, thread, turn, given),
         NEW kind \in EndKinds, NEW t,
         t = Emit([s EXCEPT !.rt.turns[turn].status = EndOf(kind)], [kind |-> kind, turn |-> turn])
  PROVE  Finished(r, t, thread, turn, given)
<1>1. /\ s = [rt |-> s.rt, log |-> s.log, refused |-> s.refused, thread |-> s.thread, turn |-> s.turn]
      /\ s.turn = turn /\ IsRuntime(s.rt) /\ Fine(r, s, given)
  BY StepFields
<1>2. PICK p : p = s.rt
  OBVIOUS
<1>3. IsRuntime(p) /\ turn \in DOMAIN p.turns
  BY <1>1, <1>2 DEF Fine
<1>4. PICK q : q = [p EXCEPT !.turns[turn].status = EndOf(kind)]
  OBVIOUS
<1>5. PICK e : e = [kind |-> kind, turn |-> turn]
  OBVIOUS
<1>6. IsRuntime(q) /\ Tells(p, q, e)
  BY <1>3, <1>4, <1>5, TurnEndTells
<1>7. q.approvals = p.approvals
  BY <1>3, <1>4 DEF IsRuntime, Runtimes
<1>8. PICK u : u = [s EXCEPT !.rt.turns[turn].status = EndOf(kind)]
  OBVIOUS
<1>9. u = [s EXCEPT !.rt = q]
  BY <1>2, <1>4, <1>8
<1>10. u.rt = q /\ u.log = s.log
       /\ u = [rt |-> q, log |-> s.log, refused |-> s.refused, thread |-> s.thread, turn |-> s.turn]
  BY <1>1, <1>9
<1>11. t.rt = q /\ t.log = Append(s.log, e)
  <2>1. t = Emit(u, e)
    BY <1>5, <1>8
  <2> QED BY <2>1, <1>10 DEF Emit
<1>12. Follows(r, q, Append(s.log, e))
  BY <1>1, <1>2, <1>6, OneMoreFollows DEF Fine
<1>13. GrantedIn(q, given)
  BY <1>1, <1>2, <1>7 DEF Fine, GrantedIn
<1>14. ASSUME NEW i \in DOMAIN Append(s.log, e), Append(s.log, e)[i].kind = "ToolCallCompleted"
       PROVE  i \in DOMAIN s.log /\ Append(s.log, e)[i] = s.log[i]
  <2>1. s.log \in Seq(ToolEvents(r.threads))
    BY StepFields
  <2>2. e.kind # "ToolCallCompleted"
    BY <1>5 DEF EndKinds
  <2> QED BY <1>14, <2>1, <2>2
<1>15. \A i \in DOMAIN s.log : Earned(s, s.log[i], given)
  BY <1>1 DEF Fine
<1>16. s.thread = thread
  BY StepFields
<1>17. ASSUME NEW i \in DOMAIN t.log, t.log[i].kind = "ToolCallCompleted"
       PROVE  /\ t.log[i].turn = turn
              /\ t.log[i].use.gated /\ t.log[i].use.ok =>
                   ConsentedTo(thread, turn, t.log[i].use.call, given)
  <2>1. i \in DOMAIN s.log /\ t.log[i] = s.log[i]
    BY <1>11, <1>14, <1>17
  <2>2. Earned(s, t.log[i], given)
    BY <1>15, <2>1
  <2> QED BY <1>1, <1>16, <1>17, <2>2, Zenon DEF Earned
<1> QED BY <1>11, <1>12, <1>13, <1>17 DEF Finished

LEMMA FinishedKeeps ==
  ASSUME Saved, SuccessNeedsConsent, NEW s, NEW thread, NEW turn,
         Request(s), Finished(rt, s, thread, turn, granted), UNCHANGED granted,
         worked' = worked \cup Worked(thread, s.log)
  PROVE  Saved' /\ SuccessNeedsConsent'
<1>1. Saved'
  BY RequestKeeps DEF Finished
<1>2. ASSUME NEW use \in Worked(thread, s.log)
      PROVE  ConsentedTo(use.thread, use.turn, use.call, granted)
  <2>1. PICK i \in DOMAIN s.log :
          /\ s.log[i].kind = "ToolCallCompleted" /\ s.log[i].use.gated /\ s.log[i].use.ok
          /\ use = [thread |-> thread, turn |-> s.log[i].turn, call |-> s.log[i].use.call]
    BY <1>2 DEF Worked
  <2>2. s.log[i].turn = turn /\ ConsentedTo(thread, turn, s.log[i].use.call, granted)
    BY <2>1 DEF Finished
  <2> QED BY <2>1, <2>2
<1>3. \A use \in worked : ConsentedTo(use.thread, use.turn, use.call, granted)
  BY DEF SuccessNeedsConsent, ConsentedTo
<1>4. \A use \in worked' : ConsentedTo(use.thread, use.turn, use.call, granted')
  BY <1>2, <1>3
<1> QED BY <1>1, <1>4 DEF SuccessNeedsConsent, ConsentedTo

LEMMA UsesAreSequences ==
  ASSUME NEW n \in Nat, NEW uses \in UsesUpTo(n)
  PROVE  uses \in Seq(ToolUse)
<1>1. PICK k \in 0..n : uses \in [1..k -> ToolUses]
  BY DEF UsesUpTo
<1>2. uses \in [1..k -> ToolUse] /\ k \in Nat
  BY <1>1, UsesAreTyped DEF ToolUse
<1> QED BY <1>2

\* A turn that goes on, before its tools are recorded.
LEMMA MutableIsFine ==
  ASSUME Saved, NEW thread \in DOMAIN rt.threads, NEW turn \in DOMAIN rt.turns,
         EnsureTurnMutable(thread, turn)
  PROVE  StepOf(thread, turn, rt, <<>>) \in Steps(rt, thread, turn, granted) /\ turn \in Nat
<1>1. IsRuntime(rt) /\ rt \in Runtimes(rt) /\ GrantedIn(rt, granted)
  BY DEF Saved, IsRuntime
<1>2. turn \in Nat
  BY <1>1, TurnsAreTyped, HostBounds
<1>3. Follows(rt, rt, <<>>)
  BY <1>1, NothingFollows DEF SameRest
<1>4. PICK s : s = StepOf(thread, turn, rt, <<>>)
  OBVIOUS
<1>5. s = [rt |-> rt, log |-> <<>>, refused |-> FALSE, thread |-> thread, turn |-> turn]
  BY <1>4 DEF StepOf
<1>6. Fine(rt, s, granted)
  BY <1>1, <1>3, <1>5 DEF Fine, EnsureTurnMutable
<1>7. s \in [rt : Runtimes(rt), log : Seq(ToolEvents(rt.threads)), refused : BOOLEAN,
             thread : {thread}, turn : {turn}]
  BY <1>1, <1>5
<1> QED BY <1>2, <1>4, <1>6, <1>7 DEF Steps

LEMMA RecordToolBatchKeeps ==
  ASSUME Saved, SuccessNeedsConsent, NEW thread \in DOMAIN rt.threads, NEW turn \in DOMAIN rt.turns,
         NEW uses \in Seq(ToolUse), RecordToolBatch(thread, turn, uses)
  PROVE  Saved' /\ SuccessNeedsConsent' /\ granted' = granted
<1>1. PICK s : s = RecordedBatches(StepOf(thread, turn, rt, <<>>), PartitionOrderedToolBatches(uses))
  OBVIOUS
<1>2. /\ EnsureTurnMutable(thread, turn) /\ Request(s)
      /\ worked' = worked \cup Worked(thread, s.log) /\ UNCHANGED granted
  BY <1>1, Zenon DEF RecordToolBatch
<1>3. PICK begun : begun = StepOf(thread, turn, rt, <<>>)
  OBVIOUS
<1>4. begun \in Steps(rt, thread, turn, granted) /\ turn \in Nat
  BY <1>2, <1>3, MutableIsFine
<1>5. s \in Steps(rt, thread, turn, granted)
  BY <1>1, <1>3, <1>4, PartitionIsBatches, BatchesFine
<1>6. Finished(rt, s, thread, turn, granted)
  BY <1>5, StepIsFinished
<1> QED BY <1>2, <1>6, FinishedKeeps

LEMMA RecordToolKeeps ==
  ASSUME Saved, NEW thread \in DOMAIN rt.threads, NEW turn \in DOMAIN rt.turns,
         NEW use \in ToolUse, RecordTool(thread, turn, use)
  PROVE  Saved' /\ Quiet
<1>1. PICK plain : plain = [use EXCEPT !.gated = FALSE]
  OBVIOUS
<1>2. <<plain>> \in Seq(ToolUse)
  <2>1. plain \in ToolUse
    BY <1>1 DEF ToolUse
  <2> QED BY <2>1
<1>3. PICK s : s = RecordToolBatchItems(StepOf(thread, turn, rt, <<>>), <<plain>>)
  OBVIOUS
<1>4. EnsureTurnMutable(thread, turn) /\ Request(s) /\ Quiet
  BY <1>1, <1>3, Zenon DEF RecordTool
<1>5. PICK begun : begun = StepOf(thread, turn, rt, <<>>)
  OBVIOUS
<1>6. begun \in Steps(rt, thread, turn, granted) /\ turn \in Nat
  BY <1>4, <1>5, MutableIsFine
<1>7. PICK uses \in Seq(ToolUse) : uses = <<plain>>
  BY <1>2
<1>8. s \in Steps(rt, thread, turn, granted)
  BY <1>3, <1>5, <1>6, <1>7, ItemsFine
<1>9. Follows(rt, s.rt, s.log) /\ GrantedIn(s.rt, granted)
  BY <1>8, StepFields DEF Fine
<1>10. GrantedIn(s.rt, granted') /\ granted \subseteq granted'
  BY <1>4, <1>9 DEF Quiet
<1> QED BY <1>4, <1>9, <1>10, RequestKeeps

LEMMA StepIsTyped ==
  ASSUME NEW R, NEW L, NEW q \in R, NEW log \in L, NEW thread, NEW turn
  PROVE  [rt |-> q, log |-> log, refused |-> FALSE, thread |-> thread, turn |-> turn]
           \in [rt : R, log : L, refused : BOOLEAN, thread : {thread}, turn : {turn}]
OBVIOUS

\* The turn that starts, before its tools are recorded.
LEMMA BegunIsFine ==
  ASSUME NEW r, IsRuntime(r), NEW given, GrantedIn(r, given), NEW thread \in DOMAIN r.threads,
         NEW turn \in 1..MaxHostTurns, NEW s,
         s = StepOf(thread, turn,
                    [r EXCEPT !.nextTurn = turn,
                              !.turns = Put(@, turn, [thread |-> thread, status |-> "Running"])],
                    <<[kind |-> "TurnStarted", turn |-> turn, thread |-> thread]>>)
  PROVE  s \in Steps(r, thread, turn, given) /\ turn \in Nat
<1>1. PICK q : q = [r EXCEPT !.nextTurn = turn,
                             !.turns = Put(@, turn, [thread |-> thread, status |-> "Running"])]
  OBVIOUS
<1>2. PICK e : e = [kind |-> "TurnStarted", turn |-> turn, thread |-> thread]
  OBVIOUS
<1>3. IsRuntime(q) /\ Tells(r, q, e)
  BY <1>1, <1>2, TurnStartTells
<1>4. turn \in Nat
  BY HostBounds
<1>5. e \in ToolEvents(r.threads) /\ e.kind = "TurnStarted"
  BY <1>2, <1>4 DEF ToolEvents
<1>6. PICK one : one = <<e>>
  OBVIOUS
<1>14. one \in Seq(ToolEvents(r.threads)) /\ \A i \in DOMAIN one : one[i] = e
  BY <1>5, <1>6
<1>7. s = [rt |-> q, log |-> one, refused |-> FALSE, thread |-> thread, turn |-> turn]
  BY <1>1, <1>2, <1>6, Zenon DEF StepOf
<1>8. /\ q.turns = Put(r.turns, turn, [thread |-> thread, status |-> "Running"])
      /\ q.approvals = r.approvals /\ SameRest(r, q)
      /\ q.suggestion = r.suggestion /\ q.nextQuestion = r.nextQuestion
  BY <1>1 DEF IsRuntime, Runtimes, SameRest
<1>9. q \in Runtimes(r)
  BY <1>3, <1>8 DEF IsRuntime, Runtimes, SameRest
<1>10. turn \in DOMAIN q.turns /\ q.turns[turn].status = "Running"
  BY <1>8 DEF Put
<1>11. Follows(r, q, one)
  BY <1>3, <1>6, OneFollows
<1>12. Fine(r, s, given)
  <2>1. GrantedIn(q, given)
    BY <1>8 DEF GrantedIn
  <2>2. ~Terminal("Running")
    BY DEF Terminal
  <2>3. \A i \in DOMAIN one : Earned(s, one[i], given)
    BY <1>5, <1>14 DEF Earned
  <2> QED BY <1>7, <1>10, <1>11, <2>1, <2>2, <2>3 DEF Fine
<1>13. s \in [rt : Runtimes(r), log : Seq(ToolEvents(r.threads)), refused : BOOLEAN,
              thread : {thread}, turn : {turn}]
  <2>1. one \in Seq(ToolEvents(r.threads))
    BY <1>14
  <2>2. [rt |-> q, log |-> one, refused |-> FALSE, thread |-> thread, turn |-> turn]
          \in [rt : Runtimes(r), log : Seq(ToolEvents(r.threads)), refused : BOOLEAN,
              thread : {thread}, turn : {turn}]
    BY <1>9, <2>1, StepIsTyped, Zenon
  <2> QED BY <1>7, <2>2, Zenon
<1> QED BY <1>4, <1>12, <1>13 DEF Steps

LEMMA StartTurnKeeps ==
  ASSUME Saved, SuccessNeedsConsent, NEW thread \in DOMAIN rt.threads, NEW uses \in Seq(ToolUse),
         NEW continued, NEW defer \in BOOLEAN, StartTurn(thread, uses, continued, defer)
  PROVE  Saved' /\ SuccessNeedsConsent' /\ granted' = granted
<1>1. PICK r : r = rt
  OBVIOUS
<1>2. IsRuntime(r) /\ GrantedIn(r, granted) /\ thread \in DOMAIN r.threads
  BY <1>1 DEF Saved
<1>3. PICK turn : turn = r.nextTurn + 1
  OBVIOUS
<1>4. turn <= MaxHostTurns
  BY <1>1, <1>3 DEF StartTurn
<1>5. turn \in 1..MaxHostTurns
  BY <1>2, <1>3, <1>4, RuntimeFields, HostBounds
<1>6. PICK begun :
        begun = StepOf(thread, turn,
                    [r EXCEPT !.nextTurn = turn,
                              !.turns = Put(@, turn, [thread |-> thread, status |-> "Running"])],
                    <<[kind |-> "TurnStarted", turn |-> turn, thread |-> thread]>>)
  OBVIOUS
<1>7. begun \in Steps(r, thread, turn, granted) /\ turn \in Nat
  BY <1>2, <1>5, <1>6, BegunIsFine
<1>8. PICK recorded : recorded = IF uses = <<>> THEN begun ELSE RecordToolBatchItems(begun, uses)
  OBVIOUS
<1>9. recorded \in Steps(r, thread, turn, granted)
  BY <1>2, <1>7, <1>8, ItemsFine
<1> DEFINE Ended(x, status, kind) ==
             Emit([x EXCEPT !.rt.turns[turn].status = status], [kind |-> kind, turn |-> turn])
<1>10. PICK s : s = IF continued > MaxTurnContinuations THEN Ended(begun, "Aborted", "TurnAborted")
                    ELSE IF defer THEN recorded
                    ELSE Ended(recorded, "Completed", "TurnCompleted")
  OBVIOUS
<1>11. Request(s) /\ worked' = worked \cup Worked(thread, s.log) /\ UNCHANGED granted
  BY <1>1, <1>3, <1>6, <1>8, <1>10, Zenon DEF StartTurn
<1>12. Finished(r, s, thread, turn, granted)
  <2>1. /\ "TurnAborted" \in EndKinds /\ EndOf("TurnAborted") = "Aborted"
        /\ "TurnCompleted" \in EndKinds /\ EndOf("TurnCompleted") = "Completed"
    BY DEF EndKinds, EndOf
  <2>2. CASE s = Ended(begun, "Aborted", "TurnAborted")
    <3>1. s = Emit([begun EXCEPT !.rt.turns[turn].status = EndOf("TurnAborted")],
                   [kind |-> "TurnAborted", turn |-> turn])
      BY <2>1, <2>2
    <3> QED BY <1>7, <2>1, <3>1, EndedIsFinished
  <2>3. CASE s = recorded
    BY <1>9, <2>3, StepIsFinished
  <2>4. CASE s = Ended(recorded, "Completed", "TurnCompleted")
    <3>1. s = Emit([recorded EXCEPT !.rt.turns[turn].status = EndOf("TurnCompleted")],
                   [kind |-> "TurnCompleted", turn |-> turn])
      BY <2>1, <2>4
    <3> QED BY <1>9, <2>1, <3>1, EndedIsFinished
  <2> HIDE DEF Ended
  <2> QED BY <1>10, <2>2, <2>3, <2>4, Zenon
<1> QED BY <1>1, <1>11, <1>12, FinishedKeeps

LEMMA InterruptTurnKeeps ==
  ASSUME Saved, NEW thread \in DOMAIN rt.threads, NEW turn \in DOMAIN rt.turns,
         InterruptTurn(thread, turn)
  PROVE  Saved' /\ Quiet
<1>1. PICK r : r = rt
  OBVIOUS
<1>2. IsRuntime(r) /\ turn \in DOMAIN r.turns
  BY <1>1 DEF Saved
<1>3. "TurnInterrupted" \in EndKinds /\ EndOf("TurnInterrupted") = "Aborted"
  BY DEF EndKinds, EndOf
<1>4. PICK q : q = [r EXCEPT !.turns[turn].status = "Aborted"]
  OBVIOUS
<1>5. PICK e : e = [kind |-> "TurnInterrupted", turn |-> turn]
  OBVIOUS
<1>6. IsRuntime(q) /\ Tells(r, q, e)
  <2>1. q = [r EXCEPT !.turns[turn].status = EndOf("TurnInterrupted")]
    BY <1>3, <1>4
  <2> QED BY <1>2, <1>3, <1>5, <2>1, TurnEndTells
<1>7. q.approvals = r.approvals
  BY <1>2, <1>4 DEF IsRuntime, Runtimes
<1>8. Request(Step(q, <<e>>)) /\ Quiet
  BY <1>1, <1>4, <1>5, EmitIsStep DEF InterruptTurn
<1> QED BY <1>1, <1>6, <1>7, <1>8, EventRequestKeeps

LEMMA TurnRequestKeeps ==
  ASSUME Saved, SuccessNeedsConsent, TurnRequest
  PROVE  Saved' /\ SuccessNeedsConsent'
<1>1. ASSUME Quiet PROVE SuccessNeedsConsent'
  BY <1>1 DEF Quiet, SuccessNeedsConsent
<1>2. ASSUME NEW thread \in DOMAIN rt.threads, NEW uses \in UsesUpTo(1), NEW defer \in BOOLEAN,
             NEW continued \in {0, MaxTurnContinuations + 1},
             StartTurn(thread, uses, continued, defer)
      PROVE  Saved' /\ SuccessNeedsConsent'
  <2>1. uses \in Seq(ToolUse)
    BY UsesAreSequences
  <2> QED BY <1>2, <2>1, StartTurnKeeps
<1>3. ASSUME NEW thread \in DOMAIN rt.threads, NEW turn \in DOMAIN rt.turns, InterruptTurn(thread, turn)
      PROVE  Saved' /\ SuccessNeedsConsent'
  BY <1>1, <1>3, InterruptTurnKeeps
<1>4. ASSUME NEW thread \in DOMAIN rt.threads, NEW turn \in DOMAIN rt.turns, NEW use \in ToolUses,
             RecordTool(thread, turn, use)
      PROVE  Saved' /\ SuccessNeedsConsent'
  <2>1. use \in ToolUse
    BY UsesAreTyped DEF ToolUse
  <2> QED BY <1>1, <1>4, <2>1, RecordToolKeeps
<1>5. ASSUME NEW thread \in DOMAIN rt.threads, NEW turn \in DOMAIN rt.turns, NEW uses \in UsesUpTo(2),
             RecordToolBatch(thread, turn, uses)
      PROVE  Saved' /\ SuccessNeedsConsent'
  <2>1. uses \in Seq(ToolUse)
    BY UsesAreSequences
  <2> QED BY <1>5, <2>1, RecordToolBatchKeeps
<1> QED BY <1>2, <1>3, <1>4, <1>5, Zenon DEF TurnRequest

-----------------------------------------------------------------------------
(* The restart.                                                            *)

\* The turns that go on make a sequence: there are finitely many.
LEMMA TurnsInSequence ==
  ASSUME NEW open \in SUBSET (1..MaxHostTurns)
  PROVE  SetToSeq(open) \in Seq(open)
<1>1. IsFiniteSet(1..MaxHostTurns)
  BY HostBounds, FS_Interval
<1>2. IsFiniteSet(open)
  BY <1>1, FS_Subset
<1>3. PICK n \in Nat : n = Cardinality(open) /\ ExistsBijection(1..n, open)
  BY <1>2, FS_CardinalityType
<1>4. PICK f \in Bijection(1..n, open) : TRUE
  BY <1>3 DEF ExistsBijection
<1>5. f \in [1..n -> open] /\ IsInjective(f)
  BY <1>4 DEF Bijection, Injection, IsInjective
<1>6. SetToSeq(open) \in [1..n -> open]
  BY <1>3, <1>5 DEF SetToSeq
<1> QED BY <1>3, <1>6

\* To abort a turn takes no turn away and grants nothing.
LEMMA AbortKeeps ==
  ASSUME NEW r, NEW given, IsRuntime(r), GrantedIn(r, given), NEW turn \in DOMAIN r.turns
  PROVE  LET m == AbortTurn(r, turn)
         IN  IsRuntime(m) /\ GrantedIn(m, given) /\ DOMAIN m.turns = DOMAIN r.turns
<1>1. "TurnAborted" \in EndKinds
  BY DEF EndKinds
<1>2. PICK m : m = AbortTurn(r, turn)
  OBVIOUS
<1>3. m = ApplyReplayedEvent(r, [kind |-> "TurnAborted", turn |-> turn])
  BY <1>2, Zenon DEF AbortTurn
<1>4. /\ IsRuntime(m)
      /\ m.turns = [t \in DOMAIN r.turns |->
           IF t = turn THEN [r.turns[t] EXCEPT !.status = EndOf("TurnAborted")] ELSE r.turns[t]]
      /\ DOMAIN m.approvals = DOMAIN r.approvals
      /\ \A a \in DOMAIN r.approvals : SameApproval(r.approvals[a], m.approvals[a])
  BY <1>1, <1>3, EndReplayed
<1>5. ApprovalsAgree(r.approvals, m.approvals)
  BY <1>4 DEF ApprovalsAgree
<1>6. GrantedIn(m, given)
  BY <1>5, ReplayGrantsNoMore
<1> QED BY <1>2, <1>4, <1>6

LEMMA RecoveryKeeps ==
  ASSUME NEW r, NEW given, IsRuntime(r), GrantedIn(r, given)
  PROVE  LET m == RecoverIncompleteTurns(r)
         IN  IsRuntime(m) /\ GrantedIn(m, given)
<1> DEFINE open == {t \in DOMAIN r.turns : ~Terminal(r.turns[t].status)}
           m == RecoverIncompleteTurns(r)
<1>1. open \in SUBSET (1..MaxHostTurns)
  BY TurnsAreTyped
<1>2. PICK turns \in Seq(open) : turns = SetToSeq(open)
  BY <1>1, TurnsInSequence
<1>3. m = Aborting!Fold(r, turns)
  BY <1>2, HostFolds, Zenon DEF RecoverIncompleteTurns
<1> DEFINE X == {q \in Runtimes(r) : IsRuntime(q) /\ GrantedIn(q, given) /\ DOMAIN q.turns = DOMAIN r.turns}
<1>4. ASSUME NEW q \in X, NEW turn \in open
      PROVE  AbortTurn(q, turn) \in X
  <2>1. /\ q \in Runtimes(r) /\ IsRuntime(q) /\ GrantedIn(q, given)
        /\ DOMAIN q.turns = DOMAIN r.turns /\ turn \in DOMAIN q.turns
    OBVIOUS
  <2>2. PICK p : p = AbortTurn(q, turn)
    OBVIOUS
  <2>3. IsRuntime(p) /\ GrantedIn(p, given) /\ DOMAIN p.turns = DOMAIN q.turns
    BY <2>1, <2>2, AbortKeeps
  <2>4. p \in Runtimes(q)
    <3>1. "TurnAborted" \in EndKinds
      BY DEF EndKinds
    <3>2. p = ApplyReplayedEvent(q, [kind |-> "TurnAborted", turn |-> turn])
      BY <2>2, Zenon DEF AbortTurn
    <3> QED BY <2>1, <3>1, <3>2, EndReplayed
  <2>5. p \in Runtimes(r)
    BY <2>1, <2>4, SameRuntimes
  <2> QED BY <2>1, <2>2, <2>3, <2>5
<1>5. r \in X
  BY DEF IsRuntime
<1>6. m \in X
  <2> HIDE DEF X, open, m
  <2> QED BY <1>2, <1>3, <1>4, <1>5, Aborting!FoldStays
<1> QED BY <1>6

LEMMA RestartKeeps ==
  ASSUME Saved, HostRestart
  PROVE  Saved' /\ UNCHANGED <<granted, worked>>
<1>1. PICK m : m = RecoverIncompleteTurns(disk)
  OBVIOUS
<1>2. IsRuntime(m) /\ GrantedIn(m, granted)
  BY <1>1, RecoveryKeeps DEF Saved
<1>3. disk' = m /\ rt' = m /\ unsaved' = <<>> /\ UNCHANGED <<granted, worked>>
  BY <1>1 DEF HostRestart
<1>8. crashes' \in 0..MaxCrashes
  BY HostBounds DEF HostRestart, Saved
<1>4. Replay(m, <<>>) = m
  BY HostFolds, Events!FoldEmpty
<1>5. Agree(m, m)
  BY DEF Agree, SameRest, TurnsAgree, SameEnd, ApprovalsAgree, SameApproval
<1>6. <<>> \in Seq({})
  OBVIOUS
<1>7. Told' /\ IsLog(unsaved)'
  BY <1>2, <1>3, <1>4, <1>5, <1>6 DEF Told, IsLog
<1> QED BY <1>2, <1>3, <1>7, <1>8 DEF Saved

-----------------------------------------------------------------------------
(* The invariant is inductive.                                             *)

LEMMA HostInitKeeps ==
  ASSUME HostInit
  PROVE  HostInv
<1>1. PICK r : r = NewRuntime
  OBVIOUS
<1>2. /\ rt = r /\ disk = r /\ unsaved = <<>> /\ granted = {} /\ worked = {} /\ crashes = 0
      /\ asked = [turns |-> 0, rest |-> 0]
  BY <1>1 DEF HostInit
<1>3. IsRuntime(r)
  <2>1. \A K, V : Empty \in Maps(K, V)
    <3>1. \A K, V : {} \in SUBSET K /\ Empty \in [{} -> V]
      BY DEF Empty
    <3> QED BY <3>1 DEF Maps
  <2> QED BY <1>1, <2>1 DEF NewRuntime, IsRuntime, Runtimes
<1>4. Replay(r, <<>>) = r
  BY HostFolds, Events!FoldEmpty
<1>5. Agree(r, r)
  BY DEF Agree, SameRest, TurnsAgree, SameEnd, ApprovalsAgree, SameApproval
<1>6. GrantedIn(r, granted)
  BY <1>1 DEF NewRuntime, Empty, GrantedIn
<1>7. <<>> \in Seq({})
  OBVIOUS
<1>8. Saved
  BY <1>2, <1>3, <1>4, <1>5, <1>6, <1>7, HostBounds DEF Saved, Told, IsLog
<1>9. SuccessNeedsConsent
  BY <1>2 DEF SuccessNeedsConsent
<1>10. Bounded
  BY <1>2, BoundsAreNumbers DEF Bounded
<1> QED BY <1>8, <1>9, <1>10 DEF HostInv

LEMMA CountedKeeps ==
  ASSUME Bounded, NEW group \in {"rest", "turns"}, Counted(group)
  PROVE  Bounded'
<1>1. PICK before, bounds : before = asked /\ bounds = MaxRequests
  OBVIOUS
<1>2. /\ before \in [turns : 0..bounds.turns, rest : 0..bounds.rest]
      /\ bounds.turns \in Nat /\ bounds.rest \in Nat
  BY <1>1, BoundsAreNumbers DEF Bounded
<1>3. before[group] < bounds[group] /\ asked' = [before EXCEPT ![group] = @ + 1]
  BY <1>1 DEF Counted
<1>4. asked' \in [turns : 0..bounds.turns, rest : 0..bounds.rest]
  BY <1>2, <1>3
<1> QED BY <1>1, <1>4 DEF Bounded

LEMMA ConsentStays ==
  ASSUME SuccessNeedsConsent, granted \subseteq granted', worked' = worked
  PROVE  SuccessNeedsConsent'
<1>1. ASSUME NEW use \in worked'
      PROVE  \E consent \in granted' :
               /\ consent.thread = use.thread /\ consent.call = use.call
               /\ consent.turn \in {use.turn, NoTurn}
  BY DEF SuccessNeedsConsent
<1> QED BY <1>1 DEF SuccessNeedsConsent

LEMMA HostNextKeeps ==
  ASSUME HostInv, HostNext
  PROVE  HostInv'
<1>1. Saved /\ SuccessNeedsConsent /\ Bounded
  BY DEF HostInv
<1>2. ASSUME Saved', Quiet PROVE Saved' /\ SuccessNeedsConsent'
  BY <1>1, <1>2, ConsentStays DEF Quiet
<1>3. CASE LookRequest
  <2>1. Saved' /\ Quiet
    BY <1>1, <1>3, LookRequestKeeps
  <2>2. Bounded'
    BY <1>1, <1>3 DEF LookRequest, Bounded
  <2> QED BY <1>2, <2>1, <2>2 DEF HostInv
<1>4. CASE Counted("rest") /\ (ThreadRequest \/ QuestionRequest \/ RegistryRequest)
  <2>1. Saved' /\ Quiet
    BY <1>1, <1>4, ThreadRequestKeeps, QuestionRequestKeeps, RegistryRequestKeeps
  <2>2. Bounded'
    BY <1>1, <1>4, CountedKeeps
  <2> QED BY <1>2, <2>1, <2>2 DEF HostInv
<1>5. CASE Counted("turns") /\ (TurnRequest \/ PauseRequest)
  <2>1. ASSUME TurnRequest PROVE Saved' /\ SuccessNeedsConsent'
    BY <1>1, <2>1, TurnRequestKeeps
  <2>2. ASSUME PauseRequest PROVE Saved' /\ SuccessNeedsConsent'
    BY <1>1, <2>2, PauseRequestKeeps, ConsentStays
  <2>3. Saved' /\ SuccessNeedsConsent'
    BY <1>5, <2>1, <2>2
  <2>4. Bounded'
    BY <1>1, <1>5, CountedKeeps
  <2> QED BY <2>3, <2>4 DEF HostInv
<1>6. CASE HostRestart
  <2>1. Saved' /\ UNCHANGED <<granted, worked>>
    BY <1>1, <1>6, RestartKeeps
  <2>2. Bounded'
    BY <1>1, <1>6 DEF HostRestart, Bounded
  <2>3. SuccessNeedsConsent'
    BY <1>1, <2>1, ConsentStays
  <2> QED BY <2>1, <2>2, <2>3 DEF HostInv
<1> QED BY <1>3, <1>4, <1>5, <1>6 DEF HostNext

LEMMA HostStutters ==
  ASSUME HostInv, UNCHANGED hostVars
  PROVE  HostInv'
BY DEF HostInv, hostVars, Saved, Told, GrantedIn, SuccessNeedsConsent, Bounded

LEMMA HostInvInductive ==
  /\ HostInit => HostInv
  /\ HostInv /\ [HostNext]_hostVars => HostInv'
BY HostInitKeeps, HostNextKeeps, HostStutters

LEMMA HostInvHolds ==
  HostSpec => []HostInv
BY HostInvInductive, PTL DEF HostSpec

-----------------------------------------------------------------------------
(* What the invariant says of the properties.                              *)

LEMMA FileTellsState ==
  ASSUME HostInv
  PROVE  HostStateIsOnFile
<1>1. PICK r, l : r = rt /\ l = Replay(disk, unsaved)
  OBVIOUS
<1>2. IsRuntime(r) /\ IsRuntime(l) /\ Agree(r, l)
  BY <1>1 DEF HostInv, Saved, Told
<1>3. SameRest(r, l) /\ DOMAIN l.turns = DOMAIN r.turns
  BY <1>2 DEF Agree, TurnsAgree
<1>4. Closed(l) = Closed(r)
  <2>1. \A t \in DOMAIN r.turns : Terminal(r.turns[t].status) \/ Terminal(l.turns[t].status) =>
          l.turns[t].status = r.turns[t].status
    BY <1>2 DEF Agree, TurnsAgree, SameEnd
  <2> QED BY <1>3, <2>1 DEF Closed
<1>5. Answered(l) = Answered(r)
  <2>1. \A a \in DOMAIN r.approvals : r.approvals[a] \in ApprovalOf(r.threads)
    BY <1>2, RuntimeFields, MapIs
  <2>2. DOMAIN l.approvals = DOMAIN r.approvals
        /\ \A a \in DOMAIN r.approvals : SameApproval(r.approvals[a], l.approvals[a])
    BY <1>2 DEF Agree, ApprovalsAgree
  <2>3. ASSUME NEW a \in DOMAIN r.approvals
        PROVE  \/ l.approvals[a].outcome = r.approvals[a].outcome
               \/ l.approvals[a].outcome = "cancelled" /\ r.approvals[a].outcome = "pending"
    BY <2>1, <2>2 DEF SameApproval, ApprovalOf
  <2> QED BY <2>2, <2>3 DEF Answered
<1>6. ReplayEvents(unsaved) = l
  BY <1>1 DEF ReplayEvents, Replay
<1> QED BY <1>1, <1>3, <1>4, <1>5, <1>6 DEF HostStateIsOnFile, SameRest

LEMMA StateIsTyped ==
  ASSUME HostInv
  PROVE  HostTypeOK
<1>1. PICK r : r = rt
  OBVIOUS
<1>2. IsRuntime(r)
  BY <1>1 DEF HostInv, Saved
<1>3. \A t \in DOMAIN r.turns :
        /\ r.turns[t].thread \in DOMAIN r.threads
        /\ r.turns[t].status \in {"Running", "WaitingForApproval", "Completed", "Aborted"}
  BY <1>2, TurnsAreTyped DEF TurnOf, Statuses
<1>4. \A a \in DOMAIN r.approvals :
        r.approvals[a].outcome \in Outcomes /\ r.approvals[a].thread \in DOMAIN r.threads
  <2>1. \A a \in DOMAIN r.approvals : r.approvals[a] \in ApprovalOf(r.threads)
    BY <1>2, RuntimeFields, MapIs
  <2> QED BY <2>1 DEF ApprovalOf
<1>5. r.selected \in r.models \cup {NoModel}
  BY <1>2, RuntimeFields
<1>6. \A group \in DOMAIN asked : asked[group] \in 0..MaxRequests[group]
  BY BoundsAreNumbers DEF HostInv, Bounded
<1>7. crashes \in 0..MaxCrashes
  BY DEF HostInv, Saved
<1> QED BY <1>1, <1>3, <1>4, <1>5, <1>6, <1>7 DEF HostTypeOK

\* Whatever the requests of a host, a turn belongs to a thread there is, an
\* approval has one of its four outcomes, and the model in use is registered
\* (Runtime in oppi-core, over every request and restart).
THEOREM HostTypeCorrect == HostSpec => []HostTypeOK
<1>1. HostInv => HostTypeOK
  BY StateIsTyped
<1> QED BY <1>1, HostInvHolds, PTL

\* A restart loses nothing the host was told: for any number of threads, turns,
\* batches and crashes, and with events a refused request has left unsaved, the
\* files rebuild what the runtime holds (apply_replayed_event).
THEOREM HostFileCorrect == HostSpec => []HostStateIsOnFile
<1>1. HostInv => HostStateIsOnFile
  BY FileTellsState
<1> QED BY <1>1, HostInvHolds, PTL

\* A gated call is recorded as successful only after the user has approved it,
\* in that thread and for that turn or all of them, in batches of any length
\* and after any restart (validate_tool_batch_items, has_approved_tool_call).
THEOREM HostConsentCorrect == HostSpec => []SuccessNeedsConsent
<1>1. HostInv => SuccessNeedsConsent
  BY DEF HostInv
<1> QED BY <1>1, HostInvHolds, PTL
=============================================================================
