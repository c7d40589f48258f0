--------------------------- MODULE TurnLifecycle ---------------------------
(***************************************************************************)
(* What oppi-core promises a client about the turns of a thread: a turn    *)
(* starts when no other is being worked on, is worked on until it ends or  *)
(* waits for the client, waits until the client takes it up again or gives *)
(* it up, and never comes back once it has ended.  AgenticTurn implements  *)
(* this; the providers, tools, approvals and interrupts are its business.  *)
(***************************************************************************)
EXTENDS Naturals

CONSTANTS MaxTurns   \* bound: turns ever started

NoTurn == 0
Turn == 1..MaxTurns
Terminal == {"completed", "aborted"}
Waiting == {"waitingForApproval", "waitingForUser"}

VARIABLES
  status,  \* turn -> what a client is told of it
  active   \* the turn being worked on

vars == <<status, active>>

Init ==
  /\ status = [t \in Turn |-> "absent"]
  /\ active = NoTurn

\* Turns start in the order of their numbers.
Start(t) ==
  /\ active = NoTurn
  /\ status[t] = "absent"
  /\ \A s \in Turn : s < t => status[s] # "absent"
  /\ status' = [status EXCEPT ![t] = "running"]
  /\ active' = t

Leave(t, s) ==
  /\ active = t
  /\ status' = [status EXCEPT ![t] = s]
  /\ active' = NoTurn

Resume(t) ==
  /\ active = NoTurn
  /\ status[t] \in Waiting
  /\ status' = [status EXCEPT ![t] = "running"]
  /\ active' = t

GiveUp(t) ==
  /\ active = NoTurn
  /\ status[t] \in Waiting
  /\ status' = [status EXCEPT ![t] = "aborted"]
  /\ UNCHANGED active

Next ==
  \E t \in Turn :
    \/ Start(t)
    \/ \E s \in Terminal \cup Waiting : Leave(t, s)
    \/ Resume(t)
    \/ GiveUp(t)

Spec == Init /\ [][Next]_vars

\* Nobody works on a turn for ever.
ActiveTurnLeaves == active # NoTurn ~> active = NoTurn

LiveSpec == Spec /\ ActiveTurnLeaves
=============================================================================
