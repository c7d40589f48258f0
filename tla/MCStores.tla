------------------------------ MODULE MCStores ------------------------------
(***************************************************************************)
(* The two stores on disk for TLC, side by side: the event files, which    *)
(* one process writes, and the credential file, which several do.  The     *)
(* first state says which of them moves.  The processes at the credential  *)
(* file are alike: states that differ only in their names count once.      *)
(***************************************************************************)
EXTENDS EventLog, AuthStore, TLC

VARIABLE moves  \* the store that moves

StoresInit == moves \in {"events", "credentials"} /\ Init /\ AuthInit

EventsMove == moves = "events" /\ Next /\ UNCHANGED <<authVars, moves>>
CredentialsMove == moves = "credentials" /\ AuthNext /\ UNCHANGED <<vars, moves>>
StoresNext == EventsMove \/ CredentialsMove

StoresSpec == StoresInit /\ [][StoresNext]_<<vars, authVars, moves>>

Symmetry == Permutations(Procs)
=============================================================================
