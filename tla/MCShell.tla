------------------------------- MODULE MCShell -------------------------------
(***************************************************************************)
(* The shell for TLC.  Its loop over the server, its settings, its keys,   *)
(* its threads and its logins are modelled each with the others left out,  *)
(* and they are checked side by side: the first state says which moves.    *)
(***************************************************************************)
EXTENDS ShellSession, ShellSettings, ShellKeys, ShellThreads, LoginFlow

VARIABLE moves  \* the part that moves

shellPartsVars == <<allVars, settingsVars, keysVars, threadsVars, loginVars, moves>>

AllInit ==
  /\ moves \in {"session", "settings", "keys", "threads", "logins"}
  /\ ShellInit
  /\ SettingsInit
  /\ KeysInit
  /\ ThreadsInit
  /\ LoginInit
  \* The parts that stay have one state to stay in.
  /\ moves # "settings" => logins = {} /\ bridge = FALSE
  /\ moves # "keys" => config = CHOOSE one \in Configs : TRUE

SessionMoves ==
  /\ moves = "session"
  /\ ShellNext
  /\ UNCHANGED <<settingsVars, keysVars, threadsVars, loginVars, moves>>

SettingsMove ==
  /\ moves = "settings"
  /\ SettingsNext
  /\ UNCHANGED <<allVars, keysVars, threadsVars, loginVars, moves>>

KeysMove ==
  /\ moves = "keys"
  /\ KeysNext
  /\ UNCHANGED <<allVars, settingsVars, threadsVars, loginVars, moves>>

ThreadsMove ==
  /\ moves = "threads"
  /\ ThreadsNext
  /\ UNCHANGED <<allVars, settingsVars, keysVars, loginVars, moves>>

LoginsMove ==
  /\ moves = "logins"
  /\ LoginNext
  /\ UNCHANGED <<allVars, settingsVars, keysVars, threadsVars, moves>>

AllNext == SessionMoves \/ SettingsMove \/ KeysMove \/ ThreadsMove \/ LoginsMove

\* ShellFairness and LoginFairness, each for the part that moves.
PartsFairness ==
  /\ WF_allVars(moves = "session" /\ LoopNext)
  /\ WF_allVars(moves = "session" /\ (TakeInterrupt \/ PassCheck \/ Work) /\ UNCHANGED shellVars)
  /\ WF_allVars(moves = "session" /\ (AnswerStart \/ AnswerInterrupt \/ Resume \/ Steer
                   \/ Register)
                 /\ UNCHANGED shellVars)
  /\ \A j \in 1..MaxJobs :
       WF_allVars(moves = "session" /\ j \in JobId /\ JobTakesLock(j) /\ UNCHANGED shellVars)
  /\ \A s \in Shells :
       /\ WF_loginVars(moves = "logins" /\ LoginStep(s))
       /\ WF_loginVars(moves = "logins" /\ DeadlinePasses(s))

PartsSpec == AllInit /\ [][AllNext]_shellPartsVars /\ PartsFairness
=============================================================================
