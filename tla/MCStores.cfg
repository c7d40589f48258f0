SPECIFICATION StoresSpec
CONSTANTS
  MaxThreads = 2
  MaxEvents = 4
  MaxCrashes = 2
  MaxFailures = 1
  NotJson = NotJson
  NotText = NotText
  Procs = {p1, p2, p3}
  Free = Free
  Dead = Dead
  Attempts = 2
  MaxLogins = 1
  MaxRefreshes = 1
  MaxDeaths = 1
SYMMETRY Symmetry
INVARIANTS
  LoadedThreadsAreWhole
  LoginsSurvive
  NoTokenOfferedTwice
CHECK_DEADLOCK FALSE
