CONSTANTS
  Here <- MCHere
  Home <- MCHome
  Temp <- MCTemp
  GlobNames = {".env*"}
  DefaultDirs = {".git"}
  DefaultFiles = {".npmrc", ".env*"}
  Inputs <- MCInputs
  Platforms = {"linux", "macos", "windows"}
  Paths <- MCPaths
  MaxEvents = 2
  MaxCrashes = 1
  Cwd <- W
  Files <- MCFiles
  Disks <- MCDisks
  TurnPolicies <- MCTurnPolicies
  ToolCalls <- MCToolCalls
  MaxEdits = 1
SPECIFICATION PartsSpec
INVARIANTS
  AdapterKeepsThePolicy
  RefusalMeansNotRun
  LogsAreNotShared
  ToolsKeepToThePolicy
  OutputsAreTheirOwn
PROPERTIES
  RunReturns
