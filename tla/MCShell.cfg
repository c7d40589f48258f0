SPECIFICATION PartsSpec
CONSTANTS
  Threads = {"t1"}
  MaxJobs = 2
  MaxSubagents = 1
  MaxEvents = 4
  MaxPanics = 1
  MaxPrompts = 2
  Roles = {"subagent"}
  Choosable = {"gpt-5.1"}
  MaxCommands = 3
  MaxStarts = 2
  Configs = {"one", "two"}
  MaxQueued = 1
  LoadLimit = 3
  PollLimit = 2
  MaxContinuations = 1
  MaxThreads = 2
  MaxLogged = 5
  MaxFollowUps = 1
  Shells = {"s1", "s2"}
  NoShell = "nobody"
  Domains = {"github.com", "enterprise"}
  MaxFlows = 2
  MaxStray = 1
INVARIANTS
  ActiveTurnIsAlive
  SettingsAreOnFile
  OverlayIsCurrent
  GoalShownIsTheGoal
  CodesGoToTheirFlow
PROPERTIES
  QueuedPromptsRun
  EveryRequestIsAnswered
  LoginsEnd
CHECK_DEADLOCK FALSE
