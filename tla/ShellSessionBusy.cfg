SPECIFICATION ShellSpec
CONSTANTS
  Threads = {"t1"}
  MaxJobs = 2
  MaxSubagents = 1
  MaxEvents = 3
  MaxPanics = 0
  MaxPrompts = 2
PROPERTIES
  PromptsWaitForTheTurn
CHECK_DEADLOCK FALSE
