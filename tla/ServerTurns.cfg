SPECIFICATION Spec
CONSTANTS
  Threads = {"t1", "t2"}
  MaxJobs = 2
  MaxSubagents = 1
  MaxEvents = 2
  MaxPanics = 1
INVARIANTS
  SeenIsSaved
  DeniedTurnNeverCompletes
  AnswerNamesOwnTurn
CHECK_DEADLOCK FALSE
