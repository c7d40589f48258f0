SPECIFICATION Spec
CONSTANTS
  MaxTime = 3
  MaxTurns = 2
  TokenMax = 3
  Budgets = {2, 3}
  TokenDeltas = {0, 1, 2}
  MaxContinuations = 1
  MaxClaims = 3
  Unusual = {"hostTurn"}
INVARIANTS
  PromptsAreCapped
  NoSecondChargedTwice
  GoalIsOnFile
PROPERTIES
  NoPromptAfterFailure
