SPECIFICATION RecoverySpec
CONSTANTS
  MaxTurns = 1
  MaxApprovals = 2
  MaxQuestions = 1
  MaxContinuations = 0
  MaxStepCalls = 1
  Calls = {ask, gate1}
  AskCalls = {ask}
  GatedCalls = {gate1}
  NoCall = NoCall
  Providers = {"direct"}
  Unusual = {}
  MaxCrashes = 2
  MaxRestarts = 1
INVARIANTS
  ReplayAgrees
  PausedTurnSurvives
  NoCallRunsTwiceAcrossRestarts
  RefusalOutlivesRestart
CHECK_DEADLOCK FALSE
