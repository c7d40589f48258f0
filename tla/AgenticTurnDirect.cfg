SPECIFICATION FairSpec
CONSTANTS
  MaxTurns = 2
  MaxApprovals = 2
  MaxQuestions = 1
  MaxContinuations = 1
  MaxStepCalls = 2
  Calls = {ask, gate1}
  AskCalls = {ask}
  GatedCalls = {gate1}
  NoCall = NoCall
  Providers = {"direct"}
  Unusual = {}
INVARIANTS
  RunningTurnIsDriven
PROPERTIES
  InterruptedTurnAborts
  KeepsLifecycle
CHECK_DEADLOCK FALSE
