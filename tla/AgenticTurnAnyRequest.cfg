SPECIFICATION Spec
CONSTANTS
  MaxTurns = 2
  MaxApprovals = 1
  MaxQuestions = 1
  MaxContinuations = 0
  MaxStepCalls = 1
  Calls = {ask, gate1}
  AskCalls = {ask}
  GatedCalls = {gate1}
  NoCall = NoCall
  Providers = {"scripted", "direct"}
  Unusual = {"conflictingProvider", "anyApproval", "answerOutOfBand"}
INVARIANTS
  GatedRunsOnlyWithConsent
PROPERTIES
  InterruptStopsWork
CHECK_DEADLOCK FALSE
