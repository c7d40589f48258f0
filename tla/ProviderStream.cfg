CONSTANTS
  Calls = {1, 2, 3}
  ItemOf <- MCItemOf
  Known = {1, 2}
  Histories <- MCHistories
  Pieces = 2
  MaxSteps = 3
  MaxMessages = 3
  MaxChars = 5
SPECIFICATION ProviderSpec
INVARIANTS
  StreamTellsTheStep
  OutputsAnswerCalls
  PromptIsSentOnce
CHECK_DEADLOCK FALSE
