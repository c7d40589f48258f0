CONSTANTS
  Titles = {"blank", "long"}
  Calls = {"read", "write"}
  ToolUses <- MCToolUses
  HostIds = {0, 1}
  Plugins = {"plugin"}
  Servers = {"server"}
  Models = {"model"}
  TodoLists <- MCTodoLists
  MaxThreads = 2
  MaxHostTurns = 2
  MaxRequests <- MCMaxRequests
  MaxCrashes = 1
SPECIFICATION HostSpec
INVARIANTS
  HostStateIsOnFile
  SuccessNeedsConsent
CHECK_DEADLOCK FALSE
