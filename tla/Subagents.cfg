CONSTANTS
  Registry <- MCRegistry
  ClientTools = {{"deploy"}}
  Names <- MCNames
  BuiltIn <- MCBuiltIn
  Definitions <- MCDefinitions
  SkillFiles <- MCSkillFiles
  Cwd <- MCCwd
  Repository <- MCRepository
  AgentCalls <- MCAgentCalls
  Policies <- MCPolicies
  MaxRoots = 1
  MaxTurns = 3
  MaxRuns = 2
  MaxDefinitions = 2
  MaxCrashes = 1
SPECIFICATION Spec
INVARIANTS
  NestedTurnsStayWithin
  RunTellsTheTurn
CHECK_DEADLOCK FALSE
