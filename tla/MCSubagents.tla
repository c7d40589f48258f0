---------------------------- MODULE MCSubagents ----------------------------
(***************************************************************************)
(* Two agents of one built-in name (a project's may shadow it), four tools *)
(* and calls that ask for more and for less than they may have.            *)
(***************************************************************************)
EXTENDS Subagents

MCRegistry == {"AgentTool", "read_file", "write_file", "shell_exec"}

Agent(name, source, mode, tools) ==
  [name |-> name, source |-> source, mode |-> mode, tools |-> tools]
MCBuiltIn ==
  ("Explore" :> <<Agent("Explore", "builtIn", "readOnly", {"read", "grep", "shell_exec"})>>
   @@ "general-purpose" :> <<Agent("general-purpose", "builtIn", "none", {"*"})>>)
MCDefinitions == {Agent("Explore", "project", "fullAccess", {"*"})}
MCNames == DOMAIN MCBuiltIn

Asks(agent, mode, network, allow, deny, steps) ==
  [agent |-> agent, mode |-> mode, network |-> network, allow |-> allow, deny |-> deny,
   maxTurns |-> 3, steps |-> steps, skills |-> {}, topics |-> {"plan"}]
MCAgentCalls ==
  {Asks("general-purpose", "fullAccess", "enabled", {}, {"exec"}, "valid"),
   Asks("general-purpose", "none", "none", {"agent", "write"}, {}, "conflicting"),
   Asks("Explore", "default", "none", {}, {}, "valid"),
   Asks("Explore", "none", "disabled", {"*"}, {"read"}, "invalid")}

Policy(mode, filesystem, network, writable) ==
  [mode |-> mode, filesystem |-> filesystem, network |-> network, writable |-> writable]
MCPolicies == {Policy("readOnly", "readOnly", "disabled", {})}

SkillFile(name, source, path, dir, topics) ==
  [name |-> name, source |-> source, path |-> path, dir |-> dir, topics |-> topics,
   place |-> ".pi", depth |-> 1, loose |-> FALSE, described |-> TRUE]
MCSkillFiles ==
  {SkillFile("independent", "builtIn", 1, <<>>, {"plan"}),
   SkillFile("independent", "user", 2, <<>>, {"plan"}),
   SkillFile("independent", "user", 3, <<>>, {"plan"}),
   SkillFile("graphify", "project", 4, <<"src">>, {"plan"}),
   [SkillFile("review", "project", 5, <<"src", "app">>, {"plan"}) EXCEPT !.loose = TRUE]}
MCCwd == <<"src", "app">>
MCRepository == <<"src">>
=============================================================================
