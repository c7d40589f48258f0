----------------------------- MODULE Subagents -----------------------------
(***************************************************************************)
(* AgentTool: a driven turn calls an agent, whose own turn is driven to    *)
(* its end or pause inside the call.  The module follows who may do what   *)
(* (tools, policies), what becomes of the run records, and what is left of *)
(* both when the process dies.                                             *)
(*                                                                         *)
(* All of it runs under the runtime's mutex: the requests of a client come *)
(* when no turn is driven.  The text of prompts and the choice of a model  *)
(* are left out.                                                           *)
(***************************************************************************)
EXTENDS Naturals, Sequences, SequencesExt, FiniteSets, FiniteSetsExt, TLC

CONSTANTS
  Registry,       \* the runtime's tools that are followed, AgentTool among them
  ClientTools,    \* sets of tools a client may add to a turn
  Names,          \* names of agents
  BuiltIn,        \* the built-in definitions, by name
  Definitions,    \* definitions a host may register
  SkillFiles,     \* the files of skills on this machine
  Cwd, Repository,  \* the thread's directory, and the one above it with .git
  AgentCalls,     \* arguments of AgentTool calls
  Policies,       \* sandbox policies a client may attach
  MaxRoots, MaxTurns, MaxRuns, MaxDefinitions, MaxCrashes

VARIABLES
  agents,     \* agents: the definitions of each name in the order of their coming
  turns,      \* the turns' status and parent (0 for none)
  policies,   \* turn_sandbox_policies
  runs,       \* agent_runs; its length is next_agent_run
  stack,      \* the nested drives, the innermost last
  disk,       \* what a replay makes of the files
  crashes,
  child,      \* history: the turn of each run, 0 for none
  outside     \* history: runs a host, an error on the way in or a crash has left

vars == <<agents, turns, policies, runs, stack, disk, crashes, child, outside>>

-----------------------------------------------------------------------------
(* The tools of the runtime, with their capabilities.                      *)

DefaultToolRegistry ==
  "AgentTool" :> {"agent", "subagent"}
  @@ "shell_exec" :> {"process", "sandbox-exec"}
  @@ "shell_task" :> {"process", "background-task"}
  @@ "read_file" :> {"filesystem", "read"}
  @@ "oppi_review_read" :> {"filesystem", "read", "review-tool"}
  @@ "oppi_review_ls" :> {"filesystem", "list", "review-tool"}
  @@ "oppi_review_grep" :> {"filesystem", "search", "review-tool"}
  @@ "search_files" :> {"filesystem", "search"}
  @@ "write_file" :> {"filesystem", "write"}
  @@ "edit_file" :> {"filesystem", "edit"}
  @@ "get_goal" :> {"goal", "state", "read"}
  @@ "create_goal" :> {"goal", "state", "write"}
  @@ "update_goal" :> {"goal", "state", "write"}
  @@ "todo_write" :> {"state", "todos"}
  @@ "ask_user" :> {"questions", "user-input"}
  @@ "suggest_next_message" :> {"suggestion", "ui"}
  @@ "oppi_feedback_submit" :> {"feedback", "diagnostics"}
  @@ "render_mermaid" :> {"mermaid", "render"}
  @@ "image_gen" :> {"image-generation", "artifact", "network"}
  @@ "echo" :> {}

ASSUME ToolsAreRegistered == "AgentTool" \in Registry /\ Registry \subseteq DOMAIN DefaultToolRegistry

\* A tool a client adds to its turn comes with none.
Capabilities(tool) == IF tool \in Registry THEN DefaultToolRegistry[tool] ELSE {}

-----------------------------------------------------------------------------
(* Policies and their order.                                               *)

PermissionMode == {"readOnly", "default", "autoReview", "fullAccess"}
NetworkPolicy == {"disabled", "ask", "enabled"}
FilesystemPolicy == {"readOnly", "workspaceWrite", "unrestricted"}
Roots == {"cwd"} \cup UNION {p.writable : p \in Policies}
SandboxPolicy ==
  [mode : PermissionMode, filesystem : FilesystemPolicy, network : NetworkPolicy,
   writable : SUBSET Roots]

ASSUME PoliciesAreTyped == Policies \subseteq SandboxPolicy

PermissionRank(mode) ==
  CASE mode = "readOnly" -> 0 [] mode = "default" -> 1
    [] mode = "autoReview" -> 2 [] mode = "fullAccess" -> 3
NetworkRank(n) == CASE n = "disabled" -> 0 [] n = "ask" -> 1 [] n = "enabled" -> 2
FilesystemRank(f) == CASE f = "readOnly" -> 0 [] f = "workspaceWrite" -> 1 [] f = "unrestricted" -> 2

MinPermissionMode(a, b) == IF PermissionRank(a) <= PermissionRank(b) THEN a ELSE b
MinNetworkPolicy(a, b) == IF NetworkRank(a) <= NetworkRank(b) THEN a ELSE b
FilesystemForPermission(parent, mode) == IF mode = "readOnly" THEN "readOnly" ELSE parent

\* "none" is an option that is not given; "cwd" is the thread's directory.
Or(option, fallback) == IF option = "none" THEN fallback ELSE option

DefaultParentPolicy ==
  [mode |-> "default", filesystem |-> "workspaceWrite", network |-> "ask",
   writable |-> {"cwd"}]

WithCwdDefaults(policy) ==
  IF policy.filesystem = "workspaceWrite" /\ policy.writable = {}
  THEN [policy EXCEPT !.writable = {"cwd"}] ELSE policy

SandboxPolicyForTurn(t) ==
  IF t \in DOMAIN policies THEN WithCwdDefaults(policies[t]) ELSE DefaultParentPolicy

\* Mutant of SubagentSandboxPolicy: the call's mode replaces the parent's.
AskedSandboxPolicy(parent, asked) ==
  LET mode == Or(asked.mode, parent.mode)
  IN  [mode |-> mode,
       filesystem |-> FilesystemForPermission(parent.filesystem, mode),
       network |-> MinNetworkPolicy(parent.network, Or(asked.network, parent.network)),
       writable |-> IF mode = "readOnly" THEN {} ELSE {"cwd"}]

SubagentSandboxPolicy(parent, asked) ==
  LET mode == MinPermissionMode(parent.mode, Or(asked.mode, parent.mode))
      filesystem == FilesystemForPermission(parent.filesystem, mode)
  IN  [mode |-> mode,
       filesystem |-> filesystem,
       network |-> MinNetworkPolicy(parent.network, Or(asked.network, parent.network)),
       writable |-> CASE filesystem = "readOnly" -> {}
                      [] parent.writable = {} -> {"cwd"}
                      [] OTHER -> parent.writable]

-----------------------------------------------------------------------------
(* The active definition of a name, and what a call of it may use.         *)

AgentSource == {"builtIn", "plugin", "user", "project", "cli", "managedPolicy"}
AgentDefinition == Definitions \cup UNION {ToSet(BuiltIn[name]) : name \in Names}

ASSUME AgentsAreTyped ==
  /\ BuiltIn \in [Names -> Seq(AgentDefinition)]
  /\ \A definition \in AgentDefinition :
       /\ definition.source \in AgentSource
       /\ definition.mode \in PermissionMode \cup {"none"}
  /\ \A call \in AgentCalls :
       /\ call.agent \in Names
       /\ call.mode \in PermissionMode \cup {"none"}
       /\ call.network \in NetworkPolicy \cup {"none"}

SourceRank(source) ==
  CASE source = "builtIn" -> 0 [] source = "plugin" -> 1 [] source = "user" -> 2
    [] source = "project" -> 3 [] source = "cli" -> 4 [] source = "managedPolicy" -> 5

\* The last of the highest source: the sort is stable and then reversed.
ActiveIndex(defs) ==
  CHOOSE i \in DOMAIN defs : \A j \in DOMAIN defs \ {i} :
    \/ SourceRank(defs[i].source) > SourceRank(defs[j].source)
    \/ SourceRank(defs[i].source) = SourceRank(defs[j].source) /\ i > j
ActiveAgent(name) == agents[name][ActiveIndex(agents[name])]

AgentToolMatchToken(token, tool) ==
  LET caps == Capabilities(tool)
      Has(some) == caps \cap some # {}
  IN  \/ token \in {"*", tool}
      \/ token \in caps
      \/ token \in {"read", "ls"} /\ Has({"read", "filesystem"}) /\ ~Has({"write", "edit"})
      \/ token \in {"grep", "find", "search"} /\ Has({"search", "filesystem"})
      \/ token \in {"shell", "exec", "bash"} /\ Has({"process", "shell", "sandbox-exec"})

AgentToolDefinitionAllowed(tool, allow, deny) ==
  /\ \A token \in deny : ~AgentToolMatchToken(token, tool)
  /\ \E token \in allow : AgentToolMatchToken(token, tool)

SubagentToolDefinitions(parentTools, asked) ==
  {tool \in parentTools : AgentToolDefinitionAllowed(tool, asked.allow, asked.deny)}

\* The mode of a run is the lower of the agent's and the call's.
ResolveAgentToolPolicy(agent, call) ==
  [mode |-> IF agent.mode = "none" THEN call.mode
            ELSE MinPermissionMode(agent.mode, Or(call.mode, agent.mode)),
   network |-> call.network,
   allow |-> IF call.allow = {} THEN agent.tools ELSE call.allow,
   deny |-> call.deny]

-----------------------------------------------------------------------------
(* Skills.  A file has a source, a path (a number), the directory its root *)
(* is in, its depth below the root, and is SKILL.md or loose.              *)

\* A project's roots are those of every directory from the thread's up to the
\* repository; ten levels down a root nothing is looked at, and a loose file
\* counts only at the top of a root of .pi.
Discovered(file) ==
  /\ file.source = "project" => IsPrefix(file.dir, Cwd) /\ IsPrefix(Repository, file.dir)
  /\ file.depth <= 9
  /\ file.loose => file.place = ".pi" /\ file.depth = 0

\* The frontmatter must give a name and a description.
SkillCandidates == {f \in SkillFiles : Discovered(f) /\ f.name # "" /\ f.described}

SkillSourcePriority(source) ==
  CASE source = "builtIn" -> 0 [] source = "user" -> 10
    [] source = "project" -> 20 [] source = "cli" -> 30

Shadows(a, b) ==
  \/ SkillSourcePriority(a.source) > SkillSourcePriority(b.source)
  \/ SkillSourcePriority(a.source) = SkillSourcePriority(b.source) /\ a.path < b.path

\* Of each name the file of the highest source, then of the first path, ...
ActiveSkills ==
  {s \in SkillCandidates : \A o \in SkillCandidates : o.name = s.name => ~Shadows(o, s)}

\* ... if it is asked for or its topics meet those of the task.
SelectedSkills(call) ==
  {s \in ActiveSkills : s.name \in call.skills \/ s.topics \cap call.topics # {}}

-----------------------------------------------------------------------------
(* Requests of a host.                                                     *)

Init ==
  /\ agents = BuiltIn /\ turns = <<>> /\ policies = <<>> /\ runs = <<>> /\ stack = <<>>
  /\ disk = [turns |-> <<>>, runs |-> <<>>]
  /\ crashes = 0 /\ child = <<>> /\ outside = {}

Idle == stack = <<>>

\* A request is answered when its events are on file.  (Nothing is written
\* after the last death of the model: it would not be read.)
Answered ==
  disk' = IF crashes < MaxCrashes THEN [turns |-> turns', runs |-> runs'] ELSE disk

RegisterAgent(definition) ==
  /\ Idle
  /\ Len(agents[definition.name]) < MaxDefinitions
  /\ agents' = [agents EXCEPT ![definition.name] = Append(@, definition)]
  /\ UNCHANGED <<turns, policies, runs, stack, crashes, child, outside>>
  /\ Answered

Dispatched(name) == Append(runs, [agent |-> name, status |-> "running"])

DispatchAgent(name) ==
  /\ Idle /\ Len(runs) < MaxRuns
  /\ agents[name] # <<>>
  /\ runs' = Dispatched(name)
  /\ child' = Append(child, 0)
  /\ outside' = outside \cup {Len(runs) + 1}
  /\ UNCHANGED <<agents, turns, policies, stack, crashes>>
  /\ Answered

\* agent/block and agent/complete ask for no status and no owner but the thread.
SetRun(r, status) ==
  /\ Idle
  /\ runs' = [runs EXCEPT ![r].status = status]
  /\ outside' = outside \cup {r}
  /\ UNCHANGED <<agents, turns, policies, stack, crashes, child>>
  /\ Answered
BlockAgent(r) == SetRun(r, "blocked")
CompleteAgent(r) == SetRun(r, "completed")

Started(parent, skills) ==
  Append(turns, [parent |-> parent, status |-> "running", skills |-> skills])
Attach(t, policy) == [u \in DOMAIN policies \cup {t} |-> IF u = t THEN policy ELSE policies[u]]
Frame(t, tools, run) == [turn |-> t, tools |-> tools, run |-> run]

\* run_agentic_turn without a parent; {} is a request without a policy.
RunAgenticTurn(extra, policy) ==
  LET t == Len(turns) + 1
  IN  /\ Idle /\ t <= MaxTurns
      /\ Cardinality({u \in DOMAIN turns : turns[u].parent = 0}) < MaxRoots
      /\ turns' = Started(0, {})
      /\ policies' = IF policy = {} THEN policies
                     ELSE Attach(t, CHOOSE p \in policy : TRUE)
      /\ stack' = <<Frame(t, Registry \cup extra, 0)>>
      /\ UNCHANGED <<agents, runs, crashes, child, outside>>
      /\ Answered

\* Whoever started the turn, it goes on with the registry of the runtime and
\* the tools of this request.
ResumeAgenticTurn(t, extra, policy) ==
  /\ Idle
  /\ turns[t].status = "waiting"
  /\ turns' = [turns EXCEPT ![t].status = "running"]
  /\ policies' = IF policy = {} THEN policies ELSE Attach(t, CHOOSE p \in policy : TRUE)
  /\ stack' = <<Frame(t, Registry \cup extra, 0)>>
  /\ UNCHANGED <<agents, runs, crashes, child, outside>>
  /\ Answered

InterruptTurn(t) ==
  /\ Idle
  /\ turns[t].status \in {"waiting", "running"}
  /\ turns' = [turns EXCEPT ![t].status = "aborted"]
  /\ UNCHANGED <<agents, policies, runs, stack, crashes, child, outside>>
  /\ Answered

-----------------------------------------------------------------------------
(* A driven turn.                                                          *)

Top == Last(stack)

\* What every call of an agent does first.  A call refused before that (no
\* task, no such agent, maxTurns 0, an invalid provider) has only a result.
CanCall(call) ==
  /\ ~Idle /\ "AgentTool" \in Top.tools
  /\ Len(runs) < MaxRuns
  /\ agents[call.agent] # <<>> /\ call.maxTurns # 0

Call(call) ==
  /\ CanCall(call)
  /\ runs' = Dispatched(call.agent)
  /\ UNCHANGED <<agents, disk, crashes>>

ExecuteAgentTool(call) ==
  LET asked == ResolveAgentToolPolicy(ActiveAgent(call.agent), call)
      t == Len(turns) + 1
      tools == SubagentToolDefinitions(Top.tools, asked)
  IN  /\ Call(call) /\ call.steps = "valid" /\ t <= MaxTurns
      /\ turns' = Started(Top.turn, SelectedSkills(call))
      /\ policies' = Attach(t, SubagentSandboxPolicy(SandboxPolicyForTurn(Top.turn), asked))
      /\ child' = Append(child, t)
      /\ stack' = Append(stack, Frame(t, tools, Len(runs) + 1))
      /\ UNCHANGED outside

\* Steps that do not parse are found after the dispatch; steps beside the
\* parent's provider after the child's turn has started.
AgentCallRefused(call) ==
  LET t == Len(turns) + 1
      asked == ResolveAgentToolPolicy(ActiveAgent(call.agent), call)
  IN  /\ Call(call) /\ call.steps # "valid"
      /\ outside' = outside \cup {Len(runs) + 1}
      /\ UNCHANGED stack
      /\ \/ /\ call.steps = "invalid"
            /\ child' = Append(child, 0)
            /\ UNCHANGED <<turns, policies>>
         \/ /\ call.steps = "conflicting" /\ t <= MaxTurns
            /\ turns' = Started(Top.turn, SelectedSkills(call))
            /\ policies' = Attach(t, SubagentSandboxPolicy(SandboxPolicyForTurn(Top.turn), asked))
            /\ child' = Append(child, t)

\* Mutant of RunStatusFor: a pause counts as the end of the work.
RunStatusOfPause(turnStatus) == IF turnStatus = "aborted" THEN "blocked" ELSE "completed"

RunStatusFor(turnStatus) == IF turnStatus = "completed" THEN "completed" ELSE "blocked"

\* The drive of the innermost turn ends or pauses, and the call it was made
\* by, if any, blocks or completes its run and returns to the parent.
Leave(status) ==
  /\ ~Idle
  /\ turns' = [turns EXCEPT ![Top.turn].status = status]
  /\ stack' = Front(stack)
  /\ runs' = IF Top.run = 0 THEN runs
             ELSE [runs EXCEPT ![Top.run].status = RunStatusFor(status)]
  /\ UNCHANGED <<agents, policies, disk, crashes, child, outside>>
Pause == Leave("waiting")
Complete == Leave("completed")
Abort == Leave("aborted")

-----------------------------------------------------------------------------
(* Files, and the death of the process.                                    *)

\* A client asks for the events while a turn is driven, or after it.
PersistNewEvents ==
  /\ crashes < MaxCrashes
  /\ disk # [turns |-> turns, runs |-> runs]
  /\ UNCHANGED <<agents, turns, policies, runs, stack, crashes, child, outside>>
  /\ Answered

\* A replay brings back turns and runs, but no registered agent and no policy;
\* recover_incomplete_turns ends what nobody drives and no transcript resumes.
Restart ==
  LET back == disk.turns
  IN  /\ crashes < MaxCrashes /\ crashes' = crashes + 1
      /\ agents' = BuiltIn /\ policies' = <<>> /\ stack' = <<>>
      /\ turns' = [t \in DOMAIN back |->
                    IF back[t].status = "running" THEN [back[t] EXCEPT !.status = "aborted"]
                    ELSE back[t]]
      /\ runs' = disk.runs
      /\ child' = [r \in DOMAIN disk.runs |-> IF child[r] <= Len(back) THEN child[r] ELSE 0]
      /\ outside' = {r \in DOMAIN disk.runs : r \in outside \/ disk.runs[r].status = "running"}
      /\ disk' = [turns |-> turns', runs |-> runs']

Next ==
  \/ \E d \in Definitions : RegisterAgent(d)
  \/ \E name \in Names : DispatchAgent(name)
  \/ \E r \in DOMAIN runs : BlockAgent(r) \/ CompleteAgent(r)
  \/ \E extra \in ClientTools, policy \in {{}} \cup {{p} : p \in Policies} :
       \/ RunAgenticTurn(extra, policy)
       \/ \E t \in DOMAIN turns : ResumeAgenticTurn(t, extra, policy)
  \/ \E t \in DOMAIN turns : InterruptTurn(t)
  \/ \E call \in AgentCalls : ExecuteAgentTool(call) \/ AgentCallRefused(call)
  \/ Pause \/ Complete \/ Abort
  \/ PersistNewEvents \/ Restart

Spec == Init /\ [][Next]_vars

-----------------------------------------------------------------------------
(* Properties.                                                             *)

\* The records keep their types, and the nested drives are a chain of running
\* turns, each the parent of the next.
TypeOK ==
  /\ \A t \in DOMAIN turns : turns[t].status \in {"running", "waiting", "completed", "aborted"}
  /\ \A r \in DOMAIN runs : runs[r].status \in {"running", "blocked", "completed"}
  /\ Len(child) = Len(runs)
  /\ \A i \in DOMAIN stack :
        /\ turns[stack[i].turn].status = "running"
        /\ i > 1 => turns[stack[i].turn].parent = stack[i - 1].turn

NoMore(a, b) ==
  /\ PermissionRank(a.mode) <= PermissionRank(b.mode)
  /\ NetworkRank(a.network) <= NetworkRank(b.network)
  /\ FilesystemRank(a.filesystem) <= FilesystemRank(b.filesystem)
  /\ a.writable \subseteq b.writable \cup {"cwd"}

\* Whatever agent, mode, network and tools a call asks for, a turn driven inside
\* another may use no tool and has no right the outermost turn lacks
\* (subagent_sandbox_policy, subagent_tool_definitions), over any number of
\* levels, also when the outermost one was resumed.  Of an outermost turn without a
\* policy the default one is meant.
NestedTurnsStayWithin ==
  \A i, j \in DOMAIN stack : i < j =>
     /\ stack[j].tools \subseteq stack[i].tools
     /\ NoMore(SandboxPolicyForTurn(stack[j].turn), SandboxPolicyForTurn(stack[i].turn))

\* The record of a run tells what became of its turn (execute_agent_tool_inner):
\* completed only if the turn is, blocked if it did something else, and running
\* while it is driven.  Not meant are runs a host has set, calls that failed
\* between the dispatch and the drive, and runs a crash cut short.
RunTellsTheTurn ==
  \A r \in DOMAIN runs \ outside :
     /\ runs[r].status = "completed" => turns[child[r]].status = "completed"
     /\ runs[r].status = "running" => \E i \in DOMAIN stack : stack[i].run = r
=============================================================================
