--------------------------- MODULE ConversationProofs ---------------------------
(***************************************************************************)
(* Proofs about the two conversations of a turn: with the turns it nests   *)
(* (Subagents) and with its model (ProviderStream).                        *)
(*                                                                         *)
(* Subagents, for any agents, calls, policies and tools, and any depth of  *)
(* nested drives.  Frames says what the stack of drives is: running turns, *)
(* no turn twice, each with the run it was called for.  On it rest both    *)
(* properties; that run records survive a crash needs DiskTells besides,   *)
(* RunTellsTheTurn of what is on file.                                     *)
(*                                                                         *)
(* ProviderStream, for any threads, calls, pieces and bounds.  Streams     *)
(* says what has been made of an answer at each of its events, Gathered    *)
(* what is made of it at its end, and Transcript which calls still wait    *)
(* for their results.  Both need ItemsAreTold of the service; that the     *)
(* prompt is sent once (PromptInv) needs nothing of it.                    *)
(***************************************************************************)
EXTENDS Subagents, ProviderStream, FiniteSetTheorems, SequenceTheorems, WellFoundedInduction, TLAPS

-----------------------------------------------------------------------------
(* Part one: Subagents.                                                    *)

TurnStatus == {"running", "waiting", "completed", "aborted"}
RunStatus == {"running", "blocked", "completed"}
TurnRecord == [parent : Nat, status : TurnStatus, skills : SUBSET SkillFiles]
RunRecord == [agent : Names, status : RunStatus]
Tools == Registry \cup UNION ClientTools
FrameRecord == [turn : Nat, tools : SUBSET Tools, run : Nat]

Typed ==
  /\ agents \in [Names -> Seq(AgentDefinition)]
  /\ turns \in Seq(TurnRecord)
  /\ \A t \in DOMAIN policies : policies[t] \in SandboxPolicy
  /\ runs \in Seq(RunRecord)
  /\ stack \in Seq(FrameRecord)
  /\ disk.turns \in Seq(TurnRecord)
  /\ disk.runs \in Seq(RunRecord)
  /\ child \in Seq(Nat)
  /\ Len(child) = Len(runs)

Frames ==
  /\ \A i \in 1..Len(stack) :
       /\ stack[i].turn \in 1..Len(turns)
       /\ turns[stack[i].turn].status = "running"
       /\ stack[i].run \in 0..Len(runs)
       /\ stack[i].run # 0 => child[stack[i].run] = stack[i].turn
  /\ \A i, j \in 1..Len(stack) : i # j => stack[i].turn # stack[j].turn

RunsTell ==
  \A r \in (1..Len(runs)) \ outside :
    /\ runs[r].status = "completed" =>
         child[r] \in 1..Len(turns) /\ turns[child[r]].status = "completed"
    /\ runs[r].status = "running" => \E i \in 1..Len(stack) : stack[i].run = r

DiskTells ==
  /\ Len(disk.runs) <= Len(runs)
  /\ \A r \in (1..Len(disk.runs)) \ outside :
       disk.runs[r].status = "completed" =>
         child[r] \in 1..Len(disk.turns) /\ disk.turns[child[r]].status = "completed"

SubagentsInv ==
  /\ Typed
  /\ Frames
  /\ RunsTell
  /\ DiskTells
  /\ NestedTurnsStayWithin

-----------------------------------------------------------------------------
(* Numbers and sequences.                                                  *)

LEMMA LeastOfNaturals ==
  ASSUME NEW S, S \subseteq Nat, S # {}
  PROVE  \E i \in S : \A k \in S : i <= k
<1> DEFINE Less == {pair \in Nat \X Nat : pair[1] < pair[2]}
<1>1. IsWellFoundedOn(Less, Nat)
  BY NatLessThanWellFounded DEF OpToRel
<1>2. \A i, k \in Nat : <<k, i>> \notin Less => i <= k
  OBVIOUS
<1> HIDE DEF Less
<1>3. \E i \in S : \A k \in S : <<k, i>> \notin Less
  BY <1>1, WFMin, Zenon
<1>4. QED BY <1>2, <1>3

LEMMA GreatestUpTo ==
  ASSUME NEW n \in Nat, NEW S, S \subseteq 0..n, S # {}
  PROVE  \E i \in S : \A k \in S : k <= i
<1> DEFINE gaps == {n - i : i \in S}
<1>1. gaps \subseteq Nat /\ gaps # {}
  <2>1. \A i \in S : n - i \in Nat
    OBVIOUS
  <2>2. QED BY <2>1
<1>2. PICK g \in gaps : \A h \in gaps : g <= h
  BY <1>1, LeastOfNaturals
<1>3. PICK i \in S : g = n - i
  OBVIOUS
<1>4. ASSUME NEW k \in S PROVE k <= i
  <2>1. n - i <= n - k
    BY <1>2, <1>3
  <2>2. k \in Int /\ i \in Int
    OBVIOUS
  <2>3. QED BY <2>1, <2>2
<1>5. QED BY <1>4

LEMMA Appended ==
  ASSUME NEW S, NEW q \in Seq(S), NEW e \in S
  PROVE  /\ Append(q, e) \in Seq(S)
         /\ Len(Append(q, e)) = Len(q) + 1
         /\ Append(q, e)[Len(q) + 1] = e
         /\ \A k \in 1..Len(q) : Append(q, e)[k] = q[k]
OBVIOUS

LEMMA Written ==
  ASSUME NEW S, NEW q \in Seq(S), NEW i \in 1..Len(q), NEW e \in S
  PROVE  /\ [q EXCEPT ![i] = e] \in Seq(S)
         /\ Len([q EXCEPT ![i] = e]) = Len(q)
         /\ [q EXCEPT ![i] = e][i] = e
         /\ \A k \in 1..Len(q) : k # i => [q EXCEPT ![i] = e][k] = q[k]
<1> DEFINE r == [k \in 1..Len(q) |-> IF k = i THEN e ELSE q[k]]
<1>1. r \in Seq(S) /\ Len(r) = Len(q)
  OBVIOUS
<1>2. [q EXCEPT ![i] = e] = r
  OBVIOUS
<1>3. QED BY <1>1, <1>2

LEMMA Shortened ==
  ASSUME NEW S, NEW q \in Seq(S), q # <<>>
  PROVE  /\ Front(q) \in Seq(S)
         /\ Len(Front(q)) = Len(q) - 1
         /\ \A k \in 1..(Len(q) - 1) : Front(q)[k] = q[k]
         /\ Last(q) = q[Len(q)] /\ Len(q) \in 1..Len(q)
<1>1. Len(q) \in Nat \ {0}
  OBVIOUS
<1>2. Front(q) = [k \in 1..(Len(q) - 1) |-> q[k]]
  BY <1>1 DEF Front
<1>3. Last(q) = q[Len(q)]
  BY DEF Last
<1>4. QED BY <1>1, <1>2, <1>3

-----------------------------------------------------------------------------
(* Policies.                                                               *)

LEMMA MinOfModes ==
  ASSUME NEW a \in PermissionMode, NEW b \in PermissionMode
  PROVE  /\ MinPermissionMode(a, b) \in PermissionMode
         /\ PermissionRank(MinPermissionMode(a, b)) <= PermissionRank(a)
BY DEF MinPermissionMode, PermissionMode, PermissionRank

LEMMA MinOfNetworks ==
  ASSUME NEW a \in NetworkPolicy, NEW b \in NetworkPolicy
  PROVE  /\ MinNetworkPolicy(a, b) \in NetworkPolicy
         /\ NetworkRank(MinNetworkPolicy(a, b)) <= NetworkRank(a)
BY DEF MinNetworkPolicy, NetworkPolicy, NetworkRank

LEMMA FilesystemOfMode ==
  ASSUME NEW f \in FilesystemPolicy, NEW mode
  PROVE  /\ FilesystemForPermission(f, mode) \in FilesystemPolicy
         /\ FilesystemRank(FilesystemForPermission(f, mode)) <= FilesystemRank(f)
BY DEF FilesystemForPermission, FilesystemPolicy, FilesystemRank

LEMMA RanksAreNumbers ==
  /\ \A mode \in PermissionMode : PermissionRank(mode) \in Int
  /\ \A n \in NetworkPolicy : NetworkRank(n) \in Int
  /\ \A f \in FilesystemPolicy : FilesystemRank(f) \in Int
BY DEF PermissionMode, PermissionRank, NetworkPolicy, NetworkRank, FilesystemPolicy,
       FilesystemRank

LEMMA NoMoreIsTransitive ==
  ASSUME NEW a \in SandboxPolicy, NEW b \in SandboxPolicy, NEW c \in SandboxPolicy,
         NoMore(a, b), NoMore(b, c)
  PROVE  NoMore(a, c)
<1>1. /\ a.mode \in PermissionMode /\ b.mode \in PermissionMode /\ c.mode \in PermissionMode
      /\ a.network \in NetworkPolicy /\ b.network \in NetworkPolicy /\ c.network \in NetworkPolicy
      /\ a.filesystem \in FilesystemPolicy /\ b.filesystem \in FilesystemPolicy
      /\ c.filesystem \in FilesystemPolicy
  BY DEF SandboxPolicy
<1>2. PermissionRank(a.mode) <= PermissionRank(c.mode)
  BY <1>1, RanksAreNumbers DEF NoMore
<1>3. NetworkRank(a.network) <= NetworkRank(c.network)
  BY <1>1, RanksAreNumbers DEF NoMore
<1>4. FilesystemRank(a.filesystem) <= FilesystemRank(c.filesystem)
  BY <1>1, RanksAreNumbers DEF NoMore
<1>5. a.writable \subseteq c.writable \cup {"cwd"}
  BY DEF NoMore
<1>6. QED BY <1>2, <1>3, <1>4, <1>5 DEF NoMore

LEMMA CwdDefaultsKeepTypes ==
  ASSUME NEW p \in SandboxPolicy
  PROVE  /\ WithCwdDefaults(p) \in SandboxPolicy
         /\ WithCwdDefaults(p).mode = p.mode /\ WithCwdDefaults(p).network = p.network
         /\ WithCwdDefaults(p).filesystem = p.filesystem
         /\ WithCwdDefaults(p).writable \in {p.writable, {"cwd"}}
<1>1. {"cwd"} \in SUBSET Roots
  BY DEF Roots
<1>2. QED BY <1>1 DEF WithCwdDefaults, SandboxPolicy

LEMMA PolicyOfTurn ==
  ASSUME Typed, NEW t
  PROVE  SandboxPolicyForTurn(t) \in SandboxPolicy
<1>1. DefaultParentPolicy \in SandboxPolicy
  <2>1. {"cwd"} \in SUBSET Roots
    BY DEF Roots
  <2>2. QED BY <2>1 DEF DefaultParentPolicy, SandboxPolicy, PermissionMode, NetworkPolicy,
                        FilesystemPolicy
<1>2. CASE t \in DOMAIN policies
  BY <1>2, CwdDefaultsKeepTypes DEF SandboxPolicyForTurn, Typed
<1>3. CASE t \notin DOMAIN policies
  BY <1>1, <1>3 DEF SandboxPolicyForTurn
<1>4. QED BY <1>2, <1>3

\* A child is given no more than its parent, whatever is asked.
LEMMA ChildHasNoMore ==
  ASSUME NEW parent \in SandboxPolicy, NEW asked,
         asked.mode \in PermissionMode \cup {"none"},
         asked.network \in NetworkPolicy \cup {"none"}
  PROVE  /\ SubagentSandboxPolicy(parent, asked) \in SandboxPolicy
         /\ NoMore(WithCwdDefaults(SubagentSandboxPolicy(parent, asked)), parent)
<1> DEFINE mode == MinPermissionMode(parent.mode, Or(asked.mode, parent.mode))
           network == MinNetworkPolicy(parent.network, Or(asked.network, parent.network))
           filesystem == FilesystemForPermission(parent.filesystem, mode)
           writable == CASE filesystem = "readOnly" -> {}
                         [] parent.writable = {} -> {"cwd"}
                         [] OTHER -> parent.writable
           given == SubagentSandboxPolicy(parent, asked)
<1>1. /\ parent.mode \in PermissionMode /\ parent.network \in NetworkPolicy
      /\ parent.filesystem \in FilesystemPolicy /\ parent.writable \subseteq Roots
  BY DEF SandboxPolicy
<1>2. /\ Or(asked.mode, parent.mode) \in PermissionMode
      /\ Or(asked.network, parent.network) \in NetworkPolicy
  BY <1>1 DEF Or
<1>3. mode \in PermissionMode /\ PermissionRank(mode) <= PermissionRank(parent.mode)
  BY <1>1, <1>2, MinOfModes
<1>4. network \in NetworkPolicy /\ NetworkRank(network) <= NetworkRank(parent.network)
  BY <1>1, <1>2, MinOfNetworks
<1>5. /\ filesystem \in FilesystemPolicy
      /\ FilesystemRank(filesystem) <= FilesystemRank(parent.filesystem)
  BY <1>1, FilesystemOfMode
<1>6. given = [mode |-> mode, filesystem |-> filesystem, network |-> network,
               writable |-> writable]
  BY DEF SubagentSandboxPolicy
<1> HIDE DEF mode, network, filesystem, given
<1>7. writable \subseteq Roots /\ writable \subseteq parent.writable \cup {"cwd"}
  BY <1>1 DEF Roots
<1> HIDE DEF writable
<1>8. given \in SandboxPolicy
  BY <1>3, <1>4, <1>5, <1>6, <1>7 DEF SandboxPolicy
<1>9. /\ given.mode = mode /\ given.network = network /\ given.filesystem = filesystem
      /\ given.writable = writable
  BY <1>6
<1>10. /\ WithCwdDefaults(given).mode = mode /\ WithCwdDefaults(given).network = network
       /\ WithCwdDefaults(given).filesystem = filesystem
       /\ WithCwdDefaults(given).writable \in {writable, {"cwd"}}
  BY <1>8, <1>9, CwdDefaultsKeepTypes
<1>11. NoMore(WithCwdDefaults(given), parent)
  BY <1>3, <1>4, <1>5, <1>7, <1>10 DEF NoMore
<1>12. QED BY <1>8, <1>11 DEF given

-----------------------------------------------------------------------------
(* Definitions of agents.                                                  *)

LEMMA SourcesAreRanked == \A source \in AgentSource : SourceRank(source) \in 0..5
BY DEF AgentSource, SourceRank

\* A name that has a definition has an active one: of those of the highest
\* source the last.
LEMMA ActiveIsOne ==
  ASSUME NEW defs \in Seq(AgentDefinition), defs # <<>>
  PROVE  ActiveIndex(defs) \in DOMAIN defs
<1> DEFINE rank(i) == SourceRank(defs[i].source)
           ranks == {rank(i) : i \in DOMAIN defs}
<1>1. Len(defs) \in Nat /\ DOMAIN defs = 1..Len(defs) /\ DOMAIN defs # {}
  OBVIOUS
<1>2. ASSUME NEW i \in DOMAIN defs PROVE rank(i) \in 0..5
  <2>1. defs[i] \in AgentDefinition
    BY <1>1
  <2>2. QED BY <2>1, AgentsAreTyped, SourcesAreRanked
<1> HIDE DEF rank
<1>3. ranks \subseteq 0..5 /\ ranks # {}
  BY <1>1, <1>2
<1>4. PICK top \in ranks : \A k \in ranks : k <= top
  BY <1>3, GreatestUpTo
<1> DEFINE best == {i \in DOMAIN defs : rank(i) = top}
<1>5. best \subseteq 0..Len(defs) /\ best # {}
  BY <1>1, <1>4
<1>6. PICK last \in best : \A k \in best : k <= last
  BY <1>1, <1>5, GreatestUpTo
<1>7. \A j \in DOMAIN defs \ {last} :
        rank(last) > rank(j) \/ (rank(last) = rank(j) /\ last > j)
  <2> SUFFICES ASSUME NEW j \in DOMAIN defs, j # last
               PROVE  rank(last) > rank(j) \/ (rank(last) = rank(j) /\ last > j)
    OBVIOUS
  <2>1. rank(j) \in Int /\ rank(last) \in Int /\ j \in Int /\ last \in Int
    BY <1>1, <1>2, <1>6
  <2>2. rank(last) = top /\ rank(j) <= top
    BY <1>4, <1>6
  <2>3. CASE j \in best
    BY <1>6, <2>1, <2>2, <2>3
  <2>4. CASE j \notin best
    BY <2>1, <2>2, <2>4
  <2>5. QED BY <2>3, <2>4
<1>8. last \in DOMAIN defs
  BY <1>6
<1>9. \E i \in DOMAIN defs : \A j \in DOMAIN defs \ {i} :
         \/ SourceRank(defs[i].source) > SourceRank(defs[j].source)
         \/ SourceRank(defs[i].source) = SourceRank(defs[j].source) /\ i > j
  BY <1>7, <1>8 DEF rank
<1>10. QED BY <1>9 DEF ActiveIndex

LEMMA CallAsksTyped ==
  ASSUME Typed, NEW call \in AgentCalls, agents[call.agent] # <<>>
  PROVE  LET asked == ResolveAgentToolPolicy(ActiveAgent(call.agent), call)
         IN /\ asked.mode \in PermissionMode \cup {"none"}
            /\ asked.network \in NetworkPolicy \cup {"none"}
<1> DEFINE agent == ActiveAgent(call.agent)
<1>1. call.agent \in Names /\ agents[call.agent] \in Seq(AgentDefinition)
  BY AgentsAreTyped DEF Typed
<1>2. agent \in AgentDefinition
  BY <1>1, ActiveIsOne DEF ActiveAgent
<1>3. agent.mode \in PermissionMode \cup {"none"}
  BY <1>2, AgentsAreTyped
<1>4. /\ call.mode \in PermissionMode \cup {"none"}
      /\ call.network \in NetworkPolicy \cup {"none"}
  BY AgentsAreTyped
<1> HIDE DEF agent
<1>5. ResolveAgentToolPolicy(agent, call).network \in NetworkPolicy \cup {"none"}
  BY <1>4 DEF ResolveAgentToolPolicy
<1>6. ResolveAgentToolPolicy(agent, call).mode \in PermissionMode \cup {"none"}
  <2>1. CASE agent.mode = "none"
    BY <1>4, <2>1 DEF ResolveAgentToolPolicy
  <2>2. CASE agent.mode # "none"
    <3>1. agent.mode \in PermissionMode /\ Or(call.mode, agent.mode) \in PermissionMode
      BY <1>3, <1>4, <2>2 DEF Or
    <3>2. MinPermissionMode(agent.mode, Or(call.mode, agent.mode)) \in PermissionMode
      BY <3>1, MinOfModes
    <3>3. QED BY <2>2, <3>2 DEF ResolveAgentToolPolicy
  <2>3. QED BY <2>1, <2>2
<1>7. QED BY <1>5, <1>6 DEF agent

-----------------------------------------------------------------------------
(* What a step leaves of runs and files.                                   *)

\* Apart from a restart no run goes, none is given another turn, and what a host
\* has set stays marked.
Grown ==
  /\ Len(runs') \in Nat
  /\ Len(runs) <= Len(runs')
  /\ \A r \in 1..Len(runs) : child'[r] = child[r]
  /\ outside \subseteq outside'

Saved == disk' = disk \/ disk' = [turns |-> turns', runs |-> runs']

LEMMA AnsweredIsSaved == Answered => Saved
BY DEF Answered, Saved

LEMMA SavedKeepsTypes ==
  ASSUME Typed, Saved, turns' \in Seq(TurnRecord), runs' \in Seq(RunRecord)
  PROVE  disk'.turns \in Seq(TurnRecord) /\ disk'.runs \in Seq(RunRecord)
<1>1. CASE disk' = disk
  BY <1>1 DEF Typed
<1>2. CASE disk' = [turns |-> turns', runs |-> runs']
  BY <1>2
<1>3. QED BY <1>1, <1>2 DEF Saved

LEMMA DiskKept ==
  ASSUME SubagentsInv, Grown, Saved, RunsTell'
  PROVE  DiskTells'
<1>1. CASE disk' = [turns |-> turns', runs |-> runs']
  <2>1. disk'.turns = turns' /\ disk'.runs = runs'
    BY <1>1
  <2>2. Len(disk'.runs) <= Len(runs')
    BY <2>1 DEF Grown
  <2>3. ASSUME NEW r \in (1..Len(disk'.runs)) \ outside', disk'.runs[r].status = "completed"
        PROVE  child'[r] \in 1..Len(disk'.turns) /\ disk'.turns[child'[r]].status = "completed"
    BY <2>1, <2>3 DEF RunsTell
  <2>4. QED BY <2>2, <2>3 DEF DiskTells
<1>2. CASE disk' = disk
  <2>1. Len(disk.runs) <= Len(runs) /\ Len(disk.runs) \in Nat /\ Len(runs) \in Nat
    BY DEF SubagentsInv, DiskTells, Typed
  <2>2. Len(disk'.runs) <= Len(runs')
    BY <1>2, <2>1 DEF Grown
  <2>3. ASSUME NEW r \in (1..Len(disk'.runs)) \ outside', disk'.runs[r].status = "completed"
        PROVE  child'[r] \in 1..Len(disk'.turns) /\ disk'.turns[child'[r]].status = "completed"
    <3>1. r \in (1..Len(disk.runs)) \ outside /\ r \in 1..Len(runs)
      BY <1>2, <2>1, <2>3 DEF Grown
    <3>2. child[r] \in 1..Len(disk.turns) /\ disk.turns[child[r]].status = "completed"
      BY <1>2, <2>3, <3>1 DEF SubagentsInv, DiskTells
    <3>3. child'[r] = child[r]
      BY <3>1 DEF Grown
    <3>4. QED BY <1>2, <3>2, <3>3
  <2>4. QED BY <2>2, <2>3 DEF DiskTells
<1>3. QED BY <1>1, <1>2 DEF Saved

\* With one drive, or none, nothing is nested.
LEMMA ShallowKeeps ==
  ASSUME SubagentsInv, Typed', Frames', RunsTell', Grown, Saved, Len(stack') <= 1
  PROVE  SubagentsInv'
<1>1. stack' \in Seq(FrameRecord)
  BY DEF Typed
<1>2. \A i, j \in DOMAIN stack' : ~(i < j)
  BY <1>1
<1>3. NestedTurnsStayWithin'
  BY <1>2 DEF NestedTurnsStayWithin
<1>4. DiskTells'
  BY DiskKept
<1>5. QED BY <1>3, <1>4 DEF SubagentsInv

LEMMA NoDrives ==
  ASSUME SubagentsInv, Idle
  PROVE  /\ Len(stack) = 0
         /\ \A r \in (1..Len(runs)) \ outside : runs[r].status # "running"
<1>1. Len(stack) = 0
  BY DEF Idle
<1>2. ~\E i \in 1..Len(stack) : TRUE
  BY <1>1
<1>3. QED BY <1>1, <1>2 DEF SubagentsInv, RunsTell

LEMMA Lengths ==
  ASSUME Typed
  PROVE  /\ Len(turns) \in Nat /\ Len(runs) \in Nat /\ Len(stack) \in Nat
         /\ Len(child) = Len(runs) /\ DOMAIN turns = 1..Len(turns)
         /\ DOMAIN runs = 1..Len(runs) /\ DOMAIN stack = 1..Len(stack)
         /\ Len(disk.turns) \in Nat /\ Len(disk.runs) \in Nat
BY DEF Typed

LEMMA InitCorrect == Init => SubagentsInv
<1> SUFFICES ASSUME Init PROVE SubagentsInv
  OBVIOUS
<1> USE DEF Init
<1>1. Typed
  <2>1. agents \in [Names -> Seq(AgentDefinition)]
    BY AgentsAreTyped
  <2>2. /\ turns \in Seq(TurnRecord) /\ runs \in Seq(RunRecord) /\ stack \in Seq(FrameRecord)
        /\ child \in Seq(Nat) /\ Len(child) = Len(runs)
    OBVIOUS
  <2>3. disk.turns \in Seq(TurnRecord) /\ disk.runs \in Seq(RunRecord)
    OBVIOUS
  <2>4. \A t \in DOMAIN policies : policies[t] \in SandboxPolicy
    OBVIOUS
  <2>5. QED BY <2>1, <2>2, <2>3, <2>4 DEF Typed
<1>2. Frames
  BY DEF Frames
<1>3. RunsTell
  BY DEF RunsTell
<1>4. DiskTells
  BY DEF DiskTells
<1>5. NestedTurnsStayWithin
  BY DEF NestedTurnsStayWithin
<1>6. QED BY <1>1, <1>2, <1>3, <1>4, <1>5 DEF SubagentsInv

-----------------------------------------------------------------------------
(* Requests of a host.                                                     *)

LEMMA RegisterAgentKeeps ==
  ASSUME SubagentsInv, NEW d \in Definitions, RegisterAgent(d)
  PROVE  SubagentsInv'
<1>1. /\ agents' = [agents EXCEPT ![d.name] = Append(agents[d.name], d)]
      /\ UNCHANGED <<turns, policies, runs, stack, crashes, child, outside>>
      /\ Idle /\ Saved
  BY AnsweredIsSaved DEF RegisterAgent
<1>2. Typed'
  <2>1. agents' \in [Names -> Seq(AgentDefinition)]
    <3>1. d \in AgentDefinition /\ agents \in [Names -> Seq(AgentDefinition)]
      BY DEF AgentDefinition, SubagentsInv, Typed
    <3>2. ASSUME d.name \in Names PROVE Append(agents[d.name], d) \in Seq(AgentDefinition)
      BY <3>1, <3>2
    <3>3. QED BY <1>1, <3>1, <3>2
  <2>2. disk'.turns \in Seq(TurnRecord) /\ disk'.runs \in Seq(RunRecord)
    BY <1>1, SavedKeepsTypes DEF SubagentsInv, Typed
  <2>3. QED BY <1>1, <2>1, <2>2 DEF SubagentsInv, Typed
<1>3. Frames' /\ RunsTell'
  BY <1>1 DEF SubagentsInv, Frames, RunsTell
<1>4. Grown /\ Len(stack') <= 1
  BY <1>1, NoDrives, Lengths DEF SubagentsInv, Grown
<1>5. QED BY <1>1, <1>2, <1>3, <1>4, ShallowKeeps

\* A run is added to the records.
LEMMA RunDispatched ==
  ASSUME Typed, NEW name \in Names, runs' = Dispatched(name)
  PROVE  /\ runs' \in Seq(RunRecord) /\ Len(runs') = Len(runs) + 1
         /\ runs'[Len(runs) + 1].status = "running"
         /\ \A r \in 1..Len(runs) : runs'[r] = runs[r]
<1> DEFINE run == [agent |-> name, status |-> "running"]
<1>1. run \in RunRecord /\ run.status = "running"
  BY DEF RunRecord, RunStatus
<1>2. runs' = Append(runs, run) /\ runs \in Seq(RunRecord)
  BY DEF Dispatched, Typed
<1> HIDE DEF run
<1>3. /\ runs' \in Seq(RunRecord) /\ Len(runs') = Len(runs) + 1
      /\ runs'[Len(runs) + 1] = run
      /\ \A r \in 1..Len(runs) : runs'[r] = runs[r]
  BY <1>1, <1>2, Appended
<1>4. QED BY <1>1, <1>3

LEMMA ChildAdded ==
  ASSUME Typed, NEW t \in Nat, child' = Append(child, t)
  PROVE  /\ child' \in Seq(Nat) /\ Len(child') = Len(runs) + 1
         /\ child'[Len(runs) + 1] = t
         /\ \A r \in 1..Len(runs) : child'[r] = child[r]
<1>1. child \in Seq(Nat) /\ Len(child) = Len(runs)
  BY DEF Typed
<1>2. QED BY <1>1, Appended

LEMMA DispatchAgentKeeps ==
  ASSUME SubagentsInv, NEW name \in Names, DispatchAgent(name)
  PROVE  SubagentsInv'
<1> DEFINE new == Len(runs) + 1
<1>1. /\ runs' = Dispatched(name) /\ child' = Append(child, 0)
      /\ outside' = outside \cup {new}
      /\ UNCHANGED <<agents, turns, policies, stack, crashes>>
      /\ Idle /\ Saved
  BY AnsweredIsSaved DEF DispatchAgent
<1>2. /\ runs' \in Seq(RunRecord) /\ Len(runs') = new
      /\ \A r \in 1..Len(runs) : runs'[r] = runs[r]
  BY <1>1, RunDispatched DEF SubagentsInv
<1>3. /\ child' \in Seq(Nat) /\ Len(child') = new
      /\ \A r \in 1..Len(runs) : child'[r] = child[r]
  BY <1>1, ChildAdded DEF SubagentsInv
<1>4. Len(runs) \in Nat
  BY Lengths DEF SubagentsInv
<1>5. Typed'
  <2>1. disk'.turns \in Seq(TurnRecord) /\ disk'.runs \in Seq(RunRecord)
    BY <1>1, <1>2, SavedKeepsTypes DEF SubagentsInv, Typed
  <2>2. QED BY <1>1, <1>2, <1>3, <2>1 DEF SubagentsInv, Typed
<1>6. Len(stack) = 0 /\ Len(stack') = 0
  BY <1>1, NoDrives
<1>7. Frames'
  BY <1>6 DEF Frames
<1>8. RunsTell'
  <2> SUFFICES ASSUME NEW r \in (1..Len(runs')) \ outside'
               PROVE  /\ runs'[r].status = "completed" =>
                           child'[r] \in 1..Len(turns') /\ turns'[child'[r]].status = "completed"
                      /\ runs'[r].status # "running"
    BY DEF RunsTell
  <2>1. r \in (1..Len(runs)) \ outside
    BY <1>1, <1>2, <1>4
  <2>2. runs[r].status # "running"
    BY <1>1, <2>1, NoDrives
  <2>3. QED BY <1>1, <1>2, <1>3, <2>1, <2>2 DEF SubagentsInv, RunsTell
<1>9. Grown
  BY <1>1, <1>2, <1>3, <1>4 DEF Grown
<1>10. QED BY <1>1, <1>5, <1>6, <1>7, <1>8, <1>9, ShallowKeeps

\* A record whose status is written.
LEMMA RunWritten ==
  ASSUME Typed, NEW r \in 1..Len(runs), NEW status \in RunStatus,
         runs' = [runs EXCEPT ![r].status = status]
  PROVE  /\ runs' \in Seq(RunRecord) /\ Len(runs') = Len(runs)
         /\ runs'[r].status = status
         /\ \A k \in 1..Len(runs) : k # r => runs'[k] = runs[k]
<1> DEFINE e == [runs[r] EXCEPT !.status = status]
<1>1. runs \in Seq(RunRecord) /\ runs[r] \in RunRecord
  BY DEF Typed
<1>2. e \in RunRecord /\ e.status = status
  BY <1>1 DEF RunRecord
<1>3. runs' = [runs EXCEPT ![r] = e]
  OBVIOUS
<1> HIDE DEF e
<1>4. /\ runs' \in Seq(RunRecord) /\ Len(runs') = Len(runs) /\ runs'[r] = e
      /\ \A k \in 1..Len(runs) : k # r => runs'[k] = runs[k]
  BY <1>1, <1>2, <1>3, Written
<1>5. QED BY <1>2, <1>4

LEMMA TurnWritten ==
  ASSUME Typed, NEW t \in 1..Len(turns), NEW status \in TurnStatus,
         turns' = [turns EXCEPT ![t].status = status]
  PROVE  /\ turns' \in Seq(TurnRecord) /\ Len(turns') = Len(turns)
         /\ turns'[t].status = status
         /\ \A k \in 1..Len(turns) : k # t => turns'[k] = turns[k]
<1> DEFINE e == [turns[t] EXCEPT !.status = status]
<1>1. turns \in Seq(TurnRecord) /\ turns[t] \in TurnRecord
  BY DEF Typed
<1>2. e \in TurnRecord /\ e.status = status
  BY <1>1 DEF TurnRecord
<1>3. turns' = [turns EXCEPT ![t] = e]
  OBVIOUS
<1> HIDE DEF e
<1>4. /\ turns' \in Seq(TurnRecord) /\ Len(turns') = Len(turns) /\ turns'[t] = e
      /\ \A k \in 1..Len(turns) : k # t => turns'[k] = turns[k]
  BY <1>1, <1>2, <1>3, Written
<1>5. QED BY <1>2, <1>4

LEMMA SetRunKeeps ==
  ASSUME SubagentsInv, NEW r \in DOMAIN runs, NEW status \in RunStatus, SetRun(r, status)
  PROVE  SubagentsInv'
<1>1. /\ runs' = [runs EXCEPT ![r].status = status] /\ outside' = outside \cup {r}
      /\ UNCHANGED <<agents, turns, policies, stack, crashes, child>>
      /\ Idle /\ Saved
  BY AnsweredIsSaved DEF SetRun
<1>2. r \in 1..Len(runs) /\ Len(runs) \in Nat
  BY Lengths DEF SubagentsInv
<1>3. /\ runs' \in Seq(RunRecord) /\ Len(runs') = Len(runs)
      /\ \A k \in 1..Len(runs) : k # r => runs'[k] = runs[k]
  BY <1>1, <1>2, RunWritten DEF SubagentsInv
<1>4. Typed'
  <2>1. disk'.turns \in Seq(TurnRecord) /\ disk'.runs \in Seq(RunRecord)
    BY <1>1, <1>3, SavedKeepsTypes DEF SubagentsInv, Typed
  <2>2. QED BY <1>1, <1>3, <2>1 DEF SubagentsInv, Typed
<1>5. Len(stack') = 0
  BY <1>1, NoDrives
<1>6. Frames'
  BY <1>5 DEF Frames
<1>7. RunsTell'
  <2> SUFFICES ASSUME NEW k \in (1..Len(runs')) \ outside'
               PROVE  /\ runs'[k].status = "completed" =>
                           child'[k] \in 1..Len(turns') /\ turns'[child'[k]].status = "completed"
                      /\ runs'[k].status # "running"
    BY DEF RunsTell
  <2>1. k \in (1..Len(runs)) \ outside /\ runs'[k] = runs[k]
    BY <1>1, <1>3
  <2>2. runs[k].status # "running"
    BY <1>1, <2>1, NoDrives
  <2>3. QED BY <1>1, <2>1, <2>2 DEF SubagentsInv, RunsTell
<1>8. Grown
  BY <1>1, <1>2, <1>3 DEF Grown
<1>9. QED BY <1>1, <1>4, <1>5, <1>6, <1>7, <1>8, ShallowKeeps

\* No run that has been completed goes back on its turn: only turns that are not
\* ended are interrupted.
LEMMA InterruptTurnKeeps ==
  ASSUME SubagentsInv, NEW t \in DOMAIN turns, InterruptTurn(t)
  PROVE  SubagentsInv'
<1>1. /\ turns' = [turns EXCEPT ![t].status = "aborted"]
      /\ turns[t].status # "completed"
      /\ UNCHANGED <<agents, policies, runs, stack, crashes, child, outside>>
      /\ Idle /\ Saved
  BY AnsweredIsSaved DEF InterruptTurn
<1>2. t \in 1..Len(turns) /\ Len(runs) \in Nat /\ "aborted" \in TurnStatus
  BY Lengths DEF SubagentsInv, TurnStatus
<1>3. /\ turns' \in Seq(TurnRecord) /\ Len(turns') = Len(turns)
      /\ \A k \in 1..Len(turns) : k # t => turns'[k] = turns[k]
  BY <1>1, <1>2, TurnWritten DEF SubagentsInv
<1>4. Typed'
  <2>1. disk'.turns \in Seq(TurnRecord) /\ disk'.runs \in Seq(RunRecord)
    BY <1>1, <1>3, SavedKeepsTypes DEF SubagentsInv, Typed
  <2>2. QED BY <1>1, <1>3, <2>1 DEF SubagentsInv, Typed
<1>5. Len(stack') = 0
  BY <1>1, NoDrives
<1>6. Frames'
  BY <1>5 DEF Frames
<1>7. RunsTell'
  <2> SUFFICES ASSUME NEW r \in (1..Len(runs)) \ outside
               PROVE  /\ runs[r].status = "completed" =>
                           child[r] \in 1..Len(turns') /\ turns'[child[r]].status = "completed"
                      /\ runs[r].status # "running"
    BY <1>1 DEF RunsTell
  <2>1. runs[r].status # "running"
    BY <1>1, NoDrives
  <2>2. ASSUME runs[r].status = "completed"
        PROVE  child[r] \in 1..Len(turns') /\ turns'[child[r]].status = "completed"
    <3>1. child[r] \in 1..Len(turns) /\ turns[child[r]].status = "completed"
      BY <2>2 DEF SubagentsInv, RunsTell
    <3>2. child[r] # t
      BY <1>1, <3>1
    <3>3. QED BY <1>3, <3>1, <3>2
  <2>3. QED BY <2>1, <2>2
<1>8. Grown
  BY <1>1, <1>2 DEF Grown
<1>9. QED BY <1>1, <1>4, <1>5, <1>6, <1>7, <1>8, ShallowKeeps

\* A turn is added.
LEMMA TurnAdded ==
  ASSUME Typed, NEW parent \in Nat, NEW skills \in SUBSET SkillFiles,
         turns' = Started(parent, skills)
  PROVE  /\ turns' \in Seq(TurnRecord) /\ Len(turns') = Len(turns) + 1
         /\ turns'[Len(turns) + 1].status = "running"
         /\ \A k \in 1..Len(turns) : turns'[k] = turns[k]
<1> DEFINE turn == [parent |-> parent, status |-> "running", skills |-> skills]
<1>1. turn \in TurnRecord /\ turn.status = "running"
  BY DEF TurnRecord, TurnStatus
<1>2. turns' = Append(turns, turn) /\ turns \in Seq(TurnRecord)
  BY DEF Started, Typed
<1> HIDE DEF turn
<1>3. /\ turns' \in Seq(TurnRecord) /\ Len(turns') = Len(turns) + 1
      /\ turns'[Len(turns) + 1] = turn
      /\ \A k \in 1..Len(turns) : turns'[k] = turns[k]
  BY <1>1, <1>2, Appended
<1>4. QED BY <1>1, <1>3

\* A policy is attached, and no other turn's is touched.
LEMMA PolicyAttached ==
  ASSUME Typed, NEW t, NEW policy \in SandboxPolicy, policies' = Attach(t, policy)
  PROVE  /\ \A u \in DOMAIN policies' : policies'[u] \in SandboxPolicy
         /\ SandboxPolicyForTurn(t)' = WithCwdDefaults(policy)
         /\ \A u : u # t => SandboxPolicyForTurn(u)' = SandboxPolicyForTurn(u)
<1>1. policies' = [u \in DOMAIN policies \cup {t} |-> IF u = t THEN policy ELSE policies[u]]
  BY DEF Attach
<1>2. DOMAIN policies' = DOMAIN policies \cup {t}
  BY <1>1
<1>3. \A u \in DOMAIN policies' : policies'[u] = IF u = t THEN policy ELSE policies[u]
  BY <1>1
<1>4. \A u \in DOMAIN policies' : policies'[u] \in SandboxPolicy
  BY <1>2, <1>3 DEF Typed
<1>5. SandboxPolicyForTurn(t)' = WithCwdDefaults(policy)
  BY <1>2, <1>3 DEF SandboxPolicyForTurn
<1>6. ASSUME NEW u, u # t PROVE SandboxPolicyForTurn(u)' = SandboxPolicyForTurn(u)
  BY <1>2, <1>3, <1>6 DEF SandboxPolicyForTurn
<1>7. QED BY <1>4, <1>5, <1>6

\* Tools and policy of a request, attached or not.
LEMMA RequestIsTyped ==
  ASSUME Typed, NEW extra \in ClientTools, NEW policy \in {{}} \cup {{p} : p \in Policies},
         NEW t \in Nat,
         policies' = IF policy = {} THEN policies ELSE Attach(t, CHOOSE p \in policy : TRUE),
         stack' = <<Frame(t, Registry \cup extra, 0)>>
  PROVE  /\ \A u \in DOMAIN policies' : policies'[u] \in SandboxPolicy
         /\ stack' \in Seq(FrameRecord) /\ Len(stack') = 1
         /\ stack'[1].turn = t /\ stack'[1].run = 0
<1>1. \A u \in DOMAIN policies' : policies'[u] \in SandboxPolicy
  <2>1. CASE policy = {}
    BY <2>1 DEF Typed
  <2>2. CASE policy # {}
    <3>1. (CHOOSE p \in policy : TRUE) \in policy
      BY <2>2
    <3>2. (CHOOSE p \in policy : TRUE) \in SandboxPolicy
      BY <3>1, PoliciesAreTyped
    <3> DEFINE given == CHOOSE p \in policy : TRUE
    <3>3. policies' = Attach(t, given) /\ given \in SandboxPolicy
      BY <2>2, <3>2
    <3> HIDE DEF given
    <3>4. QED BY <3>3, PolicyAttached
  <2>3. QED BY <2>1, <2>2
<1> DEFINE frame == Frame(t, Registry \cup extra, 0)
<1>2. frame \in FrameRecord /\ frame.turn = t /\ frame.run = 0
  <2>1. Registry \cup extra \in SUBSET Tools
    BY DEF Tools
  <2>2. QED BY <2>1 DEF Frame, FrameRecord
<1>3. stack' = <<frame>>
  OBVIOUS
<1> HIDE DEF frame
<1>4. stack' \in Seq(FrameRecord) /\ Len(stack') = 1 /\ stack'[1] = frame
  BY <1>2, <1>3
<1>5. QED BY <1>1, <1>2, <1>4

LEMMA RunAgenticTurnKeeps ==
  ASSUME SubagentsInv, NEW extra \in ClientTools,
         NEW policy \in {{}} \cup {{p} : p \in Policies}, RunAgenticTurn(extra, policy)
  PROVE  SubagentsInv'
<1> DEFINE t == Len(turns) + 1
<1>1. /\ turns' = Started(0, {})
      /\ policies' = IF policy = {} THEN policies ELSE Attach(t, CHOOSE p \in policy : TRUE)
      /\ stack' = <<Frame(t, Registry \cup extra, 0)>>
      /\ UNCHANGED <<agents, runs, crashes, child, outside>>
      /\ Idle /\ Saved
  BY AnsweredIsSaved DEF RunAgenticTurn
<1>2. Len(turns) \in Nat /\ Len(runs) \in Nat /\ t \in Nat /\ {} \in SUBSET SkillFiles
  BY Lengths DEF SubagentsInv
<1>3. /\ turns' \in Seq(TurnRecord) /\ Len(turns') = t /\ turns'[t].status = "running"
      /\ \A k \in 1..Len(turns) : turns'[k] = turns[k]
  BY <1>1, <1>2, TurnAdded DEF SubagentsInv
<1>4. /\ \A u \in DOMAIN policies' : policies'[u] \in SandboxPolicy
      /\ stack' \in Seq(FrameRecord) /\ Len(stack') = 1
      /\ stack'[1].turn = t /\ stack'[1].run = 0
  BY <1>1, <1>2, RequestIsTyped DEF SubagentsInv
<1>5. Typed'
  <2>1. disk'.turns \in Seq(TurnRecord) /\ disk'.runs \in Seq(RunRecord)
    BY <1>1, <1>3, SavedKeepsTypes DEF SubagentsInv, Typed
  <2>2. QED BY <1>1, <1>3, <1>4, <2>1 DEF SubagentsInv, Typed
<1>6. Frames'
  <2>1. \A i \in 1..Len(stack') : i = 1
    BY <1>4
  <2>2. t \in 1..Len(turns') /\ 0 \in 0..Len(runs')
    BY <1>1, <1>2, <1>3
  <2>3. QED BY <1>3, <1>4, <2>1, <2>2 DEF Frames
<1>7. RunsTell'
  <2> SUFFICES ASSUME NEW r \in (1..Len(runs)) \ outside
               PROVE  /\ runs[r].status = "completed" =>
                           child[r] \in 1..Len(turns') /\ turns'[child[r]].status = "completed"
                      /\ runs[r].status # "running"
    BY <1>1 DEF RunsTell
  <2>1. runs[r].status # "running"
    BY <1>1, NoDrives
  <2>2. QED BY <1>2, <1>3, <2>1 DEF SubagentsInv, RunsTell
<1>8. Grown
  BY <1>1, <1>2 DEF Grown
<1>9. QED BY <1>1, <1>4, <1>5, <1>6, <1>7, <1>8, ShallowKeeps

LEMMA ResumeAgenticTurnKeeps ==
  ASSUME SubagentsInv, NEW t \in DOMAIN turns, NEW extra \in ClientTools,
         NEW policy \in {{}} \cup {{p} : p \in Policies}, ResumeAgenticTurn(t, extra, policy)
  PROVE  SubagentsInv'
<1>1. /\ turns[t].status = "waiting" /\ turns' = [turns EXCEPT ![t].status = "running"]
      /\ policies' = IF policy = {} THEN policies ELSE Attach(t, CHOOSE p \in policy : TRUE)
      /\ stack' = <<Frame(t, Registry \cup extra, 0)>>
      /\ UNCHANGED <<agents, runs, crashes, child, outside>>
      /\ Idle /\ Saved
  BY AnsweredIsSaved DEF ResumeAgenticTurn
<1>2. /\ Len(turns) \in Nat /\ Len(runs) \in Nat /\ t \in Nat /\ t \in 1..Len(turns)
      /\ "running" \in TurnStatus
  BY Lengths DEF SubagentsInv, TurnStatus
<1>3. /\ turns' \in Seq(TurnRecord) /\ Len(turns') = Len(turns) /\ turns'[t].status = "running"
      /\ \A k \in 1..Len(turns) : k # t => turns'[k] = turns[k]
  BY <1>1, <1>2, TurnWritten DEF SubagentsInv
<1>4. /\ \A u \in DOMAIN policies' : policies'[u] \in SandboxPolicy
      /\ stack' \in Seq(FrameRecord) /\ Len(stack') = 1
      /\ stack'[1].turn = t /\ stack'[1].run = 0
  BY <1>1, <1>2, RequestIsTyped DEF SubagentsInv
<1>5. Typed'
  <2>1. disk'.turns \in Seq(TurnRecord) /\ disk'.runs \in Seq(RunRecord)
    BY <1>1, <1>3, SavedKeepsTypes DEF SubagentsInv, Typed
  <2>2. QED BY <1>1, <1>3, <1>4, <2>1 DEF SubagentsInv, Typed
<1>6. Frames'
  <2>1. \A i \in 1..Len(stack') : i = 1
    BY <1>4
  <2>2. t \in 1..Len(turns') /\ 0 \in 0..Len(runs')
    BY <1>1, <1>2, <1>3
  <2>3. QED BY <1>3, <1>4, <2>1, <2>2 DEF Frames
<1>7. RunsTell'
  <2> SUFFICES ASSUME NEW r \in (1..Len(runs)) \ outside
               PROVE  /\ runs[r].status = "completed" =>
                           child[r] \in 1..Len(turns') /\ turns'[child[r]].status = "completed"
                      /\ runs[r].status # "running"
    BY <1>1 DEF RunsTell
  <2>1. runs[r].status # "running"
    BY <1>1, NoDrives
  <2>2. ASSUME runs[r].status = "completed"
        PROVE  child[r] \in 1..Len(turns') /\ turns'[child[r]].status = "completed"
    <3>1. child[r] \in 1..Len(turns) /\ turns[child[r]].status = "completed"
      BY <2>2 DEF SubagentsInv, RunsTell
    <3>2. child[r] # t
      BY <1>1, <3>1
    <3>3. QED BY <1>3, <3>1, <3>2
  <2>3. QED BY <2>1, <2>2
<1>8. Grown
  BY <1>1, <1>2 DEF Grown
<1>9. QED BY <1>1, <1>4, <1>5, <1>6, <1>7, <1>8, ShallowKeeps

-----------------------------------------------------------------------------
(* A driven turn.                                                          *)

\* The innermost drive.
LEMMA TopOfStack ==
  ASSUME SubagentsInv, stack # <<>>
  PROVE  /\ Len(stack) \in 1..Len(stack) /\ Top = stack[Len(stack)]
         /\ Top.turn \in 1..Len(turns) /\ turns[Top.turn].status = "running"
         /\ Top.tools \in SUBSET Tools
         /\ Top.run \in 0..Len(runs)
         /\ Top.run # 0 => child[Top.run] = Top.turn
<1>1. stack \in Seq(FrameRecord)
  BY DEF SubagentsInv, Typed
<1>2. Last(stack) = stack[Len(stack)] /\ Len(stack) \in 1..Len(stack)
  BY <1>1, Shortened
<1>3. stack[Len(stack)] \in FrameRecord
  BY <1>1, <1>2
<1>4. /\ stack[Len(stack)].turn \in 1..Len(turns)
      /\ turns[stack[Len(stack)].turn].status = "running"
      /\ stack[Len(stack)].run \in 0..Len(runs)
      /\ stack[Len(stack)].run # 0 => child[stack[Len(stack)].run] = stack[Len(stack)].turn
  BY <1>2 DEF SubagentsInv, Frames
<1>5. QED BY <1>2, <1>3, <1>4 DEF Top, FrameRecord

\* What a call of an agent writes before its child is driven.
LEMMA CallWrites ==
  ASSUME SubagentsInv, NEW call \in AgentCalls, Call(call)
  PROVE  /\ runs' \in Seq(RunRecord) /\ Len(runs') = Len(runs) + 1
         /\ runs'[Len(runs) + 1].status = "running"
         /\ \A r \in 1..Len(runs) : runs'[r] = runs[r]
         /\ stack # <<>> /\ agents[call.agent] # <<>>
         /\ SelectedSkills(call) \in SUBSET SkillFiles
         /\ UNCHANGED <<agents, disk, crashes>>
<1>1. /\ runs' = Dispatched(call.agent) /\ stack # <<>> /\ agents[call.agent] # <<>>
      /\ UNCHANGED <<agents, disk, crashes>>
  BY DEF Call, CanCall, Idle
<1>2. call.agent \in Names
  BY AgentsAreTyped
<1>3. SelectedSkills(call) \in SUBSET SkillFiles
  BY DEF SelectedSkills, ActiveSkills, SkillCandidates
<1>4. QED BY <1>1, <1>2, <1>3, RunDispatched DEF SubagentsInv

\* The policy of the child is within that of the turn that called it, and those
\* of the turns that are driven stay.
LEMMA ChildIsWithin ==
  ASSUME SubagentsInv, NEW call \in AgentCalls, stack # <<>>, agents[call.agent] # <<>>,
         NEW t, t \notin 1..Len(turns),
         policies' = Attach(t, SubagentSandboxPolicy(SandboxPolicyForTurn(Top.turn),
                                 ResolveAgentToolPolicy(ActiveAgent(call.agent), call)))
  PROVE  /\ \A u \in DOMAIN policies' : policies'[u] \in SandboxPolicy
         /\ SandboxPolicyForTurn(t)' \in SandboxPolicy
         /\ NoMore(SandboxPolicyForTurn(t)', SandboxPolicyForTurn(Top.turn))
         /\ \A u \in 1..Len(turns) : SandboxPolicyForTurn(u)' = SandboxPolicyForTurn(u)
<1> DEFINE parent == SandboxPolicyForTurn(Top.turn)
           asked == ResolveAgentToolPolicy(ActiveAgent(call.agent), call)
           given == SubagentSandboxPolicy(parent, asked)
<1>1. parent \in SandboxPolicy
  BY PolicyOfTurn DEF SubagentsInv
<1>2. /\ asked.mode \in PermissionMode \cup {"none"}
      /\ asked.network \in NetworkPolicy \cup {"none"}
  BY CallAsksTyped DEF SubagentsInv
<1>3. policies' = Attach(t, given)
  OBVIOUS
<1> HIDE DEF asked, parent
<1>4. given \in SandboxPolicy /\ NoMore(WithCwdDefaults(given), parent)
  BY <1>1, <1>2, ChildHasNoMore
<1> HIDE DEF given
<1>5. /\ \A u \in DOMAIN policies' : policies'[u] \in SandboxPolicy
      /\ SandboxPolicyForTurn(t)' = WithCwdDefaults(given)
      /\ \A u : u # t => SandboxPolicyForTurn(u)' = SandboxPolicyForTurn(u)
  BY <1>3, <1>4, PolicyAttached DEF SubagentsInv
<1>6. WithCwdDefaults(given) \in SandboxPolicy
  BY <1>4, CwdDefaultsKeepTypes
<1>7. QED BY <1>4, <1>5, <1>6 DEF parent

\* A frame of a fresh turn on top of the stack.
LEMMA NestedPushed ==
  ASSUME SubagentsInv, stack # <<>>, NEW frame \in FrameRecord,
         stack' = Append(stack, frame), frame.tools \subseteq Top.tools,
         SandboxPolicyForTurn(frame.turn)' \in SandboxPolicy,
         NoMore(SandboxPolicyForTurn(frame.turn)', SandboxPolicyForTurn(Top.turn)),
         \A u \in 1..Len(turns) : SandboxPolicyForTurn(u)' = SandboxPolicyForTurn(u)
  PROVE  NestedTurnsStayWithin'
<1> DEFINE n == Len(stack)
<1>1. /\ stack' \in Seq(FrameRecord) /\ Len(stack') = n + 1 /\ stack'[n + 1] = frame
      /\ \A k \in 1..n : stack'[k] = stack[k]
  BY Appended DEF SubagentsInv, Typed
<1>2. n \in 1..n /\ n \in Nat /\ Top = stack[n] /\ DOMAIN stack = 1..n
  BY TopOfStack, Lengths DEF SubagentsInv
<1>3. \A i \in 1..n : stack[i].turn \in 1..Len(turns)
  BY DEF SubagentsInv, Frames
<1>4. ASSUME NEW i \in 1..(n + 1), NEW j \in 1..(n + 1), i < j
      PROVE  /\ stack'[j].tools \subseteq stack'[i].tools
             /\ NoMore(SandboxPolicyForTurn(stack[j].turn), SandboxPolicyForTurn(stack[i].turn))'
  <2>1. i \in 1..n /\ stack'[i] = stack[i]
    BY <1>1, <1>2, <1>4
  <2>2. PICK low : low = stack[i].turn
    OBVIOUS
  <2>3. low \in 1..Len(turns) /\ SandboxPolicyForTurn(low)' = SandboxPolicyForTurn(low)
    BY <1>3, <2>1, <2>2
  <2>4. CASE j \in 1..n
    <3>1. stack'[j] = stack[j] /\ j \in DOMAIN stack /\ i \in DOMAIN stack
      BY <1>1, <1>2, <2>1, <2>4
    <3>2. PICK high : high = stack[j].turn
      OBVIOUS
    <3>3. high \in 1..Len(turns) /\ SandboxPolicyForTurn(high)' = SandboxPolicyForTurn(high)
      BY <1>3, <2>4, <3>2
    <3>4. /\ stack[j].tools \subseteq stack[i].tools
          /\ NoMore(SandboxPolicyForTurn(high), SandboxPolicyForTurn(low))
      BY <1>4, <2>2, <3>1, <3>2 DEF SubagentsInv, NestedTurnsStayWithin
    <3>5. NoMore(SandboxPolicyForTurn(high)', SandboxPolicyForTurn(low)')
      BY <2>3, <3>3, <3>4
    <3>6. stack'[j].turn = high /\ stack'[i].turn = low
      BY <2>1, <2>2, <3>1, <3>2
    <3>7. QED BY <2>1, <3>1, <3>4, <3>5, <3>6
  <2>5. CASE j = n + 1
    <3>1. /\ stack[n].tools \subseteq stack[i].tools
          /\ i # n => NoMore(SandboxPolicyForTurn(Top.turn), SandboxPolicyForTurn(low))
      <4>1. CASE i = n
        BY <4>1
      <4>2. CASE i # n
        <5>1. i \in DOMAIN stack /\ n \in DOMAIN stack
          BY <1>2, <2>1
        <5>2. i < n
          <6>1. n \in Nat /\ i \in 1..n /\ i # n
            BY <1>2, <2>1, <4>2
          <6>2. QED BY ONLY <6>1
        <5>3. QED BY <1>2, <2>2, <5>1, <5>2 DEF SubagentsInv, NestedTurnsStayWithin
      <4>3. QED BY <4>1, <4>2
    <3>2. NoMore(SandboxPolicyForTurn(frame.turn)', SandboxPolicyForTurn(low))
      <4>1. CASE i = n
        BY <1>2, <2>2, <4>1
      <4>2. CASE i # n
        <5>1. /\ SandboxPolicyForTurn(Top.turn) \in SandboxPolicy
              /\ SandboxPolicyForTurn(low) \in SandboxPolicy
          BY PolicyOfTurn DEF SubagentsInv
        <5>2. NoMore(SandboxPolicyForTurn(Top.turn), SandboxPolicyForTurn(low))
          BY <3>1, <4>2
        <5>3. QED BY <5>1, <5>2, NoMoreIsTransitive
      <4>3. QED BY <4>1, <4>2
    <3>3. NoMore(SandboxPolicyForTurn(frame.turn)', SandboxPolicyForTurn(low)')
      BY <2>3, <3>2
    <3>4. stack'[j] = frame /\ stack'[i].turn = low
      BY <1>1, <2>1, <2>2, <2>5
    <3>5. QED BY <1>2, <2>1, <3>1, <3>3, <3>4
  <2>6. QED BY <1>2, <2>4, <2>5
<1>5. DOMAIN stack' = 1..(n + 1)
  BY <1>1
<1>6. QED BY <1>4, <1>5 DEF NestedTurnsStayWithin

\* The child is driven: a fresh turn on top of the stack, with the run it is
\* called for.
LEMMA ExecuteAgentToolKeeps ==
  ASSUME SubagentsInv, NEW call \in AgentCalls, ExecuteAgentTool(call)
  PROVE  SubagentsInv'
<1> DEFINE t == Len(turns) + 1
           new == Len(runs) + 1
           n == Len(stack)
           asked == ResolveAgentToolPolicy(ActiveAgent(call.agent), call)
           frame == Frame(t, SubagentToolDefinitions(Top.tools, asked), new)
<1>1. /\ Call(call)
      /\ turns' = Started(Top.turn, SelectedSkills(call))
      /\ policies' = Attach(t, SubagentSandboxPolicy(SandboxPolicyForTurn(Top.turn), asked))
      /\ child' = Append(child, t)
      /\ stack' = Append(stack, frame)
      /\ outside' = outside
  BY DEF ExecuteAgentTool
<1>2. /\ runs' \in Seq(RunRecord) /\ Len(runs') = new
      /\ runs'[new].status = "running"
      /\ \A r \in 1..Len(runs) : runs'[r] = runs[r]
      /\ stack # <<>> /\ agents[call.agent] # <<>>
      /\ SelectedSkills(call) \in SUBSET SkillFiles
      /\ UNCHANGED <<agents, disk, crashes>>
  BY <1>1, CallWrites
<1>3. Len(turns) \in Nat /\ Len(runs) \in Nat /\ n \in Nat /\ t \in Nat /\ new \in Nat
  BY Lengths DEF SubagentsInv
<1>4. Top.turn \in Nat /\ Top.tools \in SUBSET Tools
  BY <1>2, TopOfStack
<1>5. /\ turns' \in Seq(TurnRecord) /\ Len(turns') = t /\ turns'[t].status = "running"
      /\ \A k \in 1..Len(turns) : turns'[k] = turns[k]
  BY <1>1, <1>2, <1>4, TurnAdded DEF SubagentsInv
<1>6. /\ child' \in Seq(Nat) /\ Len(child') = new /\ child'[new] = t
      /\ \A r \in 1..Len(runs) : child'[r] = child[r]
  BY <1>1, <1>3, ChildAdded DEF SubagentsInv
<1>7. /\ \A u \in DOMAIN policies' : policies'[u] \in SandboxPolicy
      /\ \A u : u = t =>
           /\ SandboxPolicyForTurn(u)' \in SandboxPolicy
           /\ NoMore(SandboxPolicyForTurn(u)', SandboxPolicyForTurn(Top.turn))
      /\ \A u \in 1..Len(turns) : SandboxPolicyForTurn(u)' = SandboxPolicyForTurn(u)
  <2> SUFFICES ASSUME NEW fresh, fresh = t
               PROVE  /\ \A u \in DOMAIN policies' : policies'[u] \in SandboxPolicy
                      /\ SandboxPolicyForTurn(fresh)' \in SandboxPolicy
                      /\ NoMore(SandboxPolicyForTurn(fresh)', SandboxPolicyForTurn(Top.turn))
                      /\ \A u \in 1..Len(turns) : SandboxPolicyForTurn(u)' = SandboxPolicyForTurn(u)
    OBVIOUS
  <2>1. fresh \notin 1..Len(turns)
    BY <1>3
  <2>2. policies' = Attach(fresh, SubagentSandboxPolicy(SandboxPolicyForTurn(Top.turn), asked))
    BY <1>1
  <2>3. QED BY <1>2, <2>1, <2>2, ChildIsWithin
<1>8. /\ frame \in FrameRecord /\ frame.turn = t /\ frame.run = new
      /\ frame.tools \subseteq Top.tools
  BY <1>3, <1>4 DEF Frame, FrameRecord, SubagentToolDefinitions
<1> HIDE DEF frame
<1>9. /\ stack' \in Seq(FrameRecord) /\ Len(stack') = n + 1 /\ stack'[n + 1] = frame
      /\ \A k \in 1..n : stack'[k] = stack[k]
  BY <1>1, <1>8, Appended DEF SubagentsInv, Typed
<1>10. Typed'
  BY <1>2, <1>5, <1>6, <1>7, <1>9 DEF SubagentsInv, Typed
<1>11. Frames'
  <2>1. ASSUME NEW i \in 1..Len(stack')
        PROVE  /\ stack'[i].turn \in 1..Len(turns')
               /\ turns'[stack'[i].turn].status = "running"
               /\ stack'[i].run \in 0..Len(runs')
               /\ stack'[i].run # 0 => child'[stack'[i].run] = stack'[i].turn
    <3>1. CASE i = n + 1
      BY <1>2, <1>3, <1>5, <1>6, <1>8, <1>9, <3>1
    <3>2. CASE i # n + 1
      <4>1. i \in 1..n /\ stack'[i] = stack[i]
        BY <1>3, <1>9, <3>2
      <4>2. /\ stack[i].turn \in 1..Len(turns)
            /\ turns[stack[i].turn].status = "running"
            /\ stack[i].run \in 0..Len(runs)
            /\ stack[i].run # 0 => child[stack[i].run] = stack[i].turn
        BY <4>1 DEF SubagentsInv, Frames
      <4>3. /\ stack'[i].turn \in 1..Len(turns')
            /\ turns'[stack'[i].turn].status = "running"
        BY <1>3, <1>5, <4>1, <4>2
      <4>4. stack'[i].run \in 0..Len(runs')
        BY <1>2, <1>3, <4>1, <4>2
      <4>5. stack'[i].run # 0 => child'[stack'[i].run] = stack'[i].turn
        BY <1>3, <1>6, <4>1, <4>2
      <4>6. QED BY <4>3, <4>4, <4>5
    <3>3. QED BY <3>1, <3>2
  <2>2. ASSUME NEW i \in 1..Len(stack'), NEW j \in 1..Len(stack'), i # j
        PROVE  stack'[i].turn # stack'[j].turn
    <3>1. \A k \in 1..n : stack'[k] = stack[k] /\ stack[k].turn \in 1..Len(turns)
      BY <1>9 DEF SubagentsInv, Frames
    <3>2. \A k \in 1..n : stack'[k].turn # t
      BY <1>3, <3>1
    <3>3. stack'[n + 1].turn = t
      BY <1>8, <1>9
    <3>4. CASE i \in 1..n /\ j \in 1..n
      BY <2>2, <3>1, <3>4 DEF SubagentsInv, Frames
    <3>5. CASE i = n + 1 \/ j = n + 1
      BY <1>3, <1>9, <2>2, <3>2, <3>3, <3>5
    <3>6. QED BY <1>3, <1>9, <3>4, <3>5
  <2>3. QED BY <2>1, <2>2 DEF Frames
<1>12. RunsTell'
  <2> SUFFICES ASSUME NEW r \in (1..Len(runs')) \ outside'
               PROVE  /\ runs'[r].status = "completed" =>
                           child'[r] \in 1..Len(turns') /\ turns'[child'[r]].status = "completed"
                      /\ runs'[r].status = "running" =>
                           \E i \in 1..Len(stack') : stack'[i].run = r
    BY DEF RunsTell
  <2>1. CASE r = new
    <3>1. runs'[r].status = "running"
      BY <1>2, <2>1
    <3>2. n + 1 \in 1..Len(stack') /\ stack'[n + 1].run = r
      BY <1>3, <1>8, <1>9, <2>1
    <3>3. QED BY <3>1, <3>2
  <2>2. CASE r # new
    <3>1. r \in (1..Len(runs)) \ outside /\ runs'[r] = runs[r] /\ child'[r] = child[r]
      BY <1>1, <1>2, <1>3, <1>6, <2>2
    <3>2. runs[r].status = "completed" =>
            child[r] \in 1..Len(turns') /\ turns'[child[r]].status = "completed"
      BY <1>3, <1>5, <3>1 DEF SubagentsInv, RunsTell
    <3>3. ASSUME runs[r].status = "running" PROVE \E i \in 1..Len(stack') : stack'[i].run = r
      <4>1. PICK i \in 1..n : stack[i].run = r
        BY <3>1, <3>3 DEF SubagentsInv, RunsTell
      <4>2. i \in 1..Len(stack') /\ stack'[i].run = r
        BY <1>3, <1>9, <4>1
      <4>3. QED BY <4>2
    <3>4. QED BY <3>1, <3>2, <3>3
  <2>3. QED BY <2>1, <2>2
<1>13. Grown
  BY <1>1, <1>2, <1>3, <1>6 DEF Grown
<1>14. DiskTells'
  <2>1. Saved
    BY <1>2 DEF Saved
  <2>2. QED BY <1>12, <1>13, <2>1, DiskKept
<1>15. NestedTurnsStayWithin'
  BY <1>1, <1>2, <1>7, <1>8, NestedPushed
<1>16. QED BY <1>10, <1>11, <1>12, <1>14, <1>15 DEF SubagentsInv

\* Drives that stay, with the policies they had, stay within each other.
LEMMA NestedKept ==
  ASSUME SubagentsInv, DOMAIN stack' \subseteq DOMAIN stack,
         \A i \in DOMAIN stack' : stack'[i] = stack[i],
         \A u \in 1..Len(turns) : SandboxPolicyForTurn(u)' = SandboxPolicyForTurn(u)
  PROVE  NestedTurnsStayWithin'
<1>1. \A i \in DOMAIN stack : stack[i].turn \in 1..Len(turns)
  BY Lengths DEF SubagentsInv, Frames
<1>2. ASSUME NEW i \in DOMAIN stack', NEW j \in DOMAIN stack', i < j
      PROVE  /\ stack'[j].tools \subseteq stack'[i].tools
             /\ NoMore(SandboxPolicyForTurn(stack[j].turn), SandboxPolicyForTurn(stack[i].turn))'
  <2>1. i \in DOMAIN stack /\ j \in DOMAIN stack /\ stack'[i] = stack[i] /\ stack'[j] = stack[j]
    OBVIOUS
  <2>2. PICK low, high : low = stack[i].turn /\ high = stack[j].turn
    OBVIOUS
  <2>3. /\ SandboxPolicyForTurn(low)' = SandboxPolicyForTurn(low)
        /\ SandboxPolicyForTurn(high)' = SandboxPolicyForTurn(high)
    BY <1>1, <2>1, <2>2
  <2>4. /\ stack[j].tools \subseteq stack[i].tools
        /\ NoMore(SandboxPolicyForTurn(high), SandboxPolicyForTurn(low))
    BY <1>2, <2>1, <2>2 DEF SubagentsInv, NestedTurnsStayWithin
  <2>5. NoMore(SandboxPolicyForTurn(high)', SandboxPolicyForTurn(low)')
    BY <2>3, <2>4
  <2>6. stack'[j].turn = high /\ stack'[i].turn = low
    BY <2>1, <2>2
  <2>7. QED BY <2>1, <2>4, <2>5, <2>6
<1>3. QED BY <1>2 DEF NestedTurnsStayWithin

\* The call fails after its run was dispatched, and perhaps after its turn was
\* started: the run is left to others, and the stack is as it was.
LEMMA AgentCallRefusedKeeps ==
  ASSUME SubagentsInv, NEW call \in AgentCalls, AgentCallRefused(call)
  PROVE  SubagentsInv'
<1> DEFINE t == Len(turns) + 1
           new == Len(runs) + 1
           asked == ResolveAgentToolPolicy(ActiveAgent(call.agent), call)
<1>1. /\ Call(call) /\ outside' = outside \cup {new} /\ stack' = stack
  BY DEF AgentCallRefused
<1>2. /\ runs' \in Seq(RunRecord) /\ Len(runs') = new
      /\ \A r \in 1..Len(runs) : runs'[r] = runs[r]
      /\ stack # <<>> /\ agents[call.agent] # <<>>
      /\ SelectedSkills(call) \in SUBSET SkillFiles
      /\ UNCHANGED <<agents, disk, crashes>>
  BY <1>1, CallWrites
<1>3. Len(turns) \in Nat /\ Len(runs) \in Nat /\ t \in Nat /\ new \in Nat
  BY Lengths DEF SubagentsInv
<1>4. /\ turns' \in Seq(TurnRecord) /\ Len(turns) <= Len(turns')
      /\ \A k \in 1..Len(turns) : turns'[k] = turns[k]
      /\ child' \in Seq(Nat) /\ Len(child') = new
      /\ \A r \in 1..Len(runs) : child'[r] = child[r]
      /\ \A u \in DOMAIN policies' : policies'[u] \in SandboxPolicy
      /\ \A u \in 1..Len(turns) : SandboxPolicyForTurn(u)' = SandboxPolicyForTurn(u)
  <2>1. CASE child' = Append(child, 0) /\ turns' = turns /\ policies' = policies
    <3>1. /\ child' \in Seq(Nat) /\ Len(child') = new
          /\ \A r \in 1..Len(runs) : child'[r] = child[r]
      BY <2>1, ChildAdded DEF SubagentsInv
    <3>2. \A u \in 1..Len(turns) : SandboxPolicyForTurn(u)' = SandboxPolicyForTurn(u)
      BY <2>1 DEF SandboxPolicyForTurn
    <3>3. QED BY <1>3, <2>1, <3>1, <3>2 DEF SubagentsInv, Typed
  <2>2. CASE /\ turns' = Started(Top.turn, SelectedSkills(call))
             /\ policies' = Attach(t, SubagentSandboxPolicy(SandboxPolicyForTurn(Top.turn), asked))
             /\ child' = Append(child, t)
    <3>1. Top.turn \in Nat
      BY <1>2, TopOfStack
    <3>2. /\ turns' \in Seq(TurnRecord) /\ Len(turns') = t
          /\ \A k \in 1..Len(turns) : turns'[k] = turns[k]
      BY <1>2, <2>2, <3>1, TurnAdded DEF SubagentsInv
    <3>3. /\ child' \in Seq(Nat) /\ Len(child') = new
          /\ \A r \in 1..Len(runs) : child'[r] = child[r]
      BY <1>3, <2>2, ChildAdded DEF SubagentsInv
    <3>4. /\ \A u \in DOMAIN policies' : policies'[u] \in SandboxPolicy
          /\ \A u \in 1..Len(turns) : SandboxPolicyForTurn(u)' = SandboxPolicyForTurn(u)
      <4>1. t \notin 1..Len(turns)
        BY <1>3
      <4>2. QED BY <1>2, <2>2, <4>1, ChildIsWithin
    <3>5. QED BY <1>3, <3>2, <3>3, <3>4
  <2>3. QED BY <2>1, <2>2 DEF AgentCallRefused
<1>5. Typed'
  BY <1>1, <1>2, <1>4 DEF SubagentsInv, Typed
<1>6. Frames'
  <2>1. ASSUME NEW i \in 1..Len(stack)
        PROVE  /\ stack[i].turn \in 1..Len(turns')
               /\ turns'[stack[i].turn].status = "running"
               /\ stack[i].run \in 0..Len(runs')
               /\ stack[i].run # 0 => child'[stack[i].run] = stack[i].turn
    <3>1. /\ stack[i].turn \in 1..Len(turns)
          /\ turns[stack[i].turn].status = "running"
          /\ stack[i].run \in 0..Len(runs)
          /\ stack[i].run # 0 => child[stack[i].run] = stack[i].turn
      BY DEF SubagentsInv, Frames
    <3>2. stack[i].turn \in 1..Len(turns') /\ turns'[stack[i].turn].status = "running"
      <4>1. Len(turns') \in Nat
        BY <1>4
      <4>2. QED BY <1>3, <1>4, <3>1, <4>1
    <3>3. stack[i].run \in 0..Len(runs')
      BY <1>2, <1>3, <3>1
    <3>4. stack[i].run # 0 => child'[stack[i].run] = stack[i].turn
      BY <1>3, <1>4, <3>1
    <3>5. QED BY <3>2, <3>3, <3>4
  <2>2. \A i, j \in 1..Len(stack) : i # j => stack[i].turn # stack[j].turn
    BY DEF SubagentsInv, Frames
  <2>3. QED BY <1>1, <2>1, <2>2 DEF Frames
<1>7. RunsTell'
  <2> SUFFICES ASSUME NEW r \in (1..Len(runs')) \ outside'
               PROVE  /\ runs'[r].status = "completed" =>
                           child'[r] \in 1..Len(turns') /\ turns'[child'[r]].status = "completed"
                      /\ runs'[r].status = "running" =>
                           \E i \in 1..Len(stack') : stack'[i].run = r
    BY DEF RunsTell
  <2>1. r \in (1..Len(runs)) \ outside /\ runs'[r] = runs[r] /\ child'[r] = child[r]
    BY <1>1, <1>2, <1>3, <1>4
  <2>2. Len(turns') \in Nat
    BY <1>4
  <2>3. ASSUME runs[r].status = "completed"
        PROVE  child[r] \in 1..Len(turns') /\ turns'[child[r]].status = "completed"
    <3>1. child[r] \in 1..Len(turns) /\ turns[child[r]].status = "completed"
      BY <2>1, <2>3 DEF SubagentsInv, RunsTell
    <3>2. QED BY <1>3, <1>4, <2>2, <3>1
  <2>4. runs[r].status = "running" => \E i \in 1..Len(stack) : stack[i].run = r
    BY <2>1 DEF SubagentsInv, RunsTell
  <2>5. QED BY <1>1, <2>1, <2>3, <2>4
<1>8. DiskTells'
  <2>1. Grown
    <3>1. Len(runs') \in Nat /\ Len(runs) <= Len(runs')
      BY <1>2, <1>3
    <3>2. QED BY <1>1, <1>4, <3>1 DEF Grown
  <2>2. Saved
    BY <1>2 DEF Saved
  <2>3. QED BY <1>7, <2>1, <2>2, DiskKept
<1>9. NestedTurnsStayWithin'
  BY <1>1, <1>4, NestedKept
<1>10. QED BY <1>5, <1>6, <1>7, <1>8, <1>9 DEF SubagentsInv

\* The innermost drive ends: its run is told, and those below go on.
LEMMA LeaveKeeps ==
  ASSUME SubagentsInv, NEW status \in {"waiting", "completed", "aborted"}, Leave(status)
  PROVE  SubagentsInv'
<1> DEFINE n == Len(stack)
           t == Top.turn
           run == Top.run
<1>1. /\ stack # <<>> /\ stack' = Front(stack)
      /\ turns' = [turns EXCEPT ![t].status = status]
      /\ runs' = IF run = 0 THEN runs ELSE [runs EXCEPT ![run].status = RunStatusFor(status)]
      /\ UNCHANGED <<agents, policies, disk, crashes, child, outside>>
  BY DEF Leave, Idle
<1>2. /\ n \in 1..n /\ n \in Nat /\ Top = stack[n] /\ Len(runs) \in Nat /\ DOMAIN stack = 1..n
      /\ t \in 1..Len(turns) /\ turns[t].status = "running"
      /\ run \in 0..Len(runs)
      /\ run # 0 => child[run] = t
  BY <1>1, TopOfStack, Lengths DEF SubagentsInv
<1>3. /\ stack' \in Seq(FrameRecord) /\ Len(stack') = n - 1
      /\ \A k \in 1..(n - 1) : stack'[k] = stack[k]
  BY <1>1, Shortened DEF SubagentsInv, Typed
<1>4. /\ turns' \in Seq(TurnRecord) /\ Len(turns') = Len(turns) /\ turns'[t].status = status
      /\ \A k \in 1..Len(turns) : k # t => turns'[k] = turns[k]
  <2>1. status \in TurnStatus
    BY DEF TurnStatus
  <2> HIDE DEF t
  <2>2. QED BY <1>1, <1>2, <2>1, TurnWritten DEF SubagentsInv
<1>5. /\ runs' \in Seq(RunRecord) /\ Len(runs') = Len(runs)
      /\ run # 0 => runs'[run].status = RunStatusFor(status)
      /\ \A k \in 1..Len(runs) : k # run => runs'[k] = runs[k]
  <2>1. RunStatusFor(status) \in RunStatus
    BY DEF RunStatusFor, RunStatus
  <2> HIDE DEF run
  <2>2. CASE run = 0
    BY <1>1, <2>2 DEF SubagentsInv, Typed
  <2>3. CASE run # 0
    <3>1. run \in 1..Len(runs)
      <4>1. run \in 0..Len(runs) /\ Len(runs) \in Nat
        BY <1>2
      <4>2. QED BY ONLY <2>3, <4>1
    <3>2. runs' = [runs EXCEPT ![run].status = RunStatusFor(status)]
      BY <1>1, <2>3
    <3>3. QED BY <2>1, <3>1, <3>2, RunWritten DEF SubagentsInv
  <2>4. QED BY <2>2, <2>3
<1> HIDE DEF t, run
<1>6. Typed'
  BY <1>1, <1>3, <1>4, <1>5 DEF SubagentsInv, Typed
<1>7. Frames'
  <2>1. \A i \in 1..Len(stack') : i \in 1..n /\ i # n /\ stack'[i] = stack[i]
    <3>1. n \in Nat /\ Len(stack') = n - 1
      BY <1>2, <1>3
    <3>2. \A i \in 1..Len(stack') : i \in 1..n /\ i # n /\ i \in 1..(n - 1)
      BY ONLY <3>1
    <3>3. QED BY <1>3, <3>2
  <2>2. ASSUME NEW i \in 1..Len(stack')
        PROVE  /\ stack'[i].turn \in 1..Len(turns')
               /\ turns'[stack'[i].turn].status = "running"
               /\ stack'[i].run \in 0..Len(runs')
               /\ stack'[i].run # 0 => child'[stack'[i].run] = stack'[i].turn
    <3>1. /\ stack[i].turn \in 1..Len(turns)
          /\ turns[stack[i].turn].status = "running"
          /\ stack[i].run \in 0..Len(runs)
          /\ stack[i].run # 0 => child[stack[i].run] = stack[i].turn
      BY <2>1 DEF SubagentsInv, Frames
    <3>2. stack[i].turn # stack[n].turn
      BY <1>2, <2>1 DEF SubagentsInv, Frames
    <3>3. turns'[stack[i].turn] = turns[stack[i].turn]
      BY <1>2, <1>4, <3>1, <3>2 DEF t
    <3>4. QED BY <1>1, <1>4, <1>5, <2>1, <3>1, <3>3
  <2>3. \A i, j \in 1..Len(stack') : i # j => stack'[i].turn # stack'[j].turn
    BY <2>1 DEF SubagentsInv, Frames
  <2>4. QED BY <2>2, <2>3 DEF Frames
<1>8. RunsTell'
  <2> SUFFICES ASSUME NEW r \in (1..Len(runs)) \ outside
               PROVE  /\ runs'[r].status = "completed" =>
                           child[r] \in 1..Len(turns) /\ turns'[child[r]].status = "completed"
                      /\ runs'[r].status = "running" =>
                           \E i \in 1..Len(stack') : stack'[i].run = r
    BY <1>1, <1>4, <1>5 DEF RunsTell
  <2>1. CASE r = run
    <3>1. run # 0
      BY <2>1
    <3>2. runs'[r].status = RunStatusFor(status) /\ child[r] = t
      BY <1>2, <1>5, <2>1, <3>1
    <3>3. RunStatusFor(status) # "running" /\ (RunStatusFor(status) = "completed" => status = "completed")
      BY DEF RunStatusFor
    <3>4. QED BY <1>2, <1>4, <3>2, <3>3
  <2>2. CASE r # run
    <3>1. runs'[r] = runs[r]
      BY <1>5, <2>2
    <3>2. ASSUME runs[r].status = "completed"
          PROVE  child[r] \in 1..Len(turns) /\ turns'[child[r]].status = "completed"
      <4>1. child[r] \in 1..Len(turns) /\ turns[child[r]].status = "completed"
        BY <3>2 DEF SubagentsInv, RunsTell
      <4>2. child[r] # t
        BY <1>2, <4>1
      <4>3. QED BY <1>4, <4>1, <4>2
    <3>3. ASSUME runs[r].status = "running" PROVE \E i \in 1..Len(stack') : stack'[i].run = r
      <4>1. PICK i \in 1..n : stack[i].run = r
        BY <3>3 DEF SubagentsInv, RunsTell
      <4>2. i # n
        BY <1>2, <2>2, <4>1 DEF run
      <4>3. i \in 1..(n - 1)
        <5>1. n \in Nat
          BY <1>2
        <5>2. QED BY ONLY <4>2, <5>1, i \in 1..n
      <4>4. i \in 1..Len(stack') /\ stack'[i].run = r
        BY <1>3, <4>1, <4>3
      <4>5. QED BY <4>4
    <3>4. QED BY <3>1, <3>2, <3>3
  <2>3. QED BY <2>1, <2>2
<1>9. DiskTells'
  <2>1. Grown
    BY <1>1, <1>2, <1>5 DEF Grown
  <2>2. Saved
    BY <1>1 DEF Saved
  <2>3. QED BY <1>8, <2>1, <2>2, DiskKept
<1>10. NestedTurnsStayWithin'
  <2>1. DOMAIN stack' \subseteq DOMAIN stack /\ \A i \in DOMAIN stack' : stack'[i] = stack[i]
    BY <1>2, <1>3
  <2>2. \A u \in 1..Len(turns) : SandboxPolicyForTurn(u)' = SandboxPolicyForTurn(u)
    BY <1>1 DEF SandboxPolicyForTurn
  <2>3. QED BY <2>1, <2>2, NestedKept
<1>11. QED BY <1>6, <1>7, <1>8, <1>9, <1>10 DEF SubagentsInv

-----------------------------------------------------------------------------
(* Files, and the death of the process.                                    *)

\* Nothing but the files changes, or nothing at all.
LEMMA SavingKeeps ==
  ASSUME SubagentsInv, Saved,
         UNCHANGED <<agents, turns, policies, runs, stack, child, outside>>
  PROVE  SubagentsInv'
<1>1. Typed'
  <2>1. disk'.turns \in Seq(TurnRecord) /\ disk'.runs \in Seq(RunRecord)
    BY SavedKeepsTypes DEF SubagentsInv, Typed
  <2>2. QED BY <2>1 DEF SubagentsInv, Typed
<1>2. Frames'
  BY DEF SubagentsInv, Frames
<1>3. RunsTell'
  BY DEF SubagentsInv, RunsTell
<1>4. DiskTells'
  <2>1. Grown
    BY Lengths DEF SubagentsInv, Grown
  <2>2. QED BY <1>3, <2>1, DiskKept
<1>5. NestedTurnsStayWithin'
  <2>1. \A u \in 1..Len(turns) : SandboxPolicyForTurn(u)' = SandboxPolicyForTurn(u)
    BY DEF SandboxPolicyForTurn
  <2>2. QED BY <2>1, NestedKept
<1>6. QED BY <1>1, <1>2, <1>3, <1>4, <1>5 DEF SubagentsInv

\* What comes back is what was on file; runs that were running are nobody's.
LEMMA RestartKeeps ==
  ASSUME SubagentsInv, Restart
  PROVE  SubagentsInv'
<1> DEFINE back == disk.turns
           Ended(t) == IF back[t].status = "running"
                       THEN [back[t] EXCEPT !.status = "aborted"] ELSE back[t]
<1>1. /\ agents' = BuiltIn /\ policies' = <<>> /\ stack' = <<>>
      /\ turns' = [t \in DOMAIN back |-> Ended(t)]
      /\ runs' = disk.runs
      /\ child' = [r \in DOMAIN disk.runs |-> IF child[r] <= Len(back) THEN child[r] ELSE 0]
      /\ outside' = {r \in DOMAIN disk.runs : r \in outside \/ disk.runs[r].status = "running"}
      /\ disk' = [turns |-> turns', runs |-> runs']
  BY DEF Restart
<1>2. /\ Len(back) \in Nat /\ Len(disk.runs) \in Nat /\ Len(runs) \in Nat
      /\ back \in Seq(TurnRecord) /\ disk.runs \in Seq(RunRecord)
      /\ DOMAIN back = 1..Len(back) /\ DOMAIN disk.runs = 1..Len(disk.runs)
      /\ child \in Seq(Nat) /\ Len(child) = Len(runs) /\ Len(disk.runs) <= Len(runs)
  BY DEF SubagentsInv, Typed, DiskTells
<1>3. ASSUME NEW t \in DOMAIN back
      PROVE  Ended(t) \in TurnRecord /\ (back[t].status = "completed" => Ended(t) = back[t])
  <2>1. back[t] \in TurnRecord
    BY <1>2
  <2>2. QED BY <2>1 DEF TurnRecord, TurnStatus
<1>4. /\ turns' \in Seq(TurnRecord) /\ Len(turns') = Len(back)
      /\ \A t \in 1..Len(back) : turns'[t] = Ended(t)
  <2> HIDE DEF Ended, back
  <2>1. turns' \in [1..Len(back) -> TurnRecord]
    BY <1>1, <1>2, <1>3
  <2>2. turns' \in Seq(TurnRecord) /\ Len(turns') = Len(back)
    BY <1>2, <2>1
  <2>3. QED BY <1>1, <1>2, <2>2
<1> HIDE DEF Ended, back
<1>5. /\ child' \in Seq(Nat) /\ Len(child') = Len(disk.runs)
      /\ \A r \in 1..Len(disk.runs) : child[r] <= Len(back) => child'[r] = child[r]
  <2>1. \A r \in 1..Len(disk.runs) : child[r] \in Nat
    BY <1>2
  <2>2. child' \in [1..Len(disk.runs) -> Nat]
    BY <1>1, <1>2, <2>1
  <2>3. child' \in Seq(Nat) /\ Len(child') = Len(disk.runs)
    <3>1. Len(disk.runs) \in Nat
      BY <1>2
    <3>2. QED BY ONLY <2>2, <3>1
  <2>4. QED BY <1>1, <1>2, <2>3
<1>6. disk'.turns = turns' /\ disk'.runs = runs'
  BY <1>1
<1>7. stack' \in Seq(FrameRecord) /\ Len(stack') = 0
  BY <1>1
<1>8. Typed'
  <2>1. agents' \in [Names -> Seq(AgentDefinition)]
    BY <1>1, AgentsAreTyped
  <2>2. \A u \in DOMAIN policies' : policies'[u] \in SandboxPolicy
    BY <1>1
  <2>3. runs' \in Seq(RunRecord) /\ Len(runs') = Len(disk.runs)
    BY <1>1, <1>2
  <2>4. QED BY <1>4, <1>5, <1>6, <1>7, <2>1, <2>2, <2>3 DEF Typed
<1>9. Frames'
  BY <1>7 DEF Frames
<1>10. RunsTell'
  <2> SUFFICES ASSUME NEW r \in (1..Len(runs')) \ outside'
               PROVE  /\ runs'[r].status = "completed" =>
                           child'[r] \in 1..Len(turns') /\ turns'[child'[r]].status = "completed"
                      /\ runs'[r].status # "running"
    BY DEF RunsTell
  <2>1. r \in (1..Len(disk.runs)) \ outside /\ runs'[r] = disk.runs[r]
        /\ disk.runs[r].status # "running"
    BY <1>1, <1>2
  <2>2. ASSUME disk.runs[r].status = "completed"
        PROVE  child'[r] \in 1..Len(turns') /\ turns'[child'[r]].status = "completed"
    <3>1. child[r] \in 1..Len(back) /\ back[child[r]].status = "completed"
      BY <2>1, <2>2 DEF SubagentsInv, DiskTells, back
    <3>2. child'[r] = child[r]
      BY <1>2, <1>5, <2>1, <3>1
    <3>3. turns'[child[r]] = back[child[r]]
      BY <1>2, <1>3, <1>4, <3>1
    <3>4. QED BY <1>4, <3>1, <3>2, <3>3
  <2>3. QED BY <2>1, <2>2
<1>11. DiskTells'
  <2>1. Len(runs') \in Nat
    BY <1>1, <1>2
  <2>2. QED BY <1>6, <1>10, <2>1 DEF DiskTells, RunsTell
<1>12. NestedTurnsStayWithin'
  <2>1. \A i, j \in DOMAIN stack' : ~(i < j)
    BY <1>7
  <2>2. QED BY <2>1 DEF NestedTurnsStayWithin
<1>13. QED BY <1>8, <1>9, <1>10, <1>11, <1>12 DEF SubagentsInv

-----------------------------------------------------------------------------
(* Theorems.                                                               *)

LEMMA StepKeeps == SubagentsInv /\ [Next]_vars => SubagentsInv'
<1> SUFFICES ASSUME SubagentsInv, [Next]_vars PROVE SubagentsInv'
  OBVIOUS
<1>1. CASE \E d \in Definitions : RegisterAgent(d)
  BY <1>1, RegisterAgentKeeps
<1>2. CASE \E name \in Names : DispatchAgent(name)
  BY <1>2, DispatchAgentKeeps
<1>3. CASE \E r \in DOMAIN runs : BlockAgent(r) \/ CompleteAgent(r)
  <2>1. "blocked" \in RunStatus /\ "completed" \in RunStatus
    BY DEF RunStatus
  <2>2. QED BY <1>3, <2>1, SetRunKeeps DEF BlockAgent, CompleteAgent
<1>4. CASE \E extra \in ClientTools, policy \in {{}} \cup {{p} : p \in Policies} :
             \/ RunAgenticTurn(extra, policy)
             \/ \E t \in DOMAIN turns : ResumeAgenticTurn(t, extra, policy)
  <2>1. PICK extra \in ClientTools, policy \in {{}} \cup {{p} : p \in Policies} :
          \/ RunAgenticTurn(extra, policy)
          \/ \E t \in DOMAIN turns : ResumeAgenticTurn(t, extra, policy)
    BY <1>4
  <2>2. CASE RunAgenticTurn(extra, policy)
    BY <2>2, RunAgenticTurnKeeps
  <2>3. CASE \E t \in DOMAIN turns : ResumeAgenticTurn(t, extra, policy)
    BY <2>3, ResumeAgenticTurnKeeps
  <2>4. QED BY <2>1, <2>2, <2>3
<1>5. CASE \E t \in DOMAIN turns : InterruptTurn(t)
  BY <1>5, InterruptTurnKeeps
<1>6. CASE \E call \in AgentCalls : ExecuteAgentTool(call) \/ AgentCallRefused(call)
  BY <1>6, ExecuteAgentToolKeeps, AgentCallRefusedKeeps
<1>7. CASE Pause \/ Complete \/ Abort
  BY <1>7, LeaveKeeps DEF Pause, Complete, Abort
<1>8. CASE PersistNewEvents
  BY <1>8, AnsweredIsSaved, SavingKeeps DEF PersistNewEvents
<1>9. CASE Restart
  BY <1>9, RestartKeeps
<1>10. CASE UNCHANGED vars
  <2>1. Saved /\ UNCHANGED <<agents, turns, policies, runs, stack, child, outside>>
    BY <1>10 DEF vars, Saved
  <2>2. QED BY <2>1, SavingKeeps
<1>11. QED
  BY <1>1, <1>2, <1>3, <1>4, <1>5, <1>6, <1>7, <1>8, <1>9, <1>10 DEF Next

LEMMA SubagentsInvariant == Spec => []SubagentsInv
<1>1. Init => SubagentsInv
  BY InitCorrect
<1>2. SubagentsInv /\ [Next]_vars => SubagentsInv'
  BY StepKeeps
<1>3. QED BY <1>1, <1>2, PTL DEF Spec

\* A turn driven inside another has no tool and no right the outer one lacks,
\* whatever agents are registered and however they are called
\* (subagent_sandbox_policy, subagent_tool_definitions).
THEOREM NestedCorrect == Spec => []NestedTurnsStayWithin
<1>1. SubagentsInv => NestedTurnsStayWithin
  BY DEF SubagentsInv
<1>2. QED BY <1>1, SubagentsInvariant, PTL

\* The record of a run tells what became of its turn, over crashes too
\* (execute_agent_tool_inner).
THEOREM RunsCorrect == Spec => []RunTellsTheTurn
<1>1. SubagentsInv => RunTellsTheTurn
  <2> SUFFICES ASSUME SubagentsInv PROVE RunTellsTheTurn
    OBVIOUS
  <2>1. DOMAIN runs = 1..Len(runs) /\ DOMAIN stack = 1..Len(stack)
    BY Lengths DEF SubagentsInv
  <2>2. QED BY <2>1 DEF SubagentsInv, RunsTell, RunTellsTheTurn
<1>2. QED BY <1>1, SubagentsInvariant, PTL

-----------------------------------------------------------------------------
(* Part two: ProviderStream.                                               *)

RawCall == [id : Seq(Nat), pieces : Nat]
CallEntry == [kind : {"call"}, call : Nat, item : Nat, pieces : Nat]
StepItem == CallEntry \cup {TextItem}
OutputEntry == [kind : {"output"}, answers : Seq(Nat)]
Entry == HistoryMessage \cup StepItem \cup OutputEntry
ReplyRecord ==
  [calls : Seq(Calls), text : BOOLEAN, open : BOOLEAN, whole : BOOLEAN,
   added : SUBSET Nat, sent : Seq(Nat), done : SUBSET Nat, said : BOOLEAN]
Parsers(partials) ==
  [text : BOOLEAN, items : Seq(StepItem), raw : Seq(RawCall), partials : {partials}]

ProviderTyped ==
  /\ wire \in {"codex", "chat"}
  /\ \E past \in Histories, size \in {0, 1} :
       history = Append(past, [kind |-> "user", turn |-> Turn, size |-> size])
  /\ messages \in Seq(Entry)
  /\ reply \in ReplyRecord
  /\ parser \in Parsers(parser.partials)
  /\ calls \in Seq(RawCall)
  /\ paused.id \in Seq(Nat)
  /\ dropped \subseteq Nat

\* The service asks for no call twice, and tells of the calls it asks for.
Asks(r) ==
  /\ IsInjective(r.calls)
  /\ DOMAIN r.sent = DOMAIN r.calls
  /\ r.added \subseteq DOMAIN r.calls
  /\ r.done \subseteq DOMAIN r.calls

OnePromptIn(seq) == \E k \in DOMAIN seq : \A i \in DOMAIN seq : IsPrompt(seq[i]) <=> i = k
PromptSeeded == IF messages = <<>> THEN phase = "ask" ELSE OnePromptIn(messages)

MadeIn(seq, call) == \E c \in DOMAIN seq : seq[c].kind = "call" /\ seq[c].call = call
AnsweredIn(seq, call) == \E o \in DOMAIN seq : seq[o].kind = "output" /\ seq[o].answers = <<call>>

Answers(seq) ==
  /\ \A o \in DOMAIN seq : seq[o].kind = "output" =>
       \E c \in DOMAIN seq : c < o /\ seq[c].kind = "call" /\ seq[o].answers = <<seq[c].call>>
  /\ \A o, p \in DOMAIN seq :
       seq[o].kind = "output" /\ seq[p].kind = "output" /\ seq[o].answers = seq[p].answers => o = p

\* Open: not answered.
Waits(seq, id) == id # <<>> /\ MadeIn(seq, id[1]) /\ ~AnsweredIn(seq, id[1])

Settled(seq, call) == call \in dropped \/ AnsweredIn(seq, call)

Transcript ==
  /\ Answers(messages)
  /\ \A c \in DOMAIN messages : messages[c].kind = "call" =>
       \/ Settled(messages, messages[c].call)
       \/ phase = "tools" /\ \E i \in DOMAIN calls : calls[i].id[1] = messages[c].call
       \/ phase = "paused" /\ (paused.id # <<>> => paused.id[1] = messages[c].call)
  /\ phase # "tools" => calls = <<>>
  /\ \A i \in DOMAIN calls : Waits(messages, calls[i].id)
  /\ \A i, j \in DOMAIN calls : calls[i].id[1] = calls[j].id[1] => i = j
  /\ phase = "paused" /\ paused.id # <<>> => Waits(messages, paused.id)
  /\ phase = "stream" =>
       reply.open /\ \A i \in DOMAIN reply.calls : ~MadeIn(messages, reply.calls[i])

-----------------------------------------------------------------------------
(* What has been made of the answer.                                       *)

CodexId(call) == Id(call, ItemOf[call])
IdsOf(raw) == {raw[i].id : i \in DOMAIN raw}

Mirrors(items, raw) ==
  /\ \A i \in DOMAIN raw : MadeIn(items, raw[i].id[1])
  /\ \A c \in DOMAIN items : items[c].kind = "call" =>
       \E i \in DOMAIN raw : raw[i].id[1] = items[c].call

Collects(p, asked, whole) ==
  /\ Mirrors(p.items, p.raw)
  /\ \A i, j \in DOMAIN p.raw : p.raw[i].id = p.raw[j].id => i = j
  /\ \A i \in DOMAIN p.raw : \E k \in DOMAIN asked : p.raw[i].id = CodexId(asked[k])
  /\ whole => \A i \in DOMAIN p.raw : p.raw[i].pieces = Pieces

CodexTells(raw, partials, asked, added, sent, done, whole) ==
  /\ \A k \in done : CodexId(asked[k]) \in IdsOf(raw)
  /\ DOMAIN partials = {ItemOf[asked[k]] : k \in added}
  /\ \A k \in added :
       partials[ItemOf[asked[k]]] = [call |-> asked[k], named |-> TRUE, pieces |-> sent[k]]
  /\ \A k \in DOMAIN asked : k \notin added => sent[k] = 0
  /\ whole => \A k \in DOMAIN asked :
                CodexId(asked[k]) \in IdsOf(raw) \/ (k \in added /\ sent[k] = Pieces)

CodexStreams(p, r) ==
  /\ Collects(p, r.calls, TRUE)
  /\ CodexTells(p.raw, p.partials, r.calls, r.added, r.sent, r.done, r.whole)

ChatEntry(asked, added, sent, k) ==
  IF k \in added THEN [call |-> asked[k], named |-> TRUE, pieces |-> sent[k]]
                 ELSE [call |-> k, named |-> FALSE, pieces |-> sent[k]]

ChatTells(partials, asked, added, sent, whole) ==
  /\ DOMAIN partials = {k \in DOMAIN asked : k \in added \/ sent[k] # 0}
  /\ \A k \in DOMAIN partials : partials[k] = ChatEntry(asked, added, sent, k)
  /\ whole => \A k \in DOMAIN asked : k \in added /\ sent[k] = Pieces

ChatStreams(p, r) == ChatTells(p.partials, r.calls, r.added, r.sent, r.whole)

Streams ==
  phase = "stream" => IF wire = "codex" THEN CodexStreams(parser, reply)
                                        ELSE ChatStreams(parser, reply)

ProviderInv ==
  /\ ProviderTyped
  /\ Asks(reply)
  /\ PromptSeeded
  /\ Transcript
  /\ Streams
  /\ StreamTellsTheStep
-----------------------------------------------------------------------------
(* What a request carries.                                                 *)

Keeping == INSTANCE Folding WITH op <- KeepMessage
Doing == INSTANCE Folding WITH op <- ItemDone
Flushing == INSTANCE Folding WITH op <- FlushPartial

\* The folds of the model are folds of the lemmas.
LEMMA ProviderFolds ==
  /\ \A seq, kept : FoldLeft(KeepMessage, kept, seq) = Keeping!Fold(kept, seq)
  /\ \A seq, p : FoldLeft(ItemDone, p, seq) = Doing!Fold(p, seq)
  /\ \A seq, p : FoldLeft(FlushPartial, p, seq) = Flushing!Fold(p, seq)
<1>1. \A seq, kept : FoldLeft(KeepMessage, kept, seq) = Keeping!Fold(kept, seq)
  BY DEF Keeping!Fold, FoldLeft, Keeping!FoldLeft, MapThenFoldSet,
         Keeping!MapThenFoldSet, Max, Keeping!Max
<1>2. \A seq, p : FoldLeft(ItemDone, p, seq) = Doing!Fold(p, seq)
  BY DEF Doing!Fold, FoldLeft, Doing!FoldLeft, MapThenFoldSet,
         Doing!MapThenFoldSet, Max, Doing!Max
<1>3. \A seq, p : FoldLeft(FlushPartial, p, seq) = Flushing!Fold(p, seq)
  BY DEF Flushing!Fold, FoldLeft, Flushing!FoldLeft, MapThenFoldSet,
         Flushing!MapThenFoldSet, Max, Flushing!Max
<1> QED BY <1>1, <1>2, <1>3

NoPromptIn(seq) == \A i \in DOMAIN seq : ~IsPrompt(seq[i])

\* What is kept of a thread: messages of the thread, and the prompts there were.
Keepings == [tail : Seq(HistoryMessage), used : Nat]
WithoutPrompt == {kept \in Keepings : NoPromptIn(kept.tail)}
WithPrompt == {kept \in Keepings : OnePromptIn(kept.tail)}

\* An earlier message is never the prompt, kept or passed over.
LEMMA EarlierIsKept ==
  ASSUME NEW kept, NEW message \in Earlier
  PROVE  /\ kept \in WithoutPrompt => KeepMessage(kept, message) \in WithoutPrompt
         /\ kept \in WithPrompt => KeepMessage(kept, message) \in WithPrompt
<1>1. CASE Passed(kept, message)
  BY <1>1 DEF KeepMessage
<1>2. ASSUME ~Passed(kept, message), kept \in Keepings
      PROVE  /\ NoPromptIn(kept.tail) => KeepMessage(kept, message) \in WithoutPrompt
             /\ OnePromptIn(kept.tail) => KeepMessage(kept, message) \in WithPrompt
  <2>1. message \in HistoryMessage /\ message.size \in Nat /\ ~IsPrompt(message)
    BY DEF Earlier, HistoryMessage, IsPrompt
  <2>2. PICK old : old = kept.tail
    OBVIOUS
  <2>3. old \in Seq(HistoryMessage) /\ kept.used \in Nat
    BY <1>2, <2>2 DEF Keepings
  <2>4. PICK new : new = <<message>> \o old
    OBVIOUS
  <2>5. /\ new \in Seq(HistoryMessage) /\ Len(new) = Len(old) + 1
        /\ new[1] = message
        /\ \A i \in 1..Len(old) : new[i + 1] = old[i]
        /\ \A i \in 2..Len(new) : new[i] = old[i - 1]
    BY <2>1, <2>3, <2>4
  <2>6. KeepMessage(kept, message) = [tail |-> new, used |-> kept.used + message.size]
    BY <1>2, <2>2, <2>4 DEF KeepMessage
  <2>7. KeepMessage(kept, message) \in Keepings /\ KeepMessage(kept, message).tail = new
    <3>1. kept.used + message.size \in Nat
      BY <2>1, <2>3
    <3> QED BY <2>5, <2>6, <3>1 DEF Keepings
  <2>8. ASSUME NoPromptIn(old) PROVE NoPromptIn(new)
    <3>1. ASSUME NEW i \in DOMAIN new, i # 1 PROVE i \in 2..Len(new) /\ i - 1 \in DOMAIN old
      BY <2>3, <2>5, <3>1
    <3> QED BY <2>1, <2>5, <2>8, <3>1 DEF NoPromptIn
  <2>9. ASSUME OnePromptIn(old) PROVE OnePromptIn(new)
    <3>1. PICK k \in DOMAIN old : \A i \in DOMAIN old : IsPrompt(old[i]) <=> i = k
      BY <2>9 DEF OnePromptIn
    <3>2. k \in Nat /\ k + 1 \in DOMAIN new /\ k \in 1..Len(old)
      BY <2>3, <2>5
    <3>3. ASSUME NEW i \in DOMAIN new PROVE IsPrompt(new[i]) <=> i = k + 1
      <4>1. CASE i = 1
        BY <2>1, <2>5, <3>2, <4>1
      <4>2. CASE i # 1
        <5>1. i \in 2..Len(new) /\ i - 1 \in DOMAIN old
          BY <2>3, <2>5, <4>2
        <5> QED BY <2>5, <3>1, <3>2, <5>1
      <4> QED BY <4>1, <4>2
    <3> QED BY <3>2, <3>3 DEF OnePromptIn
  <2> QED BY <2>2, <2>7, <2>8, <2>9 DEF WithoutPrompt, WithPrompt
<1> QED BY <1>1, <1>2 DEF WithoutPrompt, WithPrompt

\* The prompt, when it is not blank, is kept whatever does not fit.
LEMMA PromptIsKept ==
  ASSUME NEW kept \in WithoutPrompt, kept.tail = <<>>, NEW size \in {0, 1}
  PROVE  KeepMessage(kept, [kind |-> "user", turn |-> Turn, size |-> size]) \in
           IF size = 0 THEN WithoutPrompt ELSE WithPrompt
<1>1. PICK message : message = [kind |-> "user", turn |-> Turn, size |-> size]
  OBVIOUS
<1>2. /\ message \in HistoryMessage /\ message.size = size
      /\ message.kind = "user" /\ IsPrompt(message)
  BY <1>1 DEF HistoryMessage, IsPrompt
<1>3. CASE size = 0
  BY <1>1, <1>2, <1>3 DEF KeepMessage, Passed, Blank
<1>4. CASE size = 1
  <2>1. ~Passed(kept, message)
    BY <1>2, <1>4 DEF Passed, Blank
  <2>2. <<message>> \o kept.tail = <<message>>
    OBVIOUS
  <2>3. KeepMessage(kept, message) = [tail |-> <<message>>, used |-> kept.used + 1]
    BY <1>2, <1>4, <2>1, <2>2 DEF KeepMessage
  <2>4. kept.used + 1 \in Nat
    BY DEF WithoutPrompt, Keepings
  <2>5. <<message>> \in Seq(HistoryMessage) /\ OnePromptIn(<<message>>)
    BY <1>2 DEF OnePromptIn
  <2>6. [tail |-> <<message>>, used |-> kept.used + 1] \in WithPrompt
    BY <2>4, <2>5 DEF WithPrompt, Keepings
  <2>7. KeepMessage(kept, message) \in WithPrompt
    BY <2>3, <2>6, Zenon
  <2>8. size # 0
    BY <1>4
  <2> QED BY <1>1, <2>7, <2>8, Zenon
<1> QED BY <1>3, <1>4

\* A summary is an earlier message, and its size is a number.
LEMMA SummaryIsEarlier ==
  ASSUME history \in Seq(HistoryMessage)
  PROVE  /\ Summary \in Seq(HistoryMessage)
         /\ NoPromptIn(Summary)
         /\ Summary # <<>> => Summary[1].size \in Nat
         /\ Len(Summary) \in {0, 1}
<1>1. CASE Summaries = {}
  BY <1>1 DEF Summary, NoPromptIn
<1>2. CASE Summaries # {}
  <2>1. Summaries \in SUBSET (1..Len(history)) /\ Len(history) \in Nat
    BY DEF Summaries
  <2>2. PICK last : last = Keeping!Max(Summaries)
    OBVIOUS
  <2>3. last \in Summaries
    BY <1>2, <2>1, <2>2, Keeping!MaxOfPlaces
  <2>4. Max(Summaries) = last
    BY <2>2 DEF Max, Keeping!Max
  <2>5. PICK message : message = history[last]
    OBVIOUS
  <2>6. message \in HistoryMessage /\ message.kind = "summary" /\ message.size \in Nat
    <3>1. last \in DOMAIN history /\ history[last].kind = "summary"
      BY <2>3 DEF Summaries
    <3>2. history[last] \in HistoryMessage
      BY <3>1
    <3>3. \A m \in HistoryMessage : m.size \in Nat
      BY DEF HistoryMessage
    <3> QED BY <2>5, <3>1, <3>2, <3>3
  <2>7. Summary = <<message>>
    BY <1>2, <2>4, <2>5 DEF Summary
  <2>8. ~IsPrompt(message)
    BY <2>6 DEF IsPrompt
  <2> QED BY <2>6, <2>7, <2>8 DEF NoPromptIn
<1> QED BY <1>1, <1>2

\* What is kept of the thread has the prompt once, or not at all when it is blank.
LEMMA TailHasThePrompt ==
  ASSUME NEW past \in Histories, NEW size \in {0, 1},
         history = Append(past, [kind |-> "user", turn |-> Turn, size |-> size])
  PROVE  /\ history \in Seq(HistoryMessage)
         /\ KeptTail \in Seq(HistoryMessage)
         /\ NoPromptIn(KeptTail) \/ OnePromptIn(KeptTail)
<1>1. PICK message : message = [kind |-> "user", turn |-> Turn, size |-> size]
  OBVIOUS
<1>2. past \in Seq(Earlier) /\ past \in Seq(HistoryMessage) /\ message \in HistoryMessage
  <2>1. past \in Seq(Earlier)
    BY HistoriesAreEarlier
  <2>2. Earlier \subseteq HistoryMessage
    BY DEF Earlier
  <2>3. past \in Seq(HistoryMessage)
    BY <2>1, <2>2
  <2>4. message \in HistoryMessage
    BY <1>1 DEF HistoryMessage
  <2> QED BY <2>1, <2>3, <2>4
<1>3. history = Append(past, message)
  BY <1>1
<1>4. history \in Seq(HistoryMessage)
  BY <1>2, <1>3
<1>5. PICK rest : rest = Reverse(past)
  OBVIOUS
<1>6. rest \in Seq(Earlier)
  <2>1. rest = [i \in 1..Len(past) |-> past[(Len(past) - i) + 1]]
    BY <1>5 DEF Reverse
  <2>2. Len(past) \in Nat /\ \A i \in 1..Len(past) : past[(Len(past) - i) + 1] \in Earlier
    BY <1>2
  <2> QED BY <2>1, <2>2
<1>7. Reverse(history) = <<message>> \o rest
  <2>1. /\ Len(history) = Len(past) + 1 /\ Len(past) \in Nat
        /\ history[Len(past) + 1] = message
        /\ \A i \in 1..Len(past) : history[i] = past[i]
    BY <1>2, <1>3
  <2>2. Reverse(history) = [i \in 1..Len(history) |-> history[(Len(history) - i) + 1]]
    BY DEF Reverse
  <2>3. Reverse(past) = [i \in 1..Len(past) |-> past[(Len(past) - i) + 1]]
    BY DEF Reverse
  <2>4. /\ Reverse(history) \in Seq(HistoryMessage)
        /\ Len(Reverse(history)) = Len(past) + 1
        /\ Reverse(history)[1] = message
        /\ \A i \in 2..Len(past) + 1 : Reverse(history)[i] = past[(Len(past) - i) + 2]
    <3>1. \A i \in 1..Len(history) : history[(Len(history) - i) + 1] \in HistoryMessage
      BY <1>4
    <3>2. PICK back : back = Reverse(history)
      OBVIOUS
    <3>3. back \in Seq(HistoryMessage) /\ Len(back) = Len(past) + 1
      BY <2>1, <2>2, <3>1, <3>2
    <3>4. back[1] = message
      BY <2>1, <2>2, <3>2
    <3>5. ASSUME NEW i \in 2..Len(past) + 1 PROVE back[i] = past[(Len(past) - i) + 2]
      <4>1. back[i] = history[(Len(history) - i) + 1]
        BY <2>1, <2>2, <3>2
      <4>2. (Len(history) - i) + 1 = (Len(past) - i) + 2 /\ (Len(past) - i) + 2 \in 1..Len(past)
        BY <2>1
      <4> QED BY <2>1, <4>1, <4>2
    <3> QED BY <3>2, <3>3, <3>4, <3>5
  <2>5. PICK long : long = <<message>> \o rest
    OBVIOUS
  <2>6. /\ long \in Seq(HistoryMessage) /\ Len(long) = Len(past) + 1
        /\ long[1] = message
        /\ \A i \in 2..Len(past) + 1 : long[i] = past[(Len(past) - i) + 2]
    <3>1. rest \in Seq(HistoryMessage) /\ Len(rest) = Len(past)
      BY <1>5, <1>6, <2>1, <2>3 DEF Earlier
    <3>2. /\ long \in Seq(HistoryMessage) /\ Len(long) = Len(past) + 1
          /\ long[1] = message
          /\ \A i \in 2..Len(past) + 1 : long[i] = rest[i - 1]
      BY <1>2, <2>1, <2>5, <3>1
    <3>3. \A i \in 2..Len(past) + 1 : rest[i - 1] = past[(Len(past) - i) + 2]
      BY <1>5, <2>1, <2>3
    <3> QED BY <3>2, <3>3
  <2>7. \A i \in 1..Len(past) + 1 : Reverse(history)[i] = long[i]
    <3>1. \A i \in 1..Len(past) + 1 : i = 1 \/ i \in 2..Len(past) + 1
      BY <2>1
    <3> QED BY <2>4, <2>6, <3>1
  <2> QED BY <2>4, <2>5, <2>6, <2>7, SeqEqual
<1>8. NothingKept \in WithoutPrompt /\ NothingKept.tail = <<>>
  <2>1. PICK used : used = (IF Summary = <<>> THEN 0 ELSE Summary[1].size)
    OBVIOUS
  <2>2. used \in Nat /\ NothingKept = [tail |-> <<>>, used |-> used]
    BY <1>4, <2>1, SummaryIsEarlier DEF NothingKept
  <2>3. <<>> \in Seq(HistoryMessage) /\ NoPromptIn(<<>>)
    BY DEF NoPromptIn
  <2> QED BY <2>2, <2>3 DEF WithoutPrompt, Keepings
<1>9. PICK first : first = KeepMessage(NothingKept, message)
  OBVIOUS
<1>10. first \in IF size = 0 THEN WithoutPrompt ELSE WithPrompt
  BY <1>1, <1>8, <1>9, PromptIsKept
<1>11. PICK all : all = Keeping!Fold(first, rest)
  OBVIOUS
<1>12. all \in WithoutPrompt \/ all \in WithPrompt
  <2>1. \A kept \in WithoutPrompt, m \in Earlier : KeepMessage(kept, m) \in WithoutPrompt
    BY EarlierIsKept
  <2>2. \A kept \in WithPrompt, m \in Earlier : KeepMessage(kept, m) \in WithPrompt
    BY EarlierIsKept
  <2>3. first \in WithoutPrompt \/ first \in WithPrompt
    BY <1>10
  <2>4. ASSUME first \in WithoutPrompt PROVE all \in WithoutPrompt
    BY <1>6, <1>11, <2>1, <2>4, Keeping!FoldStays
  <2>5. ASSUME first \in WithPrompt PROVE all \in WithPrompt
    BY <1>6, <1>11, <2>2, <2>5, Keeping!FoldStays
  <2> QED BY <2>3, <2>4, <2>5
<1>13. KeptTail = all.tail
  <2>1. KeptTail = Keeping!Fold(NothingKept, <<message>> \o rest).tail
    BY <1>7, ProviderFolds DEF KeptTail
  <2>2. <<message>> \in Seq(HistoryMessage) /\ rest \in Seq(HistoryMessage)
    BY <1>2, <1>6 DEF Earlier
  <2>3. Keeping!Fold(NothingKept, <<message>> \o rest)
          = Keeping!Fold(Keeping!Fold(NothingKept, <<message>>), rest)
    BY <2>2, Keeping!FoldConcat, Zenon
  <2>4. Keeping!Fold(NothingKept, <<message>>) = first
    BY <1>9, Keeping!FoldOne, Zenon
  <2> QED BY <1>11, <2>1, <2>3, <2>4, Zenon
<1> QED BY <1>4, <1>12, <1>13 DEF WithoutPrompt, WithPrompt, Keepings

\* A request that is made up now has the prompt once, and nothing but the thread.
LEMMA SeedHasThePrompt ==
  ASSUME NEW past \in Histories, NEW size \in {0, 1},
         history = Append(past, [kind |-> "user", turn |-> Turn, size |-> size])
  PROVE  /\ SeedMessages(Shown) \in Seq(HistoryMessage)
         /\ OnePromptIn(SeedMessages(Shown))
<1>1. PICK shown : shown = Shown
  OBVIOUS
<1>2. shown \in Seq(HistoryMessage) /\ (NoPromptIn(shown) \/ OnePromptIn(shown))
  <2>1. PICK tail, summary : tail = KeptTail /\ summary = Summary
    OBVIOUS
  <2>2. /\ tail \in Seq(HistoryMessage) /\ summary \in Seq(HistoryMessage)
        /\ NoPromptIn(tail) \/ OnePromptIn(tail)
        /\ NoPromptIn(summary) /\ Len(summary) \in {0, 1}
    BY <2>1, TailHasThePrompt, SummaryIsEarlier
  <2>3. PICK both : both = summary \o tail
    OBVIOUS
  <2>4. /\ both \in Seq(HistoryMessage) /\ Len(both) = Len(summary) + Len(tail)
        /\ \A i \in 1..Len(summary) : both[i] = summary[i]
        /\ \A i \in 1..Len(tail) : both[Len(summary) + i] = tail[i]
        /\ Len(summary) \in Nat /\ Len(tail) \in Nat
    BY <2>2, <2>3
  <2>5. ASSUME NEW i \in DOMAIN both
        PROVE  \/ i \in 1..Len(summary)
               \/ i - Len(summary) \in 1..Len(tail) /\ both[i] = tail[i - Len(summary)]
    <3>1. i \in 1..(Len(summary) + Len(tail))
      BY <2>4
    <3>2. CASE i <= Len(summary)
      BY <2>4, <3>1, <3>2
    <3>3. CASE i > Len(summary)
      <4>1. i - Len(summary) \in 1..Len(tail) /\ Len(summary) + (i - Len(summary)) = i
        BY <2>4, <3>1, <3>3
      <4> QED BY <2>4, <4>1
    <3> QED BY <2>4, <3>1, <3>2, <3>3
  <2>6. ASSUME NoPromptIn(tail) PROVE NoPromptIn(both)
    <3>1. ASSUME NEW i \in DOMAIN both PROVE ~IsPrompt(both[i])
      <4>1. CASE i \in 1..Len(summary)
        BY <2>2, <2>4, <4>1 DEF NoPromptIn
      <4>2. CASE i - Len(summary) \in 1..Len(tail) /\ both[i] = tail[i - Len(summary)]
        BY <2>2, <2>6, <4>2 DEF NoPromptIn
      <4> QED BY <2>5, <4>1, <4>2
    <3> QED BY <3>1 DEF NoPromptIn
  <2>7. ASSUME OnePromptIn(tail) PROVE OnePromptIn(both)
    <3>1. PICK k \in DOMAIN tail : \A i \in DOMAIN tail : IsPrompt(tail[i]) <=> i = k
      BY <2>7 DEF OnePromptIn
    <3>2. k \in 1..Len(tail) /\ Len(summary) + k \in DOMAIN both
      BY <2>2, <2>4
    <3>3. ASSUME NEW i \in DOMAIN both PROVE IsPrompt(both[i]) <=> i = Len(summary) + k
      <4>1. CASE i \in 1..Len(summary)
        BY <2>2, <2>4, <3>2, <4>1 DEF NoPromptIn
      <4>2. CASE i - Len(summary) \in 1..Len(tail) /\ both[i] = tail[i - Len(summary)]
        <5>1. i - Len(summary) \in DOMAIN tail /\ i \in Nat
          BY <2>2, <2>4, <4>2
        <5> QED BY <2>4, <3>1, <3>2, <4>2, <5>1
      <4> QED BY <2>5, <4>1, <4>2
    <3> QED BY <3>2, <3>3 DEF OnePromptIn
  <2>8. shown = tail \/ shown = both
    BY <1>1, <2>1, <2>3 DEF Shown, CompactProviderHistory
  <2> QED BY <2>2, <2>4, <2>6, <2>7, <2>8
<1>3. CASE OnePromptIn(shown)
  <2>1. SeedMessages(shown) = shown
    BY <1>3 DEF SeedMessages, OnePromptIn
  <2> QED BY <1>1, <1>2, <1>3, <2>1
<1>4. CASE NoPromptIn(shown)
  <2>1. SeedMessages(shown) = Append(shown, Prompt)
    BY <1>4 DEF SeedMessages, NoPromptIn
  <2>2. Prompt \in HistoryMessage /\ IsPrompt(Prompt)
    BY DEF Prompt, HistoryMessage, IsPrompt
  <2>3. PICK long : long = Append(shown, Prompt)
    OBVIOUS
  <2>4. /\ long \in Seq(HistoryMessage) /\ Len(long) = Len(shown) + 1 /\ Len(shown) \in Nat
        /\ long[Len(shown) + 1] = Prompt
        /\ \A i \in 1..Len(shown) : long[i] = shown[i]
    BY <1>2, <2>2, <2>3
  <2>5. OnePromptIn(long)
    <3>1. Len(shown) + 1 \in DOMAIN long
      BY <2>4
    <3>2. ASSUME NEW i \in DOMAIN long PROVE IsPrompt(long[i]) <=> i = Len(shown) + 1
      <4>1. i \in 1..Len(shown) \/ i = Len(shown) + 1
        BY <2>4
      <4> QED BY <1>2, <1>4, <2>2, <2>4, <4>1 DEF NoPromptIn
    <3> QED BY <3>1, <3>2 DEF OnePromptIn
  <2> QED BY <1>1, <2>1, <2>3, <2>4, <2>5
<1> QED BY <1>2, <1>3, <1>4

-----------------------------------------------------------------------------
(* A transcript that grows.                                                *)

\* The kinds of the entries: only a message of the thread is a prompt.
LEMMA EntryKinds ==
  /\ \A e \in HistoryMessage : e.kind \notin {"call", "output"}
  /\ \A e \in StepItem : e.kind # "output" /\ ~IsPrompt(e) /\ (e.kind = "call" => e \in CallEntry)
  /\ \A e \in OutputEntry : e.kind = "output" /\ ~IsPrompt(e)
<1>1. \A e \in HistoryMessage : e.kind \notin {"call", "output"}
  BY DEF HistoryMessage
<1>2. \A e \in CallEntry : e.kind = "call"
  BY DEF CallEntry
<1>3. TextItem.kind = "assistant"
  BY DEF TextItem
<1>4. \A e \in OutputEntry : e.kind = "output"
  BY DEF OutputEntry
<1> QED BY <1>1, <1>2, <1>3, <1>4 DEF StepItem, IsPrompt

\* Where the entries of a longer transcript come from.
LEMMA TranscriptGrows ==
  ASSUME NEW old \in Seq(Entry), NEW more \in Seq(Entry), NEW new, new = old \o more
  PROVE  /\ new \in Seq(Entry) /\ Len(old) \in Nat
         /\ \A i \in DOMAIN old : i \in DOMAIN new /\ new[i] = old[i]
         /\ \A j \in DOMAIN more : Len(old) + j \in DOMAIN new /\ new[Len(old) + j] = more[j]
         /\ \A i \in DOMAIN new : i \in DOMAIN old \/ (i - Len(old) \in DOMAIN more /\ i > Len(old))
         /\ \A i \in DOMAIN old : i \in 1..Len(old)
<1>1. /\ new \in Seq(Entry) /\ Len(old) \in Nat /\ Len(more) \in Nat
      /\ Len(new) = Len(old) + Len(more)
      /\ \A i \in 1..Len(old) : new[i] = old[i]
      /\ \A j \in 1..Len(more) : new[Len(old) + j] = more[j]
      /\ DOMAIN old = 1..Len(old) /\ DOMAIN more = 1..Len(more) /\ DOMAIN new = 1..Len(new)
  OBVIOUS
<1>2. \A i \in 1..(Len(old) + Len(more)) :
        i \in 1..Len(old) \/ (i - Len(old) \in 1..Len(more) /\ i > Len(old))
  BY <1>1
<1>3. /\ \A i \in 1..Len(old) : i \in 1..(Len(old) + Len(more))
      /\ \A j \in 1..Len(more) : Len(old) + j \in 1..(Len(old) + Len(more))
  BY <1>1
<1> QED BY <1>1, <1>2, <1>3

\* What was asked and answered in it was so before or is in what came.
LEMMA MadeGrows ==
  ASSUME NEW old \in Seq(Entry), NEW more \in Seq(Entry), NEW new, new = old \o more, NEW call
  PROVE  /\ MadeIn(new, call) <=> MadeIn(old, call) \/ MadeIn(more, call)
         /\ AnsweredIn(new, call) <=> AnsweredIn(old, call) \/ AnsweredIn(more, call)
<1>1. PICK n : n = Len(old)
  OBVIOUS
<1>2. /\ n \in Nat
      /\ \A i \in DOMAIN old : i \in DOMAIN new /\ new[i] = old[i]
      /\ \A j \in DOMAIN more : n + j \in DOMAIN new /\ new[n + j] = more[j]
      /\ \A i \in DOMAIN new : i \in DOMAIN old \/ i - n \in DOMAIN more
      /\ DOMAIN new \subseteq Nat /\ DOMAIN more \subseteq Nat
  BY <1>1, TranscriptGrows
<1>3. \A i \in DOMAIN new : i \in DOMAIN old \/ \E j \in DOMAIN more : i = n + j
  <2>1. ASSUME NEW i \in DOMAIN new, i - n \in DOMAIN more PROVE i = n + (i - n)
    BY <1>2
  <2> QED BY <1>2, <2>1
<1>4. ASSUME MadeIn(new, call) PROVE MadeIn(old, call) \/ MadeIn(more, call)
  <2>1. PICK c \in DOMAIN new : new[c].kind = "call" /\ new[c].call = call
    BY <1>4 DEF MadeIn
  <2>2. CASE c \in DOMAIN old
    <3>1. old[c].kind = "call" /\ old[c].call = call
      BY <1>2, <2>1, <2>2, Zenon
    <3> QED BY <2>2, <3>1, Zenon DEF MadeIn
  <2>3. ASSUME NEW j \in DOMAIN more, c = n + j PROVE MadeIn(more, call)
    <3>1. more[j].kind = "call" /\ more[j].call = call
      BY <1>2, <2>1, <2>3, Zenon
    <3> QED BY <3>1, Zenon DEF MadeIn
  <2> QED BY <1>3, <2>2, <2>3
<1>5. ASSUME AnsweredIn(new, call) PROVE AnsweredIn(old, call) \/ AnsweredIn(more, call)
  <2>1. PICK c \in DOMAIN new : new[c].kind = "output" /\ new[c].answers = <<call>>
    BY <1>5 DEF AnsweredIn
  <2>2. CASE c \in DOMAIN old
    <3>1. old[c].kind = "output" /\ old[c].answers = <<call>>
      BY <1>2, <2>1, <2>2, Zenon
    <3> QED BY <2>2, <3>1, Zenon DEF AnsweredIn
  <2>3. ASSUME NEW j \in DOMAIN more, c = n + j PROVE AnsweredIn(more, call)
    <3>1. more[j].kind = "output" /\ more[j].answers = <<call>>
      BY <1>2, <2>1, <2>3, Zenon
    <3> QED BY <3>1, Zenon DEF AnsweredIn
  <2> QED BY <1>3, <2>2, <2>3
<1>6. ASSUME MadeIn(old, call) PROVE MadeIn(new, call)
  <2>1. PICK c \in DOMAIN old : old[c].kind = "call" /\ old[c].call = call
    BY <1>6, Zenon DEF MadeIn
  <2>2. c \in DOMAIN new /\ new[c] = old[c]
    BY <1>2, Zenon
  <2> QED BY <2>1, <2>2, Zenon DEF MadeIn
<1>7. ASSUME MadeIn(more, call) PROVE MadeIn(new, call)
  <2>1. PICK j \in DOMAIN more : more[j].kind = "call" /\ more[j].call = call
    BY <1>7, Zenon DEF MadeIn
  <2>2. n + j \in DOMAIN new /\ new[n + j] = more[j]
    BY <1>2, Zenon
  <2> QED BY <2>1, <2>2, Zenon DEF MadeIn
<1>8. ASSUME AnsweredIn(old, call) PROVE AnsweredIn(new, call)
  <2>1. PICK o \in DOMAIN old : old[o].kind = "output" /\ old[o].answers = <<call>>
    BY <1>8, Zenon DEF AnsweredIn
  <2>2. o \in DOMAIN new /\ new[o] = old[o]
    BY <1>2, Zenon
  <2> QED BY <2>1, <2>2, Zenon DEF AnsweredIn
<1>9. ASSUME AnsweredIn(more, call) PROVE AnsweredIn(new, call)
  <2>1. PICK j \in DOMAIN more : more[j].kind = "output" /\ more[j].answers = <<call>>
    BY <1>9, Zenon DEF AnsweredIn
  <2>2. n + j \in DOMAIN new /\ new[n + j] = more[j]
    BY <1>2, Zenon
  <2> QED BY <2>1, <2>2, Zenon DEF AnsweredIn
<1> QED BY <1>4, <1>5, <1>6, <1>7, <1>8, <1>9

\* What came after the first request is never a prompt.
LEMMA PromptStays ==
  ASSUME NEW old \in Seq(Entry), NEW more \in Seq(Entry), NEW new, new = old \o more,
         OnePromptIn(old), NoPromptIn(more)
  PROVE  OnePromptIn(new) /\ new # <<>>
<1>1. PICK n : n = Len(old)
  OBVIOUS
<1>2. /\ n \in Nat
      /\ \A i \in DOMAIN old : i \in DOMAIN new /\ new[i] = old[i] /\ i \in 1..n
      /\ \A i \in DOMAIN new : i \in DOMAIN old \/ (i - n \in DOMAIN more /\ i > n)
      /\ \A j \in DOMAIN more : new[n + j] = more[j]
      /\ DOMAIN new \subseteq Nat
  BY <1>1, TranscriptGrows
<1>3. PICK k \in DOMAIN old : \A i \in DOMAIN old : IsPrompt(old[i]) <=> i = k
  BY DEF OnePromptIn
<1>4. ASSUME NEW i \in DOMAIN new PROVE IsPrompt(new[i]) <=> i = k
  <2>1. CASE i \in DOMAIN old
    BY <1>2, <1>3, <2>1
  <2>2. CASE i - n \in DOMAIN more /\ i > n
    <3>1. new[i] = more[i - n]
      <4>1. i = n + (i - n)
        BY <1>2
      <4> QED BY <1>2, <2>2, <4>1
    <3>2. ~IsPrompt(new[i])
      BY <2>2, <3>1 DEF NoPromptIn
    <3> QED BY <1>2, <1>3, <2>2, <3>2
  <2> QED BY <1>2, <2>1, <2>2
<1>5. k \in DOMAIN new
  BY <1>2
<1> QED BY <1>4, <1>5 DEF OnePromptIn

\* Results still name their calls when a step without results follows.
LEMMA AnswersStay ==
  ASSUME NEW old \in Seq(Entry), NEW more \in Seq(Entry), NEW new, new = old \o more,
         Answers(old), \A j \in DOMAIN more : more[j].kind # "output"
  PROVE  Answers(new)
<1>1. PICK n : n = Len(old)
  OBVIOUS
<1>2. /\ n \in Nat
      /\ \A i \in DOMAIN old : i \in DOMAIN new /\ new[i] = old[i]
      /\ \A i \in DOMAIN new : i \in DOMAIN old \/ i - n \in DOMAIN more
      /\ \A j \in DOMAIN more : new[n + j] = more[j]
      /\ DOMAIN new \subseteq Nat
  BY <1>1, TranscriptGrows
<1>3. ASSUME NEW o \in DOMAIN new, new[o].kind = "output"
      PROVE  o \in DOMAIN old /\ new[o] = old[o]
  <2>1. ASSUME o - n \in DOMAIN more PROVE FALSE
    <3>1. o = n + (o - n)
      BY <1>2
    <3> QED BY <1>2, <1>3, <2>1, <3>1
  <2> QED BY <1>2, <2>1
<1>4. ASSUME NEW o \in DOMAIN new, new[o].kind = "output"
      PROVE  \E c \in DOMAIN new : c < o /\ new[c].kind = "call" /\ new[o].answers = <<new[c].call>>
  <2>1. PICK c \in DOMAIN old : c < o /\ old[c].kind = "call" /\ old[o].answers = <<old[c].call>>
    BY <1>3, <1>4, Zenon DEF Answers
  <2>2. c \in DOMAIN new /\ new[c] = old[c] /\ new[o] = old[o]
    BY <1>2, <1>3, <1>4
  <2> QED BY <2>1, <2>2, Zenon
<1>5. ASSUME NEW o \in DOMAIN new, NEW p \in DOMAIN new,
             new[o].kind = "output", new[p].kind = "output", new[o].answers = new[p].answers
      PROVE  o = p
  BY <1>3, <1>5, Zenon DEF Answers
<1> QED BY <1>4, <1>5, Zenon DEF Answers

\* A result for a call that waits keeps results and calls paired.
LEMMA AnswerIsPaired ==
  ASSUME NEW old \in Seq(Entry), NEW id \in Seq(Nat), Answers(old), Waits(old, id),
         NEW new, new = ObserveToolResult(old, id)
  PROVE  /\ new \in Seq(Entry) /\ Answers(new)
         /\ \A call : MadeIn(new, call) <=> MadeIn(old, call)
         /\ \A call : AnsweredIn(new, call) <=> AnsweredIn(old, call) \/ call = id[1]
         /\ OnePromptIn(old) => OnePromptIn(new)
         /\ new # <<>>
         /\ \A c \in DOMAIN new : new[c].kind = "call" => c \in DOMAIN old /\ new[c] = old[c]
<1>1. PICK output : output = [kind |-> "output", answers |-> <<id[1]>>]
  OBVIOUS
<1>2. output \in OutputEntry /\ output.kind = "output" /\ output.answers = <<id[1]>>
  <2>1. id[1] \in Nat
    BY DEF Waits
  <2>2. <<id[1]>> \in Seq(Nat)
    BY <2>1
  <2> QED BY <1>1, <2>2 DEF OutputEntry
<1>3. PICK n : n = Len(old)
  OBVIOUS
<1>4. output \in Entry /\ ~IsPrompt(output)
  BY <1>2, EntryKinds DEF Entry
<1>5. PICK more : more = <<output>>
  OBVIOUS
<1>6. /\ more \in Seq(Entry) /\ DOMAIN more = {1} /\ more[1] = output
      /\ new = old \o more
  <2>1. new = Append(old, output)
    BY <1>1 DEF ObserveToolResult
  <2> QED BY <1>4, <1>5, <2>1
<1>7. /\ n \in Nat /\ new \in Seq(Entry)
      /\ \A i \in DOMAIN old : i \in DOMAIN new /\ new[i] = old[i] /\ i \in 1..n
      /\ \A i \in DOMAIN new : i \in DOMAIN old \/ i = n + 1
      /\ n + 1 \in DOMAIN new /\ new[n + 1] = output
  <2>1. /\ n \in Nat /\ new \in Seq(Entry)
        /\ \A i \in DOMAIN old : i \in DOMAIN new /\ new[i] = old[i] /\ i \in 1..n
        /\ \A i \in DOMAIN new : i \in DOMAIN old \/ i - n \in DOMAIN more
        /\ \A j \in DOMAIN more : n + j \in DOMAIN new /\ new[n + j] = more[j]
        /\ DOMAIN new \subseteq Nat
    <3>1. new \in Seq(Entry) => DOMAIN new \subseteq Nat
      OBVIOUS
    <3>2. /\ Len(old) \in Nat /\ new \in Seq(Entry)
          /\ \A i \in DOMAIN old : i \in DOMAIN new /\ new[i] = old[i]
          /\ \A j \in DOMAIN more : Len(old) + j \in DOMAIN new /\ new[Len(old) + j] = more[j]
          /\ \A i \in DOMAIN new : i \in DOMAIN old \/ (i - Len(old) \in DOMAIN more /\ i > Len(old))
          /\ \A i \in DOMAIN old : i \in 1..Len(old)
      <4>1. old \in Seq(Entry) /\ more \in Seq(Entry) /\ new = old \o more
        BY <1>6
      <4> QED BY ONLY <4>1, TranscriptGrows, SMT
    <3> QED BY <1>3, <3>1, <3>2
  <2> QED BY <1>6, <2>1
<1>8. /\ \A call : ~MadeIn(more, call)
      /\ \A call : AnsweredIn(more, call) <=> call = id[1]
  BY <1>2, <1>6 DEF MadeIn, AnsweredIn
<1>9. /\ \A call : MadeIn(new, call) <=> MadeIn(old, call)
      /\ \A call : AnsweredIn(new, call) <=> AnsweredIn(old, call) \/ call = id[1]
  BY <1>6, <1>8, MadeGrows
<1>10. OnePromptIn(old) => OnePromptIn(new)
  <2>1. NoPromptIn(more)
    BY <1>4, <1>6 DEF NoPromptIn
  <2> QED BY <1>6, <2>1, PromptStays
<1>11. Answers(new)
  <2>1. PICK c \in DOMAIN old : old[c].kind = "call" /\ old[c].call = id[1]
    BY DEF Waits, MadeIn
  <2>2. ASSUME NEW o \in DOMAIN new, new[o].kind = "output"
        PROVE  \E d \in DOMAIN new : d < o /\ new[d].kind = "call" /\ new[o].answers = <<new[d].call>>
    <3>1. CASE o \in DOMAIN old
      <4>1. new[o] = old[o] /\ old[o].kind = "output"
        BY <1>7, <2>2, <3>1
      <4>2. PICK d \in DOMAIN old : d < o /\ old[d].kind = "call" /\ old[o].answers = <<old[d].call>>
        BY <3>1, <4>1, Zenon DEF Answers
      <4>3. d \in DOMAIN new /\ new[d] = old[d]
        BY <1>7
      <4> QED BY <4>1, <4>2, <4>3, Zenon
    <3>2. CASE o = n + 1
      <4>1. c \in DOMAIN new /\ c < o /\ new[c] = old[c]
        BY <1>7, <3>2
      <4> QED BY <1>2, <1>7, <2>1, <3>2, <4>1
    <3> QED BY <1>7, <3>1, <3>2
  <2>3. \A o \in DOMAIN old : old[o].kind = "output" => old[o].answers # <<id[1]>>
    BY DEF Waits, AnsweredIn
  <2>4. ASSUME NEW o \in DOMAIN new, NEW p \in DOMAIN new,
               new[o].kind = "output", new[p].kind = "output", new[o].answers = new[p].answers
        PROVE  o = p
    <3>1. CASE o \in DOMAIN old /\ p \in DOMAIN old
      BY <1>7, <2>4, <3>1 DEF Answers
    <3>2. CASE o = n + 1 /\ p \in DOMAIN old
      BY <1>2, <1>7, <2>3, <2>4, <3>2
    <3>3. CASE p = n + 1 /\ o \in DOMAIN old
      BY <1>2, <1>7, <2>3, <2>4, <3>3
    <3> QED BY <1>7, <3>1, <3>2, <3>3
  <2> QED BY <2>2, <2>4 DEF Answers
<1>12. \A c \in DOMAIN new : new[c].kind = "call" => c \in DOMAIN old /\ new[c] = old[c]
  BY <1>2, <1>7
<1> QED BY <1>7, <1>9, <1>10, <1>11, <1>12

-----------------------------------------------------------------------------
(* The calls of an answer, as they are collected.                          *)

\* The service gives each call an item with an id of the item's own: a call is
\* then reported under one id, and its pieces are kept apart from others'.
ItemsAreTold == (\A call \in Calls : ItemOf[call] # NoItem) /\ IsInjective(ItemOf)

\* The id of a call begins with the call.
LEMMA IdBegins ==
  ASSUME NEW call \in Calls
  PROVE  /\ call \in Nat /\ ItemOf[call] \in Nat
         /\ CodexId(call) \in Seq(Nat) /\ CodexId(call) # <<>> /\ CodexId(call)[1] = call
<1>1. call \in Nat /\ ItemOf[call] \in Nat
  BY IdsAreNat
<1>2. CodexId(call) = <<call>> \/ CodexId(call) = <<call, ItemOf[call]>>
  BY DEF CodexId, Id
<1>3. CASE CodexId(call) = <<call>>
  BY <1>1, <1>3
<1>4. CASE CodexId(call) = <<call, ItemOf[call]>>
  BY <1>1, <1>4
<1> QED BY <1>1, <1>2, <1>3, <1>4

\* A whole answer has a call whole when it is not collected yet.
ComesWhole(raw, id, n, whole) == whole /\ id \notin IdsOf(raw) => n = Pieces

\* A call, named by its place in the answer, that is put with those collected.
LEMMA PushCollects ==
  ASSUME NEW partials, NEW p \in Parsers(partials), NEW asked \in Seq(Calls),
         NEW whole, Collects(p, asked, whole), NEW call \in ToSet(asked), NEW n \in Nat,
         NEW id, id = CodexId(call), ComesWhole(p.raw, id, n, whole),
         NEW item, item = CallItem(call, ItemOf[call], n),
         NEW q, q = PushCodexFunctionCall(p, item)
  PROVE  /\ q \in Parsers(partials) /\ Collects(q, asked, whole) /\ q.text = p.text
         /\ IdsOf(q.raw) = IdsOf(p.raw) \cup {id}
<1>1. PICK k \in DOMAIN asked : call = asked[k]
  BY DEF ToSet
<1>2. /\ call \in Calls /\ call \in Nat /\ ItemOf[call] \in Nat
      /\ id \in Seq(Nat) /\ id # <<>> /\ id[1] = call
  BY <1>1, IdBegins
<1>4. /\ item.call = call /\ item.item = ItemOf[call] /\ item.pieces = n
      /\ item.kind = "call" /\ item \in StepItem
  BY <1>2 DEF CallItem, StepItem, CallEntry
<1>5. Id(item.call, item.item) = id
  BY <1>4 DEF CodexId
<1>6. CASE Reported(p, id)
  <2>1. q = p
    BY <1>5, <1>6, Zenon DEF PushCodexFunctionCall
  <2>2. id \in IdsOf(p.raw)
    BY <1>6 DEF Reported, IdsOf
  <2> QED BY <1>1, <2>1, <2>2
<1>7. CASE ~Reported(p, id)
  <2>1. PICK call0 : call0 = [id |-> id, pieces |-> n]
    OBVIOUS
  <2>2. call0 \in RawCall /\ call0.id = id /\ call0.pieces = n
    BY <1>2, <2>1 DEF RawCall
  <2>3. PICK raw, items : raw = Append(p.raw, call0) /\ items = Append(p.items, item)
    OBVIOUS
  <2>4. q = [p EXCEPT !.raw = raw, !.items = items]
    BY <1>4, <1>5, <1>7, <2>1, <2>3, Zenon DEF PushCodexFunctionCall
  <2>5. /\ p.raw \in Seq(RawCall) /\ p.items \in Seq(StepItem) /\ Len(p.raw) \in Nat
        /\ p = [text |-> p.text, items |-> p.items, raw |-> p.raw, partials |-> partials]
        /\ p.text \in BOOLEAN
    BY DEF Parsers
  <2>6. raw \in Seq(RawCall) /\ items \in Seq(StepItem)
    BY <1>4, <2>2, <2>3, <2>5
  <2>7. q = [text |-> p.text, items |-> items, raw |-> raw, partials |-> partials]
    <3>1. PICK text, items0, raw0 : text = p.text /\ items0 = p.items /\ raw0 = p.raw
      OBVIOUS
    <3>2. p = [text |-> text, items |-> items0, raw |-> raw0, partials |-> partials]
      BY <2>5, <3>1
    <3>3. q = [[text |-> text, items |-> items0, raw |-> raw0, partials |-> partials]
                 EXCEPT !.raw = raw, !.items = items]
      BY <2>4, <3>2, Zenon
    <3>4. q = [text |-> text, items |-> items, raw |-> raw, partials |-> partials]
      BY <3>3
    <3> QED BY <3>1, <3>4, Zenon
  <2>8. q \in Parsers(partials) /\ q.raw = raw /\ q.items = items /\ q.text = p.text
    BY <2>5, <2>6, <2>7 DEF Parsers
  <2>9. PICK m : m = Len(p.raw)
    OBVIOUS
  <2>10. /\ m \in Nat /\ raw[m + 1] = call0 /\ m + 1 \in DOMAIN raw
         /\ \A i \in DOMAIN p.raw : i \in DOMAIN raw /\ raw[i] = p.raw[i]
         /\ \A i \in DOMAIN raw : i \in DOMAIN p.raw \/ i = m + 1
    BY <2>2, <2>3, <2>5, <2>9
  <2>11. \A i \in DOMAIN p.raw : p.raw[i].id # id
    BY <1>7 DEF Reported
  <2>12. IdsOf(raw) = IdsOf(p.raw) \cup {id}
    <3>1. IdsOf(raw) \subseteq IdsOf(p.raw) \cup {id}
      BY <2>2, <2>10 DEF IdsOf
    <3>2. IdsOf(p.raw) \cup {id} \subseteq IdsOf(raw)
      BY <2>2, <2>10 DEF IdsOf
    <3> QED BY <3>1, <3>2
  <2>13. /\ \A x : MadeIn(p.items, x) => MadeIn(items, x)
         /\ MadeIn(items, call)
         /\ \A c \in DOMAIN items :
              items[c].kind = "call" => items[c].call = call \/ MadeIn(p.items, items[c].call)
    <3>1. PICK l : l = Len(p.items)
      OBVIOUS
    <3>2. /\ l \in Nat /\ items[l + 1] = item /\ l + 1 \in DOMAIN items
          /\ \A i \in DOMAIN p.items : i \in DOMAIN items /\ items[i] = p.items[i]
          /\ \A i \in DOMAIN items : i \in DOMAIN p.items \/ i = l + 1
      BY <1>4, <2>3, <2>5, <3>1
    <3> QED BY <1>4, <3>2 DEF MadeIn
  <2>14. Mirrors(items, raw)
    <3>1. \A i \in DOMAIN raw : MadeIn(items, raw[i].id[1])
      <4>1. \A i \in DOMAIN p.raw : MadeIn(p.items, p.raw[i].id[1])
        BY DEF Collects, Mirrors
      <4> QED BY <1>2, <2>2, <2>10, <2>13, <4>1
    <3>2. ASSUME NEW c \in DOMAIN items, items[c].kind = "call"
          PROVE  \E i \in DOMAIN raw : raw[i].id[1] = items[c].call
      <4>1. CASE items[c].call = call
        BY <1>2, <2>2, <2>10, <4>1
      <4>2. CASE MadeIn(p.items, items[c].call)
        <5>1. PICK d \in DOMAIN p.items : p.items[d].kind = "call" /\ p.items[d].call = items[c].call
          BY <4>2 DEF MadeIn
        <5>2. PICK i \in DOMAIN p.raw : p.raw[i].id[1] = items[c].call
          BY <5>1 DEF Collects, Mirrors
        <5> QED BY <2>10, <5>2
      <4> QED BY <2>13, <3>2, <4>1, <4>2
    <3> QED BY <3>1, <3>2 DEF Mirrors
  <2>15. \A i, j \in DOMAIN raw : raw[i].id = raw[j].id => i = j
    <3>1. \A i, j \in DOMAIN p.raw : p.raw[i].id = p.raw[j].id => i = j
      BY DEF Collects
    <3> QED BY <2>2, <2>10, <2>11, <3>1
  <2>16. \A i \in DOMAIN raw : \E j \in DOMAIN asked : raw[i].id = CodexId(asked[j])
    <3>1. \A i \in DOMAIN p.raw : \E j \in DOMAIN asked : p.raw[i].id = CodexId(asked[j])
      BY DEF Collects
    <3> QED BY <1>1, <2>2, <2>10, <3>1
  <2>17. whole => \A i \in DOMAIN raw : raw[i].pieces = Pieces
    <3>1. whole => \A i \in DOMAIN p.raw : p.raw[i].pieces = Pieces
      BY DEF Collects
    <3>2. id \notin IdsOf(p.raw)
      BY <2>11 DEF IdsOf
    <3>3. whole => n = Pieces
      BY <1>1, <3>2 DEF ComesWhole
    <3> QED BY <2>2, <2>10, <3>1, <3>3
  <2>18. Collects(q, asked, whole)
    BY <2>8, <2>14, <2>15, <2>16, <2>17, Zenon DEF Collects
  <2> QED BY <1>1, <2>8, <2>12, <2>18
<1> QED BY <1>6, <1>7

\* The calls the final event lists are put with those reported before.
LEMMA ListCollects ==
  ASSUME NEW partials, NEW p \in Parsers(partials), NEW asked \in Seq(Calls),
         NEW whole, Collects(p, asked, whole), NEW q, q = FoldLeft(ItemDone, p, asked)
  PROVE  /\ q \in Parsers(partials) /\ Collects(q, asked, whole)
         /\ IdsOf(q.raw) = IdsOf(p.raw) \cup {CodexId(asked[k]) : k \in DOMAIN asked}
<1> DEFINE X == {x \in Parsers(partials) : Collects(x, asked, whole)}
           has == [x \in X |-> IdsOf(x.raw)]
           brings == [call \in Calls |-> {CodexId(call)}]
           S == ToSet(asked)
<1>1. ASSUME NEW x \in X, NEW call \in S
      PROVE  /\ ItemDone(x, call) \in X
             /\ has[ItemDone(x, call)] = has[x] \cup brings[call]
  <2>1. PICK n, item : n = Pieces /\ item = CallItem(call, ItemOf[call], n)
    OBVIOUS
  <2>2. PICK y, id : id = CodexId(call) /\ y = PushCodexFunctionCall(x, item)
    OBVIOUS
  <2>3. ItemDone(x, call) = y
    BY <2>1, <2>2, Zenon DEF ItemDone
  <2>4. /\ x \in Parsers(partials) /\ Collects(x, asked, whole) /\ n \in Nat
        /\ call \in ToSet(asked)
    BY <2>1, BoundsAreNat
  <2>5. /\ y \in Parsers(partials) /\ Collects(y, asked, whole)
        /\ IdsOf(y.raw) = IdsOf(x.raw) \cup {id}
    <3> HIDE DEF X, has, brings, S
    <3>1. ComesWhole(x.raw, id, n, whole)
      BY <2>1 DEF ComesWhole
    <3> QED BY <2>1, <2>2, <2>4, <3>1, PushCollects
  <2>6. y \in X /\ call \in Calls
    <3>1. \A k \in DOMAIN asked : asked[k] \in Calls
      OBVIOUS
    <3> QED BY <2>4, <2>5, <3>1 DEF ToSet
  <2> QED BY <2>2, <2>3, <2>5, <2>6
<1>2. asked \in Seq(S) /\ p \in X
  <2>1. asked \in [1..Len(asked) -> S] /\ Len(asked) \in Nat
    BY DEF ToSet
  <2> QED BY <2>1
<1> HIDE DEF X, has, brings, S
<1>3. Doing!Gathers(S, X, has, brings)
  BY <1>1, Zenon DEF Doing!Gathers
<1>4. q = Doing!Fold(p, asked)
  BY ProviderFolds, Zenon
<1>5. q \in X /\ has[q] = has[p] \cup Doing!Brought(brings, asked)
  <2>1. PICK seq \in Seq(S) : seq = asked
    BY <1>2
  <2>2. PICK base \in X : base = p
    BY <1>2
  <2>3. /\ Doing!Fold(base, seq) \in X
        /\ has[Doing!Fold(base, seq)] = has[base] \cup Doing!Brought(brings, seq)
    BY <1>3, Doing!FoldGathers
  <2> QED BY <1>4, <2>1, <2>2, <2>3, Zenon
<1>6. Doing!Brought(brings, asked) = {CodexId(asked[k]) : k \in DOMAIN asked}
  <2>1. DOMAIN asked = 1..Len(asked) /\ \A k \in DOMAIN asked : asked[k] \in Calls
    OBVIOUS
  <2>2. \A k \in DOMAIN asked : brings[asked[k]] = {CodexId(asked[k])}
    BY <2>1 DEF brings
  <2> QED BY <2>1, <2>2 DEF Doing!Brought
<1> QED BY <1>2, <1>5, <1>6 DEF X, has

-----------------------------------------------------------------------------
(* The keys of a map in their order.                                       *)

Ordering(keys, order) ==
  /\ order \in [1..Cardinality(keys) -> keys]
  /\ \A i, j \in DOMAIN order : i < j => order[i] < order[j]

\* The least key goes before an ordering of the others.
LEMMA LeastGoesFirst ==
  ASSUME NEW m \in Nat, NEW keys \in SUBSET Nat, IsFiniteSet(keys), Cardinality(keys) = m + 1,
         \A S \in SUBSET Nat : IsFiniteSet(S) /\ Cardinality(S) = m => \E order : Ordering(S, order)
  PROVE  \E order : Ordering(keys, order)
<1>1. keys # {}
  BY FS_EmptySet
<1>2. PICK least \in keys : \A key \in keys : least <= key
  BY <1>1, Keeping!LeastNatural
<1>3. PICK rest : rest = keys \ {least}
  OBVIOUS
<1>4. /\ IsFiniteSet(rest) /\ Cardinality(rest) = m
      /\ rest \in SUBSET Nat /\ rest \subseteq keys
  BY <1>3, FS_RemoveElement
<1>5. PICK order : Ordering(rest, order)
  BY <1>4
<1>6. /\ order \in [1..m -> rest]
      /\ \A i, j \in 1..m : i < j => order[i] < order[j]
  BY <1>4, <1>5 DEF Ordering
<1>7. \A key \in rest : least < key /\ key \in keys /\ key \in Nat
  <2>1. \A key \in rest : key \in keys /\ key # least /\ key \in Nat /\ least \in Nat
    BY <1>3
  <2> QED BY <1>2, <2>1
<1>8. PICK longer : longer = [i \in 1..(m + 1) |-> IF i = 1 THEN least ELSE order[i - 1]]
  OBVIOUS
<1>9. \A i \in 1..(m + 1) : i = 1 \/ i - 1 \in 1..m
  OBVIOUS
<1>10. \A i \in 1..(m + 1) : longer[i] \in keys
  BY <1>6, <1>7, <1>8, <1>9
<1>11. longer \in [1..(m + 1) -> keys]
  BY <1>8, <1>10
<1>12. ASSUME NEW i \in 1..(m + 1), NEW j \in 1..(m + 1), i < j PROVE longer[i] < longer[j]
  <2>1. j # 1 /\ j - 1 \in 1..m /\ longer[j] = order[j - 1]
    BY <1>8, <1>12
  <2>2. CASE i = 1
    BY <1>6, <1>7, <1>8, <2>1, <2>2
  <2>3. CASE i # 1
    <3>1. i - 1 \in 1..m /\ longer[i] = order[i - 1] /\ i - 1 < j - 1
      BY <1>8, <1>12, <2>3
    <3> QED BY <1>6, <2>1, <3>1
  <2> QED BY <2>2, <2>3
<1>13. DOMAIN longer = 1..(m + 1)
  BY <1>8
<1> QED BY <1>11, <1>12, <1>13 DEF Ordering

\* Every finite set of keys can be put in order.
LEMMA KeysHaveOrder ==
  ASSUME NEW keys \in SUBSET Nat, IsFiniteSet(keys)
  PROVE  \E order : Ordering(keys, order)
<1> DEFINE P(m) == \A S \in SUBSET Nat :
                     IsFiniteSet(S) /\ Cardinality(S) = m => \E order : Ordering(S, order)
           T == {m \in Nat : P(m)}
<1>1. 0 \in T
  <2>1. ASSUME NEW S \in SUBSET Nat, IsFiniteSet(S), Cardinality(S) = 0
        PROVE  \E order : Ordering(S, order)
    <3>1. <<>> \in [1..0 -> S] /\ DOMAIN <<>> = 1..0
      OBVIOUS
    <3>2. Ordering(S, <<>>)
      BY <2>1, <3>1 DEF Ordering
    <3> QED BY <3>2
  <2> QED BY <2>1
<1>2. ASSUME NEW m \in Nat, m \in T PROVE m + 1 \in T
  <2>1. P(m)
    BY <1>2
  <2>2. ASSUME NEW S \in SUBSET Nat, IsFiniteSet(S), Cardinality(S) = m + 1
        PROVE  \E order : Ordering(S, order)
    BY <2>1, <2>2, LeastGoesFirst
  <2> QED BY <2>2
<1>3. Nat \subseteq T
  <2> HIDE DEF T
  <2> QED BY <1>1, <1>2, Keeping!NatSetInduction
<1>4. Cardinality(keys) \in T
  BY <1>3, FS_CardinalityType
<1> QED BY <1>4

\* InOrder lists each key once.
LEMMA InOrderLists ==
  ASSUME NEW keys \in SUBSET Nat, IsFiniteSet(keys), NEW order, order = InOrder(keys)
  PROVE  /\ order \in Seq(keys) /\ IsInjective(order)
         /\ \A key \in keys : \E i \in DOMAIN order : order[i] = key
<1>1. PICK m : m = Cardinality(keys)
  OBVIOUS
<1>2. m \in Nat
  BY <1>1, FS_CardinalityType
<1>3. \E o \in [1..m -> keys] : \A i, j \in DOMAIN o : i < j => o[i] < o[j]
  BY <1>1, KeysHaveOrder DEF Ordering
<1>4. order \in [1..m -> keys] /\ \A i, j \in DOMAIN order : i < j => order[i] < order[j]
  BY <1>1, <1>3, Zenon DEF InOrder
<1>5. order \in Seq(keys)
  BY <1>2, <1>4
<1>6. IsInjective(order)
  <2>1. ASSUME NEW i \in 1..m, NEW j \in 1..m, order[i] = order[j] PROVE i = j
    <3>1. order[i] \in Nat /\ order[j] \in Nat
      BY <1>4
    <3>3. ~(order[i] < order[j]) /\ ~(order[j] < order[i])
      BY <2>1, <3>1
    <3>2. ~(i < j) /\ ~(j < i)
      BY <1>4, <3>3
    <3> QED BY <1>2, <3>2
  <2> QED BY <1>4, <2>1 DEF IsInjective
<1>7. order \in Surjection(1..m, keys)
  <2>1. order \in Injection(1..m, keys)
    BY <1>4, <1>6 DEF Injection
  <2>2. Cardinality(1..m) = m
    BY <1>2, FS_Interval
  <2> QED BY <1>1, <2>1, <2>2, FS_Injection
<1> QED BY <1>4, <1>5, <1>6, <1>7 DEF Surjection

-----------------------------------------------------------------------------
(* What is made of an answer at its end.                                   *)

Told(raw, asked) ==
  /\ \A i \in DOMAIN raw : raw[i].id # <<>> /\ raw[i].pieces = Pieces
  /\ \A k \in DOMAIN asked : \E i \in DOMAIN raw : raw[i].id[1] = asked[k]

Gathered(p, asked, whole) ==
  /\ \A i \in DOMAIN p.raw : p.raw[i].id # <<>> =>
       \E k \in DOMAIN asked : p.raw[i].id[1] = asked[k]
  /\ \A i, j \in DOMAIN p.raw :
       p.raw[i].id # <<>> /\ p.raw[j].id # <<>> /\ p.raw[i].id[1] = p.raw[j].id[1] => i = j
  /\ (\A i \in DOMAIN p.raw : p.raw[i].id # <<>>) => Mirrors(p.items, p.raw)
  /\ whole => Told(p.raw, asked)

\* The types of a reply that asks for calls.
LEMMA ReplyIsTyped ==
  ASSUME NEW r \in ReplyRecord, Asks(r)
  PROVE  /\ r.calls \in Seq(Calls) /\ Len(r.calls) \in Nat /\ DOMAIN r.calls = 1..Len(r.calls)
         /\ \A k \in DOMAIN r.calls : r.calls[k] \in Calls /\ r.sent[k] \in Nat /\ k \in Nat
         /\ r.added \subseteq DOMAIN r.calls /\ r.done \subseteq DOMAIN r.calls
         /\ IsFiniteSet(DOMAIN r.calls)
         /\ \A i, j \in DOMAIN r.calls : r.calls[i] = r.calls[j] => i = j
<1>1. r.calls \in Seq(Calls) /\ r.sent \in Seq(Nat)
  BY DEF ReplyRecord
<1>2. /\ r.added \subseteq DOMAIN r.calls /\ r.done \subseteq DOMAIN r.calls
      /\ DOMAIN r.sent = DOMAIN r.calls
      /\ \A i, j \in DOMAIN r.calls : r.calls[i] = r.calls[j] => i = j
  BY DEF Asks, IsInjective
<1>3. Len(r.calls) \in Nat /\ DOMAIN r.calls = 1..Len(r.calls)
  BY <1>1
<1>4. IsFiniteSet(DOMAIN r.calls)
  BY <1>3, FS_Interval
<1>5. \A k \in DOMAIN r.calls : r.calls[k] \in Calls /\ r.sent[k] \in Nat /\ k \in Nat
  <2>1. \A k \in DOMAIN r.sent : r.sent[k] \in Nat
    BY <1>1
  <2> QED BY <1>1, <1>2, <1>3, <2>1
<1> QED BY <1>1, <1>2, <1>3, <1>4, <1>5

\* What is collected under the ids of an answer's calls is gathered from it.
LEMMA CollectedIsGathered ==
  ASSUME NEW partials, NEW q \in Parsers(partials), NEW asked \in Seq(Calls), NEW whole,
         Collects(q, asked, whole),
         whole => \A k \in DOMAIN asked : CodexId(asked[k]) \in IdsOf(q.raw)
  PROVE  Gathered(q, asked, whole)
<1>1. \A k \in DOMAIN asked : asked[k] \in Calls
  OBVIOUS
<1>2. \A i \in DOMAIN q.raw : \E k \in DOMAIN asked : q.raw[i].id = CodexId(asked[k])
  BY DEF Collects
<1>3. \A i, j \in DOMAIN q.raw : q.raw[i].id = q.raw[j].id => i = j
  BY DEF Collects
<1>4. \A i \in DOMAIN q.raw : /\ q.raw[i].id # <<>>
                              /\ \E k \in DOMAIN asked : q.raw[i].id[1] = asked[k]
                              /\ q.raw[i].id = CodexId(q.raw[i].id[1])
  <2>1. ASSUME NEW i \in DOMAIN q.raw
        PROVE  /\ q.raw[i].id # <<>>
               /\ \E k \in DOMAIN asked : q.raw[i].id[1] = asked[k]
               /\ q.raw[i].id = CodexId(q.raw[i].id[1])
    <3>1. PICK k \in DOMAIN asked : q.raw[i].id = CodexId(asked[k])
      BY <1>2
    <3>2. PICK call : call = asked[k]
      OBVIOUS
    <3>3. CodexId(call) # <<>> /\ CodexId(call)[1] = call
      BY <1>1, <3>2, IdBegins
    <3> QED BY <3>1, <3>2, <3>3
  <2> QED BY <2>1
<1>5. \A i, j \in DOMAIN q.raw : q.raw[i].id[1] = q.raw[j].id[1] => i = j
  BY <1>3, <1>4
<1>6. Mirrors(q.items, q.raw)
  BY DEF Collects
<1>7. ASSUME whole PROVE Told(q.raw, asked)
  <2>1. \A i \in DOMAIN q.raw : q.raw[i].pieces = Pieces
    BY <1>7 DEF Collects
  <2>2. ASSUME NEW k \in DOMAIN asked PROVE \E i \in DOMAIN q.raw : q.raw[i].id[1] = asked[k]
    <3>1. PICK call : call = asked[k]
      OBVIOUS
    <3>2. CodexId(call) \in IdsOf(q.raw) /\ CodexId(call)[1] = call
      BY <1>1, <1>7, <3>1, IdBegins
    <3>3. PICK i \in DOMAIN q.raw : q.raw[i].id = CodexId(call)
      BY <3>2 DEF IdsOf
    <3> QED BY <3>1, <3>2, <3>3
  <2> QED BY <1>4, <2>1, <2>2 DEF Told
<1> QED BY <1>4, <1>5, <1>6, <1>7 DEF Gathered

\* The announced calls are put with the reported ones when the stream ends.
LEMMA FlushGathers ==
  ASSUME NEW r \in ReplyRecord, Asks(r), NEW partials, NEW p \in Parsers(partials),
         CodexStreams(p, r), NEW q, q = FlushPartials(p)
  PROVE  q \in Parsers(partials) /\ Gathered(q, r.calls, r.whole)
<1>1. PICK asked, whole, keys : asked = r.calls /\ whole = r.whole /\ keys = DOMAIN partials
  OBVIOUS
<1>2. /\ asked \in Seq(Calls)
      /\ \A k \in DOMAIN asked : asked[k] \in Calls /\ r.sent[k] \in Nat
      /\ r.added \subseteq DOMAIN asked /\ IsFiniteSet(DOMAIN asked)
  BY <1>1, ReplyIsTyped
<1>3. p.partials = partials
  BY DEF Parsers
<1>4. /\ Collects(p, asked, TRUE)
      /\ keys = {ItemOf[asked[k]] : k \in r.added}
      /\ \A k \in r.added : partials[ItemOf[asked[k]]] =
                              [call |-> asked[k], named |-> TRUE, pieces |-> r.sent[k]]
      /\ whole => \A k \in DOMAIN asked :
                    CodexId(asked[k]) \in IdsOf(p.raw) \/ (k \in r.added /\ r.sent[k] = Pieces)
  <2>1. CodexTells(p.raw, partials, asked, r.added, r.sent, r.done, whole)
    BY <1>1, <1>3 DEF CodexStreams
  <2>2. Collects(p, asked, TRUE)
    BY <1>1 DEF CodexStreams
  <2> QED BY <1>1, <2>1, <2>2, Zenon DEF CodexTells
<1>5. Collects(p, asked, whole)
  BY <1>4 DEF Collects
<1>6. keys \in SUBSET Nat /\ IsFiniteSet(keys)
  <2>1. IsFiniteSet(r.added)
    BY <1>2, FS_Subset
  <2>2. IsFiniteSet(keys)
    <3>1. PICK f : f = [k \in r.added |-> ItemOf[asked[k]]]
      OBVIOUS
    <3>2. f \in Surjection(r.added, keys)
      BY <1>4, <3>1 DEF Surjection
    <3> QED BY <2>1, <3>2, FS_Surjection
  <2>3. \A k \in r.added : ItemOf[asked[k]] \in Nat
    BY <1>2, IdBegins
  <2> QED BY <1>4, <2>2, <2>3
<1>7. PICK order : order = InOrder(keys)
  OBVIOUS
<1>8. order \in Seq(keys) /\ \A key \in keys : \E i \in DOMAIN order : order[i] = key
  BY <1>6, <1>7, InOrderLists
<1> DEFINE X == {x \in Parsers(partials) : Collects(x, asked, whole) /\ IdsOf(p.raw) \subseteq IdsOf(x.raw)}
           has == [x \in X |-> IdsOf(x.raw)]
           brings == [key \in keys |-> {CodexId(partials[key].call)}]
<1>9. ASSUME NEW x \in X, NEW key \in keys
      PROVE  /\ FlushPartial(x, key) \in X
             /\ has[FlushPartial(x, key)] = has[x] \cup brings[key]
  <2>1. PICK k \in r.added : key = ItemOf[asked[k]]
    BY <1>4
  <2>2. PICK call, n, id : call = asked[k] /\ n = r.sent[k] /\ id = CodexId(call)
    OBVIOUS
  <2>3. /\ k \in DOMAIN asked /\ call \in Calls /\ n \in Nat /\ call \in ToSet(asked)
    BY <1>2, <2>2 DEF ToSet
  <2>4. partials[key] = [call |-> call, named |-> TRUE, pieces |-> n]
    BY <1>4, <2>1, <2>2, Zenon
  <2>5. partials[key].call = call /\ partials[key].named /\ partials[key].pieces = n
    BY <2>4
  <2>6. PICK item : item = CallItem(call, ItemOf[call], n)
    OBVIOUS
  <2>7. PICK y : y = PushCodexFunctionCall(x, item)
    OBVIOUS
  <2>8. x \in Parsers(partials) /\ Collects(x, asked, whole) /\ IdsOf(p.raw) \subseteq IdsOf(x.raw)
    OBVIOUS
  <2>9. x.partials = partials
    BY <2>8 DEF Parsers
  <2>10. FlushPartial(x, key) = y
    BY <2>1, <2>2, <2>5, <2>6, <2>7, <2>9, Zenon DEF FlushPartial
  <2>11. ComesWhole(x.raw, id, n, whole)
    BY <1>4, <2>2, <2>3, <2>8 DEF ComesWhole
  <2>12. /\ y \in Parsers(partials) /\ Collects(y, asked, whole)
         /\ IdsOf(y.raw) = IdsOf(x.raw) \cup {id}
    <3> HIDE DEF X, has, brings
    <3>1. asked \in Seq(Calls) /\ call \in ToSet(asked) /\ n \in Nat
      BY <1>2, <2>3
    <3>2. x \in Parsers(partials) /\ Collects(x, asked, whole)
      BY <2>8
    <3>3. id = CodexId(call)
      BY <2>2
    <3> QED BY <2>6, <2>7, <2>11, <3>1, <3>2, <3>3, PushCollects
  <2>13. y \in X
    BY <2>8, <2>12
  <2>14. brings[key] = {id}
    BY <2>2, <2>5
  <2>15. has[y] = IdsOf(y.raw) /\ has[x] = IdsOf(x.raw)
    BY <2>13
  <2> HIDE DEF X, has, brings
  <2> QED BY <2>10, <2>12, <2>13, <2>14, <2>15
<1>10. p \in X /\ has[p] = IdsOf(p.raw)
  BY <1>5
<1>11. \A x \in X : has[x] = IdsOf(x.raw) /\ x \in Parsers(partials) /\ Collects(x, asked, whole)
  OBVIOUS
<1>12. \A k \in r.added : brings[ItemOf[asked[k]]] = {CodexId(asked[k])}
  <2>1. ASSUME NEW k \in r.added PROVE brings[ItemOf[asked[k]]] = {CodexId(asked[k])}
    <3>1. PICK key, call : key = ItemOf[asked[k]] /\ call = asked[k]
      OBVIOUS
    <3>2. key \in keys /\ partials[key] = [call |-> call, named |-> TRUE, pieces |-> r.sent[k]]
      BY <1>4, <3>1
    <3>3. partials[key].call = call
      BY <3>2
    <3>4. brings[key] = {CodexId(call)}
      BY <3>2, <3>3
    <3> QED BY <3>1, <3>4
  <2> QED BY <2>1
<1> HIDE DEF X, has, brings
<1>13. Flushing!Gathers(keys, X, has, brings)
  BY <1>9, Zenon DEF Flushing!Gathers
<1>14. q = Flushing!Fold(p, order)
  BY <1>1, <1>3, <1>7, ProviderFolds, Zenon DEF FlushPartials
<1>15. q \in X /\ has[q] = has[p] \cup Flushing!Brought(brings, order)
  <2>1. PICK seq \in Seq(keys) : seq = order
    BY <1>8
  <2>2. PICK base \in X : base = p
    BY <1>10
  <2>3. /\ Flushing!Fold(base, seq) \in X
        /\ has[Flushing!Fold(base, seq)] = has[base] \cup Flushing!Brought(brings, seq)
    BY <1>13, Flushing!FoldGathers
  <2> QED BY <1>14, <2>1, <2>2, <2>3, Zenon
<1>16. ASSUME whole, NEW k \in DOMAIN asked PROVE CodexId(asked[k]) \in IdsOf(q.raw)
  <2>1. CASE CodexId(asked[k]) \in IdsOf(p.raw)
    BY <1>10, <1>11, <1>15, <2>1
  <2>2. CASE k \in r.added
    <3>1. ItemOf[asked[k]] \in keys
      BY <1>4, <2>2
    <3>2. PICK i \in DOMAIN order : order[i] = ItemOf[asked[k]]
      BY <1>8, <3>1
    <3>3. i \in 1..Len(order)
      BY <1>8
    <3>5. brings[order[i]] = {CodexId(asked[k])}
      BY <1>12, <2>2, <3>2, Zenon
    <3>4. CodexId(asked[k]) \in Flushing!Brought(brings, order)
      BY <3>3, <3>5 DEF Flushing!Brought
    <3> QED BY <1>11, <1>15, <3>4
  <2> QED BY <1>4, <1>16, <2>1, <2>2
<1>17. q \in Parsers(partials) /\ Collects(q, asked, whole)
  BY <1>11, <1>15
<1>18. Gathered(q, asked, whole)
  BY <1>2, <1>16, <1>17, CollectedIsGathered
<1> QED BY <1>1, <1>17, <1>18

\* The pieces of a chat answer are gathered when the stream ends.
LEMMA ChatGathers ==
  ASSUME NEW r \in ReplyRecord, Asks(r), NEW partials, NEW p \in Parsers(partials),
         ChatStreams(p, r), NEW q, q = CollectChat(p)
  PROVE  q \in Parsers(partials) /\ Gathered(q, r.calls, r.whole)
<1>1. PICK asked, whole, keys : asked = r.calls /\ whole = r.whole /\ keys = DOMAIN partials
  OBVIOUS
<1>2. /\ asked \in Seq(Calls)
      /\ \A k \in DOMAIN asked : asked[k] \in Calls /\ asked[k] \in Nat /\ r.sent[k] \in Nat /\ k \in Nat
      /\ r.added \subseteq DOMAIN asked /\ IsFiniteSet(DOMAIN asked)
      /\ \A i, j \in DOMAIN asked : asked[i] = asked[j] => i = j
  BY <1>1, ReplyIsTyped, IdsAreNat
<1>3. p.partials = partials
  BY DEF Parsers
<1>4. /\ keys = {k \in DOMAIN asked : k \in r.added \/ r.sent[k] # 0}
      /\ \A k \in keys : partials[k] = ChatEntry(asked, r.added, r.sent, k)
      /\ whole => \A k \in DOMAIN asked : k \in r.added /\ r.sent[k] = Pieces
  BY <1>1, <1>3, Zenon DEF ChatStreams, ChatTells
<1>5. keys \in SUBSET Nat /\ IsFiniteSet(keys)
  BY <1>2, <1>4, FS_Subset
<1>6. PICK order : order = InOrder(keys)
  OBVIOUS
<1>7. /\ order \in Seq(keys) /\ IsInjective(order)
      /\ \A key \in keys : \E i \in DOMAIN order : order[i] = key
  BY <1>5, <1>6, InOrderLists
<1>8. PICK raw, made :
        /\ raw = [i \in DOMAIN order |-> ChatRaw(partials[order[i]])]
        /\ made = [i \in DOMAIN order |->
                     CallItem(partials[order[i]].call, NoItem, partials[order[i]].pieces)]
  OBVIOUS
<1>9. PICK items : items = <<TextItem>> \o made
  OBVIOUS
<1>10. q = [p EXCEPT !.raw = raw, !.items = items]
  BY <1>1, <1>3, <1>6, <1>8, <1>9, Zenon DEF CollectChat
<1>11. ASSUME NEW i \in DOMAIN order
       PROVE  /\ order[i] \in keys /\ order[i] \in DOMAIN asked
              /\ raw[i] \in RawCall /\ made[i] \in CallEntry
              /\ raw[i].id = (IF order[i] \in r.added THEN <<asked[order[i]]>> ELSE <<>>)
              /\ raw[i].pieces = r.sent[order[i]]
              /\ order[i] \in r.added => made[i].call = asked[order[i]]
              /\ made[i].kind = "call"
  <2>1. PICK k : k = order[i]
    OBVIOUS
  <2>2. k \in keys /\ k \in DOMAIN asked
    BY <1>4, <1>7, <2>1
  <2>3. PICK entry : entry = partials[k]
    OBVIOUS
  <2>4. entry = ChatEntry(asked, r.added, r.sent, k)
    BY <1>4, <2>2, <2>3, Zenon
  <2>5. /\ entry.call = (IF k \in r.added THEN asked[k] ELSE k)
        /\ entry.named <=> k \in r.added
        /\ entry.pieces = r.sent[k]
    <3>1. CASE k \in r.added
      BY <2>4, <3>1 DEF ChatEntry
    <3>2. CASE k \notin r.added
      BY <2>4, <3>2 DEF ChatEntry
    <3> QED BY <3>1, <3>2
  <2>6. entry.call \in Nat /\ entry.pieces \in Nat
    BY <1>2, <2>2, <2>5
  <2>7. raw[i] = ChatRaw(entry) /\ made[i] = CallItem(entry.call, NoItem, entry.pieces)
    BY <1>8, <2>1, <2>3
  <2>8. ChatRaw(entry).id = (IF k \in r.added THEN <<asked[k]>> ELSE <<>>)
    <3>1. CASE k \in r.added
      BY <2>5, <3>1 DEF ChatRaw
    <3>2. CASE k \notin r.added
      BY <2>5, <3>2 DEF ChatRaw
    <3> QED BY <3>1, <3>2
  <2>9. ChatRaw(entry).pieces = r.sent[k]
    BY <2>5 DEF ChatRaw
  <2>10. ChatRaw(entry) \in RawCall
    <3>1. CASE entry.named
      <4>1. ChatRaw(entry) = [id |-> <<entry.call>>, pieces |-> entry.pieces]
        BY <3>1 DEF ChatRaw
      <4>2. <<entry.call>> \in Seq(Nat)
        BY <2>6
      <4> QED BY <2>6, <4>1, <4>2 DEF RawCall
    <3>2. CASE ~entry.named
      <4>1. ChatRaw(entry) = [id |-> <<>>, pieces |-> entry.pieces]
        BY <3>2 DEF ChatRaw
      <4>2. <<>> \in Seq(Nat)
        OBVIOUS
      <4> QED BY <2>6, <4>1, <4>2 DEF RawCall
    <3> QED BY <3>1, <3>2
  <2>11. /\ made[i] \in CallEntry /\ made[i].kind = "call" /\ made[i].call = entry.call
    BY <2>6, <2>7 DEF CallItem, CallEntry, NoItem
  <2> QED BY <2>1, <2>2, <2>5, <2>7, <2>8, <2>9, <2>10, <2>11
<1>12. /\ raw \in Seq(RawCall) /\ made \in Seq(CallEntry)
       /\ DOMAIN raw = DOMAIN order /\ DOMAIN made = DOMAIN order /\ DOMAIN order \subseteq Nat
  <2>1. DOMAIN order = 1..Len(order) /\ Len(order) \in Nat
    BY <1>7
  <2>2. raw = [i \in 1..Len(order) |-> raw[i]] /\ made = [i \in 1..Len(order) |-> made[i]]
    BY <1>8, <2>1
  <2>3. (\A i \in 1..Len(order) : raw[i] \in RawCall) /\ (\A i \in 1..Len(order) : made[i] \in CallEntry)
    BY <1>11, <2>1
  <2>4. raw \in [1..Len(order) -> RawCall] /\ made \in [1..Len(order) -> CallEntry]
    BY <2>2, <2>3
  <2>5. raw \in Seq(RawCall) /\ made \in Seq(CallEntry)
    BY <2>1, <2>4
  <2> QED BY <2>1, <2>4, <2>5
<1>13. /\ items \in Seq(StepItem)
       /\ \A c \in DOMAIN made : c + 1 \in DOMAIN items /\ items[c + 1] = made[c]
       /\ \A c \in DOMAIN items : items[c].kind = "call" =>
            c - 1 \in DOMAIN made /\ items[c] = made[c - 1]
  <2>1. made \in Seq(StepItem) /\ TextItem \in StepItem
    BY <1>12 DEF StepItem
  <2>2. PICK text : text = TextItem
    OBVIOUS
  <2>3. text.kind # "call"
    BY <2>2 DEF TextItem
  <2>4. /\ items \in Seq(StepItem) /\ Len(items) = Len(made) + 1 /\ Len(made) \in Nat
        /\ items[1] = text
        /\ \A c \in 1..Len(made) : items[c + 1] = made[c]
    BY <1>9, <2>1, <2>2
  <2>5. \A c \in DOMAIN items : c = 1 \/ (c - 1 \in 1..Len(made) /\ items[c] = made[c - 1])
    <3>1. \A c \in 1..(Len(made) + 1) : c = 1 \/ (c - 1 \in 1..Len(made) /\ (c - 1) + 1 = c)
      BY <2>4
    <3>2. DOMAIN items = 1..(Len(made) + 1)
      BY <2>4
    <3>3. ASSUME NEW c \in DOMAIN items, c # 1
          PROVE  c - 1 \in 1..Len(made) /\ items[c] = made[c - 1]
      <4>1. c - 1 \in 1..Len(made) /\ (c - 1) + 1 = c
        BY <3>1, <3>2, <3>3
      <4>2. items[(c - 1) + 1] = made[c - 1]
        BY <2>4, <4>1
      <4> QED BY <4>1, <4>2
    <3> QED BY <3>3
  <2>6. DOMAIN made = 1..Len(made) /\ \A c \in 1..Len(made) : c + 1 \in DOMAIN items
    BY <2>1, <2>4
  <2> QED BY <2>3, <2>4, <2>5, <2>6
<1>14. PICK text : text = p.text
  OBVIOUS
<1>15. q = [text |-> text, items |-> items, raw |-> raw, partials |-> partials] /\ text \in BOOLEAN
  <2>1. PICK items0, raw0 : items0 = p.items /\ raw0 = p.raw
    OBVIOUS
  <2>2. p = [text |-> text, items |-> items0, raw |-> raw0, partials |-> partials] /\ text \in BOOLEAN
    BY <1>14, <2>1 DEF Parsers
  <2>3. q = [[text |-> text, items |-> items0, raw |-> raw0, partials |-> partials]
               EXCEPT !.raw = raw, !.items = items]
    BY <1>10, <2>2, Zenon
  <2> QED BY <2>2, <2>3
<1>16. q \in Parsers(partials) /\ q.raw = raw /\ q.items = items
  BY <1>12, <1>13, <1>15 DEF Parsers
<1>17. \A i \in DOMAIN raw : raw[i].id # <<>> =>
         order[i] \in r.added /\ raw[i].id[1] = asked[order[i]] /\ order[i] \in DOMAIN asked
  <2>1. ASSUME NEW i \in DOMAIN raw, raw[i].id # <<>>
        PROVE  order[i] \in r.added /\ raw[i].id[1] = asked[order[i]] /\ order[i] \in DOMAIN asked
    <3>1. order[i] \in DOMAIN asked
          /\ raw[i].id = (IF order[i] \in r.added THEN <<asked[order[i]]>> ELSE <<>>)
      BY <1>11, <1>12
    <3>2. order[i] \in r.added
      BY <2>1, <3>1
    <3>3. raw[i].id = <<asked[order[i]]>>
      BY <3>1, <3>2
    <3> QED BY <3>1, <3>2, <3>3
  <2> QED BY <2>1
<1>18. ASSUME NEW i \in DOMAIN raw, NEW j \in DOMAIN raw,
              raw[i].id # <<>>, raw[j].id # <<>>, raw[i].id[1] = raw[j].id[1]
       PROVE  i = j
  <2>1. asked[order[i]] = asked[order[j]] /\ order[i] \in DOMAIN asked /\ order[j] \in DOMAIN asked
    BY <1>17, <1>18
  <2>2. order[i] = order[j]
    BY <1>2, <2>1
  <2> QED BY <1>7, <1>12, <2>2 DEF IsInjective
<1>19. ASSUME \A i \in DOMAIN raw : raw[i].id # <<>> PROVE Mirrors(items, raw)
  <2>1. ASSUME NEW i \in DOMAIN raw PROVE MadeIn(items, raw[i].id[1])
    <3>1. made[i].kind = "call" /\ made[i].call = raw[i].id[1] /\ i \in DOMAIN made
      BY <1>11, <1>12, <1>17, <1>19
    <3> QED BY <1>13, <3>1 DEF MadeIn
  <2>2. ASSUME NEW c \in DOMAIN items, items[c].kind = "call"
        PROVE  \E i \in DOMAIN raw : raw[i].id[1] = items[c].call
    <3>1. PICK i \in DOMAIN made : items[c] = made[i]
      BY <1>13, <2>2
    <3>2. i \in DOMAIN raw /\ made[i].call = raw[i].id[1]
      BY <1>11, <1>12, <1>17, <1>19
    <3> QED BY <3>1, <3>2
  <2> QED BY <2>1, <2>2 DEF Mirrors
<1>20. ASSUME whole PROVE Told(raw, asked)
  <2>1. \A k \in DOMAIN asked : k \in r.added /\ r.sent[k] = Pieces
    BY <1>4, <1>20
  <2>2. \A i \in DOMAIN raw : raw[i].id # <<>> /\ raw[i].pieces = Pieces
    <3>1. ASSUME NEW i \in DOMAIN raw PROVE raw[i].id # <<>> /\ raw[i].pieces = Pieces
      <4>1. /\ order[i] \in DOMAIN asked /\ raw[i].pieces = r.sent[order[i]]
            /\ raw[i].id = (IF order[i] \in r.added THEN <<asked[order[i]]>> ELSE <<>>)
        BY <1>11, <1>12
      <4>2. raw[i].id = <<asked[order[i]]>> /\ raw[i].pieces = Pieces
        BY <2>1, <4>1
      <4> QED BY <4>2
    <3> QED BY <3>1
  <2>3. ASSUME NEW k \in DOMAIN asked PROVE \E i \in DOMAIN raw : raw[i].id[1] = asked[k]
    <3>1. k \in keys
      BY <1>4, <2>1
    <3>2. PICK i \in DOMAIN order : order[i] = k
      BY <1>7, <3>1
    <3> QED BY <1>12, <1>17, <2>2, <3>2
  <2> QED BY <2>2, <2>3 DEF Told
<1>21. \A i \in DOMAIN raw : raw[i].id # <<>> => \E k \in DOMAIN asked : raw[i].id[1] = asked[k]
  BY <1>17
<1>22. Gathered(q, asked, whole)
  BY <1>16, <1>18, <1>19, <1>20, <1>21, Zenon DEF Gathered
<1> QED BY <1>1, <1>16, <1>22

-----------------------------------------------------------------------------
(* An event of the stream.                                                 *)

\* Setting one partial call leaves the others, and all that is collected.
LEMMA PartialIsSet ==
  ASSUME NEW partials, NEW p \in Parsers(partials), NEW key, NEW entry,
         NEW q, q = SetPartial(p, key, entry)
  PROVE  /\ q \in Parsers(q.partials) /\ q.raw = p.raw /\ q.items = p.items
         /\ DOMAIN q.partials = DOMAIN partials \cup {key}
         /\ q.partials[key] = entry
         /\ \A k \in DOMAIN partials : k # key => q.partials[k] = partials[k]
<1>1. p.partials = partials
  BY DEF Parsers
<1>2. PICK next : next = [k \in DOMAIN partials \cup {key} |-> IF k = key THEN entry ELSE partials[k]]
  OBVIOUS
<1>3. q = [p EXCEPT !.partials = next]
  BY <1>1, <1>2, Zenon DEF SetPartial
<1>4. PICK text, items, raw : text = p.text /\ items = p.items /\ raw = p.raw
  OBVIOUS
<1>5. /\ p = [text |-> text, items |-> items, raw |-> raw, partials |-> partials]
      /\ text \in BOOLEAN /\ items \in Seq(StepItem) /\ raw \in Seq(RawCall)
  BY <1>4 DEF Parsers
<1>6. q = [[text |-> text, items |-> items, raw |-> raw, partials |-> partials]
             EXCEPT !.partials = next]
  BY <1>3, <1>5, Zenon
<1>7. q = [text |-> text, items |-> items, raw |-> raw, partials |-> next]
  BY <1>6
<1>8. q \in Parsers(next) /\ q.partials = next /\ q.raw = raw /\ q.items = items
  BY <1>5, <1>7 DEF Parsers
<1>9. /\ DOMAIN next = DOMAIN partials \cup {key} /\ next[key] = entry
      /\ \A k \in DOMAIN partials : k # key => next[k] = partials[k]
  BY <1>2
<1> QED BY <1>4, <1>8, <1>9, Zenon

\* A partial call that is named, and one that gets a piece.
LEMMA PartialIsNamed ==
  ASSUME NEW key, NEW call, NEW named, NEW pieces, NEW yes
  PROVE  [[call |-> key, named |-> named, pieces |-> pieces] EXCEPT !.call = call, !.named = yes]
           = [call |-> call, named |-> yes, pieces |-> pieces]
<1>1. PICK r, s : /\ r = [call |-> key, named |-> named, pieces |-> pieces]
                  /\ s = [r EXCEPT !.call = call, !.named = yes]
  OBVIOUS
<1>2. s.call = call /\ s.named = yes /\ s.pieces = pieces
  BY <1>1
<1>3. s = [field \in {"call", "named", "pieces"} |-> s[field]]
  BY <1>1
<1>4. s = [call |-> call, named |-> yes, pieces |-> pieces]
  BY <1>2, <1>3
<1> QED BY <1>1, <1>4, Zenon

\* A partial call that gets a piece of its arguments.
LEMMA PartialGrows ==
  ASSUME NEW call, NEW named, NEW pieces \in Nat
  PROVE  [[call |-> call, named |-> named, pieces |-> pieces] EXCEPT !.pieces = @ + 1]
           = [call |-> call, named |-> named, pieces |-> pieces + 1]
<1>1. PICK n : n = pieces + 1
  OBVIOUS
<1>2. [[call |-> call, named |-> named, pieces |-> pieces] EXCEPT !.pieces = n]
        = [call |-> call, named |-> named, pieces |-> n]
  OBVIOUS
<1>3. [call |-> call, named |-> named, pieces |-> pieces].pieces = pieces
  OBVIOUS
<1> QED BY <1>1, <1>2, <1>3, Zenon

\* Another reply of the same answer.
SameAnswer(s, r) == s \in ReplyRecord /\ Asks(s) /\ s.calls = r.calls /\ s.open = r.open

\* What the service may tell next changes nothing of what it asks for.
LEMMA RepliesMove ==
  ASSUME NEW r \in ReplyRecord, Asks(r)
  PROVE  /\ SameAnswer(r, r)
         /\ \A i \in DOMAIN r.calls :
              SameAnswer([r EXCEPT !.added = @ \cup {i}], r) /\ SameAnswer([r EXCEPT !.done = @ \cup {i}], r)
         /\ \A i \in DOMAIN r.calls : SameAnswer([r EXCEPT !.sent[i] = @ + 1], r)
         /\ SameAnswer([r EXCEPT !.said = TRUE], r) /\ SameAnswer([r EXCEPT !.whole = TRUE], r)
<1>1. /\ r.calls \in Seq(Calls) /\ r.text \in BOOLEAN /\ r.open \in BOOLEAN /\ r.whole \in BOOLEAN
      /\ r.added \subseteq Nat /\ r.sent \in Seq(Nat) /\ r.done \subseteq Nat /\ r.said \in BOOLEAN
      /\ r = [calls |-> r.calls, text |-> r.text, open |-> r.open, whole |-> r.whole,
              added |-> r.added, sent |-> r.sent, done |-> r.done, said |-> r.said]
  BY DEF ReplyRecord
<1>2. /\ DOMAIN r.sent = DOMAIN r.calls /\ r.added \subseteq DOMAIN r.calls
      /\ r.done \subseteq DOMAIN r.calls /\ DOMAIN r.calls \subseteq Nat /\ IsInjective(r.calls)
  BY <1>1 DEF Asks
<1>3. SameAnswer(r, r)
  BY DEF SameAnswer
<1>4. ASSUME NEW i \in DOMAIN r.calls PROVE SameAnswer([r EXCEPT !.added = @ \cup {i}], r)
  <2>1. PICK s : s = [r EXCEPT !.added = @ \cup {i}]
    OBVIOUS
  <2>2. s \in ReplyRecord
    BY <1>1, <1>2, <2>1 DEF ReplyRecord
  <2>3. /\ s.calls = r.calls /\ s.sent = r.sent /\ s.done = r.done /\ s.open = r.open
        /\ s.added = r.added \cup {i}
    BY <1>1, <2>1
  <2>4. Asks(s)
    BY <1>2, <2>3 DEF Asks
  <2> QED BY <2>1, <2>2, <2>3, <2>4 DEF SameAnswer
<1>5. ASSUME NEW i \in DOMAIN r.calls PROVE SameAnswer([r EXCEPT !.done = @ \cup {i}], r)
  <2>1. PICK s : s = [r EXCEPT !.done = @ \cup {i}]
    OBVIOUS
  <2>2. s \in ReplyRecord
    BY <1>1, <1>2, <2>1 DEF ReplyRecord
  <2>3. /\ s.calls = r.calls /\ s.sent = r.sent /\ s.added = r.added /\ s.open = r.open
        /\ s.done = r.done \cup {i}
    BY <1>1, <2>1
  <2>4. Asks(s)
    BY <1>2, <2>3 DEF Asks
  <2> QED BY <2>1, <2>2, <2>3, <2>4 DEF SameAnswer
<1>6. ASSUME NEW i \in DOMAIN r.calls PROVE SameAnswer([r EXCEPT !.sent[i] = @ + 1], r)
  <2>1. PICK s, sent : s = [r EXCEPT !.sent[i] = @ + 1] /\ sent = [r.sent EXCEPT ![i] = r.sent[i] + 1]
    OBVIOUS
  <2>2. sent \in Seq(Nat) /\ DOMAIN sent = DOMAIN r.sent
    <3>1. i \in DOMAIN r.sent /\ r.sent[i] + 1 \in Nat
      BY <1>1, <1>2
    <3> QED BY <1>1, <2>1, <3>1
  <2>3. /\ s.calls = r.calls /\ s.sent = sent /\ s.done = r.done /\ s.open = r.open
        /\ s.added = r.added
    BY <1>1, <2>1
  <2>4. s \in ReplyRecord
    BY <1>1, <2>1, <2>2 DEF ReplyRecord
  <2>5. Asks(s)
    BY <1>2, <2>2, <2>3 DEF Asks
  <2> QED BY <2>1, <2>3, <2>4, <2>5 DEF SameAnswer
<1>7. SameAnswer([r EXCEPT !.said = TRUE], r) /\ SameAnswer([r EXCEPT !.whole = TRUE], r)
  <2>1. PICK s, t : s = [r EXCEPT !.said = TRUE] /\ t = [r EXCEPT !.whole = TRUE]
    OBVIOUS
  <2>2. s \in ReplyRecord /\ t \in ReplyRecord
    BY <1>1, <2>1 DEF ReplyRecord
  <2>3. /\ s.calls = r.calls /\ s.sent = r.sent /\ s.done = r.done /\ s.open = r.open
        /\ s.added = r.added
        /\ t.calls = r.calls /\ t.sent = r.sent /\ t.done = r.done /\ t.open = r.open
        /\ t.added = r.added
    BY <1>1, <2>1
  <2>4. Asks(s) /\ Asks(t)
    BY <1>2, <2>3 DEF Asks
  <2> QED BY <2>1, <2>2, <2>3, <2>4 DEF SameAnswer
<1> QED BY <1>3, <1>4, <1>5, <1>6, <1>7

StreamsAs(p, r) == IF wire = "codex" THEN CodexStreams(p, r) ELSE ChatStreams(p, r)

\* An event of the stream touches the parser and the reply, and nothing else.
LEMMA ReceiveKeeps ==
  ASSUME ProviderInv, phase = "stream", NEW p, NEW r, Receive(p, r),
         p \in Parsers(p.partials), SameAnswer(r, reply), StreamsAs(p, r)
  PROVE  ProviderInv'
<1>1. /\ parser' = p /\ reply' = r /\ wire' = wire /\ history' = history /\ messages' = messages
      /\ phase' = phase /\ calls' = calls /\ paused' = paused /\ dropped' = dropped
  BY DEF Receive
<1>2. r \in ReplyRecord /\ Asks(r) /\ r.calls = reply.calls /\ r.open = reply.open
  BY DEF SameAnswer
<1>3. reply.open /\ \A i \in DOMAIN reply.calls : ~MadeIn(messages, reply.calls[i])
  BY DEF ProviderInv, Transcript
<1>4. ProviderTyped'
  BY <1>1, <1>2 DEF ProviderInv, ProviderTyped
<1>5. Asks(reply)'
  BY <1>1, <1>2 DEF Asks
<1>6. PromptSeeded'
  BY <1>1 DEF ProviderInv, PromptSeeded
<1>7. Transcript'
  <2>1. Transcript
    BY DEF ProviderInv
  <2> QED BY <1>1, <1>2, <1>3, <2>1 DEF Transcript, Settled
<1>8. Streams'
  <2>1. StreamsAs(parser, reply)'
    <3>1. ASSUME wire = "codex" PROVE CodexStreams(parser', reply')
      BY <1>1, <3>1 DEF StreamsAs
    <3>2. ASSUME wire # "codex" PROVE ChatStreams(parser', reply')
      BY <1>1, <3>2 DEF StreamsAs
    <3> QED BY <1>1, <3>1, <3>2 DEF StreamsAs, CodexStreams, ChatStreams
  <2> QED BY <2>1 DEF Streams, StreamsAs
<1>9. StreamTellsTheStep'
  BY <1>1, <1>2, <1>3 DEF StreamTellsTheStep
<1> QED BY <1>4, <1>5, <1>6, <1>7, <1>8, <1>9 DEF ProviderInv

\* What the events of the stream find.
LEMMA StreamIsFound ==
  ASSUME ProviderInv, Streaming
  PROVE  /\ phase = "stream" /\ reply \in ReplyRecord /\ Asks(reply)
         /\ parser \in Parsers(parser.partials) /\ StreamsAs(parser, reply)
         /\ wire \in {"codex", "chat"}
BY DEF ProviderInv, ProviderTyped, Streaming, Streams, StreamsAs

\* Text that comes, in a parser or among its items, is no call.
LEMMA TextCollects ==
  ASSUME NEW partials, NEW p \in Parsers(partials), NEW asked, NEW whole, Collects(p, asked, whole),
         NEW q \in Parsers(partials), q.raw = p.raw,
         q.items = p.items \/ q.items = Append(p.items, TextItem)
  PROVE  Collects(q, asked, whole)
<1>1. PICK text, items, raw : text = TextItem /\ items = p.items /\ raw = p.raw
  OBVIOUS
<1>2. text.kind # "call" /\ items \in Seq(StepItem) /\ text \in StepItem
  BY <1>1 DEF TextItem, StepItem, Parsers
<1>3. ASSUME NEW longer, longer = Append(items, text) PROVE Mirrors(longer, raw)
  <2>1. /\ \A c \in DOMAIN items : c \in DOMAIN longer /\ longer[c] = items[c]
        /\ \A c \in DOMAIN longer : longer[c].kind = "call" => c \in DOMAIN items
    BY <1>2, <1>3
  <2>2. Mirrors(items, raw)
    BY <1>1 DEF Collects
  <2>3. \A i \in DOMAIN raw : MadeIn(longer, raw[i].id[1])
    BY <2>1, <2>2 DEF Mirrors, MadeIn
  <2>4. \A c \in DOMAIN longer : longer[c].kind = "call" =>
          \E i \in DOMAIN raw : raw[i].id[1] = longer[c].call
    BY <2>1, <2>2 DEF Mirrors
  <2> QED BY <2>3, <2>4 DEF Mirrors
<1>4. Mirrors(q.items, q.raw)
  BY <1>1, <1>3 DEF Collects
<1> QED BY <1>4 DEF Collects

\* A parser that has been told of text, and one with the text among its items.
LEMMA TextIsTyped ==
  ASSUME NEW partials, NEW p \in Parsers(partials)
  PROVE  /\ [p EXCEPT !.text = TRUE] \in Parsers(partials)
         /\ [p EXCEPT !.text = TRUE].raw = p.raw /\ [p EXCEPT !.text = TRUE].items = p.items
         /\ MessageDone(p) \in Parsers(partials) /\ MessageListed(p) \in Parsers(partials)
         /\ MessageDone(p).raw = p.raw /\ MessageListed(p).raw = p.raw
         /\ MessageDone(p).items = Append(p.items, TextItem)
         /\ MessageListed(p).items \in {p.items, Append(p.items, TextItem)}
<1>1. PICK text, items, raw : text = p.text /\ items = p.items /\ raw = p.raw
  OBVIOUS
<1>2. /\ p = [text |-> text, items |-> items, raw |-> raw, partials |-> partials]
      /\ items \in Seq(StepItem) /\ raw \in Seq(RawCall)
  BY <1>1 DEF Parsers
<1>3. PICK longer : longer = Append(items, TextItem)
  OBVIOUS
<1>4. longer \in Seq(StepItem)
  BY <1>2, <1>3 DEF StepItem
<1>5. PICK listed : listed = (IF TextItem \in ToSet(items) THEN items ELSE longer)
  OBVIOUS
<1>6. listed \in {items, longer} /\ listed \in Seq(StepItem)
  BY <1>2, <1>4, <1>5
<1>7. /\ [p EXCEPT !.text = TRUE] = [text |-> TRUE, items |-> items, raw |-> raw, partials |-> partials]
      /\ MessageDone(p) = [text |-> TRUE, items |-> longer, raw |-> raw, partials |-> partials]
      /\ MessageListed(p) = [text |-> TRUE, items |-> listed, raw |-> raw, partials |-> partials]
  <2>1. [p EXCEPT !.text = TRUE] = [text |-> TRUE, items |-> items, raw |-> raw, partials |-> partials]
    <3>1. PICK yes : yes = TRUE
      OBVIOUS
    <3>2. [p EXCEPT !.text = TRUE] =
            [[text |-> text, items |-> items, raw |-> raw, partials |-> partials] EXCEPT !.text = yes]
      BY <1>2, <3>1, Zenon
    <3>3. [p EXCEPT !.text = TRUE] =
            [text |-> yes, items |-> items, raw |-> raw, partials |-> partials]
      BY <3>2
    <3> QED BY <3>1, <3>3, Zenon
  <2>2. MessageDone(p) = [p EXCEPT !.text = TRUE, !.items = longer]
    BY <1>1, <1>3, Zenon DEF MessageDone
  <2>3. MessageListed(p) = [p EXCEPT !.text = TRUE, !.items = listed]
    BY <1>1, <1>3, <1>5, Zenon DEF MessageListed
  <2> QED BY <1>2, <2>1, <2>2, <2>3
<1>8. ASSUME NEW new \in Seq(StepItem)
      PROVE  [text |-> TRUE, items |-> new, raw |-> raw, partials |-> partials] \in Parsers(partials)
  BY <1>2 DEF Parsers
<1>9. PICK q1, q2, q3 : q1 = [p EXCEPT !.text = TRUE] /\ q2 = MessageDone(p) /\ q3 = MessageListed(p)
  OBVIOUS
<1>10. /\ q1 \in Parsers(partials) /\ q1.raw = raw /\ q1.items = items
       /\ q2 \in Parsers(partials) /\ q2.raw = raw /\ q2.items = longer
       /\ q3 \in Parsers(partials) /\ q3.raw = raw /\ q3.items = listed
  BY <1>2, <1>4, <1>6, <1>7, <1>8, <1>9
<1> QED BY <1>1, <1>3, <1>6, <1>9, <1>10, Zenon

\* Text, its item and the news of it change nothing a stream tells of calls.
LEMMA TextStreams ==
  ASSUME NEW partials, NEW p \in Parsers(partials), NEW r, CodexStreams(p, r),
         NEW q \in Parsers(partials), q.raw = p.raw,
         q.items = p.items \/ q.items = Append(p.items, TextItem),
         NEW s, s.calls = r.calls, s.done = r.done, s.added = r.added, s.sent = r.sent,
         s.whole = r.whole
  PROVE  CodexStreams(q, s)
<1>1. p.partials = partials /\ q.partials = partials
  BY DEF Parsers
<1>2. PICK w : w = TRUE
  OBVIOUS
<1>3. Collects(p, r.calls, w)
  BY <1>2 DEF CodexStreams, Collects
<1>4. PICK asked : asked = r.calls
  OBVIOUS
<1>5. Collects(q, asked, w)
  BY <1>3, <1>4, TextCollects
<1>6. Collects(q, r.calls, TRUE)
  BY <1>2, <1>4, <1>5 DEF Collects
<1>7. CodexTells(p.raw, p.partials, r.calls, r.added, r.sent, r.done, r.whole)
  BY DEF CodexStreams
<1>8. CodexTells(q.raw, q.partials, s.calls, s.added, s.sent, s.done, s.whole)
  BY <1>1, <1>7
<1>9. Collects(q, s.calls, TRUE)
  BY <1>6
<1> QED BY <1>8, <1>9 DEF CodexStreams

\* Some of a reply is left by what is told next.
LEMMA ReplyIsLeft ==
  ASSUME NEW r \in ReplyRecord
  PROVE  /\ \A i : LET s == [r EXCEPT !.added = @ \cup {i}]
                   IN /\ s.done = r.done /\ s.sent = r.sent /\ s.whole = r.whole
                      /\ s.added = r.added \cup {i}
         /\ \A i : LET s == [r EXCEPT !.done = @ \cup {i}]
                   IN /\ s.added = r.added /\ s.sent = r.sent /\ s.whole = r.whole
                      /\ s.done = r.done \cup {i}
         /\ LET s == [r EXCEPT !.said = TRUE]
            IN /\ s.added = r.added /\ s.sent = r.sent /\ s.whole = r.whole /\ s.done = r.done
         /\ LET s == [r EXCEPT !.whole = TRUE]
            IN /\ s.added = r.added /\ s.sent = r.sent /\ s.done = r.done /\ s.whole = TRUE
         /\ \A i \in DOMAIN r.sent : LET s == [r EXCEPT !.sent[i] = @ + 1]
                   IN /\ s.added = r.added /\ s.done = r.done /\ s.whole = r.whole
                      /\ s.sent = [r.sent EXCEPT ![i] = r.sent[i] + 1]
BY DEF ReplyRecord

\* A piece of text is noted, and no call comes of it.
LEMMA TextArrivesKeeps ==
  ASSUME ProviderInv, TextArrives
  PROVE  ProviderInv'
<1>1. Streaming /\ Receive([parser EXCEPT !.text = TRUE], reply)
  BY DEF TextArrives
<1>2. PICK p, q, partials : p = parser /\ q = [parser EXCEPT !.text = TRUE] /\ partials = parser.partials
  OBVIOUS
<1>3. /\ phase = "stream" /\ reply \in ReplyRecord /\ Asks(reply)
      /\ p \in Parsers(partials) /\ StreamsAs(p, reply)
  BY <1>1, <1>2, StreamIsFound
<1>4. q \in Parsers(partials) /\ q.raw = p.raw /\ q.items = p.items
  BY <1>2, <1>3, TextIsTyped
<1>5. q.partials = partials /\ p.partials = partials
  BY <1>2, <1>4 DEF Parsers
<1>6. StreamsAs(q, reply)
  <2>1. CASE wire = "codex"
    BY <1>3, <1>4, <2>1, TextStreams DEF StreamsAs
  <2>2. CASE wire # "codex"
    BY <1>3, <1>5, <2>2 DEF StreamsAs, ChatStreams
  <2> QED BY <2>1, <2>2
<1>7. SameAnswer(reply, reply)
  BY <1>3, RepliesMove
<1>8. Receive(q, reply) /\ q \in Parsers(q.partials)
  BY <1>1, <1>2, <1>4, <1>5
<1> QED BY <1>3, <1>6, <1>7, <1>8, ReceiveKeeps

\* A message that is done is an item, and no call.
LEMMA CodexMessageDoneKeeps ==
  ASSUME ProviderInv, CodexMessageDone
  PROVE  ProviderInv'
<1>1. Streaming /\ wire = "codex" /\ Receive(MessageDone(parser), [reply EXCEPT !.said = TRUE])
  BY DEF CodexMessageDone
<1>2. PICK p, q, partials, s :
        /\ p = parser /\ q = MessageDone(p) /\ partials = parser.partials
        /\ s = [reply EXCEPT !.said = TRUE]
  OBVIOUS
<1>3. /\ phase = "stream" /\ reply \in ReplyRecord /\ Asks(reply)
      /\ p \in Parsers(partials) /\ CodexStreams(p, reply)
  BY <1>1, <1>2, StreamIsFound DEF StreamsAs
<1>4. /\ q \in Parsers(partials) /\ q.raw = p.raw /\ q.items = Append(p.items, TextItem)
  BY <1>2, <1>3, TextIsTyped
<1>5. q.partials = partials
  BY <1>4 DEF Parsers
<1>6. SameAnswer(s, reply)
  BY <1>2, <1>3, RepliesMove
<1>7. /\ s.calls = reply.calls /\ s.done = reply.done /\ s.added = reply.added
      /\ s.sent = reply.sent /\ s.whole = reply.whole
  BY <1>2, <1>3, <1>6, ReplyIsLeft DEF SameAnswer
<1>8. CodexStreams(q, s)
  BY <1>3, <1>4, <1>7, TextStreams
<1>9. StreamsAs(q, s) /\ Receive(q, s) /\ q \in Parsers(q.partials)
  BY <1>1, <1>2, <1>4, <1>5, <1>8 DEF StreamsAs
<1> QED BY <1>3, <1>6, <1>9, ReceiveKeeps

\* A call that is announced is a partial call under the id of its item, its own.
LEMMA CodexItemAddedKeeps ==
  ASSUME ItemsAreTold, ProviderInv, NEW i \in DOMAIN reply.calls, CodexItemAdded(i)
  PROVE  ProviderInv'
<1>1. /\ Streaming /\ wire = "codex" /\ i \notin reply.added
      /\ Receive(ItemAdded(parser, reply.calls[i]), [reply EXCEPT !.added = @ \cup {i}])
  BY DEF CodexItemAdded
<1>2. PICK p, partials, asked, added, sent, call :
        /\ p = parser /\ partials = parser.partials
        /\ asked = reply.calls /\ added = reply.added /\ sent = reply.sent /\ call = asked[i]
  OBVIOUS
<1>3. PICK q, s : q = ItemAdded(p, call) /\ s = [reply EXCEPT !.added = @ \cup {i}]
  OBVIOUS
<1>4. /\ phase = "stream" /\ reply \in ReplyRecord /\ Asks(reply)
      /\ p \in Parsers(partials) /\ CodexStreams(p, reply)
  BY <1>1, <1>2, StreamIsFound DEF StreamsAs
<1>5. p.partials = partials
  BY <1>2
<1>6. /\ \A k \in DOMAIN asked : asked[k] \in Calls
      /\ \A j, k \in DOMAIN asked : asked[j] = asked[k] => j = k
      /\ added \subseteq DOMAIN asked
  BY <1>2, <1>4, ReplyIsTyped
<1>7. Collects(p, asked, TRUE) /\ CodexTells(p.raw, partials, asked, added, sent, reply.done, reply.whole)
  BY <1>2, <1>4, <1>5 DEF CodexStreams
<1>8. PICK key : key = ItemOf[call]
  OBVIOUS
<1>9. /\ \A a, b \in Calls : ItemOf[a] = ItemOf[b] => a = b
      /\ Key(call) = key
  <2>1. call \in Calls
    BY <1>2, <1>6
  <2> QED BY <1>8, <2>1, IdsAreNat DEF ItemsAreTold, IsInjective, Key
<1>10. /\ DOMAIN partials = {ItemOf[asked[k]] : k \in added}
       /\ \A k \in added :
            partials[ItemOf[asked[k]]] = [call |-> asked[k], named |-> TRUE, pieces |-> sent[k]]
       /\ \A k \in DOMAIN asked : k \notin added => sent[k] = 0
  BY <1>7 DEF CodexTells
<1>11. \A k \in added : ItemOf[asked[k]] # key /\ k # i
  BY <1>1, <1>2, <1>6, <1>8, <1>9
<1>12. PICK entry : entry = [PartialOf(p, key) EXCEPT !.call = call, !.named = TRUE]
  OBVIOUS
<1>13. entry = [call |-> call, named |-> TRUE, pieces |-> sent[i]]
  <2>1. key \notin DOMAIN partials
    BY <1>10, <1>11
  <2>2. PartialOf(p, key) = [call |-> key, named |-> FALSE, pieces |-> 0]
    BY <1>5, <2>1 DEF PartialOf, NewPartial
  <2>3. sent[i] = 0
    BY <1>1, <1>2, <1>10
  <2>5. PICK yes : yes = TRUE
    OBVIOUS
  <2>4. entry = [[call |-> key, named |-> FALSE, pieces |-> 0] EXCEPT !.call = call, !.named = yes]
    BY <1>12, <2>2, <2>5, Zenon
  <2> QED BY <2>3, <2>4, <2>5, PartialIsNamed, Zenon
<1>14. q = SetPartial(p, key, entry)
  BY <1>3, <1>9, <1>12, Zenon DEF ItemAdded
<1>15. /\ q \in Parsers(q.partials) /\ q.raw = p.raw /\ q.items = p.items
       /\ DOMAIN q.partials = DOMAIN partials \cup {key}
       /\ q.partials[key] = entry
       /\ \A k \in DOMAIN partials : k # key => q.partials[k] = partials[k]
  BY <1>4, <1>14, PartialIsSet
<1>16. SameAnswer(s, reply)
  BY <1>2, <1>3, <1>4, RepliesMove
<1>17. /\ s.calls = asked /\ s.added = added \cup {i} /\ s.sent = sent
       /\ s.done = reply.done /\ s.whole = reply.whole
  BY <1>2, <1>3, <1>4, <1>16, ReplyIsLeft DEF SameAnswer
<1>18. CodexTells(q.raw, q.partials, asked, added \cup {i}, sent, reply.done, reply.whole)
  <2>1. DOMAIN q.partials = {ItemOf[asked[k]] : k \in added \cup {i}}
    BY <1>2, <1>8, <1>10, <1>15
  <2>2. ASSUME NEW k \in added \cup {i}
        PROVE  q.partials[ItemOf[asked[k]]] = [call |-> asked[k], named |-> TRUE, pieces |-> sent[k]]
    <3>1. CASE k = i
      BY <1>2, <1>8, <1>13, <1>15, <3>1
    <3>2. CASE k \in added
      <4>1. ItemOf[asked[k]] \in DOMAIN partials
        BY <1>10, <3>2
      <4>2. q.partials[ItemOf[asked[k]]] = partials[ItemOf[asked[k]]]
        BY <1>11, <1>15, <3>2, <4>1
      <4> QED BY <1>10, <3>2, <4>2
    <3> QED BY <3>1, <3>2
  <2> QED BY <1>7, <1>15, <2>1, <2>2 DEF CodexTells
<1>19. Collects(q, asked, TRUE)
  BY <1>7, <1>15 DEF Collects
<1>20. CodexStreams(q, s)
  BY <1>17, <1>18, <1>19 DEF CodexStreams
<1>21. StreamsAs(q, s) /\ Receive(q, s)
  BY <1>1, <1>2, <1>3, <1>20 DEF StreamsAs
<1> QED BY <1>4, <1>15, <1>16, <1>21, ReceiveKeeps

\* A piece of arguments goes to the call of its item, and to no other.
LEMMA CodexArgumentsKeeps ==
  ASSUME ItemsAreTold, ProviderInv, NEW i \in DOMAIN reply.calls, CodexArguments(i)
  PROVE  ProviderInv'
<1>1. /\ Streaming /\ wire = "codex" /\ i \in reply.added /\ reply.sent[i] < Pieces
      /\ Receive(ArgumentsDelta(parser, reply.calls[i]), [reply EXCEPT !.sent[i] = @ + 1])
  BY DEF CodexArguments
<1>2. PICK p, partials, asked, added, sent, call :
        /\ p = parser /\ partials = parser.partials
        /\ asked = reply.calls /\ added = reply.added /\ sent = reply.sent /\ call = asked[i]
  OBVIOUS
<1>3. PICK q, s : q = ArgumentsDelta(p, call) /\ s = [reply EXCEPT !.sent[i] = @ + 1]
  OBVIOUS
<1>4. /\ phase = "stream" /\ reply \in ReplyRecord /\ Asks(reply)
      /\ p \in Parsers(partials) /\ CodexStreams(p, reply)
  BY <1>1, <1>2, StreamIsFound DEF StreamsAs
<1>5. p.partials = partials
  BY <1>2
<1>6. /\ \A k \in DOMAIN asked : asked[k] \in Calls /\ sent[k] \in Nat
      /\ \A j, k \in DOMAIN asked : asked[j] = asked[k] => j = k
      /\ added \subseteq DOMAIN asked /\ DOMAIN sent = DOMAIN asked
  BY <1>2, <1>4, ReplyIsTyped DEF Asks
<1>7. Collects(p, asked, TRUE) /\ CodexTells(p.raw, partials, asked, added, sent, reply.done, reply.whole)
  BY <1>2, <1>4, <1>5 DEF CodexStreams
<1>8. PICK key : key = ItemOf[call]
  OBVIOUS
<1>9. /\ \A a, b \in Calls : ItemOf[a] = ItemOf[b] => a = b
      /\ Key(call) = key
  <2>1. call \in Calls
    BY <1>2, <1>6
  <2> QED BY <1>8, <2>1, IdsAreNat DEF ItemsAreTold, IsInjective, Key
<1>10. /\ DOMAIN partials = {ItemOf[asked[k]] : k \in added}
       /\ \A k \in added :
            partials[ItemOf[asked[k]]] = [call |-> asked[k], named |-> TRUE, pieces |-> sent[k]]
       /\ \A k \in DOMAIN asked : k \notin added => sent[k] = 0
       /\ reply.whole = FALSE
  BY <1>1, <1>4, <1>7 DEF CodexTells, Streaming, ReplyRecord
<1>11. \A k \in added : k # i => ItemOf[asked[k]] # key
  BY <1>1, <1>2, <1>6, <1>8, <1>9
<1>12. PICK entry, n : entry = [PartialOf(p, key) EXCEPT !.pieces = @ + 1] /\ n = sent[i] + 1
  OBVIOUS
<1>13. key \in DOMAIN partials /\ entry = [call |-> call, named |-> TRUE, pieces |-> n]
  <2>1. key \in DOMAIN partials /\ PartialOf(p, key) = [call |-> call, named |-> TRUE, pieces |-> sent[i]]
    BY <1>1, <1>2, <1>5, <1>8, <1>10 DEF PartialOf
  <2>2. entry = [[call |-> call, named |-> TRUE, pieces |-> sent[i]] EXCEPT !.pieces = @ + 1]
    BY <1>12, <2>1, Zenon
  <2>3. sent[i] \in Nat
    BY <1>2, <1>6
  <2> QED BY <1>12, <2>1, <2>2, <2>3, PartialGrows, Zenon
<1>14. q = SetPartial(p, key, entry)
  BY <1>3, <1>9, <1>12, Zenon DEF ArgumentsDelta
<1>15. /\ q \in Parsers(q.partials) /\ q.raw = p.raw /\ q.items = p.items
       /\ DOMAIN q.partials = DOMAIN partials \cup {key}
       /\ q.partials[key] = entry
       /\ \A k \in DOMAIN partials : k # key => q.partials[k] = partials[k]
  BY <1>4, <1>14, PartialIsSet
<1>16. SameAnswer(s, reply)
  BY <1>2, <1>3, <1>4, RepliesMove
<1>17. PICK new : new = [sent EXCEPT ![i] = n]
  OBVIOUS
<1>18. /\ s.calls = asked /\ s.added = added /\ s.sent = new
       /\ s.done = reply.done /\ s.whole = reply.whole
  BY <1>2, <1>3, <1>4, <1>6, <1>12, <1>16, <1>17, ReplyIsLeft DEF SameAnswer
<1>19. /\ new[i] = n /\ \A k \in DOMAIN asked : k # i => new[k] = sent[k]
  BY <1>2, <1>6, <1>17
<1>20. CodexTells(q.raw, q.partials, asked, added, new, reply.done, reply.whole)
  <2>1. DOMAIN q.partials = {ItemOf[asked[k]] : k \in added}
    BY <1>10, <1>13, <1>15
  <2>2. ASSUME NEW k \in added
        PROVE  q.partials[ItemOf[asked[k]]] = [call |-> asked[k], named |-> TRUE, pieces |-> new[k]]
    <3>1. CASE k = i
      BY <1>2, <1>8, <1>13, <1>15, <1>19, <3>1
    <3>2. CASE k # i
      <4>1. ItemOf[asked[k]] \in DOMAIN partials
        BY <1>10
      <4>2. q.partials[ItemOf[asked[k]]] = partials[ItemOf[asked[k]]] /\ new[k] = sent[k]
        BY <1>6, <1>11, <1>15, <1>19, <3>2, <4>1
      <4> QED BY <1>10, <4>2
    <3> QED BY <3>1, <3>2
  <2>3. \A k \in DOMAIN asked : k \notin added => new[k] = 0
    BY <1>1, <1>2, <1>10, <1>19
  <2>4. \A k \in reply.done : CodexId(asked[k]) \in IdsOf(q.raw)
    BY <1>7, <1>15 DEF CodexTells
  <2> QED BY <1>10, <2>1, <2>2, <2>3, <2>4 DEF CodexTells
<1>21. Collects(q, asked, TRUE)
  BY <1>7, <1>15 DEF Collects
<1>22. CodexStreams(q, s)
  BY <1>18, <1>20, <1>21 DEF CodexStreams
<1>23. StreamsAs(q, s) /\ Receive(q, s)
  BY <1>1, <1>2, <1>3, <1>22 DEF StreamsAs
<1> QED BY <1>4, <1>15, <1>16, <1>23, ReceiveKeeps

\* A call that is reported whole is collected once, however often.
LEMMA CodexItemDoneKeeps ==
  ASSUME ProviderInv, NEW i \in DOMAIN reply.calls, CodexItemDone(i)
  PROVE  ProviderInv'
<1>1. /\ Streaming /\ wire = "codex"
      /\ Receive(ItemDone(parser, reply.calls[i]), [reply EXCEPT !.done = @ \cup {i}])
  BY DEF CodexItemDone
<1>2. PICK p, partials, asked, call, n, whole :
        /\ p = parser /\ partials = parser.partials
        /\ asked = reply.calls /\ call = asked[i] /\ n = Pieces /\ whole = TRUE
  OBVIOUS
<1>3. PICK q, s : q = ItemDone(p, call) /\ s = [reply EXCEPT !.done = @ \cup {i}]
  OBVIOUS
<1>4. /\ phase = "stream" /\ reply \in ReplyRecord /\ Asks(reply)
      /\ p \in Parsers(partials) /\ CodexStreams(p, reply)
  BY <1>1, <1>2, StreamIsFound DEF StreamsAs
<1>5. asked \in Seq(Calls) /\ call \in ToSet(asked) /\ n \in Nat
  BY <1>2, <1>4, ReplyIsTyped, BoundsAreNat DEF ToSet
<1>6. /\ Collects(p, asked, whole)
      /\ CodexTells(p.raw, partials, asked, reply.added, reply.sent, reply.done, reply.whole)
  BY <1>2, <1>4 DEF CodexStreams
<1>7. PICK id, item : id = CodexId(call) /\ item = CallItem(call, ItemOf[call], n)
  OBVIOUS
<1>8. q = PushCodexFunctionCall(p, item) /\ ComesWhole(p.raw, id, n, whole)
  BY <1>2, <1>3, <1>7, Zenon DEF ItemDone, ComesWhole
<1>9. /\ q \in Parsers(partials) /\ Collects(q, asked, whole)
      /\ IdsOf(q.raw) = IdsOf(p.raw) \cup {id}
  BY <1>4, <1>5, <1>6, <1>7, <1>8, PushCollects
<1>10. q.partials = partials
  BY <1>9 DEF Parsers
<1>11. SameAnswer(s, reply)
  BY <1>2, <1>3, <1>4, RepliesMove
<1>12. /\ s.calls = asked /\ s.done = reply.done \cup {i} /\ s.sent = reply.sent
       /\ s.added = reply.added /\ s.whole = reply.whole
  BY <1>2, <1>3, <1>4, <1>11, ReplyIsLeft DEF SameAnswer
<1>13. CodexTells(q.raw, partials, asked, reply.added, reply.sent, reply.done \cup {i}, reply.whole)
  BY <1>2, <1>6, <1>7, <1>9 DEF CodexTells
<1>14. Collects(q, asked, TRUE)
  BY <1>2, <1>9 DEF Collects
<1>15. CodexStreams(q, s)
  BY <1>10, <1>12, <1>13, <1>14 DEF CodexStreams
<1>16. StreamsAs(q, s) /\ Receive(q, s) /\ q \in Parsers(q.partials)
  BY <1>1, <1>2, <1>3, <1>9, <1>10, <1>15 DEF StreamsAs
<1> QED BY <1>4, <1>11, <1>16, ReceiveKeeps

\* The final event lists the calls, or each is reported or in pieces by then.
LEMMA CodexCompletedKeeps ==
  ASSUME ProviderInv, NEW lists \in BOOLEAN, CodexCompleted(lists)
  PROVE  ProviderInv'
<1>1. /\ Streaming /\ wire = "codex"
      /\ lists \/ \A i \in DOMAIN reply.calls :
                    i \in reply.done \/ (i \in reply.added /\ reply.sent[i] = Pieces)
      /\ Receive(IF lists THEN Completed(parser, reply.calls, reply.text) ELSE parser,
                 [reply EXCEPT !.whole = TRUE])
  BY DEF CodexCompleted
<1>2. PICK p, partials, asked, whole :
        /\ p = parser /\ partials = parser.partials /\ asked = reply.calls /\ whole = TRUE
  OBVIOUS
<1>3. PICK q, s : /\ q = (IF lists THEN Completed(p, asked, reply.text) ELSE p)
                  /\ s = [reply EXCEPT !.whole = TRUE]
  OBVIOUS
<1>4. /\ phase = "stream" /\ reply \in ReplyRecord /\ Asks(reply)
      /\ p \in Parsers(partials) /\ CodexStreams(p, reply)
  BY <1>1, <1>2, StreamIsFound DEF StreamsAs
<1>5. asked \in Seq(Calls) /\ reply.done \subseteq DOMAIN asked
  BY <1>2, <1>4, ReplyIsTyped
<1>6. /\ Collects(p, asked, whole)
      /\ CodexTells(p.raw, partials, asked, reply.added, reply.sent, reply.done, reply.whole)
  BY <1>2, <1>4 DEF CodexStreams
<1>7. PICK base : base = (IF reply.text THEN MessageListed(p) ELSE p)
  OBVIOUS
<1>8. base \in Parsers(partials) /\ base.raw = p.raw /\ Collects(base, asked, whole)
  <2>1. CASE reply.text
    <3>1. /\ base \in Parsers(partials) /\ base.raw = p.raw
          /\ base.items = p.items \/ base.items = Append(p.items, TextItem)
      BY <1>4, <1>7, <2>1, TextIsTyped
    <3> QED BY <1>4, <1>6, <3>1, TextCollects
  <2>2. CASE ~reply.text
    BY <1>4, <1>6, <1>7, <2>2
  <2> QED BY <2>1, <2>2
<1>9. /\ q \in Parsers(partials) /\ Collects(q, asked, whole)
      /\ IdsOf(p.raw) \subseteq IdsOf(q.raw)
      /\ lists => \A k \in DOMAIN asked : CodexId(asked[k]) \in IdsOf(q.raw)
  <2>1. CASE lists
    <3>1. q = FoldLeft(ItemDone, base, asked)
      BY <1>3, <1>7, <2>1, Zenon DEF Completed
    <3>2. /\ q \in Parsers(partials) /\ Collects(q, asked, whole)
          /\ IdsOf(q.raw) = IdsOf(base.raw) \cup {CodexId(asked[k]) : k \in DOMAIN asked}
      BY <1>5, <1>8, <3>1, ListCollects
    <3> QED BY <1>8, <3>2
  <2>2. CASE ~lists
    BY <1>3, <1>4, <1>6, <2>2
  <2> QED BY <2>1, <2>2
<1>10. q.partials = partials
  BY <1>9 DEF Parsers
<1>11. SameAnswer(s, reply)
  BY <1>3, <1>4, RepliesMove
<1>12. /\ s.calls = asked /\ s.done = reply.done /\ s.sent = reply.sent
       /\ s.added = reply.added /\ s.whole = whole
  BY <1>2, <1>3, <1>4, <1>11, ReplyIsLeft DEF SameAnswer
<1>13. CodexTells(q.raw, partials, asked, reply.added, reply.sent, reply.done, whole)
  <2>1. \A k \in reply.done : CodexId(asked[k]) \in IdsOf(q.raw)
    BY <1>6, <1>9 DEF CodexTells
  <2>2. \A k \in DOMAIN asked :
          CodexId(asked[k]) \in IdsOf(q.raw) \/ (k \in reply.added /\ reply.sent[k] = Pieces)
    BY <1>1, <1>2, <1>9, <2>1
  <2> QED BY <1>6, <2>1, <2>2 DEF CodexTells
<1>14. Collects(q, asked, TRUE)
  BY <1>2, <1>9 DEF Collects
<1>15. CodexStreams(q, s)
  BY <1>10, <1>12, <1>13, <1>14 DEF CodexStreams
<1>16. StreamsAs(q, s) /\ Receive(q, s) /\ q \in Parsers(q.partials)
  BY <1>1, <1>2, <1>3, <1>9, <1>10, <1>15 DEF StreamsAs
<1> QED BY <1>4, <1>11, <1>16, ReceiveKeeps

\* A partial call of a chat answer, as it is found.
LEMMA ChatPartialIs ==
  ASSUME NEW r \in ReplyRecord, Asks(r), NEW partials, NEW p \in Parsers(partials),
         ChatStreams(p, r), NEW i \in DOMAIN r.calls
  PROVE  PartialOf(p, i) = ChatEntry(r.calls, r.added, r.sent, i)
<1>1. p.partials = partials
  BY DEF Parsers
<1>2. ChatTells(partials, r.calls, r.added, r.sent, r.whole)
  BY <1>1 DEF ChatStreams
<1>3. CASE i \in DOMAIN partials
  BY <1>1, <1>2, <1>3, Zenon DEF PartialOf, ChatTells
<1>4. CASE i \notin DOMAIN partials
  <2>1. i \notin r.added /\ r.sent[i] = 0
    BY <1>2, <1>4 DEF ChatTells
  <2>2. PartialOf(p, i) = [call |-> i, named |-> FALSE, pieces |-> 0]
    BY <1>1, <1>4 DEF PartialOf, NewPartial
  <2> QED BY <2>1, <2>2, Zenon DEF ChatEntry
<1> QED BY <1>3, <1>4

\* The head of a call names the partial call of its number.
LEMMA ChatCallHeadKeeps ==
  ASSUME ProviderInv, NEW i \in DOMAIN reply.calls, ChatCallHead(i)
  PROVE  ProviderInv'
<1>1. /\ Streaming /\ wire = "chat" /\ i \notin reply.added
      /\ Receive(ChatHead(parser, i), [reply EXCEPT !.added = @ \cup {i}])
  BY DEF ChatCallHead
<1>2. PICK p, partials, asked, added, sent, call :
        /\ p = parser /\ partials = parser.partials
        /\ asked = reply.calls /\ added = reply.added /\ sent = reply.sent /\ call = asked[i]
  OBVIOUS
<1>3. PICK q, s : q = ChatHead(p, i) /\ s = [reply EXCEPT !.added = @ \cup {i}]
  OBVIOUS
<1>4. /\ phase = "stream" /\ reply \in ReplyRecord /\ Asks(reply)
      /\ p \in Parsers(partials) /\ ChatStreams(p, reply)
  BY <1>1, <1>2, StreamIsFound DEF StreamsAs
<1>5. p.partials = partials
  BY <1>2
<1>6. PartialOf(p, i) = [call |-> i, named |-> FALSE, pieces |-> sent[i]]
  BY <1>1, <1>2, <1>4, ChatPartialIs, Zenon DEF ChatEntry
<1>7. ChatTells(partials, asked, added, sent, reply.whole)
  BY <1>2, <1>4, <1>5 DEF ChatStreams
<1>8. PICK entry : entry = [PartialOf(p, i) EXCEPT !.call = call, !.named = TRUE]
  OBVIOUS
<1>9. entry = [call |-> call, named |-> TRUE, pieces |-> sent[i]]
  <2>1. PICK yes : yes = TRUE
    OBVIOUS
  <2>2. entry = [[call |-> i, named |-> FALSE, pieces |-> sent[i]] EXCEPT !.call = call, !.named = yes]
    BY <1>6, <1>8, <2>1, Zenon
  <2> QED BY <2>1, <2>2, PartialIsNamed, Zenon
<1>10. q = SetPartial(p, i, entry)
  BY <1>2, <1>3, <1>8, Zenon DEF ChatHead
<1>11. /\ q \in Parsers(q.partials)
       /\ DOMAIN q.partials = DOMAIN partials \cup {i}
       /\ q.partials[i] = entry
       /\ \A k \in DOMAIN partials : k # i => q.partials[k] = partials[k]
  BY <1>4, <1>10, PartialIsSet
<1>12. SameAnswer(s, reply)
  BY <1>2, <1>3, <1>4, RepliesMove
<1>13. /\ s.calls = asked /\ s.added = added \cup {i} /\ s.sent = sent /\ s.whole = reply.whole
  BY <1>2, <1>3, <1>4, <1>12, ReplyIsLeft DEF SameAnswer
<1>14. ChatTells(q.partials, asked, added \cup {i}, sent, reply.whole)
  <2>1. DOMAIN q.partials = {k \in DOMAIN asked : k \in added \cup {i} \/ sent[k] # 0}
    BY <1>2, <1>7, <1>11 DEF ChatTells
  <2>2. ASSUME NEW k \in DOMAIN q.partials PROVE q.partials[k] = ChatEntry(asked, added \cup {i}, sent, k)
    <3>1. CASE k = i
      BY <1>2, <1>9, <1>11, <3>1 DEF ChatEntry
    <3>2. CASE k # i
      <4>1. q.partials[k] = ChatEntry(asked, added, sent, k)
        BY <1>7, <1>11, <3>2 DEF ChatTells
      <4> QED BY <3>2, <4>1 DEF ChatEntry
    <3> QED BY <3>1, <3>2
  <2>3. reply.whole = FALSE
    BY <1>1, <1>4 DEF Streaming, ReplyRecord
  <2> QED BY <2>1, <2>2, <2>3 DEF ChatTells
<1>15. StreamsAs(q, s) /\ Receive(q, s)
  BY <1>1, <1>2, <1>3, <1>13, <1>14 DEF StreamsAs, ChatStreams
<1> QED BY <1>4, <1>11, <1>12, <1>15, ReceiveKeeps

\* A piece of arguments goes to the call of its number, named or not.
LEMMA ChatCallArgumentsKeeps ==
  ASSUME ProviderInv, NEW i \in DOMAIN reply.calls, ChatCallArguments(i)
  PROVE  ProviderInv'
<1>1. /\ Streaming /\ wire = "chat"
      /\ Receive(ChatArguments(parser, i), [reply EXCEPT !.sent[i] = @ + 1])
  BY DEF ChatCallArguments
<1>2. PICK p, partials, asked, added, sent :
        /\ p = parser /\ partials = parser.partials
        /\ asked = reply.calls /\ added = reply.added /\ sent = reply.sent
  OBVIOUS
<1>3. PICK q, s, n : q = ChatArguments(p, i) /\ s = [reply EXCEPT !.sent[i] = @ + 1] /\ n = sent[i] + 1
  OBVIOUS
<1>4. /\ phase = "stream" /\ reply \in ReplyRecord /\ Asks(reply)
      /\ p \in Parsers(partials) /\ ChatStreams(p, reply)
  BY <1>1, <1>2, StreamIsFound DEF StreamsAs
<1>5. p.partials = partials
  BY <1>2
<1>6. sent[i] \in Nat /\ DOMAIN sent = DOMAIN asked /\ i \in DOMAIN asked
  BY <1>2, <1>4, ReplyIsTyped DEF Asks
<1>7. ChatTells(partials, asked, added, sent, reply.whole) /\ reply.whole = FALSE
  BY <1>1, <1>2, <1>4, <1>5 DEF ChatStreams, Streaming, ReplyRecord
<1>8. PICK entry : entry = [PartialOf(p, i) EXCEPT !.pieces = @ + 1]
  OBVIOUS
<1>9. PICK new : new = [sent EXCEPT ![i] = n]
  OBVIOUS
<1>10. /\ new[i] = n /\ n # 0 /\ \A k \in DOMAIN asked : k # i => new[k] = sent[k]
  BY <1>3, <1>6, <1>9
<1>11. entry = ChatEntry(asked, added, new, i)
  <2>1. PartialOf(p, i) = ChatEntry(asked, added, sent, i)
    BY <1>2, <1>4, ChatPartialIs
  <2>2. CASE i \in added
    <3>1. entry = [[call |-> asked[i], named |-> TRUE, pieces |-> sent[i]] EXCEPT !.pieces = @ + 1]
      BY <1>8, <2>1, <2>2, Zenon DEF ChatEntry
    <3>2. entry = [call |-> asked[i], named |-> TRUE, pieces |-> n]
      BY <1>3, <1>6, <3>1, PartialGrows, Zenon
    <3> QED BY <1>10, <2>2, <3>2, Zenon DEF ChatEntry
  <2>3. CASE i \notin added
    <3>1. entry = [[call |-> i, named |-> FALSE, pieces |-> sent[i]] EXCEPT !.pieces = @ + 1]
      BY <1>8, <2>1, <2>3, Zenon DEF ChatEntry
    <3>2. entry = [call |-> i, named |-> FALSE, pieces |-> n]
      BY <1>3, <1>6, <3>1, PartialGrows, Zenon
    <3> QED BY <1>10, <2>3, <3>2, Zenon DEF ChatEntry
  <2> QED BY <2>2, <2>3
<1>12. q = SetPartial(p, i, entry)
  BY <1>3, <1>8, Zenon DEF ChatArguments
<1>13. /\ q \in Parsers(q.partials)
       /\ DOMAIN q.partials = DOMAIN partials \cup {i}
       /\ q.partials[i] = entry
       /\ \A k \in DOMAIN partials : k # i => q.partials[k] = partials[k]
  BY <1>4, <1>12, PartialIsSet
<1>14. SameAnswer(s, reply)
  BY <1>2, <1>3, <1>4, RepliesMove
<1>15. /\ s.calls = asked /\ s.added = added /\ s.sent = new /\ s.whole = reply.whole
  BY <1>2, <1>3, <1>4, <1>6, <1>9, <1>14, ReplyIsLeft DEF SameAnswer
<1>16. ChatTells(q.partials, asked, added, new, reply.whole)
  <2>1. DOMAIN q.partials = {k \in DOMAIN asked : k \in added \/ new[k] # 0}
    BY <1>6, <1>7, <1>10, <1>13 DEF ChatTells
  <2>2. ASSUME NEW k \in DOMAIN q.partials PROVE q.partials[k] = ChatEntry(asked, added, new, k)
    <3>1. CASE k = i
      BY <1>11, <1>13, <3>1
    <3>2. CASE k # i
      <4>1. q.partials[k] = ChatEntry(asked, added, sent, k) /\ new[k] = sent[k]
        BY <1>7, <1>10, <1>13, <2>1, <3>2 DEF ChatTells
      <4> QED BY <4>1, Zenon DEF ChatEntry
    <3> QED BY <3>1, <3>2
  <2> QED BY <1>7, <2>1, <2>2 DEF ChatTells
<1>17. StreamsAs(q, s) /\ Receive(q, s)
  BY <1>1, <1>2, <1>3, <1>15, <1>16 DEF StreamsAs, ChatStreams
<1> QED BY <1>4, <1>13, <1>14, <1>17, ReceiveKeeps

\* The end of a chat answer finds every call named and whole.
LEMMA ChatDoneKeeps ==
  ASSUME ProviderInv, ChatDone
  PROVE  ProviderInv'
<1>1. /\ Streaming /\ wire = "chat" /\ Receive(parser, [reply EXCEPT !.whole = TRUE])
      /\ \A i \in DOMAIN reply.calls : i \in reply.added /\ reply.sent[i] = Pieces
  BY DEF ChatDone
<1>2. PICK s, whole : s = [reply EXCEPT !.whole = TRUE] /\ whole = TRUE
  OBVIOUS
<1>3. /\ phase = "stream" /\ reply \in ReplyRecord /\ Asks(reply)
      /\ parser \in Parsers(parser.partials) /\ ChatStreams(parser, reply)
  BY <1>1, StreamIsFound DEF StreamsAs
<1>4. SameAnswer(s, reply)
  BY <1>2, <1>3, RepliesMove
<1>5. /\ s.calls = reply.calls /\ s.added = reply.added /\ s.sent = reply.sent /\ s.whole = whole
  BY <1>2, <1>3, <1>4, ReplyIsLeft DEF SameAnswer
<1>6. ChatTells(parser.partials, reply.calls, reply.added, reply.sent, whole)
  BY <1>1, <1>3 DEF ChatStreams, ChatTells
<1>7. StreamsAs(parser, s) /\ Receive(parser, s)
  BY <1>1, <1>2, <1>5, <1>6 DEF StreamsAs, ChatStreams
<1> QED BY <1>3, <1>4, <1>7, ReceiveKeeps

-----------------------------------------------------------------------------
(* The end of an answer.                                                   *)

\* A call that has its result was made.
LEMMA AnsweredIsMade ==
  ASSUME NEW seq, Answers(seq), NEW call, AnsweredIn(seq, call)
  PROVE  MadeIn(seq, call)
<1>1. PICK o \in DOMAIN seq : seq[o].kind = "output" /\ seq[o].answers = <<call>>
  BY DEF AnsweredIn
<1>2. PICK c \in DOMAIN seq : seq[c].kind = "call" /\ seq[o].answers = <<seq[c].call>>
  BY <1>1, Zenon DEF Answers
<1>3. PICK x : x = seq[c].call
  OBVIOUS
<1>4. <<x>> = <<call>>
  BY <1>1, <1>2, <1>3, Zenon
<1>5. x = call
  <2>1. <<x>>[1] = x /\ <<call>>[1] = call
    OBVIOUS
  <2> QED BY <1>4, <2>1, Zenon
<1> QED BY <1>2, <1>3, <1>5 DEF MadeIn

\* What is kept of an answer: its items, or its text when it has no item.
LEMMA KeptIsTheStep ==
  ASSUME NEW partials, NEW p \in Parsers(partials), NEW more, more = Kept(p)
  PROVE  /\ more \in Seq(Entry) /\ NoPromptIn(more)
         /\ \A j \in DOMAIN more : more[j].kind # "output"
         /\ \A call : MadeIn(more, call) <=> MadeIn(p.items, call)
         /\ \A call : ~AnsweredIn(more, call)
<1>1. more \in Seq(StepItem) /\ \A call : MadeIn(more, call) <=> MadeIn(p.items, call)
  <2>1. PICK items, text : items = p.items /\ text = TextItem
    OBVIOUS
  <2>2. items \in Seq(StepItem) /\ text \in StepItem /\ text.kind # "call"
    BY <2>1 DEF Parsers, StepItem, TextItem
  <2>3. CASE more = items
    BY <2>1, <2>2, <2>3
  <2>4. CASE more = <<text>> /\ items = <<>>
    <3>1. more \in Seq(StepItem) /\ DOMAIN more = {1} /\ more[1] = text /\ DOMAIN items = {}
      BY <2>2, <2>4
    <3> QED BY <2>1, <2>2, <3>1 DEF MadeIn
  <2> QED BY <2>1, <2>3, <2>4 DEF Kept
<1>2. \A j \in DOMAIN more : more[j] \in StepItem
  BY <1>1
<1>3. StepItem \subseteq Entry
  BY DEF Entry
<1>4. \A j \in DOMAIN more : more[j].kind # "output" /\ ~IsPrompt(more[j])
  BY <1>2, EntryKinds
<1> QED BY <1>1, <1>3, <1>4 DEF NoPromptIn, AnsweredIn

\* Calls with ids, each the first of its own: refused for an unknown tool alone.
LEMMA ToldIsTold ==
  ASSUME NEW partials, NEW p \in Parsers(partials), NEW asked \in Seq(Calls),
         IsInjective(asked), NEW whole, whole, Gathered(p, asked, whole)
  PROVE  /\ Len(p.raw) = Len(asked)
         /\ {CallOf(entry) : entry \in ToSet(p.raw)} = ToSet(asked)
         /\ \A i \in DOMAIN p.raw : p.raw[i].pieces = Pieces
         /\ ToSet(asked) \subseteq Known => WellFormed(p.raw)
<1>1. PICK raw : raw = p.raw
  OBVIOUS
<1>2. /\ raw \in Seq(RawCall) /\ Len(raw) \in Nat /\ Len(asked) \in Nat
      /\ DOMAIN raw = 1..Len(raw) /\ DOMAIN asked = 1..Len(asked)
  BY <1>1 DEF Parsers
<1>3. /\ \A i \in DOMAIN raw : raw[i].id # <<>> /\ raw[i].pieces = Pieces
      /\ \A k \in DOMAIN asked : \E i \in DOMAIN raw : raw[i].id[1] = asked[k]
  BY <1>1 DEF Gathered, Told
<1>4. /\ \A i \in DOMAIN raw : \E k \in DOMAIN asked : raw[i].id[1] = asked[k]
      /\ \A i, j \in DOMAIN raw : raw[i].id[1] = raw[j].id[1] => i = j
  BY <1>1, <1>3 DEF Gathered
<1>5. \A k, l \in DOMAIN asked : asked[k] = asked[l] => k = l
  BY DEF IsInjective
<1>6. /\ IsFiniteSet(DOMAIN raw) /\ Cardinality(DOMAIN raw) = Len(raw)
      /\ IsFiniteSet(DOMAIN asked) /\ Cardinality(DOMAIN asked) = Len(asked)
  <2>1. ASSUME NEW n \in Nat PROVE IsFiniteSet(1..n) /\ Cardinality(1..n) = n
    <3>1. IsFiniteSet(1..n)
      BY FS_Interval
    <3>2. Cardinality(1..n) = n
      BY FS_Interval
    <3> QED BY <3>1, <3>2
  <2> QED BY <1>2, <2>1
<1>7. Len(raw) = Len(asked)
  <2>1. PICK f : f = [i \in DOMAIN raw |-> CHOOSE k \in DOMAIN asked : raw[i].id[1] = asked[k]]
    OBVIOUS
  <2>2. \A i \in DOMAIN raw : f[i] \in DOMAIN asked /\ raw[i].id[1] = asked[f[i]]
    BY <1>4, <2>1
  <2>3. \A i, j \in DOMAIN raw : f[i] = f[j] => i = j
    BY <1>4, <2>2
  <2>4. f \in Injection(DOMAIN raw, DOMAIN asked)
    BY <2>1, <2>2, <2>3 DEF Injection, IsInjective
  <2>5. Len(raw) <= Len(asked)
    BY <1>6, <2>4, FS_Injection
  <2>6. PICK g : g = [k \in DOMAIN asked |-> CHOOSE i \in DOMAIN raw : raw[i].id[1] = asked[k]]
    OBVIOUS
  <2>7. \A k \in DOMAIN asked : g[k] \in DOMAIN raw /\ raw[g[k]].id[1] = asked[k]
    BY <1>3, <2>6
  <2>8. \A k, l \in DOMAIN asked : g[k] = g[l] => k = l
    BY <1>5, <2>7
  <2>9. g \in Injection(DOMAIN asked, DOMAIN raw)
    BY <2>6, <2>7, <2>8 DEF Injection, IsInjective
  <2>10. Len(asked) <= Len(raw)
    BY <1>6, <2>9, FS_Injection
  <2>11. PICK m, n : m = Len(raw) /\ n = Len(asked)
    OBVIOUS
  <2>12. m \in Nat /\ n \in Nat /\ m <= n /\ n <= m
    BY <1>2, <2>5, <2>10, <2>11
  <2>13. m = n
    BY <2>12
  <2> QED BY <2>11, <2>13
<1>8. {CallOf(entry) : entry \in ToSet(raw)} = ToSet(asked)
  <2>1. ASSUME NEW entry \in ToSet(raw) PROVE CallOf(entry) \in ToSet(asked)
    <3>1. PICK i \in DOMAIN raw : entry = raw[i]
      BY DEF ToSet
    <3>2. PICK k \in DOMAIN asked : raw[i].id[1] = asked[k]
      BY <1>4
    <3> QED BY <3>1, <3>2 DEF ToSet, CallOf
  <2>2. ASSUME NEW call \in ToSet(asked) PROVE \E entry \in ToSet(raw) : CallOf(entry) = call
    <3>1. PICK k \in DOMAIN asked : call = asked[k]
      BY DEF ToSet
    <3>2. PICK i \in DOMAIN raw : raw[i].id[1] = asked[k]
      BY <1>3
    <3>3. raw[i] \in ToSet(raw) /\ CallOf(raw[i]) = call
      BY <3>1, <3>2 DEF ToSet, CallOf
    <3> QED BY <3>3
  <2> QED BY <2>1, <2>2
<1>9. ASSUME ToSet(asked) \subseteq Known PROVE WellFormed(raw)
  <2>1. \A k \in DOMAIN asked : asked[k] \in Known
    BY <1>9 DEF ToSet
  <2>2. \A i \in DOMAIN raw : raw[i].id[1] \in Known
    BY <1>4, <2>1
  <2>3. \A i, j \in DOMAIN raw : raw[i].id = raw[j].id => i = j
    BY <1>4
  <2> QED BY <1>3, <2>2, <2>3 DEF WellFormed, IsInjective
<1> QED BY <1>1, <1>3, <1>7, <1>8, <1>9

\* The end of an answer: a step of calls that wait, or an answer that is refused.
LEMMA ParseStepKeeps ==
  ASSUME ProviderInv, phase = "stream", NEW whole \in BOOLEAN, NEW p,
         p \in Parsers(p.partials), Gathered(p, reply.calls, whole), ParseStep(p, whole)
  PROVE  ProviderInv'
<1>1. PICK asked, raw, more : asked = reply.calls /\ raw = p.raw /\ more = Kept(p)
  OBVIOUS
<1>2. /\ ProviderTyped /\ Asks(reply) /\ PromptSeeded /\ Transcript
      /\ reply \in ReplyRecord /\ messages \in Seq(Entry)
  BY DEF ProviderInv, ProviderTyped
<1>3. /\ reply' = [reply EXCEPT !.open = FALSE, !.whole = whole] /\ parser' = p
      /\ wire' = wire /\ history' = history /\ paused' = paused /\ dropped' = dropped
  BY DEF ParseStep
<1>4. /\ reply' \in ReplyRecord /\ reply'.calls = asked /\ reply'.open = FALSE
      /\ reply'.whole = whole /\ Asks(reply')
  <2>1. PICK r, s : r = reply /\ s = [r EXCEPT !.open = FALSE, !.whole = whole]
    OBVIOUS
  <2>2. s \in ReplyRecord
    BY <1>2, <2>1 DEF ReplyRecord
  <2>3. /\ s.calls = r.calls /\ s.sent = r.sent /\ s.done = r.done /\ s.added = r.added
        /\ s.open = FALSE /\ s.whole = whole
    BY <1>2, <2>1 DEF ReplyRecord
  <2>4. Asks(s)
    BY <1>2, <2>1, <2>3 DEF Asks
  <2> QED BY <1>1, <1>3, <2>1, <2>2, <2>3, <2>4
<1>5. /\ asked \in Seq(Calls) /\ IsInjective(asked)
      /\ raw \in Seq(RawCall)
      /\ more \in Seq(Entry) /\ NoPromptIn(more)
      /\ \A j \in DOMAIN more : more[j].kind # "output"
      /\ \A call : MadeIn(more, call) <=> MadeIn(p.items, call)
      /\ \A call : ~AnsweredIn(more, call)
  <2>1. asked \in Seq(Calls) /\ IsInjective(asked)
    BY <1>1, <1>2 DEF ReplyRecord, Asks
  <2>2. raw \in Seq(RawCall)
    BY <1>1 DEF Parsers
  <2> QED BY <1>1, <2>1, <2>2, KeptIsTheStep
<1>6. /\ Answers(messages) /\ calls = <<>>
      /\ \A c \in DOMAIN messages : messages[c].kind = "call" => Settled(messages, messages[c].call)
      /\ \A i \in DOMAIN asked : ~MadeIn(messages, asked[i])
  BY <1>1, <1>2 DEF Transcript
<1>7. OnePromptIn(messages)
  <2>1. messages # <<>>
    BY <1>2 DEF PromptSeeded
  <2> QED BY <1>2, <2>1 DEF PromptSeeded
<1>8. CASE WellFormed(raw)
  <2>1. messages' = messages \o more /\ calls' = raw /\ phase' = "tools"
    BY <1>1, <1>8 DEF ParseStep
  <2>2. PICK new : new = messages \o more
    OBVIOUS
  <2>3. messages' = new /\ new \in Seq(Entry)
    BY <1>2, <1>5, <2>1, <2>2
  <2>4. ProviderTyped'
    BY <1>2, <1>3, <1>4, <1>5, <2>1, <2>3 DEF ProviderTyped
  <2>5. OnePromptIn(new) /\ new # <<>>
    BY <1>2, <1>5, <1>7, <2>2, PromptStays
  <2>6. PromptSeeded'
    BY <2>3, <2>5 DEF PromptSeeded, OnePromptIn
  <2>7. \A i \in DOMAIN raw : raw[i].id # <<>>
    BY <1>8 DEF WellFormed
  <2>8. /\ \A i \in DOMAIN raw : \E k \in DOMAIN asked : raw[i].id[1] = asked[k]
        /\ \A i, j \in DOMAIN raw : raw[i].id[1] = raw[j].id[1] => i = j
        /\ Mirrors(p.items, raw)
    BY <1>1, <2>7 DEF Gathered
  <2>9. /\ \A call : MadeIn(new, call) <=> MadeIn(messages, call) \/ MadeIn(p.items, call)
        /\ \A call : AnsweredIn(new, call) <=> AnsweredIn(messages, call)
    <3>1. \A call : /\ MadeIn(new, call) <=> MadeIn(messages, call) \/ MadeIn(more, call)
                    /\ AnsweredIn(new, call) <=> AnsweredIn(messages, call) \/ AnsweredIn(more, call)
      BY <1>2, <1>5, <2>2, MadeGrows
    <3> QED BY <1>5, <3>1
  <2>10. Answers(new)
    BY <1>2, <1>5, <1>6, <2>2, AnswersStay
  <2>11. \A call : MadeIn(messages, call) => Settled(messages, call)
    BY <1>6 DEF MadeIn
  <2>12. ASSUME NEW c \in DOMAIN new, new[c].kind = "call"
         PROVE  \/ Settled(new, new[c].call)'
                \/ \E i \in DOMAIN raw : raw[i].id[1] = new[c].call
    <3>1. PICK call : call = new[c].call
      OBVIOUS
    <3>2. MadeIn(new, call)
      BY <2>12, <3>1 DEF MadeIn
    <3>3. CASE MadeIn(messages, call)
      <4>1. Settled(messages, call)
        BY <2>11, <3>3
      <4>2. call \in dropped' \/ AnsweredIn(new, call)
        BY <1>3, <2>9, <4>1 DEF Settled
      <4> QED BY <3>1, <4>2 DEF Settled
    <3>4. CASE MadeIn(p.items, call)
      <4>1. \E i \in DOMAIN raw : raw[i].id[1] = call
        BY <2>8, <3>4 DEF Mirrors, MadeIn
      <4> QED BY <3>1, <4>1
    <3> QED BY <2>9, <3>2, <3>3, <3>4
  <2>13. ASSUME NEW i \in DOMAIN raw PROVE Waits(new, raw[i].id)
    <3>1. PICK call : call = raw[i].id[1]
      OBVIOUS
    <3>2. MadeIn(new, call)
      BY <2>8, <2>9, <3>1 DEF Mirrors
    <3>3. ~MadeIn(messages, call)
      BY <1>6, <2>8, <3>1
    <3>4. ~AnsweredIn(new, call)
      BY <1>6, <2>9, <3>3, AnsweredIsMade
    <3> QED BY <2>7, <3>1, <3>2, <3>4 DEF Waits
  <2>14. Transcript'
    BY <2>1, <2>3, <2>8, <2>10, <2>12, <2>13 DEF Transcript
  <2>15. Streams'
    BY <2>1 DEF Streams
  <2>16. StreamTellsTheStep'
    <3>1. ASSUME whole
          PROVE  /\ Len(raw) = Len(asked)
                 /\ {CallOf(entry) : entry \in ToSet(raw)} = ToSet(asked)
                 /\ \A i \in DOMAIN raw : raw[i].pieces = Pieces
      BY <1>1, <1>5, <3>1, ToldIsTold
    <3> QED BY <1>1, <1>3, <1>4, <2>1, <3>1 DEF StreamTellsTheStep
  <2> QED BY <1>4, <2>4, <2>6, <2>14, <2>15, <2>16 DEF ProviderInv
<1>9. CASE ~WellFormed(raw)
  <2>1. messages' = messages /\ calls' = calls /\ phase' = "failed"
    BY <1>1, <1>9 DEF ParseStep
  <2>2. ProviderTyped'
    BY <1>2, <1>3, <1>4, <2>1 DEF ProviderTyped
  <2>3. PromptSeeded'
    BY <1>2, <1>7, <2>1 DEF PromptSeeded
  <2>4. Transcript'
    BY <1>2, <1>3, <1>6, <2>1 DEF Transcript, Settled
  <2>5. Streams'
    BY <2>1 DEF Streams
  <2>6. StreamTellsTheStep'
    <3>1. ASSUME whole PROVE ~(ToSet(asked) \subseteq Known)
      BY <1>1, <1>5, <1>9, <3>1, ToldIsTold
    <3> QED BY <1>4, <2>1, <3>1 DEF StreamTellsTheStep
  <2> QED BY <1>4, <2>2, <2>3, <2>4, <2>5, <2>6 DEF ProviderInv
<1> QED BY <1>8, <1>9

\* The end of the connection makes a step of what was gathered on either wire.
LEMMA EndOfStreamKeeps ==
  ASSUME ProviderInv, EndOfStream
  PROVE  ProviderInv'
<1>1. phase = "stream" /\ ParseStep(Collected(parser), reply.whole)
  BY DEF EndOfStream
<1>2. /\ reply \in ReplyRecord /\ Asks(reply) /\ reply.whole \in BOOLEAN
      /\ parser \in Parsers(parser.partials) /\ StreamsAs(parser, reply)
  BY <1>1 DEF ProviderInv, ProviderTyped, Streams, StreamsAs, ReplyRecord
<1>3. PICK partials, p, q : partials = parser.partials /\ p = parser /\ q = Collected(p)
  OBVIOUS
<1>4. q \in Parsers(partials) /\ Gathered(q, reply.calls, reply.whole)
  <2>1. ASSUME wire = "codex" PROVE q \in Parsers(partials) /\ Gathered(q, reply.calls, reply.whole)
    <3>1. q = FlushPartials(p) /\ CodexStreams(p, reply)
      BY <1>2, <1>3, <2>1 DEF Collected, StreamsAs
    <3> QED BY <1>2, <1>3, <3>1, FlushGathers
  <2>2. ASSUME wire # "codex" PROVE q \in Parsers(partials) /\ Gathered(q, reply.calls, reply.whole)
    <3>1. q = CollectChat(p) /\ ChatStreams(p, reply)
      BY <1>2, <1>3, <2>2 DEF Collected, StreamsAs
    <3> QED BY <1>2, <1>3, <3>1, ChatGathers
  <2> QED BY <2>1, <2>2
<1>5. q \in Parsers(q.partials)
  BY <1>4 DEF Parsers
<1> QED BY <1>1, <1>2, <1>3, <1>4, <1>5, ParseStepKeeps

\* Without streaming the answer is gathered as if it had come in pieces.
LEMMA ChatMessageKeeps ==
  ASSUME ProviderInv, ChatMessage
  PROVE  ProviderInv'
<1>1. PICK asked, yes : asked = reply.calls /\ yes = TRUE
  OBVIOUS
<1>2. PICK partials : partials = AllPartials(asked)
  OBVIOUS
<1>3. PICK p, q : p = [EmptyParser EXCEPT !.partials = partials] /\ q = CollectChat(p)
  OBVIOUS
<1>4. phase = "stream" /\ ParseStep(q, yes)
  BY <1>1, <1>2, <1>3, Zenon DEF ChatMessage, Streaming
<1>5. reply \in ReplyRecord /\ Asks(reply)
  BY DEF ProviderInv, ProviderTyped
<1>6. /\ asked \in Seq(Calls) /\ Len(asked) \in Nat /\ DOMAIN asked = 1..Len(asked)
  BY <1>1, <1>5, ReplyIsTyped
<1>7. PICK sent : sent = [k \in DOMAIN asked |-> Pieces]
  OBVIOUS
<1>8. PICK r : r = [calls |-> asked, text |-> yes, open |-> yes, whole |-> yes,
                    added |-> DOMAIN asked, sent |-> sent, done |-> {}, said |-> yes]
  OBVIOUS
<1>9. /\ r.calls = asked /\ r.sent = sent /\ r.added = DOMAIN asked /\ r.done = {} /\ r.whole = yes
      /\ r \in ReplyRecord
  <2>1. sent \in Seq(Nat)
    BY <1>6, <1>7, BoundsAreNat
  <2>2. DOMAIN asked \subseteq Nat /\ yes \in BOOLEAN
    BY <1>1, <1>6
  <2> QED BY <1>6, <1>8, <2>1, <2>2 DEF ReplyRecord
<1>10. Asks(r)
  BY <1>1, <1>5, <1>7, <1>9 DEF Asks
<1>11. p \in Parsers(partials) /\ p.partials = partials
  <2>1. PICK no : no = FALSE
    OBVIOUS
  <2>2. EmptyParser = [text |-> no, items |-> <<>>, raw |-> <<>>, partials |-> <<>>]
    BY <2>1, Zenon DEF EmptyParser
  <2>3. p = [[text |-> no, items |-> <<>>, raw |-> <<>>, partials |-> <<>>]
               EXCEPT !.partials = partials]
    BY <1>3, <2>2, Zenon
  <2>4. p = [text |-> no, items |-> <<>>, raw |-> <<>>, partials |-> partials]
    BY <2>3
  <2>5. <<>> \in Seq(StepItem) /\ <<>> \in Seq(RawCall)
    OBVIOUS
  <2>6. no \in BOOLEAN
    BY <2>1
  <2> QED BY <2>4, <2>5, <2>6 DEF Parsers
<1>12. ChatTells(partials, asked, DOMAIN asked, sent, yes)
  <2>1. /\ DOMAIN partials = DOMAIN asked
        /\ \A k \in DOMAIN asked : partials[k] = [call |-> asked[k], named |-> TRUE, pieces |-> Pieces]
    BY <1>2 DEF AllPartials
  <2>2. \A k \in DOMAIN asked : sent[k] = Pieces
    BY <1>7
  <2>3. \A k \in DOMAIN partials : partials[k] = ChatEntry(asked, DOMAIN asked, sent, k)
    BY <2>1, <2>2 DEF ChatEntry
  <2> QED BY <2>1, <2>2, <2>3 DEF ChatTells
<1>13. ChatStreams(p, r)
  BY <1>9, <1>11, <1>12 DEF ChatStreams
<1>14. q \in Parsers(partials) /\ Gathered(q, r.calls, r.whole)
  BY <1>3, <1>9, <1>10, <1>11, <1>13, ChatGathers
<1>15. q \in Parsers(q.partials) /\ Gathered(q, reply.calls, yes)
  <2>1. q \in Parsers(q.partials)
    BY <1>14 DEF Parsers
  <2> QED BY <1>1, <1>9, <1>14, <2>1, Zenon
<1> QED BY <1>1, <1>4, <1>15, ParseStepKeeps

-----------------------------------------------------------------------------
(* The steps of the turn.                                                  *)

\* Nothing received, nothing made of it, and no call waited for.
LEMMA NothingIsTyped ==
  /\ NoReply \in ReplyRecord /\ Asks(NoReply) /\ ~NoReply.whole
  /\ EmptyParser \in Parsers(EmptyParser.partials)
  /\ EmptyParser.raw = <<>> /\ EmptyParser.items = <<>> /\ EmptyParser.partials = <<>>
  /\ NoCall.id = <<>>
<1>1. PICK no : no = FALSE
  OBVIOUS
<1>2. PICK r : r = [calls |-> <<>>, text |-> no, open |-> no, whole |-> no,
                    added |-> {}, sent |-> <<>>, done |-> {}, said |-> no]
  OBVIOUS
<1>3. NoReply = r
  BY <1>1, <1>2, Zenon DEF NoReply
<1>4. /\ r.calls = <<>> /\ r.sent = <<>> /\ r.added = {} /\ r.done = {} /\ r.whole = no
      /\ r.text = no /\ r.open = no /\ r.said = no
  BY <1>2
<1>5. no \in BOOLEAN
  BY <1>1
<1>6. r \in ReplyRecord
  <2>1. <<>> \in Seq(Calls) /\ <<>> \in Seq(Nat)
    OBVIOUS
  <2> QED BY <1>2, <1>5, <2>1 DEF ReplyRecord
<1>7. Asks(r)
  BY <1>4 DEF Asks, IsInjective
<1>8. PICK p : p = [text |-> no, items |-> <<>>, raw |-> <<>>, partials |-> <<>>]
  OBVIOUS
<1>9. EmptyParser = p
  BY <1>1, <1>8, Zenon DEF EmptyParser
<1>10. p.raw = <<>> /\ p.items = <<>> /\ p.partials = <<>>
  BY <1>8
<1>11. p \in Parsers(p.partials)
  <2>1. <<>> \in Seq(StepItem) /\ <<>> \in Seq(RawCall)
    OBVIOUS
  <2> QED BY <1>5, <1>8, <1>10, <2>1 DEF Parsers
<1>12. NoCall.id = <<>>
  BY DEF NoCall
<1>13. ~r.whole
  BY <1>1, <1>4
<1> QED BY <1>3, <1>6, <1>7, <1>9, <1>10, <1>11, <1>12, <1>13

\* A step of the model asks for calls that were not made before.
LEMMA RepliesAreFresh ==
  ASSUME messages \in Seq(Entry), NEW asked \in Replies
  PROVE  /\ asked \in Seq(Calls) /\ IsInjective(asked)
         /\ \A k \in DOMAIN asked : ~MadeIn(messages, asked[k])
<1>1. PICK used : used = {m.call : m \in {x \in ToSet(messages) : x.kind = "call"}}
  OBVIOUS
<1>2. PICK fresh : fresh = Calls \ used
  OBVIOUS
<1>3. \A call \in fresh : call \in Calls /\ ~MadeIn(messages, call)
  <2>1. ASSUME NEW call \in fresh, MadeIn(messages, call) PROVE FALSE
    <3>1. PICK c \in DOMAIN messages : messages[c].kind = "call" /\ messages[c].call = call
      BY <2>1 DEF MadeIn
    <3>2. messages[c] \in {x \in ToSet(messages) : x.kind = "call"}
      BY <3>1 DEF ToSet
    <3>3. call \in used
      BY <1>1, <3>1, <3>2
    <3> QED BY <1>2, <3>3
  <2> QED BY <1>2, <2>1
<1>4. asked \in {<<>>} \cup {<<c>> : c \in fresh} \cup {pair \in fresh \X fresh : pair[1] # pair[2]}
  BY <1>1, <1>2 DEF Replies
<1>5. CASE asked = <<>>
  BY <1>5 DEF IsInjective
<1>6. CASE asked \in {<<c>> : c \in fresh}
  <2>1. PICK c \in fresh : asked = <<c>>
    BY <1>6
  <2>2. asked \in Seq(Calls) /\ DOMAIN asked = {1} /\ asked[1] = c
    BY <1>3, <2>1
  <2> QED BY <1>3, <2>2 DEF IsInjective
<1>7. CASE asked \in {pair \in fresh \X fresh : pair[1] # pair[2]}
  <2>1. PICK c \in fresh, d \in fresh : asked = <<c, d>> /\ c # d
    BY <1>7
  <2>2. asked \in Seq(Calls) /\ DOMAIN asked = {1, 2} /\ asked[1] = c /\ asked[2] = d
    BY <1>3, <2>1
  <2> QED BY <1>3, <2>1, <2>2 DEF IsInjective
<1> QED BY <1>4, <1>5, <1>6, <1>7

\* What a request carries: the transcript, or the thread when there is none yet.
LEMMA RequestIsSent ==
  ASSUME ProviderInv, phase = "ask", NEW sent, sent = Request
  PROVE  /\ sent \in Seq(Entry) /\ sent # <<>> /\ OnePromptIn(sent) /\ Answers(sent)
         /\ \A c \in DOMAIN sent : sent[c].kind = "call" => Settled(sent, sent[c].call)
         /\ \A call : MadeIn(sent, call) => MadeIn(messages, call)
<1>1. ProviderTyped /\ PromptSeeded /\ Transcript
  BY DEF ProviderInv
<1>2. CASE messages # <<>>
  <2>1. sent = messages
    BY <1>2 DEF Request
  <2>2. messages \in Seq(Entry) /\ OnePromptIn(messages)
    BY <1>1, <1>2 DEF ProviderTyped, PromptSeeded
  <2>3. Answers(messages) /\ \A c \in DOMAIN messages :
          messages[c].kind = "call" => Settled(messages, messages[c].call)
    BY <1>1 DEF Transcript
  <2> QED BY <1>2, <2>1, <2>2, <2>3
<1>3. CASE messages = <<>>
  <2>1. sent = SeedMessages(Shown)
    BY <1>3 DEF Request
  <2>2. sent \in Seq(HistoryMessage) /\ OnePromptIn(sent)
    BY <1>1, <2>1, SeedHasThePrompt DEF ProviderTyped
  <2>3. sent \in Seq(Entry)
    BY <2>2 DEF Entry
  <2>4. \A i \in DOMAIN sent : sent[i].kind \notin {"call", "output"}
    BY <2>2, EntryKinds
  <2>5. sent # <<>>
    BY <2>2 DEF OnePromptIn
  <2> QED BY <2>2, <2>3, <2>4, <2>5 DEF Answers, MadeIn
<1> QED BY <1>2, <1>3

Begins(r, asked, text) ==
  r = [NoReply EXCEPT !.calls = asked, !.text = text, !.open = TRUE,
                      !.sent = [i \in DOMAIN asked |-> 0]]

\* Nothing has come of an answer that begins.
LEMMA AnswerBegins ==
  ASSUME NEW asked \in Seq(Calls), IsInjective(asked), NEW text \in BOOLEAN,
         NEW r, Begins(r, asked, text)
  PROVE  /\ r \in ReplyRecord /\ Asks(r) /\ r.open /\ r.calls = asked
         /\ StreamsAs(EmptyParser, r)
<1>1. PICK no, yes, zeros : no = FALSE /\ yes = TRUE /\ zeros = [i \in DOMAIN asked |-> 0]
  OBVIOUS
<1>2. NoReply = [calls |-> <<>>, text |-> no, open |-> no, whole |-> no,
                 added |-> {}, sent |-> <<>>, done |-> {}, said |-> no]
  BY <1>1, Zenon DEF NoReply
<1>3. r = [[calls |-> <<>>, text |-> no, open |-> no, whole |-> no,
            added |-> {}, sent |-> <<>>, done |-> {}, said |-> no]
             EXCEPT !.calls = asked, !.text = text, !.open = yes, !.sent = zeros]
  BY <1>1, <1>2, Zenon DEF Begins
<1>4. r = [calls |-> asked, text |-> text, open |-> yes, whole |-> no,
           added |-> {}, sent |-> zeros, done |-> {}, said |-> no]
  BY <1>3
<1>5. /\ r.calls = asked /\ r.open = yes /\ r.whole = no /\ r.added = {}
      /\ r.sent = zeros /\ r.done = {}
  BY <1>4
<1>6. zeros \in Seq(Nat) /\ DOMAIN zeros = DOMAIN asked /\ \A k \in DOMAIN asked : zeros[k] = 0
  BY <1>1
<1>7. no \in BOOLEAN /\ yes \in BOOLEAN
  BY <1>1
<1>8. r \in ReplyRecord
  BY <1>4, <1>6, <1>7 DEF ReplyRecord
<1>9. Asks(r)
  BY <1>5, <1>6 DEF Asks
<1>10. ~no /\ yes
  BY <1>1
<1>11. CodexStreams(EmptyParser, r)
  <2>1. PICK raw, items, partials :
          raw = EmptyParser.raw /\ items = EmptyParser.items /\ partials = EmptyParser.partials
    OBVIOUS
  <2>2. DOMAIN raw = {} /\ DOMAIN items = {} /\ DOMAIN partials = {}
    BY <2>1, NothingIsTyped
  <2>3. Mirrors(items, raw)
    BY <2>2 DEF Mirrors
  <2>4. Collects(EmptyParser, asked, TRUE)
    BY <2>1, <2>2, <2>3 DEF Collects
  <2>5. CodexTells(raw, partials, asked, {}, zeros, {}, no)
    BY <1>6, <1>10, <2>2 DEF CodexTells
  <2> QED BY <1>5, <2>1, <2>4, <2>5 DEF CodexStreams
<1>12. ChatStreams(EmptyParser, r)
  <2>1. PICK partials : partials = EmptyParser.partials /\ DOMAIN partials = {}
    BY NothingIsTyped
  <2>2. ChatTells(partials, asked, {}, zeros, no)
    BY <1>6, <1>10, <2>1 DEF ChatTells
  <2> QED BY <1>5, <2>1, <2>2 DEF ChatStreams
<1> QED BY <1>5, <1>8, <1>9, <1>10, <1>11, <1>12 DEF StreamsAs

\* A request carries the transcript, and the answer begins with nothing.
LEMMA NextStepKeeps ==
  ASSUME ProviderInv, NextStep
  PROVE  ProviderInv'
<1>1. /\ phase = "ask" /\ phase' = "stream" /\ messages' = Request /\ parser' = EmptyParser
      /\ wire' = wire /\ history' = history /\ calls' = calls /\ paused' = paused
      /\ dropped' = dropped
  BY DEF NextStep
<1>2. PICK asked \in Replies, text \in BOOLEAN :
        reply' = [NoReply EXCEPT !.calls = asked, !.text = text, !.open = TRUE,
                                 !.sent = [i \in DOMAIN asked |-> 0]]
  BY DEF NextStep
<1>3. ProviderTyped /\ Transcript /\ messages \in Seq(Entry) /\ calls = <<>>
  BY <1>1 DEF ProviderInv, ProviderTyped, Transcript
<1>4. PICK sent : sent = Request
  OBVIOUS
<1>5. /\ sent \in Seq(Entry) /\ sent # <<>> /\ OnePromptIn(sent) /\ Answers(sent)
      /\ \A c \in DOMAIN sent : sent[c].kind = "call" => Settled(sent, sent[c].call)
      /\ \A call : MadeIn(sent, call) => MadeIn(messages, call)
  BY <1>1, <1>4, RequestIsSent
<1>6. /\ asked \in Seq(Calls) /\ IsInjective(asked)
      /\ \A k \in DOMAIN asked : ~MadeIn(messages, asked[k])
  <2>1. messages \in Seq(Entry) /\ asked \in Replies
    BY <1>2, <1>3
  <2> QED BY <2>1, RepliesAreFresh, Zenon
<1>7. PICK r : r = reply'
  OBVIOUS
<1>8. /\ r \in ReplyRecord /\ Asks(r) /\ r.open /\ r.calls = asked /\ StreamsAs(EmptyParser, r)
  <2>1. Begins(r, asked, text)
    BY <1>2, <1>7, Zenon DEF Begins
  <2> QED BY <1>6, <2>1, AnswerBegins, Zenon
<1>9. messages' = sent
  BY <1>1, <1>4
<1>10. ProviderTyped'
  BY <1>1, <1>3, <1>5, <1>7, <1>8, <1>9, NothingIsTyped DEF ProviderTyped
<1>11. Asks(reply)'
  BY <1>7, <1>8 DEF Asks
<1>12. PromptSeeded'
  BY <1>5, <1>9 DEF PromptSeeded
<1>13. Transcript'
  <2>1. \A c \in DOMAIN sent : sent[c].kind = "call" => Settled(sent, sent[c].call)'
    BY <1>1, <1>5 DEF Settled
  <2>2. \A k \in DOMAIN asked : ~MadeIn(sent, asked[k])
    BY <1>5, <1>6
  <2> QED BY <1>1, <1>3, <1>5, <1>7, <1>8, <1>9, <2>1, <2>2 DEF Transcript, Settled
<1>14. Streams'
  <2>1. wire = "codex" => CodexStreams(EmptyParser, r)
    BY <1>8 DEF StreamsAs
  <2>2. wire # "codex" => ChatStreams(EmptyParser, r)
    BY <1>8 DEF StreamsAs
  <2> QED BY <1>1, <1>7, <2>1, <2>2 DEF Streams
<1>15. StreamTellsTheStep'
  BY <1>7, <1>8 DEF StreamTellsTheStep
<1> QED BY <1>10, <1>11, <1>12, <1>13, <1>14, <1>15 DEF ProviderInv

\* A request that fails leaves what it carried, and no answer.
LEMMA RequestFailsKeeps ==
  ASSUME ProviderInv, RequestFails
  PROVE  ProviderInv'
<1>1. /\ phase = "ask" /\ phase' = "failed" /\ messages' = Request
      /\ parser' = EmptyParser /\ reply' = NoReply
      /\ wire' = wire /\ history' = history /\ calls' = calls /\ paused' = paused
      /\ dropped' = dropped
  BY DEF RequestFails
<1>2. ProviderTyped /\ Transcript /\ calls = <<>>
  BY <1>1 DEF ProviderInv, Transcript
<1>3. PICK sent : sent = Request
  OBVIOUS
<1>4. /\ sent \in Seq(Entry) /\ sent # <<>> /\ OnePromptIn(sent) /\ Answers(sent)
      /\ \A c \in DOMAIN sent : sent[c].kind = "call" => Settled(sent, sent[c].call)
  BY <1>1, <1>3, RequestIsSent
<1>5. messages' = sent
  BY <1>1, <1>3
<1>6. ProviderTyped'
  BY <1>1, <1>2, <1>4, <1>5, NothingIsTyped DEF ProviderTyped
<1>7. Asks(reply)'
  BY <1>1, NothingIsTyped DEF Asks
<1>8. PromptSeeded'
  BY <1>4, <1>5 DEF PromptSeeded
<1>9. Transcript'
  BY <1>1, <1>2, <1>4, <1>5 DEF Transcript, Settled
<1>10. Streams'
  BY <1>1 DEF Streams
<1>11. StreamTellsTheStep'
  BY <1>1, NothingIsTyped DEF StreamTellsTheStep
<1> QED BY <1>6, <1>7, <1>8, <1>9, <1>10, <1>11 DEF ProviderInv

\* An answer that fails leaves the transcript as the request carried it.
LEMMA CodexFailedKeeps ==
  ASSUME ProviderInv, CodexFailed
  PROVE  ProviderInv'
<1>1. /\ phase = "stream" /\ phase' = "failed" /\ messages' = messages
      /\ parser' = parser /\ reply' = reply
      /\ wire' = wire /\ history' = history /\ calls' = calls /\ paused' = paused
      /\ dropped' = dropped
  BY DEF CodexFailed, Streaming
<1>2. ProviderTyped /\ Asks(reply) /\ PromptSeeded /\ Transcript /\ calls = <<>>
  BY <1>1 DEF ProviderInv, Transcript
<1>3. ProviderTyped'
  BY <1>1, <1>2 DEF ProviderTyped
<1>4. Asks(reply)'
  BY <1>1, <1>2 DEF Asks
<1>5. PromptSeeded'
  BY <1>1, <1>2 DEF PromptSeeded
<1>6. Transcript'
  BY <1>1, <1>2 DEF Transcript, Settled
<1>7. Streams'
  BY <1>1 DEF Streams
<1>8. StreamTellsTheStep'
  <2>1. reply.open
    BY <1>1, <1>2 DEF Transcript
  <2> QED BY <1>1, <2>1 DEF StreamTellsTheStep
<1> QED BY <1>3, <1>4, <1>5, <1>6, <1>7, <1>8 DEF ProviderInv

\* A step ends when none of its calls is left.
LEMMA StepEndsKeeps ==
  ASSUME ProviderInv, StepEnds
  PROVE  ProviderInv'
<1>1. /\ phase = "tools" /\ phase' \in {"done", "ask"} /\ messages' = messages
      /\ parser' = parser /\ reply' = reply /\ calls = <<>>
      /\ wire' = wire /\ history' = history /\ calls' = calls /\ paused' = paused
      /\ dropped' = dropped
  BY DEF StepEnds
<1>2. ProviderTyped /\ Asks(reply) /\ PromptSeeded /\ Transcript /\ StreamTellsTheStep
  BY DEF ProviderInv
<1>3. ProviderTyped'
  BY <1>1, <1>2 DEF ProviderTyped
<1>4. Asks(reply)'
  BY <1>1, <1>2 DEF Asks
<1>5. PromptSeeded'
  BY <1>1, <1>2 DEF PromptSeeded
<1>6. Transcript'
  BY <1>1, <1>2 DEF Transcript, Settled
<1>7. Streams'
  BY <1>1 DEF Streams
<1>8. StreamTellsTheStep'
  BY <1>1, <1>2 DEF StreamTellsTheStep
<1> QED BY <1>3, <1>4, <1>5, <1>6, <1>7, <1>8 DEF ProviderInv

\* A call that is run has its result, and the calls behind it wait.
LEMMA RunToolKeeps ==
  ASSUME ProviderInv, RunTool
  PROVE  ProviderInv'
<1>1. /\ phase = "tools" /\ calls # <<>> /\ phase' = phase /\ parser' = parser /\ reply' = reply
      /\ messages' = ObserveToolResult(messages, Head(calls).id) /\ calls' = Tail(calls)
      /\ wire' = wire /\ history' = history /\ paused' = paused /\ dropped' = dropped
  BY DEF RunTool
<1>2. /\ ProviderTyped /\ Asks(reply) /\ PromptSeeded /\ Transcript /\ StreamTellsTheStep
      /\ messages \in Seq(Entry) /\ calls \in Seq(RawCall)
  BY DEF ProviderInv, ProviderTyped
<1>3. PICK rest, id, new :
        rest = Tail(calls) /\ id = calls[1].id /\ new = ObserveToolResult(messages, id)
  OBVIOUS
<1>4. /\ 1 \in DOMAIN calls /\ calls[1] \in RawCall /\ rest \in Seq(RawCall)
      /\ Head(calls) = calls[1] /\ DOMAIN calls \subseteq Nat
      /\ \A i \in DOMAIN rest : i + 1 \in DOMAIN calls /\ rest[i] = calls[i + 1] /\ i \in Nat \ {0}
      /\ \A i \in DOMAIN calls : i # 1 => \E j \in DOMAIN rest : i = j + 1
  <2>1. /\ Len(calls) \in Nat /\ Len(calls) >= 1 /\ DOMAIN calls = 1..Len(calls)
        /\ rest \in Seq(RawCall) /\ DOMAIN rest = 1..(Len(calls) - 1)
        /\ \A i \in 1..(Len(calls) - 1) : rest[i] = calls[i + 1]
        /\ Head(calls) = calls[1]
    BY <1>1, <1>2, <1>3
  <2>2. 1 \in DOMAIN calls /\ calls[1] \in RawCall
    BY <1>2, <2>1
  <2>3. \A i \in DOMAIN rest : i + 1 \in DOMAIN calls /\ rest[i] = calls[i + 1] /\ i \in Nat \ {0}
    BY <2>1
  <2>4. ASSUME NEW i \in DOMAIN calls, i # 1 PROVE \E j \in DOMAIN rest : i = j + 1
    <3>1. i - 1 \in DOMAIN rest /\ i = (i - 1) + 1
      BY <2>1, <2>4
    <3> QED BY <3>1
  <2> QED BY <2>1, <2>2, <2>3, <2>4
<1>5. /\ Answers(messages)
      /\ \A c \in DOMAIN messages : messages[c].kind = "call" =>
           \/ Settled(messages, messages[c].call)
           \/ \E i \in DOMAIN calls : calls[i].id[1] = messages[c].call
      /\ \A i \in DOMAIN calls : Waits(messages, calls[i].id)
      /\ \A i, j \in DOMAIN calls : calls[i].id[1] = calls[j].id[1] => i = j
  BY <1>1, <1>2 DEF Transcript
<1>6. id \in Seq(Nat) /\ Waits(messages, id)
  BY <1>3, <1>4, <1>5 DEF RawCall
<1>7. /\ new \in Seq(Entry) /\ Answers(new)
      /\ \A call : MadeIn(new, call) <=> MadeIn(messages, call)
      /\ \A call : AnsweredIn(new, call) <=> AnsweredIn(messages, call) \/ call = id[1]
      /\ OnePromptIn(messages) => OnePromptIn(new)
      /\ new # <<>>
      /\ \A c \in DOMAIN new : new[c].kind = "call" => c \in DOMAIN messages /\ new[c] = messages[c]
  BY <1>2, <1>3, <1>5, <1>6, AnswerIsPaired
<1>8. messages' = new /\ calls' = rest
  BY <1>1, <1>3, <1>4
<1>9. ProviderTyped'
  BY <1>1, <1>2, <1>4, <1>7, <1>8 DEF ProviderTyped
<1>10. Asks(reply)'
  BY <1>1, <1>2 DEF Asks
<1>11. PromptSeeded'
  BY <1>1, <1>2, <1>7, <1>8 DEF PromptSeeded
<1>12. ASSUME NEW c \in DOMAIN new, new[c].kind = "call"
       PROVE  \/ Settled(new, new[c].call)'
              \/ \E i \in DOMAIN rest : rest[i].id[1] = new[c].call
  <2>1. PICK call : call = new[c].call
    OBVIOUS
  <2>2. \/ Settled(messages, call)
        \/ \E i \in DOMAIN calls : calls[i].id[1] = call
    BY <1>5, <1>7, <1>12, <2>1
  <2>3. CASE Settled(messages, call)
    BY <1>1, <1>7, <2>1, <2>3 DEF Settled
  <2>4. ASSUME NEW i \in DOMAIN calls, calls[i].id[1] = call
        PROVE  call = id[1] \/ \E j \in DOMAIN rest : rest[j].id[1] = call
    BY <1>3, <1>4, <2>4
  <2>5. call = id[1] => Settled(new, call)'
    BY <1>7 DEF Settled
  <2> QED BY <2>1, <2>2, <2>3, <2>4, <2>5
<1>13. ASSUME NEW i \in DOMAIN rest PROVE Waits(new, rest[i].id)
  <2>1. i + 1 \in DOMAIN calls /\ rest[i] = calls[i + 1] /\ i + 1 # 1
    BY <1>4
  <2>2. Waits(messages, rest[i].id) /\ rest[i].id[1] # id[1]
    BY <1>3, <1>4, <1>5, <2>1
  <2> QED BY <1>7, <2>2 DEF Waits
<1>14. \A i, j \in DOMAIN rest : rest[i].id[1] = rest[j].id[1] => i = j
  <2>1. ASSUME NEW i \in DOMAIN rest, NEW j \in DOMAIN rest, rest[i].id[1] = rest[j].id[1]
        PROVE  i = j
    <3>1. i + 1 = j + 1 /\ i \in Nat /\ j \in Nat
      BY <1>4, <1>5, <2>1
    <3> QED BY <3>1
  <2> QED BY <2>1
<1>15. Transcript'
  BY <1>1, <1>7, <1>8, <1>12, <1>13, <1>14 DEF Transcript
<1>16. Streams'
  BY <1>1 DEF Streams
<1>17. StreamTellsTheStep'
  BY <1>1, <1>2 DEF StreamTellsTheStep
<1> QED BY <1>9, <1>10, <1>11, <1>15, <1>16, <1>17 DEF ProviderInv

\* A pause keeps the call it waits for and passes over those behind it.
LEMMA PauseStepKeeps ==
  ASSUME ProviderInv, NEW ask, PauseStep(ask)
  PROVE  ProviderInv'
<1>1. /\ phase = "tools" /\ calls # <<>> /\ phase' = "paused" /\ parser' = parser /\ reply' = reply
      /\ messages' = messages /\ calls' = <<>> /\ wire' = wire /\ history' = history
      /\ dropped' = dropped \cup {call.id[1] : call \in ToSet(Tail(calls))}
      /\ paused' = [NoCall EXCEPT !.id = Head(calls).id, !.pieces = Head(calls).pieces, !.ask = ask]
  BY DEF PauseStep
<1>2. /\ ProviderTyped /\ Asks(reply) /\ PromptSeeded /\ Transcript /\ StreamTellsTheStep
      /\ messages \in Seq(Entry) /\ calls \in Seq(RawCall) /\ dropped \subseteq Nat
  BY DEF ProviderInv, ProviderTyped
<1>3. PICK rest, id : rest = Tail(calls) /\ id = calls[1].id
  OBVIOUS
<1>4. /\ 1 \in DOMAIN calls /\ calls[1] \in RawCall /\ rest \in Seq(RawCall)
      /\ Head(calls) = calls[1]
      /\ \A i \in DOMAIN calls : i # 1 => calls[i] \in ToSet(rest)
      /\ \A call \in ToSet(rest) : \E i \in DOMAIN calls : call = calls[i]
  <2>1. /\ Len(calls) \in Nat /\ Len(calls) >= 1 /\ DOMAIN calls = 1..Len(calls)
        /\ rest \in Seq(RawCall) /\ DOMAIN rest = 1..(Len(calls) - 1)
        /\ \A i \in 1..(Len(calls) - 1) : rest[i] = calls[i + 1]
        /\ Head(calls) = calls[1]
    BY <1>1, <1>2, <1>3
  <2>2. 1 \in DOMAIN calls /\ calls[1] \in RawCall
    BY <1>2, <2>1
  <2>3. ASSUME NEW i \in DOMAIN calls, i # 1 PROVE calls[i] \in ToSet(rest)
    <3>1. i - 1 \in DOMAIN rest /\ calls[i] = rest[i - 1]
      BY <2>1, <2>3
    <3> QED BY <3>1 DEF ToSet
  <2>4. ASSUME NEW call \in ToSet(rest) PROVE \E i \in DOMAIN calls : call = calls[i]
    <3>1. PICK i \in DOMAIN rest : call = rest[i]
      BY DEF ToSet
    <3>2. i + 1 \in DOMAIN calls /\ call = calls[i + 1]
      BY <2>1, <3>1
    <3> QED BY <3>2
  <2> QED BY <2>1, <2>2, <2>3, <2>4
<1>5. /\ Answers(messages)
      /\ \A c \in DOMAIN messages : messages[c].kind = "call" =>
           \/ Settled(messages, messages[c].call)
           \/ \E i \in DOMAIN calls : calls[i].id[1] = messages[c].call
      /\ \A i \in DOMAIN calls : Waits(messages, calls[i].id)
  BY <1>1, <1>2 DEF Transcript
<1>6. paused'.id = id /\ id \in Seq(Nat) /\ Waits(messages, id)
  <2>1. paused'.id = id
    BY <1>1, <1>3, <1>4 DEF NoCall
  <2> QED BY <1>3, <1>4, <1>5, <2>1 DEF RawCall
<1>7. dropped' \subseteq Nat
  <2>1. ASSUME NEW i \in DOMAIN calls PROVE calls[i].id \in Seq(Nat) /\ calls[i].id # <<>>
    <3>1. calls[i] \in RawCall
      BY <1>2
    <3>2. calls[i].id \in Seq(Nat)
      BY <3>1 DEF RawCall
    <3> QED BY <1>5, <3>2 DEF Waits
  <2>2. ASSUME NEW i \in DOMAIN calls PROVE calls[i].id[1] \in Nat
    <3>1. PICK id0 \in Seq(Nat) : id0 = calls[i].id /\ id0 # <<>>
      BY <2>1
    <3>2. id0[1] \in Nat
      BY <3>1
    <3> QED BY <3>1, <3>2
  <2> QED BY <1>1, <1>2, <1>3, <1>4, <2>2
<1>8. ProviderTyped'
  <2>1. <<>> \in Seq(RawCall)
    OBVIOUS
  <2> QED BY <1>1, <1>2, <1>6, <1>7, <2>1 DEF ProviderTyped
<1>9. Asks(reply)'
  BY <1>1, <1>2 DEF Asks
<1>10. PromptSeeded'
  BY <1>1, <1>2 DEF PromptSeeded
<1>11. ASSUME NEW c \in DOMAIN messages, messages[c].kind = "call"
       PROVE  Settled(messages, messages[c].call)' \/ id[1] = messages[c].call
  <2>1. PICK call : call = messages[c].call
    OBVIOUS
  <2>2. CASE Settled(messages, call)
    BY <1>1, <2>1, <2>2 DEF Settled
  <2>3. ASSUME NEW i \in DOMAIN calls, calls[i].id[1] = call
        PROVE  id[1] = call \/ call \in dropped'
    BY <1>1, <1>3, <1>4, <2>3
  <2>4. call \in dropped' => Settled(messages, call)'
    BY DEF Settled
  <2>5. messages' = messages
    BY <1>1
  <2> QED BY <1>5, <1>11, <2>1, <2>2, <2>3, <2>4, <2>5
<1>12. Transcript'
  BY <1>1, <1>5, <1>6, <1>11 DEF Transcript
<1>13. Streams'
  BY <1>1 DEF Streams
<1>14. StreamTellsTheStep'
  BY <1>1, <1>2 DEF StreamTellsTheStep
<1> QED BY <1>8, <1>9, <1>10, <1>12, <1>13, <1>14 DEF ProviderInv

\* A restart finds the call that waits under its id, or no call.
LEMMA RestartIds ==
  ASSUME ProviderRestarts, paused.id \in Seq(Nat)
  PROVE  (paused'.id = <<>> \/ paused'.id = paused.id) /\ paused'.id \in Seq(Nat)
<1>1. paused' = [ToolCallFromSnapshot(messages, paused.id) EXCEPT !.ask = "question"]
  BY DEF ProviderRestarts
<1>2. paused'.id = <<>> \/ paused'.id = paused.id
  <2>1. PICK id, found : id = paused.id /\ found = ToolCallFromSnapshot(messages, id)
    OBVIOUS
  <2>2. PICK pieces : found = NoCall \/ found = [NoCall EXCEPT !.id = id, !.pieces = pieces]
    BY <2>1 DEF ToolCallFromSnapshot
  <2>3. paused'.id = found.id
    <3>1. paused' = [found EXCEPT !.ask = "question"]
      BY <1>1, <2>1
    <3>2. [found EXCEPT !.ask = "question"].id = found.id
      BY <2>2 DEF NoCall
    <3> QED BY <3>1, <3>2
  <2>4. found.id = <<>> \/ found.id = id
    <3>1. CASE found = NoCall
      BY <3>1, NothingIsTyped, Zenon
    <3>2. CASE found = [NoCall EXCEPT !.id = id, !.pieces = pieces]
      BY <3>2 DEF NoCall
    <3> QED BY <2>2, <3>1, <3>2
  <2> QED BY <2>1, <2>3, <2>4
<1>3. paused'.id \in Seq(Nat)
  <2>1. <<>> \in Seq(Nat)
    OBVIOUS
  <2> QED BY <1>2, <2>1
<1> QED BY <1>2, <1>3

\* A restart finds the call that waits again, or loses it.
LEMMA ProviderRestartsKeeps ==
  ASSUME ProviderInv, ProviderRestarts
  PROVE  ProviderInv'
<1>1. /\ phase = "paused" /\ phase' = phase /\ parser' = EmptyParser /\ reply' = NoReply
      /\ messages' = messages /\ calls' = calls /\ wire' = wire /\ history' = history
      /\ dropped' = dropped
      /\ paused' = [ToolCallFromSnapshot(messages, paused.id) EXCEPT !.ask = "question"]
  BY DEF ProviderRestarts
<1>2. ProviderTyped /\ PromptSeeded /\ Transcript /\ paused.id \in Seq(Nat)
  BY DEF ProviderInv, ProviderTyped
<1>3. paused'.id = <<>> \/ paused'.id = paused.id
  BY <1>2, RestartIds
<1>4. paused'.id \in Seq(Nat)
  BY <1>2, RestartIds
<1>5. ProviderTyped'
  BY <1>1, <1>2, <1>4, NothingIsTyped DEF ProviderTyped
<1>6. Asks(reply)'
  BY <1>1, NothingIsTyped DEF Asks
<1>7. PromptSeeded'
  BY <1>1, <1>2 DEF PromptSeeded
<1>8. Transcript'
  <2>1. calls = <<>>
    BY <1>1, <1>2 DEF Transcript
  <2>2. \A c \in DOMAIN messages : messages[c].kind = "call" =>
          Settled(messages, messages[c].call) \/ (paused.id # <<>> => paused.id[1] = messages[c].call)
    BY <1>1, <1>2 DEF Transcript
  <2>3. Answers(messages) /\ (paused.id # <<>> => Waits(messages, paused.id))
    BY <1>1, <1>2 DEF Transcript
  <2> QED BY <1>1, <1>3, <2>1, <2>2, <2>3 DEF Transcript, Settled
<1>9. Streams'
  BY <1>1 DEF Streams
<1>10. StreamTellsTheStep'
  BY <1>1, NothingIsTyped DEF StreamTellsTheStep
<1> QED BY <1>5, <1>6, <1>7, <1>8, <1>9, <1>10 DEF ProviderInv

\* A turn that resumes has the result of the call it waited for.
LEMMA ResumeKeeps ==
  ASSUME ProviderInv, Resume
  PROVE  ProviderInv'
<1>1. /\ phase = "paused" /\ paused.id # <<>> /\ phase' = "ask" /\ parser' = parser /\ reply' = reply
      /\ messages' = ObserveToolResult(messages, paused.id) /\ calls' = calls
      /\ wire' = wire /\ history' = history /\ paused' = NoCall /\ dropped' = dropped
  BY DEF Resume
<1>2. /\ ProviderTyped /\ Asks(reply) /\ PromptSeeded /\ Transcript /\ StreamTellsTheStep
      /\ messages \in Seq(Entry) /\ paused.id \in Seq(Nat)
  BY DEF ProviderInv, ProviderTyped
<1>3. PICK id, new : id = paused.id /\ new = ObserveToolResult(messages, id)
  OBVIOUS
<1>4. /\ Answers(messages) /\ calls = <<>> /\ id \in Seq(Nat) /\ Waits(messages, id)
      /\ \A c \in DOMAIN messages : messages[c].kind = "call" =>
           Settled(messages, messages[c].call) \/ id[1] = messages[c].call
  BY <1>1, <1>2, <1>3 DEF Transcript
<1>5. /\ new \in Seq(Entry) /\ Answers(new)
      /\ \A call : AnsweredIn(new, call) <=> AnsweredIn(messages, call) \/ call = id[1]
      /\ OnePromptIn(messages) => OnePromptIn(new)
      /\ new # <<>>
      /\ \A c \in DOMAIN new : new[c].kind = "call" => c \in DOMAIN messages /\ new[c] = messages[c]
  BY <1>2, <1>3, <1>4, AnswerIsPaired
<1>6. messages' = new
  BY <1>1, <1>3
<1>7. ProviderTyped'
  <2>1. <<>> \in Seq(Nat)
    OBVIOUS
  <2> QED BY <1>1, <1>2, <1>5, <1>6, <2>1, NothingIsTyped DEF ProviderTyped
<1>8. Asks(reply)'
  BY <1>1, <1>2 DEF Asks
<1>9. PromptSeeded'
  BY <1>1, <1>2, <1>5, <1>6 DEF PromptSeeded
<1>10. Transcript'
  <2>1. ASSUME NEW c \in DOMAIN new, new[c].kind = "call" PROVE Settled(new, new[c].call)'
    BY <1>1, <1>4, <1>5, <2>1 DEF Settled
  <2> QED BY <1>1, <1>4, <1>5, <1>6, <2>1 DEF Transcript
<1>11. Streams'
  BY <1>1 DEF Streams
<1>12. StreamTellsTheStep'
  BY <1>1, <1>2 DEF StreamTellsTheStep
<1> QED BY <1>7, <1>8, <1>9, <1>10, <1>11, <1>12 DEF ProviderInv

\* A turn that resumes without it has passed that call over.
LEMMA ResumeUnansweredKeeps ==
  ASSUME ProviderInv, ResumeUnanswered
  PROVE  ProviderInv'
<1>1. /\ phase = "paused" /\ paused.id # <<>> /\ phase' = "ask" /\ parser' = parser /\ reply' = reply
      /\ messages' = messages /\ calls' = calls /\ wire' = wire /\ history' = history
      /\ paused' = NoCall /\ dropped' = dropped \cup {paused.id[1]}
  BY DEF ResumeUnanswered
<1>2. /\ ProviderTyped /\ Asks(reply) /\ PromptSeeded /\ Transcript /\ StreamTellsTheStep
      /\ paused.id \in Seq(Nat) /\ dropped \subseteq Nat
  BY DEF ProviderInv, ProviderTyped
<1>3. paused.id[1] \in Nat
  BY <1>1, <1>2
<1>4. ProviderTyped'
  <2>1. <<>> \in Seq(Nat)
    OBVIOUS
  <2> QED BY <1>1, <1>2, <1>3, <2>1, NothingIsTyped DEF ProviderTyped
<1>5. Asks(reply)'
  BY <1>1, <1>2 DEF Asks
<1>6. PromptSeeded'
  BY <1>1, <1>2 DEF PromptSeeded
<1>7. Transcript'
  <2>1. /\ Answers(messages) /\ calls = <<>>
        /\ \A c \in DOMAIN messages : messages[c].kind = "call" =>
             Settled(messages, messages[c].call) \/ paused.id[1] = messages[c].call
    BY <1>1, <1>2 DEF Transcript
  <2>2. ASSUME NEW c \in DOMAIN messages, messages[c].kind = "call"
        PROVE  Settled(messages, messages[c].call)'
    BY <1>1, <2>1, <2>2 DEF Settled
  <2> QED BY <1>1, <2>1, <2>2 DEF Transcript
<1>8. Streams'
  BY <1>1 DEF Streams
<1>9. StreamTellsTheStep'
  BY <1>1, <1>2 DEF StreamTellsTheStep
<1> QED BY <1>4, <1>5, <1>6, <1>7, <1>8, <1>9 DEF ProviderInv

-----------------------------------------------------------------------------
(* The theorems.                                                           *)

\* A turn that begins has asked for nothing.
LEMMA ProviderBegins == ProviderInit => ProviderInv
<1> SUFFICES ASSUME ProviderInit PROVE ProviderInv
  OBVIOUS
<1>1. /\ messages = <<>> /\ phase = "ask" /\ reply = NoReply /\ parser = EmptyParser
      /\ calls = <<>> /\ paused = NoCall /\ dropped = {}
  BY DEF ProviderInit
<1>2. ProviderTyped
  <2>1. <<>> \in Seq(Entry) /\ <<>> \in Seq(RawCall) /\ <<>> \in Seq(Nat)
    OBVIOUS
  <2>2. /\ wire \in {"codex", "chat"}
        /\ \E past \in Histories, size \in {0, 1} :
             history = Append(past, [kind |-> "user", turn |-> Turn, size |-> size])
    BY DEF ProviderInit
  <2> QED BY <1>1, <2>1, <2>2, NothingIsTyped DEF ProviderTyped
<1>3. Asks(reply)
  BY <1>1, NothingIsTyped
<1>4. PromptSeeded
  BY <1>1 DEF PromptSeeded
<1>5. Transcript
  BY <1>1 DEF Transcript, Answers
<1>6. Streams
  BY <1>1 DEF Streams
<1>7. StreamTellsTheStep
  BY <1>1, NothingIsTyped DEF StreamTellsTheStep
<1> QED BY <1>2, <1>3, <1>4, <1>5, <1>6, <1>7 DEF ProviderInv

\* A step that changes nothing keeps what holds.
LEMMA ProviderStutters ==
  ASSUME ProviderInv, UNCHANGED providerVars
  PROVE  ProviderInv'
<1>1. /\ wire' = wire /\ history' = history /\ messages' = messages /\ phase' = phase
      /\ reply' = reply /\ parser' = parser /\ calls' = calls /\ paused' = paused
      /\ steps' = steps /\ dropped' = dropped
  BY DEF providerVars
<1>2. ProviderTyped' /\ Asks(reply)' /\ PromptSeeded'
  BY <1>1 DEF ProviderInv, ProviderTyped, Asks, PromptSeeded
<1>3. Transcript'
  BY <1>1 DEF ProviderInv, Transcript, Settled
<1>4. Streams'
  <2>1. StreamsAs(parser, reply) <=> StreamsAs(parser, reply)'
    BY <1>1 DEF StreamsAs, CodexStreams, ChatStreams
  <2> QED BY <1>1, <2>1 DEF ProviderInv, Streams, StreamsAs
<1>5. StreamTellsTheStep'
  BY <1>1 DEF ProviderInv, StreamTellsTheStep
<1> QED BY <1>2, <1>3, <1>4, <1>5 DEF ProviderInv

\* Every step of the turn keeps the invariant.
LEMMA ProviderStepKeeps ==
  ASSUME ItemsAreTold, ProviderInv, [ProviderNext]_providerVars
  PROVE  ProviderInv'
<1>1. ASSUME Stream PROVE ProviderInv'
  <2>1. ASSUME \/ TextArrives \/ CodexMessageDone \/ CodexFailed \/ ChatDone
               \/ EndOfStream \/ ChatMessage
        PROVE  ProviderInv'
    BY <2>1, TextArrivesKeeps, CodexMessageDoneKeeps, CodexFailedKeeps, ChatDoneKeeps,
       EndOfStreamKeeps, ChatMessageKeeps
  <2>2. ASSUME NEW lists \in BOOLEAN, CodexCompleted(lists) PROVE ProviderInv'
    BY <2>2, CodexCompletedKeeps
  <2>3. ASSUME NEW i \in DOMAIN reply.calls,
               \/ CodexItemAdded(i) \/ CodexArguments(i) \/ CodexItemDone(i)
               \/ ChatCallHead(i) \/ ChatCallArguments(i)
        PROVE  ProviderInv'
    BY <2>3, CodexItemAddedKeeps, CodexArgumentsKeeps, CodexItemDoneKeeps,
       ChatCallHeadKeeps, ChatCallArgumentsKeeps
  <2> QED BY <1>1, <2>1, <2>2, <2>3 DEF Stream
<1>2. ASSUME \/ NextStep \/ RequestFails \/ RunTool \/ StepEnds \/ ProviderRestarts \/ Resume
               \/ ResumeUnanswered
      PROVE  ProviderInv'
  BY <1>2, NextStepKeeps, RequestFailsKeeps, RunToolKeeps, StepEndsKeeps,
     ProviderRestartsKeeps, ResumeKeeps, ResumeUnansweredKeeps
<1>3. ASSUME NEW ask, PauseStep(ask) PROVE ProviderInv'
  BY <1>3, PauseStepKeeps
<1> QED BY <1>1, <1>2, <1>3, ProviderStutters DEF ProviderNext

\* The conversation of a turn: transcript, calls that wait, and what the
\* pieces of an answer have been put together to, as they are in every state.
THEOREM ProviderInvariant ==
  ASSUME ItemsAreTold
  PROVE  ProviderSpec => []ProviderInv
<1>1. ProviderInit => ProviderInv
  BY ProviderBegins
<1>2. ProviderInv /\ [ProviderNext]_providerVars => ProviderInv'
  BY ProviderStepKeeps
<1> QED BY <1>1, <1>2, PTL DEF ProviderSpec

\* An answer that arrived whole is told truly: each call once, with all of its
\* arguments, or a refusal for a tool the turn does not have.
THEOREM StreamIsTold ==
  ASSUME ItemsAreTold
  PROVE  ProviderSpec => []StreamTellsTheStep
<1>1. ProviderInv => StreamTellsTheStep
  BY DEF ProviderInv
<1> QED BY <1>1, ProviderInvariant, PTL

\* A result names one call made before it, no call has two, and a request finds
\* every call answered unless a pause or a resume has passed it over.
THEOREM OutputsAreAnswers ==
  ASSUME ItemsAreTold
  PROVE  ProviderSpec => []OutputsAnswerCalls
<1>1. ASSUME ProviderInv PROVE OutputsAnswerCalls
  <2>1. Answers(messages)
    BY <1>1 DEF ProviderInv, Transcript
  <2>2. ASSUME NEW o \in DOMAIN messages, messages[o].kind = "output"
        PROVE  \E c \in {i \in DOMAIN messages : messages[i].kind = "call"} :
                 c < o /\ messages[o].answers = <<messages[c].call>>
    BY <2>1, <2>2, Zenon DEF Answers
  <2>3. ASSUME NEW o \in DOMAIN messages, NEW p \in DOMAIN messages,
               messages[o].kind = "output", messages[p].kind = "output",
               messages[o].answers = messages[p].answers
        PROVE  o = p
    BY <2>1, <2>3, Zenon DEF Answers
  <2>4. ASSUME phase = "ask", NEW c \in DOMAIN messages, messages[c].kind = "call",
               messages[c].call \notin dropped
        PROVE  \E o \in {i \in DOMAIN messages : messages[i].kind = "output"} :
                 messages[o].answers = <<messages[c].call>>
    <3>1. AnsweredIn(messages, messages[c].call)
      BY <1>1, <2>4 DEF ProviderInv, Transcript, Settled
    <3> QED BY <3>1, Zenon DEF AnsweredIn
  <2> QED BY <2>2, <2>3, <2>4, Zenon DEF OutputsAnswerCalls
<1> QED BY <1>1, ProviderInvariant, PTL

-----------------------------------------------------------------------------
(* The prompt, whatever the items of the calls are called.                 *)

PartialCall == [call : Nat, named : BOOLEAN, pieces : Nat]
PartialMap(f) ==
  IsFiniteSet(DOMAIN f) /\ DOMAIN f \subseteq Nat /\ \A key \in DOMAIN f : f[key] \in PartialCall
Held(p) == p \in Parsers(p.partials) /\ PartialMap(p.partials)

PromptInv ==
  /\ wire \in {"codex", "chat"}
  /\ \E past \in Histories, size \in {0, 1} :
       history = Append(past, [kind |-> "user", turn |-> Turn, size |-> size])
  /\ messages \in Seq(Entry) /\ PromptSeeded
  /\ reply \in ReplyRecord /\ Asks(reply)
  /\ Held(parser)
  /\ calls \in Seq(RawCall) /\ \A i \in DOMAIN calls : calls[i].id # <<>>
  /\ paused.id \in Seq(Nat)

\* A call that is put with those collected is an item of the step.
LEMMA PushIsTyped ==
  ASSUME NEW partials, NEW p \in Parsers(partials), NEW item \in CallEntry,
         NEW q, q = PushCodexFunctionCall(p, item)
  PROVE  q \in Parsers(partials)
<1>1. PICK id, n : id = Id(item.call, item.item) /\ n = item.pieces
  OBVIOUS
<1>2. id \in Seq(Nat) /\ n \in Nat /\ item \in StepItem
  <2>1. item.call \in Nat /\ item.item \in Nat /\ item.pieces \in Nat
    BY DEF CallEntry
  <2>2. id = <<item.call>> \/ id = <<item.call, item.item>>
    BY <1>1 DEF Id
  <2>3. <<item.call>> \in Seq(Nat) /\ <<item.call, item.item>> \in Seq(Nat)
    BY <2>1
  <2> QED BY <1>1, <2>1, <2>2, <2>3 DEF StepItem
<1>3. CASE Reported(p, id)
  BY <1>1, <1>3, Zenon DEF PushCodexFunctionCall
<1>4. CASE ~Reported(p, id)
  <2>1. PICK text, items, raw, call :
          text = p.text /\ items = p.items /\ raw = p.raw /\ call = [id |-> id, pieces |-> n]
    OBVIOUS
  <2>2. /\ p = [text |-> text, items |-> items, raw |-> raw, partials |-> partials]
        /\ text \in BOOLEAN /\ items \in Seq(StepItem) /\ raw \in Seq(RawCall)
    BY <2>1 DEF Parsers
  <2>3. PICK items1, raw1 : items1 = Append(items, item) /\ raw1 = Append(raw, call)
    OBVIOUS
  <2>4. q = [p EXCEPT !.raw = raw1, !.items = items1]
    BY <1>1, <1>4, <2>1, <2>3, Zenon DEF PushCodexFunctionCall
  <2>5. q = [[text |-> text, items |-> items, raw |-> raw, partials |-> partials]
               EXCEPT !.raw = raw1, !.items = items1]
    BY <2>2, <2>4, Zenon
  <2>6. q = [text |-> text, items |-> items1, raw |-> raw1, partials |-> partials]
    BY <2>5
  <2>7. items1 \in Seq(StepItem)
    BY <1>2, <2>2, <2>3
  <2>8. call \in RawCall
    BY <1>2, <2>1 DEF RawCall
  <2>9. raw1 \in Seq(RawCall)
    BY <2>2, <2>3, <2>8
  <2> QED BY <2>2, <2>6, <2>7, <2>9 DEF Parsers
<1> QED BY <1>3, <1>4

\* So is a call that is done, and every call of a list.
LEMMA ListIsTyped ==
  ASSUME NEW partials, NEW p \in Parsers(partials), NEW asked \in Seq(Calls)
  PROVE  /\ \A call \in Calls : ItemDone(p, call) \in Parsers(partials)
         /\ FoldLeft(ItemDone, p, asked) \in Parsers(partials)
<1>1. ASSUME NEW x \in Parsers(partials), NEW call \in Calls
      PROVE  ItemDone(x, call) \in Parsers(partials)
  <2>1. PICK item : item = CallItem(call, ItemOf[call], Pieces)
    OBVIOUS
  <2>2. item \in CallEntry
    BY <2>1, IdsAreNat, BoundsAreNat DEF CallItem, CallEntry
  <2> QED BY <2>1, <2>2, PushIsTyped DEF ItemDone
<1>2. Doing!Fold(p, asked) \in Parsers(partials)
  BY <1>1, Doing!FoldStays
<1> QED BY <1>1, <1>2, ProviderFolds

\* The calls that were announced are calls when the stream ends.
LEMMA FlushIsTyped ==
  ASSUME NEW partials, NEW p \in Parsers(partials), PartialMap(partials)
  PROVE  FlushPartials(p) \in Parsers(partials)
<1>1. PICK keys, order : keys = DOMAIN partials /\ order = InOrder(keys)
  OBVIOUS
<1>2. order \in Seq(keys)
  BY <1>1, InOrderLists DEF PartialMap
<1>3. ASSUME NEW x \in Parsers(partials), NEW key \in keys
      PROVE  FlushPartial(x, key) \in Parsers(partials)
  <2>1. PICK entry \in PartialCall : entry = partials[key]
    BY <1>1 DEF PartialMap
  <2>2. PICK item : item = CallItem(entry.call, key, entry.pieces)
    OBVIOUS
  <2>3. item \in CallEntry
    BY <1>1, <2>1, <2>2 DEF CallItem, CallEntry, PartialCall, PartialMap
  <2>4. x.partials = partials
    BY DEF Parsers
  <2>5. FlushPartial(x, key) = x \/ FlushPartial(x, key) = PushCodexFunctionCall(x, item)
    BY <2>1, <2>2, <2>4, Zenon DEF FlushPartial
  <2> QED BY <2>3, <2>5, PushIsTyped
<1>4. Flushing!Fold(p, order) \in Parsers(partials)
  BY <1>2, <1>3, Flushing!FoldStays
<1>5. p.partials = partials
  BY DEF Parsers
<1>6. FlushPartials(p) = Flushing!Fold(p, order)
  BY <1>1, <1>5, ProviderFolds, Zenon DEF FlushPartials
<1> QED BY <1>4, <1>6

\* And the pieces of a chat answer are calls and its text.
LEMMA ChatIsTyped ==
  ASSUME NEW partials, NEW p \in Parsers(partials), PartialMap(partials)
  PROVE  CollectChat(p) \in Parsers(partials)
<1>1. PICK keys, order, q : keys = DOMAIN partials /\ order = InOrder(keys) /\ q = CollectChat(p)
  OBVIOUS
<1>2. order \in Seq(keys) /\ Len(order) \in Nat /\ DOMAIN order = 1..Len(order)
  BY <1>1, InOrderLists DEF PartialMap
<1>3. PICK raw, made :
        /\ raw = [i \in DOMAIN order |-> ChatRaw(partials[order[i]])]
        /\ made = [i \in DOMAIN order |->
                     CallItem(partials[order[i]].call, NoItem, partials[order[i]].pieces)]
  OBVIOUS
<1>4. ASSUME NEW i \in DOMAIN order PROVE raw[i] \in RawCall /\ made[i] \in StepItem
  <2>1. PICK entry \in PartialCall : entry = partials[order[i]]
    BY <1>1, <1>2 DEF PartialMap
  <2>2. entry.call \in Nat /\ entry.pieces \in Nat
    BY DEF PartialCall
  <2>3. raw[i] = ChatRaw(entry) /\ made[i] = CallItem(entry.call, NoItem, entry.pieces)
    BY <1>3, <2>1
  <2>4. made[i] \in StepItem
    BY <2>2, <2>3 DEF CallItem, CallEntry, StepItem, NoItem
  <2>5. PICK id : id = (IF entry.named THEN <<entry.call>> ELSE <<>>)
    OBVIOUS
  <2>6. id \in Seq(Nat)
    <3>1. <<entry.call>> \in Seq(Nat) /\ <<>> \in Seq(Nat)
      BY <2>2
    <3> QED BY <2>5, <3>1
  <2>7. raw[i] = [id |-> id, pieces |-> entry.pieces]
    BY <2>3, <2>5, Zenon DEF ChatRaw
  <2> QED BY <2>2, <2>4, <2>6, <2>7 DEF RawCall
<1>5. raw \in Seq(RawCall) /\ made \in Seq(StepItem)
  <2>1. raw \in [1..Len(order) -> RawCall] /\ made \in [1..Len(order) -> StepItem]
    BY <1>2, <1>3, <1>4
  <2> QED BY <1>2, <2>1
<1>6. PICK items : items = <<TextItem>> \o made
  OBVIOUS
<1>7. items \in Seq(StepItem)
  <2>1. TextItem \in StepItem
    BY DEF StepItem
  <2> QED BY <1>5, <1>6, <2>1
<1>8. p.partials = partials
  BY DEF Parsers
<1>9. q = [p EXCEPT !.raw = raw, !.items = items]
  BY <1>1, <1>3, <1>6, <1>8, Zenon DEF CollectChat
<1>10. PICK text, items0, raw0 : text = p.text /\ items0 = p.items /\ raw0 = p.raw
  OBVIOUS
<1>11. p = [text |-> text, items |-> items0, raw |-> raw0, partials |-> partials] /\ text \in BOOLEAN
  BY <1>10 DEF Parsers
<1>12. q = [[text |-> text, items |-> items0, raw |-> raw0, partials |-> partials]
              EXCEPT !.raw = raw, !.items = items]
  BY <1>9, <1>11, Zenon
<1>13. q = [text |-> text, items |-> items, raw |-> raw, partials |-> partials]
  BY <1>12
<1> QED BY <1>1, <1>5, <1>7, <1>11, <1>13 DEF Parsers

\* A partial call that is named or gets a piece is a partial call.
LEMMA PartialIsHeld ==
  ASSUME NEW p, Held(p), NEW key \in Nat, NEW call \in Nat, NEW named \in BOOLEAN
  PROVE  /\ Held(SetPartial(p, key, [PartialOf(p, key) EXCEPT !.call = call, !.named = named]))
         /\ Held(SetPartial(p, key, [PartialOf(p, key) EXCEPT !.pieces = @ + 1]))
<1>1. PICK partials : partials = p.partials
  OBVIOUS
<1>2. p \in Parsers(partials) /\ PartialMap(partials)
  BY <1>1 DEF Held
<1>3. PICK entry : entry = PartialOf(p, key)
  OBVIOUS
<1>4. entry \in PartialCall
  <2>1. CASE key \in DOMAIN partials
    BY <1>1, <1>2, <1>3, <2>1 DEF PartialOf, PartialMap
  <2>2. CASE key \notin DOMAIN partials
    <3>1. PICK no : no = FALSE
      OBVIOUS
    <3>2. entry = [call |-> key, named |-> no, pieces |-> 0]
      BY <1>1, <1>3, <2>2, <3>1, Zenon DEF PartialOf, NewPartial
    <3>3. no \in BOOLEAN
      BY <3>1
    <3> QED BY <3>2, <3>3 DEF PartialCall
  <2> QED BY <2>1, <2>2
<1>5. ASSUME NEW new \in PartialCall PROVE Held(SetPartial(p, key, new))
  <2>1. PICK q : q = SetPartial(p, key, new)
    OBVIOUS
  <2>2. /\ q \in Parsers(q.partials)
        /\ DOMAIN q.partials = DOMAIN partials \cup {key}
        /\ q.partials[key] = new
        /\ \A k \in DOMAIN partials : k # key => q.partials[k] = partials[k]
    BY <1>2, <2>1, PartialIsSet
  <2>3. IsFiniteSet(DOMAIN partials \cup {key})
    BY <1>2, FS_AddElement DEF PartialMap
  <2>4. \A k \in DOMAIN q.partials : q.partials[k] \in PartialCall
    BY <1>2, <2>2 DEF PartialMap
  <2>5. PartialMap(q.partials)
    BY <1>2, <2>2, <2>3, <2>4 DEF PartialMap
  <2> QED BY <2>1, <2>2, <2>5 DEF Held
<1>6. PICK call0, named0, pieces0 : call0 = entry.call /\ named0 = entry.named /\ pieces0 = entry.pieces
  OBVIOUS
<1>7. PICK bare : bare = [call |-> call0, named |-> named0, pieces |-> pieces0]
  OBVIOUS
<1>8. entry = bare /\ call0 \in Nat /\ named0 \in BOOLEAN /\ pieces0 \in Nat
  BY <1>4, <1>6, <1>7 DEF PartialCall
<1>9. [entry EXCEPT !.call = call, !.named = named] \in PartialCall
  <2>1. [bare EXCEPT !.call = call, !.named = named]
          = [call |-> call, named |-> named, pieces |-> pieces0]
    <3>1. PICK next : next = [bare EXCEPT !.call = call, !.named = named]
      OBVIOUS
    <3>2. next = [[call |-> call0, named |-> named0, pieces |-> pieces0]
                    EXCEPT !.call = call, !.named = named]
      BY <1>7, <3>1, Zenon
    <3>3. next = [call |-> call, named |-> named, pieces |-> pieces0]
      BY <3>2, PartialIsNamed, Zenon
    <3> QED BY <3>1, <3>3, Zenon
  <2>2. [call |-> call, named |-> named, pieces |-> pieces0] \in PartialCall
    BY <1>8 DEF PartialCall
  <2> QED BY <1>8, <2>1, <2>2, Zenon
<1>10. [entry EXCEPT !.pieces = @ + 1] \in PartialCall
  <2>1. [bare EXCEPT !.pieces = @ + 1]
          = [call |-> call0, named |-> named0, pieces |-> pieces0 + 1]
    BY <1>7, <1>8, PartialGrows
  <2>2. [call |-> call0, named |-> named0, pieces |-> pieces0 + 1] \in PartialCall
    BY <1>8 DEF PartialCall
  <2> QED BY <1>8, <2>1, <2>2, Zenon
<1> QED BY <1>3, <1>5, <1>9, <1>10, Zenon

\* An event of the stream leaves the prompt where it is.
LEMMA PromptReceives ==
  ASSUME PromptInv, phase = "stream", NEW p, NEW r, Receive(p, r), Held(p), SameAnswer(r, reply)
  PROVE  PromptInv'
<1>1. /\ parser' = p /\ reply' = r /\ wire' = wire /\ history' = history /\ messages' = messages
      /\ phase' = phase /\ calls' = calls /\ paused' = paused
  BY DEF Receive
<1>2. r \in ReplyRecord /\ Asks(r)
  BY DEF SameAnswer
<1>3. PromptSeeded'
  BY <1>1 DEF PromptInv, PromptSeeded
<1> QED BY <1>1, <1>2, <1>3 DEF PromptInv, Held, Asks

\* So does every event there is.
LEMMA PromptStreams ==
  ASSUME PromptInv, Streaming,
         \/ TextArrives \/ CodexMessageDone \/ ChatDone
         \/ \E lists \in BOOLEAN : CodexCompleted(lists)
         \/ \E i \in DOMAIN reply.calls :
              \/ CodexItemAdded(i) \/ CodexArguments(i) \/ CodexItemDone(i)
              \/ ChatCallHead(i) \/ ChatCallArguments(i)
  PROVE  PromptInv'
<1>1. PICK p, partials, asked : p = parser /\ partials = parser.partials /\ asked = reply.calls
  OBVIOUS
<1>2. /\ p \in Parsers(partials) /\ PartialMap(partials) /\ Held(p) /\ p.partials = partials
      /\ phase = "stream" /\ reply \in ReplyRecord /\ Asks(reply) /\ asked \in Seq(Calls)
      /\ \A i \in DOMAIN asked : asked[i] \in Calls /\ asked[i] \in Nat /\ i \in Nat
                                   /\ Key(asked[i]) \in Nat
  <2>1. Held(p) /\ phase = "stream" /\ reply \in ReplyRecord /\ Asks(reply)
    BY <1>1 DEF PromptInv, Streaming
  <2>2. asked \in Seq(Calls) /\ \A i \in DOMAIN asked : asked[i] \in Calls /\ i \in Nat
    BY <1>1, <2>1, ReplyIsTyped
  <2>3. \A call \in Calls : call \in Nat /\ Key(call) \in Nat
    BY IdsAreNat DEF Key, FunctionCall
  <2> QED BY <1>1, <2>1, <2>2, <2>3 DEF Held
<1>3. ASSUME NEW q \in Parsers(partials) PROVE Held(q)
  BY <1>2 DEF Held, Parsers
<1>4. ASSUME TextArrives PROVE PromptInv'
  <2>1. Receive([p EXCEPT !.text = TRUE], reply) /\ SameAnswer(reply, reply)
    BY <1>1, <1>2, <1>4, RepliesMove DEF TextArrives
  <2>2. Held([p EXCEPT !.text = TRUE])
    BY <1>2, <1>3, TextIsTyped
  <2> QED BY <1>2, <2>1, <2>2, PromptReceives
<1>5. ASSUME CodexMessageDone PROVE PromptInv'
  <2>1. PICK s : s = [reply EXCEPT !.said = TRUE]
    OBVIOUS
  <2>2. Receive(MessageDone(p), s) /\ SameAnswer(s, reply)
    BY <1>1, <1>2, <1>5, <2>1, RepliesMove DEF CodexMessageDone
  <2>3. Held(MessageDone(p))
    BY <1>2, <1>3, TextIsTyped
  <2> QED BY <1>2, <2>2, <2>3, PromptReceives
<1>6. ASSUME ChatDone PROVE PromptInv'
  <2>1. PICK s : s = [reply EXCEPT !.whole = TRUE]
    OBVIOUS
  <2>2. Receive(p, s) /\ SameAnswer(s, reply)
    BY <1>1, <1>2, <1>6, <2>1, RepliesMove DEF ChatDone
  <2> QED BY <1>2, <2>2, PromptReceives
<1>7. ASSUME NEW lists \in BOOLEAN, CodexCompleted(lists) PROVE PromptInv'
  <2>1. PICK q, s : /\ q = (IF lists THEN Completed(p, asked, reply.text) ELSE p)
                    /\ s = [reply EXCEPT !.whole = TRUE]
    OBVIOUS
  <2>2. Receive(q, s) /\ SameAnswer(s, reply)
    BY <1>1, <1>2, <1>7, <2>1, RepliesMove DEF CodexCompleted
  <2>3. q \in Parsers(partials)
    <3>1. PICK base : base = (IF reply.text THEN MessageListed(p) ELSE p)
      OBVIOUS
    <3>2. base \in Parsers(partials)
      BY <1>2, <3>1, TextIsTyped
    <3>3. FoldLeft(ItemDone, base, asked) \in Parsers(partials)
      BY <1>2, <3>2, ListIsTyped
    <3>4. Completed(p, asked, reply.text) = FoldLeft(ItemDone, base, asked)
      BY <3>1, Zenon DEF Completed
    <3> QED BY <1>2, <2>1, <3>3, <3>4
  <2> QED BY <1>2, <1>3, <2>2, <2>3, PromptReceives
<1>8. ASSUME NEW i \in DOMAIN asked, CodexItemAdded(i) PROVE PromptInv'
  <2>1. PICK call, key, s : call = asked[i] /\ key = Key(call) /\ s = [reply EXCEPT !.added = @ \cup {i}]
    OBVIOUS
  <2>2. PICK q, yes : yes = TRUE
          /\ q = SetPartial(p, key, [PartialOf(p, key) EXCEPT !.call = call, !.named = yes])
    OBVIOUS
  <2>3. q = ItemAdded(p, call)
    BY <2>1, <2>2, Zenon DEF ItemAdded
  <2>4. Receive(q, s) /\ SameAnswer(s, reply)
    BY <1>1, <1>2, <1>8, <2>1, <2>3, RepliesMove DEF CodexItemAdded
  <2>5. Held(q)
    <3>1. call \in Nat /\ key \in Nat /\ yes \in BOOLEAN
      BY <1>2, <2>1, <2>2
    <3> QED BY <1>2, <2>2, <3>1, PartialIsHeld
  <2> QED BY <1>2, <2>4, <2>5, PromptReceives
<1>9. ASSUME NEW i \in DOMAIN asked, ChatCallHead(i) PROVE PromptInv'
  <2>1. PICK call, s : call = asked[i] /\ s = [reply EXCEPT !.added = @ \cup {i}]
    OBVIOUS
  <2>2. PICK q, yes : yes = TRUE
          /\ q = SetPartial(p, i, [PartialOf(p, i) EXCEPT !.call = call, !.named = yes])
    OBVIOUS
  <2>3. q = ChatHead(p, i)
    BY <1>1, <2>1, <2>2, Zenon DEF ChatHead
  <2>4. Receive(q, s) /\ SameAnswer(s, reply)
    BY <1>1, <1>2, <1>9, <2>1, <2>3, RepliesMove DEF ChatCallHead
  <2>5. Held(q)
    <3>1. call \in Nat /\ i \in Nat /\ yes \in BOOLEAN
      BY <1>2, <2>1, <2>2
    <3> QED BY <1>2, <2>2, <3>1, PartialIsHeld
  <2> QED BY <1>2, <2>4, <2>5, PromptReceives
<1>10. ASSUME NEW i \in DOMAIN asked, CodexArguments(i) \/ ChatCallArguments(i) PROVE PromptInv'
  <2>1. PICK s, q, key : /\ s = [reply EXCEPT !.sent[i] = @ + 1]
                         /\ key \in {i, Key(asked[i])}
                         /\ q = SetPartial(p, key, [PartialOf(p, key) EXCEPT !.pieces = @ + 1])
                         /\ Receive(q, s)
    <3>1. CASE CodexArguments(i)
      <4>1. Receive(ArgumentsDelta(p, asked[i]), [reply EXCEPT !.sent[i] = @ + 1])
        BY <1>1, <3>1 DEF CodexArguments
      <4> QED BY <4>1, Zenon DEF ArgumentsDelta
    <3>2. CASE ChatCallArguments(i)
      <4>1. Receive(ChatArguments(p, i), [reply EXCEPT !.sent[i] = @ + 1])
        BY <1>1, <3>2 DEF ChatCallArguments
      <4> QED BY <4>1, Zenon DEF ChatArguments
    <3> QED BY <1>10, <3>1, <3>2
  <2>2. SameAnswer(s, reply)
    BY <1>1, <1>2, <2>1, RepliesMove
  <2>3. Held(q)
    <3>1. PICK yes : yes = TRUE
      OBVIOUS
    <3>2. key \in Nat /\ i \in Nat /\ yes \in BOOLEAN
      BY <1>2, <2>1, <3>1
    <3> QED BY <1>2, <2>1, <3>2, PartialIsHeld
  <2> QED BY <1>2, <2>1, <2>2, <2>3, PromptReceives
<1>11. ASSUME NEW i \in DOMAIN asked, CodexItemDone(i) PROVE PromptInv'
  <2>1. PICK call, q, s : /\ call = asked[i] /\ q = ItemDone(p, call)
                          /\ s = [reply EXCEPT !.done = @ \cup {i}]
    OBVIOUS
  <2>2. Receive(q, s) /\ SameAnswer(s, reply)
    BY <1>1, <1>2, <1>11, <2>1, RepliesMove DEF CodexItemDone
  <2>3. q \in Parsers(partials)
    BY <1>2, <2>1, ListIsTyped
  <2> QED BY <1>2, <1>3, <2>2, <2>3, PromptReceives
<1> QED BY <1>1, <1>4, <1>5, <1>6, <1>7, <1>8, <1>9, <1>10, <1>11

\* The end of an answer puts nothing but its step behind the prompt.
LEMMA PromptParses ==
  ASSUME PromptInv, phase = "stream", NEW whole \in BOOLEAN, NEW p, Held(p), ParseStep(p, whole)
  PROVE  PromptInv'
<1>1. PICK raw, more : raw = p.raw /\ more = Kept(p)
  OBVIOUS
<1>2. /\ reply' = [reply EXCEPT !.open = FALSE, !.whole = whole] /\ parser' = p
      /\ wire' = wire /\ history' = history /\ paused' = paused
  BY DEF ParseStep
<1>3. reply' \in ReplyRecord /\ Asks(reply')
  <2>1. PICK r, s : r = reply /\ s = [r EXCEPT !.open = FALSE, !.whole = whole]
    OBVIOUS
  <2>2. r \in ReplyRecord /\ Asks(r)
    BY <2>1 DEF PromptInv
  <2>3. s \in ReplyRecord
    BY <2>1, <2>2 DEF ReplyRecord
  <2>4. s.calls = r.calls /\ s.sent = r.sent /\ s.done = r.done /\ s.added = r.added
    BY <2>1, <2>2 DEF ReplyRecord
  <2>5. Asks(s)
    BY <2>2, <2>4 DEF Asks
  <2> QED BY <1>2, <2>1, <2>3, <2>5
<1>4. more \in Seq(Entry) /\ NoPromptIn(more) /\ raw \in Seq(RawCall)
  BY <1>1, KeptIsTheStep DEF Held, Parsers
<1>5. messages # <<>> /\ OnePromptIn(messages) /\ messages \in Seq(Entry)
  BY DEF PromptInv, PromptSeeded
<1>6. CASE WellFormed(raw)
  <2>1. messages' = messages \o more /\ calls' = raw /\ phase' = "tools"
    BY <1>1, <1>6 DEF ParseStep
  <2>2. PICK new : new = messages \o more
    OBVIOUS
  <2>3. new \in Seq(Entry) /\ OnePromptIn(new) /\ new # <<>>
    <3>1. new \in Seq(Entry)
      BY <1>4, <1>5, <2>2
    <3> QED BY <1>4, <1>5, <2>2, <3>1, PromptStays
  <2>4. \A i \in DOMAIN raw : raw[i].id # <<>>
    BY <1>6 DEF WellFormed
  <2>5. messages' \in Seq(Entry) /\ PromptSeeded'
    BY <2>1, <2>2, <2>3 DEF PromptSeeded
  <2> QED BY <1>2, <1>3, <1>4, <2>1, <2>4, <2>5 DEF PromptInv, Held, Asks
<1>7. CASE ~WellFormed(raw)
  <2>1. messages' = messages /\ calls' = calls /\ phase' = "failed"
    BY <1>1, <1>7 DEF ParseStep
  <2>2. PromptSeeded'
    BY <1>5, <2>1 DEF PromptSeeded
  <2> QED BY <1>2, <1>3, <2>1, <2>2 DEF PromptInv, Held, Asks
<1> QED BY <1>6, <1>7

\* Streamed or in one message, the answer ends so.
LEMMA PromptEnds ==
  ASSUME PromptInv, EndOfStream \/ ChatMessage
  PROVE  PromptInv'
<1>1. PICK p, partials : p = parser /\ partials = parser.partials
  OBVIOUS
<1>2. p \in Parsers(partials) /\ PartialMap(partials) /\ reply \in ReplyRecord /\ Asks(reply)
  BY <1>1 DEF PromptInv, Held
<1>3. ASSUME EndOfStream PROVE PromptInv'
  <2>1. PICK q, whole : q = Collected(p) /\ whole = reply.whole
    OBVIOUS
  <2>2. q \in Parsers(partials)
    BY <1>2, <2>1, FlushIsTyped, ChatIsTyped DEF Collected
  <2>3. Held(q) /\ whole \in BOOLEAN
    BY <1>2, <2>1, <2>2 DEF Held, Parsers, ReplyRecord
  <2>4. phase = "stream" /\ ParseStep(q, whole)
    BY <1>1, <1>3, <2>1, Zenon DEF EndOfStream
  <2> QED BY <2>3, <2>4, PromptParses
<1>4. ASSUME ChatMessage PROVE PromptInv'
  <2>1. PICK asked, yes, no, all : /\ asked = reply.calls /\ yes = TRUE /\ no = FALSE
                                   /\ all = AllPartials(asked)
    OBVIOUS
  <2>2. PICK base, q : base = [EmptyParser EXCEPT !.partials = all] /\ q = CollectChat(base)
    OBVIOUS
  <2>3. phase = "stream" /\ ParseStep(q, yes)
    BY <1>4, <2>1, <2>2, Zenon DEF ChatMessage, Streaming
  <2>4. base \in Parsers(all)
    <3>1. EmptyParser = [text |-> no, items |-> <<>>, raw |-> <<>>, partials |-> <<>>]
      BY <2>1, Zenon DEF EmptyParser
    <3>2. base = [[text |-> no, items |-> <<>>, raw |-> <<>>, partials |-> <<>>]
                    EXCEPT !.partials = all]
      BY <2>2, <3>1, Zenon
    <3>3. base = [text |-> no, items |-> <<>>, raw |-> <<>>, partials |-> all]
      BY <3>2
    <3>4. <<>> \in Seq(StepItem) /\ <<>> \in Seq(RawCall)
      OBVIOUS
    <3>5. no \in BOOLEAN
      BY <2>1
    <3> QED BY <3>3, <3>4, <3>5 DEF Parsers
  <2>5. PartialMap(all)
    <3>1. /\ IsFiniteSet(DOMAIN asked)
          /\ \A k \in DOMAIN asked : asked[k] \in Calls /\ k \in Nat
      BY <1>2, <2>1, ReplyIsTyped
    <3>2. DOMAIN all = DOMAIN asked
      BY <2>1 DEF AllPartials
    <3>3. ASSUME NEW k \in DOMAIN asked PROVE all[k] \in PartialCall
      <4>1. all[k] = [call |-> asked[k], named |-> yes, pieces |-> Pieces]
        BY <2>1, Zenon DEF AllPartials
      <4>2. asked[k] \in Nat /\ Pieces \in Nat
        BY <3>1, IdsAreNat, BoundsAreNat
      <4>3. yes \in BOOLEAN
        BY <2>1
      <4> QED BY <4>1, <4>2, <4>3 DEF PartialCall
    <3> QED BY <3>1, <3>2, <3>3 DEF PartialMap
  <2>6. q \in Parsers(all)
    BY <2>2, <2>4, <2>5, ChatIsTyped
  <2>7. Held(q)
    BY <2>5, <2>6 DEF Held, Parsers
  <2>8. yes \in BOOLEAN
    BY <2>1
  <2> QED BY <2>3, <2>7, <2>8, PromptParses
<1> QED BY <1>3, <1>4

\* A result goes behind the prompt.
LEMMA PromptIsBefore ==
  ASSUME NEW old \in Seq(Entry), OnePromptIn(old), NEW id \in Seq(Nat), id # <<>>,
         NEW new, new = ObserveToolResult(old, id)
  PROVE  new \in Seq(Entry) /\ OnePromptIn(new) /\ new # <<>>
<1>1. PICK output, more : output = [kind |-> "output", answers |-> <<id[1]>>] /\ more = <<output>>
  OBVIOUS
<1>2. output \in OutputEntry
  <2>1. id[1] \in Nat
    OBVIOUS
  <2>2. <<id[1]>> \in Seq(Nat)
    BY <2>1
  <2> QED BY <1>1, <2>2 DEF OutputEntry
<1>3. output \in Entry /\ ~IsPrompt(output)
  BY <1>2, EntryKinds DEF Entry
<1>4. more \in Seq(Entry) /\ NoPromptIn(more)
  BY <1>1, <1>3 DEF NoPromptIn
<1>5. new = old \o more
  <2>1. new = Append(old, output)
    BY <1>1 DEF ObserveToolResult
  <2> QED BY <1>1, <1>3, <2>1
<1>6. new \in Seq(Entry)
  BY <1>4, <1>5
<1> QED BY <1>4, <1>5, <1>6, PromptStays

\* Every step of the turn leaves the prompt in the request once.
LEMMA PromptSteps ==
  ASSUME PromptInv, [ProviderNext]_providerVars
  PROVE  PromptInv'
<1>1. /\ wire \in {"codex", "chat"} /\ messages \in Seq(Entry) /\ reply \in ReplyRecord /\ Asks(reply)
      /\ calls \in Seq(RawCall) /\ (\A i \in DOMAIN calls : calls[i].id # <<>>)
      /\ paused.id \in Seq(Nat)
  BY DEF PromptInv
<1>2. phase # "ask" => messages # <<>> /\ OnePromptIn(messages)
  BY DEF PromptInv, PromptSeeded
<1>3. Held(EmptyParser)
  <2>1. PartialMap(<<>>)
    <3>1. DOMAIN <<>> = {}
      OBVIOUS
    <3>2. IsFiniteSet({})
      BY FS_EmptySet
    <3> QED BY <3>1, <3>2 DEF PartialMap
  <2> QED BY <2>1, NothingIsTyped DEF Held
<1>4. ASSUME NextStep \/ RequestFails PROVE PromptInv'
  <2>1. PICK sent : sent = Request
    OBVIOUS
  <2>2. sent \in Seq(Entry) /\ sent # <<>> /\ OnePromptIn(sent)
    <3>1. CASE messages # <<>>
      BY <1>1, <2>1, <3>1 DEF Request, PromptInv, PromptSeeded
    <3>2. CASE messages = <<>>
      <4>1. sent = SeedMessages(Shown)
        BY <2>1, <3>2 DEF Request
      <4>2. sent \in Seq(HistoryMessage) /\ OnePromptIn(sent)
        BY <4>1, SeedHasThePrompt DEF PromptInv
      <4>3. sent \in Seq(Entry)
        BY <4>2 DEF Entry
      <4> QED BY <4>2, <4>3 DEF OnePromptIn
    <3> QED BY <3>1, <3>2
  <2>3. /\ messages' = sent /\ parser' = EmptyParser
        /\ wire' = wire /\ history' = history /\ calls' = calls /\ paused' = paused
    BY <1>4, <2>1 DEF NextStep, RequestFails
  <2>4. reply' \in ReplyRecord /\ Asks(reply')
    <3>1. CASE RequestFails
      BY <3>1, NothingIsTyped DEF RequestFails
    <3>2. CASE NextStep
      <4>1. PICK asked \in Replies, text \in BOOLEAN :
              reply' = [NoReply EXCEPT !.calls = asked, !.text = text, !.open = TRUE,
                                       !.sent = [i \in DOMAIN asked |-> 0]]
        BY <3>2 DEF NextStep
      <4>2. asked \in Seq(Calls) /\ IsInjective(asked)
        BY <1>1, RepliesAreFresh
      <4>3. PICK r : r = reply'
        OBVIOUS
      <4>4. Begins(r, asked, text)
        BY <4>1, <4>3, Zenon DEF Begins
      <4> QED BY <4>2, <4>3, <4>4, AnswerBegins
    <3> QED BY <1>4, <3>1, <3>2
  <2>5. PromptSeeded'
    BY <2>2, <2>3 DEF PromptSeeded
  <2> QED BY <1>3, <2>2, <2>3, <2>4, <2>5 DEF PromptInv, Held, Asks
<1>5. ASSUME CodexFailed \/ StepEnds PROVE PromptInv'
  <2>1. /\ phase # "ask" /\ wire' = wire /\ history' = history /\ messages' = messages /\ reply' = reply
        /\ parser' = parser /\ calls' = calls /\ paused' = paused
    BY <1>5 DEF CodexFailed, StepEnds, Streaming
  <2>2. PromptSeeded'
    BY <1>2, <2>1 DEF PromptSeeded
  <2> QED BY <2>1, <2>2 DEF PromptInv, Held, Asks
<1>6. ASSUME RunTool PROVE PromptInv'
  <2>1. PICK id, new, rest : /\ id = calls[1].id /\ new = ObserveToolResult(messages, id)
                             /\ rest = Tail(calls)
    OBVIOUS
  <2>2. /\ phase = "tools" /\ calls # <<>> /\ calls' = rest /\ wire' = wire /\ history' = history
        /\ phase' = phase /\ reply' = reply /\ parser' = parser /\ paused' = paused
        /\ messages' = ObserveToolResult(messages, Head(calls).id)
    BY <1>6, <2>1 DEF RunTool
  <2>3. 1 \in DOMAIN calls /\ calls[1] \in RawCall /\ Head(calls) = calls[1]
    BY <1>1, <2>2
  <2>4. id \in Seq(Nat) /\ id # <<>>
    BY <1>1, <2>1, <2>3 DEF RawCall
  <2>5. new \in Seq(Entry) /\ OnePromptIn(new) /\ new # <<>>
    BY <1>1, <1>2, <2>1, <2>2, <2>4, PromptIsBefore
  <2>6. rest \in Seq(RawCall) /\ \A i \in DOMAIN rest : rest[i].id # <<>>
    <3>1. /\ rest \in Seq(RawCall)
          /\ \A i \in DOMAIN rest : i + 1 \in DOMAIN calls /\ rest[i] = calls[i + 1]
      BY <1>1, <2>1, <2>2
    <3> QED BY <1>1, <3>1
  <2>7. messages' = new
    BY <2>1, <2>2, <2>3
  <2>8. PromptSeeded'
    BY <2>5, <2>7 DEF PromptSeeded
  <2> QED BY <2>2, <2>5, <2>6, <2>7, <2>8 DEF PromptInv, Held, Asks
<1>7. ASSUME NEW ask, PauseStep(ask) PROVE PromptInv'
  <2>1. /\ phase = "tools" /\ calls # <<>> /\ calls' = <<>> /\ wire' = wire /\ history' = history
        /\ phase' = "paused" /\ reply' = reply /\ parser' = parser /\ messages' = messages
        /\ paused' = [NoCall EXCEPT !.id = Head(calls).id, !.pieces = Head(calls).pieces, !.ask = ask]
    BY <1>7 DEF PauseStep
  <2>2. Head(calls) \in RawCall
    BY <1>1, <2>1
  <2>3. paused'.id \in Seq(Nat)
    BY <2>1, <2>2 DEF NoCall, RawCall
  <2>4. PromptSeeded'
    BY <1>2, <2>1 DEF PromptSeeded
  <2>5. calls' \in Seq(RawCall) /\ DOMAIN calls' = {}
    BY <2>1
  <2> QED BY <2>1, <2>3, <2>4, <2>5 DEF PromptInv, Held, Asks
<1>8. ASSUME ProviderRestarts PROVE PromptInv'
  <2>1. /\ phase = "paused" /\ calls' = calls /\ wire' = wire /\ history' = history
        /\ phase' = phase /\ reply' = NoReply /\ parser' = EmptyParser /\ messages' = messages
    BY <1>8 DEF ProviderRestarts
  <2>2. paused'.id \in Seq(Nat)
    BY <1>1, <1>8, RestartIds
  <2>3. PromptSeeded'
    BY <1>2, <2>1 DEF PromptSeeded
  <2> QED BY <1>3, <2>1, <2>2, <2>3, NothingIsTyped DEF PromptInv, Held, Asks
<1>9. ASSUME Resume PROVE PromptInv'
  <2>1. PICK id, new : id = paused.id /\ new = ObserveToolResult(messages, id)
    OBVIOUS
  <2>2. /\ phase = "paused" /\ id # <<>> /\ calls' = calls /\ wire' = wire /\ history' = history
        /\ reply' = reply /\ parser' = parser /\ paused' = NoCall /\ messages' = new
    BY <1>9, <2>1 DEF Resume
  <2>3. new \in Seq(Entry) /\ OnePromptIn(new) /\ new # <<>>
    BY <1>1, <1>2, <2>1, <2>2, PromptIsBefore
  <2>4. PromptSeeded'
    BY <2>2, <2>3 DEF PromptSeeded
  <2>5. paused'.id \in Seq(Nat)
    <3>1. <<>> \in Seq(Nat)
      OBVIOUS
    <3> QED BY <2>2, <3>1, NothingIsTyped
  <2> QED BY <2>2, <2>3, <2>4, <2>5 DEF PromptInv, Held, Asks
<1>10. ASSUME ResumeUnanswered PROVE PromptInv'
  <2>1. /\ phase = "paused" /\ calls' = calls /\ wire' = wire /\ history' = history
        /\ reply' = reply /\ parser' = parser /\ paused' = NoCall /\ messages' = messages
    BY <1>10 DEF ResumeUnanswered
  <2>2. PromptSeeded'
    BY <1>2, <2>1 DEF PromptSeeded
  <2>3. paused'.id \in Seq(Nat)
    <3>1. <<>> \in Seq(Nat)
      OBVIOUS
    <3> QED BY <2>1, <3>1, NothingIsTyped
  <2> QED BY <2>1, <2>2, <2>3 DEF PromptInv, Held, Asks
<1>11. ASSUME Stream PROVE PromptInv'
  <2>1. ASSUME \/ TextArrives \/ CodexMessageDone \/ ChatDone
               \/ \E lists \in BOOLEAN : CodexCompleted(lists)
               \/ \E i \in DOMAIN reply.calls :
                    \/ CodexItemAdded(i) \/ CodexArguments(i) \/ CodexItemDone(i)
                    \/ ChatCallHead(i) \/ ChatCallArguments(i)
        PROVE  PromptInv'
    <3>1. Streaming
      BY <2>1 DEF TextArrives, CodexMessageDone, ChatDone, CodexCompleted, CodexItemAdded,
                  CodexArguments, CodexItemDone, ChatCallHead, ChatCallArguments
    <3> QED BY <2>1, <3>1, PromptStreams
  <2>2. ASSUME EndOfStream \/ ChatMessage PROVE PromptInv'
    BY <2>2, PromptEnds
  <2> QED BY <1>5, <1>11, <2>1, <2>2 DEF Stream
<1>12. ASSUME UNCHANGED providerVars PROVE PromptInv'
  <2>1. /\ phase' = phase /\ wire' = wire /\ history' = history /\ messages' = messages /\ reply' = reply
        /\ parser' = parser /\ calls' = calls /\ paused' = paused
    BY <1>12 DEF providerVars
  <2>2. PromptSeeded'
    BY <2>1 DEF PromptInv, PromptSeeded
  <2> QED BY <2>1, <2>2 DEF PromptInv, Held, Asks
<1> QED BY <1>4, <1>5, <1>6, <1>7, <1>8, <1>9, <1>10, <1>11, <1>12 DEF ProviderNext

\* The prompt of the turn is in what is sent once, in every state.
THEOREM PromptIsOnce == ProviderSpec => []PromptIsSentOnce
<1>1. ASSUME ProviderInit PROVE PromptInv
  <2>1. /\ messages = <<>> /\ phase = "ask" /\ reply = NoReply /\ parser = EmptyParser
        /\ calls = <<>> /\ paused = NoCall
    BY <1>1 DEF ProviderInit
  <2>2. <<>> \in Seq(Entry) /\ <<>> \in Seq(RawCall) /\ <<>> \in Seq(Nat) /\ DOMAIN <<>> = {}
    OBVIOUS
  <2>3. PartialMap(<<>>)
    BY <2>2, FS_EmptySet DEF PartialMap
  <2>4. /\ wire \in {"codex", "chat"}
        /\ \E past \in Histories, size \in {0, 1} :
             history = Append(past, [kind |-> "user", turn |-> Turn, size |-> size])
    BY <1>1 DEF ProviderInit
  <2>5. PromptSeeded
    BY <2>1 DEF PromptSeeded
  <2>6. Held(parser)
    BY <2>1, <2>3, NothingIsTyped DEF Held
  <2> QED BY <2>1, <2>2, <2>4, <2>5, <2>6, NothingIsTyped DEF PromptInv
<1>2. PromptInv /\ [ProviderNext]_providerVars => PromptInv'
  BY PromptSteps
<1>3. ASSUME PromptInv PROVE PromptIsSentOnce
  <2>1. ASSUME messages # <<>>
        PROVE  Cardinality({i \in DOMAIN messages : IsPrompt(messages[i])}) = 1
    <3>1. PICK k \in DOMAIN messages : \A i \in DOMAIN messages : IsPrompt(messages[i]) <=> i = k
      BY <1>3, <2>1 DEF PromptInv, PromptSeeded, OnePromptIn
    <3>2. {i \in DOMAIN messages : IsPrompt(messages[i])} = {k}
      BY <3>1
    <3> QED BY <3>2, FS_Singleton
  <2> QED BY <2>1 DEF PromptIsSentOnce
<1> QED BY <1>1, <1>2, <1>3, PTL DEF ProviderSpec
=============================================================================
