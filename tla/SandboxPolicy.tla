--------------------------- MODULE SandboxPolicy ---------------------------
(***************************************************************************)
(* The policy of crate oppi-sandbox: what a command may do, how a policy   *)
(* becomes an execution plan, and what each adapter then enforces.         *)
(*                                                                         *)
(* A path is the sequence of its names; a relative one starts with ".".    *)
(* Symbolic links are left out, so a path is its own canonical form.  The  *)
(* name of a glob stands for every name it matches.                        *)
(***************************************************************************)
EXTENDS Naturals, Sequences, SequencesExt

CONSTANTS
  Here,          \* the directory the process runs in
  Home,          \* the user's directory
  Temp,          \* the directory of temporary files
  GlobNames,     \* names standing for a pattern with a wildcard
  DefaultDirs,   \* patterns every profile protects: directories,
  DefaultFiles   \* and files

Modes == {"readOnly", "default", "autoReview", "fullAccess"}
Networks == {"disabled", "ask", "enabled"}
Filesystems == {"readOnly", "workspaceWrite", "unrestricted"}
Preferences == {"auto", "require", "forbid"}
Accesses == {"read", "write", "none", "readOnly", "readWrite", "denyRead"}
Roots == {"cwd", "workspace", "projectRoots", "home", "temp",
          "platformDefaults", "path"}

Rule(root, path, access) == [root |-> root, path |-> path, access |-> access]

GrantsRead == {"read", "write", "readOnly", "readWrite"}
GrantsWrite == {"write", "readWrite"}
Denies == {"none", "denyRead"}

\* A path has no dot after its first name.
IsPath(p) == p \in Seq(STRING) /\ \A i \in 2..Len(p) : p[i] # "."

\* The policies a client can write down.
IsPolicy(policy) ==
  /\ policy \in
       [profile : [mode : Modes,
                   readable : SUBSET Seq(STRING), writable : SUBSET Seq(STRING),
                   rules : SUBSET [root : Roots, path : Seq(STRING), access : Accesses],
                   dirs : SUBSET STRING, files : SUBSET STRING],
        filesystem : Filesystems, network : Networks]
  /\ \A p \in policy.profile.readable \cup policy.profile.writable : IsPath(p)
  /\ \A rule \in policy.profile.rules : IsPath(rule.path)

-----------------------------------------------------------------------------
(* Paths and patterns.                                                     *)

Relative(p) == p # <<>> /\ p[1] = "."
IsWhole(p) == IsPath(p) /\ ~Relative(p)
Absolute(p, cwd) == IF Relative(p) THEN cwd \o Tail(p) ELSE p

WithinAny(p, roots, cwd) ==
  \E r \in roots : IsPrefix(Absolute(r, cwd), Absolute(p, cwd))

\* A pattern of a directory matches below it and the directory itself, that
\* of a file only the last name.
MatchesDir(p, dir) == dir \in ToSet(p)
MatchesFile(p, file) == p # <<>> /\ Last(p) = file

ProtectedDirs(profile) == DefaultDirs \cup profile.dirs
ProtectedFiles(profile) == DefaultFiles \cup profile.files

TouchesProtectedPattern(policy, request) ==
  LET profile == policy.profile
  IN  \/ \E p \in request.touched :
           \/ \E dir \in ProtectedDirs(profile) : MatchesDir(Absolute(p, Here), dir)
           \/ \E f \in ProtectedFiles(profile) : MatchesFile(Absolute(p, Here), f)
      \/ request.mentions \cap (ProtectedDirs(profile) \cup ProtectedFiles(profile)) # {}

-----------------------------------------------------------------------------
(* The roots of a profile.                                                 *)

EffectiveReadable(profile) ==
  IF profile.readable = {} THEN profile.writable ELSE profile.readable

WorkspaceRoots(profile) == EffectiveReadable(profile) \cup profile.writable

RulePaths(rule, profile, cwd) ==
  CASE rule.root = "cwd" -> {cwd}
    [] rule.root \in {"workspace", "projectRoots"} ->
         {root \o rule.path : root \in WorkspaceRoots(profile)}
    [] rule.root = "home" -> {Home}
    [] rule.root = "temp" -> {Temp}
    [] rule.root = "path" -> {rule.path}
    [] OTHER -> {}

RootsOf(profile, cwd, accesses) ==
  UNION {RulePaths(rule, profile, cwd) :
           rule \in {r \in profile.rules : r.access \in accesses}}

WritableForRequest(profile, cwd) == profile.writable \cup RootsOf(profile, cwd, GrantsWrite)
ReadableForRequest(profile, cwd) ==
  EffectiveReadable(profile) \cup RootsOf(profile, cwd, GrantsRead)
\* Without a request a rule for the current directory stays relative.
EffectiveWritable(profile) == WritableForRequest(profile, <<".">>)

DeniedPaths(profile, cwd) == RootsOf(profile, cwd, Denies)

-----------------------------------------------------------------------------
(* Policies: the default of a mode, and the policy of the user's settings. *)

DefaultPolicy(profile) ==
  [profile |-> profile,
   filesystem |-> CASE profile.mode = "readOnly" -> "readOnly"
                    [] profile.mode = "fullAccess" -> "unrestricted"
                    [] OTHER -> "workspaceWrite",
   network |-> IF profile.mode = "fullAccess" THEN "enabled" ELSE "ask"]

PolicyFromUserConfig(config) ==
  LET OrProject(roots) == IF roots = {} THEN config.project ELSE roots
  IN  [profile |-> [mode |-> "autoReview",
                    readable |-> OrProject(config.readable),
                    writable |-> OrProject(config.writable),
                    rules |-> config.rules, dirs |-> config.dirs, files |-> config.files],
       filesystem |-> "workspaceWrite",
       network |-> IF config.internet \/ config.ssh THEN "enabled" ELSE "disabled"]

-----------------------------------------------------------------------------
(* The decision about a command.                                           *)

WriteScopeWithinRoots(request, profile) ==
  LET roots == WritableForRequest(profile, request.cwd)
  IN  /\ WithinAny(request.cwd, roots, Here)
      /\ \A p \in request.touched : WithinAny(p, roots, request.cwd)

TouchesDeniedRule(policy, request) ==
  \E root \in DeniedPaths(policy.profile, request.cwd) :
     \/ WithinAny(request.cwd, {root}, Here)
     \/ \E p \in request.touched : WithinAny(p, {root}, request.cwd)

EvaluateExec(policy, request) ==
  IF request.protected \/ TouchesProtectedPattern(policy, request) THEN "askProtected"
  ELSE IF \/ TouchesDeniedRule(policy, request)
          \/ request.writes /\ policy.filesystem = "readOnly"
          \/ /\ request.writes /\ policy.filesystem = "workspaceWrite"
             /\ ~WriteScopeWithinRoots(request, policy.profile)
          \/ request.network /\ policy.network = "disabled"
       THEN "deny"
  ELSE IF \/ request.network /\ policy.network = "ask"
          \/ request.writes /\ policy.profile.mode = "autoReview"
       THEN "ask"
  ELSE "allow"

-----------------------------------------------------------------------------
(* The plan.  The machine has at most one adapter.                         *)

DetectTypes(platform, installed) ==
  IF ~installed THEN "none"
  ELSE CASE platform = "macos" -> "seatbelt"
         [] platform = "linux" -> "bubblewrap"
         [] platform = "windows" -> "windowsToken"
         [] OTHER -> "none"

Enforcement(preference, available) ==
  CASE preference = "forbid" -> "none"
    [] available # "none" -> "osSandbox"
    [] OTHER -> IF preference = "require" THEN "none" ELSE "reviewOnly"

Metadata == {".git", ".agents", ".codex"}

ASSUME PathsAssumption ==
  /\ IsPath(Home) /\ IsPath(Temp)
  /\ \A name \in Metadata : IsPath(<<".", name>>)
  /\ GlobNames \cap (Metadata \cup {"."}) = {}

ProtectedMetadata(roots) ==
  {Rule("path", root \o <<name>>, "none") : root \in roots, name \in Metadata}

ConcreteRules(policy) ==
  LET profile == policy.profile
      readable == EffectiveReadable(profile)
      written == IF policy.filesystem = "readOnly" THEN {} ELSE EffectiveWritable(profile)
  IN  {Rule("path", root, "read") : root \in readable}
        \cup (IF readable = {} THEN {Rule("cwd", <<>>, "read")} ELSE {})
        \cup {Rule("path", root, "write") : root \in written}
        \cup profile.rules
        \cup {Rule("path", <<".", name>>, "none") :
                name \in ProtectedDirs(profile) \cup ProtectedFiles(profile)}
        \cup ProtectedMetadata(written)

ResolvedRules(rules, profile, cwd) ==
  UNION {LET paths == RulePaths(rule, profile, cwd)
         IN  IF paths = {} THEN {rule}
             ELSE {Rule("path", path, rule.access) : path \in paths} : rule \in rules}

Plan(policy, request, preference, available) ==
  LET enforcement == Enforcement(preference, available)
  IN  [cwd |-> request.cwd,
       type |-> IF enforcement = "osSandbox" THEN available ELSE "none",
       enforcement |-> enforcement,
       filesystem |-> policy.filesystem,
       network |-> policy.network,
       readable |-> ReadableForRequest(policy.profile, request.cwd),
       writable |-> IF policy.filesystem = "readOnly" THEN {}
                    ELSE WritableForRequest(policy.profile, request.cwd),
       rules |-> ResolvedRules(ConcreteRules(policy), policy.profile, request.cwd)]

\* The decision of transform: no plan is made when it denies.
Transform(policy, request, preference, available) ==
  IF preference = "require" /\ Enforcement(preference, available) # "osSandbox"
  THEN "deny"
  ELSE EvaluateExec(policy, request)

RequiresOsEnforcement(policy) ==
  policy.filesystem # "unrestricted" \/ policy.network # "enabled"

\* No adapter routes a managed network yet: such a plan is always refused.
RefusesPlan(policy, plan, managed) ==
  (RequiresOsEnforcement(policy) /\ plan.enforcement # "osSandbox") \/ managed

-----------------------------------------------------------------------------
(* What an adapter lets the command do.                                    *)

HasGlob(path) == ToSet(path) \cap GlobNames # {}

\* Mutant: a rule that denies reading is left out.
DenyMountPathsOfNone(plan) ==
  {Absolute(rule.path, plan.cwd) :
     rule \in {r \in plan.rules : /\ r.access = "none" /\ r.root = "path"
                                  /\ r.path # <<>> /\ ~HasGlob(r.path)}} \ {<<>>}

DenyMountPaths(plan) ==
  {Absolute(rule.path, plan.cwd) :
     rule \in {r \in plan.rules : /\ r.access \in Denies /\ r.root = "path"
                                  /\ r.path # <<>> /\ ~HasGlob(r.path)}} \ {<<>>}

Mounted(plan, p) ==
  /\ WithinAny(p, plan.writable, plan.cwd)
  /\ ~WithinAny(p, DenyMountPaths(plan), plan.cwd)

\* bwrap binds the writable roots over a read-only tree and covers the denied
\* paths; the profile for sandbox-exec states the same in rules.  The token of
\* Windows knows no roots.
AdapterWrites(plan, p) ==
  CASE plan.type = "bubblewrap" -> Mounted(plan, p)
    [] plan.type = "seatbelt" -> plan.filesystem # "readOnly" /\ Mounted(plan, p)
    [] OTHER -> TRUE

AdapterNetwork(plan) ==
  CASE plan.type = "bubblewrap" -> plan.network # "disabled"
    [] plan.type = "seatbelt" -> plan.network = "enabled"
    [] plan.type = "windowsToken" -> plan.network # "disabled"
    [] OTHER -> TRUE

\* The restricted token has no rule for the network: without a dedicated
\* account and its filters a command that must be kept off it is not run.
WindowsRefuses(plan, account) ==
  plan.type = "windowsToken" /\ plan.network = "disabled" /\ ~account
=============================================================================
