----------------------------- MODULE FileTools -----------------------------
(***************************************************************************)
(* The runtime's own tools on the project's files: read, list, search,     *)
(* write, edit, the diagram and the picture tool, the feedback draft; and  *)
(* the review a gated call gets before the user is asked.                  *)
(*                                                                         *)
(* A tool runs to its end under the runtime's lock, but the user's editor  *)
(* and background commands change files between its steps.  What is in a   *)
(* file is left out: disk is the set of the files there are.               *)
(***************************************************************************)
EXTENDS SandboxPolicy, FiniteSets

CONSTANTS
  Cwd,           \* the directory of the thread's project
  Files,         \* every file there may be
  Disks,         \* the files there may be at first
  TurnPolicies,  \* sandbox policies a turn may have
  ToolCalls,     \* what the model may call
  MaxEdits       \* bound: changes by others

VARIABLES
  turn_policy,   \* the sandbox policy the turn was started with, or NoPolicy
  services,      \* what is configured: "key" for pictures, "intake"
  disk,          \* the files there are
  step,          \* where the call is
  tool,          \* the call
  answer,        \* the status of the last result
  shown,         \* files whose text or name the call has shown
  wrote,         \* files it has opened for writing
  sent,          \* it has sent something away
  artifact,      \* the path its result is announced with, or NoPath
  before,        \* history: files there all the time since the call
  edits

toolVars == <<step, tool, answer, shown, wrote, sent, artifact>>
fileVars == <<turn_policy, services, disk, toolVars, before, edits>>

NoPolicy == [none |-> TRUE]
NoPath == <<>>
DefaultOutput == <<".", "output">>
NoTool == [kind |-> "none"]

\* is_goal_tool and the like choose by name or capability; the tools that
\* leave files alone are modelled elsewhere.
Readers == {"read", "list", "search"}
Writers == {"write", "edit"}
Makers == {"render", "image", "feedback"}
ToolKinds == Readers \cup Writers \cup Makers \cup {"shell"}

ASSUME FileToolsAssumption ==
  /\ MaxEdits \in Nat
  /\ \A policy \in TurnPolicies : policy = NoPolicy \/ IsPolicy(policy)
  /\ \A call \in ToolCalls :
       /\ call.kind \in ToolKinds /\ IsPath(call.path)
       /\ call.policy = NoPolicy \/ IsPolicy(call.policy)
  \* "output" is a name: no prover has that a string is one.
  /\ IsPath(DefaultOutput)
  /\ IsWhole(Cwd) /\ \A f \in Files : IsWhole(f)
  /\ Disks \subseteq SUBSET Files

\* Those the default registry marks as requiring approval.
Gated == Writers \cup {"shell"}

FilesInit ==
  /\ turn_policy \in TurnPolicies
  /\ services \in SUBSET {"key", "intake"}
  /\ disk \in Disks
  /\ step = "idle" /\ tool = NoTool /\ answer = "none"
  /\ shown = {} /\ wrote = {} /\ sent = FALSE /\ artifact = NoPath
  /\ before = {} /\ edits = 0

-----------------------------------------------------------------------------
(* Paths and policies.                                                     *)

TakeName(done, name) ==
  IF name # ".." THEN Append(done, name) ELSE IF done = <<>> THEN done ELSE Front(done)

LexicalNormalize(p) == FoldLeft(TakeName, <<>>, p)

\* The whole path, or NoPath when it leaves the project.
ResolveProjectPath(raw) ==
  LET p == LexicalNormalize(Absolute(raw, Cwd))
  IN  IF IsPrefix(Cwd, p) THEN p ELSE NoPath

ToolProfile(mode, writable) ==
  [mode |-> mode, readable |-> {Cwd}, writable |-> writable, rules |-> {},
   dirs |-> {}, files |-> {}]

DefaultFileToolPolicy(writes) ==
  DefaultPolicy(IF writes THEN ToolProfile("default", {Cwd}) ELSE ToolProfile("readOnly", {}))

DefaultShellPolicy == DefaultPolicy(ToolProfile("readOnly", {}))

WithDefaults(policy) ==
  LET OrCwd(roots) == IF roots = {} THEN {Cwd} ELSE roots
  IN  [policy EXCEPT
         !.profile.readable = OrCwd(@),
         !.profile.writable = IF policy.filesystem = "workspaceWrite" THEN OrCwd(@) ELSE @]

PolicyForTurn(fallback) == IF turn_policy = NoPolicy THEN fallback ELSE WithDefaults(turn_policy)

\* A policy among the call's arguments goes before the turn's.
PolicyInForce(c, fallback) == IF c.policy # NoPolicy THEN c.policy ELSE PolicyForTurn(fallback)

FilePathAllowed(p, policy, writes) ==
  \/ policy.filesystem = "unrestricted"
  \/ /\ writes => policy.filesystem # "readOnly"
     /\ LET roots == IF writes THEN policy.profile.writable ELSE EffectiveReadable(policy.profile)
        IN  WithinAny(p, IF roots = {} THEN {Cwd} ELSE roots, Cwd)

FileRequest(p, writes) ==
  [cwd |-> Cwd, writes |-> writes, network |-> FALSE, protected |-> FALSE,
   touched |-> {p}, mentions |-> {}]

\* A tool cannot wait for the user: what the policy would ask about is denied.
PreflightFileAccess(c, p, writes) ==
  LET policy == PolicyInForce(c, DefaultFileToolPolicy(writes))
  IN  /\ FilePathAllowed(p, policy, writes)
      /\ EvaluateExec(policy, FileRequest(p, writes)) = "allow"

\* A picture without a path gets one made of its prompt and the time.
OutputPath(c) == IF c.kind = "image" /\ c.path = NoPath THEN DefaultOutput ELSE c.path

Target(c) == ResolveProjectPath(OutputPath(c))
Reaches(c) == /\ Target(c) # NoPath
              /\ PreflightFileAccess(c, Target(c), c.kind \notin Readers)

-----------------------------------------------------------------------------
(* The review of a gated call.                                             *)

\* Without a command, or a path in the project, there is nothing to review.
Reviewable(c) ==
  \/ c.kind = "shell" /\ c.valid
  \/ c.kind \in Readers \cup Writers /\ c.path # NoPath /\ Target(c) # NoPath

GuardianRequest(c) ==
  IF c.kind = "shell" THEN c.request ELSE FileRequest(Target(c), c.kind \in Writers)

GuardianFallback(c) ==
  IF c.kind = "shell" THEN DefaultShellPolicy ELSE DefaultFileToolPolicy(c.kind \in Writers)

GuardianReview(c) ==
  LET policy == PolicyInForce(c, GuardianFallback(c))
  IN  IF ~c.registered \/ ~Reviewable(c) THEN "none"
      ELSE IF policy.profile.mode # "autoReview" THEN "none"
      ELSE IF c.secret \/ EvaluateExec(policy, GuardianRequest(c)) \in {"deny", "askProtected"}
      THEN "deny"
      ELSE "ask"

RequiresApproval(c) == c.ask \/ (c.registered /\ c.kind \in Gated)

Ends(status) == step' = "idle" /\ answer' = status

\* The call arrives: it is run, refused by the review, or waits for the user.
Propose(c) ==
  /\ step = "idle"
  /\ tool' = c /\ before' = disk
  /\ shown' = {} /\ wrote' = {} /\ sent' = FALSE /\ artifact' = NoPath
  /\ IF RequiresApproval(c) /\ GuardianReview(c) = "deny" THEN Ends("denied")
     ELSE /\ step' = IF RequiresApproval(c) THEN "waiting" ELSE "ready"
          /\ answer' = "none"
  /\ UNCHANGED <<turn_policy, services, disk, edits>>

Decide ==
  /\ step = "waiting"
  /\ \/ step' = "ready" /\ UNCHANGED answer
     \/ Ends("denied")
  /\ UNCHANGED <<turn_policy, services, disk, tool, shown, wrote, sent,
                 artifact, before, edits>>

-----------------------------------------------------------------------------
(* Running it.                                                             *)

Runs(kinds) == step = "ready" /\ tool.kind \in kinds /\ tool.registered /\ tool.valid
Untouched == UNCHANGED <<turn_policy, services, tool, before, edits>>
NothingDone == UNCHANGED <<disk, shown, wrote, sent, artifact>>

UnknownTool ==
  /\ step = "ready" /\ ~tool.registered
  /\ Ends("error") /\ NothingDone /\ Untouched

\* Every tool looks at its arguments before it looks at the path: what is
\* missing, what it cannot draw, what the picture service does not offer.
RejectArguments(kinds) ==
  /\ step = "ready" /\ tool.kind \in kinds /\ tool.registered /\ ~tool.valid
  /\ Ends("error") /\ NothingDone /\ Untouched

RejectFileArguments == RejectArguments(Readers \cup Writers \cup {"shell"})
RejectDiagram == RejectArguments({"render"})
RejectPicture == RejectArguments({"image"})
RejectFeedback == RejectArguments({"feedback"})

RefuseTool ==
  /\ Runs(Readers \cup Writers \cup Makers) /\ ~(tool.kind = "render" /\ tool.path = NoPath)
  /\ ~Reaches(tool)
  /\ Ends("denied") /\ NothingDone /\ Untouched

\* A result that is JSON and names a path is announced as an artifact,
\* whatever tool it came from.
MayAnnounce == {NoPath} \cup Files

ReadFile ==
  /\ Runs({"read"}) /\ Reaches(tool)
  /\ \/ Target(tool) \in disk /\ shown' = {Target(tool)} /\ Ends("ok") /\ artifact' \in MayAnnounce
     \/ Ends("error") /\ UNCHANGED <<shown, artifact>>
  /\ UNCHANGED <<disk, wrote, sent>> /\ Untouched

\* Names alone: they are not asked about one by one.
ListFiles ==
  /\ Runs({"list"}) /\ Reaches(tool)
  /\ \E status \in {"error"} \cup
       (IF \E f \in disk : IsStrictPrefix(Target(tool), f) THEN {"ok"} ELSE {}) : Ends(status)
  /\ NothingDone /\ Untouched

SearchOneFile(f) == PreflightFileAccess(tool, f, FALSE)

\* Mutant: what lies under an allowed root is not asked about file by file.
SearchUnasked ==
  /\ Runs({"search"}) /\ Reaches(tool)
  /\ shown' \in SUBSET {f \in disk : IsPrefix(Target(tool), f)}
  /\ Ends("ok")
  /\ UNCHANGED <<disk, wrote, sent, artifact>> /\ Untouched

\* The walk stops at the limit of results; a root that is not there has none.
SearchFiles ==
  /\ Runs({"search"}) /\ Reaches(tool)
  /\ shown' \in SUBSET {f \in disk : IsPrefix(Target(tool), f) /\ SearchOneFile(f)}
  /\ Ends("ok")
  /\ UNCHANGED <<disk, wrote, sent, artifact>> /\ Untouched

\* Writing fails before the file is opened, or after.
Store(p, announced) ==
  /\ \/ wrote' = {p} /\ disk' = disk \cup {p} /\ Ends("ok") /\ artifact' = announced
     \/ wrote' = {p} /\ disk' = disk \cup {p} /\ Ends("error") /\ UNCHANGED artifact
     \/ Ends("error") /\ UNCHANGED <<wrote, disk, artifact>>
  /\ UNCHANGED <<shown, sent>> /\ Untouched

WriteFile == Runs({"write"}) /\ Reaches(tool) /\ Store(Target(tool), NoPath)

\* The text may not be found, or more than once.
EditReads ==
  /\ Runs({"edit"}) /\ Reaches(tool)
  /\ \/ Target(tool) \in disk /\ step' = "editing" /\ UNCHANGED answer
     \/ Ends("error")
  /\ NothingDone /\ Untouched
EditWrites == step = "editing" /\ Store(Target(tool), NoPath)

RenderShows ==
  /\ Runs({"render"}) /\ tool.path = NoPath
  /\ Ends("ok") /\ NothingDone /\ Untouched

Occupied == Target(tool) \in disk /\ ~tool.overwrite

RenderChecks ==
  /\ Runs({"render"}) /\ tool.path # NoPath /\ Reaches(tool)
  /\ IF Occupied THEN Ends("error") ELSE step' = "rendering" /\ UNCHANGED answer
  /\ NothingDone /\ Untouched
RenderWrites == step = "rendering" /\ Store(Target(tool), NoPath)

\* The variables a key is looked for in: the one the call names, or the usual.
KeyCandidates(c) == IF c.env = "own" THEN {"key"} ELSE {c.env}

TurnNetwork == PolicyForTurn(DefaultShellPolicy).network

\* Mutant: whether the file is there is looked at only with the answer.
ImageAsksAtOnce ==
  /\ Runs({"image"}) /\ Reaches(tool)
  /\ IF tool.env = "foreign" \/ (KeyCandidates(tool) \cap services # {} /\ TurnNetwork # "enabled")
     THEN Ends("denied") /\ UNCHANGED sent
     ELSE IF KeyCandidates(tool) \cap services = {} THEN Ends("error") /\ UNCHANGED sent
     ELSE step' = "asked" /\ sent' = TRUE /\ UNCHANGED answer
  /\ UNCHANGED <<disk, shown, wrote, artifact>> /\ Untouched

\* The checks of the picture tool in their order: the file, the name of the
\* variable the key is in, the key, the turn's network.
ImageAsks ==
  /\ Runs({"image"}) /\ Reaches(tool)
  /\ IF Occupied THEN Ends("error") /\ UNCHANGED sent
     ELSE IF tool.env = "foreign" THEN Ends("denied") /\ UNCHANGED sent
     ELSE IF KeyCandidates(tool) \cap services = {} THEN Ends("error") /\ UNCHANGED sent
     ELSE IF TurnNetwork # "enabled" THEN Ends("denied") /\ UNCHANGED sent
     ELSE step' = "asked" /\ sent' = TRUE /\ UNCHANGED answer
  /\ UNCHANGED <<disk, shown, wrote, artifact>> /\ Untouched

\* The service failed, gave an address, which is passed on, or the picture.
ImageAnswered ==
  /\ step = "asked"
  /\ \/ \E status \in {"error", "ok"} : Ends(status) /\ NothingDone /\ Untouched
     \/ Store(Target(tool), Target(tool))

\* The draft's path is made of the second and the kind; submitting follows
\* the turn's network, and its failure is told in an ok result.
FeedbackSubmit ==
  /\ Runs({"feedback"}) /\ Reaches(tool)
  /\ \/ /\ wrote' = {Target(tool)} /\ disk' = disk \cup {Target(tool)}
        /\ Ends("ok") /\ sent' = ("intake" \in services /\ TurnNetwork = "enabled")
     \/ /\ wrote' = {Target(tool)} /\ disk' = disk \cup {Target(tool)}
        /\ Ends("error") /\ UNCHANGED sent
     \/ Ends("error") /\ UNCHANGED <<wrote, disk, sent>>
  /\ UNCHANGED <<shown, artifact>> /\ Untouched

\* The shell's own checks and what its command does are in SandboxRun.
RunShell ==
  /\ Runs({"shell"})
  /\ \E status \in {"ok", "denied", "error"} : Ends(status)
  /\ NothingDone /\ Untouched

-----------------------------------------------------------------------------
(* Others.                                                                 *)

SaveFile(f) ==
  /\ edits < MaxEdits /\ f \notin disk
  /\ disk' = disk \cup {f} /\ edits' = edits + 1
  /\ UNCHANGED <<turn_policy, services, toolVars, before>>

RemoveFile(f) ==
  /\ edits < MaxEdits /\ f \in disk
  /\ disk' = disk \ {f} /\ before' = before \ {f} /\ edits' = edits + 1
  /\ UNCHANGED <<turn_policy, services, toolVars>>

FilesNext ==
  \/ \E c \in ToolCalls : Propose(c)
  \/ Decide \/ UnknownTool \/ RejectFileArguments \/ RejectDiagram
  \/ RejectPicture \/ RejectFeedback \/ RefuseTool
  \/ ReadFile \/ ListFiles \/ SearchFiles \/ WriteFile \/ EditReads \/ EditWrites
  \/ RenderShows \/ RenderChecks \/ RenderWrites \/ ImageAsks \/ ImageAnswered
  \/ FeedbackSubmit \/ RunShell
  \/ \E f \in Files : SaveFile(f) \/ RemoveFile(f)

FilesSpec == FilesInit /\ [][FilesNext]_fileVars
-----------------------------------------------------------------------------
(* Properties.                                                             *)

MayTouch(policy, p, writes) ==
  /\ IsPrefix(Cwd, p)
  /\ ToSet(p) \cap ProtectedDirs(policy.profile) = {}
  /\ Last(p) \notin ProtectedFiles(policy.profile)
  /\ ~WithinAny(p, DeniedPaths(policy.profile, Cwd), Cwd)
  /\ writes => policy.filesystem # "readOnly" /\ policy.profile.mode # "autoReview"
  /\ policy.filesystem = "unrestricted"
       \/ WithinAny(p, IF writes THEN policy.profile.writable
                       ELSE EffectiveReadable(policy.profile), Cwd)

\* Whatever tool it was, and whatever others did to the files meanwhile: it
\* wrote and showed only files of the project that the policy in force grants
\* and neither denies nor protects, it sent something only where the turn's
\* network is enabled, and a call that was denied did nothing of it.
ToolsKeepToThePolicy ==
  /\ \A p \in wrote : MayTouch(PolicyInForce(tool, DefaultFileToolPolicy(TRUE)), p, TRUE)
  /\ \A p \in shown : MayTouch(PolicyInForce(tool, DefaultFileToolPolicy(FALSE)), p, FALSE)
  /\ sent => TurnNetwork = "enabled"
  /\ answer = "denied" => wrote = {} /\ shown = {} /\ ~sent

\* A diagram or a picture replaces no file that was there when it was asked
\* for, unless the call says so; a picture announced as an artifact is the
\* file its call wrote.
OutputsAreTheirOwn ==
  /\ tool.kind \in {"render", "image"} => (wrote \cap before # {} => tool.overwrite)
  /\ tool.kind = "image" /\ artifact # NoPath => artifact \in wrote
=============================================================================
