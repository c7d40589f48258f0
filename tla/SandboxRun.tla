----------------------------- MODULE SandboxRun -----------------------------
(***************************************************************************)
(* Commands in the sandbox: the shell tool of the runtime, sandbox/exec of *)
(* the server, and the background tasks of the runtime.                    *)
(*                                                                         *)
(* A call in the foreground holds the runtime until the command ended, or  *)
(* its deadline passed and it was killed, and both readers of its output   *)
(* came to an end.  The command may start a process that inherits its      *)
(* output.  A background task writes to a log named by the next event and  *)
(* the number of tasks, which is emptied when it is opened; the process of *)
(* the runtime may die, and events it did not write are given again.       *)
(***************************************************************************)
EXTENDS SandboxPolicy, FiniteSets

CONSTANTS
  Inputs,        \* the instances: what calls choose from, and how many tasks
  Platforms,     \* systems the program runs on
  Paths,         \* the paths the properties look at
  MaxEvents,     \* bound: event numbers
  MaxCrashes     \* bound: times the process dies

ASSUME SandboxAssumption ==
  /\ {MaxEvents, MaxCrashes} \subseteq Nat
  /\ \A input \in Inputs : \A policy \in input.policies : IsPolicy(policy)

VARIABLES
  inputs,        \* the instance: policies, requests, bound on background tasks
  available,     \* the adapter of this machine
  account,       \* Windows: a dedicated account with network filters
  phase,         \* where the foreground call is
  call,          \* its policy, request and plan until it is spawned
  windows,       \* it runs under the restricted token
  child,         \* the process of the command
  kid,           \* a process it started, which holds its output too
  reader,        \* whether the output is still read
  timed_out,
  result,        \* what the last call returned
  ran,           \* history: the command of the last call executed
  broken,        \* history: an error came after it began
  tasks,         \* every background task ever started, in order
  next_event,    \* the last event number
  persisted,     \* events up to this number are on file
  lost,          \* history: a crash lost events
  crashes

machine == <<inputs, available, account>>
process == <<windows, child, kid, reader, timed_out>>
ledger == <<next_event, persisted, lost, crashes>>
vars == <<machine, phase, call, process, result, ran, broken, tasks, ledger>>

NoCall == [none |-> TRUE]

\* The tasks the runtime knows: those of earlier processes it does not.
Known == {i \in DOMAIN tasks : tasks[i].known}

Init ==
  /\ inputs \in Inputs
  /\ \E platform \in Platforms, installed \in BOOLEAN :
       available = DetectTypes(platform, installed)
  /\ account \in IF available = "windowsToken" THEN BOOLEAN ELSE {FALSE}
  /\ phase = "idle" /\ call = NoCall
  /\ windows = FALSE /\ child = "none" /\ kid = "none"
  /\ reader = "done" /\ timed_out = FALSE
  /\ result = "none" /\ ran = FALSE /\ broken = FALSE
  /\ tasks = <<>>
  /\ next_event = 0 /\ persisted = 0 /\ lost = FALSE /\ crashes = 0

-----------------------------------------------------------------------------
(* A call up to its plan.                                                  *)

\* Once a call returned its processes are followed no further.
Forget == /\ windows' = FALSE /\ child' = "none" /\ kid' = "none"
          /\ reader' = "done" /\ timed_out' = FALSE
Fresh == Forget /\ ran' = FALSE /\ broken' = FALSE

Refuse == phase' = "idle" /\ call' = NoCall /\ result' = "denied"

\* execute_sandboxed up to the plan; Forbid looks for no adapter.
Adapter(preference) == IF preference = "forbid" THEN "none" ELSE available

Admitted(policy, request, preference, approved) ==
  LET decision == Transform(policy, request, preference, Adapter(preference))
  IN  /\ decision # "deny"
      /\ decision = "allow" \/ approved
      /\ ~RefusesPlan(policy, Plan(policy, request, preference, Adapter(preference)), request.managed)

ExecuteSandboxed(policy, request, preference) ==
  IF Admitted(policy, request, preference, request.approved)
  THEN /\ phase' = "planned"
       /\ call' = [policy |-> policy, request |-> request,
                   plan |-> Plan(policy, request, preference, Adapter(preference))]
       /\ result' = "none"
  ELSE Refuse

\* The server's sandbox/exec takes the request as it is.
SandboxExec(policy, request, preference) ==
  /\ phase = "idle"
  /\ Fresh
  /\ ExecuteSandboxed(policy, request, preference)
  /\ UNCHANGED <<machine, tasks, ledger>>

\* The shell tool refuses a protected path before anything else.
ProtectedPathPreflight(policy, request) == EvaluateExec(policy, request) = "askProtected"

ShellTool(policy, request, preference) ==
  /\ phase = "idle"
  /\ Fresh
  /\ IF ProtectedPathPreflight(policy, request) THEN Refuse
     ELSE ExecuteSandboxed(policy, request, preference)
  /\ UNCHANGED <<machine, tasks, ledger>>

-----------------------------------------------------------------------------
(* The command in the foreground.                                          *)

PosixSpawn ==
  /\ phase = "planned" /\ call.plan.type # "windowsToken"
  /\ phase' = "running" /\ call' = NoCall
  /\ child' = "alive" /\ reader' = "reading" /\ ran' = TRUE
  /\ UNCHANGED <<machine, windows, kid, timed_out, result, broken, tasks, ledger>>

\* Mutant: the process is not created suspended.
CreateRunning ==
  /\ phase = "planned" /\ call.plan.type = "windowsToken"
  /\ ~WindowsRefuses(call.plan, account)
  /\ phase' = "suspended" /\ call' = NoCall
  /\ windows' = TRUE /\ child' = "alive" /\ ran' = TRUE
  /\ UNCHANGED <<machine, kid, reader, timed_out, result, broken, tasks, ledger>>

\* Under Windows the process is created suspended, so that it is in its job
\* before it executes.
CreateSuspended ==
  /\ phase = "planned" /\ call.plan.type = "windowsToken"
  /\ ~WindowsRefuses(call.plan, account)
  /\ phase' = "suspended" /\ call' = NoCall
  /\ windows' = TRUE /\ child' = "suspended"
  /\ UNCHANGED <<machine, kid, reader, timed_out, result, ran, broken, tasks, ledger>>

ResumeThread ==
  /\ phase = "suspended"
  /\ phase' = "running" /\ child' = "alive" /\ reader' = "reading" /\ ran' = TRUE
  /\ UNCHANGED <<machine, call, windows, kid, timed_out, result, broken, tasks, ledger>>

\* The process cannot be made (always so without the dedicated account), or
\* not be put in its job: it is then left suspended.
SpawnFails ==
  /\ phase \in {"planned", "suspended"}
  /\ Refuse /\ Forget
  /\ UNCHANGED <<machine, ran, broken, tasks, ledger>>

CommandStartsProcess ==
  /\ phase = "running" /\ child = "alive" /\ kid = "none"
  /\ kid' = "alive"
  /\ UNCHANGED <<machine, phase, call, windows, child, reader, timed_out,
                 result, ran, broken, tasks, ledger>>

CommandExits ==
  /\ phase = "running" /\ child = "alive"
  /\ child' = "dead"
  /\ UNCHANGED <<machine, phase, call, windows, kid, reader, timed_out,
                 result, ran, broken, tasks, ledger>>

KidExits ==
  /\ phase \in {"running", "reading"} /\ kid = "alive"
  /\ kid' = "dead"
  /\ UNCHANGED <<machine, phase, call, windows, child, reader, timed_out,
                 result, ran, broken, tasks, ledger>>

\* read_bounded ends with the last holder of the pipe, or at its limit while
\* one of them writes.
ReadBounded ==
  /\ phase \in {"running", "reading"} /\ reader = "reading"
  /\ reader' = "done"
  /\ UNCHANGED <<machine, phase, call, windows, child, kid, timed_out,
                 result, ran, broken, tasks, ledger>>
ReachEnd == child # "alive" /\ kid # "alive" /\ ReadBounded
ReachLimit == (child = "alive" \/ kid = "alive") /\ ReadBounded

SeeExit ==
  /\ phase = "running" /\ child # "alive"
  /\ phase' = "reading"
  /\ UNCHANGED <<machine, call, process, result, ran, broken, tasks, ledger>>

\* Closing or ending a job kills what is in it.
JobCloses(process_state) == IF process_state = "alive" THEN "dead" ELSE process_state

\* Mutant: the deadline ends the wait and kills nothing.
DeadlineWithoutKill ==
  /\ phase = "running" /\ child = "alive"
  /\ timed_out' = TRUE /\ phase' = "reading"
  /\ UNCHANGED <<machine, call, windows, child, kid, reader, result, ran, broken,
                 tasks, ledger>>

\* kill_process_tree sends a TERM to the children and kills the command; a
\* grandchild, or a child that ignores it, lives on.  A job kills them all.
Deadline ==
  /\ phase = "running" /\ child = "alive"
  /\ timed_out' = TRUE /\ phase' = "reading" /\ child' = "dead"
  /\ kid' \in IF windows THEN {JobCloses(kid)} ELSE {kid, JobCloses(kid)}
  /\ UNCHANGED <<machine, call, windows, reader, result, ran, broken, tasks, ledger>>

\* An error after the command began is returned as a refusal, too.  The job of
\* Windows closes and kills what runs, elsewhere it runs on.
Unwind ==
  /\ Refuse /\ Forget /\ broken' = TRUE
  /\ UNCHANGED <<machine, ran, tasks, ledger>>

WaitFails == phase = "running" /\ ~windows /\ Unwind
\* Windows asks for the exit code once the wait is over.
WindowsWaitFails == phase \in {"running", "reading"} /\ windows /\ Unwind
ReadFails == phase = "reading" /\ reader = "done" /\ Unwind

Return ==
  /\ phase = "reading" /\ reader = "done"
  /\ phase' = "idle" /\ call' = NoCall
  /\ result' = IF timed_out THEN "aborted" ELSE "exited"
  /\ Fresh
  /\ UNCHANGED <<machine, tasks, ledger>>

-----------------------------------------------------------------------------
(* Background tasks.                                                       *)

\* Mutant: the number of tasks alone.
TaskIdByCount == <<0, Cardinality(Known) + 1>>
TaskId == <<next_event + 1, Cardinality(Known) + 1>>

\* refresh_shell_tasks: code 259 is the one Windows gives of a process that
\* still runs.
Refreshed(task) ==
  IF task.known /\ task.status = "running" /\ task.code \notin {"alive", "stillActive"}
  THEN [task EXCEPT !.status = IF task.code = "zero" THEN "completed" ELSE "failed"]
  ELSE task

RefreshShellTasks == [i \in DOMAIN tasks |-> Refreshed(tasks[i])]

\* A background task runs as if approved, and with no managed network.
SpawnsInBackground(policy, request, preference) ==
  /\ Admitted(policy, [request EXCEPT !.managed = FALSE], preference, TRUE)
  /\ ~WindowsRefuses(Plan(policy, request, preference, Adapter(preference)), account)

NewTask(policy, request, preference) ==
  [log |-> TaskId, code |-> "alive", status |-> "running", known |-> TRUE, whole |-> TRUE,
   token |-> Plan(policy, request, preference, Adapter(preference)).type = "windowsToken"]

\* The log is created, or an old one emptied, before the policy is asked.
LogOpened == [i \in DOMAIN tasks |-> [tasks[i] EXCEPT !.whole = @ /\ tasks[i].log # TaskId]]

BackgroundStarts(policy, request, preference) ==
  /\ SpawnsInBackground(policy, request, preference)
  /\ tasks' = Append(LogOpened, NewTask(policy, request, preference))
  /\ Fresh /\ result' = "none"

\* It is not allowed, or its process cannot be made or put in its job.
BackgroundRefused ==
  /\ tasks' = LogOpened
  /\ Fresh /\ result' = "denied"

\* Under Windows the log's handle must be made private again once the process
\* was resumed: when that fails the job closes.
BackgroundUnwound(policy, request, preference) ==
  /\ SpawnsInBackground(policy, request, preference)
  /\ NewTask(policy, request, preference).token
  /\ tasks' = LogOpened
  /\ Forget /\ ran' = TRUE /\ broken' = TRUE /\ result' = "denied"

\* The result of the call is an event.
StartBackgroundShellTask(policy, request, preference) ==
  /\ phase = "idle" /\ Len(tasks) < inputs.tasks /\ next_event < MaxEvents
  /\ ~ProtectedPathPreflight(policy, request)
  /\ \/ BackgroundStarts(policy, request, preference)
     \/ BackgroundRefused
     \/ BackgroundUnwound(policy, request, preference)
  /\ next_event' = next_event + 1
  /\ UNCHANGED <<machine, phase, call, persisted, lost, crashes>>

TaskExits(i) ==
  /\ tasks[i].code = "alive"
  /\ \E code \in {"zero", "other"} \cup
                 (IF tasks[i].token THEN {"stillActive"} ELSE {}) :
       tasks' = [tasks EXCEPT ![i].code = code]
  /\ UNCHANGED <<machine, phase, call, process, result, ran, broken, ledger>>

ListBackgroundTasks ==
  /\ phase = "idle"
  /\ tasks' = RefreshShellTasks
  /\ UNCHANGED <<machine, phase, call, process, result, ran, broken, ledger>>

\* Reading gives the end of the log; a task of an earlier process is not found,
\* though its log is there.
ReadBackgroundTask(i) == i \in Known /\ ListBackgroundTasks

KillBackgroundTask(i) ==
  /\ phase = "idle" /\ i \in Known
  /\ tasks' = IF RefreshShellTasks[i].status = "running"
              THEN [RefreshShellTasks EXCEPT
                      ![i].status = "killed",
                      ![i].code = IF @ = "alive" THEN "other" ELSE @]
              ELSE RefreshShellTasks
  /\ UNCHANGED <<machine, phase, call, process, result, ran, broken, ledger>>

\* The agent's tool; without an action it lists.
ShellTaskTool ==
  \/ ListBackgroundTasks
  \/ \E i \in DOMAIN tasks : ReadBackgroundTask(i) \/ KillBackgroundTask(i)

-----------------------------------------------------------------------------
(* The process of the runtime.                                             *)

Emit ==
  /\ phase = "idle" /\ inputs.tasks > 0 /\ next_event < MaxEvents
  /\ next_event' = next_event + 1
  /\ UNCHANGED <<machine, phase, call, process, result, ran, broken, tasks,
                 persisted, lost, crashes>>

Persist ==
  /\ phase = "idle" /\ persisted < next_event
  /\ persisted' = next_event
  /\ UNCHANGED <<machine, phase, call, process, result, ran, broken, tasks,
                 next_event, lost, crashes>>

\* No process is waited for any more; the jobs of Windows close.
Crash ==
  /\ crashes < MaxCrashes /\ inputs.tasks > 0
  /\ crashes' = crashes + 1
  /\ phase' = "idle" /\ call' = NoCall /\ result' = "none" /\ Fresh
  /\ tasks' = [i \in DOMAIN tasks |->
                 [tasks[i] EXCEPT !.known = FALSE,
                    !.code = IF tasks[i].token /\ JobCloses(@) = "dead" THEN "other" ELSE @]]
  /\ next_event' = persisted
  /\ lost' = (lost \/ persisted < next_event)
  /\ UNCHANGED <<machine, persisted>>

ForegroundCall ==
  \E policy \in inputs.policies, request \in inputs.requests, preference \in Preferences :
    \/ ShellTool(policy, request, preference)
    \/ SandboxExec(policy, request, preference)

BackgroundCall ==
  \E policy \in inputs.policies, request \in inputs.requests, preference \in Preferences :
    StartBackgroundShellTask(policy, request, preference)

Next ==
  \/ ForegroundCall
  \/ PosixSpawn \/ CreateSuspended \/ ResumeThread \/ SpawnFails
  \/ CommandStartsProcess \/ CommandExits \/ KidExits
  \/ ReachEnd \/ ReachLimit \/ SeeExit \/ Deadline
  \/ WaitFails \/ WindowsWaitFails \/ ReadFails \/ Return
  \/ BackgroundCall
  \/ \E i \in DOMAIN tasks : TaskExits(i)
  \/ ShellTaskTool
  \/ Emit \/ Persist \/ Crash

\* The call's own steps are not put off for ever, and its deadline comes.
Fairness ==
  WF_vars(PosixSpawn \/ CreateSuspended \/ ResumeThread \/ SpawnFails
            \/ ReachEnd \/ SeeExit \/ Deadline \/ Return)

Spec == Init /\ [][Next]_vars
FairSpec == Spec /\ Fairness
-----------------------------------------------------------------------------
(* Properties.                                                             *)

MayWrite(policy, p, cwd) ==
  /\ policy.filesystem # "readOnly"
  /\ WithinAny(p, WritableForRequest(policy.profile, cwd), cwd)
  /\ ~WithinAny(p, {d \in DeniedPaths(policy.profile, cwd) : ~HasGlob(d)}, cwd)

\* The plan and the adapter's arguments are computed apart from the decision:
\* what bubblewrap or sandbox-exec lets a command write is what the policy
\* grants for its directory, denied paths and the metadata of a repository
\* left out; what runs without an adapter is restricted in nothing; a disabled
\* network is off.
AdapterKeepsThePolicy ==
  phase = "planned" =>
    LET plan == call.plan
        policy == call.policy
    IN  /\ plan.type \in {"bubblewrap", "seatbelt"} =>
             \A p \in Paths : AdapterWrites(plan, p) =>
               /\ MayWrite(policy, p, plan.cwd)
               /\ \A root \in WritableForRequest(policy.profile, plan.cwd), name \in Metadata :
                    ~WithinAny(p, {root \o <<name>>}, plan.cwd)
        /\ plan.type = "none" => policy.filesystem = "unrestricted"
        /\ AdapterNetwork(plan) => policy.network # "disabled"

\* "Denied" tells the model that nothing was done: unless an error came after
\* the command began, a refused call executed none of it, not even where the
\* process had been made.
RefusalMeansNotRun == result = "denied" /\ ~broken => ~ran

\* A task of an earlier process may still write to its log: a later start gets
\* that log, or empties it, only when a crash lost the events that would have
\* given it another name.
LogsAreNotShared ==
  \/ lost
  \/ \A i \in DOMAIN tasks :
       /\ tasks[i].whole
       /\ \A j \in DOMAIN tasks \ {i} : tasks[i].log # tasks[j].log

\* The runtime gets out of a call, unless a process that outlived the command
\* keeps its output open; under Windows a deadline leaves none.
RunReturns ==
  []<>(phase = "idle")
    \/ <>[](child # "alive" /\ kid = "alive" /\ ~(windows /\ timed_out))
=============================================================================
