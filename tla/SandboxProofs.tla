--------------------------- MODULE SandboxProofs ---------------------------
(***************************************************************************)
(* Proofs about SandboxRun and FileTools, for any policies, requests,      *)
(* calls, files, numbers of tasks, events and deaths: what a refusal says, *)
(* whose log is whose, what the file tools touch, and what an adapter      *)
(* keeps of a policy.                                                      *)
(*                                                                         *)
(* The invariants are independent.  CallInv follows one command in the     *)
(* foreground; LogInv relates the names of logs to the number of the last  *)
(* event, by which a name is new while no event was lost; ToolInv says     *)
(* that a tool which is about to open a file has passed the checks of its  *)
(* path and done nothing yet; PlanInv says where a plan comes from, and    *)
(* the rest is about the plan alone: that its rules cover what the policy  *)
(* denies, however a path was written.                                     *)
(***************************************************************************)
EXTENDS SandboxRun, FileTools, FiniteSetTheorems, SequenceTheorems, TLAPS

Waiting == phase \in {"planned", "suspended"} => ~ran /\ result # "denied"

CallInv == Waiting /\ RefusalMeansNotRun

TaskCode == {"alive", "zero", "other", "stillActive"}
TaskStatus == {"running", "completed", "failed", "killed"}
TaskRecord ==
  [log : Nat \X Nat, code : TaskCode, status : TaskStatus, known : BOOLEAN,
   whole : BOOLEAN, token : BOOLEAN]

Ledger ==
  /\ tasks \in Seq(TaskRecord)
  /\ next_event \in Nat /\ persisted \in Nat
  /\ lost \in BOOLEAN

Dated == lost \/ \A i \in 1..Len(tasks) : tasks[i].log[1] <= next_event

LogInv ==
  /\ Ledger
  /\ Dated
  /\ LogsAreNotShared

-----------------------------------------------------------------------------
(* SandboxRun: the call in the foreground.                                 *)

LEMMA CallAdmitted ==
  ASSUME NEW policy, NEW request, NEW preference,
         Fresh, ExecuteSandboxed(policy, request, preference) \/ Refuse
  PROVE  CallInv'
<1>1. ~ran'
  BY DEF Fresh
<1>2. phase' = "idle" \/ result' # "denied"
  BY DEF ExecuteSandboxed, Refuse
<1>3. QED BY <1>1, <1>2 DEF CallInv, Waiting, RefusalMeansNotRun

LEMMA CallStepKeeps ==
  ASSUME CallInv, Next
  PROVE  CallInv'
<1>1. CASE ForegroundCall
  BY <1>1, CallAdmitted DEF ForegroundCall, ShellTool, SandboxExec
<1>2. CASE PosixSpawn \/ ResumeThread
  BY <1>2 DEF CallInv, Waiting, RefusalMeansNotRun, PosixSpawn, ResumeThread
<1>3. CASE CreateSuspended
  BY <1>3 DEF CallInv, Waiting, RefusalMeansNotRun, CreateSuspended
<1>4. CASE SpawnFails
  BY <1>4 DEF CallInv, Waiting, RefusalMeansNotRun, SpawnFails, Refuse
<1>5. CASE CommandStartsProcess \/ CommandExits \/ KidExits \/ ReachEnd \/ ReachLimit
  BY <1>5 DEF CallInv, Waiting, RefusalMeansNotRun, CommandStartsProcess, CommandExits,
              KidExits, ReachEnd, ReachLimit, ReadBounded
<1>6. CASE SeeExit \/ Deadline
  BY <1>6 DEF CallInv, Waiting, RefusalMeansNotRun, SeeExit, Deadline
<1>7. CASE WaitFails \/ WindowsWaitFails \/ ReadFails
  BY <1>7 DEF CallInv, Waiting, RefusalMeansNotRun, WaitFails, WindowsWaitFails, ReadFails,
              Unwind, Refuse
<1>8. CASE Return
  BY <1>8 DEF CallInv, Waiting, RefusalMeansNotRun, Return, Fresh
<1>9. CASE BackgroundCall
  <2>1. PICK policy \in inputs.policies, request \in inputs.requests,
             preference \in Preferences :
               StartBackgroundShellTask(policy, request, preference)
    BY <1>9 DEF BackgroundCall
  <2>2. phase' = "idle"
    BY <2>1 DEF StartBackgroundShellTask
  <2>3. CASE BackgroundStarts(policy, request, preference) \/ BackgroundRefused
    BY <2>2, <2>3 DEF CallInv, Waiting, RefusalMeansNotRun, BackgroundStarts,
                      BackgroundRefused, Fresh
  <2>4. CASE BackgroundUnwound(policy, request, preference)
    BY <2>2, <2>4 DEF CallInv, Waiting, RefusalMeansNotRun, BackgroundUnwound
  <2>5. QED BY <2>1, <2>3, <2>4 DEF StartBackgroundShellTask
<1>10. CASE (\E i \in DOMAIN tasks : TaskExits(i)) \/ ShellTaskTool \/ Emit \/ Persist
  <2>1. UNCHANGED <<phase, ran, broken, result>>
    BY <1>10 DEF TaskExits, ShellTaskTool, ListBackgroundTasks, ReadBackgroundTask,
                 KillBackgroundTask, Emit, Persist
  <2>2. QED BY <2>1 DEF CallInv, Waiting, RefusalMeansNotRun
<1>11. CASE Crash
  BY <1>11 DEF CallInv, Waiting, RefusalMeansNotRun, Crash, Fresh
<1>12. QED
  BY <1>1, <1>2, <1>3, <1>4, <1>5, <1>6, <1>7, <1>8, <1>9, <1>10, <1>11 DEF Next

-----------------------------------------------------------------------------
(* SandboxRun: logs.                                                       *)

LEMMA Appended ==
  ASSUME NEW S, NEW q \in Seq(S), NEW e \in S
  PROVE  /\ Append(q, e) \in Seq(S)
         /\ Len(Append(q, e)) = Len(q) + 1
         /\ Append(q, e)[Len(q) + 1] = e
         /\ \A k \in 1..Len(q) : Append(q, e)[k] = q[k]
OBVIOUS

LEMMA Rewritten ==
  ASSUME NEW S, NEW n \in Nat, NEW f, f \in [1..n -> S]
  PROVE  f \in Seq(S) /\ Len(f) = n
OBVIOUS

\* A task may change in all but its log.
SameLog(a, b) == a.log = b.log /\ a.whole = b.whole

\* While no event was lost, a log is named after one that there was.
LEMMA LogsAreDated ==
  ASSUME LogInv, ~lost, NEW i \in 1..Len(tasks)
  PROVE  tasks[i].log[1] \in Nat /\ tasks[i].log[1] <= next_event
<1>1. tasks[i] \in TaskRecord
  BY DEF LogInv, Ledger
<1>2. tasks[i].log \in Nat \X Nat
  BY <1>1 DEF TaskRecord
<1>3. tasks[i].log[1] \in Nat
  BY ONLY <1>2
<1>4. tasks[i].log[1] <= next_event
  BY DEF LogInv, Dated
<1>5. QED BY <1>3, <1>4

\* No log is opened, and the numbers of events go on, unless some were lost.
LEMMA LogsKept ==
  ASSUME LogInv, Ledger', Len(tasks') = Len(tasks),
         \A i \in 1..Len(tasks) : SameLog(tasks'[i], tasks[i]),
         lost' \/ (~lost /\ next_event <= next_event')
  PROVE  LogInv'
<1>1. CASE lost'
  BY <1>1 DEF LogInv, Dated, LogsAreNotShared
<1>2. CASE ~lost'
  <2>1. ~lost /\ next_event <= next_event' /\ next_event \in Nat /\ next_event' \in Nat
    BY <1>2 DEF LogInv, Ledger
  <2>2. tasks \in Seq(TaskRecord) /\ tasks' \in Seq(TaskRecord)
    BY DEF LogInv, Ledger
  <2>3. DOMAIN tasks = 1..Len(tasks) /\ DOMAIN tasks' = 1..Len(tasks)
    BY <2>2
  <2>4. \A i \in 1..Len(tasks) :
          tasks'[i].log = tasks[i].log /\ tasks'[i].whole = tasks[i].whole
    BY DEF SameLog
  <2>5. Dated'
    <3>1. ASSUME NEW i \in 1..Len(tasks) PROVE tasks'[i].log[1] <= next_event'
      <4>1. tasks[i].log[1] <= next_event /\ tasks[i].log[1] \in Nat
        BY <2>1, LogsAreDated
      <4>2. QED BY <2>1, <2>4, <4>1
    <3>2. QED BY <3>1 DEF Dated
  <2>6. LogsAreNotShared'
    BY <2>1, <2>3, <2>4 DEF LogInv, LogsAreNotShared
  <2>7. QED BY <2>5, <2>6 DEF LogInv
<1>3. QED BY <1>1, <1>2

LEMMA TaskNumbersCount ==
  ASSUME tasks \in Seq(TaskRecord)
  PROVE  Cardinality(Known) \in Nat
<1>1. Len(tasks) \in Nat /\ Known \subseteq 1..Len(tasks)
  BY DEF Known
<1>2. IsFiniteSet(1..Len(tasks))
  BY <1>1, FS_Interval
<1>3. IsFiniteSet(Known)
  BY <1>1, <1>2, FS_Subset
<1>4. QED BY <1>3, FS_CardinalityType

\* The log opened next, while no event was lost, is nobody's.
LEMMA LogIsNew ==
  ASSUME LogInv
  PROVE  /\ TaskId \in Nat \X Nat /\ TaskId[1] = next_event + 1
         /\ LogOpened \in Seq(TaskRecord) /\ Len(LogOpened) = Len(tasks)
         /\ ~lost => \A i \in 1..Len(tasks) :
                        tasks[i].log # TaskId /\ SameLog(LogOpened[i], tasks[i])
<1>1. tasks \in Seq(TaskRecord) /\ next_event \in Nat /\ Len(tasks) \in Nat
  BY DEF LogInv, Ledger
<1>2. TaskId \in Nat \X Nat /\ TaskId[1] = next_event + 1
  BY <1>1, TaskNumbersCount DEF TaskId
<1> DEFINE Opened(i) == [tasks[i] EXCEPT !.whole = tasks[i].whole /\ tasks[i].log # TaskId]
<1>3. LogOpened = [i \in 1..Len(tasks) |-> Opened(i)]
  BY <1>1 DEF LogOpened
<1>4. ASSUME NEW i \in 1..Len(tasks)
      PROVE  /\ Opened(i) \in TaskRecord /\ Opened(i).log = tasks[i].log
             /\ tasks[i].log # TaskId => Opened(i).whole = tasks[i].whole
  <2>1. tasks[i] \in TaskRecord
    BY <1>1
  <2>2. CASE tasks[i].log # TaskId
    <3>1. (tasks[i].whole /\ tasks[i].log # TaskId) = tasks[i].whole
      BY <2>1, <2>2 DEF TaskRecord
    <3>2. QED BY <2>1, <3>1 DEF TaskRecord
  <2>3. CASE tasks[i].log = TaskId
    <3>1. (tasks[i].whole /\ tasks[i].log # TaskId) = FALSE
      BY <2>3
    <3>2. QED BY <2>1, <2>3, <3>1 DEF TaskRecord
  <2>4. QED BY <2>2, <2>3
<1> HIDE DEF Opened
<1>5. LogOpened \in Seq(TaskRecord) /\ Len(LogOpened) = Len(tasks)
  <2>1. LogOpened \in [1..Len(tasks) -> TaskRecord]
    BY <1>3, <1>4
  <2>2. QED BY <1>1, <2>1, Rewritten
<1>6. ASSUME ~lost, NEW i \in 1..Len(tasks)
      PROVE  tasks[i].log # TaskId /\ SameLog(LogOpened[i], tasks[i])
  <2>1. tasks[i].log[1] <= next_event /\ tasks[i].log[1] \in Nat
    BY <1>6, LogsAreDated
  <2>2. tasks[i].log # TaskId
    BY <1>1, <1>2, <2>1
  <2>3. QED BY <1>3, <1>4, <2>2 DEF SameLog
<1>7. QED BY <1>2, <1>5, <1>6

LEMMA BackgroundKeepsLogs ==
  ASSUME LogInv, NEW policy, NEW request, NEW preference,
         StartBackgroundShellTask(policy, request, preference)
  PROVE  LogInv'
<1> DEFINE n == Len(tasks)
<1>1. next_event' = next_event + 1 /\ UNCHANGED <<persisted, lost>>
  BY DEF StartBackgroundShellTask
<1>2. /\ next_event \in Nat /\ persisted \in Nat /\ lost \in BOOLEAN /\ n \in Nat
      /\ tasks \in Seq(TaskRecord)
  BY DEF LogInv, Ledger
<1>3. next_event' \in Nat /\ persisted' \in Nat /\ lost' \in BOOLEAN
  BY <1>1, <1>2
<1>4. CASE tasks' = LogOpened
  <2>1. tasks' \in Seq(TaskRecord) /\ Len(tasks') = n
    BY <1>4, LogIsNew
  <2>2. Ledger'
    BY <1>3, <2>1 DEF Ledger
  <2>3. CASE lost
    BY <1>1, <2>2, <2>3 DEF LogInv, Dated, LogsAreNotShared
  <2>4. CASE ~lost
    <3>1. \A i \in 1..n : SameLog(tasks'[i], tasks[i])
      BY <1>4, <2>4, LogIsNew
    <3>2. ~lost /\ next_event <= next_event'
      BY <1>1, <1>2, <2>4
    <3>3. QED BY <2>1, <2>2, <3>1, <3>2, LogsKept
  <2>5. QED BY <2>3, <2>4
<1>5. CASE tasks' = Append(LogOpened, NewTask(policy, request, preference))
  <2> DEFINE task == NewTask(policy, request, preference)
  <2>1. task \in TaskRecord /\ task.log = TaskId /\ task.whole = TRUE
    <3>1. TaskId \in Nat \X Nat
      BY LogIsNew
    <3>2. QED BY <3>1 DEF NewTask, TaskRecord, TaskCode, TaskStatus
  <2> HIDE DEF task
  <2>2. /\ tasks' \in Seq(TaskRecord) /\ Len(tasks') = n + 1 /\ tasks'[n + 1] = task
        /\ \A i \in 1..n : tasks'[i] = LogOpened[i]
    <3>1. LogOpened \in Seq(TaskRecord) /\ Len(LogOpened) = n
      BY LogIsNew
    <3>2. tasks' = Append(LogOpened, task)
      BY <1>5 DEF task
    <3>3. QED BY <2>1, <3>1, <3>2, Appended
  <2>3. Ledger'
    BY <1>3, <2>2 DEF Ledger
  <2>4. CASE lost
    BY <1>1, <2>3, <2>4 DEF LogInv, Dated, LogsAreNotShared
  <2>5. CASE ~lost
    <3>1. ASSUME NEW i \in 1..n
          PROVE  /\ tasks'[i].log = tasks[i].log /\ tasks'[i].whole = tasks[i].whole
                 /\ tasks[i].log # TaskId
      BY <2>2, <2>5, LogIsNew DEF SameLog
    <3>2. tasks'[n + 1].log = TaskId /\ tasks'[n + 1].whole = TRUE
      BY <2>1, <2>2
    <3>3. ASSUME NEW i \in 1..(n + 1), i # n + 1 PROVE i \in 1..n
      BY <1>2, <3>3
    <3>4. DOMAIN tasks' = 1..(n + 1) /\ DOMAIN tasks = 1..n
      BY <1>2, <2>2
    <3>5. Dated'
      <4>1. ASSUME NEW i \in 1..(n + 1) PROVE tasks'[i].log[1] <= next_event'
        <5>1. CASE i = n + 1
          <6>1. tasks'[i].log[1] = next_event + 1
            BY <3>2, <5>1, LogIsNew
          <6>2. QED BY <1>1, <1>2, <6>1
        <5>2. CASE i # n + 1
          <6>1. i \in 1..n
            BY <3>3, <5>2
          <6>2. tasks[i].log[1] <= next_event /\ tasks[i].log[1] \in Nat
            BY <2>5, <6>1, LogsAreDated
          <6>3. QED BY <1>1, <1>2, <3>1, <6>1, <6>2
        <5>3. QED BY <5>1, <5>2
      <4>2. QED BY <2>2, <4>1 DEF Dated
    <3>6. LogsAreNotShared'
      <4>1. ASSUME NEW i \in 1..(n + 1) PROVE tasks'[i].whole
        <5>1. CASE i = n + 1
          BY <3>2, <5>1
        <5>2. CASE i # n + 1
          BY <2>5, <3>1, <3>3, <3>4, <5>2 DEF LogInv, LogsAreNotShared
        <5>3. QED BY <5>1, <5>2
      <4>2. ASSUME NEW i \in 1..(n + 1), NEW j \in 1..(n + 1), i # j
            PROVE  tasks'[i].log # tasks'[j].log
        <5>1. CASE i = n + 1 \/ j = n + 1
          BY <3>1, <3>2, <3>3, <4>2, <5>1
        <5>2. CASE i # n + 1 /\ j # n + 1
          <6>1. i \in 1..n /\ j \in 1..n
            BY <3>3, <5>2
          <6>2. tasks[i].log # tasks[j].log
            BY <2>5, <3>4, <4>2, <6>1 DEF LogInv, LogsAreNotShared
          <6>3. QED BY <3>1, <6>1, <6>2
        <5>3. QED BY <5>1, <5>2
      <4>3. QED BY <3>4, <4>1, <4>2 DEF LogsAreNotShared
    <3>7. QED BY <2>3, <3>5, <3>6 DEF LogInv
  <2>6. QED BY <2>4, <2>5
<1>6. QED
  BY <1>4, <1>5 DEF StartBackgroundShellTask, BackgroundStarts, BackgroundRefused,
                    BackgroundUnwound

\* What the requests about tasks, the ends of commands and the death of the
\* process make of a task.
LEMMA TasksRewritten ==
  ASSUME LogInv, NEW f, f \in [1..Len(tasks) -> TaskRecord], tasks' = f,
         \A i \in 1..Len(tasks) : SameLog(f[i], tasks[i]),
         next_event' \in Nat, persisted' \in Nat, lost' \in BOOLEAN,
         lost' \/ (~lost /\ next_event <= next_event')
  PROVE  LogInv'
<1>1. Len(tasks) \in Nat
  BY DEF LogInv, Ledger
<1>2. tasks' \in Seq(TaskRecord) /\ Len(tasks') = Len(tasks)
  BY <1>1, Rewritten
<1>3. Ledger'
  BY <1>2 DEF Ledger
<1>4. \A i \in 1..Len(tasks) : SameLog(tasks'[i], tasks[i])
  OBVIOUS
<1>5. QED BY <1>2, <1>3, <1>4, LogsKept

\* An action that leaves the numbers of events alone.
LEMMA NumbersStay ==
  ASSUME LogInv, UNCHANGED <<next_event, persisted, lost>>
  PROVE  /\ next_event' \in Nat /\ persisted' \in Nat /\ lost' \in BOOLEAN
         /\ lost' \/ (~lost /\ next_event <= next_event')
BY DEF LogInv, Ledger

LEMMA TaskRefreshed ==
  ASSUME NEW task \in TaskRecord
  PROVE  Refreshed(task) \in TaskRecord /\ SameLog(Refreshed(task), task)
<1> DEFINE status == IF task.code = "zero" THEN "completed" ELSE "failed"
           told == [task EXCEPT !.status = status]
<1>1. told \in TaskRecord /\ SameLog(told, task)
  BY DEF TaskRecord, TaskStatus, SameLog
<1>2. Refreshed(task) = told \/ Refreshed(task) = task
  BY DEF Refreshed
<1> HIDE DEF told
<1>3. SameLog(task, task)
  BY DEF SameLog
<1>4. QED BY <1>1, <1>2, <1>3

LEMMA TasksRefreshed ==
  ASSUME LogInv
  PROVE  /\ RefreshShellTasks \in [1..Len(tasks) -> TaskRecord]
         /\ \A i \in 1..Len(tasks) : SameLog(RefreshShellTasks[i], tasks[i])
<1>1. tasks \in Seq(TaskRecord) /\ DOMAIN tasks = 1..Len(tasks)
  BY DEF LogInv, Ledger
<1>2. \A i \in 1..Len(tasks) : Refreshed(tasks[i]) \in TaskRecord /\ SameLog(Refreshed(tasks[i]), tasks[i])
  BY <1>1, TaskRefreshed
<1>3. QED BY <1>1, <1>2 DEF RefreshShellTasks

LEMMA ListKeepsLogs ==
  ASSUME LogInv, ListBackgroundTasks
  PROVE  LogInv'
<1>1. tasks' = RefreshShellTasks /\ UNCHANGED <<next_event, persisted, lost>>
  BY DEF ListBackgroundTasks, ledger
<1>2. QED BY <1>1, NumbersStay, TasksRefreshed, TasksRewritten

LEMMA KillKeepsLogs ==
  ASSUME LogInv, NEW i \in DOMAIN tasks, KillBackgroundTask(i)
  PROVE  LogInv'
<1> DEFINE all == RefreshShellTasks
           code == IF all[i].code = "alive" THEN "other" ELSE all[i].code
           killed == [all[i] EXCEPT !.status = "killed", !.code = code]
           after == [all EXCEPT ![i] = killed]
<1>1. i \in 1..Len(tasks)
  BY DEF LogInv, Ledger
<1>2. /\ all \in [1..Len(tasks) -> TaskRecord]
      /\ \A k \in 1..Len(tasks) : SameLog(all[k], tasks[k])
  BY TasksRefreshed
<1>3. UNCHANGED <<next_event, persisted, lost>>
  BY DEF KillBackgroundTask, ledger
<1>4. CASE tasks' = all
  BY <1>2, <1>3, <1>4, NumbersStay, TasksRewritten
<1>5. CASE tasks' = [all EXCEPT ![i].status = "killed",
                               ![i].code = IF @ = "alive" THEN "other" ELSE @]
  <2> HIDE DEF all
  <2>1. all[i] \in TaskRecord /\ SameLog(all[i], tasks[i])
    BY <1>1, <1>2
  <2>2. killed \in TaskRecord /\ SameLog(killed, tasks[i])
    <3>1. code \in TaskCode
      BY <2>1 DEF TaskRecord, TaskCode
    <3>2. QED BY <2>1, <3>1 DEF TaskRecord, TaskStatus, SameLog
  <2>3. tasks' = after
    BY <1>1, <1>2, <1>5, <2>1 DEF TaskRecord
  <2> HIDE DEF killed
  <2>4. after \in [1..Len(tasks) -> TaskRecord]
    BY <1>2, <2>2
  <2>5. \A k \in 1..Len(tasks) : SameLog(after[k], tasks[k])
    BY <1>1, <1>2, <2>2
  <2>6. QED BY <1>3, <2>3, <2>4, <2>5, NumbersStay, TasksRewritten
<1>6. QED BY <1>4, <1>5 DEF KillBackgroundTask

LEMMA ExitKeepsLogs ==
  ASSUME LogInv, NEW i \in DOMAIN tasks, TaskExits(i)
  PROVE  LogInv'
<1>1. PICK code \in TaskCode : tasks' = [tasks EXCEPT ![i].code = code]
  BY DEF TaskExits, TaskCode
<1> DEFINE ended == [tasks[i] EXCEPT !.code = code]
           after == [tasks EXCEPT ![i] = ended]
<1>2. UNCHANGED <<next_event, persisted, lost>>
  BY DEF TaskExits, ledger
<1>3. tasks \in Seq(TaskRecord) /\ i \in 1..Len(tasks) /\ DOMAIN tasks = 1..Len(tasks)
  BY DEF LogInv, Ledger
<1>4. ended \in TaskRecord /\ SameLog(ended, tasks[i])
  <2>1. tasks[i] \in TaskRecord
    BY <1>3
  <2>2. ended \in TaskRecord
    BY <2>1 DEF TaskRecord
  <2>3. SameLog(ended, tasks[i])
    BY <2>1 DEF TaskRecord, SameLog
  <2>4. QED BY <2>2, <2>3
<1>5. tasks' = after
  BY <1>1
<1> HIDE DEF ended
<1>6. after \in [1..Len(tasks) -> TaskRecord]
  BY <1>3, <1>4
<1>7. \A k \in 1..Len(tasks) : SameLog(after[k], tasks[k])
  BY <1>3, <1>4 DEF SameLog
<1>8. QED BY <1>2, <1>5, <1>6, <1>7, NumbersStay, TasksRewritten

\* What is given again was lost.
LEMMA CrashKeepsLogs ==
  ASSUME LogInv, Crash
  PROVE  LogInv'
<1> DEFINE Code(i) == IF tasks[i].token /\ JobCloses(tasks[i].code) = "dead"
                      THEN "other" ELSE tasks[i].code
           Left(i) == [tasks[i] EXCEPT !.known = FALSE, !.code = Code(i)]
           after == [i \in 1..Len(tasks) |-> Left(i)]
<1>1. /\ next_event' = persisted /\ persisted' = persisted
      /\ lost' = (lost \/ persisted < next_event)
  BY DEF Crash
<1>2. /\ next_event \in Nat /\ persisted \in Nat /\ lost \in BOOLEAN
      /\ tasks \in Seq(TaskRecord) /\ DOMAIN tasks = 1..Len(tasks)
  BY DEF LogInv, Ledger
<1>3. tasks' = after
  BY <1>2 DEF Crash
<1>4. ASSUME NEW i \in 1..Len(tasks)
      PROVE  Left(i) \in TaskRecord /\ SameLog(Left(i), tasks[i])
  <2>1. tasks[i] \in TaskRecord
    BY <1>2
  <2>2. Code(i) \in TaskCode
    BY <2>1 DEF TaskRecord, TaskCode
  <2> HIDE DEF Code
  <2>3. QED BY <2>1, <2>2 DEF TaskRecord, SameLog
<1> HIDE DEF Left
<1>5. after \in [1..Len(tasks) -> TaskRecord] /\ \A i \in 1..Len(tasks) : SameLog(after[i], tasks[i])
  BY <1>4
<1>6. next_event' \in Nat /\ persisted' \in Nat /\ lost' \in BOOLEAN
  BY <1>1, <1>2
<1>7. lost' \/ (~lost /\ next_event <= next_event')
  <2>1. CASE lost \/ persisted < next_event
    BY <1>1, <2>1
  <2>2. CASE ~(lost \/ persisted < next_event)
    BY <1>1, <1>2, <2>2
  <2>3. QED BY <2>1, <2>2
<1>8. QED BY <1>3, <1>5, <1>6, <1>7, TasksRewritten

LEMMA QuietKeepsLogs ==
  ASSUME LogInv, UNCHANGED <<tasks, lost>>, next_event' \in Nat, persisted' \in Nat,
         next_event <= next_event'
  PROVE  LogInv'
<1>1. Ledger'
  BY DEF LogInv, Ledger
<1>2. \A i \in 1..Len(tasks) : SameLog(tasks'[i], tasks[i])
  BY DEF SameLog
<1>3. lost' \/ (~lost /\ next_event <= next_event')
  BY DEF LogInv, Ledger
<1>4. QED BY <1>1, <1>2, <1>3, LogsKept

LEMMA LogStepKeeps ==
  ASSUME LogInv, Next
  PROVE  LogInv'
<1>1. next_event \in Nat /\ persisted \in Nat
  BY DEF LogInv, Ledger
<1>2. CASE \/ ForegroundCall \/ PosixSpawn \/ CreateSuspended \/ ResumeThread \/ SpawnFails
           \/ CommandStartsProcess \/ CommandExits \/ KidExits
           \/ ReachEnd \/ ReachLimit \/ SeeExit \/ Deadline
           \/ WaitFails \/ WindowsWaitFails \/ ReadFails \/ Return
  <2>1. UNCHANGED <<tasks, ledger>>
    BY <1>2 DEF ForegroundCall, ShellTool, SandboxExec, PosixSpawn, CreateSuspended,
                ResumeThread, SpawnFails, CommandStartsProcess, CommandExits, KidExits,
                ReachEnd, ReachLimit, ReadBounded, SeeExit, Deadline, WaitFails,
                WindowsWaitFails, ReadFails, Unwind, Return
  <2>2. QED BY <1>1, <2>1, QuietKeepsLogs DEF ledger
<1>3. CASE BackgroundCall
  BY <1>3, BackgroundKeepsLogs DEF BackgroundCall
<1>4. CASE \E i \in DOMAIN tasks : TaskExits(i)
  BY <1>4, ExitKeepsLogs
<1>5. CASE ShellTaskTool
  BY <1>5, ListKeepsLogs, KillKeepsLogs DEF ShellTaskTool, ReadBackgroundTask
<1>6. CASE Emit
  BY <1>1, <1>6, QuietKeepsLogs DEF Emit
<1>7. CASE Persist
  BY <1>1, <1>7, QuietKeepsLogs DEF Persist
<1>8. CASE Crash
  BY <1>8, CrashKeepsLogs
<1>9. QED BY <1>2, <1>3, <1>4, <1>5, <1>6, <1>7, <1>8 DEF Next

-----------------------------------------------------------------------------
(* Theorems.                                                               *)

\* A refused call ran nothing, unless an error came after the command began
\* (execute_sandboxed, the spawns of every adapter).
THEOREM RefusalCorrect == Spec => []RefusalMeansNotRun
<1>1. Init => CallInv
  BY DEF Init, CallInv, Waiting, RefusalMeansNotRun
<1>2. CallInv /\ [Next]_vars => CallInv'
  <2>1. CallInv /\ UNCHANGED vars => CallInv'
    BY DEF CallInv, Waiting, RefusalMeansNotRun, vars
  <2>2. QED BY <2>1, CallStepKeeps
<1>3. CallInv => RefusalMeansNotRun
  BY DEF CallInv
<1>4. QED BY <1>1, <1>2, <1>3, PTL DEF Spec

\* No two background tasks share a log and none is emptied, unless a crash lost
\* events (start_background_shell_task).
THEOREM LogsCorrect == Spec => []LogsAreNotShared
<1>1. Init => LogInv
  <2> SUFFICES ASSUME Init PROVE LogInv
    OBVIOUS
  <2>1. tasks = <<>> /\ next_event = 0 /\ persisted = 0 /\ lost = FALSE
    BY DEF Init
  <2>2. tasks \in Seq(TaskRecord) /\ Len(tasks) = 0 /\ DOMAIN tasks = {}
    BY <2>1
  <2>3. Ledger
    BY <2>1, <2>2 DEF Ledger
  <2>4. Dated /\ LogsAreNotShared
    BY <2>2 DEF Dated, LogsAreNotShared
  <2>5. QED BY <2>3, <2>4 DEF LogInv
<1>2. LogInv /\ [Next]_vars => LogInv'
  <2>1. ASSUME LogInv, UNCHANGED vars PROVE LogInv'
    <3>1. UNCHANGED <<tasks, next_event, persisted, lost>>
      BY <2>1 DEF vars, ledger
    <3>2. QED BY <2>1, <3>1 DEF LogInv, Ledger, Dated, LogsAreNotShared
  <2>2. QED BY <2>1, LogStepKeeps
<1>3. LogInv => LogsAreNotShared
  BY DEF LogInv
<1>4. QED BY <1>1, <1>2, <1>3, PTL DEF Spec

-----------------------------------------------------------------------------
(* FileTools: paths.                                                       *)

\* A path without a dot, so one that is not relative.
Whole == {p \in Seq(STRING) : \A i \in 1..Len(p) : p[i] # "."}

LEMMA WholePaths ==
  ASSUME NEW p
  PROVE  IsWhole(p) <=> p \in Whole
<1>1. ASSUME IsWhole(p) PROVE p \in Whole
  <2>1. p \in Seq(STRING) /\ \A i \in 2..Len(p) : p[i] # "."
    BY <1>1 DEF IsWhole, IsPath
  <2>2. ASSUME NEW i \in 1..Len(p) PROVE p[i] # "."
    <3>1. CASE i = 1
      <4>1. p # <<>>
        BY <2>1
      <4>2. QED BY <1>1, <3>1, <4>1 DEF IsWhole, Relative
    <3>2. CASE i # 1
      BY <2>1, <3>2
    <3>3. QED BY <3>1, <3>2
  <2>3. QED BY <2>1, <2>2 DEF Whole
<1>2. ASSUME p \in Whole PROVE IsWhole(p)
  <2>1. p \in Seq(STRING) /\ \A i \in 1..Len(p) : p[i] # "."
    BY <1>2 DEF Whole
  <2>2. p # <<>> => p[1] # "."
    BY <2>1
  <2>3. QED BY <2>1, <2>2 DEF IsWhole, IsPath, Relative
<1>3. QED BY <1>1, <1>2

LEMMA WholeIsItself ==
  ASSUME NEW p \in Whole, NEW cwd
  PROVE  Absolute(p, cwd) = p
<1>1. ~Relative(p)
  BY WholePaths DEF IsWhole
<1>2. QED BY <1>1 DEF Absolute

LEMMA AbsoluteIsWhole ==
  ASSUME NEW p, IsPath(p), NEW cwd \in Whole
  PROVE  Absolute(p, cwd) \in Whole
<1>1. CASE ~Relative(p)
  <2>1. p \in Whole
    BY <1>1, WholePaths DEF IsWhole
  <2>2. QED BY <2>1, WholeIsItself
<1>2. CASE Relative(p)
  <2>1. p \in Seq(STRING) /\ p # <<>> /\ \A i \in 2..Len(p) : p[i] # "."
    BY <1>2 DEF IsPath, Relative
  <2>2. cwd \in Seq(STRING) /\ \A i \in 1..Len(cwd) : cwd[i] # "."
    BY DEF Whole
  <2>3. /\ Tail(p) \in Seq(STRING) /\ Len(Tail(p)) = Len(p) - 1
        /\ \A i \in 1..Len(Tail(p)) : Tail(p)[i] = p[i + 1]
    BY <2>1
  <2>4. \A i \in 1..Len(Tail(p)) : Tail(p)[i] # "."
    BY <2>1, <2>3
  <2> DEFINE tail == Tail(p)
  <2> HIDE DEF tail
  <2>5. tail \in Seq(STRING) /\ \A i \in 1..Len(tail) : tail[i] # "."
    BY <2>3, <2>4 DEF tail
  <2>6. /\ cwd \o tail \in Seq(STRING) /\ Len(cwd \o tail) = Len(cwd) + Len(tail)
        /\ \A i \in 1..Len(cwd) : (cwd \o tail)[i] = cwd[i]
        /\ \A i \in 1..Len(tail) : (cwd \o tail)[Len(cwd) + i] = tail[i]
    BY <2>2, <2>5
  <2>7. ASSUME NEW i \in 1..Len(cwd \o tail) PROVE (cwd \o tail)[i] # "."
    <3>1. CASE i <= Len(cwd)
      BY <2>2, <2>6, <3>1
    <3>2. CASE i > Len(cwd)
      <4>1. i - Len(cwd) \in 1..Len(tail) /\ i = Len(cwd) + (i - Len(cwd))
        BY <2>2, <2>5, <2>6, <3>2
      <4>2. QED BY <2>5, <2>6, <4>1
    <3>3. QED BY <2>2, <2>6, <3>1, <3>2
  <2>8. cwd \o tail \in Whole
    BY <2>6, <2>7 DEF Whole
  <2>9. QED BY <1>2, <2>8 DEF Absolute, tail
<1>3. QED BY <1>1, <1>2

\* Normalizing takes away names and dots, and adds none.
Names == INSTANCE Folding WITH op <- TakeName

LEMMA NormalizeFolds == \A p : LexicalNormalize(p) = Names!Fold(<<>>, p)
BY DEF LexicalNormalize, Names!Fold, FoldLeft, Names!FoldLeft, MapThenFoldSet,
   Names!MapThenFoldSet, Max, Names!Max

LEMMA TakeNameIsWhole ==
  ASSUME NEW done \in Whole, NEW name \in STRING \ {"."}
  PROVE  TakeName(done, name) \in Whole
<1>1. done \in Seq(STRING) /\ \A i \in 1..Len(done) : done[i] # "."
  BY DEF Whole
<1>2. Append(done, name) \in Whole
  <2>1. /\ Append(done, name) \in Seq(STRING) /\ Len(Append(done, name)) = Len(done) + 1
        /\ Append(done, name)[Len(done) + 1] = name
        /\ \A i \in 1..Len(done) : Append(done, name)[i] = done[i]
    BY <1>1
  <2>2. ASSUME NEW i \in 1..Len(Append(done, name)) PROVE Append(done, name)[i] # "."
    BY <1>1, <2>1
  <2>3. QED BY <2>1, <2>2 DEF Whole
<1>3. done # <<>> => Front(done) \in Whole
  <2> HAVE done # <<>>
  <2>1. /\ Front(done) \in Seq(STRING) /\ Len(Front(done)) = Len(done) - 1
        /\ \A i \in 1..Len(Front(done)) : Front(done)[i] = done[i]
    BY <1>1 DEF Front
  <2>2. \A i \in 1..Len(Front(done)) : Front(done)[i] # "."
    BY <1>1, <2>1
  <2>3. QED BY <2>1, <2>2 DEF Whole
<1>4. QED BY <1>2, <1>3 DEF TakeName

LEMMA NormalizedIsWhole ==
  ASSUME NEW p \in Whole
  PROVE  LexicalNormalize(p) \in Whole
<1>1. \A done \in Whole, name \in STRING \ {"."} : TakeName(done, name) \in Whole
  BY TakeNameIsWhole
<1>2. p \in Seq(STRING \ {"."})
  BY DEF Whole
<1>3. <<>> \in Whole
  BY DEF Whole
<1>4. Names!Fold(<<>>, p) \in Whole
  BY <1>1, <1>2, <1>3, Names!FoldStays
<1>5. QED BY <1>4, NormalizeFolds

LEMMA CwdIsWhole == Cwd \in Whole
BY FileToolsAssumption, WholePaths

LEMMA TargetIsInProject ==
  ASSUME NEW c \in ToolCalls, Target(c) # NoPath
  PROVE  Target(c) \in Whole /\ IsPrefix(Cwd, Target(c))
<1>1. IsPath(OutputPath(c))
  <2>1. IsPath(c.path)
    BY FileToolsAssumption
  <2>2. IsPath(DefaultOutput)
    BY FileToolsAssumption
  <2>3. QED BY <2>1, <2>2 DEF OutputPath
<1> DEFINE p == LexicalNormalize(Absolute(OutputPath(c), Cwd))
<1>2. p \in Whole
  BY <1>1, CwdIsWhole, AbsoluteIsWhole, NormalizedIsWhole
<1>3. Target(c) = p /\ IsPrefix(Cwd, p)
  BY DEF Target, ResolveProjectPath
<1>4. QED BY <1>2, <1>3

\* What is under a path of the project is under the project.
LEMMA PrefixOfPrefix ==
  ASSUME NEW p \in Seq(STRING), NEW q \in Seq(STRING), NEW r \in Seq(STRING),
         IsPrefix(p, q), IsPrefix(q, r)
  PROVE  IsPrefix(p, r)
<1>1. /\ Len(p) \in Nat /\ Len(q) \in Nat /\ Len(r) \in Nat
      /\ Len(p) <= Len(q) /\ Len(q) <= Len(r) /\ Len(p) <= Len(r)
  BY DEF IsPrefix
<1>2. \A i \in 1..Len(p) : p[i] = q[i]
  <2>1. SubSeq(p, 1, Len(p)) = SubSeq(q, 1, Len(p))
    BY DEF IsPrefix
  <2>2. ASSUME NEW i \in 1..Len(p) PROVE p[i] = q[i]
    <3>1. SubSeq(p, 1, Len(p))[i] = p[i] /\ SubSeq(q, 1, Len(p))[i] = q[i]
      BY <1>1
    <3>2. QED BY <2>1, <3>1
  <2>3. QED BY <2>2
<1>3. \A i \in 1..Len(q) : q[i] = r[i]
  <2>1. SubSeq(q, 1, Len(q)) = SubSeq(r, 1, Len(q))
    BY DEF IsPrefix
  <2>2. ASSUME NEW i \in 1..Len(q) PROVE q[i] = r[i]
    <3>1. SubSeq(q, 1, Len(q))[i] = q[i] /\ SubSeq(r, 1, Len(q))[i] = r[i]
      BY <1>1
    <3>2. QED BY <2>1, <3>1
  <2>3. QED BY <2>2
<1>4. SubSeq(p, 1, Len(p)) = SubSeq(r, 1, Len(p))
  <2>1. \A i \in 1..Len(p) : p[i] = r[i]
    BY <1>1, <1>2, <1>3
  <2>2. /\ SubSeq(p, 1, Len(p)) \in Seq(STRING) /\ Len(SubSeq(p, 1, Len(p))) = Len(p)
        /\ SubSeq(r, 1, Len(p)) \in Seq(STRING) /\ Len(SubSeq(r, 1, Len(p))) = Len(p)
    BY <1>1
  <2>3. \A i \in 1..Len(p) : SubSeq(p, 1, Len(p))[i] = SubSeq(r, 1, Len(p))[i]
    BY <1>1, <2>1
  <2> DEFINE one == SubSeq(p, 1, Len(p))
             two == SubSeq(r, 1, Len(p))
  <2> HIDE DEF one, two
  <2>4. one \in Seq(STRING) /\ two \in Seq(STRING) /\ Len(one) = Len(two)
        /\ \A i \in 1..Len(one) : one[i] = two[i]
    BY <2>2, <2>3 DEF one, two
  <2>5. one = two
    BY <2>4
  <2>6. QED BY <2>5 DEF one, two
<1>5. QED BY <1>1, <1>4 DEF IsPrefix

-----------------------------------------------------------------------------
(* What a policy that lets a file be reached grants.                       *)

\* A policy of a call's own names the directories it grants; those of the turn
\* get the project's (WithDefaults).
NamesRoots(policy) ==
  /\ policy.filesystem \in Filesystems
  /\ EffectiveReadable(policy.profile) # {}
  /\ policy.filesystem = "workspaceWrite" => policy.profile.writable # {}

CallsNameRoots ==
  \A c \in ToolCalls : c.policy # NoPolicy => NamesRoots(c.policy)

LEMMA TurnPolicyNamesRoots ==
  ASSUME turn_policy \in TurnPolicies, turn_policy # NoPolicy
  PROVE  NamesRoots(WithDefaults(turn_policy))
<1> DEFINE P == turn_policy
           D == WithDefaults(turn_policy)
           OrCwd(roots) == IF roots = {} THEN {Cwd} ELSE roots
<1>1. IsPolicy(P)
  BY FileToolsAssumption
<1>2. /\ P \in [profile : [mode : Modes,
                           readable : SUBSET Seq(STRING), writable : SUBSET Seq(STRING),
                           rules : SUBSET [root : Roots, path : Seq(STRING), access : Accesses],
                           dirs : SUBSET STRING, files : SUBSET STRING],
                filesystem : Filesystems, network : Networks]
  BY <1>1 DEF IsPolicy
<1>3. PICK Q : Q = [[P.profile EXCEPT !.readable = OrCwd(P.profile.readable)]
                      EXCEPT !.writable = IF P.filesystem = "workspaceWrite"
                                          THEN OrCwd(P.profile.writable)
                                          ELSE P.profile.writable]
  OBVIOUS
<1>4. /\ Q.readable = OrCwd(P.profile.readable)
      /\ P.filesystem = "workspaceWrite" => Q.writable = OrCwd(P.profile.writable)
  BY <1>2, <1>3
<1>5. D.profile = Q /\ D.filesystem = P.filesystem
  BY <1>2, <1>3 DEF WithDefaults
<1>6. P.filesystem \in Filesystems
  BY <1>2
<1>7. QED BY <1>4, <1>5, <1>6 DEF NamesRoots, EffectiveReadable

LEMMA DefaultNamesRoots ==
  ASSUME NEW writes \in BOOLEAN
  PROVE  /\ DefaultFileToolPolicy(writes).filesystem \in Filesystems
         /\ EffectiveReadable(DefaultFileToolPolicy(writes).profile) # {}
         /\ writes => DefaultFileToolPolicy(writes).profile.writable # {}
<1>1. CASE writes
  BY <1>1 DEF DefaultFileToolPolicy, DefaultPolicy, ToolProfile, EffectiveReadable, Filesystems
<1>2. CASE ~writes
  BY <1>2 DEF DefaultFileToolPolicy, DefaultPolicy, ToolProfile, EffectiveReadable, Filesystems
<1>3. QED BY <1>1, <1>2

\* The policy in force names a directory for what it lets a call do.
LEMMA RootsInForce ==
  ASSUME NEW c \in ToolCalls, NEW writes \in BOOLEAN,
         turn_policy \in TurnPolicies, CallsNameRoots,
         NEW P, P = PolicyInForce(c, DefaultFileToolPolicy(writes))
  PROVE  /\ P.filesystem \in Filesystems
         /\ EffectiveReadable(P.profile) # {}
         /\ writes /\ P.filesystem = "workspaceWrite" => P.profile.writable # {}
<1>1. CASE c.policy # NoPolicy
  BY <1>1 DEF PolicyInForce, CallsNameRoots, NamesRoots
<1>2. CASE c.policy = NoPolicy /\ turn_policy = NoPolicy
  BY <1>2, DefaultNamesRoots DEF PolicyInForce, PolicyForTurn
<1>3. CASE c.policy = NoPolicy /\ turn_policy # NoPolicy
  BY <1>3, TurnPolicyNamesRoots DEF PolicyInForce, PolicyForTurn, NamesRoots
<1>4. QED BY <1>1, <1>2, <1>3

\* What the decision says of one file when it is to allow it.
LEMMA AllowedFile ==
  ASSUME NEW P, NEW p \in Whole, p # <<>>, NEW writes \in BOOLEAN,
         EvaluateExec(P, FileRequest(p, writes)) = "allow"
  PROVE  /\ ToSet(p) \cap ProtectedDirs(P.profile) = {}
         /\ Last(p) \notin ProtectedFiles(P.profile)
         /\ ~WithinAny(p, DeniedPaths(P.profile, Cwd), Cwd)
         /\ writes => P.filesystem # "readOnly" /\ P.profile.mode # "autoReview"
<1> DEFINE R == FileRequest(p, writes)
<1>1. R.touched = {p} /\ R.cwd = Cwd /\ R.writes = writes
  BY DEF FileRequest
<1>2. ~TouchesProtectedPattern(P, R) /\ ~TouchesDeniedRule(P, R)
  BY DEF EvaluateExec
<1>3. ~(R.writes /\ P.filesystem = "readOnly") /\ ~(R.writes /\ P.profile.mode = "autoReview")
  BY DEF EvaluateExec
<1> HIDE DEF R
<1>4. Absolute(p, Here) = p
  BY WholeIsItself
<1>5. /\ \A dir \in ProtectedDirs(P.profile) : ~MatchesDir(p, dir)
      /\ \A f \in ProtectedFiles(P.profile) : ~MatchesFile(p, f)
  BY <1>1, <1>2, <1>4 DEF TouchesProtectedPattern
<1>6. \A root \in DeniedPaths(P.profile, Cwd) : ~WithinAny(p, {root}, Cwd)
  BY <1>1, <1>2 DEF TouchesDeniedRule
<1>7. ~WithinAny(p, DeniedPaths(P.profile, Cwd), Cwd)
  BY <1>6, Zenon DEF WithinAny
<1>8. QED BY <1>1, <1>3, <1>5, <1>7 DEF MatchesDir, MatchesFile

\* A path the preflight lets through may be touched: its checks together, of
\* roots, of patterns and of rules, are what the policy says of one path.
LEMMA ReachedMayBeTouched ==
  ASSUME NEW c \in ToolCalls, NEW p \in Whole, NEW writes \in BOOLEAN,
         turn_policy \in TurnPolicies, CallsNameRoots,
         IsPrefix(Cwd, p), p # <<>>, PreflightFileAccess(c, p, writes)
  PROVE  MayTouch(PolicyInForce(c, DefaultFileToolPolicy(writes)), p, writes)
<1>1. PICK P : P = PolicyInForce(c, DefaultFileToolPolicy(writes))
  OBVIOUS
<1>2. FilePathAllowed(p, P, writes) /\ EvaluateExec(P, FileRequest(p, writes)) = "allow"
  BY <1>1 DEF PreflightFileAccess
<1>3. /\ P.filesystem \in Filesystems
      /\ EffectiveReadable(P.profile) # {}
      /\ writes /\ P.filesystem = "workspaceWrite" => P.profile.writable # {}
  BY <1>1, RootsInForce
<1>4. P.filesystem = "unrestricted"
        \/ WithinAny(p, IF writes THEN P.profile.writable ELSE EffectiveReadable(P.profile), Cwd)
  BY <1>2, <1>3 DEF FilePathAllowed, Filesystems
<1>5. MayTouch(P, p, writes)
  BY <1>2, <1>4, AllowedFile DEF MayTouch
<1>6. QED BY <1>1, <1>5

-----------------------------------------------------------------------------
(* The calls.                                                              *)

Steps == {"idle", "waiting", "ready", "editing", "rendering", "asked"}

\* What stays while the thread runs, and what the files are.
FilesKnown ==
  /\ turn_policy \in TurnPolicies
  /\ disk \subseteq Whole
  /\ before \subseteq disk

\* Before a tool opens a file for writing, and before it looked at its path, it has
\* done nothing; what it then writes was asked about when it looked.
CallKnown ==
  /\ step \in Steps
  /\ step # "idle" => tool \in ToolCalls /\ answer = "none" /\ artifact = NoPath
  /\ step # "idle" => wrote = {} /\ shown = {}
  /\ step \in {"waiting", "ready", "editing", "rendering"} => ~sent
  /\ step = "editing" => tool.kind = "edit"
  /\ step = "rendering" => tool.kind = "render"
  /\ step = "asked" => tool.kind = "image"
  /\ step \in {"editing", "rendering", "asked"} => Reaches(tool)
  /\ step \in {"rendering", "asked"} => tool.overwrite \/ Target(tool) \notin before

ToolInv == FilesKnown /\ CallKnown /\ ToolsKeepToThePolicy /\ OutputsAreTheirOwn

LEMMA ReachedTarget ==
  ASSUME ToolInv, CallsNameRoots, tool \in ToolCalls, Reaches(tool),
         NEW writes \in BOOLEAN, writes <=> tool.kind \notin Readers
  PROVE  /\ MayTouch(PolicyInForce(tool, DefaultFileToolPolicy(writes)), Target(tool), writes)
         /\ Target(tool) \in Whole
<1>1. Target(tool) # NoPath /\ PreflightFileAccess(tool, Target(tool), writes)
  BY DEF Reaches
<1>2. Target(tool) \in Whole /\ IsPrefix(Cwd, Target(tool))
  BY <1>1, TargetIsInProject
<1>3. Target(tool) # <<>>
  BY <1>1 DEF NoPath
<1>4. QED BY <1>1, <1>2, <1>3, ReachedMayBeTouched DEF ToolInv, FilesKnown

\* What the policy in force says does not change while the call lasts.
LEMMA PolicyStays ==
  ASSUME turn_policy' = turn_policy, tool' = tool
  PROVE  /\ \A writes \in BOOLEAN : \A p :
              MayTouch(PolicyInForce(tool, DefaultFileToolPolicy(writes)), p, writes)' <=>
              MayTouch(PolicyInForce(tool, DefaultFileToolPolicy(writes)), p, writes)
         /\ TurnNetwork' = TurnNetwork
         /\ Reaches(tool)' <=> Reaches(tool)
         /\ Target(tool)' = Target(tool)
BY DEF MayTouch, PolicyInForce, PolicyForTurn, TurnNetwork, Reaches, PreflightFileAccess, Target

\* A step that goes on with the call, or others' change of a file.
SameCall == UNCHANGED <<turn_policy, services, tool>>

\* What a call wrote, showed and sent is within the policy, also after a step.
LEMMA PolicyKept ==
  ASSUME ToolInv, SameCall,
         \A p \in wrote' : MayTouch(PolicyInForce(tool, DefaultFileToolPolicy(TRUE)), p, TRUE),
         \A p \in shown' : MayTouch(PolicyInForce(tool, DefaultFileToolPolicy(FALSE)), p, FALSE),
         sent' => TurnNetwork = "enabled",
         answer' = "denied" => wrote' = {} /\ shown' = {} /\ ~sent'
  PROVE  ToolsKeepToThePolicy'
<1>1. turn_policy' = turn_policy /\ tool' = tool
  BY DEF SameCall
<1>2. /\ \A writes \in BOOLEAN : \A p :
           MayTouch(PolicyInForce(tool, DefaultFileToolPolicy(writes)), p, writes)' <=>
           MayTouch(PolicyInForce(tool, DefaultFileToolPolicy(writes)), p, writes)
      /\ TurnNetwork' = TurnNetwork
  BY <1>1, PolicyStays
<1>3. \A p \in wrote' : MayTouch(PolicyInForce(tool, DefaultFileToolPolicy(TRUE)), p, TRUE)'
  BY <1>2
<1>4. \A p \in shown' : MayTouch(PolicyInForce(tool, DefaultFileToolPolicy(FALSE)), p, FALSE)'
  BY <1>2
<1>5. QED BY <1>2, <1>3, <1>4 DEF ToolsKeepToThePolicy

LEMMA SameReach ==
  ASSUME SameCall
  PROVE  (Reaches(tool)' <=> Reaches(tool)) /\ Target(tool)' = Target(tool)
BY PolicyStays DEF SameCall

LEMMA KnownFilesStay ==
  ASSUME ToolInv, SameCall, disk' = disk, before' = before
  PROVE  FilesKnown'
BY DEF ToolInv, FilesKnown, SameCall

\* A call that ends with what it has done so far.
LEMMA EndKeeps ==
  ASSUME ToolInv, Untouched, NothingDone, NEW status, Ends(status),
         status # "denied" \/ (wrote = {} /\ shown = {} /\ ~sent)
  PROVE  ToolInv'
<1>1. /\ SameCall /\ disk' = disk /\ before' = before
      /\ UNCHANGED <<shown, wrote, sent, artifact>> /\ step' = "idle" /\ answer' = status
  BY DEF Untouched, NothingDone, SameCall, Ends
<1>2. FilesKnown'
  BY <1>1, KnownFilesStay
<1>3. CallKnown'
  BY <1>1 DEF CallKnown, Steps
<1>4. ToolsKeepToThePolicy'
  BY <1>1, PolicyKept DEF ToolInv, ToolsKeepToThePolicy
<1>5. OutputsAreTheirOwn'
  BY <1>1 DEF ToolInv, OutputsAreTheirOwn, SameCall
<1>6. QED BY <1>2, <1>3, <1>4, <1>5 DEF ToolInv

\* A call that was asked about, or has looked at its path, and goes on.
LEMMA GoOnKeeps ==
  ASSUME ToolInv, Untouched, NothingDone, step \in {"waiting", "ready"}, answer' = answer,
         \/ step' = "ready"
         \/ step' = "editing" /\ tool.kind = "edit" /\ Reaches(tool)
         \/ step' = "rendering" /\ tool.kind = "render" /\ Reaches(tool) /\ ~Occupied
  PROVE  ToolInv'
<1>1. /\ SameCall /\ disk' = disk /\ before' = before
      /\ UNCHANGED <<shown, wrote, sent, artifact>>
  BY DEF Untouched, NothingDone, SameCall
<1>2. FilesKnown'
  BY <1>1, KnownFilesStay
<1>3. (Reaches(tool)' <=> Reaches(tool)) /\ Target(tool)' = Target(tool) /\ tool' = tool
  BY <1>1, SameReach DEF SameCall
<1>4. ~Occupied => tool.overwrite \/ Target(tool) \notin before
  BY DEF Occupied, ToolInv, FilesKnown
<1>5. CallKnown'
  BY <1>1, <1>3, <1>4 DEF ToolInv, CallKnown, Steps
<1>6. ToolsKeepToThePolicy'
  BY <1>1, PolicyKept DEF ToolInv, ToolsKeepToThePolicy
<1>7. OutputsAreTheirOwn'
  BY <1>1, <1>3 DEF ToolInv, OutputsAreTheirOwn
<1>8. QED BY <1>2, <1>5, <1>6, <1>7 DEF ToolInv

\* A call that ends, whatever it has opened, with the file it had looked at.
LEMMA WroteKeeps ==
  ASSUME ToolInv, CallsNameRoots, Untouched, UNCHANGED shown,
         step # "idle", tool.kind \notin Readers, Reaches(tool),
         tool.kind \in {"render", "image"} => tool.overwrite \/ Target(tool) \notin before,
         NEW status \in {"ok", "error"}, Ends(status),
         sent' => TurnNetwork = "enabled",
         \/ UNCHANGED <<wrote, disk>> /\ artifact' = artifact
         \/ /\ wrote' = {Target(tool)} /\ disk' = disk \cup {Target(tool)}
            /\ artifact' \in {artifact, Target(tool)}
  PROVE  ToolInv'
<1>1. SameCall /\ before' = before /\ tool' = tool /\ step' = "idle" /\ answer' = status
  BY DEF Untouched, SameCall, Ends
<1>2. wrote = {} /\ shown = {} /\ artifact = NoPath /\ tool \in ToolCalls
  BY DEF ToolInv, CallKnown
<1>3. /\ MayTouch(PolicyInForce(tool, DefaultFileToolPolicy(TRUE)), Target(tool), TRUE)
      /\ Target(tool) \in Whole
  BY <1>2, ReachedTarget
<1>4. FilesKnown'
  BY <1>1, <1>3 DEF ToolInv, FilesKnown, SameCall
<1>5. CallKnown'
  BY <1>1 DEF CallKnown, Steps
<1>6. ToolsKeepToThePolicy'
  <2>0. wrote' = {} \/ wrote' = {Target(tool)}
    BY <1>2
  <2>1. ASSUME NEW p \in wrote'
        PROVE  MayTouch(PolicyInForce(tool, DefaultFileToolPolicy(TRUE)), p, TRUE)
    <3>1. p = Target(tool)
      BY <2>0
    <3>2. QED BY <1>3, <3>1, Zenon
  <2>2. shown' = {} /\ answer' # "denied"
    BY <1>1, <1>2
  <2>3. QED BY <1>1, <2>1, <2>2, PolicyKept
<1>7. OutputsAreTheirOwn'
  <2>1. wrote' \subseteq {Target(tool)} /\ (artifact' # NoPath => artifact' \in wrote')
    BY <1>2
  <2>2. QED BY <1>1, <2>1 DEF OutputsAreTheirOwn
<1>8. QED BY <1>4, <1>5, <1>6, <1>7 DEF ToolInv

LEMMA StoreKeeps ==
  ASSUME ToolInv, CallsNameRoots, step # "idle", tool.kind \notin Readers, Reaches(tool),
         tool.kind \in {"render", "image"} => tool.overwrite \/ Target(tool) \notin before,
         NEW announced \in {NoPath, Target(tool)}, Store(Target(tool), announced)
  PROVE  ToolInv'
<1>1. PICK status \in {"ok", "error"} : Ends(status) /\
        (\/ UNCHANGED <<wrote, disk>> /\ artifact' = artifact
         \/ /\ wrote' = {Target(tool)} /\ disk' = disk \cup {Target(tool)}
            /\ artifact' \in {artifact, announced})
  BY DEF Store
<1>2. artifact = NoPath
  BY DEF ToolInv, CallKnown
<1>3. \/ UNCHANGED <<wrote, disk>> /\ artifact' = artifact
      \/ /\ wrote' = {Target(tool)} /\ disk' = disk \cup {Target(tool)}
         /\ artifact' \in {artifact, Target(tool)}
  BY <1>1, <1>2
<1>4. Untouched /\ UNCHANGED <<shown, sent>>
  BY DEF Store
<1>5. sent' => TurnNetwork = "enabled"
  BY <1>4 DEF ToolInv, ToolsKeepToThePolicy
<1>6. QED BY <1>1, <1>3, <1>4, <1>5, WroteKeeps

\* What a reader shows: what it was let at.
LEMMA ShowKeeps ==
  ASSUME ToolInv, Untouched, UNCHANGED <<disk, wrote, sent>>,
         step # "idle", tool.kind \in Readers,
         NEW status \in {"ok", "error"}, Ends(status),
         \A p \in shown' : MayTouch(PolicyInForce(tool, DefaultFileToolPolicy(FALSE)), p, FALSE)
  PROVE  ToolInv'
<1>1. SameCall /\ before' = before /\ tool' = tool /\ step' = "idle" /\ answer' = status
  BY DEF Untouched, SameCall, Ends
<1>2. FilesKnown'
  BY <1>1, KnownFilesStay
<1>3. CallKnown'
  BY <1>1 DEF CallKnown, Steps
<1>4. ToolsKeepToThePolicy'
  BY <1>1, PolicyKept DEF ToolInv, ToolsKeepToThePolicy
<1>5. tool.kind \notin {"render", "image"}
  BY DEF Readers
<1>6. OutputsAreTheirOwn'
  BY <1>1, <1>5 DEF OutputsAreTheirOwn
<1>7. QED BY <1>2, <1>3, <1>4, <1>6 DEF ToolInv

-----------------------------------------------------------------------------
(* Each action.                                                            *)

LEMMA ProposeKeeps ==
  ASSUME ToolInv, NEW c \in ToolCalls, Propose(c)
  PROVE  ToolInv'
<1>1. /\ tool' = c /\ before' = disk /\ disk' = disk /\ turn_policy' = turn_policy
      /\ shown' = {} /\ wrote' = {} /\ sent' = FALSE /\ artifact' = NoPath
  BY DEF Propose
<1>2. \/ step' = "idle" /\ answer' = "denied"
      \/ step' \in {"waiting", "ready"} /\ answer' = "none"
  BY DEF Propose, Ends
<1>3. FilesKnown'
  BY <1>1 DEF ToolInv, FilesKnown
<1>4. CallKnown'
  BY <1>1, <1>2 DEF CallKnown, Steps
<1>5. ToolsKeepToThePolicy'
  BY <1>1 DEF ToolsKeepToThePolicy
<1>6. OutputsAreTheirOwn'
  BY <1>1 DEF OutputsAreTheirOwn
<1>7. QED BY <1>3, <1>4, <1>5, <1>6 DEF ToolInv

LEMMA ReadyIsFresh ==
  ASSUME ToolInv, step \in {"waiting", "ready"}
  PROVE  tool \in ToolCalls /\ wrote = {} /\ shown = {} /\ ~sent /\ answer = "none"
BY DEF ToolInv, CallKnown

LEMMA DecideKeeps ==
  ASSUME ToolInv, Decide
  PROVE  ToolInv'
<1>1. Untouched /\ NothingDone /\ step = "waiting"
  BY DEF Decide, Untouched, NothingDone
<1>2. (step' = "ready" /\ answer' = answer) \/ Ends("denied")
  BY DEF Decide
<1>3. wrote = {} /\ shown = {} /\ ~sent
  BY <1>1, ReadyIsFresh
<1>4. CASE step' = "ready" /\ answer' = answer
  BY <1>1, <1>4, GoOnKeeps
<1>5. CASE Ends("denied")
  BY <1>1, <1>3, <1>5, EndKeeps
<1>6. QED BY <1>2, <1>4, <1>5

\* What ends a call that has not looked at its path yet.
LEMMA RejectKeeps ==
  ASSUME ToolInv, \/ UnknownTool \/ RejectFileArguments \/ RejectDiagram
                  \/ RejectPicture \/ RejectFeedback \/ RefuseTool \/ RenderShows \/ RunShell
                  \/ ListFiles
  PROVE  ToolInv'
<1>1. Untouched /\ NothingDone /\ step = "ready"
  BY DEF UnknownTool, RejectFileArguments, RejectDiagram, RejectPicture, RejectFeedback,
         RejectArguments, RefuseTool, RenderShows, RunShell, ListFiles, Runs
<1>2. \E status : Ends(status)
  BY DEF UnknownTool, RejectFileArguments, RejectDiagram, RejectPicture, RejectFeedback,
         RejectArguments, RefuseTool, RenderShows, RunShell, ListFiles
<1>3. wrote = {} /\ shown = {} /\ ~sent
  BY <1>1, ReadyIsFresh
<1>4. QED BY <1>1, <1>2, <1>3, EndKeeps

LEMMA ReadKeeps ==
  ASSUME ToolInv, CallsNameRoots, ReadFile
  PROVE  ToolInv'
<1>1. /\ step = "ready" /\ tool.kind = "read" /\ Reaches(tool)
      /\ Untouched /\ UNCHANGED <<disk, wrote, sent>>
  BY DEF ReadFile, Runs
<1>2. PICK status \in {"ok", "error"} : Ends(status) /\ shown' \in {shown, {Target(tool)}}
  BY DEF ReadFile
<1>3. tool \in ToolCalls /\ shown = {}
  BY <1>1, ReadyIsFresh
<1>4. MayTouch(PolicyInForce(tool, DefaultFileToolPolicy(FALSE)), Target(tool), FALSE)
  BY <1>1, <1>3, ReachedTarget DEF Readers
<1>5. tool.kind \in Readers /\ step # "idle"
  BY <1>1 DEF Readers
<1>6. \A p \in shown' : MayTouch(PolicyInForce(tool, DefaultFileToolPolicy(FALSE)), p, FALSE)
  BY <1>2, <1>3, <1>4
<1>7. QED BY <1>1, <1>2, <1>5, <1>6, ShowKeeps

LEMMA SearchKeeps ==
  ASSUME ToolInv, CallsNameRoots, SearchFiles
  PROVE  ToolInv'
<1>1. /\ step = "ready" /\ tool.kind = "search" /\ Reaches(tool)
      /\ Untouched /\ UNCHANGED <<disk, wrote, sent>> /\ Ends("ok")
      /\ shown' \subseteq {f \in disk : IsPrefix(Target(tool), f) /\ SearchOneFile(f)}
  BY DEF SearchFiles, Runs
<1>2. tool \in ToolCalls /\ tool.kind \in Readers /\ step # "idle"
  BY <1>1, ReadyIsFresh DEF Readers
<1>3. Target(tool) # NoPath /\ Target(tool) \in Whole /\ IsPrefix(Cwd, Target(tool))
  BY <1>1, <1>2, TargetIsInProject DEF Reaches
<1>4. ASSUME NEW f \in shown'
      PROVE  MayTouch(PolicyInForce(tool, DefaultFileToolPolicy(FALSE)), f, FALSE)
  <2>1. f \in Whole /\ IsPrefix(Target(tool), f) /\ PreflightFileAccess(tool, f, FALSE)
    BY <1>1 DEF SearchOneFile, ToolInv, FilesKnown
  <2> DEFINE top == Target(tool)
  <2>2. top \in Seq(STRING) /\ top # <<>> /\ f \in Seq(STRING) /\ Cwd \in Seq(STRING)
    BY <1>3, <2>1, CwdIsWhole DEF Whole, NoPath
  <2>3. IsPrefix(Cwd, top) /\ IsPrefix(top, f)
    BY <1>3, <2>1
  <2> HIDE DEF top
  <2>4. IsPrefix(Cwd, f)
    BY <2>2, <2>3, PrefixOfPrefix
  <2>5. f # <<>>
    <3>1. Len(top) <= Len(f) /\ Len(top) \in Nat /\ Len(top) # 0
      BY <2>2, <2>3 DEF IsPrefix
    <3>2. QED BY <3>1
  <2>6. QED BY <1>2, <2>1, <2>4, <2>5, ReachedMayBeTouched DEF ToolInv, FilesKnown
<1>5. QED BY <1>1, <1>2, <1>4, ShowKeeps

LEMMA WriteKeeps ==
  ASSUME ToolInv, CallsNameRoots, WriteFile \/ EditWrites \/ RenderWrites
  PROVE  ToolInv'
<1>1. step # "idle" /\ Reaches(tool) /\ Store(Target(tool), NoPath)
  BY DEF WriteFile, EditWrites, RenderWrites, Runs, ToolInv, CallKnown
<1>2. tool.kind \in {"write", "edit", "render"}
  BY DEF WriteFile, EditWrites, RenderWrites, Runs, ToolInv, CallKnown
<1>3. tool.kind \in {"render", "image"} => tool.overwrite \/ Target(tool) \notin before
  BY DEF WriteFile, EditWrites, RenderWrites, Runs, ToolInv, CallKnown
<1>4. tool.kind \notin Readers
  BY <1>2 DEF Readers
<1>5. QED BY <1>1, <1>3, <1>4, StoreKeeps

LEMMA LookKeeps ==
  ASSUME ToolInv, EditReads \/ RenderChecks
  PROVE  ToolInv'
<1>1. Untouched /\ NothingDone /\ step = "ready" /\ Reaches(tool)
  BY DEF EditReads, RenderChecks, Runs
<1>2. \/ Ends("error")
      \/ answer' = answer /\ step' = "editing" /\ tool.kind = "edit"
      \/ answer' = answer /\ step' = "rendering" /\ tool.kind = "render" /\ ~Occupied
  BY DEF EditReads, RenderChecks, Runs
<1>3. CASE Ends("error")
  BY <1>1, <1>3, EndKeeps
<1>4. CASE ~Ends("error")
  BY <1>1, <1>2, <1>4, GoOnKeeps
<1>5. QED BY <1>3, <1>4

LEMMA ImageAsksKeeps ==
  ASSUME ToolInv, CallsNameRoots, ImageAsks
  PROVE  ToolInv'
<1>1. /\ step = "ready" /\ tool.kind = "image" /\ Reaches(tool) /\ Untouched
      /\ UNCHANGED <<disk, shown, wrote, artifact>>
  BY DEF ImageAsks, Runs
<1>2. wrote = {} /\ shown = {} /\ ~sent /\ tool \in ToolCalls
  BY <1>1, ReadyIsFresh
<1>3. CASE sent' = sent /\ (Ends("error") \/ Ends("denied"))
  BY <1>1, <1>2, <1>3, EndKeeps DEF NothingDone
<1>4. CASE /\ step' = "asked" /\ answer' = answer /\ ~Occupied
           /\ TurnNetwork = "enabled"
  <2>1. SameCall /\ before' = before /\ tool' = tool
    BY <1>1 DEF Untouched, SameCall
  <2>2. FilesKnown'
    BY <1>1, <2>1, KnownFilesStay
  <2>3. (Reaches(tool)' <=> Reaches(tool)) /\ Target(tool)' = Target(tool)
    BY <2>1, SameReach
  <2>4. tool.overwrite \/ Target(tool) \notin before
    BY <1>4 DEF Occupied, ToolInv, FilesKnown
  <2>5. answer = "none" /\ artifact = NoPath
    BY <1>1 DEF ToolInv, CallKnown
  <2>6. CallKnown'
    BY <1>1, <1>2, <1>4, <2>1, <2>3, <2>4, <2>5 DEF CallKnown, Steps
  <2>7. ToolsKeepToThePolicy'
    BY <1>1, <1>2, <1>4, <2>1, <2>5, PolicyKept
  <2>8. OutputsAreTheirOwn'
    BY <1>1, <1>2, <2>5 DEF OutputsAreTheirOwn
  <2>9. QED BY <2>2, <2>6, <2>7, <2>8 DEF ToolInv
<1>5. QED BY <1>3, <1>4 DEF ImageAsks

LEMMA ImageAnsweredKeeps ==
  ASSUME ToolInv, CallsNameRoots, ImageAnswered
  PROVE  ToolInv'
<1>1. step = "asked"
  BY DEF ImageAnswered
<1>2. CASE \E status \in {"error", "ok"} : Ends(status) /\ NothingDone /\ Untouched
  BY <1>2, EndKeeps
<1>3. CASE Store(Target(tool), Target(tool))
  <2>1. /\ Reaches(tool) /\ tool.kind = "image"
        /\ tool.overwrite \/ Target(tool) \notin before
    BY <1>1 DEF ToolInv, CallKnown
  <2>2. tool.kind \notin Readers
    BY <2>1 DEF Readers
  <2>3. QED BY <1>1, <1>3, <2>1, <2>2, StoreKeeps
<1>4. QED BY <1>2, <1>3 DEF ImageAnswered

LEMMA FeedbackKeeps ==
  ASSUME ToolInv, CallsNameRoots, FeedbackSubmit
  PROVE  ToolInv'
<1>1. /\ step = "ready" /\ tool.kind = "feedback" /\ Reaches(tool)
      /\ Untouched /\ UNCHANGED <<shown, artifact>>
  BY DEF FeedbackSubmit, Runs
<1>2. tool.kind \notin Readers /\ tool.kind \notin {"render", "image"} /\ step # "idle"
  BY <1>1 DEF Readers
<1>3. PICK status \in {"ok", "error"} : Ends(status) /\
        (\/ UNCHANGED <<wrote, disk>>
         \/ wrote' = {Target(tool)} /\ disk' = disk \cup {Target(tool)})
  BY DEF FeedbackSubmit
<1>4. ~sent
  BY <1>1, ReadyIsFresh
<1>5. sent' => TurnNetwork = "enabled"
  BY <1>4 DEF FeedbackSubmit
<1>6. QED BY <1>1, <1>2, <1>3, <1>5, WroteKeeps

\* Others may make a file that is in the way of a call, which is then not one that
\* was there when the call came.
LEMMA OthersKeep ==
  ASSUME ToolInv, NEW f \in Files, SaveFile(f) \/ RemoveFile(f)
  PROVE  ToolInv'
<1>1. /\ turn_policy' = turn_policy /\ services' = services
      /\ UNCHANGED <<step, tool, answer, shown, wrote, sent, artifact>>
  BY DEF SaveFile, RemoveFile, toolVars
<1>2. SameCall /\ before' \subseteq before
  BY <1>1 DEF SaveFile, RemoveFile, SameCall
<1>3. f \in Whole
  BY FileToolsAssumption, WholePaths
<1>4. disk' \subseteq Whole /\ before' \subseteq disk'
  BY <1>3 DEF SaveFile, RemoveFile, ToolInv, FilesKnown
<1>5. FilesKnown'
  BY <1>1, <1>4 DEF ToolInv, FilesKnown
<1>6. (Reaches(tool)' <=> Reaches(tool)) /\ Target(tool)' = Target(tool)
  BY <1>2, SameReach
<1>7. CallKnown'
  BY <1>1, <1>2, <1>6 DEF ToolInv, CallKnown
<1>8. ToolsKeepToThePolicy'
  BY <1>1, <1>2, PolicyKept DEF ToolInv, ToolsKeepToThePolicy
<1>9. OutputsAreTheirOwn'
  BY <1>1, <1>2 DEF ToolInv, OutputsAreTheirOwn
<1>10. QED BY <1>5, <1>7, <1>8, <1>9 DEF ToolInv

LEMMA ToolsStart == FilesInit => ToolInv
<1> SUFFICES ASSUME FilesInit PROVE ToolInv
  OBVIOUS
<1>1. disk \in SUBSET Files /\ turn_policy \in TurnPolicies
  BY FileToolsAssumption DEF FilesInit
<1>2. disk \subseteq Whole
  BY <1>1, FileToolsAssumption, WholePaths
<1>3. step = "idle" /\ wrote = {} /\ shown = {} /\ ~sent /\ artifact = NoPath /\ before = {}
      /\ answer = "none"
  BY Zenon DEF FilesInit
<1>4. FilesKnown /\ CallKnown
  BY <1>1, <1>2, <1>3 DEF FilesKnown, CallKnown, Steps
<1>5. ToolsKeepToThePolicy /\ OutputsAreTheirOwn
  BY <1>3 DEF ToolsKeepToThePolicy, OutputsAreTheirOwn
<1>6. QED BY <1>4, <1>5 DEF ToolInv

LEMMA ToolsStepKeeps ==
  ASSUME CallsNameRoots
  PROVE  ToolInv /\ [FilesNext]_fileVars => ToolInv'
<1> SUFFICES ASSUME ToolInv, [FilesNext]_fileVars PROVE ToolInv'
  OBVIOUS
<1>1. CASE UNCHANGED fileVars
  <2>1. UNCHANGED <<turn_policy, services, disk, step, tool, answer, shown, wrote, sent,
                    artifact, before>>
    BY <1>1 DEF fileVars, toolVars
  <2>2. SameCall
    BY <2>1 DEF SameCall
  <2>3. (Reaches(tool)' <=> Reaches(tool)) /\ Target(tool)' = Target(tool)
    BY <2>2, SameReach
  <2>4. FilesKnown' /\ CallKnown'
    BY <2>1, <2>3 DEF ToolInv, FilesKnown, CallKnown
  <2>5. ToolsKeepToThePolicy'
    BY <2>1, <2>2, PolicyKept DEF ToolInv, ToolsKeepToThePolicy
  <2>6. OutputsAreTheirOwn'
    BY <2>1 DEF ToolInv, OutputsAreTheirOwn
  <2>7. QED BY <2>4, <2>5, <2>6 DEF ToolInv
<1>2. CASE \E c \in ToolCalls : Propose(c)
  BY <1>2, ProposeKeeps
<1>3. CASE \E f \in Files : SaveFile(f) \/ RemoveFile(f)
  BY <1>3, OthersKeep
<1>4. QED
  BY <1>1, <1>2, <1>3, DecideKeeps, RejectKeeps, ReadKeeps, SearchKeeps, WriteKeeps, LookKeeps,
     ImageAsksKeeps, ImageAnsweredKeeps, FeedbackKeeps DEF FilesNext

LEMMA ToolsInvariant ==
  ASSUME CallsNameRoots
  PROVE  FilesSpec => []ToolInv
BY ToolsStart, ToolsStepKeeps, PTL DEF FilesSpec

\* Whatever tool it was, and whatever others did to the files meanwhile, a tool
\* does no more than the policy in force says, if a policy of a call's own names
\* the directories it grants.
THEOREM ToolsCorrect ==
  ASSUME CallsNameRoots
  PROVE  FilesSpec => []ToolsKeepToThePolicy
<1>1. ToolInv => ToolsKeepToThePolicy
  BY DEF ToolInv
<1>2. QED BY <1>1, ToolsInvariant, PTL

\* No diagram or picture replaces a file that was there when it was asked for,
\* unless the call says so, and what is announced was written.
THEOREM OutputsCorrect ==
  ASSUME CallsNameRoots
  PROVE  FilesSpec => []OutputsAreTheirOwn
<1>1. ToolInv => OutputsAreTheirOwn
  BY DEF ToolInv
<1>2. QED BY <1>1, ToolsInvariant, PTL

-----------------------------------------------------------------------------
(* SandboxRun: plans.                                                      *)

Adapters == {"none", "seatbelt", "bubblewrap", "windowsToken"}

\* A command runs in a whole directory; the roots it may write in are no patterns,
\* and what it is denied is not the root of the machine.
PlainRequest(policy, request) ==
  LET cwd == request.cwd
  IN  /\ IsWhole(cwd)
      /\ \A root \in WritableForRequest(policy.profile, cwd) : IsPath(root) /\ ~HasGlob(root)
      /\ \A path \in DeniedPaths(policy.profile, cwd) : IsPath(path) /\ Absolute(path, cwd) # <<>>

PlainInputs ==
  \A input \in Inputs : \A policy \in input.policies, request \in input.requests :
    PlainRequest(policy, request)

\* What a plan says, a field at a time.
LEMMA PlanFields ==
  ASSUME NEW P, NEW R, NEW preference, NEW a, NEW plan,
         plan = Plan(P, R, preference, a)
  PROVE  /\ plan.cwd = R.cwd
         /\ plan.type = IF Enforcement(preference, a) = "osSandbox" THEN a ELSE "none"
         /\ plan.enforcement = Enforcement(preference, a)
         /\ plan.filesystem = P.filesystem
         /\ plan.network = P.network
         /\ plan.writable = IF P.filesystem = "readOnly" THEN {}
                            ELSE WritableForRequest(P.profile, R.cwd)
         /\ plan.rules = ResolvedRules(ConcreteRules(P), P.profile, R.cwd)
BY DEF Plan

\* A rule of a path, and a path a rule stands for, are among the plan's rules.
LEMMA ResolvedPath ==
  ASSUME NEW rules, NEW rule \in rules, NEW profile, NEW cwd,
         NEW path \in RulePaths(rule, profile, cwd)
  PROVE  Rule("path", path, rule.access) \in ResolvedRules(rules, profile, cwd)
BY DEF ResolvedRules

LEMMA PathRule ==
  ASSUME NEW path, NEW access, NEW profile, NEW cwd
  PROVE  /\ path \in RulePaths(Rule("path", path, access), profile, cwd)
         /\ Rule("path", path, access).access = access
BY DEF RulePaths, Rule

\* What the adapter is told to cover.
LEMMA Covered ==
  ASSUME NEW plan, NEW path, NEW access \in Denies, plan.cwd \in Whole, IsPath(path),
         Rule("path", path, access) \in plan.rules,
         ~HasGlob(path), Absolute(path, plan.cwd) # <<>>,
         NEW p, ~WithinAny(p, DenyMountPaths(plan), plan.cwd)
  PROVE  ~IsPrefix(Absolute(path, plan.cwd), Absolute(p, plan.cwd))
<1> DEFINE at == Absolute(path, plan.cwd)
<1>1. path # <<>>
  BY DEF Absolute, Relative
<1>2. PICK rule \in plan.rules : rule = Rule("path", path, access)
  OBVIOUS
<1>3. rule.access \in Denies /\ rule.root = "path" /\ rule.path = path
  BY <1>2 DEF Rule
<1>4. at \in DenyMountPaths(plan)
  BY <1>1, <1>3 DEF DenyMountPaths
<1>5. at \in Whole
  BY AbsoluteIsWhole
<1>6. Absolute(at, plan.cwd) = at
  BY <1>5, WholeIsItself
<1>7. ~IsPrefix(Absolute(at, plan.cwd), Absolute(p, plan.cwd))
  BY <1>4 DEF WithinAny
<1>8. QED BY <1>6, <1>7

\* A path with one more name.
LEMMA Joined ==
  ASSUME NEW S, NEW s \in Seq(S), NEW t \in Seq(S), Len(t) = 1
  PROVE  /\ s \o t \in Seq(S) /\ Len(s \o t) = Len(s) + 1
         /\ (s \o t)[Len(s) + 1] = t[1]
         /\ \A i \in 1..Len(s) : (s \o t)[i] = s[i]
<1>1. Len(s) \in Nat /\ Len(t) \in Nat
  OBVIOUS
<1>2. /\ s \o t \in Seq(S) /\ Len(s \o t) = Len(s) + Len(t)
      /\ \A i \in 1..Len(s) + Len(t) :
           (s \o t)[i] = IF i <= Len(s) THEN s[i] ELSE t[i - Len(s)]
  BY ConcatProperties
<1>3. Len(s) + 1 \in 1..Len(s) + Len(t) /\ ~(Len(s) + 1 <= Len(s)) /\ Len(s) + 1 - Len(s) = 1
  BY <1>1
<1>4. \A i \in 1..Len(s) : i \in 1..Len(s) + Len(t) /\ i <= Len(s)
  BY <1>1
<1>5. QED BY <1>2, <1>3, <1>4

LEMMA OneMore ==
  ASSUME NEW S, NEW s \in Seq(S), NEW x \in S
  PROVE  /\ s \o <<x>> \in Seq(S) /\ Len(s \o <<x>>) = Len(s) + 1
         /\ (s \o <<x>>)[Len(s) + 1] = x
         /\ \A i \in 1..Len(s) : (s \o <<x>>)[i] = s[i]
<1>1. <<x>> \in Seq(S) /\ Len(<<x>>) = 1 /\ <<x>>[1] = x
  OBVIOUS
<1>2. QED BY <1>1, Joined

LEMMA MetadataNames ==
  ASSUME NEW name \in Metadata
  PROVE  name \in STRING /\ name # "." /\ name \notin GlobNames
<1>1. PICK dotted : dotted = <<".", name>> /\ dotted \in Seq(STRING)
  BY PathsAssumption DEF IsPath
<1>2. name \in STRING
  <2>1. Len(dotted) = 2 /\ dotted[2] = name
    BY <1>1
  <2>2. QED BY <1>1, <2>1
<1>3. name # "."
  BY DEF Metadata
<1>4. name \notin GlobNames
  BY PathsAssumption
<1>5. QED BY <1>2, <1>3, <1>4

LEMMA NamedPath ==
  ASSUME NEW root, IsPath(root), NEW name \in STRING \ {"."}
  PROVE  /\ IsPath(root \o <<name>>)
         /\ root \o <<name>> \in Seq(STRING) /\ root \o <<name>> # <<>>
<1>1. root \in Seq(STRING) /\ \A i \in 2..Len(root) : root[i] # "."
  BY DEF IsPath
<1>2. /\ root \o <<name>> \in Seq(STRING) /\ Len(root \o <<name>>) = Len(root) + 1
      /\ (root \o <<name>>)[Len(root) + 1] = name
      /\ \A i \in 1..Len(root) : (root \o <<name>>)[i] = root[i]
  BY <1>1
<1> DEFINE path == root \o <<name>>
<1> HIDE DEF path
<1>3. path \in Seq(STRING) /\ Len(path) = Len(root) + 1 /\ path[Len(root) + 1] = name
      /\ \A i \in 1..Len(root) : path[i] = root[i]
  BY <1>2 DEF path
<1>4. Len(root) \in Nat
  BY <1>1
<1>5. ASSUME NEW i \in 2..Len(path) PROVE path[i] # "."
  BY <1>1, <1>3, <1>4
<1>6. IsPath(path) /\ path # <<>>
  BY <1>3, <1>4, <1>5 DEF IsPath
<1>7. QED BY <1>2, <1>6 DEF path

LEMMA NamedIsNoGlob ==
  ASSUME NEW S, NEW root \in Seq(S), ~HasGlob(root), NEW name \in S, name \notin GlobNames
  PROVE  ~HasGlob(root \o <<name>>)
<1> DEFINE path == root \o <<name>>
<1>0. path \in Seq(S) /\ Len(path) = Len(root) + 1 /\ path[Len(root) + 1] = name
      /\ \A i \in 1..Len(root) : path[i] = root[i]
  BY OneMore
<1> HIDE DEF path
<1>1. ToSet(path) = ToSet(root) \cup {name}
  <2>1. DOMAIN path = 1..Len(path) /\ DOMAIN root = 1..Len(root) /\ Len(root) \in Nat
    BY <1>0
  <2>2. 1..Len(path) = (1..Len(root)) \cup {Len(root) + 1}
    BY <1>0, <2>1
  <2>3. ASSUME NEW x \in ToSet(path) PROVE x \in ToSet(root) \cup {name}
    <3>1. PICK i \in 1..Len(path) : x = path[i]
      BY <2>1, <2>3 DEF ToSet
    <3>2. QED BY <1>0, <2>1, <2>2, <3>1 DEF ToSet
  <2>4. ASSUME NEW x \in ToSet(root) \cup {name} PROVE x \in ToSet(path)
    <3>1. CASE x = name
      BY <1>0, <2>1, <2>2, <3>1 DEF ToSet
    <3>2. CASE x \in ToSet(root)
      <4>1. PICK i \in 1..Len(root) : x = root[i]
        BY <2>1, <3>2 DEF ToSet
      <4>2. i \in DOMAIN path /\ path[i] = x
        BY <1>0, <2>1, <2>2, <4>1
      <4>3. QED BY <4>2 DEF ToSet
    <3>3. QED BY <2>4, <3>1, <3>2
  <2>5. QED BY <2>3, <2>4
<1>2. QED BY <1>1 DEF HasGlob, path

LEMMA NamedAbsolute ==
  ASSUME NEW cwd \in Whole, NEW root, IsPath(root), NEW name \in STRING \ {"."}
  PROVE  Absolute(root \o <<name>>, cwd) # <<>>
<1>1. root \in Seq(STRING) /\ cwd \in Seq(STRING)
  BY DEF IsPath, Whole
<1> DEFINE path == root \o <<name>>
<1>2. path \in Seq(STRING) /\ path # <<>> /\ Len(path) = Len(root) + 1 /\ path[Len(root) + 1] = name
  BY <1>1, NamedPath
<1> HIDE DEF path
<1>3. CASE ~Relative(path)
  BY <1>2, <1>3 DEF Absolute, path
<1>4. CASE Relative(path)
  <2>1. path[1] = "."
    BY <1>4 DEF Relative
  <2>2. Len(root) # 0
    BY <1>2, <2>1
  <2>3. Len(Tail(path)) = Len(root) /\ Tail(path) \in Seq(STRING) /\ Len(root) \in Nat
    BY <1>1, <1>2
  <2> DEFINE tail == Tail(path)
  <2> HIDE DEF tail
  <2>4. tail \in Seq(STRING) /\ Len(tail) \in Nat /\ Len(tail) # 0
    BY <2>2, <2>3 DEF tail
  <2>5. cwd \o tail # <<>>
    <3>1. Len(cwd \o tail) = Len(cwd) + Len(tail) /\ Len(cwd) \in Nat
      BY <1>1, <2>4
    <3>2. Len(cwd \o tail) # 0
      BY <2>4, <3>1
    <3>3. QED BY <3>2
  <2>6. QED BY <1>4, <2>5 DEF Absolute, path, tail
<1>5. QED BY <1>3, <1>4

\* A rule for the current directory stands for it without a request, too.
LEMMA CwdRoot ==
  ASSUME NEW cwd \in Whole, NEW name \in STRING
  PROVE  Absolute(<<".", name>>, cwd) = cwd \o <<name>>
<1>1. PICK path : path = <<".", name>>
  OBVIOUS
<1>2. path \in Seq({".", name}) /\ Len(path) = 2 /\ path[1] = "." /\ path[2] = name
  BY <1>1
<1>3. path # <<>>
  BY <1>2
<1>4. Tail(path) = <<name>>
  <2>1. Tail(path) \in Seq({".", name}) /\ Len(Tail(path)) = 1 /\ Tail(path)[1] = name
    BY <1>2, <1>3
  <2> DEFINE tail == Tail(path)
  <2> HIDE DEF tail
  <2>2. tail \in Seq({".", name}) /\ Len(tail) = 1 /\ tail[1] = name
    BY <2>1 DEF tail
  <2>3. tail = <<name>>
    BY <2>2
  <2>4. QED BY <2>3 DEF tail
<1>5. Relative(path)
  BY <1>2, <1>3 DEF Relative
<1>6. QED BY <1>1, <1>4, <1>5 DEF Absolute

LEMMA RootWithoutRequest ==
  ASSUME NEW profile, NEW cwd, NEW root \in WritableForRequest(profile, cwd)
  PROVE  \/ root \in EffectiveWritable(profile)
         \/ root = cwd /\ <<".">> \in EffectiveWritable(profile)
<1>1. CASE root \in profile.writable
  BY <1>1 DEF EffectiveWritable, WritableForRequest
<1>2. CASE root \in RootsOf(profile, cwd, GrantsWrite)
  <2>1. PICK rule \in profile.rules : rule.access \in GrantsWrite
                                      /\ root \in RulePaths(rule, profile, cwd)
    BY <1>2 DEF RootsOf
  <2>2. CASE rule.root = "cwd"
    <3>1. RulePaths(rule, profile, cwd) = {cwd} /\ RulePaths(rule, profile, <<".">>) = {<<".">>}
      BY <2>2 DEF RulePaths
    <3>2. <<".">> \in RootsOf(profile, <<".">>, GrantsWrite)
      BY <2>1, <3>1 DEF RootsOf
    <3>3. QED BY <2>1, <3>1, <3>2 DEF EffectiveWritable, WritableForRequest
  <2>3. CASE rule.root # "cwd"
    <3>1. RulePaths(rule, profile, cwd) = RulePaths(rule, profile, <<".">>)
      BY <2>3 DEF RulePaths
    <3>2. root \in RootsOf(profile, <<".">>, GrantsWrite)
      BY <2>1, <3>1 DEF RootsOf
    <3>3. QED BY <3>2 DEF EffectiveWritable, WritableForRequest
  <2>4. QED BY <2>2, <2>3
<1>3. QED BY <1>1, <1>2 DEF WritableForRequest

-----------------------------------------------------------------------------
(* What the adapter keeps of a plan.                                       *)

\* A root that may be written in has its metadata covered.
LEMMA MetadataCovered ==
  ASSUME NEW P, NEW R, NEW preference, NEW a, NEW plan, plan = Plan(P, R, preference, a),
         PlainRequest(P, R), P.filesystem # "readOnly",
         NEW root \in WritableForRequest(P.profile, R.cwd), NEW name \in Metadata,
         NEW p, ~WithinAny(p, DenyMountPaths(plan), plan.cwd)
  PROVE  ~WithinAny(p, {root \o <<name>>}, plan.cwd)
<1> DEFINE cwd == R.cwd
<1>1. plan.cwd = cwd /\ plan.rules = ResolvedRules(ConcreteRules(P), P.profile, cwd)
  BY PlanFields
<1>2. cwd \in Whole
  BY WholePaths DEF PlainRequest
<1>3. IsPath(root) /\ ~HasGlob(root) /\ root \in Seq(STRING)
  BY DEF PlainRequest, IsPath
<1>4. name \in STRING /\ name # "." /\ name \notin GlobNames
  BY MetadataNames
<1>5. ASSUME NEW at \in EffectiveWritable(P.profile)
      PROVE  Rule("path", at \o <<name>>, "none") \in plan.rules
  <2>1. Rule("path", at \o <<name>>, "none") \in ProtectedMetadata(EffectiveWritable(P.profile))
    BY DEF ProtectedMetadata
  <2>2. Rule("path", at \o <<name>>, "none") \in ConcreteRules(P)
    BY <2>1 DEF ConcreteRules
  <2>3. QED BY <1>1, <2>2, PathRule, ResolvedPath
<1>6. "none" \in Denies
  BY DEF Denies
<1>7. CASE root \in EffectiveWritable(P.profile)
  <2>1. IsPath(root \o <<name>>) /\ ~HasGlob(root \o <<name>>)
        /\ Absolute(root \o <<name>>, cwd) # <<>>
    BY <1>2, <1>3, <1>4, NamedPath, NamedIsNoGlob, NamedAbsolute
  <2>2. ~IsPrefix(Absolute(root \o <<name>>, plan.cwd), Absolute(p, plan.cwd))
    BY <1>1, <1>2, <1>5, <1>6, <1>7, <2>1, Covered
  <2>3. QED BY <2>2 DEF WithinAny
<1>8. CASE root = cwd /\ <<".">> \in EffectiveWritable(P.profile)
  <2>1. PICK dotted : dotted = <<".", name>>
    OBVIOUS
  <2>1a. IsPath(dotted)
    BY <2>1, PathsAssumption
  <2>1b. dotted = <<".">> \o <<name>>
    <3>1. /\ dotted \in Seq({".", name}) /\ Len(dotted) = 2
          /\ dotted[1] = "." /\ dotted[2] = name
      BY <2>1
    <3>2. PICK joined : joined = <<".">> \o <<name>>
      OBVIOUS
    <3>3. /\ joined \in Seq({".", name}) /\ Len(joined) = 2
          /\ joined[1] = "." /\ joined[2] = name
      <4>1. PICK dot, last : dot = <<".">> /\ last = <<name>>
        OBVIOUS
      <4>2. /\ dot \in Seq({".", name}) /\ Len(dot) = 1 /\ dot[1] = "."
            /\ last \in Seq({".", name}) /\ Len(last) = 1 /\ last[1] = name
        BY <4>1
      <4>3. dot \o last \in Seq({".", name}) /\ Len(dot \o last) = 2
            /\ (dot \o last)[1] = "." /\ (dot \o last)[2] = name
        <5>1. 1 \in 1..Len(dot)
          BY <4>2
        <5>2. QED BY <4>2, <5>1, Joined
      <4>4. QED BY <3>2, <4>1, <4>3
    <3>4. dotted = joined
      BY <3>1, <3>3
    <3>5. QED BY <3>2, <3>4
  <2>2. Rule("path", dotted, "none") \in plan.rules
    BY <1>5, <1>8, <2>1b
  <2>3. Absolute(dotted, cwd) = cwd \o <<name>>
    BY <1>2, <1>4, <2>1, CwdRoot
  <2>4. cwd \o <<name>> \in Whole
    <3>1. IsPath(cwd) /\ IsPath(cwd \o <<name>>)
      BY <1>2, <1>4, WholePaths, NamedPath DEF IsWhole
    <3>2. ~Relative(cwd \o <<name>>)
      <4>1. cwd \in Seq(STRING) /\ \A i \in 1..Len(cwd) : cwd[i] # "."
        BY <1>2 DEF Whole
      <4>2. (cwd \o <<name>>)[1] # "."
        <5>1. CASE Len(cwd) = 0
          <6>1. cwd = <<>>
            BY <4>1, <5>1
          <6>2. QED BY <1>4, <6>1
        <5>2. CASE Len(cwd) # 0
          <6>1. 1 \in 1..Len(cwd)
            BY <4>1, <5>2
          <6>2. (cwd \o <<name>>)[1] = cwd[1]
            BY <1>4, <4>1, <6>1
          <6>3. QED BY <4>1, <6>1, <6>2
        <5>3. QED BY <5>1, <5>2
      <4>3. QED BY <4>2 DEF Relative
    <3>3. QED BY <3>1, <3>2, WholePaths DEF IsWhole
  <2>5. ~HasGlob(dotted)
    <3>1. ToSet(dotted) = {".", name}
      <4>1. DOMAIN dotted = {1, 2} /\ dotted[1] = "." /\ dotted[2] = name
        BY <2>1
      <4>2. QED BY <4>1 DEF ToSet
    <3>2. "." \notin GlobNames
      BY PathsAssumption
    <3>3. QED BY <1>4, <3>1, <3>2 DEF HasGlob
  <2>6. Absolute(cwd \o <<name>>, cwd) = cwd \o <<name>> /\ cwd \o <<name>> # <<>>
    <3>1. IsPath(cwd)
      BY <1>2, WholePaths DEF IsWhole
    <3>2. QED BY <1>2, <1>4, <2>4, <3>1, WholeIsItself, NamedPath
  <2>7. ~IsPrefix(Absolute(dotted, plan.cwd), Absolute(p, plan.cwd))
    BY <1>1, <1>2, <1>6, <2>1a, <2>2, <2>3, <2>5, <2>6, Covered
  <2>8. ~IsPrefix(Absolute(root \o <<name>>, plan.cwd), Absolute(p, plan.cwd))
    BY <1>1, <1>8, <2>3, <2>6, <2>7
  <2>9. QED BY <2>8 DEF WithinAny
<1>9. QED BY <1>7, <1>8, RootWithoutRequest
\* What the policy denies by a whole name has a rule in the plan, which covers it.
LEMMA DeniedCovered ==
  ASSUME NEW P, NEW R, NEW preference, NEW a, NEW plan, plan = Plan(P, R, preference, a),
         PlainRequest(P, R),
         NEW path \in DeniedPaths(P.profile, R.cwd), ~HasGlob(path),
         NEW p, ~WithinAny(p, DenyMountPaths(plan), plan.cwd)
  PROVE  ~IsPrefix(Absolute(path, plan.cwd), Absolute(p, plan.cwd))
<1>1. plan.cwd = R.cwd /\ plan.rules = ResolvedRules(ConcreteRules(P), P.profile, R.cwd)
  BY PlanFields
<1>2. R.cwd \in Whole
  BY WholePaths DEF PlainRequest
<1>3. PICK rule \in P.profile.rules : rule.access \in Denies
                                      /\ path \in RulePaths(rule, P.profile, R.cwd)
  BY DEF DeniedPaths, RootsOf
<1>4. rule \in ConcreteRules(P)
  BY DEF ConcreteRules
<1>5. Rule("path", path, rule.access) \in plan.rules
  BY <1>1, <1>3, <1>4, ResolvedPath
<1>6. IsPath(path) /\ Absolute(path, R.cwd) # <<>>
  BY DEF PlainRequest
<1>7. QED BY <1>1, <1>2, <1>3, <1>5, <1>6, Covered

\* The property, of one plan that is not refused.
PlanKeeps(policy, plan) ==
  /\ plan.type \in {"bubblewrap", "seatbelt"} =>
       \A p \in Paths : AdapterWrites(plan, p) =>
         /\ MayWrite(policy, p, plan.cwd)
         /\ \A root \in WritableForRequest(policy.profile, plan.cwd), name \in Metadata :
              ~WithinAny(p, {root \o <<name>>}, plan.cwd)
  /\ plan.type = "none" => policy.filesystem = "unrestricted"
  /\ AdapterNetwork(plan) => policy.network # "disabled"

LEMMA PlanIsKept ==
  ASSUME NEW P, NEW R, NEW preference, NEW a \in Adapters, NEW plan,
         plan = Plan(P, R, preference, a), PlainRequest(P, R),
         NEW managed, ~RefusesPlan(P, plan, managed)
  PROVE  PlanKeeps(P, plan)
<1>1. /\ plan.cwd = R.cwd
      /\ plan.type = IF Enforcement(preference, a) = "osSandbox" THEN a ELSE "none"
      /\ plan.enforcement = Enforcement(preference, a)
      /\ plan.network = P.network
      /\ plan.writable = IF P.filesystem = "readOnly" THEN {}
                         ELSE WritableForRequest(P.profile, R.cwd)
  BY PlanFields
<1>2. plan.enforcement = "osSandbox" => plan.type = a /\ a # "none"
  BY <1>1 DEF Enforcement
<1>3. (P.filesystem = "unrestricted" /\ P.network = "enabled") \/ plan.enforcement = "osSandbox"
  BY DEF RefusesPlan, RequiresOsEnforcement
<1>4. plan.type = "none" => P.filesystem = "unrestricted"
  BY <1>2, <1>3
<1>5. AdapterNetwork(plan) => P.network # "disabled"
  <2>1. plan.type \in Adapters
    BY <1>1 DEF Adapters
  <2>2. CASE plan.type = "none"
    BY <1>2, <1>3, <2>2
  <2>3. CASE plan.type # "none"
    BY <1>1, <2>1, <2>3 DEF AdapterNetwork, Adapters
  <2>4. QED BY <2>2, <2>3
<1>6. ASSUME plan.type \in {"bubblewrap", "seatbelt"}, NEW p \in Paths, AdapterWrites(plan, p)
      PROVE  /\ MayWrite(P, p, plan.cwd)
             /\ \A root \in WritableForRequest(P.profile, plan.cwd), name \in Metadata :
                  ~WithinAny(p, {root \o <<name>>}, plan.cwd)
  <2>1. WithinAny(p, plan.writable, plan.cwd) /\ ~WithinAny(p, DenyMountPaths(plan), plan.cwd)
    BY <1>6 DEF AdapterWrites, Mounted
  <2>2. P.filesystem # "readOnly" /\ WithinAny(p, WritableForRequest(P.profile, plan.cwd), plan.cwd)
    BY <1>1, <2>1 DEF WithinAny
  <2>3. ASSUME NEW root \in {d \in DeniedPaths(P.profile, plan.cwd) : ~HasGlob(d)}
        PROVE  ~IsPrefix(Absolute(root, plan.cwd), Absolute(p, plan.cwd))
    BY <1>1, <2>1, DeniedCovered
  <2>4. MayWrite(P, p, plan.cwd)
    BY <2>2, <2>3, Zenon DEF MayWrite, WithinAny
  <2>5. ASSUME NEW root \in WritableForRequest(P.profile, plan.cwd), NEW name \in Metadata
        PROVE  ~WithinAny(p, {root \o <<name>>}, plan.cwd)
    BY <1>1, <2>1, <2>2, MetadataCovered
  <2>6. QED BY <2>4, <2>5
<1>7. QED BY <1>4, <1>5, <1>6 DEF PlanKeeps

-----------------------------------------------------------------------------
(* Where a plan comes from.                                                *)

\* The planned call is one of the instance's, which was admitted.
Planned(policy, request, preference) ==
  /\ call = [policy |-> policy, request |-> request,
             plan |-> Plan(policy, request, preference, Adapter(preference))]
  /\ Admitted(policy, request, preference, request.approved)

PlanInv ==
  /\ inputs \in Inputs
  /\ available \in Adapters
  /\ phase = "planned" =>
       \E policy \in inputs.policies, request \in inputs.requests, preference \in Preferences :
         Planned(policy, request, preference)

LEMMA PlanStarts == Init => PlanInv
<1> SUFFICES ASSUME Init PROVE PlanInv
  OBVIOUS
<1>1. inputs \in Inputs /\ phase = "idle"
  BY DEF Init
<1>2. PICK platform \in Platforms, installed \in BOOLEAN :
        available = DetectTypes(platform, installed)
  BY DEF Init
<1>3. available \in Adapters
  BY <1>2 DEF DetectTypes, Adapters
<1>4. QED BY <1>1, <1>3 DEF PlanInv

LEMMA AdmittedStays ==
  ASSUME available' = available, NEW policy, NEW request, NEW preference
  PROVE  /\ Adapter(preference)' = Adapter(preference)
         /\ Admitted(policy, request, preference, request.approved)'
              <=> Admitted(policy, request, preference, request.approved)
BY DEF Adapter, Admitted

\* A call that goes on, or has left its plan behind.
LEMMA NoNewPlan ==
  ASSUME PlanInv, UNCHANGED machine, phase' # "planned" \/ UNCHANGED <<phase, call>>
  PROVE  PlanInv'
<1>1. inputs' = inputs /\ available' = available
  BY DEF machine
<1>2. CASE phase' # "planned"
  BY <1>1, <1>2 DEF PlanInv
<1>3. CASE UNCHANGED <<phase, call>>
  BY <1>1, <1>3, AdmittedStays DEF PlanInv, Planned
<1>4. QED BY <1>2, <1>3

LEMMA ExecuteKeeps ==
  ASSUME PlanInv, UNCHANGED machine,
         NEW policy \in inputs.policies, NEW request \in inputs.requests,
         NEW preference \in Preferences,
         ExecuteSandboxed(policy, request, preference) \/ Refuse
  PROVE  PlanInv'
<1>1. inputs' = inputs /\ available' = available
  BY DEF machine
<1>2. CASE Refuse
  BY <1>2, NoNewPlan DEF Refuse
<1>3. CASE ExecuteSandboxed(policy, request, preference) /\ ~Refuse
  <2>1. Admitted(policy, request, preference, request.approved)
        /\ call' = [policy |-> policy, request |-> request,
                    plan |-> Plan(policy, request, preference, Adapter(preference))]
    BY <1>3 DEF ExecuteSandboxed
  <2>2. Planned(policy, request, preference)'
    BY <1>1, <2>1, AdmittedStays DEF Planned
  <2>3. QED BY <1>1, <2>2 DEF PlanInv
<1>4. QED BY <1>2, <1>3

LEMMA PlanStepKeeps ==
  ASSUME PlanInv, [Next]_vars
  PROVE  PlanInv'
<1>1. CASE ForegroundCall
  <2>1. PICK policy \in inputs.policies, request \in inputs.requests,
             preference \in Preferences :
               ShellTool(policy, request, preference) \/ SandboxExec(policy, request, preference)
    BY <1>1 DEF ForegroundCall
  <2>2. UNCHANGED machine /\ (ExecuteSandboxed(policy, request, preference) \/ Refuse)
    BY <2>1 DEF ShellTool, SandboxExec
  <2>3. QED BY <2>2, ExecuteKeeps
<1>2. CASE PosixSpawn \/ CreateSuspended \/ ResumeThread \/ SpawnFails \/ SeeExit \/ Deadline
           \/ Return \/ Crash
  <2>1. UNCHANGED machine /\ phase' # "planned"
    BY <1>2 DEF PosixSpawn, CreateSuspended, ResumeThread, SpawnFails, Refuse, SeeExit, Deadline,
                Return, Crash
  <2>2. QED BY <2>1, NoNewPlan
<1>3. CASE WaitFails \/ WindowsWaitFails \/ ReadFails
  <2>1. UNCHANGED machine /\ phase' # "planned"
    BY <1>3 DEF WaitFails, WindowsWaitFails, ReadFails, Unwind, Refuse
  <2>2. QED BY <2>1, NoNewPlan
<1>4. CASE CommandStartsProcess \/ CommandExits \/ KidExits \/ ReachEnd \/ ReachLimit
           \/ BackgroundCall \/ ShellTaskTool \/ Emit \/ Persist
  <2>1. UNCHANGED machine /\ UNCHANGED <<phase, call>>
    BY <1>4 DEF CommandStartsProcess, CommandExits, KidExits, ReachEnd, ReachLimit, ReadBounded,
                BackgroundCall, StartBackgroundShellTask, ShellTaskTool, ListBackgroundTasks,
                ReadBackgroundTask, KillBackgroundTask, Emit, Persist
  <2>2. QED BY <2>1, NoNewPlan
<1>5. CASE \E i \in DOMAIN tasks : TaskExits(i)
  <2>1. UNCHANGED machine /\ UNCHANGED <<phase, call>>
    BY <1>5 DEF TaskExits
  <2>2. QED BY <2>1, NoNewPlan
<1>6. CASE UNCHANGED vars
  <2>1. UNCHANGED machine /\ UNCHANGED <<phase, call>>
    BY <1>6 DEF vars
  <2>2. QED BY <2>1, NoNewPlan
<1>7. QED BY <1>1, <1>2, <1>3, <1>4, <1>5, <1>6 DEF Next

\* The planned call keeps the policy, as every plan that was not refused does.
LEMMA PlannedCallKeeps ==
  ASSUME PlanInv, PlainInputs
  PROVE  AdapterKeepsThePolicy
<1> SUFFICES ASSUME phase = "planned" PROVE PlanKeeps(call.policy, call.plan)
  BY DEF AdapterKeepsThePolicy, PlanKeeps
<1>1. PICK policy \in inputs.policies, request \in inputs.requests, preference \in Preferences :
        Planned(policy, request, preference)
  BY DEF PlanInv
<1> DEFINE plan == Plan(policy, request, preference, Adapter(preference))
<1>2. call.policy = policy /\ call.plan = plan
  BY <1>1 DEF Planned
<1>3. ~RefusesPlan(policy, plan, request.managed)
  BY <1>1 DEF Planned, Admitted
<1>4. Adapter(preference) \in Adapters
  BY DEF Adapter, Adapters, PlanInv
<1>5. PlainRequest(policy, request)
  BY DEF PlainInputs, PlanInv
<1> HIDE DEF plan
<1>6. PlanKeeps(policy, plan)
  BY <1>3, <1>4, <1>5, PlanIsKept DEF plan
<1>7. QED BY <1>2, <1>6

\* What bubblewrap or sandbox-exec lets a planned command write is what the policy
\* grants, denied paths and the metadata of every root left out, nothing goes
\* unrestricted without an adapter, and a disabled network is off (concrete_policy,
\* transform, command_for_plan), for roots that are no patterns and denials of less
\* than the machine.
THEOREM AdapterCorrect ==
  ASSUME PlainInputs
  PROVE  Spec => []AdapterKeepsThePolicy
<1>1. PlanInv /\ [Next]_vars => PlanInv'
  BY PlanStepKeeps
<1>2. PlanInv => AdapterKeepsThePolicy
  BY PlannedCallKeeps
<1>3. QED BY <1>1, <1>2, PlanStarts, PTL DEF Spec
=============================================================================
