----------------------------- MODULE ShellProofs -----------------------------
(***************************************************************************)
(* Proofs about the parts of the shell that leave the server out:          *)
(* ShellSettings, for every set of roles and models; ShellThreads, for any *)
(* number of threads, turns and commands and any limits of its pages; and  *)
(* ShellKeys, for every set of values of the settings.                     *)
(*                                                                         *)
(* That a shell and its settings file agree is inductive once the file is  *)
(* known to have its fields: a save then changes one and keeps the others. *)
(* That the goal shown is the thread's needs two facts more: that every    *)
(* change of a goal is in the log of its thread, and that the shell has    *)
(* what the part of the log tells that it has listed.  That an overlay     *)
(* shows the settings of now holds because an open overlay takes every     *)
(* key but the one that ends the shell.                                    *)
(***************************************************************************)
EXTENDS ShellSettings, ShellThreads, ShellKeys, WellFoundedInduction, TLAPS

LEMMA LeastOfNumbers ==
  ASSUME NEW S \in SUBSET Nat, S # {}
  PROVE  \E i \in S : \A k \in S : i <= k
<1> DEFINE Less == {pair \in Nat \X Nat : pair[1] < pair[2]}
<1>1. IsWellFoundedOn(Less, Nat)
  BY NatLessThanWellFounded DEF OpToRel
<1>2. \A i, k \in Nat : <<k, i>> \notin Less => i <= k
  OBVIOUS
<1> HIDE DEF Less
<1>3. PICK i \in S : \A k \in S : <<k, i>> \notin Less
  BY <1>1, WFMin
<1>4. QED BY <1>2, <1>3

-----------------------------------------------------------------------------
(* ShellSettings                                                           *)

FileHasFields == DOMAIN file = {"readable", "roleModels", "plain", "effort", "scope"}

SettingsInv == FileHasFields /\ SettingsAreOnFile

\* A step that leaves the shell's settings alone, and the file.
SettingsStay ==
  UNCHANGED <<open, file, roleModels, plain, scope>>

LEMMA StayKeepsInv ==
  ASSUME SettingsInv, SettingsStay
  PROVE  SettingsInv'
BY DEF SettingsInv, SettingsStay, FileHasFields, SettingsAreOnFile

\* A shell that has ended agrees with any file.
LEMMA FailKeepsInv ==
  ASSUME SettingsInv, Fail
  PROVE  SettingsInv'
BY DEF SettingsInv, Fail, Gone, FileHasFields, SettingsAreOnFile

\* A save of one field, which then is what the shell has; the other fields are
\* neither changed on file nor by the shell.
LEMMA SaveKeepsInv ==
  ASSUME SettingsInv, open, NEW field, NEW value, Save(field, value),
         \/ field = "roleModels" /\ roleModels' = value /\ UNCHANGED <<plain, scope>>
         \/ field = "plain" /\ plain' = value /\ UNCHANGED <<roleModels, scope>>
         \/ field = "scope" /\ scope' = value /\ UNCHANGED <<roleModels, plain>>
         \/ field = "effort" /\ UNCHANGED <<roleModels, plain, scope>>
  PROVE  SettingsInv'
<1>1. /\ file.readable
      /\ DOMAIN file = {"readable", "roleModels", "plain", "effort", "scope"}
      /\ roleModels = file.roleModels
      /\ plain = file.plain
      /\ scope = file.scope
  BY DEF SettingsInv, FileHasFields, SettingsAreOnFile, Save
<1>2. file' = [file EXCEPT ![field] = value]
  BY DEF Save
<1>3. FileHasFields'
  BY <1>1, <1>2 DEF FileHasFields
<1>4. roleModels' = file'.roleModels /\ plain' = file'.plain /\ scope' = file'.scope
  <2>1. CASE field = "roleModels" /\ roleModels' = value /\ UNCHANGED <<plain, scope>>
    BY <1>1, <1>2, <2>1
  <2>2. CASE field = "plain" /\ plain' = value /\ UNCHANGED <<roleModels, scope>>
    BY <1>1, <1>2, <2>2
  <2>3. CASE field = "scope" /\ scope' = value /\ UNCHANGED <<roleModels, plain>>
    BY <1>1, <1>2, <2>3
  <2>4. CASE field = "effort" /\ UNCHANGED <<roleModels, plain, scope>>
    BY <1>1, <1>2, <2>4
  <2>5. QED BY <2>1, <2>2, <2>3, <2>4
<1>5. QED BY <1>3, <1>4 DEF SettingsInv, SettingsAreOnFile

-----------------------------------------------------------------------------
(* The commands that save.                                                 *)

LEMMA SetPlainKeepsInv ==
  ASSUME SettingsInv, open, NEW field, NEW value, SetPlain(field, value)
  PROVE  SettingsInv'
<1>1. plain' = [file.plain EXCEPT ![field] = value]
  BY DEF SettingsInv, SettingsAreOnFile, SetPlain, Save
<1>2. QED BY <1>1, SaveKeepsInv DEF SetPlain

LEMMA EffortKeepsInv ==
  ASSUME SettingsInv, open, NEW level, SetEffort(level)
  PROVE  SettingsInv'
<1>1. CASE Allows(provider, level)
  BY <1>1, SaveKeepsInv DEF SetEffort, SlideEffort
<1>2. CASE ~Allows(provider, level)
  BY <1>2, StayKeepsInv DEF SetEffort, SettingsStay
<1>3. QED BY <1>1, <1>2

LEMMA ModelCommandKeepsInv ==
  ASSUME SettingsInv, open, ModelCommand
  PROVE  SettingsInv'
<1>1. ASSUME NEW model, SelectModel(model)
      PROVE  SettingsInv'
  BY <1>1, StayKeepsInv DEF SelectModel, SettingsStay
<1>2. ASSUME NEW role, NEW model, SetRoleModel(role, model)
      PROVE  SettingsInv'
  BY <1>2, SaveKeepsInv DEF SetRoleModel
<1>3. ASSUME NEW model, EnableModel(model)
      PROVE  SettingsInv'
  <2>1. CASE model \in scope
    <3>1. scope' = scope
      BY <1>3, <2>1 DEF EnableModel
    <3>2. QED BY <1>3, <2>1, <3>1, StayKeepsInv DEF EnableModel, SettingsStay
  <2>2. CASE model \notin scope
    BY <1>3, <2>2, SaveKeepsInv DEF EnableModel
  <2>3. QED BY <2>1, <2>2
<1>4. ASSUME NEW models, NarrowScope(models)
      PROVE  SettingsInv'
  BY <1>4, SaveKeepsInv DEF NarrowScope
<1>5. ASSUME CycleModel
      PROVE  SettingsInv'
  BY <1>1, <1>5 DEF CycleModel
<1>6. QED BY <1>1, <1>2, <1>3, <1>4, <1>5 DEF ModelCommand

-----------------------------------------------------------------------------
(* Logins and providers save nothing of the settings.                      *)

LEMMA LoginCommandKeepsInv ==
  ASSUME SettingsInv, LoginCommand \/ PickerInput
  PROVE  SettingsInv'
<1>1. ASSUME NEW target, GoTo(target)
      PROVE  SettingsInv'
  BY <1>1, StayKeepsInv DEF GoTo, SettingsStay
<1>2. ASSUME NEW p, ChangeProvider(p)
      PROVE  SettingsInv'
  BY <1>2, StayKeepsInv DEF ChangeProvider, SettingsStay
<1>3. ASSUME NEW flavor, LoginOAuth(flavor)
      PROVE  SettingsInv'
  BY <1>2, <1>3, FailKeepsInv DEF LoginOAuth
<1>4. ASSUME LoginOpenai \/ UseBridge \/ Logout
      PROVE  SettingsInv'
  BY <1>2, <1>4 DEF LoginOpenai, UseBridge, Logout
<1>5. ASSUME StartBridge
      PROVE  SettingsInv'
  BY <1>5, StayKeepsInv, FailKeepsInv DEF StartBridge, SettingsStay
<1>6. ASSUME StopBridge
      PROVE  SettingsInv'
  BY <1>6, StayKeepsInv DEF StopBridge, SettingsStay
<1>7. ASSUME LoginCommand
      PROVE  SettingsInv'
  BY <1>1, <1>3, <1>4, <1>5, <1>6, <1>7 DEF LoginCommand, OpenPicker
<1>8. ASSUME PickerInput
      PROVE  SettingsInv'
  BY <1>1, <1>3, <1>4, <1>5, <1>6, <1>8, FailKeepsInv DEF PickerInput
<1>9. QED BY <1>7, <1>8

-----------------------------------------------------------------------------

\* A start takes what is on file, so far as it can be read.
LEMMA StartKeepsInv ==
  ASSUME SettingsInv, StartShell
  PROVE  SettingsInv'
BY DEF SettingsInv, StartShell, FileHasFields, SettingsAreOnFile, FileSeen

LEMMA CommandKeepsInv ==
  ASSUME SettingsInv, SettingsCommand
  PROVE  SettingsInv'
<1> open
  BY DEF SettingsCommand
<1>1. ASSUME ProviderCommand
      PROVE  SettingsInv'
  <2>1. ASSUME NEW field, NEW value, SetProviderField(field, value)
        PROVE  SettingsInv'
    BY <2>1, StayKeepsInv DEF SetProviderField, SettingsStay
  <2>2. QED BY <1>1, <2>1, FailKeepsInv DEF ProviderCommand
<1>2. ASSUME EffortCommand
      PROVE  SettingsInv'
  BY <1>2, EffortKeepsInv DEF EffortCommand, CycleEffort
<1>3. ASSUME PlainCommand
      PROVE  SettingsInv'
  BY <1>3, SetPlainKeepsInv DEF PlainCommand
<1>4. ASSUME SaveFails
      PROVE  SettingsInv'
  BY <1>4, FailKeepsInv DEF SaveFails
<1>5. QED BY <1>1, <1>2, <1>3, <1>4, LoginCommandKeepsInv, ModelCommandKeepsInv
          DEF SettingsCommand

LEMMA SettingsInitInv == SettingsInit => SettingsInv
BY DEF SettingsInit, SettingsInv, NoFile, FileHasFields, SettingsAreOnFile

LEMMA SettingsStepInv == SettingsInv /\ [SettingsNext]_settingsVars => SettingsInv'
<1> SUFFICES ASSUME SettingsInv, [SettingsNext]_settingsVars PROVE SettingsInv'
  OBVIOUS
<1>1. CASE StartShell
  BY <1>1, StartKeepsInv
<1>2. CASE Leave
  BY <1>2 DEF Leave, Gone, SettingsInv, FileHasFields, SettingsAreOnFile
<1>3. CASE SettingsCommand
  BY <1>3, CommandKeepsInv
<1>4. CASE FileBreaks
  <2>1. file' = [NoFile EXCEPT !.readable = FALSE]
    BY <1>4 DEF FileBreaks
  <2>2. FileHasFields' /\ ~file'.readable
    BY <2>1 DEF NoFile, FileHasFields
  <2>3. QED BY <2>2 DEF SettingsInv, SettingsAreOnFile
<1>5. CASE BridgeDies
  BY <1>5, StayKeepsInv DEF BridgeDies, SettingsStay
<1>6. CASE UNCHANGED settingsVars
  BY <1>6, StayKeepsInv DEF settingsVars, SettingsStay
<1>7. QED BY <1>1, <1>2, <1>3, <1>4, <1>5, <1>6 DEF SettingsNext

\* Whatever is set, cycled, failed at or edited outside, and over restarts: what
\* the shell runs with is what is saved, as long as the file can be read.
THEOREM SettingsCorrect == SettingsSpec => []SettingsAreOnFile
<1>1. SettingsInv => SettingsAreOnFile
  BY DEF SettingsInv
<1>2. QED BY <1>1, SettingsInitInv, SettingsStepInv, PTL DEF SettingsSpec

-----------------------------------------------------------------------------
(* ShellThreads                                                            *)

-----------------------------------------------------------------------------
(* The largest of a set of numbers.                                        *)

LEMMA MaxIs ==
  ASSUME NEW S \in SUBSET Int, NEW x \in S, \A y \in S : x >= y
  PROVE  Max(S) = x
<1> DEFINE Top(z) == \A y \in S : z >= y
<1>1. Max(S) = CHOOSE z \in S : Top(z)
  BY DEF Max
<1>2. x \in S /\ Top(x)
  OBVIOUS
<1>3. \A z \in S : Top(z) => z = x
  OBVIOUS
<1> HIDE DEF Top
<1>4. (CHOOSE z \in S : Top(z)) \in S /\ Top(CHOOSE z \in S : Top(z))
  BY <1>2
<1>5. QED BY <1>1, <1>3, <1>4

LEMMA MaxIsIn ==
  ASSUME NEW n \in Nat, NEW S \in SUBSET (0..n), S # {}
  PROVE  Max(S) \in S
<1> DEFINE Below == {n - y : y \in S}
<1>1. Below \subseteq Nat /\ Below # {}
  <2>1. PICK y \in S : TRUE
    OBVIOUS
  <2>2. n - y \in Below
    OBVIOUS
  <2>3. \A y1 \in S : n - y1 \in Nat
    OBVIOUS
  <2>4. QED BY <2>2, <2>3
<1>2. PICK i \in Below : \A k \in Below : i <= k
  <2> HIDE DEF Below
  <2>1. QED BY <1>1, LeastOfNumbers
<1>3. PICK x \in S : i = n - x
  OBVIOUS
<1>4. \A y \in S : n - y \in Below
  OBVIOUS
<1>5. \A y \in S : x >= y
  <2> HIDE DEF Below
  <2>1. QED BY <1>2, <1>3, <1>4
<1>6. Max(S) = x
  BY <1>5, MaxIs
<1>7. QED BY <1>6

-----------------------------------------------------------------------------
(* Threads and their logs.                                                 *)

ThreadRecord ==
  [log : Seq(Goals \cup Marks), goal : Goals, running : Nat, asking : Nat, claims : Nat]

\* No event of a log after one of its places sets the goal.
Silent(log, from) == \A i \in 1..Len(log) : i > from => log[i] \notin Goals

\* A goal is what the last event that sets one says it is.
LogTells(log, goal) ==
  \/ goal = "none" /\ Silent(log, 0)
  \/ \E i \in 1..Len(log) : log[i] = goal /\ Silent(log, i)

\* A thread is written with one more event, which says what the goal is if that
\* is what it is about.
Goes(thread, n) ==
  /\ n \in ThreadRecord
  /\ \E event \in Goals \cup Marks :
       /\ n.log = Append(thread.log, event)
       /\ n.goal = IF event \in Goals THEN event ELSE thread.goal

\* As Goes, by an event that sets the goal.
Puts(thread, n) ==
  /\ n \in ThreadRecord
  /\ \E goal \in Goals : n.log = Append(thread.log, goal) /\ n.goal = goal

LogsTell == \A t \in Id : LogTells(threads[t].log, threads[t].goal)

ShellKnows == Silent(Log, position) => shownGoal = threads[current].goal

ThreadsKnown ==
  /\ threads \in Seq(ThreadRecord)
  /\ phase \in {"keys", "poll", "start", "boundary", "create", "closed"}
  /\ current \in Id
  /\ position \in 0..Len(Log)
  /\ shownGoal \in Goals
  /\ {shownPause, shownTurn} \subseteq Id \cup {NoThread}
  /\ followUps \in Seq(Id)

ThreadsInv == ThreadsKnown /\ LogsTell /\ ShellKnows

LEMMA GoalsAreNoMarks == \A event \in Marks : event \notin Goals
BY DEF Marks, Goals

LEMMA ThreadForm ==
  ASSUME NEW thread \in ThreadRecord
  PROVE  /\ thread = [log |-> thread.log, goal |-> thread.goal, running |-> thread.running,
                      asking |-> thread.asking, claims |-> thread.claims]
         /\ thread.log \in Seq(Goals \cup Marks) /\ thread.goal \in Goals
         /\ thread.running \in Nat /\ thread.asking \in Nat /\ thread.claims \in Nat
BY DEF ThreadRecord

\* One event is appended.
LEMMA AppendTells ==
  ASSUME NEW log \in Seq(Goals \cup Marks), NEW goal \in Goals, LogTells(log, goal),
         NEW event \in Goals \cup Marks
  PROVE  /\ Append(log, event) \in Seq(Goals \cup Marks)
         /\ Len(Append(log, event)) = Len(log) + 1
         /\ LogTells(Append(log, event), IF event \in Goals THEN event ELSE goal)
         /\ \A from \in 0..Len(log) :
              Silent(Append(log, event), from) => event \notin Goals /\ Silent(log, from)
<1> DEFINE more == Append(log, event)
<1>1. /\ more \in Seq(Goals \cup Marks) /\ Len(more) = Len(log) + 1 /\ Len(log) \in Nat
      /\ more[Len(log) + 1] = event
      /\ \A i \in 1..Len(log) : more[i] = log[i]
  OBVIOUS
<1> HIDE DEF more
<1>2. CASE event \in Goals
  BY <1>1, <1>2 DEF LogTells, Silent, more
<1>3. CASE event \notin Goals
  <2>1. \A from \in Nat : Silent(log, from) => Silent(more, from)
    BY <1>1, <1>3 DEF Silent
  <2>2. LogTells(more, goal)
    BY <1>1, <2>1 DEF LogTells
  <2>3. \A from \in 0..Len(log) : Silent(more, from) => Silent(log, from)
    BY <1>1 DEF Silent
  <2>4. QED BY <1>1, <1>3, <2>2, <2>3 DEF more
<1>4. QED BY <1>2, <1>3

\* What the shell shows after a page: if nothing that sets the goal comes after
\* the page, the goal.
LEMMA PageShows ==
  ASSUME NEW log \in Seq(Goals \cup Marks), NEW goal \in Goals, LogTells(log, goal),
         NEW from \in 0..Len(log), NEW limit \in Nat, NEW before \in Goals,
         Silent(log, from) => before = goal,
         position' = Max({from} \cup PageAfter(log, from, limit)),
         ShowGoal(PageAfter(log, from, limit), log, before)
  PROVE  /\ position' \in 0..Len(log)
         /\ shownGoal' \in Goals
         /\ Silent(log, position') => shownGoal' = goal
<1> DEFINE to == IF Len(log) <= from + limit THEN Len(log) ELSE from + limit
           page == PageAfter(log, from, limit)
           telling == GoalEvents(page, log)
<1>1. Len(log) \in Nat /\ to \in from..Len(log)
  OBVIOUS
<1>2. page = (from + 1)..to
  <2>1. Min({Len(log), from + limit}) = to
    BY <1>1 DEF Min
  <2>2. QED BY <2>1 DEF PageAfter
<1>3. position' = to
  <2>1. {from} \cup page \in SUBSET Int /\ to \in {from} \cup page
    BY <1>1, <1>2
  <2>2. \A y \in {from} \cup page : to >= y
    BY <1>1, <1>2
  <2> HIDE DEF page, to
  <2>3. QED BY <2>1, <2>2, MaxIs DEF page
<1>4. telling \in SUBSET (1..Len(log)) /\ \A i \in telling : log[i] \in Goals /\ i \in (from + 1)..to
  BY <1>1, <1>2 DEF GoalEvents
<1>5. shownGoal' = IF telling = {} THEN before ELSE log[Max(telling)]
  BY DEF ShowGoal, Latest
<1>6. telling = {} => (Silent(log, to) => Silent(log, from))
  BY <1>1, <1>2 DEF Silent, GoalEvents
<1>7. \A i \in 1..Len(log) : i > from /\ i <= to /\ log[i] \in Goals => i \in telling
  BY <1>1, <1>2 DEF GoalEvents
<1> HIDE DEF telling, page, to
<1>8. CASE telling = {}
  BY <1>1, <1>3, <1>5, <1>6, <1>8
<1>9. CASE telling # {}
  <2>1. telling \in SUBSET (0..Len(log))
    BY <1>1, <1>4
  <2>2. Max(telling) \in telling
    BY <1>1, <1>9, <2>1, MaxIsIn
  <2>3. shownGoal' \in Goals
    BY <1>4, <1>5, <1>9, <2>2
  <2>4. ASSUME Silent(log, to)
        PROVE  log[Max(telling)] = goal
    <3>1. PICK k \in telling : TRUE
      BY <1>9
    <3>2. PICK i \in 1..Len(log) : log[i] = goal /\ Silent(log, i)
      BY <1>1, <1>4, <3>1 DEF LogTells, Silent
    <3>3. i >= k /\ i <= to
      BY <1>1, <1>4, <2>4, <3>1, <3>2 DEF Silent
    <3>4. i \in telling
      BY <1>1, <1>4, <1>7, <3>1, <3>2, <3>3
    <3>5. \A y \in telling : i >= y
      BY <1>1, <1>4, <3>2 DEF Silent
    <3>6. Max(telling) = i
      BY <2>1, <3>4, <3>5, MaxIs
    <3>7. QED BY <3>2, <3>6
  <2>5. QED BY <1>1, <1>3, <1>5, <1>9, <2>3, <2>4
<1>10. QED BY <1>8, <1>9

-----------------------------------------------------------------------------
(* Steps that write one thread, and steps that write none.                 *)

\* The thread that is written may be the one shown: unless the event sets its
\* goal, what is shown of the goal stays.
LEMMA WriteKeeps ==
  ASSUME ThreadsInv, NEW t \in Id, NEW n, Update(t, n), Goes(threads[t], n),
         UNCHANGED <<current, position>>,
         shownGoal' \in Goals,
         UNCHANGED shownGoal \/ (t = current /\ Puts(threads[t], n))
  PROVE  /\ threads' \in Seq(ThreadRecord) /\ Id' = Id
         /\ current' \in Id' /\ position' \in 0..Len(Log')
         /\ LogsTell' /\ ShellKnows'
<1>1. /\ threads \in Seq(ThreadRecord) /\ current \in Id /\ position \in 0..Len(Log)
      /\ threads[t] \in ThreadRecord /\ threads[current] \in ThreadRecord
      /\ n \in ThreadRecord
      /\ threads' = [threads EXCEPT ![t] = n]
  BY DEF ThreadsInv, ThreadsKnown, Id, Update, Goes
<1>2. /\ threads' \in Seq(ThreadRecord) /\ Len(threads') = Len(threads)
      /\ threads'[t] = n
      /\ \A u \in Id : u # t => threads'[u] = threads[u]
  BY <1>1 DEF Id
<1>3. Id' = Id
  BY <1>2 DEF Id
<1>4. PICK event \in Goals \cup Marks :
        /\ n.log = Append(threads[t].log, event)
        /\ n.goal = IF event \in Goals THEN event ELSE threads[t].goal
  BY DEF Goes
<1> DEFINE log == threads[t].log
<1>5. log \in Seq(Goals \cup Marks) /\ threads[t].goal \in Goals /\ LogTells(log, threads[t].goal)
  BY <1>1, ThreadForm DEF ThreadsInv, LogsTell
<1>6. /\ n.log \in Seq(Goals \cup Marks)
      /\ Len(n.log) = Len(log) + 1 /\ Len(log) \in Nat
      /\ LogTells(n.log, n.goal)
      /\ \A from \in 0..Len(log) : Silent(n.log, from) => event \notin Goals /\ Silent(log, from)
  <2> HIDE DEF log
  <2>1. Len(log) \in Nat
    BY <1>5
  <2>2. QED BY <1>4, <1>5, <2>1, AppendTells DEF log
<1>7. LogsTell'
  <2>1. \A u \in Id : LogTells(threads'[u].log, threads'[u].goal)
    BY <1>2, <1>6 DEF ThreadsInv, LogsTell
  <2>2. QED BY <1>3, <2>1 DEF LogsTell
<1>8. Log' = threads'[current].log
  BY DEF Log
<1>9. CASE t = current
  <2>1. position \in 0..Len(log) /\ Log' = n.log
    BY <1>1, <1>2, <1>8, <1>9 DEF Log
  <2>2. position' \in 0..Len(Log')
    BY <1>6, <2>1
  <2>3. ASSUME Silent(n.log, position)
        PROVE  shownGoal' = n.goal
    <3>1. event \notin Goals /\ Silent(log, position)
      BY <1>6, <2>1, <2>3
    <3>2. ~Puts(threads[t], n)
      <4>1. ASSUME NEW goal \in Goals, n.log = Append(log, goal)
            PROVE  FALSE
        <5>1. Append(log, goal) = Append(log, event)
          BY <1>4, <4>1
        <5>2. Append(log, goal)[Len(log) + 1] = goal /\ Append(log, event)[Len(log) + 1] = event
          <6> HIDE DEF log
          <6>1. log \in Seq(Goals \cup Marks) /\ goal \in Goals \cup Marks
            BY <1>5
          <6>2. QED BY <6>1
        <5>3. QED BY <3>1, <4>1, <5>1, <5>2
      <4>2. QED BY <4>1 DEF Puts
    <3>3. UNCHANGED shownGoal
      BY <3>2
    <3>4. shownGoal = threads[t].goal
      BY <1>9, <3>1 DEF ThreadsInv, ShellKnows, Log
    <3>5. QED BY <1>4, <3>1, <3>3, <3>4
  <2>4. ShellKnows'
    BY <1>2, <1>9, <2>1, <2>3 DEF ShellKnows
  <2>5. QED BY <1>1, <1>2, <1>3, <1>7, <2>2, <2>4
<1>10. CASE t # current
  <2>1. threads'[current] = threads[current] /\ UNCHANGED shownGoal
    BY <1>1, <1>2, <1>10
  <2>2. Log' = Log
    BY <1>8, <2>1 DEF Log
  <2>3. ShellKnows'
    BY <2>1, <2>2 DEF ThreadsInv, ShellKnows
  <2>4. QED BY <1>1, <1>2, <1>3, <1>7, <2>2, <2>3
<1>11. QED BY <1>9, <1>10

\* Nothing is written, and what is shown of the goal is what it was or what it is.
LEMMA NoWriteKeeps ==
  ASSUME ThreadsInv, UNCHANGED <<threads, current, position>>,
         UNCHANGED shownGoal \/ shownGoal' = threads[current].goal
  PROVE  /\ threads' \in Seq(ThreadRecord) /\ Id' = Id
         /\ current' \in Id' /\ position' \in 0..Len(Log') /\ shownGoal' \in Goals
         /\ LogsTell' /\ ShellKnows'
<1>1. threads[current] \in ThreadRecord
  BY DEF ThreadsInv, ThreadsKnown, Id
<1>2. Id' = Id /\ Log' = Log
  BY DEF Id, Log
<1>3. shownGoal' \in Goals
  BY <1>1, ThreadForm DEF ThreadsInv, ThreadsKnown
<1>4. LogsTell' /\ ShellKnows'
  BY <1>2 DEF ThreadsInv, LogsTell, ShellKnows
<1>5. QED BY <1>2, <1>3, <1>4 DEF ThreadsInv, ThreadsKnown

\* The records the actions write.
LEMMA FieldsWritten ==
  ASSUME NEW thread \in ThreadRecord, NEW x \in Nat
  PROVE  /\ LET n == [thread EXCEPT !.running = x]
            IN  n \in ThreadRecord /\ n.log = thread.log /\ n.goal = thread.goal
         /\ LET n == [thread EXCEPT !.asking = x]
            IN  n \in ThreadRecord /\ n.log = thread.log /\ n.goal = thread.goal
         /\ LET n == [thread EXCEPT !.claims = x]
            IN  n \in ThreadRecord /\ n.log = thread.log /\ n.goal = thread.goal
         /\ \A goal \in Goals :
              LET n == [thread EXCEPT !.goal = goal]
              IN  n \in ThreadRecord /\ n.log = thread.log /\ n.goal = goal
BY DEF ThreadRecord

LEMMA TwoFieldsWritten ==
  ASSUME NEW thread \in ThreadRecord, NEW x \in Nat, NEW y \in Nat
  PROVE  LET n == [thread EXCEPT !.running = x, !.asking = y]
         IN  n \in ThreadRecord /\ n.log = thread.log /\ n.goal = thread.goal
BY DEF ThreadRecord

LEMMA LoggingFields ==
  ASSUME NEW thread \in ThreadRecord, NEW event \in Goals \cup Marks
  PROVE  /\ Logging(thread, event) \in ThreadRecord
         /\ Logging(thread, event).log = Append(thread.log, event)
         /\ Logging(thread, event).goal = thread.goal
         /\ Logging(thread, event).running = thread.running
         /\ Logging(thread, event).asking = thread.asking
         /\ Logging(thread, event).claims = thread.claims
<1>1. PICK log \in Seq(Goals \cup Marks) : log = Append(thread.log, event)
  <2>1. \A q \in Seq(Goals \cup Marks) : Append(q, event) \in Seq(Goals \cup Marks)
    OBVIOUS
  <2>2. thread.log \in Seq(Goals \cup Marks)
    BY ThreadForm
  <2>3. QED BY <2>1, <2>2
<1>2. LET n == [thread EXCEPT !.log = log]
      IN  /\ n \in ThreadRecord /\ n.log = log /\ n.goal = thread.goal
          /\ n.running = thread.running /\ n.asking = thread.asking /\ n.claims = thread.claims
  BY DEF ThreadRecord
<1>3. QED BY <1>1, <1>2 DEF Logging

LEMMA MarkGoes ==
  ASSUME NEW thread \in ThreadRecord, NEW mark \in Marks, NEW n \in ThreadRecord,
         n.log = Append(thread.log, mark), n.goal = thread.goal
  PROVE  Goes(thread, n)
<1>1. mark \in Goals \cup Marks /\ mark \notin Goals
  BY GoalsAreNoMarks
<1>2. QED BY <1>1 DEF Goes

LEMMA GoalGoes ==
  ASSUME NEW thread \in ThreadRecord, NEW goal \in Goals
  PROVE  /\ Goes(thread, PutGoal(thread, goal)) /\ Puts(thread, PutGoal(thread, goal))
         /\ Goes(thread, [PutGoal(thread, goal) EXCEPT !.claims = 0])
         /\ Puts(thread, [PutGoal(thread, goal) EXCEPT !.claims = 0])
<1>1. goal \in Goals \cup Marks /\ 0 \in Nat
  OBVIOUS
<1>2. PICK more \in ThreadRecord : more = Logging(thread, goal)
  BY <1>1, LoggingFields
<1>3. more.log = Append(thread.log, goal)
  BY <1>1, <1>2, LoggingFields
<1>4. PICK n \in ThreadRecord : n = [more EXCEPT !.goal = goal]
  BY <1>1, FieldsWritten
<1>5. n.log = Append(thread.log, goal) /\ n.goal = goal
  BY <1>1, <1>3, <1>4, FieldsWritten
<1>6. PICK anew \in ThreadRecord : anew = [n EXCEPT !.claims = 0]
  BY <1>1, FieldsWritten
<1>7. anew.log = Append(thread.log, goal) /\ anew.goal = goal
  BY <1>1, <1>5, <1>6, FieldsWritten
<1>8. Goes(thread, n) /\ Puts(thread, n) /\ Goes(thread, anew) /\ Puts(thread, anew)
  BY <1>1, <1>5, <1>7 DEF Goes, Puts
<1>9. PutGoal(thread, goal) = n
  BY <1>2, <1>4 DEF PutGoal
<1>10. QED BY <1>6, <1>8, <1>9

LEMMA StartGoes ==
  ASSUME NEW thread \in ThreadRecord
  PROVE  /\ Goes(thread, StartedTurn(thread))
         /\ Goes(thread, StartedTurn([thread EXCEPT !.claims = @ + 1]))
<1>1. "started" \in Marks /\ "started" \in Goals \cup Marks
  BY DEF Marks
<1>2. ASSUME NEW asked \in ThreadRecord
      PROVE  /\ StartedTurn(asked) \in ThreadRecord
             /\ StartedTurn(asked).log = Append(asked.log, "started")
             /\ StartedTurn(asked).goal = asked.goal
  <2>1. PICK more \in ThreadRecord : more = Logging(asked, "started")
    BY <1>1, LoggingFields
  <2>2. more.log = Append(asked.log, "started") /\ more.goal = asked.goal
    BY <1>1, <2>1, LoggingFields
  <2>3. PICK running \in Nat : running = more.running + 1
    BY ThreadForm
  <2>4. StartedTurn(asked) = [more EXCEPT !.running = running]
    BY <2>1, <2>3 DEF StartedTurn
  <2>5. PICK n \in ThreadRecord : n = [more EXCEPT !.running = running]
    BY FieldsWritten
  <2>6. n.log = more.log /\ n.goal = more.goal
    BY <2>5, FieldsWritten
  <2>7. QED BY <2>2, <2>4, <2>5, <2>6
<1>3. PICK claims \in Nat : claims = thread.claims + 1
  BY ThreadForm
<1>4. PICK asked \in ThreadRecord : asked = [thread EXCEPT !.claims = claims]
  BY FieldsWritten
<1>5. asked.log = thread.log /\ asked.goal = thread.goal
  BY <1>4, FieldsWritten
<1>6. asked = [thread EXCEPT !.claims = @ + 1]
  BY <1>3, <1>4
<1>7. Goes(thread, StartedTurn(thread)) /\ Goes(thread, StartedTurn(asked))
  BY <1>1, <1>2, <1>5, MarkGoes
<1>8. QED BY <1>6, <1>7

\* The steps that end, pause or resume a turn.
LEMMA TurnGoesOn ==
  ASSUME NEW thread \in ThreadRecord, NEW mark \in Marks
  PROVE  LET more == Logging(thread, mark) IN
         /\ thread.asking # 0 =>
              /\ Goes(thread, [more EXCEPT !.asking = @ - 1])
              /\ Goes(thread, [more EXCEPT !.running = @ + 1, !.asking = @ - 1])
         /\ thread.running # 0 =>
              /\ Goes(thread, [more EXCEPT !.running = @ - 1])
              /\ Goes(thread, [more EXCEPT !.running = @ - 1, !.asking = @ + 1])
<1>1. mark \in Goals \cup Marks
  OBVIOUS
<1>2. PICK more \in ThreadRecord : more = Logging(thread, mark)
  BY <1>1, LoggingFields
<1>3. /\ more.log = Append(thread.log, mark) /\ more.goal = thread.goal
      /\ more.running = thread.running /\ more.asking = thread.asking
      /\ thread.running \in Nat /\ thread.asking \in Nat
  BY <1>1, <1>2, LoggingFields, ThreadForm
<1>4. ASSUME NEW x \in Nat, NEW y \in Nat
      PROVE  /\ Goes(thread, [more EXCEPT !.running = x, !.asking = y])
             /\ Goes(thread, [more EXCEPT !.running = x])
             /\ Goes(thread, [more EXCEPT !.asking = x])
  <2>1. PICK both \in ThreadRecord : both = [more EXCEPT !.running = x, !.asking = y]
    BY TwoFieldsWritten
  <2>2. PICK one \in ThreadRecord : one = [more EXCEPT !.running = x]
    BY FieldsWritten
  <2>3. PICK other \in ThreadRecord : other = [more EXCEPT !.asking = x]
    BY FieldsWritten
  <2>4. both.log = more.log /\ both.goal = more.goal
    BY <2>1, TwoFieldsWritten
  <2>5. /\ one.log = more.log /\ one.goal = more.goal
        /\ other.log = more.log /\ other.goal = more.goal
    BY <2>2, <2>3, FieldsWritten
  <2>6. Goes(thread, both) /\ Goes(thread, one) /\ Goes(thread, other)
    BY <1>3, <2>4, <2>5, MarkGoes
  <2>7. QED BY <2>1, <2>2, <2>3, <2>6
<1>5. thread.asking # 0 => thread.asking - 1 \in Nat /\ thread.running + 1 \in Nat
  BY <1>3
<1>6. thread.running # 0 => thread.running - 1 \in Nat /\ thread.asking + 1 \in Nat
  BY <1>3
<1>7. QED BY <1>2, <1>3, <1>4, <1>5, <1>6

-----------------------------------------------------------------------------
(* The actions.                                                            *)

\* What an action leaves of the shell's own state once its thread is settled.
Settled ==
  /\ threads' \in Seq(ThreadRecord) /\ Id' = Id
  /\ current' \in Id' /\ position' \in 0..Len(Log') /\ shownGoal' \in Goals
  /\ LogsTell' /\ ShellKnows'

LEMMA SettledKeeps ==
  ASSUME ThreadsInv, Settled,
         phase' \in {"keys", "poll", "start", "boundary", "create", "closed"},
         shownPause' \in {shownPause, current, NoThread},
         shownTurn' \in {shownTurn, current, NoThread},
         followUps' \in Seq(Id)
  PROVE  ThreadsInv'
<1>1. shownPause' \in Id' \cup {NoThread} /\ shownTurn' \in Id' \cup {NoThread}
  BY DEF ThreadsInv, ThreadsKnown, Settled
<1>2. followUps' \in Seq(Id')
  BY DEF Settled
<1>3. QED BY <1>1, <1>2 DEF ThreadsInv, ThreadsKnown, Settled

LEMMA Shapes ==
  ASSUME ThreadsInv
  PROVE  /\ threads[current] \in ThreadRecord
         /\ threads[current].running \in Nat /\ threads[current].asking \in Nat
         /\ threads[current].goal \in Goals
         /\ current \in Id /\ followUps \in Seq(Id) /\ shownGoal \in Goals
         /\ \A t \in Id : threads[t] \in ThreadRecord
BY ThreadForm DEF ThreadsInv, ThreadsKnown, Id

LEMMA GoalNames == {"none", "active", "paused", "complete"} = Goals
BY DEF Goals

\* A mark in a thread, with what is shown of the goal as it was.
LEMMA MarkSettles ==
  ASSUME ThreadsInv, NEW t \in Id, NEW n, Update(t, n), Goes(threads[t], n),
         UNCHANGED <<current, position, shownGoal>>
  PROVE  Settled
BY WriteKeeps, Shapes DEF Settled

LEMMA GoalSettles ==
  ASSUME ThreadsInv, NEW n, Update(current, n), Goes(threads[current], n),
         Puts(threads[current], n), shownGoal' \in Goals, UNCHANGED <<current, position>>
  PROVE  Settled
BY WriteKeeps, Shapes DEF Settled

LEMMA QuietSettles ==
  ASSUME ThreadsInv, UNCHANGED <<threads, current, position>>,
         UNCHANGED shownGoal \/ shownGoal' = threads[current].goal
  PROVE  Settled
BY NoWriteKeeps DEF Settled

LEMMA CloseKeeps == ASSUME ThreadsInv, CloseShell PROVE ThreadsInv'
<1>1. Settled
  BY QuietSettles DEF CloseShell
<1>2. QED BY <1>1, SettledKeeps, Shapes DEF CloseShell

LEMMA PassByKeeps == ASSUME ThreadsInv, PassBy PROVE ThreadsInv'
<1>1. Settled
  BY QuietSettles DEF PassBy
<1>2. QED BY <1>1, SettledKeeps, Shapes DEF PassBy

LEMMA NothingToStartKeeps == ASSUME ThreadsInv, NothingToStart PROVE ThreadsInv'
<1>1. Settled
  BY QuietSettles DEF NothingToStart
<1>2. QED BY <1>1, SettledKeeps, Shapes DEF NothingToStart

LEMMA TurnGoesKeeps == ASSUME ThreadsInv, NEW t \in Id, TurnGoes(t) PROVE ThreadsInv'
<1>1. threads[t] \in ThreadRecord /\ threads[t].running # 0
  BY Shapes, ThreadForm DEF TurnGoes
<1>2. /\ "active" \in Goals /\ "complete" \in Goals
      /\ "asked" \in Marks /\ "ended" \in Marks
  BY DEF Goals, Marks
<1>3. \E n : Update(t, n) /\ Goes(threads[t], n)
  <2>1. /\ Goes(threads[t], PutGoal(threads[t], "active"))
        /\ Goes(threads[t], PutGoal(threads[t], "complete"))
    BY <1>1, <1>2, GoalGoes
  <2>2. /\ Goes(threads[t], [Logging(threads[t], "ended") EXCEPT !.running = @ - 1])
        /\ Goes(threads[t], [Logging(threads[t], "asked") EXCEPT !.running = @ - 1,
                                                                 !.asking = @ + 1])
    BY <1>1, <1>2, TurnGoesOn
  <2>3. QED BY <2>1, <2>2, Zenon DEF TurnGoes
<1>4. Settled
  BY <1>3, MarkSettles DEF TurnGoes
<1>5. QED BY <1>4, SettledKeeps, Shapes DEF TurnGoes, ThreadsInv, ThreadsKnown

LEMMA PromptKeeps == ASSUME ThreadsInv, PromptThread PROVE ThreadsInv'
<1>1. CASE Occupied
  <2>1. Settled
    BY <1>1, QuietSettles DEF PromptThread
  <2>2. followUps' \in Seq(Id)
    BY <1>1, Shapes DEF PromptThread
  <2>3. QED BY <1>1, <2>1, <2>2, SettledKeeps DEF PromptThread
<1>2. CASE ~Occupied
  <2>1. Settled
    <3>1. Update(current, StartedTurn(threads[current])) /\ UNCHANGED <<current, position, shownGoal>>
      BY <1>2 DEF PromptThread, StartIn
    <3>2. QED BY <3>1, Shapes, StartGoes, MarkSettles
  <2>2. QED BY <1>2, <2>1, SettledKeeps, Shapes DEF PromptThread, StartIn
<1>3. QED BY <1>1, <1>2

LEMMA TakeBackKeeps == ASSUME ThreadsInv, TakeBackFollowUp PROVE ThreadsInv'
<1>1. Settled
  BY QuietSettles DEF TakeBackFollowUp
<1>2. followUps' \in Seq(Id)
  <2>1. followUps \in Seq(Id) /\ followUps # <<>>
    BY Shapes DEF TakeBackFollowUp
  <2>2. SubSeq(followUps, 1, Len(followUps) - 1) \in Seq(Id)
    BY <2>1
  <2>3. QED BY <2>2 DEF TakeBackFollowUp
<1>3. QED BY <1>1, <1>2, SettledKeeps DEF TakeBackFollowUp

LEMMA GoalCommandKeeps == ASSUME ThreadsInv, GoalCommand PROVE ThreadsInv'
<1>1. Settled
  <2>1. CASE UNCHANGED threads /\ shownGoal' = threads[current].goal
    BY <2>1, QuietSettles DEF GoalCommand
  <2>2. ASSUME NEW goal \in Goals, shownGoal' = goal,
               \/ Update(current, PutGoal(threads[current], goal))
               \/ Update(current, [PutGoal(threads[current], goal) EXCEPT !.claims = 0])
        PROVE  Settled
    <3>1. threads[current] \in ThreadRecord
      BY Shapes
    <3>2. UNCHANGED <<current, position>>
      BY DEF GoalCommand
    <3>3. QED BY <2>2, <3>1, <3>2, GoalGoes, GoalSettles
  <2>3. "none" \in Goals /\ "active" \in Goals
    BY DEF Goals
  <2>4. \/ UNCHANGED threads /\ shownGoal' = threads[current].goal
        \/ \E goal \in Goals :
             /\ shownGoal' = goal
             /\ \/ Update(current, PutGoal(threads[current], goal))
                \/ Update(current, [PutGoal(threads[current], goal) EXCEPT !.claims = 0])
    <3>1. \/ shownGoal' = threads[current].goal /\ UNCHANGED threads
          \/ /\ shownGoal' = "none"
             /\ threads[current].goal = "none" => UNCHANGED threads
             /\ threads[current].goal # "none" =>
                  Update(current, [PutGoal(threads[current], "none") EXCEPT !.claims = 0])
          \/ \E goal \in Goals \ {"none"} :
               shownGoal' = goal /\ Update(current, PutGoal(threads[current], goal))
          \/ /\ shownGoal' = "active"
             /\ Update(current, [PutGoal(threads[current], "active") EXCEPT !.claims = 0])
      BY Zenon DEF GoalCommand
    <3>2. CASE shownGoal' = "none" /\ threads[current].goal = "none" /\ UNCHANGED threads
      BY <3>2
    <3>3. CASE /\ shownGoal' = "none"
               /\ Update(current, [PutGoal(threads[current], "none") EXCEPT !.claims = 0])
      BY <2>3, <3>3
    <3>4. CASE \E goal \in Goals \ {"none"} :
                 shownGoal' = goal /\ Update(current, PutGoal(threads[current], goal))
      BY <3>4
    <3>5. CASE /\ shownGoal' = "active"
               /\ Update(current, [PutGoal(threads[current], "active") EXCEPT !.claims = 0])
      BY <2>3, <3>5
    <3>6. QED BY <3>1, <3>2, <3>3, <3>4, <3>5
  <2>5. QED BY <2>1, <2>2, <2>4
<1>2. QED BY <1>1, SettledKeeps, Shapes DEF GoalCommand

LEMMA CreateGoalKeeps == ASSUME ThreadsInv, CreateGoal PROVE ThreadsInv'
<1>1. Settled
  BY QuietSettles DEF CreateGoal
<1>2. QED BY <1>1, SettledKeeps, Shapes DEF CreateGoal

LEMMA SetCreatedGoalKeeps == ASSUME ThreadsInv, SetCreatedGoal PROVE ThreadsInv'
<1>1. "active" \in Goals
  BY DEF Goals
<1>2. Settled
  BY <1>1, Shapes, GoalGoes, GoalSettles DEF SetCreatedGoal
<1>3. QED BY <1>2, SettledKeeps, Shapes DEF SetCreatedGoal

\* The thread changes to one whose log tells its goal, and the page that is
\* loaded starts with the log.
LEMMA SwitchKeeps ==
  ASSUME ThreadsInv, threads' \in Seq(ThreadRecord), LogsTell', NEW t \in Id', SwitchTo(t),
         phase' = "poll"
  PROVE  ThreadsInv'
<1> DEFINE thread == threads'[t]
           page == PageAfter(thread.log, 0, LoadLimit)
<1>1. /\ current' = t /\ shownTurn' = NoThread /\ followUps' = <<>>
      /\ position' = Max({0} \cup page)
      /\ ShowGoal(page, thread.log, "none")
      /\ ShowPause(page, thread.log)
  BY DEF SwitchTo, LoadThread
<1>2. thread \in ThreadRecord /\ LogTells(thread.log, thread.goal)
  BY DEF LogsTell, Id
<1>3. thread.log \in Seq(Goals \cup Marks) /\ thread.goal \in Goals
  BY <1>2, ThreadForm
<1>4. "none" \in Goals /\ LoadLimit \in Nat
  BY ThreadsAssumption DEF Goals
<1>5. Silent(thread.log, 0) => thread.goal = "none"
  <2> HIDE DEF thread
  <2>1. \A i \in 1..Len(thread.log) : i > 0
    BY <1>3
  <2>2. QED BY <1>2, <1>3, <2>1 DEF LogTells, Silent
<1>6. /\ position' \in 0..Len(thread.log)
      /\ shownGoal' \in Goals
      /\ Silent(thread.log, position') => shownGoal' = thread.goal
  <2>1. PICK log \in Seq(Goals \cup Marks), goal \in Goals :
          log = thread.log /\ goal = thread.goal
    BY <1>3
  <2>2. 0 \in 0..Len(log)
    OBVIOUS
  <2> HIDE DEF thread, page
  <2>3. page = PageAfter(log, 0, LoadLimit)
    BY <2>1 DEF page
  <2>4. QED BY <1>1, <1>2, <1>4, <1>5, <2>1, <2>2, <2>3, PageShows
<1>7. Log' = thread.log /\ threads'[current'] = thread
  BY <1>1 DEF Log
<1>8. shownPause' \in {NoThread, current'}
  BY <1>1 DEF ShowPause
<1>9. ShellKnows'
  BY <1>6, <1>7 DEF ShellKnows
<1>10. ThreadsKnown'
  <2>1. {shownPause', shownTurn'} \subseteq Id' \cup {NoThread} /\ current' \in Id'
    BY <1>1, <1>8
  <2>2. followUps' \in Seq(Id')
    BY <1>1
  <2>3. QED BY <1>6, <1>7, <2>1, <2>2 DEF ThreadsKnown
<1>11. QED BY <1>9, <1>10 DEF ThreadsInv

LEMMA ChangeThreadKeeps == ASSUME ThreadsInv, ChangeThread PROVE ThreadsInv'
<1>1. threads \in Seq(ThreadRecord) /\ Len(threads) \in Nat
  BY DEF ThreadsInv, ThreadsKnown
<1>2. CASE threads' = Append(threads, NewThread) /\ SwitchTo(Len(threads'))
  <2>1. NewThread \in ThreadRecord
    BY DEF NewThread, ThreadRecord, Goals
  <2>2. /\ threads' \in Seq(ThreadRecord) /\ Len(threads') = Len(threads) + 1
        /\ threads'[Len(threads) + 1] = NewThread
        /\ \A t \in Id : threads'[t] = threads[t]
    BY <1>1, <1>2, <2>1 DEF Id
  <2>3. Id' = Id \cup {Len(threads')} /\ Len(threads') \in Id'
    BY <1>1, <2>2 DEF Id
  <2>4. LogTells(NewThread.log, NewThread.goal)
    BY DEF NewThread, LogTells, Silent
  <2>5. LogsTell'
    <3>1. \A t \in Id' : LogTells(threads'[t].log, threads'[t].goal)
      BY <2>2, <2>3, <2>4 DEF ThreadsInv, LogsTell
    <3>2. QED BY <3>1 DEF LogsTell
  <2>6. QED BY <1>2, <2>2, <2>3, <2>5, SwitchKeeps DEF ChangeThread
<1>3. ASSUME UNCHANGED threads, NEW t \in Id, SwitchTo(t)
      PROVE  ThreadsInv'
  <2>1. t \in Id'
    BY <1>3 DEF Id
  <2>2. threads' \in Seq(ThreadRecord) /\ LogsTell'
    BY <1>1, <1>3 DEF ThreadsInv, LogsTell, Id
  <2>3. QED BY <1>3, <2>1, <2>2, SwitchKeeps DEF ChangeThread
<1>4. QED BY <1>2, <1>3 DEF ChangeThread

LEMMA InterruptKeeps == ASSUME ThreadsInv, InterruptThread PROVE ThreadsInv'
<1> DEFINE thread == threads[current]
<1>1. thread \in ThreadRecord /\ thread.running \in Nat /\ thread.asking \in Nat
  BY Shapes
<1>2. CASE thread.running + thread.asking = 0
  BY <1>2, CloseKeeps DEF InterruptThread
<1>3. CASE thread.running + thread.asking # 0
  <2>1. "ended" \in Marks
    BY DEF Marks
  <2>2. \/ thread.running # 0 /\ thread.running > 0
        \/ thread.asking # 0 /\ ~(thread.running > 0)
    BY <1>1, <1>3
  <2>3. \E n : Update(current, n) /\ Goes(thread, n)
    <3>1. CASE thread.running > 0
      <4>1. Update(current, [Logging(thread, "ended") EXCEPT !.running = @ - 1])
        BY <1>3, <3>1, Zenon DEF InterruptThread
      <4>2. QED BY <1>1, <2>1, <2>2, <3>1, <4>1, TurnGoesOn
    <3>2. CASE ~(thread.running > 0)
      <4>1. Update(current, [Logging(thread, "ended") EXCEPT !.asking = @ - 1])
        BY <1>3, <3>2, Zenon DEF InterruptThread
      <4>2. QED BY <1>1, <2>1, <2>2, <3>2, <4>1, TurnGoesOn
    <3>3. QED BY <3>1, <3>2
  <2>4. Settled
    BY <1>3, <2>3, Shapes, MarkSettles DEF InterruptThread
  <2>5. QED BY <1>3, <2>4, SettledKeeps, Shapes DEF InterruptThread
<1>4. QED BY <1>2, <1>3

LEMMA ResumeKeepsThreads == ASSUME ThreadsInv, ResumePause PROVE ThreadsInv'
<1> DEFINE thread == threads[current]
<1>1. thread \in ThreadRecord /\ "resolved" \in Marks
  BY Shapes DEF Marks
<1>2. CASE thread.asking = 0
  BY <1>2, CloseKeeps DEF ResumePause
<1>3. CASE thread.asking # 0
  <2>1. Update(current, [Logging(thread, "resolved") EXCEPT !.running = @ + 1, !.asking = @ - 1])
    BY <1>3, Zenon DEF ResumePause
  <2>2. Settled
    BY <1>1, <1>3, <2>1, Shapes, TurnGoesOn, MarkSettles DEF ResumePause
  <2>3. QED BY <1>3, <2>2, SettledKeeps, Shapes DEF ResumePause
<1>4. QED BY <1>2, <1>3

LEMMA DenyKeeps == ASSUME ThreadsInv, DenyPause PROVE ThreadsInv'
<1> DEFINE thread == threads[current]
<1>1. thread \in ThreadRecord /\ "ended" \in Marks
  BY Shapes DEF Marks
<1>2. CASE thread.asking = 0
  BY <1>2, CloseKeeps DEF DenyPause
<1>3. CASE thread.asking # 0
  <2>1. Update(current, [Logging(thread, "ended") EXCEPT !.asking = @ - 1])
    BY <1>3, Zenon DEF DenyPause
  <2>2. Settled
    BY <1>1, <1>3, <2>1, Shapes, TurnGoesOn, MarkSettles DEF DenyPause
  <2>3. QED BY <1>3, <2>2, SettledKeeps, Shapes DEF DenyPause
<1>4. QED BY <1>2, <1>3

\* The next page of the thread's events.
LEMMA PollKeeps == ASSUME ThreadsInv, PollThread PROVE ThreadsInv'
<1> DEFINE thread == threads[current]
           page == PageAfter(Log, position, PollLimit)
<1>1. /\ position' = Max({position} \cup page) /\ ShowGoal(page, Log, shownGoal)
      /\ UNCHANGED <<threads, current, followUps>>
      /\ shownPause' \in {shownPause, current} /\ shownTurn' \in {shownTurn, current, NoThread}
      /\ phase' \in {"keys", "start", "boundary"}
  BY DEF PollThread
<1>2. thread \in ThreadRecord /\ LogTells(Log, thread.goal) /\ position \in 0..Len(Log)
  BY Shapes DEF ThreadsInv, ThreadsKnown, LogsTell, Log
<1>3. PICK log \in Seq(Goals \cup Marks), goal \in Goals : log = Log /\ goal = thread.goal
  BY <1>2, ThreadForm DEF Log
<1>4. /\ position' \in 0..Len(Log)
      /\ shownGoal' \in Goals
      /\ Silent(Log, position') => shownGoal' = thread.goal
  <2>1. Silent(log, position) => shownGoal = goal
    BY <1>3 DEF ThreadsInv, ShellKnows
  <2>2. shownGoal \in Goals /\ PollLimit \in Nat /\ position \in 0..Len(log)
    BY <1>2, <1>3, Shapes, ThreadsAssumption
  <2>3. /\ LogTells(log, goal)
        /\ position' = Max({position} \cup PageAfter(log, position, PollLimit))
        /\ ShowGoal(PageAfter(log, position, PollLimit), log, shownGoal)
    BY <1>1, <1>2, <1>3
  <2>4. QED BY <1>3, <2>1, <2>2, <2>3, PageShows
<1>5. Log' = Log /\ Id' = Id
  BY <1>1 DEF Log, Id
<1>6. ShellKnows'
  BY <1>1, <1>4, <1>5 DEF ShellKnows
<1>7. LogsTell' /\ threads' \in Seq(ThreadRecord)
  BY <1>1, <1>5 DEF ThreadsInv, ThreadsKnown, LogsTell
<1>8. Settled
  BY <1>1, <1>4, <1>5, <1>6, <1>7, Shapes DEF Settled
<1>9. QED BY <1>1, <1>8, SettledKeeps, Shapes

LEMMA FollowUpKeeps == ASSUME ThreadsInv, StartFollowUp PROVE ThreadsInv'
<1>1. Settled
  BY Shapes, StartGoes, MarkSettles DEF StartFollowUp, StartIn
<1>2. followUps' \in Seq(Id)
  BY Shapes DEF StartFollowUp
<1>3. QED BY <1>1, <1>2, SettledKeeps DEF StartFollowUp, StartIn

LEMMA ContinueKeeps == ASSUME ThreadsInv, ContinueGoal PROVE ThreadsInv'
<1> DEFINE thread == threads[current]
           claimed == [thread EXCEPT !.claims = @ + 1]
<1>1. /\ UNCHANGED <<current, position, shownPause, followUps>> /\ phase' = "keys"
      /\ \/ shownGoal' = thread.goal /\ UNCHANGED <<threads, shownTurn>>
         \/ StartIn(claimed) /\ UNCHANGED shownGoal
         \/ /\ Update(current, PutGoal(thread, "paused"))
            /\ shownGoal' = "paused"
            /\ UNCHANGED shownTurn
  <2>1. thread.claims < MaxContinuations \/ thread.claims >= MaxContinuations
    <3>1. thread.claims \in Nat /\ MaxContinuations \in Nat
      BY Shapes, ThreadForm, ThreadsAssumption
    <3>2. QED BY <3>1
  <2>2. \/ thread.goal # "active"
        \/ thread.goal = "active" /\ thread.claims < MaxContinuations
        \/ thread.goal = "active" /\ thread.claims >= MaxContinuations
    BY <2>1
  <2> HIDE DEF thread, claimed
  <2>3. CASE thread.goal # "active"
    BY <2>3 DEF ContinueGoal, thread, claimed
  <2>4. CASE thread.goal = "active" /\ thread.claims < MaxContinuations
    <3>1. ~(thread.claims >= MaxContinuations)
      BY <2>4, Shapes, ThreadForm, ThreadsAssumption DEF thread
    <3>2. QED BY <2>4, <3>1 DEF ContinueGoal, thread, claimed
  <2>5. CASE thread.goal = "active" /\ thread.claims >= MaxContinuations
    <3>1. ~(thread.claims < MaxContinuations)
      BY <2>5, Shapes, ThreadForm, ThreadsAssumption DEF thread
    <3>2. QED BY <2>5, <3>1 DEF ContinueGoal, thread, claimed
  <2>6. QED BY <2>2, <2>3, <2>4, <2>5
<1>2. thread \in ThreadRecord /\ "paused" \in Goals
  BY Shapes DEF Goals
<1>3. Settled
  <2>1. CASE shownGoal' = thread.goal /\ UNCHANGED threads
    BY <1>1, <2>1, QuietSettles
  <2>2. CASE StartIn(claimed) /\ UNCHANGED shownGoal
    BY <1>1, <1>2, <2>2, Shapes, StartGoes, MarkSettles DEF StartIn
  <2>3. CASE Update(current, PutGoal(thread, "paused")) /\ shownGoal' = "paused"
    BY <1>1, <1>2, <2>3, GoalGoes, GoalSettles
  <2>4. QED BY <1>1, <2>1, <2>2, <2>3
<1>4. QED BY <1>1, <1>3, SettledKeeps, Shapes DEF StartIn

-----------------------------------------------------------------------------
(* Every step, and what follows.                                           *)

LEMMA ThreadsStart == ThreadsInit => ThreadsInv
<1> SUFFICES ASSUME ThreadsInit PROVE ThreadsInv
  OBVIOUS
<1>1. threads = <<NewThread>> /\ current = 1 /\ position = 0
  BY DEF ThreadsInit
<1>2. NewThread \in ThreadRecord
  BY DEF NewThread, ThreadRecord, Goals
<1>3. threads \in Seq(ThreadRecord) /\ Id = {1} /\ threads[1] = NewThread
  BY <1>1, <1>2 DEF Id
<1>4. Log = <<>> /\ NewThread.goal = "none" /\ NewThread.log = <<>>
  BY <1>1, <1>3 DEF Log, NewThread
<1>5. ThreadsKnown
  BY <1>1, <1>3, <1>4 DEF ThreadsInit, ThreadsKnown, Goals
<1>6. LogsTell
  BY <1>3, <1>4 DEF LogsTell, LogTells, Silent
<1>7. ShellKnows
  BY <1>1, <1>3, <1>4 DEF ThreadsInit, ShellKnows
<1>8. QED BY <1>5, <1>6, <1>7 DEF ThreadsInv

LEMMA ThreadsStepKeeps == ThreadsInv /\ [ThreadsNext]_threadsVars => ThreadsInv'
<1> SUFFICES ASSUME ThreadsInv, [ThreadsNext]_threadsVars PROVE ThreadsInv'
  OBVIOUS
<1>1. CASE ThreadCommand
  BY <1>1, PromptKeeps, TakeBackKeeps, GoalCommandKeeps, CreateGoalKeeps, ChangeThreadKeeps,
     InterruptKeeps, ResumeKeepsThreads, DenyKeeps DEF ThreadCommand
<1>2. CASE ThreadLoop
  BY <1>2, PassByKeeps, SetCreatedGoalKeeps, PollKeeps, FollowUpKeeps, ContinueKeeps,
     NothingToStartKeeps DEF ThreadLoop
<1>3. CASE \E t \in Id : TurnGoes(t)
  BY <1>3, TurnGoesKeeps
<1>4. CASE UNCHANGED threadsVars
  BY <1>4 DEF threadsVars, ThreadsInv, ThreadsKnown, LogsTell, ShellKnows, Id, Log
<1>5. QED BY <1>1, <1>2, <1>3, <1>4 DEF ThreadsNext

LEMMA ThreadsInvariant == ThreadsSpec => []ThreadsInv
BY ThreadsStart, ThreadsStepKeeps, PTL DEF ThreadsSpec

\* What the shell and the runtime hold keeps its types: the shell is in a thread
\* there is, behind the end of its log, and what waits was typed in one.
THEOREM ThreadsTypeCorrect == ThreadsSpec => []ThreadsTypeOK
<1>1. ThreadsInv => ThreadsTypeOK
  <2> SUFFICES ASSUME ThreadsInv PROVE ThreadsTypeOK
    OBVIOUS
  <2>1. ASSUME NEW t \in Id
        PROVE  /\ threads[t].goal \in Goals
               /\ {threads[t].running, threads[t].asking, threads[t].claims} \subseteq Nat
               /\ \A i \in DOMAIN threads[t].log : threads[t].log[i] \in Goals \cup Marks
    BY Shapes, ThreadForm
  <2>2. QED BY <2>1 DEF ThreadsInv, ThreadsKnown, ThreadsTypeOK
<1>2. QED BY <1>1, ThreadsInvariant, PTL

\* A shell that has listed every event of its thread shows that thread's goal,
\* with any limits of its pages, number of threads, turns and commands.
THEOREM GoalShownCorrect == ThreadsSpec => []GoalShownIsTheGoal
<1>1. ThreadsInv => GoalShownIsTheGoal
  <2> SUFFICES ASSUME ThreadsInv, position = Len(Log) PROVE shownGoal = threads[current].goal
    BY DEF GoalShownIsTheGoal
  <2>1. Log \in Seq(Goals \cup Marks)
    BY Shapes, ThreadForm DEF Log
  <2>2. Silent(Log, Len(Log))
    BY <2>1 DEF Silent
  <2>3. QED BY <2>2 DEF ThreadsInv, ShellKnows
<1>2. QED BY <1>1, ThreadsInvariant, PTL

-----------------------------------------------------------------------------
(* ShellKeys                                                               *)

\* The layers of the screen, outermost first (handle_tui_key).
Layers == {"exit", "overlay", "question", "approval", "background", "suggestion", "app",
           "palette", "editor"}

\* A key is taken by a layer that claims it, and no layer further out claims it.
LEMMA TakerClaims ==
  ASSUME NEW key
  PROVE  /\ Taker(key) \in Layers
         /\ Claims(Taker(key), key)
         /\ overlay.kind # "none" => Taker(key) \in {"exit", "overlay"}
<1> DEFINE layers == <<"exit", "overlay", "question", "approval", "background", "suggestion",
                       "app", "palette", "editor">>
           S == {i \in DOMAIN layers : Claims(layers[i], key)}
           Least(i) == \A k \in S : i <= k
<1>1. /\ DOMAIN layers = 1..9
      /\ layers[1] = "exit" /\ layers[2] = "overlay" /\ layers[9] = "editor"
      /\ \A i \in 1..9 : layers[i] \in Layers
  <2>1. DOMAIN layers = 1..9
    <3>1. Len(layers) = 9
      OBVIOUS
    <3>2. layers \in Seq(Layers)
      BY SMTT(60) DEF Layers
    <3> HIDE DEF layers
    <3>3. QED BY <3>1, <3>2
  <2>2. layers[1] = "exit" /\ layers[2] = "overlay" /\ layers[9] = "editor"
    OBVIOUS
  <2>3. \A i \in 1..9 : layers[i] \in Layers
    <3>1. /\ layers[3] = "question" /\ layers[4] = "approval" /\ layers[5] = "background"
          /\ layers[6] = "suggestion" /\ layers[7] = "app" /\ layers[8] = "palette"
      OBVIOUS
    <3> HIDE DEF layers
    <3>2. \A i \in 1..9 : i \in {1, 2, 3, 4, 5, 6, 7, 8, 9}
      OBVIOUS
    <3>3. QED BY <2>2, <3>1, <3>2, Zenon DEF Layers
  <2>4. QED BY <2>1, <2>2, <2>3
<1>2. Min(S) = CHOOSE i \in S : Least(i)
  BY DEF Min
<1>3. Taker(key) = layers[Min(S)]
  BY DEF Taker, First
<1>4. S \subseteq 1..9 /\ 9 \in S
  <2>1. Claims("editor", key)
    BY DEF Claims
  <2>2. 9 \in DOMAIN layers /\ layers[9] = "editor"
    BY <1>1
  <2> HIDE DEF layers
  <2>3. QED BY <2>1, <2>2, <1>1
<1>5. \A i \in S : Claims(layers[i], key)
  OBVIOUS
<1>6. overlay.kind # "none" => 2 \in S
  <2>1. overlay.kind # "none" => Claims("overlay", key)
    BY DEF Claims
  <2>2. 2 \in DOMAIN layers /\ layers[2] = "overlay"
    BY <1>1
  <2> HIDE DEF layers
  <2>3. QED BY <2>1, <2>2
<1> HIDE DEF layers, S
<1>7. Min(S) \in S /\ Least(Min(S))
  <2>1. \E i \in S : Least(i)
    BY <1>4, LeastOfNumbers
  <2> HIDE DEF Least
  <2>2. QED BY <1>2, <2>1
<1>8. Taker(key) \in Layers /\ Claims(Taker(key), key)
  <2>1. layers[Min(S)] \in Layers
    BY <1>7, <1>4, <1>1
  <2>2. Claims(layers[Min(S)], key)
    BY <1>7, <1>5
  <2>3. QED BY <1>3, <2>1, <2>2
<1>9. ASSUME overlay.kind # "none"
      PROVE  Taker(key) \in {"exit", "overlay"}
  <2>1. Min(S) \in 1..9 /\ Min(S) <= 2
    BY <1>9, <1>7, <1>4, <1>6
  <2>2. Min(S) = 1 \/ Min(S) = 2
    BY <2>1
  <2>3. QED BY <2>2, <1>3, <1>1
<1>10. QED BY <1>8, <1>9

-----------------------------------------------------------------------------
(* Types, and the panel that an overlay of panels shows.                   *)

\* An overlay of panels has one on top.
PanelsAreOpen == overlay.kind = "panel" => overlay.panels # <<>>

\* What the commands and the turn leave: the shell, its turn, queue, suggestion and
\* settings.
EffectsKnown ==
  /\ live \in BOOLEAN
  /\ work \in {"idle", "running", "approval", "question"}
  /\ waiting \in 0..MaxQueued
  /\ ghost \in BOOLEAN
  /\ config \in Configs

OverlayKnown ==
  /\ overlay.kind \in {"none", "root", "panel", "sessions", "effort", "models"}
  /\ overlay.panels \in Seq(Panels)
  /\ overlay.of \in Configs
  /\ PanelsAreOpen

EditorKnown ==
  /\ draft \in Texts
  /\ armed \in BOOLEAN
  /\ palette \in {"shown", "navigated", "suppressed"}
  /\ dock \in BOOLEAN

\* What no step may do to a screen: change the settings and leave an overlay as it
\* was.
ScreenFollows ==
  \/ live' = FALSE
  \/ overlay'.of = config'
  \/ UNCHANGED <<overlay, config>>
  \/ UNCHANGED overlay /\ overlay.kind = "none"

\* One step of the screen.
ScreenMoves == EffectsKnown' /\ OverlayKnown' /\ EditorKnown' /\ ScreenFollows

KeysInv == EffectsKnown /\ OverlayKnown /\ EditorKnown /\ OverlayIsCurrent

LEMMA MovesKeepInv ==
  ASSUME KeysInv, ScreenMoves, live
  PROVE  KeysInv'
<1>1. OverlayIsCurrent'
  BY DEF KeysInv, OverlayIsCurrent, ScreenMoves, ScreenFollows, Shown
<1>2. QED BY <1>1 DEF KeysInv, ScreenMoves

\* Every command and every step of the turn, from idle or not.
AnyEffect == AnyCommand \/ Unheard \/ StartPrompt

LEMMA EffectsStayKnown ==
  ASSUME EffectsKnown, AnyEffect
  PROVE  EffectsKnown'
<1>1. CASE HoldPrompt
  BY <1>1, KeysAssumption DEF HoldPrompt, EffectsKnown
<1>2. CASE SwitchThread
  BY <1>2, KeysAssumption DEF SwitchThread, EffectsKnown, AtBoundary
<1>3. CASE RunToBoundary \/ EndTurn \/ StartPrompt
  BY <1>3 DEF RunToBoundary, EndTurn, StartPrompt, EffectsKnown, AtBoundary
<1>4. CASE Reconfigure \/ EndShell \/ DropSuggestion \/ Unheard
  BY <1>4 DEF Reconfigure, EndShell, DropSuggestion, Unheard, EffectsKnown
<1>5. QED BY <1>1, <1>2, <1>3, <1>4 DEF AnyEffect, AnyCommand

\* An overlay opened, gone back in or closed is known, and of the settings as they
\* are after the step.
OpensAnew == OverlayKnown' /\ overlay'.of = config'

LEMMA OpenIsAnew ==
  ASSUME NEW kind \in {"none", "root", "sessions", "effort", "models"}, config' \in Configs,
         overlay' = [kind |-> kind, panels |-> <<>>, of |-> config']
  PROVE  OpensAnew
<1>1. overlay'.kind = kind /\ overlay'.panels = <<>> /\ overlay'.of = config'
  BY Zenon
<1>2. QED BY <1>1 DEF OpensAnew, OverlayKnown, PanelsAreOpen

LEMMA PanelIsAnew ==
  ASSUME NEW panel \in Panels, NEW back \in Seq(Panels), OpenPanel(panel, back),
         config' \in Configs
  PROVE  OpensAnew
<1>1. /\ overlay'.kind = "panel"
      /\ overlay'.panels = Append(back, panel)
      /\ overlay'.of = config'
  BY Zenon DEF OpenPanel
<1>2. Append(back, panel) \in Seq(Panels)
  OBVIOUS
<1>3. Append(back, panel) # <<>>
  <2>1. Len(Append(back, panel)) = Len(back) + 1 /\ Len(back) \in Nat
    OBVIOUS
  <2>2. Len(<<>>) = 0
    OBVIOUS
  <2>3. QED BY <2>1, <2>2
<1>4. QED BY <1>1, <1>2, <1>3 DEF OpensAnew, OverlayKnown, PanelsAreOpen

LEMMA CloseIsAnew ==
  ASSUME CloseOverlay, config' \in Configs
  PROVE  OpensAnew
BY OpenIsAnew DEF CloseOverlay

LEMMA TopOfPanels ==
  ASSUME NEW panels \in Seq(Panels), panels # <<>>
  PROVE  Last(panels) \in Panels /\ Front(panels) \in Seq(Panels)
BY DEF Last, Front

LEMMA ReturnIsAnew ==
  ASSUME NEW back \in Seq(Panels), ReturnFrom(back), config' \in Configs
  PROVE  OpensAnew
<1>1. CASE back = <<>>
  BY <1>1, OpenIsAnew DEF ReturnFrom, Open
<1>2. CASE back # <<>>
  BY <1>2, PanelIsAnew, TopOfPanels DEF ReturnFrom
<1>3. QED BY <1>1, <1>2

\* What a step does that leaves the overlay be, or opens another one.
LEMMA NewScreenMoves ==
  ASSUME EffectsKnown', EditorKnown', OpensAnew
  PROVE  ScreenMoves
BY DEF OpensAnew, ScreenMoves, ScreenFollows

LEMMA SameScreenMoves ==
  ASSUME OverlayKnown, EffectsKnown', EditorKnown', UNCHANGED overlay,
         overlay.kind = "none" \/ config' = config \/ live' = FALSE
  PROVE  ScreenMoves
BY DEF OverlayKnown, PanelsAreOpen, ScreenMoves, ScreenFollows

-----------------------------------------------------------------------------
(* Overlays.                                                               *)

\* What an overlay's key leaves behind: the shell ended, the screen as it was, or
\* one opened anew, and a text that there is.
OverlayActs ==
  /\ draft' \in Texts
  /\ \/ EndShell /\ UNCHANGED overlay
     \/ Unheard /\ UNCHANGED overlay
     \/ EffectsKnown' /\ OpensAnew

LEMMA RootActs ==
  ASSUME EffectsKnown, EditorKnown, ActivateRoot
  PROVE  OverlayActs
<1>1. PICK item \in RootItems :
        \/ /\ Unheard
           /\ CASE item \in RootPanels -> OpenPanel(item, <<>>) /\ UNCHANGED draft
                [] item = "goal" -> CloseOverlay /\ draft' = "/bare"
                [] OTHER -> Open(item) /\ UNCHANGED draft
        \/ item \in {"models", "sessions"} /\ EndShell /\ UNCHANGED <<overlay, draft>>
  BY DEF ActivateRoot
<1>2. CASE EndShell /\ UNCHANGED <<overlay, draft>>
  BY <1>2 DEF OverlayActs, EditorKnown
<1>3. CASE /\ Unheard
           /\ CASE item \in RootPanels -> OpenPanel(item, <<>>) /\ UNCHANGED draft
                [] item = "goal" -> CloseOverlay /\ draft' = "/bare"
                [] OTHER -> Open(item) /\ UNCHANGED draft
  <2>1. EffectsKnown' /\ config' \in Configs
    BY <1>3, EffectsStayKnown DEF AnyEffect, EffectsKnown
  <2>2. CASE item \in RootPanels
    <3>1. OpenPanel(item, <<>>) /\ UNCHANGED draft
      BY <1>3, <2>2, SMT DEF RootPanels
    <3>2. item \in Panels /\ <<>> \in Seq(Panels)
      BY <2>2 DEF Panels
    <3>3. QED BY <3>1, <3>2, <2>1, PanelIsAnew DEF OverlayActs, EditorKnown
  <2>3. CASE item = "goal"
    <3>1. CloseOverlay /\ draft' = "/bare"
      BY <1>3, <2>3 DEF RootPanels
    <3>2. QED BY <3>1, <2>1, CloseIsAnew DEF OverlayActs, Texts
  <2>4. CASE item \notin RootPanels /\ item # "goal"
    <3>1. Open(item) /\ UNCHANGED draft
      BY <1>3, <2>4
    <3>2. item \in {"models", "effort", "sessions"}
      BY <2>4 DEF RootItems
    <3>3. QED BY <3>1, <3>2, <2>1, OpenIsAnew DEF Open, OverlayActs, EditorKnown
  <2>5. QED BY <2>2, <2>3, <2>4
<1>4. QED BY <1>1, <1>2, <1>3

LEMMA OpenOnlyLinks ==
  ASSUME NEW panel \in Panels, NEW link \in Links(panel)
  PROVE  link \in Panels
BY DEF Links, Panels, LoginPanels

LEMMA PanelActs ==
  ASSUME EffectsKnown, EditorKnown, OverlayKnown, overlay.kind = "panel", ActivatePanel
  PROVE  OverlayActs
<1> DEFINE panel == Last(overlay.panels)
           back == Front(overlay.panels)
<1>1. PICK does \in PanelItems(panel) :
        \/ does = "run" /\ Unheard /\ ReturnFrom(back) /\ UNCHANGED draft
        \/ does = "set" /\ Reconfigure /\ ReturnFrom(back) /\ UNCHANGED draft
        \/ does \in {"run", "set"} /\ EndShell /\ UNCHANGED <<overlay, draft>>
        \/ does = "edit" /\ Unheard /\ ReturnFrom(back) /\ draft' = "/cmd "
        \/ /\ does = "open"
           /\ Unheard
           /\ \E link \in Links(panel) : OpenPanel(link, overlay.panels)
           /\ UNCHANGED draft
  BY DEF ActivatePanel
<1>2. panel \in Panels /\ back \in Seq(Panels) /\ overlay.panels \in Seq(Panels)
  BY TopOfPanels DEF OverlayKnown, PanelsAreOpen
<1>3. draft' \in Texts
  BY <1>1 DEF EditorKnown, Texts
<1> HIDE DEF panel, back
<1>4. CASE EndShell /\ UNCHANGED <<overlay, draft>>
  BY <1>3, <1>4 DEF OverlayActs
<1>5. CASE (Unheard \/ Reconfigure) /\ ReturnFrom(back)
  <2>1. EffectsKnown' /\ config' \in Configs
    BY <1>5, EffectsStayKnown DEF AnyEffect, AnyCommand, EffectsKnown
  <2>2. QED BY <1>2, <1>3, <1>5, <2>1, ReturnIsAnew DEF OverlayActs
<1>6. CASE Unheard /\ \E link \in Links(panel) : OpenPanel(link, overlay.panels)
  <2>1. EffectsKnown' /\ config' \in Configs
    BY <1>6, EffectsStayKnown DEF AnyEffect, AnyCommand, EffectsKnown
  <2>2. PICK link \in Links(panel) : OpenPanel(link, overlay.panels)
    BY <1>6
  <2>3. link \in Panels
    BY <1>2, OpenOnlyLinks
  <2>4. QED BY <1>2, <1>3, <2>1, <2>2, <2>3, PanelIsAnew DEF OverlayActs
<1>7. QED BY <1>1, <1>4, <1>5, <1>6

LEMMA ActivateActs ==
  ASSUME EffectsKnown, EditorKnown, OverlayKnown, Activate
  PROVE  OverlayActs
<1>1. CASE overlay.kind = "root" /\ ActivateRoot
  BY <1>1, RootActs
<1>2. CASE overlay.kind = "panel" /\ ActivatePanel
  BY <1>2, PanelActs
<1>3. CASE ChooseSession \/ ChooseSetting
  <2>1. Unheard \/ AnyCommand
    BY <1>3 DEF ChooseSession, ChooseSetting, AnyCommand
  <2>2. EffectsKnown' /\ config' \in Configs
    BY <2>1, EffectsStayKnown DEF AnyEffect, EffectsKnown
  <2>3. CloseOverlay /\ draft' \in Texts
    BY <1>3 DEF ChooseSession, ChooseSetting, EditorKnown
  <2>4. QED BY <2>2, <2>3, CloseIsAnew DEF OverlayActs
<1>4. QED BY <1>1, <1>2, <1>3 DEF Activate

LEMMA OverlayKeyMoves ==
  ASSUME EffectsKnown, EditorKnown, OverlayKnown, NEW key, OverlayKey(key),
         overlay.kind # "none"
  PROVE  ScreenMoves
<1>1. armed' \in BOOLEAN /\ UNCHANGED <<palette, dock>>
  BY DEF OverlayKey, EditorKnown
<1>2. OverlayActs
  <2>1. CASE key = "enter"
    <3>1. Activate
      BY <2>1 DEF OverlayKey
    <3>2. QED BY <3>1, ActivateActs
  <2>2. CASE key = "ctrlC"
    <3>1. Unheard /\ CloseOverlay /\ draft' = draft
      BY <2>2 DEF OverlayKey
    <3>2. EffectsKnown' /\ config' \in Configs
      BY <3>1, EffectsStayKnown DEF AnyEffect, EffectsKnown
    <3>3. QED BY <3>1, <3>2, CloseIsAnew DEF OverlayActs, EditorKnown
  <2>3. CASE key # "ctrlC" /\ key # "ctrlD" /\
             (key = "escape" \/ (overlay.kind = "panel" /\ key \in {"delete", "backTab"}))
    <3>1. /\ Unheard /\ draft' = draft
          /\ IF overlay.kind = "panel" THEN ReturnFrom(Front(overlay.panels)) ELSE CloseOverlay
      BY <2>3 DEF OverlayKey
    <3>2. EffectsKnown' /\ config' \in Configs
      BY <3>1, EffectsStayKnown DEF AnyEffect, EffectsKnown
    <3>3. CASE overlay.kind = "panel"
      <4>1. Front(overlay.panels) \in Seq(Panels)
        BY <3>3, TopOfPanels DEF OverlayKnown, PanelsAreOpen
      <4>2. QED BY <3>1, <3>2, <3>3, <4>1, ReturnIsAnew DEF OverlayActs, EditorKnown
    <3>4. CASE overlay.kind # "panel"
      BY <3>1, <3>2, <3>4, CloseIsAnew DEF OverlayActs, EditorKnown
    <3>5. QED BY <3>3, <3>4
  <2>4. CASE ~(key \in {"enter", "ctrlC"}) /\
             ~(key # "ctrlD" /\ (key = "escape" \/ (overlay.kind = "panel" /\ key \in {"delete", "backTab"})))
    <3>1. (Unheard \/ EndShell) /\ UNCHANGED <<overlay, draft>>
      BY <2>4 DEF OverlayKey
    <3>2. QED BY <3>1 DEF OverlayActs, EditorKnown
  <2>5. QED BY <2>1, <2>2, <2>3, <2>4
<1>3. EditorKnown'
  BY <1>1, <1>2 DEF EditorKnown, OverlayActs
<1>4. CASE EffectsKnown' /\ OpensAnew
  BY <1>3, <1>4, NewScreenMoves
<1>5. CASE (EndShell \/ Unheard) /\ UNCHANGED overlay
  <2>1. EffectsKnown'
    BY <1>5, EffectsStayKnown DEF AnyEffect, AnyCommand
  <2>2. live' = FALSE \/ config' = config
    BY <1>5 DEF EndShell, Unheard
  <2>3. QED BY <1>3, <1>5, <2>1, <2>2, SameScreenMoves
<1>6. QED BY <1>2, <1>4, <1>5 DEF OverlayActs

-----------------------------------------------------------------------------
(* The other layers, which have the keys while no overlay is open.         *)

LEMMA SubmitActs ==
  ASSUME EffectsKnown, OverlayKnown, NEW text \in Texts, Submit(text)
  PROVE  EffectsKnown' /\ (UNCHANGED overlay \/ OpensAnew)
<1>1. CASE text = "/bare" /\ Pickers
  <2>1. EffectsKnown' /\ config' \in Configs
    BY <1>1, EffectsStayKnown DEF Pickers, AnyEffect, EffectsKnown
  <2>2. CASE \E kind \in {"root", "sessions", "models", "effort"} : Open(kind)
    BY <2>1, <2>2, OpenIsAnew DEF Open
  <2>3. CASE \E panel \in {"theme", "permissions", "provider", "login", "memory"} :
               OpenPanel(panel, <<>>)
    <3>1. PICK panel \in {"theme", "permissions", "provider", "login", "memory"} :
            OpenPanel(panel, <<>>)
      BY <2>3
    <3>2. panel \in Panels /\ <<>> \in Seq(Panels)
      BY DEF Panels, RootPanels
    <3>3. QED BY <2>1, <3>1, <3>2, PanelIsAnew
  <2>4. QED BY <1>1, <2>1, <2>2, <2>3 DEF Pickers
<1>2. CASE ~(text = "/bare" /\ Pickers)
  <2>1. AnyEffect /\ UNCHANGED overlay
    <3>1. CASE text \in {"", "/"}
      BY <3>1 DEF Submit, AnyEffect
    <3>2. CASE text = "prompt"
      BY <3>2 DEF Submit, AnyEffect, AnyCommand
    <3>3. CASE text = "/bare"
      BY <1>2, <3>3 DEF Submit, AnyEffect
    <3>4. CASE text \in {"/cmd ", "/cmd arg"}
      BY <3>4 DEF Submit, AnyEffect
    <3>5. QED BY <3>1, <3>2, <3>3, <3>4 DEF Texts
  <2>2. QED BY <2>1, EffectsStayKnown
<1>3. QED BY <1>1, <1>2

\* A layer under the overlays leaves all known, and the overlay be or a new one.
LayerActs == EffectsKnown' /\ EditorKnown' /\ (UNCHANGED overlay \/ OpensAnew)

LEMMA LayerMoves ==
  ASSUME OverlayKnown, overlay.kind = "none", LayerActs
  PROVE  ScreenMoves
BY NewScreenMoves, SameScreenMoves DEF LayerActs

LEMMA QuestionActs ==
  ASSUME EffectsKnown, EditorKnown, NEW key, QuestionKey(key)
  PROVE  LayerActs
<1>1. EffectsKnown'
  BY EffectsStayKnown DEF QuestionKey, AnyEffect, AnyCommand
<1>2. QED BY <1>1 DEF QuestionKey, LayerActs, EditorKnown, Texts

LEMMA ApprovalActs ==
  ASSUME EffectsKnown, EditorKnown, NEW key \in {"a", "d", "ctrlC"}, ApprovalKey(key)
  PROVE  LayerActs
<1>1. EffectsKnown'
  BY EffectsStayKnown DEF ApprovalKey, AnyEffect, AnyCommand
<1>2. QED BY <1>1 DEF ApprovalKey, LayerActs, EditorKnown

LEMMA BackgroundActs ==
  ASSUME EffectsKnown, EditorKnown, NEW key, BackgroundKey(key)
  PROVE  LayerActs
<1>1. EffectsKnown'
  BY EffectsStayKnown DEF BackgroundKey, AnyEffect, AnyCommand
<1>2. QED BY <1>1 DEF BackgroundKey, LayerActs, EditorKnown, Texts

LEMMA SuggestionActs ==
  ASSUME EffectsKnown, EditorKnown, NEW key, SuggestionKey(key)
  PROVE  LayerActs
<1>1. EffectsKnown'
  BY EffectsStayKnown DEF SuggestionKey, AnyEffect, AnyCommand
<1>2. QED BY <1>1 DEF SuggestionKey, LayerActs, EditorKnown, Texts

LEMMA AppActs ==
  ASSUME EffectsKnown, EditorKnown, NEW key \in {"ctrlL", "ctrlT", "ctrlP", "backTab"},
         AppKey(key)
  PROVE  LayerActs
<1>1. EffectsKnown' /\ config' \in Configs
  BY EffectsStayKnown DEF AppKey, AnyEffect, AnyCommand, EffectsKnown
<1>2. Open("models") \/ UNCHANGED overlay
  BY DEF AppKey
<1>3. UNCHANGED overlay \/ OpensAnew
  BY <1>1, <1>2, OpenIsAnew DEF Open
<1>4. QED BY <1>1, <1>3 DEF AppKey, LayerActs, EditorKnown

LEMMA PaletteActs ==
  ASSUME EffectsKnown, EditorKnown, OverlayKnown,
         NEW key \in {"move", "escape", "ctrlC", "tab", "enter"}, PaletteKey(key)
  PROVE  LayerActs
<1>1. CASE key \in {"move", "escape", "ctrlC"}
  <2>1. Unheard
    BY <1>1 DEF PaletteKey
  <2>2. EffectsKnown'
    BY <2>1, EffectsStayKnown DEF AnyEffect
  <2>3. QED BY <1>1, <2>2 DEF PaletteKey, LayerActs, EditorKnown
<1>2. CASE key \in {"tab", "enter"}
  <2>1. palette' = "shown" /\ dock' = dock
    BY <1>2 DEF PaletteKey
  <2>2. PICK item \in PaletteItems :
          \/ draft' = "" /\ armed' = FALSE /\ Submit(item)
          \/ draft' = item /\ Unheard /\ UNCHANGED <<overlay, armed>>
    BY <1>2 DEF PaletteKey
  <2>3. item \in Texts
    BY DEF PaletteItems, CommandItems, ArgumentItems, DynamicItems, Texts
  <2>4. EffectsKnown' /\ (UNCHANGED overlay \/ OpensAnew)
    BY <2>2, <2>3, SubmitActs, EffectsStayKnown DEF AnyEffect
  <2>5. EditorKnown'
    BY <2>1, <2>2, <2>3 DEF EditorKnown, Texts
  <2>6. QED BY <2>4, <2>5 DEF LayerActs
<1>3. QED BY <1>1, <1>2

LEMMA RestoreActs ==
  ASSUME EffectsKnown, EditorKnown, RestoreQueued
  PROVE  EffectsKnown' /\ draft' \in Texts
<1>1. CASE waiting = 0
  BY <1>1, EffectsStayKnown DEF RestoreQueued, AnyEffect, EditorKnown
<1>2. CASE waiting # 0
  BY <1>2, KeysAssumption DEF RestoreQueued, EffectsKnown, Texts
<1>3. QED BY <1>1, <1>2

LEMMA EditorActs ==
  ASSUME EffectsKnown, EditorKnown, OverlayKnown, NEW key, EditorKey(key)
  PROVE  LayerActs
<1>1. /\ armed' \in BOOLEAN
      /\ palette' \in {"shown", "navigated", "suppressed"}
      /\ dock' \in BOOLEAN
  BY DEF EditorKey, EditorKnown
<1>2. CASE key = "enter" /\ draft' = "" /\ Submit(draft)
  <2>1. EffectsKnown' /\ (UNCHANGED overlay \/ OpensAnew)
    BY <1>2, SubmitActs DEF EditorKnown
  <2>2. QED BY <1>1, <1>2, <2>1 DEF LayerActs, EditorKnown, Texts
<1>3. CASE ~(key = "enter" /\ draft' = "" /\ Submit(draft))
  <2>1. overlay' = overlay /\ key # "enter"
    BY <1>3 DEF EditorKey
  <2>2. EffectsKnown' /\ draft' \in Texts
    <3>1. CASE key = "altEnter"
      <4>1. SubmitFollowUp(draft) /\ draft' = ""
        BY <3>1, <2>1 DEF EditorKey
      <4>2. AnyEffect
        BY <4>1 DEF SubmitFollowUp, AnyEffect, AnyCommand
      <4>3. QED BY <4>1, <4>2, EffectsStayKnown DEF Texts
    <3>2. CASE key = "ctrlEnter"
      <4>1. SteerTurn(draft) /\ draft' = ""
        BY <3>2, <2>1 DEF EditorKey
      <4>2. AnyEffect
        BY <4>1 DEF SteerTurn, AnyEffect, AnyCommand
      <4>3. QED BY <4>1, <4>2, EffectsStayKnown DEF Texts
    <3>3. CASE key = "altUp"
      <4>1. RestoreQueued
        BY <3>3, <2>1 DEF EditorKey
      <4>2. QED BY <4>1, RestoreActs
    <3>4. CASE key \in {"escape", "ctrlC"}
      <4>1. ClearOrInterrupt
        BY <3>4, <2>1 DEF EditorKey
      <4>2. AnyEffect /\ draft' = ""
        BY <4>1 DEF ClearOrInterrupt, AnyEffect, AnyCommand
      <4>3. QED BY <4>2, EffectsStayKnown DEF Texts
    <3>5. CASE key = "ctrlD"
      <4>1. ClearOrLeave
        BY <3>5, <2>1 DEF EditorKey
      <4>2. AnyEffect /\ draft' = ""
        BY <4>1 DEF ClearOrLeave, AnyEffect, AnyCommand
      <4>3. QED BY <4>2, EffectsStayKnown DEF Texts
    <3>6. CASE key \notin {"altEnter", "ctrlEnter", "altUp", "escape", "ctrlC", "ctrlD"}
      <4>1. Unheard /\ draft' \in Texts
        BY <3>6, <2>1 DEF EditorKey, EditorKnown
      <4>2. QED BY <4>1, EffectsStayKnown DEF AnyEffect
    <3>7. QED BY <3>1, <3>2, <3>3, <3>4, <3>5, <3>6
  <2>3. QED BY <1>1, <2>1, <2>2 DEF LayerActs, EditorKnown
<1>4. QED BY <1>2, <1>3

LEMMA PressMoves ==
  ASSUME KeysInv, NEW key, Press(key)
  PROVE  ScreenMoves
<1> EffectsKnown /\ OverlayKnown /\ EditorKnown
  BY DEF KeysInv
<1>1. Taker(key) \in Layers /\ Claims(Taker(key), key)
  BY TakerClaims
<1>2. CASE Taker(key) = "exit"
  <2>1. ExitKey
    BY <1>2 DEF Press
  <2>2. EffectsKnown' /\ live' = FALSE
    BY <2>1, EffectsStayKnown DEF ExitKey, AnyEffect, AnyCommand, EndShell
  <2>3. EditorKnown' /\ overlay' = overlay
    BY <2>1 DEF ExitKey, EditorKnown, Texts
  <2>4. QED BY <2>2, <2>3, SameScreenMoves
<1>3. CASE Taker(key) = "overlay"
  <2>1. OverlayKey(key) /\ overlay.kind # "none"
    BY <1>1, <1>3 DEF Press, Claims
  <2>2. QED BY <2>1, OverlayKeyMoves
<1>4. CASE Taker(key) \notin {"exit", "overlay"}
  <2>1. overlay.kind = "none"
    BY <1>4, TakerClaims
  <2>2. LayerActs
    <3>1. CASE Taker(key) = "question"
      BY <3>1, QuestionActs DEF Press
    <3>2. CASE Taker(key) = "approval"
      <4>1. key \in {"a", "d", "ctrlC"}
        BY <1>1, <3>2 DEF Claims
      <4>2. QED BY <3>2, <4>1, ApprovalActs DEF Press
    <3>3. CASE Taker(key) = "background"
      BY <3>3, BackgroundActs DEF Press
    <3>4. CASE Taker(key) = "suggestion"
      BY <3>4, SuggestionActs DEF Press
    <3>5. CASE Taker(key) = "app"
      <4>1. key \in {"ctrlL", "ctrlT", "ctrlP", "backTab"}
        BY <1>1, <3>5 DEF Claims
      <4>2. QED BY <3>5, <4>1, AppActs DEF Press
    <3>6. CASE Taker(key) = "palette"
      <4>1. key \in {"move", "escape", "ctrlC", "tab", "enter"}
        BY <1>1, <3>6 DEF Claims
      <4>2. QED BY <3>6, <4>1, PaletteActs DEF Press
    <3>7. CASE Taker(key) = "editor"
      BY <3>7, EditorActs DEF Press
    <3>8. QED BY <1>1, <1>4, <3>1, <3>2, <3>3, <3>4, <3>5, <3>6, <3>7 DEF Layers
  <2>3. QED BY <2>1, <2>2, LayerMoves
<1>5. QED BY <1>2, <1>3, <1>4

-----------------------------------------------------------------------------
(* The rest of the loop.                                                   *)

LEMMA LoopMoves ==
  ASSUME KeysInv, PollTurn \/ StartNext \/ SyncDocks
  PROVE  ScreenMoves
<1> EffectsKnown /\ OverlayKnown /\ EditorKnown
  BY DEF KeysInv
<1>1. EffectsKnown'
  <2>1. CASE StartNext
    BY <2>1, KeysAssumption DEF StartNext, EffectsKnown
  <2>2. CASE PollTurn
    BY <2>2, EffectsStayKnown DEF PollTurn, AtBoundary, EffectsKnown, AnyEffect, AnyCommand
  <2>3. CASE SyncDocks
    BY <2>3 DEF SyncDocks, EffectsKnown
  <2>4. QED BY <2>1, <2>2, <2>3
<1>2. EditorKnown' /\ overlay' = overlay
  BY DEF PollTurn, StartNext, SyncDocks, EditorKnown
<1>3. live' = FALSE \/ config' = config
  BY DEF PollTurn, StartNext, SyncDocks, EndShell
<1>4. QED BY <1>1, <1>2, <1>3, SameScreenMoves

LEMMA KeysStart == KeysInit => KeysInv
<1> SUFFICES ASSUME KeysInit PROVE KeysInv
  OBVIOUS
<1>1. overlay.kind = "none" /\ overlay.panels = <<>> /\ overlay.of = config
  BY Zenon DEF KeysInit, NoOverlay
<1>2. EffectsKnown /\ EditorKnown
  <2>1. EffectsKnown
    <3>1. waiting \in 0..MaxQueued
      <4>1. waiting = 0
        BY Zenon DEF KeysInit
      <4>2. QED BY <4>1, KeysAssumption
    <3>2. QED BY <3>1, Zenon DEF KeysInit, EffectsKnown
  <2>2. EditorKnown
    BY Zenon DEF KeysInit, EditorKnown, Texts
  <2>3. QED BY <2>1, <2>2
<1>3. config \in Configs
  BY DEF KeysInit
<1>4. OverlayKnown /\ OverlayIsCurrent
  BY <1>1, <1>3 DEF OverlayKnown, PanelsAreOpen, OverlayIsCurrent
<1>5. QED BY <1>2, <1>4 DEF KeysInv

LEMMA KeysStepKeeps == KeysInv /\ [KeysNext]_keysVars => KeysInv'
<1> SUFFICES ASSUME KeysInv, [KeysNext]_keysVars PROVE KeysInv'
  OBVIOUS
<1>1. CASE KeysNext
  BY <1>1, PressMoves, LoopMoves, MovesKeepInv DEF KeysNext
<1>2. CASE UNCHANGED keysVars
  BY <1>2 DEF keysVars, KeysInv, EffectsKnown, OverlayKnown, PanelsAreOpen, EditorKnown,
              OverlayIsCurrent, Shown
<1>3. QED BY <1>1, <1>2

LEMMA KeysInvariant == KeysSpec => []KeysInv
BY KeysStart, KeysStepKeeps, PTL DEF KeysSpec

\* The screen keeps its types, with any set of values of the settings and any
\* bound of the queue.
THEOREM KeysTypeCorrect == KeysSpec => []KeysTypeOK
<1>1. KeysInv => KeysTypeOK
  BY DEF KeysInv, EffectsKnown, OverlayKnown, EditorKnown, KeysTypeOK
<1>2. QED BY <1>1, KeysInvariant, PTL

\* No key, command or way back through the panels leaves an overlay open over
\* settings it does not show.
THEOREM OverlayCorrect == KeysSpec => []OverlayIsCurrent
<1>1. KeysInv => OverlayIsCurrent
  BY DEF KeysInv
<1>2. QED BY <1>1, KeysInvariant, PTL
=============================================================================
