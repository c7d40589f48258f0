-------------------------- MODULE ServerTurnsProofs --------------------------
(***************************************************************************)
(* Proofs about ServerTurns and, in the last part, ShellSession, for any   *)
(* number of threads, background turns, subagent turns, events and prompts.*)
(*                                                                         *)
(* Three invariants on top of TypeOK, each for one property: Shown says    *)
(* how far an answer may reach, Noted what becomes of a turn whose         *)
(* interrupt was noted down, and Starting where the event is that an       *)
(* answer to turn/run-agentic looks for.  The last two rest on Drives:     *)
(* who drives what.                                                        *)
(*                                                                         *)
(* The shell over the server takes the client's steps, so the server keeps *)
(* its invariant; what the shell shows as running (ActiveRuns) follows the *)
(* events, since the start of a turn is listed before an answer names it.  *)
(***************************************************************************)
EXTENDS ShellSession, WellFoundedInduction, TLAPS

Shown ==
  /\ seen <= persisted
  /\ answer.upto <= Len(mirror)
  /\ ~answer.ok => answer.upto = 0

Parents == \A t \in TurnId : turns[t].parent < t

\* The mutex is held for a turn that runs, and by who drives it; apart from a
\* subagent's turn no other turn runs, until a panic.
Drives ==
  /\ holder = Free <=> root = NoTurn
  /\ root # NoTurn => turns[root].status = "running"
  /\ holder = Main => main = "driving"
  /\ holder \in JobId => jobs[holder].state = "driving"
  /\ poisoned => root = NoTurn
  /\ ~poisoned => \A t \in TurnId :
       turns[t].status = "running" => root # NoTurn /\ (t = root \/ turns[t].parent = root)

\* What the main loop is doing for its request.
Serves ==
  /\ main = "driving" => request.kind = "resume"
  /\ main = "interrupting" => request.kind = "interrupt"
  /\ main = "starting" =>
       /\ request.kind = "run"
       /\ request.job \in JobId
       /\ jobs[request.job].thread = request.thread
       /\ request.after <= Len(mirror)
  /\ main = "blocked" /\ request.kind # "register" => request.turn \in TurnId

\* A turn whose interrupt was noted down goes on waiting, or meets the note
\* before anything else.
Noted ==
  \A t \in denied :
    \/ turns[t].status = "aborted"
    \/ turns[t].status = "waiting" /\ t \in interrupts
    \/ turns[t].status = "running" /\ poisoned
    \/ /\ turns[t].status = "running"
       /\ root = t /\ ~checked /\ t \in interrupts
       /\ \A u \in TurnId : turns[u].parent = t => turns[u].status # "running"

\* The first event after the request is the start of the turn it asked for.
Awaited ==
  \/ /\ jobs[request.job].state \in {"queued", "failed"}
     /\ Len(mirror) = request.after
     /\ root = NoTurn
     /\ \A j \in JobId \ {request.job} : jobs[j].state # "queued"
  \/ /\ jobs[request.job].state # "queued"
     /\ Len(mirror) > request.after
     /\ mirror[request.after + 1] =
          [thread |-> request.thread, turn |-> jobs[request.job].turn, kind |-> "started"]

Starting == main = "starting" /\ request.job \notin overlapped => Awaited

Named ==
  answer.kind = "run" /\ answer.ok /\ answer.job \notin overlapped =>
    /\ answer.job \in JobId
    /\ jobs[answer.job].state # "queued"
    /\ jobs[answer.job].turn = answer.turn

ServerInv ==
  /\ TypeOK
  /\ Shown
  /\ Parents
  /\ Drives
  /\ Serves
  /\ Noted
  /\ Starting
  /\ Named
-----------------------------------------------------------------------------
(* Sequences and records.                                                  *)

\* Writing to an element of a sequence leaves a sequence, with the others.
LEMMA Written ==
  ASSUME NEW S, NEW q \in Seq(S), NEW i \in 1..Len(q), NEW e \in S
  PROVE  /\ [q EXCEPT ![i] = e] \in Seq(S)
         /\ Len([q EXCEPT ![i] = e]) = Len(q)
         /\ [q EXCEPT ![i] = e][i] = e
         /\ \A k \in 1..Len(q) : k # i => [q EXCEPT ![i] = e][k] = q[k]
<1> DEFINE r == [k \in 1..Len(q) |-> IF k = i THEN e ELSE q[k]]
<1>1. r \in Seq(S) /\ Len(r) = Len(q)
  OBVIOUS
<1>2. [q EXCEPT ![i] = e] = r
  OBVIOUS
<1>3. QED BY <1>1, <1>2

LEMMA Appended ==
  ASSUME NEW S, NEW q \in Seq(S), NEW e \in S
  PROVE  /\ Append(q, e) \in Seq(S)
         /\ Len(Append(q, e)) = Len(q) + 1
         /\ Append(q, e)[Len(q) + 1] = e
         /\ \A k \in 1..Len(q) : Append(q, e)[k] = q[k]
OBVIOUS

\* A turn whose status is written.
LEMMA TurnWritten ==
  ASSUME turns \in Seq(Turn), NEW t \in TurnId, NEW status \in TurnStatus,
         turns' = [turns EXCEPT ![t].status = status]
  PROVE  /\ turns' \in Seq(Turn)
         /\ Len(turns') = Len(turns)
         /\ turns'[t].status = status
         /\ \A u \in TurnId : turns'[u].parent = turns[u].parent
         /\ \A u \in TurnId : u # t => turns'[u] = turns[u]
<1> DEFINE e == [turns[t] EXCEPT !.status = status]
<1>1. turns[t] \in Turn
  BY DEF TurnId
<1>2. e \in Turn /\ e.status = status /\ e.parent = turns[t].parent
  BY <1>1 DEF Turn
<1>3. turns' = [turns EXCEPT ![t] = e]
  OBVIOUS
<1> HIDE DEF e
<1>4. /\ turns' \in Seq(Turn) /\ Len(turns') = Len(turns) /\ turns'[t] = e
      /\ \A u \in TurnId : u # t => turns'[u] = turns[u]
  BY <1>2, <1>3, Written DEF TurnId
<1>5. QED BY <1>2, <1>4

\* A job whose state and turn are written.
LEMMA JobWritten ==
  ASSUME jobs \in Seq(Job), NEW j \in JobId,
         NEW state \in {"queued", "driving", "over", "failed"}, NEW turn \in Nat,
         jobs' = [jobs EXCEPT ![j] = [thread |-> jobs[j].thread, state |-> state, turn |-> turn]]
  PROVE  /\ jobs' \in Seq(Job)
         /\ Len(jobs') = Len(jobs)
         /\ jobs'[j].state = state /\ jobs'[j].turn = turn
         /\ \A k \in JobId : jobs'[k].thread = jobs[k].thread
         /\ \A k \in JobId : k # j => jobs'[k] = jobs[k]
<1> DEFINE e == [thread |-> jobs[j].thread, state |-> state, turn |-> turn]
<1>0. jobs[j] \in Job
  BY DEF JobId
<1>1. e \in Job
  BY <1>0 DEF Job
<1>2. /\ e.thread = jobs[j].thread /\ e.state = state /\ e.turn = turn
  OBVIOUS
<1>3. jobs' = [jobs EXCEPT ![j] = e]
  OBVIOUS
<1> HIDE DEF e
<1>4. /\ jobs' \in Seq(Job) /\ Len(jobs') = Len(jobs) /\ jobs'[j] = e
      /\ \A k \in JobId : k # j => jobs'[k] = jobs[k]
  BY <1>1, <1>3, Written DEF JobId
<1>5. QED BY <1>2, <1>4

\* ... when the state alone is.
LEMMA JobStateWritten ==
  ASSUME jobs \in Seq(Job), NEW j \in JobId, NEW state
  PROVE  [jobs EXCEPT ![j].state = state] =
           [jobs EXCEPT ![j] = [thread |-> jobs[j].thread, state |-> state, turn |-> jobs[j].turn]]
<1>1. jobs[j] \in Job
  BY DEF JobId
<1>2. [jobs[j] EXCEPT !.state = state] =
        [thread |-> jobs[j].thread, state |-> state, turn |-> jobs[j].turn]
  BY <1>1 DEF Job
<1>3. [jobs EXCEPT ![j].state = state] = [jobs EXCEPT ![j] = [jobs[j] EXCEPT !.state = state]]
  OBVIOUS
<1>4. QED BY <1>2, <1>3

-----------------------------------------------------------------------------
(* The turn at work.                                                       *)

LEMMA AtWorkRuns ==
  ASSUME ServerInv, Driving
  PROVE  /\ AtWork \in TurnId
         /\ root \in TurnId
         /\ turns[AtWork].status = "running"
         /\ AtWork # root => turns[AtWork].parent = root
         /\ AtWork = root =>
              \A u \in TurnId : turns[u].parent = root => turns[u].status # "running"
         /\ holder # Free
         /\ ~poisoned
<1> DEFINE runs(t) == turns[t].parent = root /\ turns[t].status = "running"
<1>1. root \in TurnId /\ turns[root].status = "running" /\ holder # Free /\ ~poisoned
  BY DEF ServerInv, TypeOK, Drives, Driving
<1>2. turns[root].parent # root
  BY <1>1 DEF ServerInv, Parents, TurnId
<1>3. CASE \E t \in TurnId : runs(t)
  <2>1. AtWork = CHOOSE t \in TurnId : runs(t)
    BY <1>3 DEF AtWork
  <2>2. AtWork \in TurnId /\ runs(AtWork)
    BY <1>3, <2>1
  <2>3. QED BY <1>1, <1>2, <2>2
<1>4. CASE ~\E t \in TurnId : runs(t)
  <2>1. AtWork = root
    BY <1>4 DEF AtWork
  <2>2. QED BY <1>1, <1>4, <2>1
<1>5. QED BY <1>3, <1>4

\* What every step of a turn's end does to the turns and the mirror.
LEMMA EndEffect ==
  ASSUME ServerInv, Driving, NEW status \in TurnStatus \ {"running"}, EndAtWork(status)
  PROVE  /\ turns' \in Seq(Turn) /\ Len(turns') = Len(turns)
         /\ turns'[AtWork].status = status
         /\ \A u \in TurnId : turns'[u].parent = turns[u].parent
         /\ \A u \in TurnId : u # AtWork => turns'[u] = turns[u]
         /\ mirror' \in Seq(Event) /\ Len(mirror') = Len(mirror) + 1
         /\ \A i \in 1..Len(mirror) : mirror'[i] = mirror[i]
         /\ checked' = FALSE
         /\ IF AtWork = root THEN Release(TRUE) ELSE UNCHANGED <<holder, root, jobs, main, answer>>
<1>1. AtWork \in TurnId
  BY AtWorkRuns
<1>2. turns \in Seq(Turn) /\ mirror \in Seq(Event)
  BY DEF ServerInv, TypeOK
<1> DEFINE t == AtWork
<1>3. /\ turns' = [turns EXCEPT ![t].status = status]
      /\ mirror' = Append(mirror, [thread |-> turns[t].thread, turn |-> t,
                      kind |-> IF status = "waiting" THEN "paused" ELSE status])
      /\ checked' = FALSE
      /\ IF t = root THEN Release(TRUE) ELSE UNCHANGED <<holder, root, jobs, main, answer>>
  BY DEF EndAtWork, Emit
<1> HIDE DEF t
<1>4. t \in TurnId
  BY <1>1 DEF t
<1>5. status \in TurnStatus
  OBVIOUS
<1>6. /\ turns' \in Seq(Turn) /\ Len(turns') = Len(turns)
      /\ turns'[t].status = status
      /\ \A u \in TurnId : turns'[u].parent = turns[u].parent
      /\ \A u \in TurnId : u # t => turns'[u] = turns[u]
  BY <1>2, <1>3, <1>4, <1>5, TurnWritten
<1>7. turns[t].thread \in Threads /\ t \in Nat
  <2>1. turns[t] \in Turn
    BY <1>2, <1>4 DEF TurnId
  <2>2. QED BY <2>1, <1>4 DEF Turn, TurnId
<1> DEFINE e == [thread |-> turns[t].thread, turn |-> t,
                      kind |-> IF status = "waiting" THEN "paused" ELSE status]
<1>8. e \in Event
  <2>1. (IF status = "waiting" THEN "paused" ELSE status) \in {"started", "paused"} \cup Ended
    BY DEF TurnStatus, Ended
  <2>2. QED BY <1>7, <2>1 DEF Event
<1> HIDE DEF e
<1>9. mirror' = Append(mirror, e)
  BY <1>3 DEF e
<1>10. /\ mirror' \in Seq(Event) /\ Len(mirror') = Len(mirror) + 1
       /\ \A i \in 1..Len(mirror) : mirror'[i] = mirror[i]
  BY <1>2, <1>8, <1>9, Appended
<1>11. QED BY <1>3, <1>6, <1>10 DEF t

\* The mutex is let go of.
LEMMA ReleaseEffect ==
  ASSUME ServerInv, Driving, NEW ok \in BOOLEAN, Release(ok), Len(mirror') \in Nat
  PROVE  /\ holder' = Free /\ root' = NoTurn
         /\ jobs' \in Seq(Job) /\ Len(jobs') = Len(jobs)
         /\ \A j \in JobId :
              /\ jobs'[j].thread = jobs[j].thread
              /\ jobs'[j].turn = jobs[j].turn
              /\ jobs'[j] = jobs[j] \/ (jobs[j].state # "queued" /\ jobs'[j].state = "over")
         /\ \/ main' = main /\ answer' = answer
            \/ /\ main' = "answering" /\ main = "driving"
               /\ answer' \in Answer
               /\ answer'.kind = "resume" /\ answer'.ok = ok
               /\ answer'.upto = IF ok THEN Len(mirror') ELSE 0
<1>1. jobs \in Seq(Job) /\ holder \in {Main} \cup JobId /\ root \in Nat
  BY AtWorkRuns DEF ServerInv, TypeOK, TurnId
<1>2. holder' = Free /\ root' = NoTurn
  BY DEF Release
<1>3. CASE holder = Main
  <2>1. /\ main' = "answering" /\ jobs' = jobs
        /\ answer' = [kind |-> request.kind, ok |-> ok, turn |-> root, job |-> NoJob,
                       upto |-> IF ok THEN Len(mirror') ELSE 0]
    BY <1>3 DEF Release
  <2>2. main = "driving" /\ request.kind = "resume"
    BY <1>3 DEF ServerInv, Drives, Serves
  <2>3. answer' \in Answer
    <3>1. (IF ok THEN Len(mirror') ELSE 0) \in Nat
      OBVIOUS
    <3>2. request.kind \in Kind /\ NoJob \in Nat
      BY <2>2 DEF Kind, NoJob
    <3>3. QED BY <1>1, <2>1, <3>1, <3>2 DEF Answer
  <2>4. answer'.kind = "resume" /\ answer'.ok = ok
        /\ answer'.upto = IF ok THEN Len(mirror') ELSE 0
    BY <2>1, <2>2
  <2>5. \A j \in JobId :
           /\ jobs'[j].thread = jobs[j].thread
           /\ jobs'[j].turn = jobs[j].turn
           /\ jobs'[j] = jobs[j] \/ (jobs[j].state # "queued" /\ jobs'[j].state = "over")
    BY <2>1
  <2>6. /\ main' = "answering" /\ main = "driving"
        /\ answer' \in Answer
        /\ answer'.kind = "resume" /\ answer'.ok = ok
        /\ answer'.upto = IF ok THEN Len(mirror') ELSE 0
    BY <2>1, <2>2, <2>3, <2>4
  <2>7. jobs' \in Seq(Job) /\ Len(jobs') = Len(jobs)
    BY <1>1, <2>1
  <2>8. QED BY ONLY <1>2, <2>5, <2>6, <2>7
<1>4. CASE holder \in JobId
  <2>1. holder # Main
    BY <1>4 DEF JobId, Main
  <2>2. /\ main' = main /\ answer' = answer
        /\ jobs' = [jobs EXCEPT ![holder].state = "over"]
    BY <2>1 DEF Release
  <2>3. jobs[holder] \in Job /\ jobs[holder].state = "driving"
    BY <1>1, <1>4 DEF ServerInv, Drives, JobId
  <2>4. jobs[holder].turn \in Nat
    BY <2>3 DEF Job
  <2>5. jobs' = [jobs EXCEPT ![holder] = [thread |-> jobs[holder].thread, state |-> "over",
                                          turn |-> jobs[holder].turn]]
    BY <1>1, <1>4, <2>2, JobStateWritten
  <2>6. /\ jobs' \in Seq(Job) /\ Len(jobs') = Len(jobs)
        /\ jobs'[holder].state = "over" /\ jobs'[holder].turn = jobs[holder].turn
        /\ \A k \in JobId : jobs'[k].thread = jobs[k].thread
        /\ \A k \in JobId : k # holder => jobs'[k] = jobs[k]
    <3>1. "over" \in {"queued", "driving", "over", "failed"}
      OBVIOUS
    <3>2. QED BY <1>1, <1>4, <2>4, <2>5, <3>1, JobWritten
  <2>7. \A j \in JobId :
           /\ jobs'[j].thread = jobs[j].thread
           /\ jobs'[j].turn = jobs[j].turn
           /\ jobs'[j] = jobs[j] \/ (jobs[j].state # "queued" /\ jobs'[j].state = "over")
    BY <2>3, <2>6
  <2>8. QED BY ONLY <1>2, <2>2, <2>6, <2>7
<1>5. QED BY <1>1, <1>3, <1>4

-----------------------------------------------------------------------------
(* What no step takes back: events, turns, and the turn a job has started. *)

MirrorKept ==
  /\ Len(mirror') \in Nat
  /\ Len(mirror) <= Len(mirror')
  /\ \A i \in 1..Len(mirror) : mirror'[i] = mirror[i]

JobsKept ==
  /\ Len(jobs') \in Nat
  /\ Len(jobs) <= Len(jobs')
  /\ \A j \in JobId :
       /\ jobs'[j].thread = jobs[j].thread
       /\ jobs[j].state # "queued" =>
            jobs'[j].state # "queued" /\ jobs'[j].turn = jobs[j].turn

TurnsKept ==
  /\ Len(turns') \in Nat
  /\ Len(turns) <= Len(turns')

LEMMA Lengths ==
  ASSUME TypeOK
  PROVE  Len(mirror) \in Nat /\ Len(jobs) \in Nat /\ Len(turns) \in Nat
BY DEF TypeOK

LEMMA NothingTakenBack ==
  ASSUME TypeOK
  PROVE  /\ UNCHANGED mirror => MirrorKept
         /\ UNCHANGED jobs => JobsKept
         /\ UNCHANGED turns => TurnsKept
BY Lengths DEF MirrorKept, JobsKept, TurnsKept

LEMMA ShownKept ==
  ASSUME TypeOK, Shown, MirrorKept, UNCHANGED <<persisted, seen>>,
         \/ UNCHANGED answer
         \/ answer'.upto <= Len(mirror') /\ (~answer'.ok => answer'.upto = 0)
  PROVE  Shown'
<1>1. Len(mirror) \in Nat /\ answer.upto \in Nat
  BY Lengths DEF TypeOK, Answer
<1>2. CASE UNCHANGED answer
  <2>1. answer'.upto <= Len(mirror')
    BY <1>1, <1>2 DEF Shown, MirrorKept
  <2>2. ~answer'.ok => answer'.upto = 0
    BY <1>2 DEF Shown
  <2>3. QED BY <2>1, <2>2 DEF Shown
<1>3. CASE answer'.upto <= Len(mirror') /\ (~answer'.ok => answer'.upto = 0)
  BY <1>3 DEF Shown
<1>4. QED BY <1>2, <1>3

LEMMA ServesKept ==
  ASSUME ServerInv, MirrorKept, JobsKept, TurnsKept,
         UNCHANGED <<main, request>> \/ main' \in {"idle", "answering"}
  PROVE  Serves'
<1>1. CASE main' \in {"idle", "answering"}
  BY <1>1 DEF Serves
<1>2. CASE UNCHANGED <<main, request>>
  <2>1. main' = "driving" => request'.kind = "resume"
    BY <1>2 DEF ServerInv, Serves
  <2>2. main' = "interrupting" => request'.kind = "interrupt"
    BY <1>2 DEF ServerInv, Serves
  <2>3. ASSUME main' = "starting"
        PROVE  /\ request'.kind = "run" /\ request'.job \in JobId'
               /\ jobs'[request'.job].thread = request'.thread
               /\ request'.after <= Len(mirror')
    <3>1. /\ request.kind = "run" /\ request.job \in JobId
          /\ jobs[request.job].thread = request.thread
          /\ request.after <= Len(mirror)
      BY <1>2, <2>3 DEF ServerInv, Serves
    <3>2. request.after \in Nat /\ Len(jobs) \in Nat /\ Len(mirror) \in Nat
      BY Lengths DEF ServerInv, TypeOK, Request
    <3>3. QED BY <1>2, <3>1, <3>2 DEF JobsKept, MirrorKept, JobId
  <2>4. main' = "blocked" /\ request'.kind # "register" => request'.turn \in TurnId'
    BY <1>2, Lengths DEF ServerInv, Serves, TurnsKept, TurnId
  <2>5. QED BY <2>1, <2>2, <2>3, <2>4 DEF Serves
<1>3. QED BY <1>1, <1>2

\* While a turn is driven, the job that is awaited has started.
LEMMA StartingKept ==
  ASSUME ServerInv, MirrorKept, JobsKept,
         \/ main' # "starting"
         \/ UNCHANGED <<main, request, overlapped>> /\ Driving
  PROVE  Starting'
<1>1. CASE main' # "starting"
  BY <1>1 DEF Starting
<1>2. CASE UNCHANGED <<main, request, overlapped>> /\ Driving
  <2> SUFFICES ASSUME main' = "starting", request'.job \notin overlapped'
               PROVE  Awaited'
    BY DEF Starting
  <2>1. Awaited /\ request.job \in JobId /\ request.after \in Nat
    BY <1>2 DEF ServerInv, Starting, Serves, TypeOK, Request
  <2>2. /\ jobs[request.job].state # "queued"
        /\ Len(mirror) > request.after
        /\ mirror[request.after + 1] =
             [thread |-> request.thread, turn |-> jobs[request.job].turn, kind |-> "started"]
    BY <1>2, <2>1 DEF Awaited, Driving
  <2>3. Len(mirror) \in Nat
    BY Lengths DEF ServerInv
  <2>4. request.after + 1 \in 1..Len(mirror)
    BY <2>1, <2>2, <2>3
  <2>5. /\ jobs'[request.job].state # "queued"
        /\ jobs'[request.job].turn = jobs[request.job].turn
    BY <2>1, <2>2 DEF JobsKept
  <2>6. Len(mirror') > request.after /\ mirror'[request.after + 1] = mirror[request.after + 1]
    BY <2>1, <2>2, <2>3, <2>4 DEF MirrorKept
  <2>7. QED BY <1>2, <2>2, <2>5, <2>6 DEF Awaited
<1>3. QED BY <1>1, <1>2

LEMMA NamedKept ==
  ASSUME ServerInv, JobsKept, overlapped \subseteq overlapped',
         UNCHANGED answer \/ answer'.kind # "run" \/ ~answer'.ok
  PROVE  Named'
<1> SUFFICES ASSUME answer'.kind = "run", answer'.ok, answer'.job \notin overlapped'
             PROVE  /\ answer'.job \in JobId'
                    /\ jobs'[answer'.job].state # "queued"
                    /\ jobs'[answer'.job].turn = answer'.turn
  BY DEF Named
<1>1. UNCHANGED answer
  OBVIOUS
<1>2. answer.kind = "run" /\ answer.ok /\ answer.job \notin overlapped
  BY <1>1
<1>3. /\ answer.job \in JobId
      /\ jobs[answer.job].state # "queued"
      /\ jobs[answer.job].turn = answer.turn
  BY <1>2 DEF ServerInv, Named
<1>4. answer.job \in JobId'
  BY <1>3, Lengths DEF ServerInv, JobsKept, JobId
<1>5. QED BY <1>1, <1>3, <1>4 DEF JobsKept

-----------------------------------------------------------------------------
(* The first state.                                                        *)

LEMMA NoRequestIsRequest == NoRequest \in Request
<1>1. (CHOOSE thread \in Threads : TRUE) \in Threads
  BY ServerAssumption
<1>2. QED BY <1>1 DEF NoRequest, Request, Kind, NoTurn, NoJob

LEMMA NoAnswerIsAnswer ==
  /\ NoAnswer \in Answer /\ ~NoAnswer.ok /\ NoAnswer.upto = 0 /\ NoAnswer.kind = "none"
BY DEF NoAnswer, Answer, Kind, NoTurn, NoJob

LEMMA InitCorrect == Init => ServerInv
<1> SUFFICES ASSUME Init PROVE ServerInv
  OBVIOUS
<1> USE DEF Init
<1>1. TypeOK
  <2>1. /\ holder \in {Free, Main} \cup JobId /\ root \in {NoTurn} \cup TurnId
        /\ poisoned \in BOOLEAN /\ checked \in BOOLEAN
    OBVIOUS
  <2>2. jobs \in Seq(Job) /\ turns \in Seq(Turn) /\ mirror \in Seq(Event) /\ Len(mirror) = 0
    OBVIOUS
  <2>3. persisted \in 0..Len(mirror) /\ seen \in 0..Len(mirror)
    BY <2>2
  <2>4. /\ interrupts \subseteq TurnId /\ denied \subseteq TurnId /\ overlapped \subseteq JobId
        /\ main \in {"idle", "blocked", "driving", "starting", "interrupting", "answering"}
    OBVIOUS
  <2>5. request \in Request /\ answer \in Answer
    BY NoRequestIsRequest, NoAnswerIsAnswer
  <2>6. QED BY <2>1, <2>2, <2>3, <2>4, <2>5 DEF TypeOK
<1>2. Shown
  BY NoAnswerIsAnswer DEF Shown
<1>3. Parents /\ Noted
  BY DEF Parents, Noted, TurnId
<1>4. Drives
  BY DEF Drives, Free, NoTurn, Main, JobId, TurnId
<1>5. Serves /\ Starting
  BY DEF Serves, Starting
<1>6. Named
  BY NoAnswerIsAnswer DEF Named
<1>7. QED BY <1>1, <1>2, <1>3, <1>4, <1>5, <1>6 DEF ServerInv

-----------------------------------------------------------------------------
(* The steps of a drive.                                                   *)

\* What it means for who holds the mutex that a turn at work ends.
LEMMA AfterEnd ==
  ASSUME ServerInv, Driving, NEW status \in TurnStatus \ {"running"}, EndAtWork(status)
  PROVE  /\ MirrorKept /\ JobsKept /\ TurnsKept
         /\ jobs' \in Seq(Job) /\ Len(jobs') = Len(jobs)
         /\ \/ AtWork = root /\ holder' = Free /\ root' = NoTurn
            \/ AtWork # root /\ UNCHANGED <<holder, root, jobs, main>>
         /\ \/ UNCHANGED <<main, answer>>
            \/ /\ main' = "answering" /\ main = "driving"
               /\ answer' \in Answer
               /\ answer'.kind = "resume" /\ answer'.ok
               /\ answer'.upto = Len(mirror')
<1>1. Len(mirror) \in Nat /\ Len(jobs) \in Nat /\ Len(turns) \in Nat /\ jobs \in Seq(Job)
  <2>1. Len(mirror) \in Nat /\ Len(jobs) \in Nat /\ Len(turns) \in Nat
    BY Lengths DEF ServerInv
  <2>2. QED BY <2>1 DEF ServerInv, TypeOK
<1>2. MirrorKept /\ TurnsKept
  <2>1. /\ Len(turns') = Len(turns) /\ Len(mirror') = Len(mirror) + 1
        /\ \A i \in 1..Len(mirror) : mirror'[i] = mirror[i]
    BY EndEffect
  <2>2. QED BY <1>1, <2>1 DEF MirrorKept, TurnsKept
<1>3. CASE AtWork = root
  <2>1. Release(TRUE)
    BY <1>3, EndEffect
  <2>2. Len(mirror') \in Nat
    BY <1>2 DEF MirrorKept
  <2>3. /\ holder' = Free /\ root' = NoTurn
        /\ jobs' \in Seq(Job) /\ Len(jobs') = Len(jobs)
        /\ \A j \in JobId :
             /\ jobs'[j].thread = jobs[j].thread
             /\ jobs'[j].turn = jobs[j].turn
             /\ jobs'[j] = jobs[j] \/ (jobs[j].state # "queued" /\ jobs'[j].state = "over")
        /\ \/ main' = main /\ answer' = answer
           \/ /\ main' = "answering" /\ main = "driving"
              /\ answer' \in Answer
              /\ answer'.kind = "resume" /\ answer'.ok = TRUE
              /\ answer'.upto = IF TRUE THEN Len(mirror') ELSE 0
    BY <2>1, <2>2, ReleaseEffect
  <2>4. JobsKept
    BY <1>1, <2>3 DEF JobsKept
  <2>5. QED BY <1>2, <1>3, <2>3, <2>4
<1>4. CASE AtWork # root
  <2>1. UNCHANGED <<holder, root, jobs, main, answer>>
    BY <1>4, EndEffect
  <2>2. JobsKept
    BY <2>1, NothingTakenBack DEF ServerInv
  <2>3. QED BY <1>1, <1>2, <1>4, <2>1, <2>2
<1>5. QED BY <1>3, <1>4

LEMMA EndKeeps ==
  ASSUME ServerInv, Driving, NEW status \in TurnStatus \ {"running"}, EndAtWork(status),
         UNCHANGED <<poisoned, request, persisted, seen, history>>,
         \/ checked /\ interrupts' = interrupts
         \/ status = "aborted" /\ interrupts' = interrupts \ {AtWork}
  PROVE  ServerInv'
<1> DEFINE w == AtWork
<1>1. /\ w \in TurnId /\ root \in TurnId /\ turns[w].status = "running"
      /\ w # root => turns[w].parent = root
      /\ w = root => \A u \in TurnId : turns[u].parent = root => turns[u].status # "running"
      /\ holder # Free /\ ~poisoned
  BY AtWorkRuns
<1>2. /\ turns' \in Seq(Turn) /\ Len(turns') = Len(turns)
      /\ turns'[w].status = status
      /\ \A u \in TurnId : turns'[u].parent = turns[u].parent
      /\ \A u \in TurnId : u # w => turns'[u] = turns[u]
      /\ mirror' \in Seq(Event) /\ Len(mirror') = Len(mirror) + 1
      /\ checked' = FALSE
  BY EndEffect
<1>3. /\ MirrorKept /\ JobsKept /\ TurnsKept
      /\ jobs' \in Seq(Job) /\ Len(jobs') = Len(jobs)
      /\ \/ w = root /\ holder' = Free /\ root' = NoTurn
         \/ w # root /\ UNCHANGED <<holder, root, jobs, main>>
      /\ \/ UNCHANGED <<main, answer>>
         \/ /\ main' = "answering" /\ main = "driving"
            /\ answer' \in Answer
            /\ answer'.kind = "resume" /\ answer'.ok
            /\ answer'.upto = Len(mirror')
  BY AfterEnd
<1>4. Len(mirror) \in Nat /\ Len(jobs) \in Nat /\ Len(turns) \in Nat
  BY Lengths DEF ServerInv
<1>5. interrupts' = interrupts \/ interrupts' = interrupts \ {w}
  OBVIOUS
<1>6. status \in TurnStatus /\ status # "running"
  OBVIOUS
<1>7. (checked /\ interrupts' = interrupts) \/ status = "aborted"
  OBVIOUS
<1> HIDE DEF w
<1>8. TurnId' = TurnId /\ JobId' = JobId
  BY <1>2, <1>3 DEF TurnId, JobId
<1>9. TypeOK'
  <2>1. holder' \in {Free, Main} \cup JobId' /\ root' \in {NoTurn} \cup TurnId'
    BY <1>1, <1>3, <1>8 DEF ServerInv, TypeOK
  <2>2. interrupts' \subseteq TurnId' /\ denied' \subseteq TurnId' /\ overlapped' \subseteq JobId'
    BY <1>5, <1>8 DEF ServerInv, TypeOK, history
  <2>3. persisted' \in 0..Len(mirror') /\ seen' \in 0..Len(mirror')
    BY <1>2, <1>4 DEF ServerInv, TypeOK
  <2>4. /\ main' \in {"idle", "blocked", "driving", "starting", "interrupting", "answering"}
        /\ answer' \in Answer
    BY <1>3 DEF ServerInv, TypeOK
  <2>5. request' \in Request /\ poisoned' \in BOOLEAN /\ checked' \in BOOLEAN
    BY <1>2 DEF ServerInv, TypeOK
  <2>6. QED BY <1>2, <1>3, <2>1, <2>2, <2>3, <2>4, <2>5 DEF TypeOK
<1>10. Shown'
  <2>1. UNCHANGED answer \/ (answer'.upto <= Len(mirror') /\ (~answer'.ok => answer'.upto = 0))
    BY <1>2, <1>3, <1>4
  <2>2. QED BY <1>3, <2>1, ShownKept DEF ServerInv
<1>11. Parents'
  BY <1>2, <1>8 DEF ServerInv, Parents
<1>12. Drives'
  <2>1. CASE w = root
    <3>1. holder' = Free /\ root' = NoTurn
      BY <1>3, <2>1
    <3>2. \A u \in TurnId : turns'[u].status # "running"
      BY <1>1, <1>2, <1>6, <2>1 DEF ServerInv, Drives
    <3>3. holder' # Main /\ holder' \notin JobId'
      BY <3>1 DEF Free, Main, JobId
    <3>4. QED BY <1>8, <3>1, <3>2, <3>3 DEF Drives
  <2>2. CASE w # root
    <3>1. UNCHANGED <<holder, root, jobs, main>>
      BY <1>3, <2>2
    <3>2. turns'[root] = turns[root]
      BY <1>1, <1>2, <2>2
    <3>3. holder' = Free <=> root' = NoTurn
      BY <3>1 DEF ServerInv, Drives
    <3>4. root' # NoTurn => turns'[root'].status = "running"
      BY <3>1, <3>2 DEF ServerInv, Drives
    <3>5. holder' = Main => main' = "driving"
      BY <3>1 DEF ServerInv, Drives
    <3>6. holder' \in JobId' => jobs'[holder'].state = "driving"
      BY <3>1, <1>8 DEF ServerInv, Drives
    <3>7. ~poisoned'
      BY <1>1
    <3>8. ASSUME NEW u \in TurnId, turns'[u].status = "running"
          PROVE  root' # NoTurn /\ (u = root' \/ turns'[u].parent = root')
      BY <1>1, <1>2, <1>6, <3>1, <3>8 DEF ServerInv, Drives
    <3>9. QED BY <1>8, <3>3, <3>4, <3>5, <3>6, <3>7, <3>8 DEF Drives
  <2>3. QED BY <2>1, <2>2
<1>13. Serves'
  BY <1>3, ServesKept
<1>14. Noted'
  <2> SUFFICES ASSUME NEW t \in denied
               PROVE  \/ turns'[t].status = "aborted"
                      \/ turns'[t].status = "waiting" /\ t \in interrupts'
    BY DEF Noted, history
  <2>1. t \in TurnId
    BY DEF ServerInv, TypeOK
  <2>2. CASE t = w
    <3>1. root = t /\ ~checked
      BY <1>1, <2>2 DEF ServerInv, Noted
    <3>2. QED BY <1>2, <1>7, <2>2, <3>1
  <2>3. CASE t # w
    <3>1. turns'[t] = turns[t]
      BY <1>2, <2>1, <2>3
    <3>2. turns[t].status # "running"
      <4>1. CASE w = root
        BY <1>1, <2>1, <2>3, <4>1 DEF ServerInv, Drives
      <4>2. CASE w # root
        BY <1>1, <2>1, <2>3, <4>2 DEF ServerInv, Noted
      <4>3. QED BY <4>1, <4>2
    <3>3. turns[t].status = "aborted" \/ (turns[t].status = "waiting" /\ t \in interrupts)
      BY <3>2 DEF ServerInv, Noted
    <3>4. QED BY <1>5, <2>3, <3>1, <3>3
  <2>4. QED BY <2>2, <2>3
<1>15. Starting'
  <2>1. main' # "starting" \/ UNCHANGED main
    BY <1>3
  <2>2. UNCHANGED <<request, overlapped>>
    BY DEF history
  <2>3. QED BY <1>3, <2>1, <2>2, StartingKept
<1>16. Named'
  <2>1. overlapped \subseteq overlapped'
    BY DEF history
  <2>2. UNCHANGED answer \/ answer'.kind # "run"
    BY <1>3
  <2>3. QED BY <1>3, <2>1, <2>2, NamedKept
<1>17. QED BY <1>9, <1>10, <1>11, <1>12, <1>13, <1>14, <1>15, <1>16 DEF ServerInv

LEMMA TakeInterruptKeeps == ASSUME ServerInv, TakeInterrupt PROVE ServerInv'
<1>1. "aborted" \in TurnStatus \ {"running"}
  BY DEF TurnStatus
<1>2. /\ Driving /\ EndAtWork("aborted") /\ interrupts' = interrupts \ {AtWork}
      /\ UNCHANGED <<poisoned, request, persisted, seen, history>>
  BY DEF TakeInterrupt
<1>3. QED BY <1>1, <1>2, EndKeeps

LEMMA WorkKeeps == ASSUME ServerInv, Work PROVE ServerInv'
<1>1. PICK status \in TurnStatus \ {"running"} : EndAtWork(status)
  BY DEF Work
<1>2. /\ Driving /\ checked /\ interrupts' = interrupts
      /\ UNCHANGED <<poisoned, request, persisted, seen, history>>
  BY DEF Work
<1>3. QED BY <1>1, <1>2, EndKeeps

\* A drive that looks finds no note for the turn at work: it is not one of those
\* whose note it has to meet.
LEMMA PassCheckKeeps == ASSUME ServerInv, PassCheck PROVE ServerInv'
<1>1. /\ UNCHANGED <<holder, poisoned, root, jobs, turns, mirror, interrupts, main, request,
                     answer, persisted, seen, denied, overlapped>>
      /\ Driving /\ checked' = TRUE /\ AtWork \notin interrupts
  BY DEF PassCheck, mainVars, history
<1>2. TypeOK' /\ Shown' /\ Parents' /\ Drives' /\ Serves' /\ Named'
  <2>1. TypeOK'
    BY <1>1 DEF ServerInv, TypeOK, JobId, TurnId
  <2>2. Shown' /\ Parents'
    BY <1>1 DEF ServerInv, Shown, Parents, TurnId
  <2>3. Drives'
    BY <1>1 DEF ServerInv, Drives, JobId, TurnId
  <2>4. Serves'
    BY <1>1 DEF ServerInv, Serves, JobId, TurnId
  <2>5. Named'
    BY <1>1 DEF ServerInv, Named, JobId
  <2>6. QED BY <2>1, <2>2, <2>3, <2>4, <2>5
<1>3. Noted'
  <2> SUFFICES ASSUME NEW t \in denied
               PROVE  \/ turns[t].status = "aborted"
                      \/ turns[t].status = "waiting" /\ t \in interrupts
                      \/ turns[t].status = "running" /\ poisoned
    BY <1>1 DEF Noted
  <2>1. SUFFICES ASSUME root = t, t \in interrupts,
                        \A u \in TurnId : turns[u].parent = t => turns[u].status # "running"
                 PROVE  FALSE
    BY DEF ServerInv, Noted
  <2>2. AtWork = root
    BY <2>1 DEF AtWork
  <2>3. QED BY <1>1, <2>1, <2>2
<1>4. Starting'
  BY <1>1 DEF ServerInv, Starting, Awaited, JobId
<1>5. QED BY <1>2, <1>3, <1>4 DEF ServerInv

\* The turn that panicked stays "running" for ever, and nothing is driven again.
LEMMA PanicKeeps == ASSUME ServerInv, Panic PROVE ServerInv'
<1>1. /\ Driving /\ poisoned' = TRUE /\ Release(FALSE)
      /\ UNCHANGED <<checked, turns, mirror, interrupts, request, persisted, seen, denied,
                     overlapped>>
  BY DEF Panic, history
<1>2. Len(mirror) \in Nat /\ Len(jobs) \in Nat
  BY Lengths DEF ServerInv
<1>3. /\ holder' = Free /\ root' = NoTurn
      /\ jobs' \in Seq(Job) /\ Len(jobs') = Len(jobs)
      /\ \A j \in JobId :
           /\ jobs'[j].thread = jobs[j].thread
           /\ jobs'[j].turn = jobs[j].turn
           /\ jobs'[j] = jobs[j] \/ (jobs[j].state # "queued" /\ jobs'[j].state = "over")
      /\ \/ main' = main /\ answer' = answer
         \/ /\ main' = "answering" /\ main = "driving"
            /\ answer' \in Answer
            /\ answer'.kind = "resume" /\ answer'.ok = FALSE
            /\ answer'.upto = IF FALSE THEN Len(mirror') ELSE 0
  BY <1>1, <1>2, ReleaseEffect
<1>4. JobsKept
  BY <1>2, <1>3 DEF JobsKept
<1>5. MirrorKept /\ TurnsKept /\ TurnId' = TurnId
  BY <1>1, NothingTakenBack DEF ServerInv, TurnId
<1>6. JobId' = JobId
  BY <1>3 DEF JobId
<1>7. TypeOK'
  <2>1. holder' \in {Free, Main} \cup JobId' /\ root' \in {NoTurn} \cup TurnId'
    BY <1>3
  <2>2. interrupts' \subseteq TurnId' /\ denied' \subseteq TurnId' /\ overlapped' \subseteq JobId'
    BY <1>1, <1>5, <1>6 DEF ServerInv, TypeOK
  <2>3. /\ main' \in {"idle", "blocked", "driving", "starting", "interrupting", "answering"}
        /\ answer' \in Answer
    BY <1>3 DEF ServerInv, TypeOK
  <2>4. /\ turns' \in Seq(Turn) /\ mirror' \in Seq(Event) /\ request' \in Request
        /\ checked' \in BOOLEAN /\ poisoned' \in BOOLEAN
        /\ persisted' \in 0..Len(mirror') /\ seen' \in 0..Len(mirror')
    BY <1>1 DEF ServerInv, TypeOK
  <2>5. QED BY <1>3, <2>1, <2>2, <2>3, <2>4 DEF TypeOK
<1>8. Shown'
  <2>1. UNCHANGED answer \/ (answer'.upto <= Len(mirror') /\ (~answer'.ok => answer'.upto = 0))
    BY <1>1, <1>2, <1>3
  <2>2. QED BY <1>1, <1>5, <2>1, ShownKept DEF ServerInv
<1>9. Parents'
  BY <1>1, <1>5 DEF ServerInv, Parents
<1>10. Drives'
  <2>1. holder' # Main /\ holder' \notin JobId'
    BY <1>3 DEF Free, Main, JobId
  <2>2. QED BY <1>1, <1>3, <2>1 DEF Drives
<1>11. Serves'
  BY <1>1, <1>3, <1>4, <1>5, ServesKept
<1>12. Noted'
  <2> SUFFICES ASSUME NEW t \in denied
               PROVE  \/ turns[t].status = "aborted"
                      \/ turns[t].status = "waiting" /\ t \in interrupts
                      \/ turns[t].status = "running"
    BY <1>1 DEF Noted
  <2>1. QED BY DEF ServerInv, Noted
<1>13. Starting'
  BY <1>1, <1>3, <1>4, <1>5, StartingKept
<1>14. Named'
  BY <1>1, <1>3, <1>4, NamedKept
<1>15. QED
  BY <1>7, <1>8, <1>9, <1>10, <1>11, <1>12, <1>13, <1>14 DEF ServerInv

\* A turn and the event of its start are added.
LEMMA TurnStarted ==
  ASSUME TypeOK, NEW thread \in Threads, NEW parent \in Nat,
         turns' = Append(turns, [thread |-> thread, parent |-> parent, status |-> "running"]),
         mirror' = Append(mirror, [thread |-> thread, turn |-> Len(turns) + 1,
                                   kind |-> "started"])
  PROVE  /\ turns' \in Seq(Turn) /\ Len(turns') = Len(turns) + 1
         /\ turns'[Len(turns) + 1].parent = parent
         /\ turns'[Len(turns) + 1].status = "running"
         /\ \A u \in TurnId : turns'[u] = turns[u]
         /\ mirror' \in Seq(Event) /\ Len(mirror') = Len(mirror) + 1
         /\ mirror'[Len(mirror) + 1] =
              [thread |-> thread, turn |-> Len(turns) + 1, kind |-> "started"]
         /\ MirrorKept /\ TurnsKept
<1> DEFINE turn == [thread |-> thread, parent |-> parent, status |-> "running"]
           event == [thread |-> thread, turn |-> Len(turns) + 1, kind |-> "started"]
<1>1. Len(turns) \in Nat /\ Len(mirror) \in Nat
  BY Lengths
<1>2. turns \in Seq(Turn) /\ mirror \in Seq(Event)
  BY DEF TypeOK
<1>3. turn \in Turn /\ turn.parent = parent /\ turn.status = "running"
  BY DEF Turn, TurnStatus
<1>4. event \in Event
  BY <1>1 DEF Event
<1>5. turns' = Append(turns, turn) /\ mirror' = Append(mirror, event)
  OBVIOUS
<1>6. event = [thread |-> thread, turn |-> Len(turns) + 1, kind |-> "started"]
  OBVIOUS
<1> HIDE DEF turn, event
<1>7. /\ turns' \in Seq(Turn) /\ Len(turns') = Len(turns) + 1
      /\ turns'[Len(turns) + 1] = turn
      /\ \A u \in TurnId : turns'[u] = turns[u]
  BY <1>2, <1>3, <1>5, Appended DEF TurnId
<1>8. /\ mirror' \in Seq(Event) /\ Len(mirror') = Len(mirror) + 1
      /\ mirror'[Len(mirror) + 1] = event
      /\ \A i \in 1..Len(mirror) : mirror'[i] = mirror[i]
  BY <1>2, <1>4, <1>5, Appended
<1>9. MirrorKept /\ TurnsKept
  BY <1>1, <1>7, <1>8 DEF MirrorKept, TurnsKept
<1>10. QED BY <1>3, <1>6, <1>7, <1>8, <1>9

LEMMA StartSubagentTurnKeeps == ASSUME ServerInv, StartSubagentTurn PROVE ServerInv'
<1> DEFINE new == Len(turns) + 1
<1>1. /\ Driving /\ checked /\ AtWork = root /\ checked' = FALSE
      /\ turns' = Append(turns, [thread |-> turns[root].thread, parent |-> root,
                                 status |-> "running"])
      /\ mirror' = Append(mirror, [thread |-> turns[root].thread, turn |-> new,
                                   kind |-> "started"])
      /\ UNCHANGED <<holder, poisoned, root, jobs, interrupts, main, request, answer,
                     persisted, seen, denied, overlapped>>
  BY DEF StartSubagentTurn, mainVars, history
<1>2. root \in TurnId /\ turns[root].status = "running" /\ holder # Free /\ ~poisoned
  BY <1>1, AtWorkRuns
<1>3. Len(turns) \in Nat /\ Len(mirror) \in Nat
  BY Lengths DEF ServerInv
<1>4. root \in Nat /\ root < new /\ turns[root].thread \in Threads
  <2>1. turns[root] \in Turn
    BY <1>2 DEF ServerInv, TypeOK, TurnId
  <2>2. QED BY <1>2, <1>3, <2>1 DEF Turn, TurnId
<1>5. /\ turns' \in Seq(Turn) /\ Len(turns') = new
      /\ turns'[new].parent = root /\ turns'[new].status = "running"
      /\ \A u \in TurnId : turns'[u] = turns[u]
      /\ mirror' \in Seq(Event) /\ Len(mirror') = Len(mirror) + 1
      /\ MirrorKept /\ TurnsKept
  BY <1>1, <1>4, TurnStarted DEF ServerInv
<1>6. JobsKept /\ JobId' = JobId
  BY <1>1, NothingTakenBack DEF ServerInv, JobId
<1> HIDE DEF new
<1>7. TurnId' = TurnId \cup {new}
  BY <1>3, <1>5 DEF TurnId, new
<1>8. TypeOK'
  <2>1. /\ holder' \in {Free, Main} \cup JobId' /\ root' \in {NoTurn} \cup TurnId'
        /\ interrupts' \subseteq TurnId' /\ denied' \subseteq TurnId'
        /\ overlapped' \subseteq JobId'
    BY <1>1, <1>6, <1>7 DEF ServerInv, TypeOK
  <2>2. persisted' \in 0..Len(mirror') /\ seen' \in 0..Len(mirror')
    BY <1>1, <1>3, <1>5 DEF ServerInv, TypeOK
  <2>3. /\ jobs' \in Seq(Job) /\ request' \in Request /\ answer' \in Answer
        /\ main' \in {"idle", "blocked", "driving", "starting", "interrupting", "answering"}
        /\ poisoned' \in BOOLEAN /\ checked' \in BOOLEAN
    BY <1>1 DEF ServerInv, TypeOK
  <2>4. QED BY <1>5, <2>1, <2>2, <2>3 DEF TypeOK
<1>9. Shown'
  BY <1>1, <1>5, ShownKept DEF ServerInv
<1>10. Parents'
  BY <1>4, <1>5, <1>7 DEF ServerInv, Parents
<1>11. Drives'
  <2>1. /\ (holder' = Free <=> root' = NoTurn)
        /\ (holder' = Main => main' = "driving")
        /\ (holder' \in JobId' => jobs'[holder'].state = "driving")
        /\ ~poisoned'
    BY <1>1, <1>2, <1>6 DEF ServerInv, Drives
  <2>2. root' # NoTurn => turns'[root'].status = "running"
    BY <1>1, <1>2, <1>5
  <2>3. \A u \in TurnId' :
          turns'[u].status = "running" => root' # NoTurn /\ (u = root' \/ turns'[u].parent = root')
    BY <1>1, <1>2, <1>5, <1>7 DEF ServerInv, Drives, Driving
  <2>4. QED BY <2>1, <2>2, <2>3 DEF Drives
<1>12. Serves'
  BY <1>1, <1>5, <1>6, ServesKept
<1>13. Noted'
  <2> SUFFICES ASSUME NEW t \in denied
               PROVE  \/ turns'[t].status = "aborted"
                      \/ turns'[t].status = "waiting" /\ t \in interrupts'
    BY <1>1 DEF Noted
  <2>1. turns'[t] = turns[t]
    BY <1>5 DEF ServerInv, TypeOK
  <2>2. QED BY <1>1, <1>2, <2>1 DEF ServerInv, Noted
<1>14. Starting'
  BY <1>1, <1>5, <1>6, StartingKept
<1>15. Named'
  BY <1>1, <1>6, NamedKept
<1>16. QED
  BY <1>8, <1>9, <1>10, <1>11, <1>12, <1>13, <1>14, <1>15 DEF ServerInv

\* A background thread starts its turn.  If the main loop waits for a start then,
\* and no turn was under way, this is the start it waits for.
LEMMA JobStarts ==
  ASSUME ServerInv, NEW j \in JobId, JobTakesLock(j), ~poisoned
  PROVE  ServerInv'
<1> DEFINE new == Len(turns) + 1
<1>1. /\ jobs[j].state = "queued" /\ holder = Free
      /\ holder' = j /\ root' = new /\ checked' = FALSE
      /\ jobs' = [jobs EXCEPT ![j].state = "driving", ![j].turn = new]
      /\ turns' = Append(turns, [thread |-> jobs[j].thread, parent |-> NoTurn,
                                 status |-> "running"])
      /\ mirror' = Append(mirror, [thread |-> jobs[j].thread, turn |-> new,
                                   kind |-> "started"])
      /\ UNCHANGED <<poisoned, interrupts, main, request, answer, persisted, seen, denied,
                     overlapped>>
  BY DEF JobTakesLock, mainVars, history
<1>2. Len(turns) \in Nat /\ Len(mirror) \in Nat /\ Len(jobs) \in Nat
  BY Lengths DEF ServerInv
<1>3. jobs \in Seq(Job) /\ jobs[j].thread \in Threads /\ NoTurn \in Nat /\ new \in Nat
  <2>1. jobs \in Seq(Job) /\ jobs[j] \in Job
    BY DEF ServerInv, TypeOK, JobId
  <2>2. QED BY <1>2, <2>1 DEF Job, NoTurn
<1>4. /\ turns' \in Seq(Turn) /\ Len(turns') = new
      /\ turns'[new].parent = NoTurn /\ turns'[new].status = "running"
      /\ \A u \in TurnId : turns'[u] = turns[u]
      /\ mirror' \in Seq(Event) /\ Len(mirror') = Len(mirror) + 1
      /\ mirror'[Len(mirror) + 1] = [thread |-> jobs[j].thread, turn |-> new, kind |-> "started"]
      /\ MirrorKept /\ TurnsKept
  BY <1>1, <1>3, TurnStarted DEF ServerInv
<1> HIDE DEF new
<1>5. /\ jobs' \in Seq(Job) /\ Len(jobs') = Len(jobs)
      /\ jobs'[j].state = "driving" /\ jobs'[j].turn = new
      /\ \A k \in JobId : jobs'[k].thread = jobs[k].thread
      /\ \A k \in JobId : k # j => jobs'[k] = jobs[k]
  <2>1. jobs' = [jobs EXCEPT ![j] = [thread |-> jobs[j].thread, state |-> "driving",
                                     turn |-> new]]
    <3> DEFINE e == [thread |-> jobs[j].thread, state |-> "driving", turn |-> jobs[j].turn]
               q == [jobs EXCEPT ![j] = e]
    <3>1. [jobs EXCEPT ![j].state = "driving"] = q
      BY <1>3, JobStateWritten
    <3>2. jobs' = [[jobs EXCEPT ![j].state = "driving"] EXCEPT ![j].turn = new]
      BY <1>1
    <3>3. q[j] = e
      BY <1>3 DEF JobId
    <3>4. [q EXCEPT ![j].turn = new] = [q EXCEPT ![j] = [e EXCEPT !.turn = new]]
      BY <3>3
    <3>5. [e EXCEPT !.turn = new] =
            [thread |-> jobs[j].thread, state |-> "driving", turn |-> new]
      OBVIOUS
    <3>6. [q EXCEPT ![j] = [thread |-> jobs[j].thread, state |-> "driving", turn |-> new]] =
            [jobs EXCEPT ![j] = [thread |-> jobs[j].thread, state |-> "driving", turn |-> new]]
      OBVIOUS
    <3>7. QED BY <3>1, <3>2, <3>4, <3>5, <3>6
  <2>2. "driving" \in {"queued", "driving", "over", "failed"}
    OBVIOUS
  <2>3. QED BY <1>3, <2>1, <2>2, JobWritten
<1>6. JobsKept /\ JobId' = JobId
  BY <1>1, <1>2, <1>5 DEF JobsKept, JobId
<1>7. TurnId' = TurnId \cup {new} /\ new # NoTurn /\ j # Free /\ j # Main
  BY <1>2, <1>4 DEF TurnId, new, NoTurn, JobId, Free, Main
<1>8. root = NoTurn /\ \A u \in TurnId : turns[u].status # "running"
  BY <1>1 DEF ServerInv, Drives
<1>9. TypeOK'
  <2>1. /\ holder' \in {Free, Main} \cup JobId' /\ root' \in {NoTurn} \cup TurnId'
        /\ interrupts' \subseteq TurnId' /\ denied' \subseteq TurnId'
        /\ overlapped' \subseteq JobId'
    BY <1>1, <1>6, <1>7 DEF ServerInv, TypeOK
  <2>2. persisted' \in 0..Len(mirror') /\ seen' \in 0..Len(mirror')
    BY <1>1, <1>2, <1>4 DEF ServerInv, TypeOK
  <2>3. /\ request' \in Request /\ answer' \in Answer
        /\ main' \in {"idle", "blocked", "driving", "starting", "interrupting", "answering"}
        /\ poisoned' \in BOOLEAN /\ checked' \in BOOLEAN
    BY <1>1 DEF ServerInv, TypeOK
  <2>4. QED BY <1>4, <1>5, <2>1, <2>2, <2>3 DEF TypeOK
<1>10. Shown'
  BY <1>1, <1>4, ShownKept DEF ServerInv
<1>11. Parents'
  <2>1. NoTurn < new
    BY <1>2 DEF NoTurn, new
  <2>2. QED BY <1>4, <1>7, <2>1 DEF ServerInv, Parents
<1>12. Drives'
  <2>1. \A u \in TurnId' : turns'[u].status = "running" => u = root'
    BY <1>1, <1>4, <1>7, <1>8
  <2>2. QED BY <1>1, <1>4, <1>5, <1>7, <2>1 DEF Drives
<1>13. Serves'
  BY <1>1, <1>4, <1>6, ServesKept
<1>14. Noted'
  <2> SUFFICES ASSUME NEW t \in denied
               PROVE  \/ turns'[t].status = "aborted"
                      \/ turns'[t].status = "waiting" /\ t \in interrupts'
    BY <1>1 DEF Noted
  <2>1. t \in TurnId /\ turns'[t] = turns[t]
    BY <1>4 DEF ServerInv, TypeOK
  <2>2. QED BY <1>1, <1>8, <2>1 DEF ServerInv, Noted
<1>15. Starting'
  <2> SUFFICES ASSUME main = "starting", request.job \notin overlapped
               PROVE  Awaited'
    BY <1>1 DEF Starting
  <2>1. /\ Awaited /\ request.job \in JobId /\ request.after \in Nat
        /\ jobs[request.job].thread = request.thread
    BY DEF ServerInv, Starting, Serves, TypeOK, Request
  <2>2. CASE jobs[request.job].state # "queued" /\ Len(mirror) > request.after
    <3>1. mirror[request.after + 1] =
            [thread |-> request.thread, turn |-> jobs[request.job].turn, kind |-> "started"]
          \/ Len(mirror) = request.after
      BY <2>1 DEF Awaited
    <3>2. request.after + 1 \in 1..Len(mirror)
      BY <1>2, <2>1, <2>2
    <3>3. mirror'[request.after + 1] =
            [thread |-> request.thread, turn |-> jobs'[request.job].turn, kind |-> "started"]
      <4>1. mirror'[request.after + 1] = mirror[request.after + 1]
        BY <1>4, <3>2 DEF MirrorKept
      <4>2. jobs'[request.job].turn = jobs[request.job].turn
        BY <1>6, <2>1, <2>2 DEF JobsKept
      <4>3. mirror[request.after + 1] =
              [thread |-> request.thread, turn |-> jobs[request.job].turn, kind |-> "started"]
        BY <1>2, <2>1, <2>2, <3>1
      <4>4. QED BY <4>1, <4>2, <4>3
    <3>4. jobs'[request.job].state # "queued" /\ Len(mirror') > request.after
      BY <1>2, <1>4, <1>6, <2>1, <2>2 DEF JobsKept
    <3>5. QED BY <1>1, <3>3, <3>4 DEF Awaited
  <2>3. CASE ~(jobs[request.job].state # "queued" /\ Len(mirror) > request.after)
    <3>1. /\ Len(mirror) = request.after
          /\ \A k \in JobId \ {request.job} : jobs[k].state # "queued"
      BY <2>1, <2>3 DEF Awaited
    <3>2. j = request.job
      BY <1>1, <3>1
    <3>3. QED BY <1>1, <1>2, <1>4, <1>5, <2>1, <3>1, <3>2 DEF Awaited
  <2>4. QED BY <2>2, <2>3
<1>16. Named'
  BY <1>1, <1>6, NamedKept
<1>17. QED
  BY <1>9, <1>10, <1>11, <1>12, <1>13, <1>14, <1>15, <1>16 DEF ServerInv

\* ... or dies of a poisoned mutex.
LEMMA JobFails ==
  ASSUME ServerInv, NEW j \in JobId, JobTakesLock(j), poisoned
  PROVE  ServerInv'
<1>1. /\ jobs[j].state = "queued" /\ holder = Free
      /\ jobs' = [jobs EXCEPT ![j].state = "failed"]
      /\ UNCHANGED <<holder, poisoned, root, checked, turns, mirror, interrupts, main, request,
                     answer, persisted, seen, denied, overlapped>>
  BY DEF JobTakesLock, mainVars, history
<1>2. jobs \in Seq(Job) /\ jobs[j].turn \in Nat /\ Len(jobs) \in Nat
  <2>1. jobs \in Seq(Job) /\ jobs[j] \in Job
    BY DEF ServerInv, TypeOK, JobId
  <2>2. QED BY <2>1 DEF Job
<1>3. /\ jobs' \in Seq(Job) /\ Len(jobs') = Len(jobs)
      /\ jobs'[j].state = "failed"
      /\ \A k \in JobId : jobs'[k].thread = jobs[k].thread
      /\ \A k \in JobId : k # j => jobs'[k] = jobs[k]
  <2>1. jobs' = [jobs EXCEPT ![j] = [thread |-> jobs[j].thread, state |-> "failed",
                                     turn |-> jobs[j].turn]]
    BY <1>1, <1>2, JobStateWritten
  <2>2. "failed" \in {"queued", "driving", "over", "failed"}
    OBVIOUS
  <2>3. QED BY <1>2, <2>1, <2>2, JobWritten
<1>4. JobsKept /\ JobId' = JobId
  BY <1>1, <1>2, <1>3 DEF JobsKept, JobId
<1>5. MirrorKept /\ TurnsKept /\ TurnId' = TurnId /\ root = NoTurn
  BY <1>1, NothingTakenBack DEF ServerInv, Drives, TurnId
<1>6. TypeOK'
  <2>1. /\ holder' \in {Free, Main} \cup JobId' /\ root' \in {NoTurn} \cup TurnId'
        /\ interrupts' \subseteq TurnId' /\ denied' \subseteq TurnId'
        /\ overlapped' \subseteq JobId'
    BY <1>1, <1>4, <1>5 DEF ServerInv, TypeOK
  <2>2. /\ request' \in Request /\ answer' \in Answer
        /\ turns' \in Seq(Turn) /\ mirror' \in Seq(Event)
        /\ persisted' \in 0..Len(mirror') /\ seen' \in 0..Len(mirror')
        /\ main' \in {"idle", "blocked", "driving", "starting", "interrupting", "answering"}
        /\ poisoned' \in BOOLEAN /\ checked' \in BOOLEAN
    BY <1>1 DEF ServerInv, TypeOK
  <2>3. QED BY <1>3, <2>1, <2>2 DEF TypeOK
<1>7. Shown' /\ Parents'
  BY <1>1, <1>5 DEF ServerInv, Shown, Parents
<1>8. Drives'
  <2>1. holder' \notin JobId'
    BY <1>1, <1>4 DEF Free, JobId
  <2>2. QED BY <1>1, <1>5, <2>1 DEF ServerInv, Drives
<1>9. Serves'
  BY <1>1, <1>4, <1>5, ServesKept
<1>10. Noted'
  BY <1>1, <1>5 DEF ServerInv, Noted
<1>11. Starting'
  <2> SUFFICES ASSUME main = "starting", request.job \notin overlapped
               PROVE  Awaited'
    BY <1>1 DEF Starting
  <2>1. Awaited /\ request.job \in JobId
    BY DEF ServerInv, Starting, Serves
  <2>2. CASE jobs[request.job].state = "queued"
    <3>1. /\ Len(mirror) = request.after
          /\ \A k \in JobId \ {request.job} : jobs[k].state # "queued"
      BY <2>1, <2>2 DEF Awaited
    <3>2. j = request.job
      BY <1>1, <3>1
    <3>3. QED BY <1>1, <1>3, <1>4, <1>5, <3>1, <3>2 DEF Awaited
  <2>3. CASE jobs[request.job].state # "queued"
    <3>1. request.job # j
      BY <1>1, <2>3
    <3>2. jobs'[request.job] = jobs[request.job]
      BY <1>3, <2>1, <3>1
    <3>3. \A k \in JobId : jobs[k].state # "queued" => jobs'[k].state # "queued"
      BY <1>4 DEF JobsKept
    <3>4. QED BY <1>1, <1>4, <2>1, <3>2, <3>3 DEF Awaited
  <2>4. QED BY <2>2, <2>3
<1>12. Named'
  BY <1>1, <1>4, NamedKept
<1>13. QED
  BY <1>6, <1>7, <1>8, <1>9, <1>10, <1>11, <1>12 DEF ServerInv

LEMMA JobTakesLockKeeps ==
  ASSUME ServerInv, NEW j \in JobId, JobTakesLock(j)
  PROVE  ServerInv'
BY JobStarts, JobFails

-----------------------------------------------------------------------------
(* The steps of the main loop.                                             *)

\* A step in which only the main loop, its request and its answer change.
LEMMA OnlyMainMoves ==
  ASSUME ServerInv, UNCHANGED <<driveVars, jobs, turns, mirror, interrupts, persisted, seen>>,
         UNCHANGED history, main # "driving",
         main' \in {"blocked", "starting", "interrupting", "answering"},
         request' \in Request, answer' \in Answer,
         \/ UNCHANGED answer
         \/ answer'.upto <= Len(mirror') /\ (~answer'.ok => answer'.upto = 0)
  PROVE  /\ TypeOK' /\ Shown' /\ Parents' /\ Drives' /\ Noted'
         /\ MirrorKept /\ JobsKept /\ TurnsKept
<1>1. UNCHANGED <<holder, poisoned, root, checked, jobs, turns, mirror, interrupts,
                  persisted, seen, denied, overlapped>>
  BY DEF driveVars, history
<1>2. MirrorKept /\ JobsKept /\ TurnsKept /\ TurnId' = TurnId /\ JobId' = JobId
  BY <1>1, NothingTakenBack DEF ServerInv, TurnId, JobId
<1>3. TypeOK'
  BY <1>1, <1>2 DEF ServerInv, TypeOK
<1>4. Shown'
  BY <1>1, <1>2, ShownKept DEF ServerInv
<1>5. Parents' /\ Noted'
  BY <1>1, <1>2 DEF ServerInv, Parents, Noted
<1>6. Drives'
  BY <1>1, <1>2 DEF ServerInv, Drives
<1>7. QED BY <1>2, <1>3, <1>4, <1>5, <1>6

\* What Say makes is an answer that reaches no further than the mirror.
LEMMA SaidIsAnswer ==
  ASSUME TypeOK, NEW req \in Request, NEW ok \in BOOLEAN, NEW turn \in Nat,
         NEW upto \in Nat, upto <= Len(mirror), UNCHANGED mirror, Say(req, ok, turn, upto)
  PROVE  /\ main' = "answering" /\ answer' \in Answer
         /\ answer'.upto <= Len(mirror') /\ (~answer'.ok => answer'.upto = 0)
         /\ answer'.kind = req.kind /\ answer'.turn = turn /\ answer'.job = req.job
         /\ answer'.ok = ok
<1> DEFINE reach == IF ok THEN upto ELSE 0
<1>1. Len(mirror) \in Nat /\ req.kind \in Kind /\ req.job \in Nat
  BY Lengths DEF Request
<1>2. reach \in Nat /\ reach <= Len(mirror) /\ (~ok => reach = 0)
  BY <1>1
<1>3. /\ main' = "answering"
      /\ answer' = [kind |-> req.kind, ok |-> ok, turn |-> turn, job |-> req.job,
                    upto |-> reach]
  BY DEF Say
<1> HIDE DEF reach
<1>4. answer' \in Answer
  BY <1>1, <1>2, <1>3 DEF Answer
<1>5. /\ answer'.upto = reach /\ answer'.ok = ok /\ answer'.kind = req.kind
      /\ answer'.turn = turn /\ answer'.job = req.job
  BY <1>3
<1>6. answer'.upto <= Len(mirror') /\ (~answer'.ok => answer'.upto = 0)
  BY <1>2, <1>5
<1>7. QED BY <1>3, <1>4, <1>5, <1>6

LEMMA ReceivedIsRequest ==
  ASSUME TypeOK, NEW kind \in Kind, NEW thread \in Threads, NEW turn \in Nat, NEW job \in Nat,
         Receive(kind, thread, turn, job)
  PROVE  /\ main = "idle" /\ request' \in Request
         /\ request'.kind = kind /\ request'.thread = thread /\ request'.turn = turn
         /\ request'.job = job /\ request'.after = Len(mirror)
<1>1. Len(mirror) \in Nat
  BY Lengths
<1>2. QED BY <1>1 DEF Receive, Request

\* An answer of another kind than turn/run-agentic ends the request.
LEMMA AnsweredOtherwise ==
  ASSUME ServerInv, UNCHANGED <<driveVars, jobs, turns, mirror, interrupts, persisted, seen>>,
         UNCHANGED history, main # "driving", main' = "answering",
         request' \in Request, answer' \in Answer,
         answer'.upto <= Len(mirror'), ~answer'.ok => answer'.upto = 0,
         answer'.kind # "run" \/ ~answer'.ok
  PROVE  ServerInv'
<1>1. /\ TypeOK' /\ Shown' /\ Parents' /\ Drives' /\ Noted'
      /\ MirrorKept /\ JobsKept /\ TurnsKept
  BY OnlyMainMoves
<1>2. Serves'
  BY <1>1, ServesKept
<1>3. Starting'
  BY DEF Starting
<1>4. Named'
  BY <1>1, NamedKept DEF history
<1>5. QED BY <1>1, <1>2, <1>3, <1>4 DEF ServerInv

LEMMA ListEventsKeeps ==
  ASSUME ServerInv, NEW thread \in Threads, ListEvents(thread)
  PROVE  ServerInv'
<1> DEFINE ok == ~(holder = Free /\ poisoned)
<1>1. /\ Receive("list", thread, NoTurn, NoJob) /\ Say(request', ok, NoTurn, Len(mirror))
      /\ UNCHANGED <<driveVars, jobs, turns, mirror, interrupts, persisted, seen, history>>
  BY DEF ListEvents
<1>2. ok \in BOOLEAN /\ Len(mirror) \in Nat /\ NoTurn \in Nat /\ NoJob \in Nat /\ "list" \in Kind
  BY Lengths DEF ServerInv, NoTurn, NoJob, Kind
<1> HIDE DEF ok
<1>3. main = "idle" /\ request' \in Request /\ request'.kind = "list"
  BY <1>1, <1>2, ReceivedIsRequest DEF ServerInv
<1>4. /\ main' = "answering" /\ answer' \in Answer
      /\ answer'.upto <= Len(mirror') /\ (~answer'.ok => answer'.upto = 0)
      /\ answer'.kind = "list"
  BY <1>1, <1>2, <1>3, SaidIsAnswer DEF ServerInv
<1>5. QED BY <1>1, <1>3, <1>4, AnsweredOtherwise

LEMMA AnswerInterruptKeeps == ASSUME ServerInv, AnswerInterrupt PROVE ServerInv'
<1> DEFINE ok == TRUE
<1>1. /\ main = "interrupting" /\ Say(request, ok, request.turn, Len(mirror))
      /\ UNCHANGED <<driveVars, jobs, turns, mirror, interrupts, request, persisted, seen,
                     history>>
  BY DEF AnswerInterrupt
<1>2. /\ ok \in BOOLEAN /\ Len(mirror) \in Nat /\ request \in Request /\ request.turn \in Nat
      /\ request.kind = "interrupt"
  <2>1. ok \in BOOLEAN /\ Len(mirror) \in Nat
    BY Lengths DEF ServerInv
  <2>2. QED BY <1>1, <2>1 DEF ServerInv, TypeOK, Request, Serves
<1> HIDE DEF ok
<1>3. /\ main' = "answering" /\ answer' \in Answer
      /\ answer'.upto <= Len(mirror') /\ (~answer'.ok => answer'.upto = 0)
      /\ answer'.kind = "interrupt"
  BY <1>1, <1>2, SaidIsAnswer DEF ServerInv
<1>4. QED BY <1>1, <1>2, <1>3, AnsweredOtherwise

LEMMA SteerKeeps == ASSUME ServerInv, Steer PROVE ServerInv'
<1> DEFINE ok == ~poisoned /\ turns[request.turn].status \notin Ended
<1>1. /\ main = "blocked" /\ request.kind = "steer"
      /\ Say(request, ok, request.turn, Len(mirror))
      /\ UNCHANGED <<driveVars, jobs, turns, mirror, interrupts, request, persisted, seen,
                     history>>
  BY DEF Steer
<1>2. ok \in BOOLEAN /\ Len(mirror) \in Nat /\ request \in Request /\ request.turn \in Nat
  <2>1. Len(mirror) \in Nat /\ ok \in BOOLEAN
    BY Lengths DEF ServerInv
  <2>2. request \in Request /\ request.turn \in Nat
    BY DEF ServerInv, TypeOK, Request
  <2>3. QED BY <2>1, <2>2
<1> HIDE DEF ok
<1>3. /\ main' = "answering" /\ answer' \in Answer
      /\ answer'.upto <= Len(mirror') /\ (~answer'.ok => answer'.upto = 0)
      /\ answer'.kind = "steer"
  BY <1>1, <1>2, SaidIsAnswer DEF ServerInv
<1>4. QED BY <1>1, <1>2, <1>3, AnsweredOtherwise

LEMMA AskForLockKeeps ==
  ASSUME ServerInv, NEW kind, NEW t \in TurnId, AskForLock(kind, t)
  PROVE  ServerInv'
<1>1. /\ kind \in Kind /\ Receive(kind, turns[t].thread, t, NoJob) /\ main' = "blocked"
      /\ UNCHANGED <<driveVars, jobs, turns, mirror, interrupts, answer, persisted, seen,
                     history>>
  BY DEF AskForLock, Kind
<1>2. turns[t].thread \in Threads /\ t \in Nat /\ NoJob \in Nat
  <2>1. turns[t] \in Turn
    BY DEF ServerInv, TypeOK, TurnId
  <2>2. QED BY <2>1 DEF Turn, TurnId, NoJob
<1>3. main = "idle" /\ request' \in Request /\ request'.turn = t
  BY <1>1, <1>2, ReceivedIsRequest DEF ServerInv
<1>4. answer' \in Answer
  BY <1>1 DEF ServerInv, TypeOK
<1>5. /\ TypeOK' /\ Shown' /\ Parents' /\ Drives' /\ Noted'
      /\ MirrorKept /\ JobsKept /\ TurnsKept
  BY <1>1, <1>3, <1>4, OnlyMainMoves
<1>6. Serves' /\ Starting'
  BY <1>1, <1>3 DEF Serves, Starting, TurnId
<1>7. Named'
  BY <1>1, <1>5, NamedKept DEF history
<1>8. QED BY <1>5, <1>6, <1>7 DEF ServerInv

LEMMA AskToRegisterKeeps ==
  ASSUME ServerInv, NEW thread \in Threads, AskToRegister(thread)
  PROVE  ServerInv'
<1>1. /\ Receive("register", thread, NoTurn, NoJob) /\ main' = "blocked"
      /\ UNCHANGED <<driveVars, jobs, turns, mirror, interrupts, answer, persisted, seen,
                     history>>
  BY DEF AskToRegister
<1>2. NoTurn \in Nat /\ NoJob \in Nat /\ "register" \in Kind
  BY DEF NoTurn, NoJob, Kind
<1>3. main = "idle" /\ request' \in Request /\ request'.kind = "register"
  BY <1>1, <1>2, ReceivedIsRequest DEF ServerInv
<1>4. answer' \in Answer
  BY <1>1 DEF ServerInv, TypeOK
<1>5. /\ TypeOK' /\ Shown' /\ Parents' /\ Drives' /\ Noted'
      /\ MirrorKept /\ JobsKept /\ TurnsKept
  BY <1>1, <1>3, <1>4, OnlyMainMoves
<1>6. Serves' /\ Starting'
  BY <1>1, <1>3 DEF Serves, Starting
<1>7. Named'
  BY <1>1, <1>5, NamedKept DEF history
<1>8. QED BY <1>5, <1>6, <1>7 DEF ServerInv

LEMMA RegisterKeeps == ASSUME ServerInv, Register PROVE ServerInv'
<1> DEFINE ok == ~poisoned
<1>1. /\ main = "blocked" /\ request.kind = "register" /\ Say(request, ok, NoTurn, 0)
      /\ UNCHANGED <<driveVars, jobs, turns, mirror, interrupts, request, persisted, seen,
                     history>>
  BY DEF Register
<1>2. /\ ok \in BOOLEAN /\ Len(mirror) \in Nat /\ request \in Request
      /\ NoTurn \in Nat /\ 0 \in Nat /\ 0 <= Len(mirror)
  BY Lengths DEF ServerInv, TypeOK, NoTurn
<1> HIDE DEF ok
<1>3. /\ main' = "answering" /\ answer' \in Answer
      /\ answer'.upto <= Len(mirror') /\ (~answer'.ok => answer'.upto = 0)
      /\ answer'.kind = "register"
  BY <1>1, <1>2, SaidIsAnswer DEF ServerInv
<1>4. QED BY <1>1, <1>2, <1>3, AnsweredOtherwise

LEMMA GiveAnswerKeeps == ASSUME ServerInv, GiveAnswer PROVE ServerInv'
<1>1. /\ main' = "idle"
      /\ persisted' = IF answer.ok THEN Len(mirror) ELSE persisted
      /\ seen' = IF answer.upto > seen THEN answer.upto ELSE seen
      /\ request' = NoRequest /\ answer' = NoAnswer /\ main = "answering"
      /\ UNCHANGED <<holder, poisoned, root, checked, jobs, turns, mirror, interrupts, denied,
                     overlapped>>
  BY DEF GiveAnswer, driveVars, history
<1>2. /\ Len(mirror) \in Nat /\ persisted \in 0..Len(mirror) /\ seen \in 0..Len(mirror)
      /\ answer.ok \in BOOLEAN /\ answer.upto \in Nat
  <2>1. Len(mirror) \in Nat
    BY Lengths DEF ServerInv
  <2>2. QED BY <2>1 DEF ServerInv, TypeOK, Answer
<1>3. MirrorKept /\ JobsKept /\ TurnsKept /\ TurnId' = TurnId /\ JobId' = JobId
  BY <1>1, NothingTakenBack DEF ServerInv, TurnId, JobId
<1>4. /\ persisted' \in 0..Len(mirror') /\ seen' \in 0..Len(mirror') /\ seen' <= persisted'
  <2>1. answer.upto <= Len(mirror) /\ seen <= persisted /\ (~answer.ok => answer.upto = 0)
    BY DEF ServerInv, Shown
  <2>2. CASE answer.ok
    BY <1>1, <1>2, <2>1, <2>2
  <2>3. CASE ~answer.ok
    BY <1>1, <1>2, <2>1, <2>3
  <2>4. QED BY <2>2, <2>3
<1>5. TypeOK'
  <2>1. request' \in Request /\ answer' \in Answer
    BY <1>1, NoRequestIsRequest, NoAnswerIsAnswer
  <2>2. QED BY <1>1, <1>3, <1>4, <2>1 DEF ServerInv, TypeOK
<1>6. Shown'
  BY <1>1, <1>2, <1>4, NoAnswerIsAnswer DEF Shown
<1>7. Parents' /\ Noted'
  BY <1>1, <1>3 DEF ServerInv, Parents, Noted
<1>8. Drives'
  BY <1>1, <1>3 DEF ServerInv, Drives
<1>9. Serves' /\ Starting'
  BY <1>1 DEF Serves, Starting
<1>10. Named'
  BY <1>1, NoAnswerIsAnswer DEF Named
<1>11. QED BY <1>5, <1>6, <1>7, <1>8, <1>9, <1>10 DEF ServerInv

LEMMA LeastOfNaturals ==
  ASSUME NEW S, S \subseteq Nat, S # {}
  PROVE  \E i \in S : \A k \in S : i <= k
<1> DEFINE Less == {pair \in Nat \X Nat : pair[1] < pair[2]}
<1>1. IsWellFoundedOn(Less, Nat)
  BY NatLessThanWellFounded DEF OpToRel
<1>2. \A i, k \in Nat : <<k, i>> \notin Less => i <= k
  OBVIOUS
<1> HIDE DEF Less
<1>3. \E i \in S : \A k \in S : <<k, i>> \notin Less
  BY <1>1, WFMin, Zenon
<1>4. QED BY <1>2, <1>3

\* A turn that is found is the one of the first event after the request: Awaited
\* has it be the turn the request started.
LEMMA AnswerStartKeeps == ASSUME ServerInv, AnswerStart PROVE ServerInv'
<1> DEFINE found == StartsAfter(request.thread, request.after)
           first == CHOOSE i \in found : \A k \in found : i <= k
<1>1. /\ main = "starting"
      /\ UNCHANGED <<driveVars, jobs, turns, mirror, interrupts, request, persisted, seen,
                     history>>
  BY DEF AnswerStart
<1>2. /\ Len(mirror) \in Nat /\ Len(jobs) \in Nat /\ NoTurn \in Nat
      /\ 0 \in Nat /\ 0 <= Len(mirror) /\ Len(mirror) <= Len(mirror)
  BY Lengths DEF ServerInv, NoTurn
<1>3. /\ request \in Request /\ request.after \in Nat /\ request.job \in JobId
      /\ mirror \in Seq(Event) /\ request' \in Request
  BY <1>1 DEF ServerInv, TypeOK, Request, Serves
<1>4. TRUE \in BOOLEAN /\ FALSE \in BOOLEAN
  OBVIOUS
<1>5. CASE found = {}
  <2> DEFINE ok == FALSE
  <2>1. Say(request, ok, NoTurn, 0) /\ ok \in BOOLEAN /\ ~ok
    BY <1>5 DEF AnswerStart
  <2> HIDE DEF ok
  <2>2. /\ main' = "answering" /\ answer' \in Answer
        /\ answer'.upto <= Len(mirror') /\ (~answer'.ok => answer'.upto = 0)
        /\ ~answer'.ok
    BY <1>1, <1>2, <1>3, <2>1, SaidIsAnswer DEF ServerInv
  <2>3. QED BY <1>1, <1>3, <2>2, AnsweredOtherwise
<1>6. CASE found # {}
  <2> DEFINE ok == TRUE
             turn == mirror[first].turn
  <2>1. Say(request, ok, turn, Len(mirror)) /\ ok \in BOOLEAN /\ ok
    BY <1>6 DEF AnswerStart
  <2>2. /\ first \in found /\ \A k \in found : first <= k
        /\ first \in (request.after + 1)..Len(mirror)
    <3>1. found \subseteq (request.after + 1)..Len(mirror)
      BY DEF StartsAfter
    <3>2. found \subseteq Nat
      BY <1>3, <3>1
    <3> HIDE DEF found
    <3>3. \E i \in found : \A k \in found : i <= k
      BY <1>6, <3>2, LeastOfNaturals
    <3>4. QED BY <3>1, <3>3
  <2>3. first \in 1..Len(mirror) /\ turn \in Nat
    <3>1. first \in 1..Len(mirror)
      <4> HIDE DEF first
      <4>1. QED BY <1>2, <1>3, <2>2
    <3>2. mirror[first] \in Event
      BY <1>3, <3>1
    <3>3. QED BY <3>1, <3>2 DEF Event
  <2> HIDE DEF ok
  <2>4. /\ main' = "answering" /\ answer' \in Answer
        /\ answer'.upto <= Len(mirror') /\ (~answer'.ok => answer'.upto = 0)
        /\ answer'.job = request.job /\ answer'.turn = turn
    <3> HIDE DEF turn
    <3>1. QED BY <1>1, <1>2, <1>3, <2>1, <2>3, SaidIsAnswer DEF ServerInv
  <2>5. /\ TypeOK' /\ Shown' /\ Parents' /\ Drives' /\ Noted'
        /\ MirrorKept /\ JobsKept /\ TurnsKept
    BY <1>1, <1>3, <2>4, OnlyMainMoves
  <2>6. Serves' /\ Starting'
    BY <2>4 DEF Serves, Starting
  <2>7. Named'
    <3> SUFFICES ASSUME request.job \notin overlapped
                 PROVE  jobs[request.job].state # "queued" /\ jobs[request.job].turn = turn
      BY <1>1, <1>3, <2>4 DEF Named, JobId, history
    <3>1. Awaited
      BY <1>1 DEF ServerInv, Starting
    <3>2. Len(mirror) # request.after
      BY <1>2, <1>3, <2>2
    <3>3. /\ jobs[request.job].state # "queued"
          /\ Len(mirror) > request.after
          /\ mirror[request.after + 1] =
               [thread |-> request.thread, turn |-> jobs[request.job].turn, kind |-> "started"]
      BY <3>1, <3>2 DEF Awaited
    <3>4. request.after + 1 \in (request.after + 1)..Len(mirror)
      BY <1>2, <1>3, <3>3
    <3>5. request.after + 1 \in found
      BY <3>3, <3>4 DEF StartsAfter
    <3> HIDE DEF found, first
    <3>6. first = request.after + 1
      BY <1>2, <1>3, <2>2, <3>5
    <3>7. turn = jobs[request.job].turn
      BY <3>3, <3>6
    <3>8. QED BY <3>3, <3>7
  <2>8. QED BY <2>5, <2>6, <2>7 DEF ServerInv
<1>7. QED BY <1>5, <1>6

\* If nothing is under way the new job is the only one that can start a turn.
LEMMA RunInBackgroundKeeps ==
  ASSUME ServerInv, NEW thread \in Threads, RunInBackground(thread)
  PROVE  ServerInv'
<1> DEFINE new == Len(jobs) + 1
           job == [thread |-> thread, state |-> "queued", turn |-> NoTurn]
<1>1. /\ Receive("run", thread, NoTurn, new) /\ main' = "starting"
      /\ jobs' = Append(jobs, job)
      /\ overlapped' = IF UnderWay THEN overlapped \cup {new} ELSE overlapped
      /\ UNCHANGED <<holder, poisoned, root, checked, turns, mirror, interrupts, answer,
                     persisted, seen, denied>>
  BY DEF RunInBackground, driveVars
<1>2. Len(jobs) \in Nat /\ Len(mirror) \in Nat /\ new \in Nat /\ NoTurn \in Nat /\ "run" \in Kind
  BY Lengths DEF ServerInv, NoTurn, Kind
<1>3. job \in Job /\ job.thread = thread /\ job.state = "queued"
  BY <1>2 DEF Job
<1>4. /\ main = "idle" /\ request' \in Request /\ request'.kind = "run"
      /\ request'.thread = thread /\ request'.job = new /\ request'.after = Len(mirror)
  BY <1>1, <1>2, ReceivedIsRequest DEF ServerInv
<1> HIDE DEF job
<1>5. /\ jobs' \in Seq(Job) /\ Len(jobs') = new /\ jobs'[new] = job
      /\ \A k \in JobId : jobs'[k] = jobs[k]
  BY <1>1, <1>3, Appended DEF ServerInv, TypeOK, JobId
<1>6. JobsKept /\ JobId' = JobId \cup {new} /\ new \notin JobId /\ JobId \subseteq JobId'
  BY <1>2, <1>5 DEF JobsKept, JobId
<1> HIDE DEF new
<1>7. MirrorKept /\ TurnsKept /\ TurnId' = TurnId
  BY <1>1, NothingTakenBack DEF ServerInv, TurnId
<1>8. overlapped' \subseteq overlapped \cup {new} /\ overlapped \subseteq overlapped'
  BY <1>1
<1>9. TypeOK'
  <2>1. /\ holder' \in {Free, Main} \cup JobId' /\ root' \in {NoTurn} \cup TurnId'
        /\ interrupts' \subseteq TurnId' /\ denied' \subseteq TurnId'
        /\ overlapped' \subseteq JobId'
    BY <1>1, <1>6, <1>7, <1>8 DEF ServerInv, TypeOK
  <2>2. /\ turns' \in Seq(Turn) /\ mirror' \in Seq(Event) /\ answer' \in Answer
        /\ persisted' \in 0..Len(mirror') /\ seen' \in 0..Len(mirror')
        /\ poisoned' \in BOOLEAN /\ checked' \in BOOLEAN
    BY <1>1 DEF ServerInv, TypeOK
  <2>3. main' \in {"idle", "blocked", "driving", "starting", "interrupting", "answering"}
    BY <1>1
  <2>4. QED BY <1>4, <1>5, <2>1, <2>2, <2>3 DEF TypeOK
<1>10. Shown' /\ Parents' /\ Noted'
  BY <1>1, <1>7 DEF ServerInv, Shown, Parents, Noted
<1>11. Drives'
  <2>1. holder # Main
    BY <1>4 DEF ServerInv, Drives
  <2>2. holder \in JobId' => holder \in JobId
    BY <1>6, <1>2, <2>1 DEF ServerInv, TypeOK, Free, JobId
  <2>3. holder' \in JobId' => jobs'[holder'].state = "driving"
    BY <1>1, <1>5, <2>2 DEF ServerInv, Drives
  <2>4. QED BY <1>1, <1>7, <2>1, <2>3 DEF ServerInv, Drives
<1>12. Serves'
  <2>1. jobs'[request'.job].thread = request'.thread /\ request'.job \in JobId'
    BY <1>3, <1>4, <1>5, <1>6
  <2>2. request'.after <= Len(mirror')
    BY <1>1, <1>2, <1>4
  <2>3. QED BY <1>1, <1>4, <2>1, <2>2 DEF Serves
<1>13. Starting'
  <2> SUFFICES ASSUME new \notin overlapped' PROVE Awaited'
    BY <1>4 DEF Starting
  <2>1. ~UnderWay
    BY <1>1
  <2>2. root = NoTurn /\ \A k \in JobId : jobs[k].state # "queued"
    BY <2>1 DEF UnderWay, Driving
  <2>3. \A k \in JobId' \ {new} : jobs'[k].state # "queued"
    BY <1>5, <1>6, <2>2
  <2>4. QED BY <1>1, <1>3, <1>4, <1>5, <2>2, <2>3 DEF Awaited
<1>14. Named'
  BY <1>1, <1>6, <1>8, NamedKept
<1>15. QED
  BY <1>9, <1>10, <1>11, <1>12, <1>13, <1>14 DEF ServerInv

\* A refused interrupt changes nothing; one that is carried out leaves nothing
\* to note down.
LEMMA InterruptDirectlyKeeps ==
  ASSUME ServerInv, NEW t \in TurnId, InterruptDirectly(t)
  PROVE  ServerInv'
<1> DEFINE event == [thread |-> turns[t].thread, turn |-> t, kind |-> "aborted"]
<1>1. /\ holder = Free /\ Receive("interrupt", turns[t].thread, t, NoJob)
      /\ UNCHANGED <<holder, poisoned, root, checked, jobs, persisted, seen, denied, overlapped>>
      /\ UNCHANGED driveVars /\ UNCHANGED history
      /\ \/ /\ ~poisoned
            /\ turns' = [turns EXCEPT ![t].status = "aborted"]
            /\ interrupts' = interrupts \ {t}
            /\ mirror' = Append(mirror, event)
            /\ Say(request', TRUE, t, Len(mirror'))
         \/ Say(request', FALSE, NoTurn, 0) /\ UNCHANGED <<turns, interrupts, mirror>>
  BY DEF InterruptDirectly, Emit, driveVars, history
<1>2. /\ turns \in Seq(Turn) /\ turns[t].thread \in Threads /\ t \in Nat /\ NoJob \in Nat
      /\ NoTurn \in Nat /\ "interrupt" \in Kind
  <2>1. turns \in Seq(Turn) /\ turns[t] \in Turn
    BY DEF ServerInv, TypeOK, TurnId
  <2>2. QED BY <2>1 DEF Turn, TurnId, NoJob, NoTurn, Kind
<1>3. Len(mirror) \in Nat /\ Len(turns) \in Nat /\ mirror \in Seq(Event)
  <2>1. Len(mirror) \in Nat /\ Len(turns) \in Nat
    BY Lengths DEF ServerInv
  <2>2. QED BY <2>1 DEF ServerInv, TypeOK
<1>4. event \in Event
  BY <1>2 DEF Event, Ended
<1> HIDE DEF event
<1>5. main = "idle" /\ request' \in Request /\ request'.kind = "interrupt"
  BY <1>1, <1>2, ReceivedIsRequest DEF ServerInv
<1>6. CASE Say(request', FALSE, NoTurn, 0) /\ UNCHANGED <<turns, interrupts, mirror>>
  <2> DEFINE ok == FALSE
  <2>1. /\ Say(request', ok, NoTurn, 0) /\ ok \in BOOLEAN /\ 0 \in Nat /\ 0 <= Len(mirror)
        /\ UNCHANGED <<turns, interrupts, mirror>>
    <3>1. Say(request', ok, NoTurn, 0) /\ UNCHANGED <<turns, interrupts, mirror>>
      BY ONLY <1>6, Zenon
    <3>2. ok \in BOOLEAN /\ 0 \in Nat /\ 0 <= Len(mirror)
      BY <1>3
    <3>3. QED BY <3>1, <3>2, Zenon
  <2> HIDE DEF ok
  <2>2. /\ main' = "answering" /\ answer' \in Answer
        /\ answer'.upto <= Len(mirror') /\ (~answer'.ok => answer'.upto = 0)
        /\ answer'.kind = "interrupt"
    BY <1>2, <1>5, <2>1, SaidIsAnswer DEF ServerInv
  <2>3. QED BY <1>1, <1>5, <2>1, <2>2, AnsweredOtherwise
<1>7. CASE /\ ~poisoned
           /\ turns' = [turns EXCEPT ![t].status = "aborted"]
           /\ interrupts' = interrupts \ {t}
           /\ mirror' = Append(mirror, event)
           /\ Say(request', TRUE, t, Len(mirror'))
  <2>1. "aborted" \in TurnStatus
    BY DEF TurnStatus
  <2>2. /\ turns' \in Seq(Turn) /\ Len(turns') = Len(turns)
        /\ turns'[t].status = "aborted"
        /\ \A u \in TurnId : turns'[u].parent = turns[u].parent
        /\ \A u \in TurnId : u # t => turns'[u] = turns[u]
    BY <1>2, <1>7, <2>1, TurnWritten
  <2>3. /\ mirror' \in Seq(Event) /\ Len(mirror') = Len(mirror) + 1
        /\ \A i \in 1..Len(mirror) : mirror'[i] = mirror[i]
    BY <1>3, <1>4, <1>7, Appended
  <2>4. MirrorKept /\ TurnsKept /\ TurnId' = TurnId
    BY <1>3, <2>2, <2>3 DEF MirrorKept, TurnsKept, TurnId
  <2>5. JobsKept /\ JobId' = JobId
    BY <1>1, NothingTakenBack DEF ServerInv, JobId
  <2>6. /\ main' = "answering" /\ answer' \in Answer
        /\ answer'.kind = "interrupt" /\ answer'.ok /\ answer'.upto = Len(mirror')
    <3>1. /\ main' = "answering"
          /\ answer' = [kind |-> request'.kind, ok |-> TRUE, turn |-> t, job |-> request'.job,
                        upto |-> Len(mirror')]
      BY <1>7 DEF Say
    <3>2. request'.job \in Nat /\ Len(mirror') \in Nat
      BY <1>3, <1>5, <2>3 DEF Request
    <3>3. QED BY <1>2, <1>5, <3>1, <3>2 DEF Answer
  <2>7. root = NoTurn /\ \A u \in TurnId : turns[u].status # "running"
    BY <1>1, <1>7 DEF ServerInv, Drives
  <2>8. TypeOK'
    <3>1. /\ holder' \in {Free, Main} \cup JobId' /\ root' \in {NoTurn} \cup TurnId'
          /\ interrupts' \subseteq TurnId' /\ denied' \subseteq TurnId'
          /\ overlapped' \subseteq JobId'
      BY <1>1, <1>7, <2>4, <2>5 DEF ServerInv, TypeOK
    <3>2. persisted' \in 0..Len(mirror') /\ seen' \in 0..Len(mirror')
      BY <1>1, <1>3, <2>3 DEF ServerInv, TypeOK
    <3>3. jobs' \in Seq(Job) /\ poisoned' \in BOOLEAN /\ checked' \in BOOLEAN
      BY <1>1 DEF ServerInv, TypeOK
    <3>4. main' \in {"idle", "blocked", "driving", "starting", "interrupting", "answering"}
      BY <2>6
    <3>5. QED BY <1>5, <2>2, <2>3, <2>6, <3>1, <3>2, <3>3, <3>4 DEF TypeOK
  <2>9. Shown'
    <3>1. answer'.upto <= Len(mirror') /\ (~answer'.ok => answer'.upto = 0)
      BY <1>3, <2>3, <2>6
    <3>2. QED BY <1>1, <2>4, <3>1, ShownKept DEF ServerInv
  <2>10. Parents'
    BY <2>2, <2>4 DEF ServerInv, Parents
  <2>11. Drives'
    <3>1. \A u \in TurnId' : turns'[u].status # "running"
      BY <2>2, <2>4, <2>7
    <3>2. holder' = Free /\ root' = NoTurn /\ holder' # Main /\ holder' \notin JobId'
      BY <1>1, <2>7 DEF Free, Main, JobId
    <3>3. QED BY <3>1, <3>2 DEF Drives
  <2>12. Serves' /\ Starting'
    BY <2>6 DEF Serves, Starting
  <2>13. Noted'
    <3> SUFFICES ASSUME NEW u \in denied
                 PROVE  \/ turns'[u].status = "aborted"
                        \/ turns'[u].status = "waiting" /\ u \in interrupts'
      BY <1>1 DEF Noted
    <3>1. u \in TurnId
      BY DEF ServerInv, TypeOK
    <3>2. turns[u].status = "aborted" \/ (turns[u].status = "waiting" /\ u \in interrupts)
      BY <2>7, <3>1 DEF ServerInv, Noted
    <3>3. CASE u = t
      BY <2>2, <3>3
    <3>4. CASE u # t
      BY <1>7, <2>2, <3>1, <3>2, <3>4
    <3>5. QED BY <3>3, <3>4
  <2>14. Named'
    BY <1>1, <2>5, <2>6, NamedKept
  <2>15. QED
    BY <2>8, <2>9, <2>10, <2>11, <2>12, <2>13, <2>14 DEF ServerInv
<1>8. QED BY <1>1, <1>6, <1>7

\* A waiting turn's interrupt is noted down with it.
LEMMA RequestInterruptKeeps ==
  ASSUME ServerInv, NEW t \in TurnId, RequestInterrupt(t)
  PROVE  ServerInv'
<1>1. /\ Receive("interrupt", turns[t].thread, t, NoJob)
      /\ interrupts' = interrupts \cup {t} /\ main' = "interrupting"
      /\ denied' = IF turns[t].status = "waiting" THEN denied \cup {t} ELSE denied
      /\ UNCHANGED <<holder, poisoned, root, checked, jobs, turns, mirror, answer, persisted,
                     seen, overlapped>>
  BY DEF RequestInterrupt, driveVars
<1>2. turns[t].thread \in Threads /\ t \in Nat /\ NoJob \in Nat /\ "interrupt" \in Kind
  <2>1. turns[t] \in Turn
    BY DEF ServerInv, TypeOK, TurnId
  <2>2. QED BY <2>1 DEF Turn, TurnId, NoJob, Kind
<1>3. main = "idle" /\ request' \in Request /\ request'.kind = "interrupt"
  BY <1>1, <1>2, ReceivedIsRequest DEF ServerInv
<1>4. MirrorKept /\ JobsKept /\ TurnId' = TurnId /\ JobId' = JobId
  BY <1>1, NothingTakenBack DEF ServerInv, TurnId, JobId
<1>5. TypeOK'
  <2>1. /\ holder' \in {Free, Main} \cup JobId' /\ root' \in {NoTurn} \cup TurnId'
        /\ interrupts' \subseteq TurnId' /\ denied' \subseteq TurnId'
        /\ overlapped' \subseteq JobId'
    BY <1>1, <1>4 DEF ServerInv, TypeOK
  <2>2. /\ jobs' \in Seq(Job) /\ turns' \in Seq(Turn) /\ mirror' \in Seq(Event)
        /\ answer' \in Answer
        /\ persisted' \in 0..Len(mirror') /\ seen' \in 0..Len(mirror')
        /\ poisoned' \in BOOLEAN /\ checked' \in BOOLEAN
    BY <1>1 DEF ServerInv, TypeOK
  <2>3. main' \in {"idle", "blocked", "driving", "starting", "interrupting", "answering"}
    BY <1>1
  <2>4. QED BY <1>3, <2>1, <2>2, <2>3 DEF TypeOK
<1>6. Shown' /\ Parents'
  BY <1>1, <1>4 DEF ServerInv, Shown, Parents
<1>7. Drives'
  BY <1>1, <1>3, <1>4 DEF ServerInv, Drives
<1>8. Serves' /\ Starting'
  BY <1>1, <1>3 DEF Serves, Starting
<1>9. Noted'
  <2> SUFFICES ASSUME NEW u \in denied'
               PROVE  \/ turns[u].status = "aborted"
                      \/ turns[u].status = "waiting" /\ u \in interrupts'
                      \/ turns[u].status = "running" /\ poisoned
                      \/ /\ turns[u].status = "running"
                         /\ root = u /\ ~checked /\ u \in interrupts'
                         /\ \A v \in TurnId : turns[v].parent = u => turns[v].status # "running"
    BY <1>1, <1>4 DEF Noted
  <2>1. CASE u \in denied
    BY <1>1, <2>1 DEF ServerInv, Noted
  <2>2. CASE u \notin denied
    BY <1>1, <2>2
  <2>3. QED BY <2>1, <2>2
<1>10. Named'
  BY <1>1, <1>4, NamedKept
<1>11. QED
  BY <1>5, <1>6, <1>7, <1>8, <1>9, <1>10 DEF ServerInv

\* A turn that is resumed meets the note before its first step: the drive has to
\* look, and no subagent of it runs.
LEMMA ResumeKeeps == ASSUME ServerInv, Resume PROVE ServerInv'
<1> DEFINE t == request.turn
<1>1. /\ main = "blocked" /\ request.kind = "resume" /\ holder = Free
      /\ UNCHANGED <<poisoned, jobs, mirror, interrupts, request, persisted, seen, denied,
                     overlapped>>
      /\ \/ /\ ~poisoned /\ turns[t].status = "waiting"
            /\ holder' = Main /\ root' = t /\ checked' = FALSE
            /\ turns' = [turns EXCEPT ![t].status = "running"]
            /\ main' = "driving" /\ UNCHANGED answer
         \/ Say(request, FALSE, NoTurn, 0) /\ UNCHANGED <<holder, root, checked, turns>>
  BY DEF Resume, history
<1>2. request \in Request /\ t \in TurnId /\ turns \in Seq(Turn)
  BY <1>1 DEF ServerInv, TypeOK, Serves
<1>3. Len(mirror) \in Nat /\ Len(turns) \in Nat
  BY Lengths DEF ServerInv
<1>4. MirrorKept /\ JobsKept /\ JobId' = JobId
  BY <1>1, NothingTakenBack DEF ServerInv, JobId
<1>5. CASE Say(request, FALSE, NoTurn, 0) /\ UNCHANGED <<holder, root, checked, turns>>
  <2> DEFINE ok == FALSE
  <2>1. /\ Say(request, ok, NoTurn, 0) /\ ok \in BOOLEAN /\ ~ok /\ 0 \in Nat
        /\ 0 <= Len(mirror) /\ NoTurn \in Nat
    <3>1. Say(request, ok, NoTurn, 0)
      BY ONLY <1>5, Zenon
    <3>2. ok \in BOOLEAN /\ ~ok /\ 0 \in Nat /\ 0 <= Len(mirror) /\ NoTurn \in Nat
      BY <1>3 DEF NoTurn
    <3>3. QED BY <3>1, <3>2, Zenon
  <2>2. /\ UNCHANGED <<driveVars, jobs, turns, mirror, interrupts, persisted, seen>>
        /\ UNCHANGED history
    BY <1>1, <1>5 DEF driveVars, history
  <2> HIDE DEF ok
  <2>3. /\ main' = "answering" /\ answer' \in Answer
        /\ answer'.upto <= Len(mirror') /\ (~answer'.ok => answer'.upto = 0)
        /\ ~answer'.ok
    BY <1>1, <1>2, <2>1, SaidIsAnswer DEF ServerInv
  <2>4. QED BY <1>1, <1>2, <2>2, <2>3, AnsweredOtherwise
<1>6. CASE /\ ~poisoned /\ turns[t].status = "waiting"
           /\ holder' = Main /\ root' = t /\ checked' = FALSE
           /\ turns' = [turns EXCEPT ![t].status = "running"]
           /\ main' = "driving" /\ UNCHANGED answer
  <2> HIDE DEF t
  <2>1. "running" \in TurnStatus
    BY DEF TurnStatus
  <2>2. /\ turns' \in Seq(Turn) /\ Len(turns') = Len(turns)
        /\ turns'[t].status = "running"
        /\ \A u \in TurnId : turns'[u].parent = turns[u].parent
        /\ \A u \in TurnId : u # t => turns'[u] = turns[u]
    BY <1>2, <1>6, <2>1, TurnWritten
  <2>3. TurnsKept /\ TurnId' = TurnId /\ t # NoTurn
    BY <1>2, <1>3, <2>2 DEF TurnsKept, TurnId, NoTurn
  <2>4. root = NoTurn /\ \A u \in TurnId : turns[u].status # "running"
    BY <1>1, <1>6 DEF ServerInv, Drives
  <2>5. TypeOK'
    <3>1. /\ holder' \in {Free, Main} \cup JobId' /\ root' \in {NoTurn} \cup TurnId'
          /\ interrupts' \subseteq TurnId' /\ denied' \subseteq TurnId'
          /\ overlapped' \subseteq JobId'
      BY <1>1, <1>2, <1>4, <1>6, <2>3 DEF ServerInv, TypeOK
    <3>2. /\ jobs' \in Seq(Job) /\ mirror' \in Seq(Event) /\ request' \in Request
          /\ answer' \in Answer /\ poisoned' \in BOOLEAN /\ checked' \in BOOLEAN
          /\ persisted' \in 0..Len(mirror') /\ seen' \in 0..Len(mirror')
      BY <1>1, <1>6 DEF ServerInv, TypeOK
    <3>3. main' \in {"idle", "blocked", "driving", "starting", "interrupting", "answering"}
      BY <1>6
    <3>4. QED BY <2>2, <3>1, <3>2, <3>3 DEF TypeOK
  <2>6. Shown'
    BY <1>1, <1>4, <1>6, ShownKept DEF ServerInv
  <2>7. Parents'
    BY <2>2, <2>3 DEF ServerInv, Parents
  <2>8. Drives'
    <3>1. holder' # Free /\ holder' \notin JobId'
      BY <1>6 DEF Free, Main, JobId
    <3>2. \A u \in TurnId' : turns'[u].status = "running" => u = root'
      BY <1>6, <2>2, <2>3, <2>4
    <3>3. QED BY <1>1, <1>6, <2>2, <2>3, <3>1, <3>2 DEF Drives
  <2>9. Serves' /\ Starting'
    BY <1>1, <1>6 DEF Serves, Starting
  <2>10. Noted'
    <3> SUFFICES ASSUME NEW u \in denied
                 PROVE  \/ turns'[u].status = "aborted"
                        \/ turns'[u].status = "waiting" /\ u \in interrupts'
                        \/ /\ turns'[u].status = "running"
                           /\ root' = u /\ ~checked' /\ u \in interrupts'
                           /\ \A v \in TurnId' :
                                turns'[v].parent = u => turns'[v].status # "running"
      BY <1>1 DEF Noted
    <3>1. u \in TurnId
      BY DEF ServerInv, TypeOK
    <3>2. turns[u].status = "aborted" \/ (turns[u].status = "waiting" /\ u \in interrupts)
      BY <2>4, <3>1 DEF ServerInv, Noted
    <3>3. CASE u = t
      <4>1. turns[t].parent # t
        BY <1>2 DEF ServerInv, Parents, TurnId
      <4>2. \A v \in TurnId' : turns'[v].parent = u => turns'[v].status # "running"
        BY <2>2, <2>3, <2>4, <3>3, <4>1
      <4>3. u \in interrupts'
        BY <1>1, <1>6, <3>2, <3>3
      <4>4. QED BY <1>6, <2>2, <3>3, <4>2, <4>3
    <3>4. CASE u # t
      BY <1>1, <2>2, <3>1, <3>2, <3>4
    <3>5. QED BY <3>3, <3>4
  <2>11. Named'
    BY <1>1, <1>4, <1>6, NamedKept
  <2>12. QED
    BY <2>5, <2>6, <2>7, <2>8, <2>9, <2>10, <2>11 DEF ServerInv
<1>7. QED BY <1>1, <1>5, <1>6

-----------------------------------------------------------------------------
(* Every step, and what follows for the properties.                        *)

LEMMA StepKeeps == ServerInv /\ [Next]_vars => ServerInv'
<1> SUFFICES ASSUME ServerInv, [Next]_vars PROVE ServerInv'
  OBVIOUS
<1>1. CASE DriveNext
  BY <1>1, TakeInterruptKeeps, PassCheckKeeps, WorkKeeps, StartSubagentTurnKeeps, PanicKeeps
     DEF DriveNext
<1>2. ASSUME NEW j \in JobId, JobTakesLock(j) PROVE ServerInv'
  BY <1>2, JobTakesLockKeeps
<1>3. CASE ClientNext
  <2>1. ASSUME NEW thread \in Threads,
               ListEvents(thread) \/ RunInBackground(thread) \/ AskToRegister(thread)
        PROVE  ServerInv'
    BY <2>1, ListEventsKeeps, RunInBackgroundKeeps, AskToRegisterKeeps
  <2>2. ASSUME NEW t \in TurnId,
               \/ InterruptDirectly(t)
               \/ RequestInterrupt(t)
               \/ \E kind \in {"resume", "steer"} : AskForLock(kind, t)
        PROVE  ServerInv'
    BY <2>2, InterruptDirectlyKeeps, RequestInterruptKeeps, AskForLockKeeps
  <2>3. QED BY <1>3, <2>1, <2>2 DEF ClientNext
<1>4. CASE MainNext
  BY <1>4, AnswerStartKeeps, AnswerInterruptKeeps, ResumeKeeps, SteerKeeps, RegisterKeeps,
     GiveAnswerKeeps DEF MainNext
<1>5. CASE UNCHANGED vars
  <2>1. UNCHANGED <<holder, poisoned, root, checked, jobs, turns, mirror, interrupts, main,
                    request, answer, persisted, seen, denied, overlapped>>
    BY <1>5 DEF vars, driveVars, mainVars, history
  <2>2. TurnId' = TurnId /\ JobId' = JobId
    BY <2>1 DEF TurnId, JobId
  <2>3. TypeOK' /\ Shown' /\ Parents'
    BY <2>1, <2>2 DEF ServerInv, TypeOK, Shown, Parents
  <2>4. Drives' /\ Serves'
    BY <2>1, <2>2 DEF ServerInv, Drives, Serves
  <2>5. Noted' /\ Starting' /\ Named'
    BY <2>1, <2>2 DEF ServerInv, Noted, Starting, Awaited, Named
  <2>6. QED BY <2>3, <2>4, <2>5 DEF ServerInv
<1>6. QED BY <1>1, <1>2, <1>3, <1>4, <1>5 DEF Next

LEMMA ServerInvariant == Spec => []ServerInv
BY InitCorrect, StepKeeps, PTL DEF Spec

\* The state of the server keeps its types: the mutex is held by the main loop,
\* by a job there is or by nobody, and every id names a turn or a job.
THEOREM ServerTypeCorrect == Spec => []TypeOK
<1>1. ServerInv => TypeOK
  BY DEF ServerInv
<1>2. QED BY <1>1, ServerInvariant, PTL

\* What the client has been shown is on file, though other threads emit events
\* between an answer and the events being written out.
THEOREM SeenCorrect == Spec => []SeenIsSaved
<1>1. ServerInv => SeenIsSaved
  BY DEF ServerInv, Shown, SeenIsSaved
<1>2. QED BY <1>1, ServerInvariant, PTL

\* A waiting turn whose interrupt is noted down while another turn holds the
\* runtime never completes, whatever is resumed or started later.
THEOREM DeniedCorrect == Spec => []DeniedTurnNeverCompletes
<1>1. ServerInv => DeniedTurnNeverCompletes
  BY DEF ServerInv, Noted, DeniedTurnNeverCompletes
<1>2. QED BY <1>1, ServerInvariant, PTL

\* An answer to turn/run-agentic names the turn that request started, unless a
\* turn was under way when it was made.
THEOREM AnswerCorrect == Spec => []AnswerNamesOwnTurn
<1>1. ServerInv => AnswerNamesOwnTurn
  BY DEF ServerInv, Named, AnswerNamesOwnTurn
<1>2. QED BY <1>1, ServerInvariant, PTL

-----------------------------------------------------------------------------
(* ShellSession                                                            *)

\* Every event is about a turn there is, and if the last one is a start, its turn
\* runs.
EventsNameTurns ==
  /\ \A i \in 1..Len(mirror) : mirror[i].turn \in TurnId
  /\ Len(mirror) > 0 /\ mirror[Len(mirror)].kind = "started" =>
       turns[mirror[Len(mirror)].turn].status = "running"

\* An answer that names a turn that was started comes before the shell has listed
\* the event of the start.
AnswersAreNews ==
  /\ main = "starting" => cursor <= request.after
  /\ main = "answering" /\ answer.kind = "run" /\ answer.ok =>
       answer.turn \in TurnId /\ cursor < Len(mirror)

\* Once everything is listed, what the shell shows as running runs, also while a
\* call is under way.
ActiveRuns == active # NoTurn /\ cursor = Len(mirror) => turns[active].status = "running"

ShellKnown ==
  /\ at \in {"keys", "poll", "start", "run", "boundary", "call", "closed"}
  /\ calling \in Start \cup {"none", "poll", "boundary", "interrupt", "deny", "resume", "steer"}
  /\ active \in {NoTurn} \cup TurnId
  /\ pending \in {NoTurn} \cup TurnId
  /\ cursor \in 0..Len(mirror)
  /\ queue \in Nat /\ typed \in Nat /\ queue <= typed /\ typed <= MaxPrompts

SessionInv ==
  /\ ServerInv
  /\ ShellKnown
  /\ EventsNameTurns
  /\ AnswersAreNews
  /\ ActiveRuns

-----------------------------------------------------------------------------
(* What a step of the server tells.                                        *)

\* An event is added, or no turn stops running.
ServerMoves ==
  /\ TurnId \subseteq TurnId'
  /\ \/ /\ mirror' = mirror
        /\ \A t \in TurnId : turns[t].status = "running" => turns'[t].status = "running"
     \/ /\ Len(mirror') = Len(mirror) + 1
        /\ \A i \in 1..Len(mirror) : mirror'[i] = mirror[i]
        /\ mirror'[Len(mirror) + 1].turn \in TurnId'
        /\ mirror'[Len(mirror) + 1].kind = "started" =>
             turns'[mirror'[Len(mirror) + 1].turn].status = "running"

\* What the main loop is about to say.
MainTells ==
  /\ main' = "starting" =>
       (main = "starting" /\ UNCHANGED request) \/ request'.after = Len(mirror)
  /\ main' = "answering" =>
       \/ main = "answering" /\ UNCHANGED answer
       \/ answer'.kind # "run" \/ ~answer'.ok
       \/ /\ main = "starting" /\ UNCHANGED <<request, mirror>>
          /\ answer'.turn \in TurnId /\ request.after < Len(mirror)

LEMMA NothingMoves ==
  ASSUME UNCHANGED <<turns, mirror>>
  PROVE  ServerMoves
BY DEF ServerMoves, TurnId

LEMMA MainIsSilent ==
  ASSUME UNCHANGED <<main, request, answer>> \/ main' \in {"idle", "blocked", "driving", "interrupting"}
  PROVE  MainTells
BY DEF MainTells

LEMMA Sizes ==
  ASSUME ServerInv
  PROVE  /\ Len(mirror) \in Nat /\ Len(turns) \in Nat
         /\ mirror \in Seq(Event) /\ turns \in Seq(Turn)
BY Lengths DEF ServerInv, TypeOK

LEMMA EndTells ==
  ASSUME ServerInv, Driving, NEW status \in TurnStatus \ {"running"}, EndAtWork(status),
         UNCHANGED request
  PROVE  ServerMoves /\ MainTells
<1>1. AtWork \in TurnId
  BY AtWorkRuns
<1>2. /\ Len(turns') = Len(turns) /\ mirror' \in Seq(Event) /\ Len(mirror') = Len(mirror) + 1
      /\ \A i \in 1..Len(mirror) : mirror'[i] = mirror[i]
  BY EndEffect
<1> DEFINE kind == IF status = "waiting" THEN "paused" ELSE status
           event == [thread |-> turns[AtWork].thread, turn |-> AtWork, kind |-> kind]
<1>3. mirror' = Append(mirror, event)
  BY DEF EndAtWork, Emit
<1>4. event.turn = AtWork /\ event.kind = kind
  OBVIOUS
<1>5. kind # "started"
  BY DEF TurnStatus
<1>6. mirror'[Len(mirror) + 1] = event
  <2> HIDE DEF event
  <2>1. QED BY <1>3, Sizes
<1>7. ServerMoves
  <2> HIDE DEF event, kind
  <2>1. TurnId' = TurnId
    BY <1>2 DEF TurnId
  <2>2. QED BY <1>1, <1>2, <1>4, <1>5, <1>6, <2>1 DEF ServerMoves
<1>8. MainTells
  <2>1. \/ UNCHANGED <<main, answer>>
        \/ main' = "answering" /\ main = "driving" /\ answer'.kind = "resume"
    BY AfterEnd
  <2>2. main = "driving" => request.kind = "resume"
    BY DEF ServerInv, Serves
  <2>3. QED BY <2>1, <2>2 DEF MainTells
<1>9. QED BY <1>7, <1>8

LEMMA StartTells ==
  ASSUME ServerInv, NEW thread \in Threads, NEW parent \in Nat,
         turns' = Append(turns, [thread |-> thread, parent |-> parent, status |-> "running"]),
         mirror' = Append(mirror, [thread |-> thread, turn |-> Len(turns) + 1,
                                   kind |-> "started"])
  PROVE  ServerMoves
<1>1. /\ Len(turns') = Len(turns) + 1
      /\ turns'[Len(turns) + 1].status = "running"
      /\ Len(mirror') = Len(mirror) + 1
      /\ mirror'[Len(mirror) + 1] =
           [thread |-> thread, turn |-> Len(turns) + 1, kind |-> "started"]
      /\ MirrorKept
  BY TurnStarted DEF ServerInv
<1>2. mirror'[Len(mirror) + 1].turn = Len(turns) + 1
  BY <1>1
<1>3. TurnId \subseteq TurnId' /\ Len(turns) + 1 \in TurnId'
  BY <1>1, Sizes DEF TurnId
<1>4. QED BY <1>1, <1>2, <1>3 DEF ServerMoves, MirrorKept

LEMMA DriveTells == ASSUME ServerInv, DriveNext PROVE ServerMoves /\ MainTells
<1>1. CASE TakeInterrupt
  <2>1. "aborted" \in TurnStatus \ {"running"}
    BY DEF TurnStatus
  <2>2. QED BY <1>1, <2>1, EndTells DEF TakeInterrupt
<1>2. CASE Work
  BY <1>2, EndTells DEF Work
<1>3. CASE PassCheck
  BY <1>3, NothingMoves, MainIsSilent DEF PassCheck, mainVars
<1>4. CASE StartSubagentTurn
  <2>1. root \in TurnId
    BY <1>4, AtWorkRuns DEF StartSubagentTurn
  <2>2. turns[root].thread \in Threads /\ root \in Nat
    <3>1. turns[root] \in Turn /\ root \in Nat
      BY <2>1, Sizes DEF TurnId
    <3>2. QED BY <3>1 DEF Turn
  <2>3. ServerMoves
    BY <1>4, <2>2, StartTells DEF StartSubagentTurn
  <2>4. MainTells
    BY <1>4, MainIsSilent DEF StartSubagentTurn, mainVars
  <2>5. QED BY <2>3, <2>4
<1>5. CASE Panic
  <2>1. Driving /\ Release(FALSE) /\ UNCHANGED <<turns, mirror, request>>
    BY <1>5 DEF Panic
  <2>2. ServerMoves
    BY <2>1, NothingMoves
  <2>3. \/ UNCHANGED <<main, answer>>
        \/ main' = "answering" /\ main = "driving" /\ answer'.kind = "resume"
    <3>1. FALSE \in BOOLEAN /\ Len(mirror') \in Nat
      BY <2>1, Sizes
    <3>2. QED BY <2>1, <3>1, ReleaseEffect
  <2>4. main = "driving" => request.kind = "resume"
    BY DEF ServerInv, Serves
  <2>5. MainTells
    BY <2>1, <2>3, <2>4 DEF MainTells
  <2>6. QED BY <2>2, <2>5
<1>6. QED BY <1>1, <1>2, <1>3, <1>4, <1>5 DEF DriveNext

LEMMA LockTells ==
  ASSUME ServerInv, NEW j \in JobId, JobTakesLock(j)
  PROVE  ServerMoves /\ MainTells /\ UNCHANGED request
<1>1. UNCHANGED <<main, request, answer>>
  BY DEF JobTakesLock, mainVars
<1>2. CASE poisoned
  BY <1>1, <1>2, NothingMoves, MainIsSilent DEF JobTakesLock
<1>3. CASE ~poisoned
  <2>1. jobs[j].thread \in Threads /\ NoTurn \in Nat
    <3>1. jobs[j] \in Job
      BY DEF ServerInv, TypeOK, JobId
    <3>2. QED BY <3>1 DEF Job, NoTurn
  <2>2. /\ turns' = Append(turns, [thread |-> jobs[j].thread, parent |-> NoTurn,
                                   status |-> "running"])
        /\ mirror' = Append(mirror, [thread |-> jobs[j].thread, turn |-> Len(turns) + 1,
                                     kind |-> "started"])
    BY <1>3 DEF JobTakesLock
  <2>3. QED BY <1>1, <2>1, <2>2, StartTells, MainIsSilent
<1>4. QED BY <1>2, <1>3

LEMMA SaidIsTold ==
  ASSUME ServerInv, NEW ok, NEW turn, NEW upto, Say(request', ok, turn, upto),
         request'.kind # "run" \/ ok = FALSE
  PROVE  MainTells
<1>1. /\ main' = "answering"
      /\ answer'.kind = request'.kind /\ answer'.ok = ok
  BY DEF Say
<1>2. QED BY <1>1 DEF MainTells

LEMMA AnswerStartTells ==
  ASSUME ServerInv, EventsNameTurns, AnswerStart
  PROVE  ServerMoves /\ MainTells /\ UNCHANGED request
<1> DEFINE found == StartsAfter(request.thread, request.after)
           first == CHOOSE i \in found : \A k \in found : i <= k
<1>1. main = "starting" /\ UNCHANGED <<turns, mirror, request>>
  BY DEF AnswerStart
<1>2. request.after \in Nat
  BY DEF ServerInv, TypeOK, Request
<1>3. found \in SUBSET ((request.after + 1)..Len(mirror))
  BY DEF StartsAfter
<1>4. CASE found = {}
  <2>1. Say(request', FALSE, NoTurn, 0)
    BY <1>1, <1>4 DEF AnswerStart
  <2>2. QED BY <1>1, <2>1, SaidIsTold, NothingMoves
<1>5. CASE found # {}
  <2>1. Say(request, TRUE, mirror[first].turn, Len(mirror))
    BY <1>1, <1>5 DEF AnswerStart
  <2>2. first \in found
    <3>1. found \subseteq Nat
      BY <1>2, <1>3, Sizes
    <3> HIDE DEF found
    <3>2. \E i \in found : \A k \in found : i <= k
      BY <1>5, <3>1, LeastOfNaturals
    <3>3. QED BY <3>2
  <2> HIDE DEF found, first
  <2>3. first \in 1..Len(mirror) /\ request.after < Len(mirror)
    BY <1>2, <1>3, <2>2, Sizes
  <2>4. answer'.turn \in TurnId /\ answer'.kind = request.kind
    BY <2>1, <2>3 DEF EventsNameTurns, Say
  <2>5. MainTells
    BY <1>1, <2>3, <2>4 DEF MainTells
  <2>6. QED BY <1>1, <2>5, NothingMoves
<1>6. QED BY <1>4, <1>5

LEMMA MainNextTells ==
  ASSUME ServerInv, AnswerInterrupt \/ Resume \/ Steer \/ Register
  PROVE  ServerMoves /\ MainTells /\ UNCHANGED request
<1>1. CASE AnswerInterrupt
  <2>1. UNCHANGED <<turns, mirror, request>> /\ request.kind = "interrupt"
    BY <1>1 DEF AnswerInterrupt, ServerInv, Serves
  <2>2. Say(request', TRUE, request.turn, Len(mirror))
    BY <1>1, <2>1 DEF AnswerInterrupt
  <2>3. QED BY <2>1, <2>2, NothingMoves, SaidIsTold
<1>2. CASE Steer
  <2>1. UNCHANGED <<turns, mirror, request>> /\ request.kind = "steer"
    BY <1>2 DEF Steer
  <2>2. \E ok : Say(request', ok, request.turn, Len(mirror))
    BY <1>2, <2>1 DEF Steer
  <2>3. QED BY <2>1, <2>2, NothingMoves, SaidIsTold
<1>3. CASE Resume
  <2>1. UNCHANGED <<mirror, request>> /\ request.kind = "resume" /\ main = "blocked"
    BY <1>3 DEF Resume
  <2>2. CASE Say(request, FALSE, NoTurn, 0) /\ UNCHANGED turns
    <3>1. Say(request', FALSE, NoTurn, 0)
      BY <2>1, <2>2
    <3>2. QED BY <2>1, <2>2, <3>1, NothingMoves, SaidIsTold
  <2>3. CASE main' = "driving" /\ turns' = [turns EXCEPT ![request.turn].status = "running"]
    <3>1. request.turn \in TurnId
      BY <2>1 DEF ServerInv, Serves
    <3>2. "running" \in TurnStatus
      BY DEF TurnStatus
    <3>3. /\ Len(turns') = Len(turns)
          /\ turns'[request.turn].status = "running"
          /\ \A u \in TurnId : u # request.turn => turns'[u] = turns[u]
      BY <2>3, <3>1, <3>2, Sizes, TurnWritten
    <3>4. TurnId' = TurnId
      BY <3>3 DEF TurnId
    <3>5. ServerMoves
      BY <2>1, <3>3, <3>4 DEF ServerMoves
    <3>6. QED BY <2>1, <2>3, <3>5, MainIsSilent
  <2>4. QED BY <1>3, <2>2, <2>3 DEF Resume
<1>4. CASE Register
  <2>1. UNCHANGED <<turns, mirror, request>> /\ request.kind = "register"
    BY <1>4 DEF Register
  <2>2. \E ok : Say(request', ok, NoTurn, 0)
    BY <1>4, <2>1 DEF Register
  <2>3. QED BY <2>1, <2>2, NothingMoves, SaidIsTold
<1>5. QED BY <1>1, <1>2, <1>3, <1>4

LEMMA RunTells ==
  ASSUME ServerInv, NEW thread \in Threads, RunInBackground(thread)
  PROVE  ServerMoves /\ MainTells /\ ServerInv'
<1>1. UNCHANGED <<turns, mirror>> /\ main' = "starting" /\ request'.after = Len(mirror)
  BY DEF RunInBackground, Receive
<1>2. MainTells
  BY <1>1 DEF MainTells
<1>3. QED BY <1>1, <1>2, NothingMoves, RunInBackgroundKeeps

LEMMA InterruptTells ==
  ASSUME ServerInv, NEW t \in TurnId, Interrupt(t)
  PROVE  ServerMoves /\ MainTells /\ request'.kind = "interrupt" /\ ServerInv'
<1>1. ServerInv'
  BY InterruptDirectlyKeeps, RequestInterruptKeeps DEF Interrupt
<1>2. request'.kind = "interrupt"
  <2>1. Receive("interrupt", turns[t].thread, t, NoJob)
    BY DEF Interrupt, InterruptDirectly, RequestInterrupt
  <2>2. QED BY <2>1 DEF Receive
<1>3. CASE RequestInterrupt(t)
  BY <1>1, <1>2, <1>3, NothingMoves, MainIsSilent DEF RequestInterrupt
<1>4. CASE InterruptDirectly(t)
  <2>1. CASE Say(request', FALSE, NoTurn, 0) /\ UNCHANGED <<turns, mirror>>
    BY <1>1, <1>2, <2>1, NothingMoves, SaidIsTold
  <2>2. CASE /\ turns' = [turns EXCEPT ![t].status = "aborted"]
             /\ Emit(t, "aborted")
             /\ Say(request', TRUE, t, Len(mirror'))
    <3> DEFINE event == [thread |-> turns[t].thread, turn |-> t, kind |-> "aborted"]
    <3>1. MainTells
      BY <1>2, <2>2, SaidIsTold
    <3>2. "aborted" \in TurnStatus
      BY DEF TurnStatus
    <3>3. Len(turns') = Len(turns)
      BY <2>2, <3>2, Sizes, TurnWritten
    <3>4. mirror' = Append(mirror, event) /\ event.turn = t /\ event.kind = "aborted"
      BY <2>2 DEF Emit
    <3> HIDE DEF event
    <3>5. /\ Len(mirror') = Len(mirror) + 1 /\ mirror'[Len(mirror) + 1] = event
          /\ \A i \in 1..Len(mirror) : mirror'[i] = mirror[i]
      BY <3>4, Sizes
    <3>6. TurnId' = TurnId
      BY <3>3 DEF TurnId
    <3>7. ServerMoves
      BY <3>4, <3>5, <3>6 DEF ServerMoves
    <3>8. QED BY <1>1, <1>2, <3>1, <3>7
  <2>3. QED BY <1>4, <2>1, <2>2 DEF InterruptDirectly
<1>5. QED BY <1>3, <1>4 DEF Interrupt

LEMMA LockAsked ==
  ASSUME ServerInv, NEW t \in TurnId, NEW kind \in {"resume", "steer"}, AskForLock(kind, t)
  PROVE  ServerMoves /\ MainTells /\ request'.kind = kind /\ ServerInv'
<1>1. ServerInv'
  BY AskForLockKeeps
<1>2. QED BY <1>1, NothingMoves, MainIsSilent DEF AskForLock, Receive

LEMMA RegisterAsked ==
  ASSUME ServerInv, NEW thread \in Threads, AskToRegister(thread)
  PROVE  ServerMoves /\ MainTells /\ ServerInv'
<1>1. ServerInv'
  BY AskToRegisterKeeps
<1>2. QED BY <1>1, NothingMoves, MainIsSilent DEF AskToRegister

LEMMA ListTells ==
  ASSUME ServerInv, NEW thread \in Threads, ListEvents(thread)
  PROVE  ServerMoves /\ MainTells /\ request'.kind = "list" /\ ServerInv'
<1>1. ServerInv'
  BY ListEventsKeeps
<1>2. request'.kind = "list"
  BY DEF ListEvents, Receive
<1>3. \E ok : Say(request', ok, NoTurn, Len(mirror))
  BY DEF ListEvents
<1>4. UNCHANGED <<turns, mirror>>
  BY DEF ListEvents
<1>5. QED BY <1>1, <1>2, <1>3, <1>4, NothingMoves, SaidIsTold

-----------------------------------------------------------------------------
(* What the shell knows after a step.                                      *)

\* A step of the server, or of the shell that asks it for something, leaves what
\* the shell has listed and shows as running.
LEMMA ServerStepKeeps ==
  ASSUME SessionInv, ServerInv', ServerMoves, MainTells, UNCHANGED <<cursor, active>>,
         pending' \in {pending, NoTurn},
         at' \in {"keys", "poll", "start", "run", "boundary", "call", "closed"},
         calling' \in Start \cup {"none", "poll", "boundary", "interrupt", "deny", "resume", "steer"},
         queue' \in Nat, typed' \in Nat, queue' <= typed', typed' <= MaxPrompts
  PROVE  SessionInv'
<1>1. /\ Len(mirror) \in Nat /\ Len(mirror') \in Nat /\ cursor \in 0..Len(mirror)
      /\ active \in {NoTurn} \cup TurnId
  <2>1. Len(mirror') \in Nat
    BY DEF ServerInv, TypeOK
  <2>2. QED BY <2>1, Sizes DEF SessionInv, ShellKnown
<1>2. TurnId \subseteq TurnId'
  BY DEF ServerMoves
<1>3. EventsNameTurns'
  <2>1. CASE UNCHANGED mirror
    BY <1>1, <1>2, <2>1 DEF SessionInv, EventsNameTurns, ServerMoves
  <2>2. CASE Len(mirror') = Len(mirror) + 1
    BY <1>1, <1>2, <2>2 DEF SessionInv, EventsNameTurns, ServerMoves
  <2>3. QED BY <2>1, <2>2 DEF ServerMoves
<1>4. ActiveRuns'
  BY <1>1 DEF SessionInv, ActiveRuns, ServerMoves, NoTurn
<1>5. Len(mirror) <= Len(mirror')
  BY <1>1 DEF ServerMoves
<1>6. AnswersAreNews'
  <2>1. main' = "starting" => cursor' <= request'.after
    <3>1. request.after \in Nat /\ (main = "starting" => cursor <= request.after)
      BY DEF SessionInv, AnswersAreNews, ServerInv, TypeOK, Request
    <3>2. QED BY <1>1, <3>1 DEF MainTells
  <2>2. ASSUME main' = "answering", answer'.kind = "run", answer'.ok
        PROVE  answer'.turn \in TurnId' /\ cursor' < Len(mirror')
    <3>1. CASE main = "answering" /\ UNCHANGED answer
      BY <1>1, <1>2, <1>5, <2>2, <3>1 DEF SessionInv, AnswersAreNews
    <3>2. CASE /\ main = "starting" /\ UNCHANGED mirror
               /\ answer'.turn \in TurnId /\ request.after < Len(mirror)
      <4>1. request.after \in Nat /\ cursor <= request.after
        BY <3>2 DEF SessionInv, AnswersAreNews, ServerInv, TypeOK, Request
      <4>2. QED BY <1>1, <1>2, <3>2, <4>1
    <3>3. QED BY <2>2, <3>1, <3>2 DEF MainTells
  <2>3. QED BY <2>1, <2>2 DEF AnswersAreNews
<1>7. ShellKnown'
  <2>1. active' \in {NoTurn} \cup TurnId' /\ pending' \in {NoTurn} \cup TurnId'
    BY <1>1, <1>2 DEF SessionInv, ShellKnown
  <2>2. cursor' \in 0..Len(mirror')
    BY <1>1, <1>5
  <2>3. QED BY <2>1, <2>2 DEF ShellKnown
<1>8. QED BY <1>3, <1>4, <1>6, <1>7 DEF SessionInv

LEMMA LastOfIsLast ==
  ASSUME NEW n \in Nat, NEW S \in SUBSET (1..n), S # {}
  PROVE  LastOf(S) \in S /\ \A k \in S : k <= LastOf(S)
<1> DEFINE Below == {n - k : k \in S}
<1>1. Below \subseteq Nat /\ Below # {}
  <2>1. PICK k \in S : TRUE
    OBVIOUS
  <2>2. n - k \in Below
    OBVIOUS
  <2>3. \A k1 \in S : n - k1 \in Nat
    OBVIOUS
  <2>4. QED BY <2>2, <2>3
<1>2. PICK i \in Below : \A k \in Below : i <= k
  <2> HIDE DEF Below
  <2>1. QED BY <1>1, LeastOfNaturals
<1>3. PICK x \in S : i = n - x
  OBVIOUS
<1>4. \A k \in S : n - k \in Below
  OBVIOUS
<1>5. \A k \in S : k <= x
  <2> HIDE DEF Below
  <2>1. QED BY <1>2, <1>3, <1>4
<1>6. QED BY <1>5 DEF LastOf

\* After a page of events up to a place in the mirror.
LEMMA DigestKeeps ==
  ASSUME SessionInv, NEW upto \in Nat, upto <= Len(mirror), Digest(upto),
         UNCHANGED <<turns, mirror>>
  PROVE  /\ cursor' \in 0..Len(mirror')
         /\ active' \in {NoTurn} \cup TurnId' /\ pending' \in {NoTurn} \cup TurnId'
         /\ ActiveRuns'
<1> DEFINE listed == (cursor + 1)..upto
           pauses == {i \in listed : mirror[i].kind = "paused"}
<1>1. /\ cursor \in 0..Len(mirror) /\ Len(mirror) \in Nat /\ TurnId' = TurnId
      /\ active \in {NoTurn} \cup TurnId /\ pending \in {NoTurn} \cup TurnId
  BY Sizes DEF SessionInv, ShellKnown, TurnId
<1>2. /\ cursor' = IF upto > cursor THEN upto ELSE cursor
      /\ pending' = IF pauses = {} THEN pending ELSE mirror[LastOf(pauses)].turn
      /\ active' = IF listed = {} THEN active
                   ELSE IF mirror[LastOf(listed)].kind = "started"
                   THEN mirror[LastOf(listed)].turn ELSE NoTurn
  BY DEF Digest
<1>3. cursor' \in 0..Len(mirror')
  BY <1>1, <1>2
<1>4. listed \in SUBSET (1..Len(mirror)) /\ pauses \in SUBSET (1..Len(mirror))
  BY <1>1
<1>5. \A i \in 1..Len(mirror) : mirror[i].turn \in TurnId
  BY DEF SessionInv, EventsNameTurns
<1>6. pending' \in {NoTurn} \cup TurnId'
  <2>1. pauses # {} => LastOf(pauses) \in 1..Len(mirror)
    <3> HIDE DEF pauses
    <3>1. QED BY <1>1, <1>4, LastOfIsLast
  <2> HIDE DEF pauses
  <2>2. QED BY <1>1, <1>2, <1>5, <2>1
<1>7. CASE listed = {}
  <2>1. ~(upto > cursor)
    <3>1. upto > cursor => upto \in listed
      BY <1>1
    <3>2. QED BY <1>7, <3>1
  <2>2. UNCHANGED <<cursor, active>>
    <3> HIDE DEF listed
    <3>1. QED BY <1>2, <1>7, <2>1
  <2>3. QED BY <1>1, <1>3, <1>6, <2>2 DEF SessionInv, ActiveRuns
<1>8. CASE listed # {}
  <2>1. upto \in listed /\ upto > cursor
    BY <1>1, <1>8
  <2>2. LastOf(listed) \in listed /\ \A k \in listed : k <= LastOf(listed)
    <3> HIDE DEF listed
    <3>1. QED BY <1>1, <1>4, <1>8, LastOfIsLast
  <2>3. LastOf(listed) = upto
    <3>1. LastOf(listed) \in Nat /\ LastOf(listed) <= upto
      BY <1>1, <2>2
    <3>2. upto <= LastOf(listed)
      BY <2>1, <2>2
    <3>3. QED BY <3>1, <3>2
  <2>4. active' = IF mirror[upto].kind = "started" THEN mirror[upto].turn ELSE NoTurn
    <3> HIDE DEF listed
    <3>1. QED BY <1>2, <1>8, <2>3
  <2>5. upto \in 1..Len(mirror) /\ cursor' = upto
    BY <1>1, <1>2, <2>1
  <2>6. active' \in {NoTurn} \cup TurnId'
    BY <1>1, <1>5, <2>4, <2>5
  <2>7. ActiveRuns'
    BY <1>1, <2>4, <2>5 DEF SessionInv, EventsNameTurns, ActiveRuns
  <2>8. QED BY <1>3, <1>6, <2>6, <2>7
<1>9. QED BY <1>7, <1>8

LEMMA TakeAnswerKeeps == ASSUME SessionInv, TakeAnswer PROVE SessionInv'
<1>1. /\ at = "call" /\ GiveAnswer /\ HandleAnswer /\ UNCHANGED <<queue, typed>>
      /\ main = "answering" /\ main' = "idle"
      /\ UNCHANGED <<turns, mirror>>
  BY DEF TakeAnswer, GiveAnswer
<1>2. ServerInv'
  BY <1>1, GiveAnswerKeeps DEF SessionInv
<1>3. TurnId' = TurnId /\ EventsNameTurns'
  BY <1>1 DEF SessionInv, EventsNameTurns, TurnId
<1>4. /\ cursor \in 0..Len(mirror') /\ Len(mirror) \in Nat
      /\ active \in {NoTurn} \cup TurnId' /\ pending \in {NoTurn} \cup TurnId'
  BY <1>1, <1>3, Sizes DEF SessionInv, ShellKnown
<1>5. answer.upto \in Nat /\ answer.upto <= Len(mirror)
  BY DEF SessionInv, ServerInv, TypeOK, Answer, Shown
<1>6. /\ at' \in {"keys", "poll", "start", "run", "boundary", "closed"}
      /\ calling' \in {calling, "none"}
  BY <1>1 DEF HandleAnswer
<1>7. /\ cursor' \in 0..Len(mirror')
      /\ active' \in {NoTurn} \cup TurnId' /\ pending' \in {NoTurn} \cup TurnId'
      /\ ActiveRuns'
  <2>1. CASE UNCHANGED <<active, pending, cursor>>
    BY <1>1, <1>4, <2>1 DEF SessionInv, ActiveRuns
  <2>2. CASE active' = NoTurn /\ pending' = NoTurn /\ UNCHANGED cursor
    BY <1>4, <2>2 DEF ActiveRuns
  <2>3. CASE Digest(answer.upto)
    BY <1>1, <1>5, <2>3, DigestKeeps
  <2>4. CASE /\ answer.ok /\ answer.kind = "run"
             /\ active' = answer.turn /\ UNCHANGED <<pending, cursor>>
    <3>1. answer.turn \in TurnId /\ cursor < Len(mirror)
      BY <1>1, <2>4 DEF SessionInv, AnswersAreNews
    <3>2. QED BY <1>1, <1>3, <1>4, <2>4, <3>1 DEF ActiveRuns
  <2>5. QED BY <1>1, <2>1, <2>2, <2>3, <2>4 DEF HandleAnswer
<1>8. AnswersAreNews'
  BY <1>1, <1>6 DEF AnswersAreNews
<1>9. ShellKnown'
  BY <1>1, <1>6, <1>7 DEF SessionInv, ShellKnown, Start
<1>10. QED BY <1>2, <1>3, <1>7, <1>8, <1>9 DEF SessionInv

\* The server's own steps.
LEMMA ServerNextKeeps == ASSUME SessionInv, ServerNext PROVE SessionInv'
<1>1. ServerMoves /\ MainTells /\ UNCHANGED request
  <2>1. CASE DriveNext
    <3>1. UNCHANGED request
      BY <2>1 DEF DriveNext, TakeInterrupt, PassCheck, Work, StartSubagentTurn, Panic, mainVars
    <3>2. QED BY <2>1, <3>1, DriveTells DEF SessionInv
  <2>2. ASSUME NEW j \in JobId, JobTakesLock(j)
        PROVE  ServerMoves /\ MainTells /\ UNCHANGED request
    BY <2>2, LockTells DEF SessionInv
  <2>3. CASE AnswerStart
    BY <2>3, AnswerStartTells DEF SessionInv
  <2>4. CASE AnswerInterrupt \/ Resume \/ Steer \/ Register
    BY <2>4, MainNextTells DEF SessionInv
  <2>5. QED BY <2>1, <2>2, <2>3, <2>4 DEF ServerNext
<1>2. ServerInv'
  <2>1. [Next]_vars
    BY DEF ServerNext, Next, MainNext
  <2>2. QED BY <2>1, StepKeeps DEF SessionInv
<1>3. UNCHANGED <<at, calling, active, pending, cursor, queue, typed>>
  BY DEF ServerNext, shellVars
<1>4. QED BY <1>1, <1>2, <1>3, ServerStepKeeps DEF SessionInv, ShellKnown, AnswersAreNews

-----------------------------------------------------------------------------
(* The shell's keys and its loop.                                          *)

LEMMA ThreadIsOne == Thread \in Threads
BY ServerAssumption DEF Thread

LEMMA ShellShape ==
  ASSUME SessionInv
  PROVE  /\ at \in {"keys", "poll", "start", "run", "boundary", "call", "closed"}
         /\ queue \in Nat /\ typed \in Nat /\ queue <= typed /\ typed <= MaxPrompts
         /\ MaxPrompts \in Nat
         /\ pending # NoTurn => pending \in TurnId
         /\ MutableTurn # NoTurn => MutableTurn \in TurnId
BY ShellAssumption DEF SessionInv, ShellKnown, MutableTurn

\* The shell does something that no turn, event, request or answer is about.
LEMMA ShellAloneKeeps ==
  ASSUME SessionInv, UNCHANGED <<vars, calling, active, pending, cursor>>,
         at' \in {"keys", "poll", "start"},
         queue' \in Nat, typed' \in Nat, queue' <= typed', typed' <= MaxPrompts
  PROVE  SessionInv'
<1>1. UNCHANGED <<turns, mirror, main, request, answer>>
  BY DEF vars, mainVars
<1>2. ServerInv'
  BY StepKeeps DEF SessionInv
<1>3. ServerMoves /\ MainTells
  BY <1>1, NothingMoves, MainIsSilent
<1>4. QED BY <1>2, <1>3, ServerStepKeeps DEF SessionInv, ShellKnown

LEMMA KeyKeeps == ASSUME SessionInv, KeyNext PROVE SessionInv'
<1>1. CASE QueuePrompt
  BY <1>1, ShellShape, ShellAloneKeeps DEF QueuePrompt
<1>2. CASE RestoreLatest
  BY <1>2, ShellShape, ShellAloneKeeps DEF RestoreLatest
<1>3. CASE SubmitPrompt
  <2>1. ServerMoves /\ MainTells /\ ServerInv'
    BY <1>3, ThreadIsOne, RegisterAsked DEF SubmitPrompt, SessionInv
  <2>2. queue' \in Nat /\ typed' \in Nat /\ queue' <= typed' /\ typed' <= MaxPrompts
    BY <1>3, ShellShape DEF SubmitPrompt
  <2>3. QED BY <1>3, <2>1, <2>2, ServerStepKeeps DEF SubmitPrompt, Call, Start
<1>4. CASE InterruptActiveTurn
  <2>1. ServerMoves /\ MainTells /\ ServerInv'
    BY <1>4, ShellShape, InterruptTells DEF InterruptActiveTurn, SessionInv
  <2>2. QED BY <1>4, <2>1, ShellShape, ServerStepKeeps DEF InterruptActiveTurn, Call, Start
<1>5. CASE SteerActiveTurn
  <2>1. ServerMoves /\ MainTells /\ ServerInv'
    BY <1>5, ShellShape, LockAsked DEF SteerActiveTurn, SessionInv
  <2>2. QED BY <1>5, <2>1, ShellShape, ServerStepKeeps DEF SteerActiveTurn, Call, Start
<1>6. CASE ResumePending
  <2>1. ServerMoves /\ MainTells /\ ServerInv'
    BY <1>6, ShellShape, LockAsked DEF ResumePending, SessionInv
  <2>2. QED BY <1>6, <2>1, ShellShape, ServerStepKeeps DEF ResumePending, Call, Start
<1>7. CASE DenyPending
  <2>1. ServerMoves /\ MainTells /\ ServerInv'
    BY <1>7, ShellShape, InterruptTells DEF DenyPending, SessionInv
  <2>2. QED BY <1>7, <2>1, ShellShape, ServerStepKeeps DEF DenyPending, Call, Start
<1>8. QED BY <1>1, <1>2, <1>3, <1>4, <1>5, <1>6, <1>7 DEF KeyNext

LEMMA LoopKeeps == ASSUME SessionInv, LoopNext PROVE SessionInv'
<1>1. CASE NoKey
  BY <1>1, ShellShape, ShellAloneKeeps DEF NoKey
<1>2. CASE PollEvents
  <2>1. ServerMoves /\ MainTells /\ ServerInv'
    BY <1>2, ThreadIsOne, ListTells DEF PollEvents, SessionInv
  <2>2. QED BY <1>2, <2>1, ShellShape, ServerStepKeeps DEF PollEvents, Call, Start
<1>3. CASE StartNextQueued
  <2>1. CASE Busy \/ queue = 0
    BY <1>3, <2>1, ShellShape, ShellAloneKeeps DEF StartNextQueued
  <2>2. CASE ~(Busy \/ queue = 0)
    <3>1. /\ queue' = queue - 1 /\ AskToRegister(Thread) /\ Call("followUp")
          /\ UNCHANGED <<active, pending, cursor, typed>>
      BY <1>3, <2>2 DEF StartNextQueued
    <3>2. ServerMoves /\ MainTells /\ ServerInv'
      BY <3>1, ThreadIsOne, RegisterAsked DEF SessionInv
    <3>3. queue' \in Nat /\ typed' \in Nat /\ queue' <= typed' /\ typed' <= MaxPrompts
      BY <2>2, <3>1, ShellShape
    <3>4. QED BY <3>1, <3>2, <3>3, ServerStepKeeps DEF Call, Start
  <2>3. QED BY <2>1, <2>2
<1>4. CASE RunPrompt
  <2>1. ServerMoves /\ MainTells /\ ServerInv'
    BY <1>4, ThreadIsOne, RunTells DEF RunPrompt, SessionInv
  <2>2. QED BY <1>4, <2>1, ShellShape, ServerStepKeeps DEF RunPrompt, SessionInv, ShellKnown
<1>5. CASE TakeAnswer
  BY <1>5, TakeAnswerKeeps
<1>6. QED BY <1>1, <1>2, <1>3, <1>4, <1>5 DEF LoopNext

LEMMA SessionStart == ShellInit => SessionInv
<1> SUFFICES ASSUME ShellInit PROVE SessionInv
  OBVIOUS
<1>1. ServerInv
  BY InitCorrect DEF ShellInit
<1>2. mirror = <<>> /\ main = "idle"
  BY DEF ShellInit, Init
<1>3. EventsNameTurns
  BY <1>2 DEF EventsNameTurns
<1>4. AnswersAreNews
  BY <1>2 DEF ShellInit, AnswersAreNews
<1>5. ActiveRuns
  BY DEF ShellInit, ActiveRuns
<1>6. ShellKnown
  BY <1>2, ShellAssumption DEF ShellInit, ShellKnown, Start
<1>7. QED BY <1>1, <1>3, <1>4, <1>5, <1>6 DEF SessionInv

LEMMA SessionStepKeeps == SessionInv /\ [ShellNext]_allVars => SessionInv'
<1> SUFFICES ASSUME SessionInv, [ShellNext]_allVars PROVE SessionInv'
  OBVIOUS
<1>1. CASE UNCHANGED allVars
  <2>1. UNCHANGED <<vars, at, calling, active, pending, cursor, queue, typed>>
    BY <1>1 DEF allVars, shellVars
  <2>2. UNCHANGED <<turns, mirror, main, request, answer>>
    BY <2>1 DEF vars, mainVars
  <2>3. ServerInv'
    BY <2>1, StepKeeps DEF SessionInv
  <2>4. QED BY <2>1, <2>2, <2>3 DEF SessionInv, ShellKnown, EventsNameTurns, AnswersAreNews,
                                    ActiveRuns, TurnId
<1>2. QED BY <1>1, KeyKeeps, LoopKeeps, ServerNextKeeps DEF ShellNext

LEMMA SessionInvariant == ShellSpec => []SessionInv
BY SessionStart, SessionStepKeeps, PTL DEF ShellSpec

\* The shell over the server keeps its types: what it shows as running or waiting
\* is a turn of the server, and no more prompts wait than were typed.
THEOREM SessionTypeCorrect == ShellSpec => []ShellTypeOK
<1>1. SessionInv => ShellTypeOK
  <2> SUFFICES ASSUME SessionInv PROVE ShellTypeOK
    OBVIOUS
  <2>1. queue \in 0..MaxPrompts /\ typed \in 0..MaxPrompts
    BY ShellShape
  <2>2. QED BY <2>1 DEF SessionInv, ServerInv, ShellKnown, ShellTypeOK
<1>2. QED BY <1>1, SessionInvariant, PTL

\* A shell that has listed every event shows no turn as running that is over,
\* whatever it and the server have done since.
THEOREM ActiveTurnCorrect == ShellSpec => []ActiveTurnIsAlive
<1>1. SessionInv => ActiveTurnIsAlive
  BY DEF SessionInv, ActiveRuns, ActiveTurnIsAlive, UpToDate
<1>2. QED BY <1>1, SessionInvariant, PTL
=============================================================================
