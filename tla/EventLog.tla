------------------------------ MODULE EventLog ------------------------------
(***************************************************************************)
(* The event files of oppi-server: one file of JSON lines for each thread. *)
(*                                                                         *)
(* The runtime numbers its events and mirrors them; after a request that   *)
(* succeeded ServerState::persist_new_events appends those past its cursor,*)
(* one line at a time, while background turns go on emitting.  An append   *)
(* may fail and the process may die with a line half written.  The next    *)
(* process loads the files, leaves out those it cannot parse, and keeps    *)
(* the thread numbers of all of them reserved.                             *)
(*                                                                         *)
(* A line is the event it holds, or says how a reader fails on it.         *)
(***************************************************************************)
EXTENDS Naturals, Sequences, SequencesExt

CONSTANTS
  MaxThreads,   \* bound: threads ever started
  MaxEvents,    \* bound: the highest event id
  MaxCrashes,   \* bound: times the process dies
  MaxFailures,  \* bound: appends that fail
  NotJson,      \* a line that is text and no event
  NotText       \* a line cut within a character: not even text

ASSUME EventLogAssumption ==
  /\ {MaxThreads, MaxEvents, MaxCrashes, MaxFailures} \subseteq Nat
  /\ NotJson # NotText

Threads == 1..MaxThreads
Event == [id : 1..MaxEvents, thread : Threads]
Corrupt == {NotJson, NotText}

VARIABLES
  files,        \* the file of each thread
  mode,         \* what the process does
  mirror,       \* its events, oldest first; while down, those it had
  next_event,   \* the last event id given
  next_thread,  \* the last thread number given
  persisted,    \* the cursor: events up to this id are written
  batch,        \* events persist_new_events has yet to write
  acked,        \* history: events written when a request succeeded
  crashes,      \* how often the process died
  failures      \* how many appends failed

vars == <<files, mode, mirror, next_event, next_thread, persisted, batch,
          acked, crashes, failures>>

File == [there : BOOLEAN, lines : Seq(Event \cup Corrupt), ended : BOOLEAN]
NoFile == [there |-> FALSE, lines |-> <<>>, ended |-> TRUE]

\* A thread exists in the runtime from its first event on.
Known(events) == {e.thread : e \in ToSet(events)}

TypeOK ==
  /\ files \in [Threads -> File]
  /\ mode \in {"starting", "serving", "inMemory", "down"}
  /\ mirror \in Seq(Event)
  /\ next_event \in 0..MaxEvents
  /\ next_thread \in 0..MaxThreads
  /\ persisted \in 0..MaxEvents
  /\ batch \in Seq(Event)
  /\ acked \subseteq Event
  /\ crashes \in 0..MaxCrashes
  /\ failures \in 0..MaxFailures

Init ==
  /\ files = [t \in Threads |-> NoFile]
  /\ mode = "serving"
  /\ mirror = <<>>
  /\ next_event = 0
  /\ next_thread = 0
  /\ persisted = 0
  /\ batch = <<>>
  /\ acked = {}
  /\ crashes = 0
  /\ failures = 0

-----------------------------------------------------------------------------
(* The files.                                                              *)

\* The append of FilesystemEventStore: what is written continues a line that
\* was left without its end, and spoils it.
WriteLine(file, line, ended) ==
  [there |-> TRUE, ended |-> ended,
   lines |-> IF file.ended THEN Append(file.lines, line)
             ELSE Append(Front(file.lines),
                         IF NotText \in {Last(file.lines), line} THEN NotText ELSE NotJson)]

\* What an append that does not finish leaves behind: nothing, an empty file,
\* part of a line, or all of it but its end.
Leftovers(file, e) ==
  {file, [file EXCEPT !.there = TRUE], WriteLine(file, NotJson, FALSE), WriteLine(file, e, FALSE)}

\* read_event_file stops at the first line it cannot read; 0 if there is none.
FirstCorrupt(file) == SelectInSeq(file.lines, LAMBDA line : line \in Corrupt)

\* Mutant of ReadEvents: the lines that cannot be read are left out.
ReadSkippingLines(file) == SelectSeq(file.lines, LAMBDA line : line \notin Corrupt)

\* list_all_events leaves out a whole file for one line that does not parse.
ReadEvents(file) == IF FirstCorrupt(file) = 0 THEN file.lines ELSE <<>>

\* It gives up on all of them for one that is not text.
Unreadable(file) == FirstCorrupt(file) # 0 /\ file.lines[FirstCorrupt(file)] = NotText

\* The events in the order of their ids, those of one id in the order they came.
InOrder(events, e) ==
  InsertAt(events, 1 + Cardinality({i \in DOMAIN events : events[i].id <= e.id}), e)

LoadFile(events, file) == FoldLeft(InOrder, events, ReadEvents(file))

ListAllEvents == FoldLeft(LoadFile, <<>>, files)

HigherId(id, e) == IF e.id > id THEN e.id ELSE id

MaxId(events) == FoldLeft(HigherId, 0, events)

\* max_thread_counter_hint goes by the names of the files.
ThreadCounterHint ==
  CHOOSE n \in 0..MaxThreads :
    /\ n = 0 \/ files[n].there
    /\ \A t \in Threads : files[t].there => t <= n

-----------------------------------------------------------------------------
(* The runtime.                                                            *)

Emit(t) ==
  /\ next_event < MaxEvents
  /\ next_event' = next_event + 1
  /\ mirror' = Append(mirror, [id |-> next_event + 1, thread |-> t])

\* start_thread, from a request: not while one is being persisted.
StartThread ==
  /\ mode = "serving"
  /\ batch = <<>>
  /\ next_thread < MaxThreads
  /\ next_thread' = next_thread + 1
  /\ Emit(next_thread + 1)
  /\ UNCHANGED <<files, mode, persisted, batch, acked, crashes, failures>>

\* Any other event: of a request, of a background turn at any time, or of
\* recover_incomplete_turns at the start.
EmitEvent ==
  /\ mode \in {"starting", "serving"}
  /\ mode = "starting" => batch = <<>>
  /\ \E t \in Known(mirror) : Emit(t)
  /\ UNCHANGED <<files, mode, next_thread, persisted, batch, acked, crashes, failures>>

-----------------------------------------------------------------------------
(* ServerState.                                                            *)

KeepNew(events, e) == IF e.id > persisted THEN Append(events, e) ELSE events

NewEvents == FoldLeft(KeepNew, <<>>, mirror)

PersistNewEvents ==
  /\ mode \in {"starting", "serving"}
  /\ batch = <<>>
  /\ NewEvents # <<>>
  /\ batch' = NewEvents
  /\ UNCHANGED <<files, mode, mirror, next_event, next_thread, persisted, acked, crashes, failures>>

\* The cursor moves when the last line of the batch is written.
AppendEvent ==
  /\ batch # <<>>
  /\ LET e == Head(batch) IN
       /\ files' = [files EXCEPT ![e.thread] = WriteLine(@, e, TRUE)]
       /\ batch' = Tail(batch)
       /\ IF Len(batch) = 1
          THEN /\ persisted' = e.id
               /\ acked' = acked \cup {f \in ToSet(mirror) : f.id <= e.id}
          ELSE UNCHANGED <<persisted, acked>>
  /\ UNCHANGED <<mode, mirror, next_event, next_thread, crashes, failures>>

\* The request is answered with an error and the cursor stays: the batch is
\* written again, from its first event on, after a later request.  At the
\* start the server goes on without the files.
FailAppend ==
  /\ batch # <<>>
  /\ failures < MaxFailures
  /\ failures' = failures + 1
  /\ LET e == Head(batch) IN
       \E left \in Leftovers(files[e.thread], e)
                     \cup {WriteLine(files[e.thread], NotText, FALSE)} :
         files' = [files EXCEPT ![e.thread] = left]
  /\ batch' = <<>>
  /\ mode' = IF mode = "starting" THEN "inMemory" ELSE mode
  /\ UNCHANGED <<mirror, next_event, next_thread, persisted, acked, crashes>>

\* The process dies, in the middle of an append if one is under way: between
\* two writes to the file, which cuts no character.
Crash ==
  /\ mode # "down"
  /\ crashes < MaxCrashes
  /\ crashes' = crashes + 1
  /\ mode' = "down"
  /\ batch' = <<>>
  /\ IF batch = <<>> THEN UNCHANGED files
     ELSE LET e == Head(batch) IN
            \E left \in Leftovers(files[e.thread], e) :
              files' = [files EXCEPT ![e.thread] = left]
  /\ UNCHANGED <<mirror, next_event, next_thread, persisted, acked, failures>>

\* with_persistence, up to the turns it recovers; when it fails the server
\* starts without the files.
Restart ==
  /\ mode = "down"
  /\ IF \E t \in Threads : Unreadable(files[t])
     THEN /\ mode' = "inMemory"
          /\ UNCHANGED <<mirror, next_event, next_thread, persisted>>
     ELSE /\ mode' = "starting"
          /\ mirror' = ListAllEvents
          /\ next_event' = MaxId(ListAllEvents)
          /\ persisted' = MaxId(ListAllEvents)
          /\ next_thread' = ThreadCounterHint
  /\ UNCHANGED <<files, batch, acked, crashes, failures>>

Serve ==
  /\ mode = "starting"
  /\ NewEvents = <<>>
  /\ mode' = "serving"
  /\ UNCHANGED <<files, mirror, next_event, next_thread, persisted, batch, acked, crashes, failures>>

Next ==
  \/ StartThread \/ EmitEvent
  \/ PersistNewEvents \/ AppendEvent \/ FailAppend
  \/ Crash \/ Restart \/ Serve

Spec == Init /\ [][Next]_vars

-----------------------------------------------------------------------------
(* Properties.                                                             *)

\* A thread the next process has, it has with every event some request was
\* answered for: batches written again, lines run into each other and crashes
\* within a batch cost whole threads and never a part of one.
LoadedThreadsAreWhole ==
  mode \in {"starting", "serving"} =>
    \A e \in acked : e.thread \in Known(mirror) => e \in ToSet(mirror)
=============================================================================
