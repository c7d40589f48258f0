---------------------------- MODULE ProviderStream ----------------------------
(***************************************************************************)
(* The conversation of one turn with its model: what a request carries,    *)
(* how the pieces of an answer are put together, how the results of tools  *)
(* are handed back, and what a paused turn leaves behind.                  *)
(*                                                                         *)
(* Two wires are spoken: "codex", events about items that may arrive in    *)
(* any order and repeat, and "chat", numbered pieces of calls.  The        *)
(* arguments of a call are Pieces texts long: fewer or more are no JSON,   *)
(* none at all stand for no arguments.  An id is <<call>> or, for an item  *)
(* with an id of its own, <<call, item>>.                                  *)
(***************************************************************************)
EXTENDS Naturals, Sequences, SequencesExt, FiniteSets

CONSTANTS
  Calls,       \* ids the service gives to calls; ids are numbers, in their order
  ItemOf,      \* the id of the item of a call, or NoItem
  Known,       \* the calls of tools the turn has
  Histories,   \* earlier messages: sequences of [kind, turn, size]
  Pieces, MaxSteps,
  MaxMessages, MaxChars     \* of the history a request carries

ASSUME IdsAreNat == Known \subseteq Calls /\ Calls \subseteq Nat /\ ItemOf \in [Calls -> Nat]
ASSUME BoundsAreNat == {Pieces, MaxSteps, MaxMessages, MaxChars} \subseteq Nat

Turn == "now"
HistoryMessage == [kind : {"user", "assistant", "summary"}, turn : {"before", Turn}, size : Nat]
Earlier == {message \in HistoryMessage : message.turn # Turn}

ASSUME HistoriesAreEarlier == Histories \subseteq Seq(Earlier)

VARIABLES
  wire,        \* how the provider is spoken to
  history,     \* the messages of the thread, the prompt of the turn last
  messages,    \* what the provider sends with its next request
  phase,       \* ask, stream, tools, paused, done, failed
  reply,       \* what the service is answering, and how much it has sent
  parser,      \* what has been made of it
  calls,       \* calls of the step that are still to run
  paused,      \* the call the turn waits for
  steps,
  dropped      \* history: calls a pause or a resume has passed over

providerVars == <<wire, history, messages, phase, reply, parser, calls, paused, steps, dropped>>

NoItem == 0
FunctionCall == 1000    \* the key of the announced items that have no id
NoCall == [id |-> <<>>, pieces |-> 0, ask |-> "none"]

-----------------------------------------------------------------------------
(* The request.                                                            *)

Blank(message) == message.size = 0
IsPrompt(message) == message.kind = "user" /\ message.turn = Turn

Summaries ==
  {i \in DOMAIN history : history[i].kind = "summary" /\ ~Blank(history[i])}
Summary == IF Summaries = {} THEN <<>> ELSE <<history[Max(Summaries)]>>

\* Of what was said, the newest that fits, and every prompt of the turn; a
\* message that does not fit is passed over and older ones are still tried.
Passed(kept, message) ==
  \/ message.kind = "summary" \/ Blank(message)
  \/ ~IsPrompt(message) /\ \/ Len(kept.tail) >= MaxMessages
                            \/ kept.used + message.size > MaxChars

KeepMessage(kept, message) ==
  IF Passed(kept, message)
  THEN kept
  ELSE [tail |-> <<message>> \o kept.tail, used |-> kept.used + message.size]

NothingKept == [tail |-> <<>>, used |-> IF Summary = <<>> THEN 0 ELSE Summary[1].size]
KeptTail == FoldLeft(KeepMessage, NothingKept, Reverse(history)).tail

CompactProviderHistory == Summary \o KeptTail

\* The summary goes to the Codex service nowhere: its prompt has no such role.
Shown == IF wire = "codex" THEN KeptTail ELSE CompactProviderHistory

Prompt == [kind |-> "user", turn |-> Turn, size |-> 0]

\* The bug of a seed that never looks for the prompt in the history.
SeedWithPrompt(shown) == shown \o <<Prompt>>

SeedMessages(shown) ==
  IF \E i \in DOMAIN shown : IsPrompt(shown[i]) THEN shown ELSE Append(shown, Prompt)

Request == IF messages = <<>> THEN SeedMessages(Shown) ELSE messages

-----------------------------------------------------------------------------
(* The stream of the Codex service.                                        *)

EmptyParser == [text |-> FALSE, items |-> <<>>, raw |-> <<>>, partials |-> <<>>]

Id(call, item) == IF item \in {NoItem, call} THEN <<call>> ELSE <<call, item>>
CallItem(call, item, pieces) == [kind |-> "call", call |-> call, item |-> item, pieces |-> pieces]
TextItem == [kind |-> "assistant"]

\* The bug of taking every report of a call for a new one.
PushEveryFunctionCall(p, item) ==
  [p EXCEPT !.raw = Append(@, [id |-> Id(item.call, item.item), pieces |-> item.pieces]),
            !.items = Append(@, item)]

Reported(p, id) == \E i \in DOMAIN p.raw : p.raw[i].id = id

PushCodexFunctionCall(p, item) ==
  IF Reported(p, Id(item.call, item.item))
  THEN p
  ELSE [p EXCEPT !.raw = Append(@, [id |-> Id(item.call, item.item), pieces |-> item.pieces]),
                 !.items = Append(@, item)]

Key(call) == IF ItemOf[call] = NoItem THEN FunctionCall ELSE ItemOf[call]
NewPartial(key) == [call |-> key, named |-> FALSE, pieces |-> 0]
PartialOf(p, key) == IF key \in DOMAIN p.partials THEN p.partials[key] ELSE NewPartial(key)
SetPartial(p, key, entry) ==
  [p EXCEPT !.partials = [k \in DOMAIN @ \cup {key} |-> IF k = key THEN entry ELSE @[k]]]

ItemAdded(p, call) ==
  SetPartial(p, Key(call), [PartialOf(p, Key(call)) EXCEPT !.call = call, !.named = TRUE])
ArgumentsDelta(p, call) ==
  SetPartial(p, Key(call), [PartialOf(p, Key(call)) EXCEPT !.pieces = @ + 1])
ItemDone(p, call) == PushCodexFunctionCall(p, CallItem(call, ItemOf[call], Pieces))
MessageDone(p) == [p EXCEPT !.text = TRUE, !.items = Append(@, TextItem)]
MessageListed(p) ==
  [p EXCEPT !.text = TRUE,
            !.items = IF TextItem \in ToSet(@) THEN @ ELSE Append(@, TextItem)]

\* The final event may list the whole output once more.
Completed(p, listed, text) ==
  FoldLeft(ItemDone, IF text THEN MessageListed(p) ELSE p, listed)

\* The keys of the map of partials, as it is iterated.
InOrder(keys) ==
  CHOOSE order \in [1..Cardinality(keys) -> keys] :
    \A i, j \in DOMAIN order : i < j => order[i] < order[j]

\* A call that was announced and never finished counts as it stands.
FlushPartial(p, key) ==
  IF p.partials[key].named
  THEN PushCodexFunctionCall(p, CallItem(p.partials[key].call, key, p.partials[key].pieces))
  ELSE p
FlushPartials(p) == FoldLeft(FlushPartial, p, InOrder(DOMAIN p.partials))

-----------------------------------------------------------------------------
(* The stream of a chat service: pieces of calls by their number.          *)

ChatHead(p, index) ==
  SetPartial(p, index, [PartialOf(p, index) EXCEPT !.call = reply.calls[index], !.named = TRUE])
ChatArguments(p, index) ==
  SetPartial(p, index, [PartialOf(p, index) EXCEPT !.pieces = @ + 1])

\* A call without a head has no id.
ChatRaw(entry) == [id |-> IF entry.named THEN <<entry.call>> ELSE <<>>, pieces |-> entry.pieces]

CollectChat(p) ==
  LET keys == InOrder(DOMAIN p.partials)
      entry(i) == p.partials[keys[i]]
  IN [p EXCEPT
        !.raw = [i \in DOMAIN keys |-> ChatRaw(entry(i))],
        !.items = <<TextItem>> \o
                  [i \in DOMAIN keys |-> CallItem(entry(i).call, NoItem, entry(i).pieces)]]

-----------------------------------------------------------------------------
(* A whole answer.                                                         *)

\* An id, no other call with it, a known tool, and arguments that are an object.
WellFormed(raw) ==
  /\ \A i \in DOMAIN raw : /\ raw[i].id # <<>>
                           /\ raw[i].id[1] \in Known
                           /\ raw[i].pieces \in {0, Pieces}
  /\ IsInjective([i \in DOMAIN raw |-> raw[i].id])

Collected(p) == IF wire = "codex" THEN FlushPartials(p) ELSE CollectChat(p)

Kept(p) ==
  IF wire = "codex" /\ p.items = <<>> /\ p.text THEN <<TextItem>> ELSE p.items

ParseStep(p, whole) ==
  /\ reply' = [reply EXCEPT !.open = FALSE, !.whole = whole]
  /\ parser' = p
  /\ IF WellFormed(p.raw)
     THEN /\ messages' = messages \o Kept(p)
          /\ calls' = p.raw
          /\ phase' = "tools"
     ELSE /\ phase' = "failed"
          /\ UNCHANGED <<messages, calls>>
  /\ UNCHANGED <<wire, history, paused, steps, dropped>>

-----------------------------------------------------------------------------
(* The turn.                                                               *)

NoReply == [calls |-> <<>>, text |-> FALSE, open |-> FALSE, whole |-> FALSE,
            added |-> {}, sent |-> <<>>, done |-> {}, said |-> FALSE]

\* The service answers with calls it has not made before, or with none.
Replies ==
  LET used == {m.call : m \in {x \in ToSet(messages) : x.kind = "call"}}
      fresh == Calls \ used
  IN {<<>>} \cup {<<c>> : c \in fresh} \cup
     {asked \in fresh \X fresh : asked[1] # asked[2]}

NextStep ==
  /\ phase = "ask" /\ steps < MaxSteps
  /\ steps' = steps + 1
  /\ messages' = Request
  /\ parser' = EmptyParser
  /\ \E asked \in Replies, text \in BOOLEAN :
       reply' = [NoReply EXCEPT !.calls = asked, !.text = text, !.open = TRUE,
                                !.sent = [i \in DOMAIN asked |-> 0]]
  /\ phase' = "stream"
  /\ UNCHANGED <<wire, history, calls, paused, dropped>>

RequestFails ==
  /\ phase = "ask" /\ steps < MaxSteps
  /\ steps' = steps + 1
  /\ messages' = Request
  /\ phase' = "failed"
  /\ reply' = NoReply /\ parser' = EmptyParser
  /\ UNCHANGED <<wire, history, calls, paused, dropped>>

Receive(p, sent) ==
  /\ parser' = p
  /\ reply' = sent
  /\ UNCHANGED <<wire, history, messages, phase, calls, paused, steps, dropped>>

Streaming == phase = "stream" /\ ~reply.whole

TextArrives ==
  /\ Streaming /\ reply.text /\ ~parser.text
  /\ Receive([parser EXCEPT !.text = TRUE], reply)

\* A call is announced, its arguments follow in pieces, and it is reported whole.
CodexItemAdded(i) ==
  /\ Streaming /\ wire = "codex" /\ i \notin reply.added /\ i \notin reply.done
  /\ Receive(ItemAdded(parser, reply.calls[i]), [reply EXCEPT !.added = @ \cup {i}])

CodexArguments(i) ==
  /\ Streaming /\ wire = "codex" /\ i \in reply.added /\ reply.sent[i] < Pieces
  /\ Receive(ArgumentsDelta(parser, reply.calls[i]), [reply EXCEPT !.sent[i] = @ + 1])

CodexItemDone(i) ==
  /\ Streaming /\ wire = "codex" /\ i \notin reply.done
  /\ reply.sent[i] \in {0, Pieces}
  /\ Receive(ItemDone(parser, reply.calls[i]), [reply EXCEPT !.done = @ \cup {i}])

CodexMessageDone ==
  /\ Streaming /\ wire = "codex" /\ reply.text /\ ~reply.said
  /\ Receive(MessageDone(parser), [reply EXCEPT !.said = TRUE])

\* Whole: each call was reported, is listed now, or has come in pieces.
CodexCompleted(lists) ==
  /\ Streaming /\ wire = "codex"
  /\ lists \/ \A i \in DOMAIN reply.calls :
                i \in reply.done \/ (i \in reply.added /\ reply.sent[i] = Pieces)
  /\ Receive(IF lists THEN Completed(parser, reply.calls, reply.text) ELSE parser,
             [reply EXCEPT !.whole = TRUE])

CodexFailed ==
  /\ Streaming /\ wire = "codex"
  /\ phase' = "failed"
  /\ UNCHANGED <<wire, history, messages, reply, parser, calls, paused, steps, dropped>>

ChatCallHead(i) ==
  /\ Streaming /\ wire = "chat" /\ i \notin reply.added
  /\ Receive(ChatHead(parser, i), [reply EXCEPT !.added = @ \cup {i}])

ChatCallArguments(i) ==
  /\ Streaming /\ wire = "chat" /\ reply.sent[i] < Pieces
  /\ Receive(ChatArguments(parser, i), [reply EXCEPT !.sent[i] = @ + 1])

ChatDone ==
  /\ Streaming /\ wire = "chat"
  /\ reply.text => parser.text
  /\ \A i \in DOMAIN reply.calls : i \in reply.added /\ reply.sent[i] = Pieces
  /\ Receive(parser, [reply EXCEPT !.whole = TRUE])

\* The end of the connection, early or not, is the end of the answer.
EndOfStream == phase = "stream" /\ ParseStep(Collected(parser), reply.whole)

\* Without streaming the answer is one message.
AllPartials(asked) ==
  [i \in DOMAIN asked |-> [call |-> asked[i], named |-> TRUE, pieces |-> Pieces]]
ChatMessage ==
  /\ Streaming /\ wire = "chat" /\ parser = EmptyParser /\ reply.added = {}
  /\ ParseStep(CollectChat([EmptyParser EXCEPT !.partials = AllPartials(reply.calls)]), TRUE)

\* The bug of handing a result back under the id of the runtime.
ObserveUnderWholeId(seq, id) == Append(seq, [kind |-> "output", answers |-> id])

ObserveToolResult(seq, id) == Append(seq, [kind |-> "output", answers |-> <<id[1]>>])

RunTool ==
  /\ phase = "tools" /\ calls # <<>>
  /\ messages' = ObserveToolResult(messages, Head(calls).id)
  /\ calls' = Tail(calls)
  /\ UNCHANGED <<wire, history, phase, reply, parser, paused, steps, dropped>>

\* The messages are kept, and written with the events of the turn; the calls
\* behind the one that waits are not.
PauseStep(ask) ==
  /\ phase = "tools" /\ calls # <<>>
  /\ paused' = [NoCall EXCEPT !.id = Head(calls).id, !.pieces = Head(calls).pieces, !.ask = ask]
  /\ dropped' = dropped \cup {call.id[1] : call \in ToSet(Tail(calls))}
  /\ calls' = <<>>
  /\ phase' = "paused"
  /\ UNCHANGED <<wire, history, messages, reply, parser, steps>>

StepEnds ==
  /\ phase = "tools" /\ calls = <<>>
  /\ phase' = IF parser.raw = <<>> THEN "done" ELSE "ask"
  /\ UNCHANGED <<wire, history, messages, reply, parser, calls, paused, steps, dropped>>

-----------------------------------------------------------------------------
(* A paused turn.                                                          *)

NamesCall(entry, id) == entry.kind = "call" /\ id \in {<<entry.call>>, Id(entry.call, entry.item)}

\* The newest entry with that id; none leaves the question without its call.
ToolCallFromSnapshot(seq, id) ==
  LET hits == {i \in DOMAIN seq : NamesCall(seq[i], id)}
  IN IF hits = {} THEN NoCall
     ELSE [NoCall EXCEPT !.id = id,
                         !.pieces = seq[CHOOSE i \in hits : \A j \in hits : j <= i].pieces]

\* An approval has its call in its own event; a question finds it in the snapshot.
ProviderRestarts ==
  /\ phase = "paused" /\ paused.ask = "question"
  /\ paused' = [ToolCallFromSnapshot(messages, paused.id) EXCEPT !.ask = "question"]
  /\ reply' = NoReply /\ parser' = EmptyParser
  /\ UNCHANGED <<wire, history, messages, phase, calls, steps, dropped>>

\* A resume with the answer, or with the approval of the call that waits.  No
\* resume names a call that was approved before.
Resume ==
  /\ phase = "paused" /\ paused.id # <<>>
  /\ messages' = ObserveToolResult(messages, paused.id)
  /\ paused' = NoCall
  /\ phase' = "ask"
  /\ UNCHANGED <<wire, history, reply, parser, calls, steps, dropped>>

\* One that names no call, another one or one that was denied: there is nothing
\* to hand back, and the model is asked next.
ResumeUnanswered ==
  /\ phase = "paused" /\ paused.ask = "approval" /\ paused.id # <<>>
  /\ dropped' = dropped \cup {paused.id[1]}
  /\ paused' = NoCall
  /\ phase' = "ask"
  /\ UNCHANGED <<wire, history, messages, reply, parser, calls, steps>>

-----------------------------------------------------------------------------
ProviderInit ==
  /\ wire \in {"codex", "chat"}
  /\ \E past \in Histories, size \in {0, 1} :
       history = Append(past, [kind |-> "user", turn |-> Turn, size |-> size])
  /\ messages = <<>> /\ phase = "ask"
  /\ reply = NoReply /\ parser = EmptyParser
  /\ calls = <<>> /\ paused = NoCall /\ steps = 0 /\ dropped = {}

Stream ==
  \/ TextArrives \/ CodexMessageDone \/ CodexFailed \/ ChatDone \/ EndOfStream \/ ChatMessage
  \/ \E lists \in BOOLEAN : CodexCompleted(lists)
  \/ \E i \in DOMAIN reply.calls :
       \/ CodexItemAdded(i) \/ CodexArguments(i) \/ CodexItemDone(i)
       \/ ChatCallHead(i) \/ ChatCallArguments(i)

ProviderNext ==
  \/ NextStep \/ RequestFails \/ Stream
  \/ RunTool \/ StepEnds \/ ProviderRestarts \/ Resume \/ ResumeUnanswered
  \/ \E ask \in {"approval", "question"} : PauseStep(ask)

ProviderSpec == ProviderInit /\ [][ProviderNext]_providerVars

-----------------------------------------------------------------------------
(* Properties.                                                             *)

CallOf(entry) == entry.id[1]

\* An answer that arrived whole is told truly: whatever order its events came
\* in and however often a call was reported, the step has each call of the
\* answer once, with all of its arguments, and an answer that is refused was
\* refused for a tool the turn does not have.
StreamTellsTheStep ==
  (~reply.open /\ reply.whole) =>
    IF phase = "failed"
    THEN ~(ToSet(reply.calls) \subseteq Known)
    ELSE /\ Len(parser.raw) = Len(reply.calls)
         /\ {CallOf(raw) : raw \in ToSet(parser.raw)} = ToSet(reply.calls)
         /\ \A i \in DOMAIN parser.raw : parser.raw[i].pieces = Pieces

\* A result that is handed back names one call that was made before it, and no
\* call has two; when the next request is made, every call has its result
\* unless a pause or a resume has passed it over.  A pause passes over the calls
\* behind the one that waits, a resume that does not bring its approval that one.
OutputsAnswerCalls ==
  LET at(kind) == {i \in DOMAIN messages : messages[i].kind = kind}
      answers(o, c) == messages[o].answers = <<messages[c].call>>
  IN /\ \A o \in at("output") : \E c \in at("call") : c < o /\ answers(o, c)
     /\ \A o, p \in at("output") : messages[o].answers = messages[p].answers => o = p
     /\ phase = "ask" =>
          \A c \in at("call") :
            messages[c].call \in dropped \/ \E o \in at("output") : answers(o, c)

\* The prompt of the turn is in every request exactly once, however much of
\* the thread was left out, through pauses and restarts.
PromptIsSentOnce ==
  messages # <<>> => Cardinality({i \in DOMAIN messages : IsPrompt(messages[i])}) = 1
=============================================================================
