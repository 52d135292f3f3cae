----------------------------- MODULE LlmStream -----------------------------
(***************************************************************************)
(* A streamed answer of an LLM: the bytes a provider sends are cut into    *)
(* chunks anywhere, parsed into server-sent events, translated by the      *)
(* provider's adapter into stream events and accumulated into a response,  *)
(* by a command that prints the text or by a task that passes partial      *)
(* objects on through a bounded channel. The stream is pulled: nothing is  *)
(* read before what was read is used.                                      *)
(***************************************************************************)
EXTENDS Naturals, Sequences, SequencesExt, FiniteSets, TLC

CONSTANTS
  Scripts,  \* what providers may send: [provider, answer, error] (below)
  Capacity  \* messages the channel of partial objects holds: 32

(***************************************************************************)
(* An answer is a sequence of blocks [kind, pieces]: "text", "thinking" or *)
(* "call", and the number of pieces it comes in. Block b is call b of tool *)
(* b; its piece j is <<b, j>>. A provider that fails sends an error after  *)
(* its first `error' events instead of the others.                         *)
(***************************************************************************)

Kinds == {"text", "thinking", "call"}

ScriptOK(s) ==
  /\ s.provider \in {"anthropic", "openai", "gemini"}
  /\ s.answer \in Seq([kind : Kinds, pieces : Nat \ {0}])
  /\ s.error \in Nat

ASSUME StreamAssumption ==
  /\ \A s \in Scripts : ScriptOK(s)
  /\ Capacity \in Nat \ {0}

Pieces(b, n) == [j \in 1 .. n |-> <<b, j>>]

\* An event of a provider: about block b, with pieces of it.
Sent(type, b, pieces) == [type |-> type, block |-> b, pieces |-> pieces]

AnthropicBlock(b, n) ==
  <<Sent("content_block_start", b, <<>>)>>
    \o [j \in 1 .. n |-> Sent("content_block_delta", b, <<<<b, j>>>>)]
    \o <<Sent("content_block_stop", b, <<>>)>>

OpenAiBlock(b, n) ==
  <<Sent("output_item.added", b, <<>>)>>
    \o [j \in 1 .. n |-> Sent("delta", b, <<<<b, j>>>>)]
    \o <<Sent("output_item.done", b, <<>>)>>

\* Gemini sends a call in one chunk.
GeminiBlock(b, n, kind) ==
  IF kind = "call" THEN <<Sent("chunk", b, Pieces(b, n))>>
                   ELSE [j \in 1 .. n |-> Sent("chunk", b, <<<<b, j>>>>)]

BlockEvents(s, b) ==
  LET n == s.answer[b].pieces IN
  CASE s.provider = "anthropic" -> AnthropicBlock(b, n)
    [] s.provider = "openai"    -> OpenAiBlock(b, n)
    [] s.provider = "gemini"    -> GeminiBlock(b, n, s.answer[b].kind)

Opening(s) ==
  CASE s.provider = "anthropic" -> <<Sent("message_start", 0, <<>>)>>
    [] s.provider = "openai"    -> <<Sent("created", 0, <<>>)>>
    [] s.provider = "gemini"    -> <<>>

Closing(s) ==
  CASE s.provider = "anthropic" ->
         <<Sent("ping", 0, <<>>), Sent("message_delta", 0, <<>>), Sent("message_stop", 0, <<>>)>>
    [] s.provider = "openai" -> <<Sent("completed", 0, <<>>)>>
    [] s.provider = "gemini" -> <<Sent("last_chunk", 0, <<>>)>>

Whole(s) ==
  Opening(s) \o FlattenSeq([b \in DOMAIN s.answer |-> BlockEvents(s, b)]) \o Closing(s)

Events(s) ==
  IF s.error < Len(Whole(s)) THEN SubSeq(Whole(s), 1, s.error) \o <<Sent("error", 0, <<>>)>>
                             ELSE Whole(s)

\* The bytes of an event: its lines, each in two halves and ended by CR and LF.
\* The first half of a line holds the name of its field.
Half(field, e, h) == [field |-> field, event |-> e, half |-> h]
CR == Half("CR", 0, 0)
LF == Half("LF", 0, 0)

LineBytes(field, e) == <<Half(field, e, 1), Half(field, e, 2), CR, LF>>

EventBytes(s, e) ==
  (IF s.provider = "gemini" THEN <<>> ELSE LineBytes("event", e))
    \o LineBytes("data", e) \o <<CR, LF>>

Bytes(s) == FlattenSeq([i \in DOMAIN Events(s) |-> EventBytes(s, Events(s)[i])])

VARIABLES
  script,   \* what the provider sends
  mode,     \* who consumes: "complete" (the command) or "object" (stream_object)
  pos,      \* bytes received
  net,      \* "open", "eof", "broken"
  byteBuf,  \* bytes of a line that is not complete
  sse,      \* event_type and data_lines of the event that is not complete
  tr,       \* state of the translator
  queue,    \* stream events made of the last server-sent event, not yet used
  acc,      \* StreamAccumulator
  result,   \* of the consumer: "running", "Ok", "Err"
  channel,  \* partial objects not yet received
  open,     \* the receiver has not been dropped
  seen      \* partial objects received

netVars    == <<script, mode, pos, net>>
parserVars == <<byteBuf, sse, tr>>
readerVars == <<channel, open, seen>>
vars       == <<netVars, parserVars, queue, acc, result, readerVars>>

NewEvent == [etype |-> "message", data |-> <<>>]

Init ==
  /\ script \in Scripts
  /\ mode \in {"complete", "object"}
  /\ pos = 0
  /\ net = "open"
  /\ byteBuf = <<>>
  /\ sse = NewEvent
  /\ tr = [calls |-> {}, callId |-> 0, toolName |-> 0, started |-> FALSE]
  /\ queue = <<>>
  /\ acc = [text |-> <<>>, thinking |-> <<>>, calls |-> <<>>, finish |-> FALSE]
  /\ result = "running"
  /\ channel = <<>>
  /\ open = TRUE
  /\ seen = <<>>

(***************************************************************************)
(* parse_sse_stream                                                        *)
(***************************************************************************)

\* A payload that is cut short is no JSON.
Garbled == Sent("garbled", 0, <<>>)

\* What a line says, its LF already gone. A field is known by the first half.
Decoded(bytes) ==
  LET text == IF bytes # <<>> /\ Last(bytes) = CR THEN Front(bytes) ELSE bytes IN
  IF text = <<>> THEN [field |-> "blank", value |-> Garbled]
  ELSE IF text[1].half # 1 THEN [field |-> "unknown", value |-> Garbled]
  ELSE [field |-> text[1].field,
        value |-> IF Tail(text) = <<Half(text[1].field, text[1].event, 2)>> THEN text[1].event
                                                                          ELSE Garbled]

\* The event with one more field.
WithField(line) ==
  CASE line.field = "data"  -> [sse EXCEPT !.data = Append(@, line.value)]
    [] line.field = "event" -> [sse EXCEPT !.etype = line.value.type]
    [] OTHER -> sse

\* Several data lines are joined; none of the providers' payloads is.
Payload(event) == IF Len(event.data) = 1 THEN event.data[1] ELSE Garbled

(***************************************************************************)
(* The adapters' translate_stream                                          *)
(***************************************************************************)

\* A stream event: for a tool call with its id and perhaps its name, 0 for none.
Item(type, id, name, pieces) == [type |-> type, id |-> id, name |-> name, pieces |-> pieces]
Plain(type) == Item(type, 0, 0, <<>>)

KindOf(e) == script.answer[e.block].kind

Delta(e, id, name) ==
  CASE KindOf(e) = "text"     -> Item("ContentDelta", 0, 0, e.pieces)
    [] KindOf(e) = "thinking" -> Item("ThinkingDelta", 0, 0, e.pieces)
    [] KindOf(e) = "call"     -> Item("ToolCallDelta", id, name, e.pieces)

\* tr.calls are the open blocks that are tool calls. The name of a call comes
\* with its block, before its arguments.
AnthropicItems(e) ==
  CASE e.type = "message_start"       -> <<Plain("Start"), Plain("UsageDelta")>>
    [] e.type = "content_block_start" ->
         IF KindOf(e) = "call" THEN <<Item("ToolCallDelta", e.block, e.block, <<>>)>> ELSE <<>>
    [] e.type = "content_block_delta" ->
         <<Delta(e, IF e.block \in tr.calls THEN e.block ELSE 0, 0)>>
    [] e.type = "message_delta" -> <<Plain("UsageDelta")>>
    [] e.type = "message_stop"  -> <<Plain("End")>>
    [] e.type = "error"         -> <<Plain("Error")>>
    [] e.type = "garbled"       -> <<Plain("Err")>>
    [] OTHER                    -> <<>>

AnthropicState(e) ==
  CASE e.type = "content_block_start" /\ KindOf(e) = "call" ->
         [tr EXCEPT !.calls = @ \cup {e.block}]
    [] e.type = "content_block_stop" -> [tr EXCEPT !.calls = @ \ {e.block}]
    [] OTHER -> tr

\* The event field decides; a payload that cannot be read is passed over, and the
\* end needs none. Deltas belong to the call added last.
OpenAiItems(etype, e) ==
  CASE etype = "completed" -> <<Plain("End")>>
    [] etype = "error"     -> <<Plain("Error")>>
    [] etype = "created" /\ e # Garbled -> <<Plain("Start")>>
    [] etype = "delta" /\ e # Garbled   -> <<Delta(e, tr.callId, tr.toolName)>>
    [] OTHER -> <<>>

OpenAiState(etype, e) ==
  CASE etype = "output_item.done" -> [tr EXCEPT !.callId = 0, !.toolName = 0]
    [] etype = "output_item.added" /\ e # Garbled /\ KindOf(e) = "call" ->
         [tr EXCEPT !.callId = e.block, !.toolName = e.block]
    [] etype = "delta" /\ e # Garbled /\ KindOf(e) = "call" -> [tr EXCEPT !.toolName = 0]
    [] OTHER -> tr

\* A chunk is a whole response; an error reads as one without candidates.
GeminiItems(e) ==
  IF e = Garbled THEN <<Plain("Err")>>
  ELSE (IF tr.started THEN <<>> ELSE <<Plain("Start")>>)
         \o (IF e.type = "chunk" THEN <<Delta(e, e.block, e.block)>> ELSE <<>>)
         \o (IF e.type = "error" THEN <<>> ELSE <<Plain("UsageDelta")>>)
         \o (IF e.type = "last_chunk" THEN <<Plain("End")>> ELSE <<>>)

\* The adapter's turn with a server-sent event.
Translate(event) ==
  LET e == Payload(event) IN
  CASE script.provider = "anthropic" ->
         queue' = AnthropicItems(e) /\ tr' = AnthropicState(e)
    [] script.provider = "openai" ->
         queue' = OpenAiItems(event.etype, e) /\ tr' = OpenAiState(event.etype, e)
    [] script.provider = "gemini" ->
         queue' = GeminiItems(e) /\ tr' = [tr EXCEPT !.started = @ \/ e # Garbled]

\* The stream is asked for its next event.
Polled == result = "running" /\ queue = <<>>

\* A complete line is in the buffer.
HasLine == \E i \in DOMAIN byteBuf : byteBuf[i] = LF

EndOfLine == CHOOSE i \in DOMAIN byteBuf : byteBuf[i] = LF /\ \A k \in 1 .. i - 1 : byteBuf[k] # LF

AllBytes == [s \in Scripts |-> Bytes(s)]

\* A buffer that starts anew with every chunk.
ChunkFresh ==
  /\ Polled /\ net = "open" /\ ~HasLine
  /\ \E n \in pos + 1 .. Len(AllBytes[script]) :
       /\ byteBuf' = SubSeq(AllBytes[script], pos + 1, n)
       /\ pos' = n
  /\ UNCHANGED <<script, mode, net, sse, tr, queue, acc, result, readerVars>>

\* The next bytes, however many.
Chunk ==
  /\ Polled /\ net = "open" /\ ~HasLine
  /\ \E n \in pos + 1 .. Len(AllBytes[script]) :
       /\ byteBuf' = byteBuf \o SubSeq(AllBytes[script], pos + 1, n)
       /\ pos' = n
  /\ UNCHANGED <<script, mode, net, sse, tr, queue, acc, result, readerVars>>

\* One line leaves the buffer. A blank line ends an event that has data.
Line ==
  LET line == Decoded(SubSeq(byteBuf, 1, EndOfLine - 1)) IN
  /\ Polled /\ HasLine
  /\ byteBuf' = SubSeq(byteBuf, EndOfLine + 1, Len(byteBuf))
  /\ sse' = IF line.field = "blank" THEN NewEvent ELSE WithField(line)
  /\ IF line.field = "blank" /\ sse.data # <<>>
       THEN Translate(sse)
       ELSE UNCHANGED <<tr, queue>>
  /\ UNCHANGED <<netVars, acc, result, readerVars>>

\* The connection is closed, at the end or before: what is in the buffer is a
\* last line, and what it belongs to a last event.
Eof ==
  LET event == IF byteBuf = <<>> THEN sse ELSE WithField(Decoded(byteBuf)) IN
  /\ Polled /\ net = "open" /\ ~HasLine
  /\ net' = "eof"
  /\ byteBuf' = <<>>
  /\ sse' = NewEvent
  /\ IF event.data # <<>> THEN Translate(event) ELSE UNCHANGED <<tr, queue>>
  /\ UNCHANGED <<script, mode, pos, acc, result, readerVars>>

\* The connection breaks: a StreamError, and the stream is over.
Breaks ==
  /\ Polled /\ net = "open" /\ ~HasLine
  /\ net' = "broken"
  /\ queue' = <<Plain("Err")>>
  /\ UNCHANGED <<script, mode, pos, parserVars, acc, result, readerVars>>

(***************************************************************************)
(* StreamAccumulator and its users                                         *)
(***************************************************************************)

Call(item) == [id |-> item.id, name |-> item.name, arguments |-> item.pieces]

\* process_event: a call is found by its id. Errors are passed over.
Processed(item) ==
  LET same == {i \in DOMAIN acc.calls : acc.calls[i].id = item.id} IN
  CASE item.type = "ContentDelta"  -> [acc EXCEPT !.text = @ \o item.pieces]
    [] item.type = "ThinkingDelta" -> [acc EXCEPT !.thinking = @ \o item.pieces]
    [] item.type = "ToolCallDelta" /\ same = {} ->
         [acc EXCEPT !.calls = Append(@, Call(item))]
    [] item.type = "ToolCallDelta" /\ same # {} ->
         LET i == CHOOSE i \in same : \A k \in same : i <= k IN
         [acc EXCEPT !.calls[i].name = IF item.name = 0 THEN @ ELSE item.name,
                     !.calls[i].arguments = @ \o item.pieces]
    [] item.type = "End" -> [acc EXCEPT !.finish = TRUE]
    [] OTHER -> acc

Partial(a, complete) == [text |-> a.text, complete |-> complete]

\* A message that does not wait for room in the channel.
SendOrLose(m) ==
  IF open /\ Len(channel) < Capacity THEN channel' = Append(channel, m) ELSE UNCHANGED channel

\* A message that waits for room even when nobody can make any.
SendToOpen(m) == open /\ Len(channel) < Capacity /\ channel' = Append(channel, m)

\* A message that takes no notice of the capacity.
SendUnbounded(m) == channel' = IF open THEN Append(channel, m) ELSE channel

\* The sender waits for room; without a receiver the message is dropped.
Send(m) ==
  \/ open /\ Len(channel) < Capacity /\ channel' = Append(channel, m)
  \/ ~open /\ UNCHANGED channel

\* An event is processed, and the text so far passed on as a partial object.
Consume ==
  /\ result = "running"
  /\ queue # <<>> /\ Head(queue).type # "Err"
  /\ acc' = Processed(Head(queue))
  /\ IF mode = "object" /\ acc'.text # <<>> THEN Send(Partial(acc', FALSE)) ELSE UNCHANGED channel
  /\ queue' = Tail(queue)
  /\ UNCHANGED <<netVars, parserVars, result, open, seen>>

\* An error of the stream ends its use.
Fail ==
  /\ result = "running"
  /\ queue # <<>> /\ Head(queue).type = "Err"
  /\ result' = "Err"
  /\ UNCHANGED <<netVars, parserVars, queue, acc, readerVars>>

PiecesOf(kind) ==
  LET a == script.answer IN
  FlattenSeq([b \in DOMAIN a |-> IF a[b].kind = kind THEN Pieces(b, a[b].pieces) ELSE <<>>])

\* The text is the JSON of the object once it is whole.
IsObject(text) == text # <<>> /\ text = PiecesOf("text")

\* The stream is exhausted: a command has printed the text, whatever it is; an
\* object must be whole, and is passed on as such before the task returns it.
Finish ==
  /\ Polled /\ net = "eof"
  /\ \/ mode = "complete" /\ result' = "Ok" /\ UNCHANGED channel
     \/ mode = "object" /\ IsObject(acc.text) /\ result' = "Ok" /\ Send(Partial(acc, TRUE))
     \/ mode = "object" /\ ~IsObject(acc.text) /\ result' = "Err" /\ UNCHANGED channel
  /\ UNCHANGED <<netVars, parserVars, queue, acc, open, seen>>

\* The holder of the receiver takes a partial object ...
Receive ==
  /\ open /\ channel # <<>>
  /\ seen' = Append(seen, Head(channel))
  /\ channel' = Tail(channel)
  /\ UNCHANGED <<netVars, parserVars, queue, acc, result, open>>

\* ... or drops the receiver.
DropReceiver ==
  /\ mode = "object" /\ open
  /\ open' = FALSE
  /\ channel' = <<>>
  /\ UNCHANGED <<netVars, parserVars, queue, acc, result, seen>>

(***************************************************************************)
(* Specification                                                           *)
(***************************************************************************)

Network == Chunk \/ Eof \/ Breaks

Consumer == Line \/ Consume \/ Fail \/ Finish

Next == Network \/ Consumer \/ Receive \/ DropReceiver

Spec == Init /\ [][Next]_vars

\* The runtime polls the consumer, the connection ends, and the holder of the
\* receiver receives: a task that is awaited before its channel is read waits.
FairSpec == Spec /\ WF_vars(Network) /\ WF_vars(Consumer) /\ WF_vars(Receive)

(***************************************************************************)
(* Properties                                                              *)
(***************************************************************************)

\* Type invariant.
StreamTypeOK ==
  /\ script \in Scripts
  /\ pos \in 0 .. Len(AllBytes[script])
  /\ net \in {"open", "eof", "broken"}
  /\ result \in {"running", "Ok", "Err"}
  /\ tr.calls \subseteq DOMAIN script.answer
  /\ tr.callId \in {0} \cup DOMAIN script.answer
  /\ {acc.text, acc.thinking} \subseteq Seq(Nat \X Nat)
  /\ Len(channel) <= Capacity
  /\ open \in BOOLEAN

\* The tool calls of the answer, as a response lists them.
CallsOf ==
  LET a == script.answer
      Of(b) == IF a[b].kind = "call"
                 THEN <<[id |-> b, name |-> b, arguments |-> Pieces(b, a[b].pieces)]>>
                 ELSE <<>>
  IN  FlattenSeq([b \in DOMAIN a |-> Of(b)])

\* A call that is still arriving: its own id and name, the first of its pieces.
BeginsCall(c, whole) ==
  c.id = whole.id /\ c.name = whole.name /\ IsPrefix(c.arguments, whole.arguments)

\* Wherever the chunks are cut and the connection ends: text, thinking and the
\* arguments of every call are what the provider sent, in its order and in their
\* place, as far as they came; and a response with a finish reason is whole.
PiecesInPlace ==
  /\ IsPrefix(acc.text, PiecesOf("text"))
  /\ IsPrefix(acc.thinking, PiecesOf("thinking"))
  /\ Len(acc.calls) <= Len(CallsOf)
  /\ \A i \in DOMAIN acc.calls :
       IF i = Len(acc.calls) THEN BeginsCall(acc.calls[i], CallsOf[i])
                             ELSE acc.calls[i] = CallsOf[i]
  /\ acc.finish => /\ acc.text = PiecesOf("text")
                   /\ acc.thinking = PiecesOf("thinking")
                   /\ acc.calls = CallsOf

\* Partial objects only grow; one is the complete object, the last, and it is
\* there whenever the task succeeded and the receiver was kept.
PartialsGrow ==
  LET all == seen \o channel IN
  open =>
    /\ \A i, k \in DOMAIN all : i < k => IsPrefix(all[i].text, all[k].text) /\ ~all[i].complete
    /\ mode = "object" /\ result = "Ok" =>
         all # <<>> /\ Last(all).complete /\ Last(all).text = PiecesOf("text")

\* Every stream that ends is answered, whether the receiver is read or dropped.
StreamSettles == (net # "open") ~> (result # "running")

\* An error the provider reported reaches the caller: exit code 2 stands for an
\* LLM provider error, 0 for success.
ProviderErrorReported ==
  result = "Ok" /\ mode = "complete" /\ pos = Len(AllBytes[script]) =>
    Last(Events(script)).type # "error"
=============================================================================
