--------------------------- MODULE LlmStreamProofs ---------------------------
(***************************************************************************)
(* A streamed answer is put together right, for every script of a provider *)
(* and however its bytes are cut into chunks: the parser recovers the      *)
(* events in their order, the translators keep every piece in its place,   *)
(* and the partial objects of a task only grow.                            *)
(***************************************************************************)
EXTENDS LlmStream, Induction

(* ------------------------------- the bytes ------------------------------ *)

\* A sequence that ends at its first x.
EndsAt(l, x) == Len(l) > 0 /\ l[Len(l)] = x /\ \A i \in 1 .. Len(l) - 1 : l[i] # x

Has(buf, x)     == \E i \in DOMAIN buf : buf[i] = x
FirstAt(buf, x) == CHOOSE i \in DOMAIN buf : buf[i] = x /\ \A k \in 1 .. i - 1 : buf[k] # x

\* The line l is cut off at the first x, and what is left of the buffer begins t.
CutOff(S, buf, rest, l, t, x) ==
  /\ FirstAt(buf, x) = Len(l)
  /\ SubSeq(buf, 1, Len(l) - 1) = SubSeq(l, 1, Len(l) - 1)
  /\ SubSeq(buf, Len(l) + 1, Len(buf)) \in Seq(S)
  /\ SubSeq(buf, Len(l) + 1, Len(buf)) \o rest = t

\* The buffer holds the beginning of the line.
Begins(buf, l) == Len(buf) < Len(l) /\ buf = SubSeq(l, 1, Len(buf))

\* The first line of a buffer, with what is still to come behind it: the line ends at
\* the first x, and a buffer without one holds the beginning of the line.
LEMMA CutLine ==
  ASSUME NEW S, NEW buf \in Seq(S), NEW rest \in Seq(S), NEW l \in Seq(S), NEW t \in Seq(S), NEW x,
         buf \o rest = l \o t, EndsAt(l, x)
  PROVE  /\ Has(buf, x) => CutOff(S, buf, rest, l, t, x)
         /\ ~Has(buf, x) => Begins(buf, l)
<1> USE DEF EndsAt, Has, FirstAt, CutOff, Begins
<1>1. /\ Len(buf) \in Nat /\ Len(rest) \in Nat /\ Len(l) \in Nat /\ Len(t) \in Nat
      /\ DOMAIN buf = 1 .. Len(buf)
      /\ Len(buf) + Len(rest) = Len(l) + Len(t)
  <2>1. Len(buf \o rest) = Len(buf) + Len(rest) /\ Len(l \o t) = Len(l) + Len(t)
    BY ConcatProperties
  <2> QED BY <2>1
<1>2. \A i \in 1 .. Len(buf) : i <= Len(l) => buf[i] = l[i]
  <2> SUFFICES ASSUME NEW i \in 1 .. Len(buf), i <= Len(l) PROVE buf[i] = l[i]
    OBVIOUS
  <2>1. (buf \o rest)[i] = buf[i] /\ (l \o t)[i] = l[i]
    BY <1>1, ConcatProperties
  <2> QED BY <2>1
<1>3. ASSUME NEW i \in DOMAIN buf, buf[i] = x
      PROVE  Len(l) <= Len(buf)
  <2>1. CASE i < Len(l)
    BY <1>1, <1>2, <1>3, <2>1
  <2>2. CASE i >= Len(l)
    BY <1>1, <1>3, <2>2
  <2> QED BY <1>1, <2>1, <2>2
<1>4. ASSUME Len(l) <= Len(buf)
      PROVE  /\ (CHOOSE i \in DOMAIN buf : buf[i] = x /\ \A k \in 1 .. i - 1 : buf[k] # x) = Len(l)
             /\ SubSeq(buf, 1, Len(l) - 1) = SubSeq(l, 1, Len(l) - 1)
             /\ SubSeq(buf, Len(l) + 1, Len(buf)) \in Seq(S)
             /\ SubSeq(buf, Len(l) + 1, Len(buf)) \o rest = t
  <2> DEFINE First(i) == buf[i] = x /\ \A k \in 1 .. i - 1 : buf[k] # x
  <2>1. Len(l) \in DOMAIN buf /\ First(Len(l))
    BY <1>1, <1>2, <1>4
  <2>2. ASSUME NEW i \in DOMAIN buf, First(i) PROVE i = Len(l)
    <3>1. i >= Len(l)
      BY <1>1, <1>2, <1>4, <2>2
    <3>2. ~(i > Len(l))
      BY <1>1, <2>1, <2>2
    <3> QED BY <1>1, <3>1, <3>2
  <2>3. (CHOOSE i \in DOMAIN buf : First(i)) = Len(l)
    <3> HIDE DEF First
    <3> QED BY <2>1, <2>2
  <2>4. SubSeq(buf, 1, Len(l) - 1) = SubSeq(l, 1, Len(l) - 1)
    BY <1>1, <1>2, <1>4
  <2> DEFINE left == SubSeq(buf, Len(l) + 1, Len(buf))
  <2>5. /\ left \in Seq(S)
        /\ Len(left) = Len(buf) - Len(l)
        /\ \A i \in 1 .. Len(buf) - Len(l) : left[i] = buf[Len(l) + i]
    <3>1. Len(l) + 1 \in Int /\ Len(buf) \in Int /\ \A i \in Len(l) + 1 .. Len(buf) : buf[i] \in S
      BY <1>1
    <3>2. /\ left \in Seq(S)
          /\ Len(left) = IF Len(l) + 1 <= Len(buf) THEN Len(buf) - (Len(l) + 1) + 1 ELSE 0
          /\ \A i \in 1 .. Len(buf) - (Len(l) + 1) + 1 : left[i] = buf[(Len(l) + 1) + i - 1]
      BY <3>1, SubSeqProperties
    <3> HIDE DEF left
    <3>3. Len(left) = Len(buf) - Len(l)
      <4>1. CASE Len(l) + 1 <= Len(buf)
        <5>1. Len(left) = Len(buf) - (Len(l) + 1) + 1
          BY <3>2, <4>1, Zenon
        <5> QED BY <1>1, <5>1
      <4>2. CASE ~(Len(l) + 1 <= Len(buf))
        <5>1. Len(left) = 0
          BY <3>2, <4>2, Zenon
        <5> QED BY <1>1, <1>4, <4>2, <5>1
      <4> QED BY <4>1, <4>2
    <3>4. ASSUME NEW i \in 1 .. Len(buf) - Len(l) PROVE left[i] = buf[Len(l) + i]
      <4>1. i \in 1 .. Len(buf) - (Len(l) + 1) + 1 /\ (Len(l) + 1) + i - 1 = Len(l) + i
        BY <1>1
      <4> QED BY <3>2, <4>1
    <3> QED BY <3>2, <3>3, <3>4
  <2> HIDE DEF left
  <2>6. left \o rest = t
    <3>1. left \o rest \in Seq(S) /\ Len(left \o rest) = Len(t)
      BY <1>1, <2>5, ConcatProperties
    <3>2. ASSUME NEW i \in 1 .. Len(t) PROVE (left \o rest)[i] = t[i]
      <4>1. (l \o t)[Len(l) + i] = t[i]
        BY <1>1
      <4>2. CASE i <= Len(left)
        <5>1. (left \o rest)[i] = buf[Len(l) + i]
          BY <1>1, <1>4, <2>5, <4>2
        <5>2. (buf \o rest)[Len(l) + i] = buf[Len(l) + i]
          BY <1>1, <1>4, <2>5, <4>2
        <5> QED BY <4>1, <5>1, <5>2
      <4>3. CASE i > Len(left)
        <5>1. (left \o rest)[i] = rest[i - Len(left)]
          BY <1>1, <1>4, <2>5, <4>3, SMTT(30)
        <5>2. (buf \o rest)[Len(l) + i] = rest[Len(l) + i - Len(buf)]
          <6>1. Len(l) + i \in 1 .. Len(buf) + Len(rest) /\ ~(Len(l) + i <= Len(buf))
            BY <1>1, <1>4, <2>5, <4>3, SMTT(30)
          <6> QED BY <6>1, ConcatProperties
        <5>3. i - Len(left) = Len(l) + i - Len(buf)
          BY <1>1, <1>4, <2>5
        <5> QED BY <4>1, <5>1, <5>2, <5>3
      <4> QED BY <1>1, <2>5, <4>2, <4>3
    <3> QED BY <3>1, <3>2, SeqEqual
  <2> QED BY <2>3, <2>4, <2>5, <2>6 DEF left
<1>5. ASSUME \A i \in DOMAIN buf : buf[i] # x
      PROVE  Len(buf) < Len(l) /\ buf = SubSeq(l, 1, Len(buf))
  <2>1. Len(buf) < Len(l)
    <3>1. Len(l) <= Len(buf) => Len(l) \in DOMAIN buf /\ buf[Len(l)] = l[Len(l)]
      BY <1>1, <1>2
    <3> QED BY <1>1, <1>5, <3>1
  <2> QED BY <1>1, <1>2, <2>1
<1> QED BY <1>3, <1>4, <1>5

(* ------------------------------- the events ----------------------------- *)

EventType ==
  {"message_start", "content_block_start", "content_block_delta", "content_block_stop",
   "ping", "message_delta", "message_stop",
   "created", "output_item.added", "delta", "output_item.done", "completed",
   "chunk", "last_chunk", "error"}

Piece   == Nat \X Nat
SseEvent == [type : EventType, block : Nat, pieces : Seq(Piece)]

\* The pieces of a block are a sequence of that length.
LEMMA PiecesTyped ==
  ASSUME NEW b \in Nat, NEW n \in Nat
  PROVE  /\ Pieces(b, n) \in Seq(Piece)
         /\ Len(Pieces(b, n)) = n
         /\ \A j \in 1 .. n : Pieces(b, n)[j] = <<b, j>>
BY DEF Pieces, Piece

\* What a provider sends are events.
LEMMA SentTyped ==
  /\ \A type \in EventType, b \in Nat, pieces \in Seq(Piece) : Sent(type, b, pieces) \in SseEvent
  /\ \A type, b, pieces : /\ Sent(type, b, pieces).type = type
                          /\ Sent(type, b, pieces).block = b
                          /\ Sent(type, b, pieces).pieces = pieces
BY DEF Sent, SseEvent

\* Of an answer block: its kind, and how many pieces it has.
LEMMA BlockKnown ==
  ASSUME NEW s, ScriptOK(s), NEW b \in DOMAIN s.answer
  PROVE  /\ b \in Nat \ {0} /\ DOMAIN s.answer = 1 .. Len(s.answer) /\ Len(s.answer) \in Nat
         /\ s.answer[b].kind \in Kinds /\ s.answer[b].pieces \in Nat \ {0}
<1>1. s.answer \in Seq([kind : Kinds, pieces : Nat \ {0}])
  BY DEF ScriptOK
<1>2. DOMAIN s.answer = 1 .. Len(s.answer) /\ Len(s.answer) \in Nat
  BY <1>1, LenProperties
<1>3. b \in 1 .. Len(s.answer)
  BY <1>2
<1>4. s.answer[b] \in [kind : Kinds, pieces : Nat \ {0}]
  BY <1>1, <1>3, ElementOfSeq
<1> QED BY <1>2, <1>3, <1>4

\* One piece alone.
LEMMA OnePiece == \A b, j \in Nat : <<<<b, j>>>> \in Seq(Piece)
BY DEF Piece

\* The events of a block that has a first and a last one around its n pieces.
Framed(es, b, n, first, type, last) ==
  /\ Len(es) = n + 2
  /\ es[1] = Sent(first, b, <<>>)
  /\ \A j \in 1 .. n : es[j + 1] = Sent(type, b, <<<<b, j>>>>)
  /\ es[n + 2] = Sent(last, b, <<>>)

\* The events of a block, by provider, each at its place.
LEMMA BlockShape ==
  ASSUME NEW s, ScriptOK(s), NEW b \in DOMAIN s.answer
  PROVE  LET n == s.answer[b].pieces
             es == BlockEvents(s, b)
         IN  /\ es \in Seq(SseEvent)
             /\ Len(es) >= 1
             /\ s.provider = "anthropic" =>
                  Framed(es, b, n, "content_block_start", "content_block_delta", "content_block_stop")
             /\ s.provider = "openai" =>
                  Framed(es, b, n, "output_item.added", "delta", "output_item.done")
             /\ s.provider = "gemini" /\ s.answer[b].kind = "call" =>
                  Len(es) = 1 /\ es[1] = Sent("chunk", b, Pieces(b, n))
             /\ s.provider = "gemini" /\ s.answer[b].kind # "call" =>
                  /\ Len(es) = n
                  /\ \A j \in 1 .. n : es[j] = Sent("chunk", b, <<<<b, j>>>>)
<1> DEFINE n == s.answer[b].pieces
           Around(first, type, last) ==
             <<Sent(first, b, <<>>)>> \o [j \in 1 .. n |-> Sent(type, b, <<<<b, j>>>>)]
               \o <<Sent(last, b, <<>>)>>
<1>1. n \in Nat \ {0} /\ b \in Nat
  BY BlockKnown
<1>2. ASSUME NEW type \in EventType
      PROVE  LET ds == [j \in 1 .. n |-> Sent(type, b, <<<<b, j>>>>)]
             IN  ds \in Seq(SseEvent) /\ Len(ds) = n
  <2>1. \A j \in 1 .. n : Sent(type, b, <<<<b, j>>>>) \in SseEvent
    <3> SUFFICES ASSUME NEW j \in 1 .. n PROVE Sent(type, b, <<<<b, j>>>>) \in SseEvent
      OBVIOUS
    <3>1. <<<<b, j>>>> \in Seq(Piece)
      BY <1>1, OnePiece
    <3> QED BY <1>1, <3>1, SentTyped
  <2> DEFINE e(j) == Sent(type, b, <<<<b, j>>>>)
  <2>2. \A j \in 1 .. n : e(j) \in SseEvent
    BY <2>1
  <2> HIDE DEF e
  <2>3. [j \in 1 .. n |-> e(j)] \in Seq(SseEvent) /\ Len([j \in 1 .. n |-> e(j)]) = n
    BY <1>1, <2>2
  <2> QED BY <2>3 DEF e
<1>3. ASSUME NEW first \in EventType, NEW type \in EventType, NEW last \in EventType
      PROVE  /\ Around(first, type, last) \in Seq(SseEvent)
             /\ Framed(Around(first, type, last), b, n, first, type, last)
  <2> DEFINE ds == [j \in 1 .. n |-> Sent(type, b, <<<<b, j>>>>)]
             x == Sent(first, b, <<>>)
             y == Sent(last, b, <<>>)
  <2>1. x \in SseEvent /\ y \in SseEvent
    BY <1>1, SentTyped, EmptySeq
  <2>2. ds \in Seq(SseEvent) /\ Len(ds) = n /\ \A j \in 1 .. n : ds[j] = Sent(type, b, <<<<b, j>>>>)
    BY <1>2
  <2> HIDE DEF ds, x, y
  <2>3. <<x>> \o ds \in Seq(SseEvent) /\ Len(<<x>> \o ds) = n + 1
    BY <1>1, <2>1, <2>2
  <2>4. /\ (<<x>> \o ds \o <<y>>) \in Seq(SseEvent)
        /\ Len(<<x>> \o ds \o <<y>>) = n + 2
        /\ (<<x>> \o ds \o <<y>>)[1] = x
        /\ (<<x>> \o ds \o <<y>>)[n + 2] = y
    BY <1>1, <2>1, <2>2, <2>3
  <2>5. \A j \in 1 .. n : (<<x>> \o ds \o <<y>>)[j + 1] = ds[j]
    <3>1. \A j \in 1 .. n : (<<x>> \o ds)[j + 1] = ds[j]
      BY <1>1, <2>1, <2>2, <2>3
    <3> QED BY <1>1, <2>1, <2>3, <3>1
  <2> QED BY <2>2, <2>4, <2>5 DEF x, y, ds, Framed
<1>4. Pieces(b, n) \in Seq(Piece)
  BY <1>1, PiecesTyped
<1>5. CASE s.provider = "anthropic"
  <2>1. BlockEvents(s, b) = Around("content_block_start", "content_block_delta", "content_block_stop")
    BY <1>5 DEF BlockEvents, AnthropicBlock
  <2>2. {"content_block_start", "content_block_delta", "content_block_stop"} \subseteq EventType
    BY DEF EventType
  <2> HIDE DEF Around
  <2>3. /\ BlockEvents(s, b) \in Seq(SseEvent)
        /\ Framed(BlockEvents(s, b), b, n, "content_block_start", "content_block_delta", "content_block_stop")
    BY <1>3, <2>1, <2>2
  <2>4. Len(BlockEvents(s, b)) >= 1
    BY <1>1, <2>3 DEF Framed
  <2> QED BY <1>5, <2>3, <2>4
<1>6. CASE s.provider = "openai"
  <2>1. BlockEvents(s, b) = Around("output_item.added", "delta", "output_item.done")
    BY <1>6 DEF BlockEvents, OpenAiBlock
  <2>2. {"output_item.added", "delta", "output_item.done"} \subseteq EventType
    BY DEF EventType
  <2> HIDE DEF Around
  <2>3. /\ BlockEvents(s, b) \in Seq(SseEvent)
        /\ Framed(BlockEvents(s, b), b, n, "output_item.added", "delta", "output_item.done")
    BY <1>3, <2>1, <2>2
  <2>4. Len(BlockEvents(s, b)) >= 1
    BY <1>1, <2>3 DEF Framed
  <2> QED BY <1>6, <2>3, <2>4
<1>7. CASE s.provider = "gemini" /\ s.answer[b].kind = "call"
  <2>1. BlockEvents(s, b) = <<Sent("chunk", b, Pieces(b, n))>>
    BY <1>7 DEF BlockEvents, GeminiBlock
  <2>2. Sent("chunk", b, Pieces(b, n)) \in SseEvent
    BY <1>1, <1>4, SentTyped DEF EventType
  <2> QED BY <1>7, <2>1, <2>2
<1>8. CASE s.provider = "gemini" /\ s.answer[b].kind # "call"
  <2>1. BlockEvents(s, b) = [j \in 1 .. n |-> Sent("chunk", b, <<<<b, j>>>>)]
    BY <1>8 DEF BlockEvents, GeminiBlock
  <2>2. "chunk" \in EventType
    BY DEF EventType
  <2> QED BY <1>1, <1>2, <1>8, <2>1, <2>2
<1> QED BY <1>5, <1>6, <1>7, <1>8 DEF ScriptOK

Blocks(s) == [b \in DOMAIN s.answer |-> BlockEvents(s, b)]

\* How many events a provider has sent with its opening and b blocks of its answer.
SentWith(s, b) == Len(Opening(s)) + Len(FlattenSeq(SubSeq(Blocks(s), 1, b)))

\* The parts of a script are sequences of events.
LEMMA PartsTyped ==
  ASSUME NEW s, ScriptOK(s)
  PROVE  /\ Opening(s) \in Seq(SseEvent)
         /\ Closing(s) \in Seq(SseEvent)
         /\ Blocks(s) \in Seq(Seq(SseEvent))
         /\ Len(Blocks(s)) = Len(s.answer)
         /\ \A b \in 1 .. Len(s.answer) : Blocks(s)[b] = BlockEvents(s, b)
         /\ FlattenSeq(Blocks(s)) \in Seq(SseEvent)
         /\ Whole(s) \in Seq(SseEvent)
         /\ s.provider = "anthropic" => Opening(s) = <<Sent("message_start", 0, <<>>)>>
         /\ s.provider = "openai" => Opening(s) = <<Sent("created", 0, <<>>)>>
         /\ s.provider = "gemini" => Opening(s) = <<>>
<1>1. \A type \in EventType : Sent(type, 0, <<>>) \in SseEvent
  BY SentTyped, EmptySeq
<1>2. {"message_start", "ping", "message_delta", "message_stop", "created", "completed", "last_chunk"}
        \subseteq EventType
  BY DEF EventType
<1>0. ASSUME NEW x \in EventType PROVE <<Sent(x, 0, <<>>)>> \in Seq(SseEvent)
  <2>1. Sent(x, 0, <<>>) \in SseEvent
    BY <1>1
  <2> QED BY <2>1
<1>p. s.provider \in {"anthropic", "openai", "gemini"}
  BY DEF ScriptOK
<1>3. Opening(s) \in Seq(SseEvent)
  <2>1. CASE s.provider = "gemini"
    BY <2>1, EmptySeq DEF Opening
  <2>2. CASE s.provider = "anthropic"
    BY <1>0, <1>2, <2>2 DEF Opening
  <2>3. CASE s.provider = "openai"
    BY <1>0, <1>2, <2>3 DEF Opening
  <2> QED BY <1>p, <2>1, <2>2, <2>3
<1>4. Closing(s) \in Seq(SseEvent)
  <2>1. CASE s.provider = "gemini"
    BY <1>0, <1>2, <2>1 DEF Closing
  <2>2. CASE s.provider = "anthropic"
    <3> DEFINE x == Sent("ping", 0, <<>>)
               y == Sent("message_delta", 0, <<>>)
               z == Sent("message_stop", 0, <<>>)
    <3>1. x \in SseEvent /\ y \in SseEvent /\ z \in SseEvent
      BY <1>1, <1>2
    <3>2. Closing(s) = <<x, y, z>>
      BY <2>2 DEF Closing
    <3> HIDE DEF x, y, z
    <3> QED BY <3>1, <3>2
  <2>3. CASE s.provider = "openai"
    BY <1>0, <1>2, <2>3 DEF Closing
  <2> QED BY <1>p, <2>1, <2>2, <2>3
<1>5. /\ Blocks(s) \in Seq(Seq(SseEvent))
      /\ Len(Blocks(s)) = Len(s.answer)
      /\ \A b \in 1 .. Len(s.answer) : Blocks(s)[b] = BlockEvents(s, b)
  <2>1. DOMAIN s.answer = 1 .. Len(s.answer) /\ Len(s.answer) \in Nat
    BY LenProperties DEF ScriptOK
  <2>2. \A b \in 1 .. Len(s.answer) : BlockEvents(s, b) \in Seq(SseEvent)
    BY <2>1, BlockShape
  <2> QED BY <2>1, <2>2 DEF Blocks
<1>6. FlattenSeq(Blocks(s)) \in Seq(SseEvent)
  BY <1>5, FlattenBasics
<1>7. Whole(s) \in Seq(SseEvent)
  BY <1>3, <1>4, <1>6, ConcatProperties DEF Whole, Blocks
<1> QED BY <1>3, <1>4, <1>5, <1>6, <1>7 DEF Opening

\* What is sent: the whole script, or what comes before an error.
LEMMA EventsTyped ==
  ASSUME NEW s, ScriptOK(s)
  PROVE  /\ Events(s) \in Seq(SseEvent)
         /\ s.error \in Nat /\ Len(Whole(s)) \in Nat
         /\ s.error < Len(Whole(s)) =>
              /\ Len(Events(s)) = s.error + 1
              /\ \A i \in 1 .. s.error : Events(s)[i] = Whole(s)[i]
              /\ Events(s)[s.error + 1] = Sent("error", 0, <<>>)
         /\ s.error >= Len(Whole(s)) => Events(s) = Whole(s)
<1> DEFINE w == Whole(s)
           x == Sent("error", 0, <<>>)
<1>1. w \in Seq(SseEvent) /\ Len(w) \in Nat /\ s.error \in Nat
  BY PartsTyped, LenProperties DEF ScriptOK
<1>2. x \in SseEvent
  BY SentTyped, EmptySeq DEF EventType
<1>3. CASE s.error < Len(w)
  <2> DEFINE cut == SubSeq(w, 1, s.error)
  <2>1. cut \in Seq(SseEvent) /\ Len(cut) = s.error /\ \A i \in 1 .. s.error : cut[i] = w[i]
    <3>1. \A i \in 1 .. s.error : w[i] \in SseEvent
      BY <1>1, <1>3
    <3> HIDE DEF w
    <3> QED BY <1>1, <1>3, <3>1
  <2>2. Events(s) = cut \o <<x>>
    BY <1>3 DEF Events
  <2> HIDE DEF cut, x, w
  <2>3. /\ cut \o <<x>> \in Seq(SseEvent) /\ Len(cut \o <<x>>) = s.error + 1
        /\ \A i \in 1 .. s.error : (cut \o <<x>>)[i] = cut[i]
        /\ (cut \o <<x>>)[s.error + 1] = x
    BY <1>1, <1>2, <2>1
  <2> QED BY <1>1, <1>3, <2>1, <2>2, <2>3 DEF x, w
<1>4. CASE s.error >= Len(w)
  <2>1. Events(s) = w
    BY <1>1, <1>4 DEF Events
  <2> QED BY <1>1, <1>4, <2>1
<1> QED BY <1>1, <1>3, <1>4

(* ------------------------------ parsed lines ---------------------------- *)

Byte == [field : {"event", "data", "CR", "LF"}, event : SseEvent \cup {0}, half : 0 .. 2]

\* The line of an event the parser comes to next; the last one is blank.
LineOf(e, field) == IF field = "blank" THEN <<CR, LF>> ELSE LineBytes(field, e)

\* A line ends with its LF and has no other.
LEMMA LineShape ==
  ASSUME NEW e \in SseEvent, NEW field \in {"event", "data", "blank"}
  PROVE  LET l == LineOf(e, field)
         IN  /\ l \in Seq(Byte)
             /\ EndsAt(l, LF)
<1> USE DEF EndsAt
<1>1. CR \in Byte /\ LF \in Byte /\ CR # LF
  BY DEF CR, LF, Half, Byte
<1>2. CASE field = "blank"
  BY <1>1, <1>2 DEF LineOf
<1>3. CASE field # "blank"
  <2>1. /\ Half(field, e, 1) \in Byte /\ Half(field, e, 2) \in Byte
        /\ Half(field, e, 1) # LF /\ Half(field, e, 2) # LF
    BY <1>3 DEF Half, Byte, LF
  <2> QED BY <1>1, <1>3, <2>1 DEF LineOf, LineBytes
<1> QED BY <1>2, <1>3

\* What the parser makes of a line, and of the beginning of one when the stream ends.
LEMMA LineDecoded ==
  ASSUME NEW e \in SseEvent, NEW field \in {"event", "data", "blank"}
  PROVE  LET l == LineOf(e, field)
         IN  /\ Decoded(SubSeq(l, 1, Len(l) - 1)) =
                   IF field = "blank" THEN [field |-> "blank", value |-> Garbled]
                                      ELSE [field |-> field, value |-> e]
             /\ \A k \in 1 .. Len(l) - 1 :
                  Decoded(SubSeq(l, 1, k)) =
                    IF field = "blank" THEN [field |-> "blank", value |-> Garbled]
                    ELSE [field |-> field, value |-> IF k = 1 THEN Garbled ELSE e]
<1> DEFINE h1 == Half(field, e, 1)
           h2 == Half(field, e, 2)
<1>1. /\ h1.field = field /\ h1.event = e /\ h1.half = 1
      /\ h1 # CR /\ h2 # CR
      /\ h2 = Half(h1.field, h1.event, 2)
  BY DEF Half, CR
<1>2. Decoded(<<CR>>) = [field |-> "blank", value |-> Garbled]
  BY DEF Decoded, Last, Front
<1>3. CASE field = "blank"
  <2>1. LineOf(e, field) = <<CR, LF>>
    BY <1>3 DEF LineOf
  <2>2. SubSeq(<<CR, LF>>, 1, 1) = <<CR>> /\ Len(<<CR, LF>>) - 1 = 1
    <3>1. SubSeq(<<CR, LF>>, 1, 1) = <<CR>>
      BY FirstOfFew, Zenon
    <3> QED BY <3>1
  <2>3. Decoded(SubSeq(<<CR, LF>>, 1, 1)) = [field |-> "blank", value |-> Garbled]
    BY <1>2, <2>2, Zenon
  <2>4. \A k \in 1 .. 1 : k = 1
    OBVIOUS
  <2> QED BY <1>3, <2>1, <2>2, <2>3, <2>4
<1>4. CASE field # "blank"
  <2>1. LineOf(e, field) = <<h1, h2, CR, LF>>
    BY <1>4 DEF LineOf, LineBytes
  <2> HIDE DEF h1, h2
  <2>2. /\ Len(<<h1, h2, CR, LF>>) = 4
        /\ SubSeq(<<h1, h2, CR, LF>>, 1, 1) = <<h1>>
        /\ SubSeq(<<h1, h2, CR, LF>>, 1, 2) = <<h1, h2>>
        /\ SubSeq(<<h1, h2, CR, LF>>, 1, 3) = <<h1, h2, CR>>
    BY FirstOfFew
  <2>3. Decoded(<<h1>>) = [field |-> field, value |-> Garbled]
    <3>1. Last(<<h1>>) = h1 /\ <<h1>> # <<>> /\ <<h1>>[1] = h1 /\ Tail(<<h1>>) = <<>>
      BY DEF Last
    <3>2. <<>> # <<h2>>
      OBVIOUS
    <3> QED BY <1>1, <3>1, <3>2 DEF Decoded
  <2>c. <<h1, h2>> # <<>> /\ <<h1, h2>>[1] = h1 /\ Tail(<<h1, h2>>) = <<h2>>
    OBVIOUS
  <2>4. Decoded(<<h1, h2>>) = [field |-> field, value |-> e]
    <3>1. Last(<<h1, h2>>) = h2
      BY DEF Last
    <3> QED BY <1>1, <2>c, <3>1 DEF Decoded
  <2>5. Decoded(<<h1, h2, CR>>) = [field |-> field, value |-> e]
    <3>1. Len(<<h1, h2, CR>>) - 1 = 2
      OBVIOUS
    <3>2. Front(<<h1, h2, CR>>) = <<h1, h2>>
      BY <3>1, FirstOfFew, Zenon DEF Front
    <3>3. Last(<<h1, h2, CR>>) = CR /\ <<h1, h2, CR>> # <<>>
      BY DEF Last
    <3> QED BY <1>1, <2>c, <3>2, <3>3 DEF Decoded
  <2>6. \A k \in 1 .. 4 - 1 : k = 1 \/ k = 2 \/ k = 3
    OBVIOUS
  <2>7. \A k \in 1 .. 4 - 1 : Decoded(SubSeq(<<h1, h2, CR, LF>>, 1, k)) =
              [field |-> field, value |-> IF k = 1 THEN Garbled ELSE e]
    BY <2>2, <2>3, <2>4, <2>5, <2>6
  <2>8. Decoded(SubSeq(<<h1, h2, CR, LF>>, 1, 4 - 1)) = [field |-> field, value |-> e]
    <3>1. 4 - 1 = 3
      OBVIOUS
    <3> QED BY <2>2, <2>5, <3>1
  <2> QED BY <1>4, <2>1, <2>2, <2>7, <2>8
<1> QED BY <1>3, <1>4

(* ------------------------------- the parser ----------------------------- *)

FirstField(s) == IF s.provider = "gemini" THEN "data" ELSE "event"
Fields(s)     == {FirstField(s), "data", "blank"}

\* The bytes of event e from that line on.
Due(e, field) ==
  IF field = "blank" THEN LineOf(e, "blank")
  ELSE IF field = "data" THEN LineOf(e, "data") \o LineOf(e, "blank")
  ELSE LineOf(e, "event") \o (LineOf(e, "data") \o LineOf(e, "blank"))

\* The bytes of all events after the first i.
BytesOf(s)  == [i \in DOMAIN Events(s) |-> EventBytes(s, Events(s)[i])]
After(s, i) == FlattenSeq(SubSeq(BytesOf(s), i + 1, Len(Events(s))))

\* The type a parsed event has: without an event line it is "message".
TypeOf(s, e) == IF s.provider = "gemini" THEN "message" ELSE e.type

\* What the parser holds of event e when that line of it comes next.
SseAt(s, e, field) ==
  IF field = FirstField(s) THEN NewEvent
  ELSE [etype |-> TypeOf(s, e), data |-> IF field = "blank" THEN <<e>> ELSE <<>>]

\* The bytes the parser has not used: the ones it holds and the ones to come.
ToCome == SubSeq(AllBytes[script], pos + 1, Len(AllBytes[script]))
Ahead  == byteBuf \o ToCome

\* The parser has used i events and, of the next one, what comes before that line:
\* these bytes are left, and this is what it holds of the event.
Unread(s, left, event, i, field) ==
  /\ i \in 0 .. Len(Events(s)) - 1
  /\ field \in Fields(s)
  /\ left = Due(Events(s)[i + 1], field) \o After(s, i + 1)
  /\ event = SseAt(s, Events(s)[i + 1], field)

AllRead(s, left, event, i) ==
  /\ i = Len(Events(s))
  /\ left = <<>>
  /\ event = NewEvent

ParserAt(s, left, event, i) ==
  AllRead(s, left, event, i) \/ \E field : Unread(s, left, event, i, field)

BytesTyped ==
  /\ script \in Scripts
  /\ pos \in 0 .. Len(AllBytes[script])
  /\ byteBuf \in Seq(Byte)

\* The bytes of the events still to come begin with those of the next one.
LEMMA NextDue ==
  ASSUME NEW s, ScriptOK(s)
  PROVE  /\ Bytes(s) = After(s, 0)
         /\ After(s, Len(Events(s))) = <<>>
         /\ \A i \in 0 .. Len(Events(s)) : After(s, i) \in Seq(Byte)
         /\ \A i \in 0 .. Len(Events(s)) - 1 :
              After(s, i) = Due(Events(s)[i + 1], FirstField(s)) \o After(s, i + 1)
<1> DEFINE n == Len(Events(s))
           bs == BytesOf(s)
<1>1. Events(s) \in Seq(SseEvent) /\ n \in Nat /\ DOMAIN Events(s) = 1 .. n
  BY EventsTyped, LenProperties
<1>2. ASSUME NEW e \in SseEvent
      PROVE  /\ EventBytes(s, e) = Due(e, FirstField(s))
             /\ EventBytes(s, e) \in Seq(Byte)
  <2> DEFINE x == LineOf(e, "event")
             y == LineOf(e, "data")
             z == LineOf(e, "blank")
  <2>1. x \in Seq(Byte) /\ y \in Seq(Byte) /\ z \in Seq(Byte)
    BY LineShape
  <2>2. LineBytes("event", e) = x /\ LineBytes("data", e) = y /\ <<CR, LF>> = z
    BY DEF LineOf
  <2> HIDE DEF x, y, z
  <2>3. CASE s.provider = "gemini"
    <3>1. EventBytes(s, e) = <<>> \o y \o z
      BY <2>2, <2>3 DEF EventBytes
    <3>2. Due(e, FirstField(s)) = y \o z
      BY <2>3 DEF Due, FirstField, y, z
    <3> QED BY <2>1, <3>1, <3>2, ConcatEmptySeq, ConcatProperties
  <2>4. CASE s.provider # "gemini"
    <3>1. EventBytes(s, e) = x \o y \o z
      BY <2>2, <2>4 DEF EventBytes
    <3>2. Due(e, FirstField(s)) = x \o (y \o z)
      BY <2>4 DEF Due, FirstField, x, y, z
    <3>3. (x \o y) \o z = x \o (y \o z)
      <4>1. \A u, v, w \in Seq(Byte) : (u \o v) \o w = u \o (v \o w)
        BY ConcatAssociative
      <4> QED BY <2>1, <4>1, Zenon
    <3>4. y \o z \in Seq(Byte)
      BY <2>1, ConcatProperties
    <3>5. x \o (y \o z) \in Seq(Byte)
      BY <2>1, <3>4, ConcatProperties
    <3> QED BY <3>1, <3>2, <3>3, <3>5, Zenon
  <2> QED BY <2>3, <2>4
<1>3. /\ bs \in Seq(Seq(Byte)) /\ Len(bs) = n
      /\ \A i \in 1 .. n : bs[i] = Due(Events(s)[i], FirstField(s))
  <2>1. \A i \in 1 .. n : Events(s)[i] \in SseEvent
    BY <1>1, ElementOfSeq
  <2>2. \A i \in 1 .. n : EventBytes(s, Events(s)[i]) \in Seq(Byte)
    BY <1>2, <2>1
  <2>3. \A i \in 1 .. n : bs[i] = Due(Events(s)[i], FirstField(s))
    BY <1>1, <1>2, <2>1 DEF BytesOf
  <2> QED BY <1>1, <2>2, <2>3 DEF BytesOf
<1>4. Bytes(s) = After(s, 0)
  <2>1. Bytes(s) = FlattenSeq(bs)
    BY DEF Bytes, BytesOf
  <2>2. SubSeq(bs, 1, Len(bs)) = bs
    BY <1>3, SubSeqFull
  <2> HIDE DEF bs
  <2>3. After(s, 0) = FlattenSeq(SubSeq(bs, 1, n))
    BY DEF After, bs
  <2> QED BY <1>3, <2>1, <2>2, <2>3
<1>5. After(s, n) = <<>>
  <2>1. SubSeq(bs, n + 1, n) = <<>>
    BY <1>1, SubSeqEmpty
  <2>2. FlattenSeq(<<>>) = <<>>
    BY FlattenBasics, Zenon
  <2> QED BY <2>1, <2>2 DEF After
<1>6. ASSUME NEW i \in 0 .. n - 1
      PROVE  /\ After(s, i) = Due(Events(s)[i + 1], FirstField(s)) \o After(s, i + 1)
             /\ After(s, i + 1) \in Seq(Byte)
  <2>1. i + 1 \in 1 .. Len(bs) /\ Len(bs) = n
    BY <1>1, <1>3
  <2> HIDE DEF bs
  <2>2. /\ FlattenSeq(SubSeq(bs, (i + 1) + 1, Len(bs))) \in Seq(Byte)
        /\ FlattenSeq(SubSeq(bs, i + 1, Len(bs))) = bs[i + 1] \o FlattenSeq(SubSeq(bs, (i + 1) + 1, Len(bs)))
    BY <1>3, <2>1, FlattenSplit
  <2>3. /\ After(s, i) = FlattenSeq(SubSeq(bs, i + 1, Len(bs)))
        /\ After(s, i + 1) = FlattenSeq(SubSeq(bs, (i + 1) + 1, Len(bs)))
    BY <2>1 DEF After, bs
  <2> QED BY <1>3, <2>1, <2>2, <2>3
<1>7. ASSUME NEW i \in 0 .. n PROVE After(s, i) \in Seq(Byte)
  <2>1. CASE i = n
    BY <1>5, <2>1, EmptySeq
  <2>2. CASE i = 0 /\ i # n
    <3>1. i \in 0 .. n - 1
      BY <1>1, <2>2
    <3>2. Due(Events(s)[i + 1], FirstField(s)) \in Seq(Byte)
      <4>1. i + 1 \in 1 .. n
        BY <1>1, <3>1
      <4> QED BY <1>3, <4>1
    <3> QED BY <1>6, <3>1, <3>2, ConcatProperties
  <2>3. CASE i # 0
    <3>1. i - 1 \in 0 .. n - 1 /\ (i - 1) + 1 = i
      BY <1>1, <2>3
    <3> QED BY <1>6, <3>1
  <2> QED BY <2>1, <2>2, <2>3
<1> QED BY <1>4, <1>5, <1>6, <1>7

\* The script that is sent is one of the assumed ones.
LEMMA ScriptKnown ==
  ASSUME BytesTyped
  PROVE  /\ ScriptOK(script)
         /\ AllBytes[script] = Bytes(script)
         /\ AllBytes[script] \in Seq(Byte)
         /\ pos \in Nat /\ Len(AllBytes[script]) \in Nat
         /\ ToCome \in Seq(Byte) /\ Ahead \in Seq(Byte)
<1>1. ScriptOK(script) /\ script \in Scripts
  BY StreamAssumption DEF BytesTyped
<1>2. AllBytes[script] = Bytes(script)
  BY <1>1 DEF AllBytes
<1>3. Bytes(script) \in Seq(Byte)
  <2>1. 0 \in 0 .. Len(Events(script))
    BY <1>1, EventsTyped, LenProperties
  <2> QED BY <1>1, <2>1, NextDue
<1>4. Len(AllBytes[script]) \in Nat /\ pos \in Nat
  BY <1>2, <1>3, LenProperties DEF BytesTyped
<1>5. ToCome \in Seq(Byte)
  <2> DEFINE all == AllBytes[script]
  <2>1. all \in Seq(Byte)
    BY <1>2, <1>3
  <2> HIDE DEF all
  <2>2. \A i \in pos + 1 .. Len(all) : all[i] \in Byte
    BY <1>4, <2>1
  <2>3. SubSeq(all, pos + 1, Len(all)) \in Seq(Byte)
    BY <1>4, <2>1, <2>2, SubSeqProperties
  <2> QED BY <2>3 DEF ToCome, all
<1>6. Ahead \in Seq(Byte)
  BY <1>5, ConcatProperties DEF Ahead, BytesTyped
<1> QED BY <1>1, <1>2, <1>3, <1>4, <1>5, <1>6

\* Between two events the parser comes to the first line of the next one.
LEMMA BetweenEvents ==
  ASSUME NEW s, ScriptOK(s), NEW i \in 0 .. Len(Events(s))
  PROVE  ParserAt(s, After(s, i), NewEvent, i)
<1> DEFINE n == Len(Events(s))
<1>1. n \in Nat
  BY EventsTyped, LenProperties
<1>2. CASE i = n
  <2>1. After(s, i) = <<>>
    BY <1>2, NextDue
  <2> QED BY <1>2, <2>1 DEF ParserAt, AllRead
<1>3. CASE i # n
  <2>1. i \in 0 .. n - 1
    BY <1>1, <1>3
  <2>2. FirstField(s) \in Fields(s)
    BY DEF Fields
  <2>3. After(s, i) = Due(Events(s)[i + 1], FirstField(s)) \o After(s, i + 1)
    BY <2>1, NextDue
  <2>4. NewEvent = SseAt(s, Events(s)[i + 1], FirstField(s))
    BY DEF SseAt
  <2>5. Unread(s, After(s, i), NewEvent, i, FirstField(s))
    BY <2>1, <2>2, <2>3, <2>4 DEF Unread
  <2> QED BY <2>5 DEF ParserAt
<1> QED BY <1>2, <1>3

\* What is due of an event: a line, and what is due after it.
Rest(e, field) ==
  IF field = "blank" THEN <<>>
  ELSE IF field = "data" THEN LineOf(e, "blank")
  ELSE LineOf(e, "data") \o LineOf(e, "blank")

\* The line that comes next, and the bytes behind it.
LEMMA NextLine ==
  ASSUME BytesTyped, NEW i, NEW field, Unread(script, Ahead, sse, i, field)
  PROVE  LET e == Events(script)[i + 1]
             l == LineOf(e, field)
             t == Rest(e, field) \o After(script, i + 1)
         IN  /\ e \in SseEvent
             /\ field \in {"event", "data", "blank"}
             /\ l \in Seq(Byte) /\ t \in Seq(Byte)
             /\ byteBuf \o ToCome = l \o t
             /\ After(script, i + 1) \in Seq(Byte)
             /\ i + 1 \in 0 .. Len(Events(script))
<1> DEFINE e == Events(script)[i + 1]
           l == LineOf(e, field)
           t == Rest(e, field) \o After(script, i + 1)
           a == After(script, i + 1)
<1>1. ScriptOK(script)
  BY ScriptKnown
<1>2. i + 1 \in 1 .. Len(Events(script)) /\ i + 1 \in 0 .. Len(Events(script))
  BY <1>1, EventsTyped, LenProperties DEF Unread
<1>3. e \in SseEvent
  BY <1>1, <1>2, EventsTyped, ElementOfSeq
<1>4. field \in {"event", "data", "blank"}
  BY DEF Unread, Fields, FirstField
<1>5. a \in Seq(Byte)
  BY <1>1, <1>2, NextDue
<1> HIDE DEF e, a
<1> DEFINE x == LineOf(e, "event")
           y == LineOf(e, "data")
           z == LineOf(e, "blank")
<1>6. x \in Seq(Byte) /\ y \in Seq(Byte) /\ z \in Seq(Byte)
  BY <1>3, LineShape
<1>7. l = IF field = "blank" THEN z ELSE IF field = "data" THEN y ELSE x
  BY <1>4
<1>8. Ahead = Due(e, field) \o a
  BY DEF Unread, e, a
<1>9. /\ Due(e, field) = IF field = "blank" THEN z ELSE IF field = "data" THEN y \o z ELSE x \o (y \o z)
      /\ Rest(e, field) = IF field = "blank" THEN <<>> ELSE IF field = "data" THEN z ELSE y \o z
  BY <1>4 DEF Due, Rest
<1> HIDE DEF x, y, z, l
<1>10. \A u, v \in Seq(Byte) : u \o v \in Seq(Byte) /\ <<>> \o u = u
  BY ConcatProperties, ConcatEmptySeq
<1>a. \A u, v, w \in Seq(Byte) : (u \o v) \o w = u \o (v \o w)
  BY ConcatAssociative
<1>11. <<>> \in Seq(Byte)
  BY EmptySeq
<1>12. l \in Seq(Byte) /\ Rest(e, field) \in Seq(Byte) /\ Due(e, field) \o a = l \o (Rest(e, field) \o a)
  <2>1. CASE field = "blank"
    <3>1. l = z /\ Due(e, field) = z /\ Rest(e, field) = <<>>
      BY <1>7, <1>9, <2>1, Zenon
    <3> QED BY <1>5, <1>6, <1>10, <1>11, <3>1, Zenon
  <2>2. CASE field = "data"
    <3>1. l = y /\ Due(e, field) = y \o z /\ Rest(e, field) = z
      BY <1>7, <1>9, <2>2
    <3>2. (y \o z) \o a = y \o (z \o a)
      BY <1>5, <1>6, <1>a, ZenonT(40)
    <3> QED BY <1>6, <3>1, <3>2, Zenon
  <2>3. CASE field = "event"
    <3>1. l = x /\ Due(e, field) = x \o (y \o z) /\ Rest(e, field) = y \o z
      BY <1>7, <1>9, <2>3
    <3>2. y \o z \in Seq(Byte)
      BY <1>6, <1>10, Zenon
    <3>3. (x \o (y \o z)) \o a = x \o ((y \o z) \o a)
      BY <1>5, <1>6, <1>a, <3>2, ZenonT(40)
    <3> QED BY <1>6, <3>1, <3>2, <3>3, Zenon
  <2> QED BY <1>4, <2>1, <2>2, <2>3
<1>13. t \in Seq(Byte)
  BY <1>5, <1>10, <1>12, Zenon DEF a
<1> QED BY <1>2, <1>3, <1>4, <1>5, <1>8, <1>12, <1>13 DEF Ahead, e, a, l

\* A line that leaves the buffer is the one that came next. When it is blank its event is
\* complete and goes to the adapter; otherwise the parser waits for the line after it.
LEMMA LineParsed ==
  ASSUME BytesTyped, NEW i, ParserAt(script, Ahead, sse, i), Line
  PROVE  /\ byteBuf' \in Seq(Byte)
         /\ \/ UNCHANGED <<tr, queue>> /\ ParserAt(script, Ahead', sse', i)
            \/ LET e == Events(script)[i + 1]
               IN  /\ i \in 0 .. Len(Events(script)) - 1
                   /\ sse = [etype |-> TypeOf(script, e), data |-> <<e>>]
                   /\ Translate(sse)
                   /\ ParserAt(script, Ahead', sse', i + 1)
<1>1. ~AllRead(script, Ahead, sse, i)
  <2> SUFFICES ASSUME Ahead = <<>> PROVE ~HasLine
    BY DEF AllRead, Line
  <2>1. Len(Ahead) = Len(byteBuf) + Len(ToCome) /\ Len(byteBuf) \in Nat /\ Len(ToCome) \in Nat
    BY ScriptKnown, ConcatProperties, LenProperties DEF Ahead, BytesTyped
  <2>2. Len(byteBuf) = 0
    BY <2>1
  <2> QED BY <2>2 DEF HasLine, BytesTyped
<1>2. PICK field : Unread(script, Ahead, sse, i, field)
  BY <1>1 DEF ParserAt
<1> DEFINE e == Events(script)[i + 1]
           l == LineOf(e, field)
           a == After(script, i + 1)
           t == Rest(e, field) \o a
<1>3. /\ e \in SseEvent /\ field \in {"event", "data", "blank"}
      /\ l \in Seq(Byte) /\ t \in Seq(Byte)
      /\ byteBuf \o ToCome = l \o t
      /\ a \in Seq(Byte)
      /\ i + 1 \in 0 .. Len(Events(script))
  BY <1>2, NextLine
<1>4. ScriptOK(script) /\ ToCome \in Seq(Byte) /\ byteBuf \in Seq(Byte)
  BY ScriptKnown DEF BytesTyped
<1>5. /\ EndsAt(l, LF)
      /\ Decoded(SubSeq(l, 1, Len(l) - 1)) =
           IF field = "blank" THEN [field |-> "blank", value |-> Garbled]
                              ELSE [field |-> field, value |-> e]
  <2> HIDE DEF e
  <2> QED BY <1>3, LineShape, LineDecoded
<1>6. /\ EndOfLine = Len(l)
      /\ SubSeq(byteBuf, 1, Len(l) - 1) = SubSeq(l, 1, Len(l) - 1)
      /\ SubSeq(byteBuf, Len(l) + 1, Len(byteBuf)) \in Seq(Byte)
      /\ SubSeq(byteBuf, Len(l) + 1, Len(byteBuf)) \o ToCome = t
  <2>1. Has(byteBuf, LF)
    BY DEF Line, HasLine, Has
  <2> HIDE DEF e, a, t, l
  <2>2. CutOff(Byte, byteBuf, ToCome, l, t, LF)
    BY <1>3, <1>4, <1>5, <2>1, CutLine
  <2> QED BY <2>2, Zenon DEF CutOff, EndOfLine, FirstAt
<1> DEFINE line == Decoded(SubSeq(byteBuf, 1, EndOfLine - 1))
<1>7. line = IF field = "blank" THEN [field |-> "blank", value |-> Garbled]
                                ELSE [field |-> field, value |-> e]
  <2> HIDE DEF e, l
  <2> QED BY <1>5, <1>6
<1>8. /\ byteBuf' = SubSeq(byteBuf, EndOfLine + 1, Len(byteBuf))
      /\ sse' = IF line.field = "blank" THEN NewEvent ELSE WithField(line)
      /\ IF line.field = "blank" /\ sse.data # <<>> THEN Translate(sse) ELSE UNCHANGED <<tr, queue>>
      /\ script' = script /\ pos' = pos
  BY DEF Line, netVars
<1>9. byteBuf' \in Seq(Byte) /\ Ahead' = t
  BY <1>6, <1>8 DEF Ahead, ToCome
<1>10. CASE field = "blank"
  <2>1. line.field = "blank"
    BY <1>7, <1>10
  <2>2. sse = [etype |-> TypeOf(script, e), data |-> <<e>>]
    BY <1>2, <1>10 DEF Unread, SseAt, FirstField
  <2>3. sse.data # <<>>
    BY <2>2
  <2>4. Ahead' = a
    <3>1. <<>> \o a = a
      BY <1>3, ConcatEmptySeq
    <3> QED BY <1>9, <1>10, <3>1 DEF Rest
  <2>5. ParserAt(script, Ahead', sse', i + 1)
    BY <1>3, <1>4, <1>8, <2>1, <2>4, BetweenEvents
  <2>6. i \in 0 .. Len(Events(script)) - 1
    BY <1>2 DEF Unread
  <2>7. Translate(sse)
    BY <1>8, <2>1, <2>3
  <2> HIDE DEF e
  <2> QED BY <1>9, <2>2, <2>5, <2>6, <2>7 DEF e
<1>11. CASE field # "blank"
  <2> DEFINE next == IF field = "event" THEN "data" ELSE "blank"
  <2>1. line = [field |-> field, value |-> e]
    BY <1>7, <1>11
  <2> HIDE DEF line
  <2>2. sse' = WithField(line) /\ UNCHANGED <<tr, queue>>
    BY <1>8, <1>11, <2>1
  <2>3. sse = SseAt(script, e, field) /\ i \in 0 .. Len(Events(script)) - 1 /\ field \in Fields(script)
    BY <1>2 DEF Unread
  <2>4. Ahead' = Due(e, next) \o a
    <3>1. Rest(e, field) = Due(e, next)
      BY <1>3, <1>11 DEF Rest, Due
    <3> QED BY <1>9, <3>1
  <2>5. sse' = SseAt(script, e, next)
    <3>1. CASE field = "event"
      <4>1. FirstField(script) = "event" /\ TypeOf(script, e) = e.type
        BY <2>3, <3>1 DEF Fields, FirstField, TypeOf
      <4>2. sse = NewEvent
        BY <2>3, <3>1, <4>1 DEF SseAt
      <4>3. sse' = [sse EXCEPT !.etype = e.type]
        BY <2>1, <2>2, <3>1 DEF WithField
      <4> QED BY <3>1, <4>1, <4>2, <4>3 DEF SseAt, NewEvent
    <3>2. CASE field = "data"
      <4>1. sse' = [sse EXCEPT !.data = Append(@, e)]
        BY <2>1, <2>2, <3>2 DEF WithField
      <4>2. sse = [etype |-> TypeOf(script, e), data |-> <<>>]
        BY <2>3, <3>2 DEF SseAt, FirstField, TypeOf, NewEvent
      <4>3. Append(<<>>, e) = <<e>>
        OBVIOUS
      <4>4. SseAt(script, e, next) = [etype |-> TypeOf(script, e), data |-> <<e>>]
        BY <3>2 DEF SseAt, FirstField
      <4> QED BY <4>1, <4>2, <4>3, <4>4
    <3> QED BY <1>3, <1>11, <3>1, <3>2
  <2>6. Unread(script, Ahead', sse', i, next)
    BY <2>3, <2>4, <2>5 DEF Unread, Fields
  <2> QED BY <1>9, <2>2, <2>6 DEF ParserAt
<1> QED BY <1>10, <1>11

\* The next bytes move into the buffer; what the parser has not used stays the same.
LEMMA ChunkParsed ==
  ASSUME BytesTyped, Chunk
  PROVE  /\ byteBuf' \in Seq(Byte) /\ pos' \in 0 .. Len(AllBytes[script])
         /\ Ahead' = Ahead
<1> DEFINE all == AllBytes[script]
<1>1. /\ all \in Seq(Byte) /\ pos \in Nat /\ Len(all) \in Nat
      /\ pos \in 0 .. Len(all) /\ byteBuf \in Seq(Byte)
  BY ScriptKnown DEF BytesTyped
<1>2. PICK n \in pos + 1 .. Len(all) :
        byteBuf' = byteBuf \o SubSeq(all, pos + 1, n) /\ pos' = n
  BY DEF Chunk
<1>3. script' = script
  BY DEF Chunk
<1> DEFINE here == SubSeq(all, pos + 1, n)
           more == SubSeq(all, n + 1, Len(all))
<1>4. Ahead' = (byteBuf \o here) \o more /\ Ahead = byteBuf \o SubSeq(all, pos + 1, Len(all))
  BY <1>2, <1>3 DEF Ahead, ToCome
<1> HIDE DEF all
<1>5. here \in Seq(Byte) /\ more \in Seq(Byte)
  <2>1. \A k \in pos + 1 .. n : all[k] \in Byte
    BY <1>1, <1>2
  <2>2. \A k \in n + 1 .. Len(all) : all[k] \in Byte
    BY <1>1, <1>2
  <2> QED BY <1>1, <1>2, <2>1, <2>2, SubSeqProperties
<1>6. here \o more = SubSeq(all, pos + 1, Len(all))
  <2>1. pos + 1 \in 1 .. Len(all) /\ n \in pos + 1 .. Len(all)
    BY <1>1, <1>2
  <2>2. SubSeq(all, pos + 1, Len(all)) \in Seq(Byte)
    <3>1. \A k \in pos + 1 .. Len(all) : all[k] \in Byte
      BY <1>1
    <3> QED BY <1>1, <3>1, SubSeqProperties
  <2> DEFINE both == SubSeq(all, pos + 1, Len(all))
  <2>3. /\ Len(here) = n - pos /\ Len(more) = Len(all) - n /\ Len(both) = Len(all) - pos
        /\ \A k \in 1 .. n - pos : here[k] = all[pos + k]
        /\ \A k \in 1 .. Len(all) - n : more[k] = all[n + k]
        /\ \A k \in 1 .. Len(all) - pos : both[k] = all[pos + k]
    BY <1>1, <1>2
  <2> HIDE DEF here, more, both
  <2>4. here \o more \in Seq(Byte) /\ Len(here \o more) = Len(both) /\ Len(both) \in Nat
    <3>1. here \o more \in Seq(Byte) /\ Len(here \o more) = Len(here) + Len(more)
      BY <1>5, ConcatProperties
    <3>2. (n - pos) + (Len(all) - n) = Len(all) - pos /\ Len(all) - pos \in Nat
      BY <1>1, <1>2
    <3> QED BY <2>3, <3>1, <3>2
  <2>5. ASSUME NEW k \in 1 .. Len(both) PROVE (here \o more)[k] = both[k]
    <3>1. CASE k <= n - pos
      <4>1. k \in 1 .. Len(here) + Len(more) /\ k <= Len(here) /\ k \in 1 .. n - pos
        BY <1>1, <1>2, <2>3, <3>1
      <4>2. (here \o more)[k] = here[k]
        BY <1>5, <4>1, ConcatProperties
      <4> QED BY <2>3, <4>1, <4>2
    <3>2. CASE k > n - pos
      <4>1. /\ k \in 1 .. Len(here) + Len(more) /\ ~(k <= Len(here))
            /\ k - Len(here) \in 1 .. Len(all) - n /\ n + (k - Len(here)) = pos + k
        BY <1>1, <1>2, <2>3, <3>2
      <4>2. (here \o more)[k] = more[k - Len(here)]
        BY <1>5, <4>1, ConcatProperties
      <4> QED BY <2>3, <4>1, <4>2
    <3>3. k <= n - pos \/ k > n - pos
      <4>1. k \in Int /\ n - pos \in Int
        BY <1>1, <1>2, <2>4
      <4> QED BY <4>1
    <3> QED BY <3>1, <3>2, <3>3, Zenon
  <2> QED BY <2>2, <2>4, <2>5, SeqEqual DEF both
<1> HIDE DEF here, more
<1>7. (byteBuf \o here) \o more = byteBuf \o (here \o more)
  <2>1. \A u, v, w \in Seq(Byte) : (u \o v) \o w = u \o (v \o w)
    BY ConcatAssociative
  <2> QED BY <1>1, <1>5, <2>1, Zenon
<1>8. byteBuf' \in Seq(Byte)
  BY <1>1, <1>2, <1>5, ConcatProperties DEF here
<1>9. pos' \in 0 .. Len(AllBytes[script])
  BY <1>1, <1>2 DEF all
<1> QED BY <1>4, <1>6, <1>7, <1>8, <1>9

\* When the stream ends, the parser has at most one event in hand, the one that comes
\* next, whole or with a payload that is cut short.
LEMMA EndParsed ==
  ASSUME BytesTyped, NEW i, ParserAt(script, Ahead, sse, i), ~HasLine
  PROVE  LET event == IF byteBuf = <<>> THEN sse ELSE WithField(Decoded(byteBuf))
             e     == Events(script)[i + 1]
         IN  \/ event.data = <<>>
             \/ /\ i \in 0 .. Len(Events(script)) - 1
                /\ \E d \in {e, Garbled} : event = [etype |-> TypeOf(script, e), data |-> <<d>>]
<1> DEFINE event == IF byteBuf = <<>> THEN sse ELSE WithField(Decoded(byteBuf))
           e == Events(script)[i + 1]
<1>0. byteBuf \in Seq(Byte) /\ ToCome \in Seq(Byte)
  BY ScriptKnown DEF BytesTyped
<1>1. CASE AllRead(script, Ahead, sse, i)
  <2>1. Len(Ahead) = Len(byteBuf) + Len(ToCome) /\ Len(byteBuf) \in Nat /\ Len(ToCome) \in Nat
    BY <1>0, ConcatProperties, LenProperties DEF Ahead
  <2>2. byteBuf = <<>>
    <3>1. Len(Ahead) = 0
      BY <1>1 DEF AllRead
    <3>2. Len(byteBuf) = 0
      BY <2>1, <3>1
    <3> QED BY <1>0, <3>2, EmptySeq
  <2> QED BY <1>1, <2>2 DEF AllRead, NewEvent
<1>2. CASE \E field : Unread(script, Ahead, sse, i, field)
  <2>0. PICK field : Unread(script, Ahead, sse, i, field)
    BY <1>2
  <2> DEFINE l == LineOf(e, field)
             t == Rest(e, field) \o After(script, i + 1)
  <2>1. /\ e \in SseEvent /\ field \in {"event", "data", "blank"}
        /\ l \in Seq(Byte) /\ t \in Seq(Byte)
        /\ byteBuf \o ToCome = l \o t
    BY <2>0, NextLine
  <2>2. EndsAt(l, LF)
    <3> HIDE DEF e
    <3> QED BY <2>1, LineShape
  <2>3. Len(byteBuf) < Len(l) /\ byteBuf = SubSeq(l, 1, Len(byteBuf))
    <3>1. ~Has(byteBuf, LF)
      BY DEF HasLine, Has
    <3> HIDE DEF e, t, l
    <3>2. Begins(byteBuf, l)
      BY <1>0, <2>1, <2>2, <3>1, CutLine
    <3> QED BY <3>2 DEF Begins
  <2>4. /\ i \in 0 .. Len(Events(script)) - 1
        /\ sse = SseAt(script, e, field)
        /\ field \in Fields(script)
    BY <2>0 DEF Unread
  <2>5. byteBuf # <<>> =>
          Decoded(byteBuf) = IF field = "blank" THEN [field |-> "blank", value |-> Garbled]
                             ELSE [field |-> field, value |-> IF Len(byteBuf) = 1 THEN Garbled ELSE e]
    <3> SUFFICES ASSUME byteBuf # <<>> PROVE
          Decoded(byteBuf) = IF field = "blank" THEN [field |-> "blank", value |-> Garbled]
                             ELSE [field |-> field, value |-> IF Len(byteBuf) = 1 THEN Garbled ELSE e]
      OBVIOUS
    <3>1. Len(byteBuf) \in 1 .. Len(l) - 1
      <4>1. Len(byteBuf) \in Nat /\ Len(byteBuf) # 0 /\ Len(l) \in Nat
        BY <1>0, <2>1, EmptySeq, LenProperties
      <4> HIDE DEF l
      <4> QED BY <2>3, <4>1
    <3> HIDE DEF e
    <3>2. \A k \in 1 .. Len(l) - 1 :
            Decoded(SubSeq(l, 1, k)) =
              IF field = "blank" THEN [field |-> "blank", value |-> Garbled]
              ELSE [field |-> field, value |-> IF k = 1 THEN Garbled ELSE e]
      BY <2>1, LineDecoded
    <3> HIDE DEF l
    <3> QED BY <2>3, <3>1, <3>2
  <2> HIDE DEF e, l, t
  <2>6. CASE field = "event"
    <3>1. sse = NewEvent
      BY <2>4, <2>6 DEF SseAt, Fields, FirstField
    <3>2. event.data = <<>>
      BY <2>5, <2>6, <3>1 DEF WithField, NewEvent
    <3> QED BY <3>2
  <2>7. CASE field = "data"
    <3>1. sse = [etype |-> TypeOf(script, e), data |-> <<>>]
      BY <2>4, <2>7 DEF SseAt, FirstField, TypeOf, NewEvent
    <3>2. CASE byteBuf = <<>>
      BY <3>1, <3>2
    <3>3. CASE byteBuf # <<>>
      <4> DEFINE d == IF Len(byteBuf) = 1 THEN Garbled ELSE e
      <4>1. Decoded(byteBuf) = [field |-> "data", value |-> d]
        BY <2>5, <2>7, <3>3
      <4>2. d \in {e, Garbled}
        OBVIOUS
      <4> HIDE DEF d
      <4>3. event = [sse EXCEPT !.data = Append(@, d)]
        BY <3>3, <4>1 DEF WithField
      <4>4. Append(<<>>, d) = <<d>>
        OBVIOUS
      <4>5. event = [etype |-> TypeOf(script, e), data |-> <<d>>]
        BY <3>1, <4>3, <4>4
      <4> HIDE DEF event
      <4>6. \E x \in {e, Garbled} : event = [etype |-> TypeOf(script, e), data |-> <<x>>]
        BY <4>2, <4>5
      <4> QED BY <2>4, <4>6, Zenon DEF e, event
    <3> QED BY <3>2, <3>3
  <2>8. CASE field = "blank"
    <3>1. sse = [etype |-> TypeOf(script, e), data |-> <<e>>]
      BY <2>4, <2>8 DEF SseAt, FirstField
    <3>2. event = sse
      BY <2>5, <2>8 DEF WithField
    <3> HIDE DEF event
    <3>3. \E x \in {e, Garbled} : event = [etype |-> TypeOf(script, e), data |-> <<x>>]
      BY <3>1, <3>2
    <3> QED BY <2>4, <3>3, Zenon DEF e, event
  <2> QED BY <2>1, <2>6, <2>7, <2>8
<1> QED BY <1>1, <1>2 DEF ParserAt

(* --------------------------- a place in a script ------------------------ *)

\* The elements of three sequences in a row.
LEMMA ThreeInARow ==
  ASSUME NEW S, NEW x \in Seq(S), NEW y \in Seq(S), NEW z \in Seq(S)
  PROVE  /\ x \o y \o z \in Seq(S)
         /\ Len(x \o y \o z) = Len(x) + Len(y) + Len(z)
         /\ \A k \in 1 .. Len(x) : (x \o y \o z)[k] = x[k]
         /\ \A k \in 1 .. Len(y) : (x \o y \o z)[Len(x) + k] = y[k]
         /\ \A k \in 1 .. Len(z) : (x \o y \o z)[Len(x) + Len(y) + k] = z[k]
<1>1. Len(x) \in Nat /\ Len(y) \in Nat /\ Len(z) \in Nat
  OBVIOUS
<1> DEFINE w == x \o y
<1>2. w \in Seq(S) /\ Len(w) = Len(x) + Len(y)
  BY ConcatProperties
<1>3. \A k \in 1 .. Len(x) : w[k] = x[k]
  BY <1>1, ConcatProperties
<1>4. ASSUME NEW k \in 1 .. Len(y) PROVE w[Len(x) + k] = y[k]
  <2>1. Len(x) + k \in 1 .. Len(x) + Len(y) /\ ~(Len(x) + k <= Len(x)) /\ (Len(x) + k) - Len(x) = k
    BY <1>1
  <2> QED BY <2>1, ConcatProperties
<1> HIDE DEF w
<1>5. w \o z \in Seq(S) /\ Len(w \o z) = Len(x) + Len(y) + Len(z)
  <2>1. w \o z \in Seq(S) /\ Len(w \o z) = Len(w) + Len(z)
    BY <1>2, ConcatProperties
  <2> QED BY <1>2, <2>1
<1>6. \A k \in 1 .. Len(w) : (w \o z)[k] = w[k]
  BY <1>1, <1>2, ConcatProperties
<1>7. ASSUME NEW k \in 1 .. Len(z) PROVE (w \o z)[Len(w) + k] = z[k]
  <2>1. Len(w) + k \in 1 .. Len(w) + Len(z) /\ ~(Len(w) + k <= Len(w)) /\ (Len(w) + k) - Len(w) = k
    BY <1>1, <1>2
  <2> QED BY <1>2, <2>1, ConcatProperties
<1>8. ASSUME NEW k \in 1 .. Len(x) PROVE (w \o z)[k] = x[k]
  <2>1. k \in 1 .. Len(w)
    BY <1>1, <1>2
  <2> QED BY <1>3, <1>6, <2>1, Zenon
<1>9. ASSUME NEW k \in 1 .. Len(y) PROVE (w \o z)[Len(x) + k] = y[k]
  <2>1. Len(x) + k \in 1 .. Len(w)
    BY <1>1, <1>2
  <2> QED BY <1>4, <1>6, <2>1, Zenon
<1> QED BY <1>2, <1>5, <1>7, <1>8, <1>9 DEF w

\* The elements of a sequence of events in the middle of others.
Within(x, z, before, here, after) ==
  /\ Len(x) + Len(before \o here) = (Len(x) + Len(before)) + Len(here)
  /\ \A k \in 1 .. Len(here) :
       (x \o (before \o (here \o after)) \o z)[(Len(x) + Len(before)) + k] = here[k]

\* The events before a block, those of the block, and those behind it: the place of each.
LEMMA InTheMiddle ==
  \A x, z, before, here, after \in Seq(SseEvent) : Within(x, z, before, here, after)
<1>1. \A u, v, w \in Seq(SseEvent) : (u \o v) \o w = u \o (v \o w)
  BY ConcatAssociative
<1>2. \A u, v \in Seq(SseEvent) : u \o v \in Seq(SseEvent) /\ Len(u \o v) = Len(u) + Len(v)
  BY ConcatProperties
<1> TAKE x, z, before, here, after \in Seq(SseEvent)
<1> DEFINE y == before \o (here \o after)
<1>3. Len(x) \in Nat /\ Len(before) \in Nat /\ Len(here) \in Nat /\ Len(after) \in Nat
  BY LenProperties
<1>4. Len(before \o here) = Len(before) + Len(here)
  BY <1>2, Zenon
<1>5. y = before \o here \o after
  BY <1>1, ZenonT(40)
<1>6. y \in Seq(SseEvent)
  <2>1. here \o after \in Seq(SseEvent)
    BY <1>2, Zenon
  <2> QED BY <1>2, <2>1, Zenon
<1>7. /\ Len(before \o here \o after) = Len(before) + Len(here) + Len(after)
      /\ \A k \in 1 .. Len(here) : (before \o here \o after)[Len(before) + k] = here[k]
  BY ThreeInARow
<1> HIDE DEF y
<1>8. \A k \in 1 .. Len(y) : (x \o y \o z)[Len(x) + k] = y[k]
  BY <1>6, ThreeInARow
<1>9. ASSUME NEW k \in 1 .. Len(here)
      PROVE  (x \o y \o z)[(Len(x) + Len(before)) + k] = here[k]
  <2>1. y[Len(before) + k] = here[k] /\ Len(y) = Len(before) + Len(here) + Len(after)
    BY <1>5, <1>7
  <2>2. /\ Len(before) + k \in 1 .. Len(y)
        /\ Len(x) + (Len(before) + k) = (Len(x) + Len(before)) + k
    BY <1>3, <2>1
  <2>3. (x \o y \o z)[Len(x) + (Len(before) + k)] = y[Len(before) + k]
    BY <1>8, <2>2
  <2> QED BY <2>1, <2>2, <2>3
<1> QED BY <1>3, <1>4, <1>9 DEF y, Within

\* Which event is at which place of the whole script.
LEMMA WholeAt ==
  ASSUME NEW s, ScriptOK(s)
  PROVE  /\ SentWith(s, 0) = Len(Opening(s))
         /\ \A b \in 0 .. Len(s.answer) : SentWith(s, b) \in Nat
         /\ \A b \in 1 .. Len(s.answer) :
              SentWith(s, b) = SentWith(s, b - 1) + Len(BlockEvents(s, b))
         /\ Len(Whole(s)) = SentWith(s, Len(s.answer)) + Len(Closing(s))
         /\ \A k \in 1 .. Len(Opening(s)) : Whole(s)[k] = Opening(s)[k]
         /\ \A b \in 1 .. Len(s.answer) : \A k \in 1 .. Len(BlockEvents(s, b)) :
              Whole(s)[SentWith(s, b - 1) + k] = BlockEvents(s, b)[k]
         /\ \A k \in 1 .. Len(Closing(s)) :
              Whole(s)[SentWith(s, Len(s.answer)) + k] = Closing(s)[k]
<1> DEFINE n == Len(s.answer)
           x == Opening(s)
           z == Closing(s)
           bs == Blocks(s)
           y == FlattenSeq(bs)
           head(b) == FlattenSeq(SubSeq(bs, 1, b))
<1>1. /\ x \in Seq(SseEvent) /\ z \in Seq(SseEvent) /\ y \in Seq(SseEvent)
      /\ bs \in Seq(Seq(SseEvent)) /\ Len(bs) = n /\ n \in Nat
      /\ \A b \in 1 .. n : bs[b] = BlockEvents(s, b)
  BY PartsTyped, LenProperties DEF ScriptOK
<1>2. Whole(s) = x \o y \o z
  BY DEF Whole, Blocks
<1>3. \A b : SentWith(s, b) = Len(x) + Len(head(b))
  BY DEF SentWith
<1> HIDE DEF x, z, bs
<1>4. head(0) = <<>>
  <2>1. SubSeq(bs, 1, 0) = <<>>
    BY <1>1, SubSeqEmpty
  <2>2. FlattenSeq(<<>>) = <<>>
    BY FlattenBasics, Zenon
  <2> QED BY <2>1, <2>2
<1>5. head(n) = y
  BY <1>1, SubSeqFull
<1>6. ASSUME NEW b \in 1 .. n
      PROVE  /\ head(b - 1) \in Seq(SseEvent)
             /\ head(b) \in Seq(SseEvent)
             /\ head(b) = head(b - 1) \o bs[b]
             /\ \E after \in Seq(SseEvent) : y = head(b - 1) \o (bs[b] \o after)
  <2>1. b \in 1 .. Len(bs)
    BY <1>1
  <2>2. LET before == FlattenSeq(SubSeq(bs, 1, b - 1))
            after  == FlattenSeq(SubSeq(bs, b + 1, Len(bs)))
        IN  /\ before \in Seq(SseEvent)
            /\ after \in Seq(SseEvent)
            /\ FlattenSeq(SubSeq(bs, 1, b)) = before \o bs[b]
            /\ FlattenSeq(bs) = before \o (bs[b] \o after)
    BY <1>1, <2>1, FlattenSplit
  <2>3. bs[b] \in Seq(SseEvent)
    BY <1>1, <2>1, ElementOfSeq
  <2>4. head(b) \in Seq(SseEvent)
    BY <2>2, <2>3, ConcatProperties
  <2> QED BY <2>2, <2>4
<1> HIDE DEF head
<1>7. \A b \in 0 .. n : head(b) \in Seq(SseEvent)
  <2> TAKE b \in 0 .. n
  <2>1. CASE b = 0
    BY <1>4, <2>1, EmptySeq
  <2>2. CASE b # 0
    <3>1. b \in 1 .. n
      BY <1>1, <2>2
    <3> QED BY <1>6, <3>1
  <2> QED BY <2>1, <2>2
<1>8. \A b \in 0 .. n : SentWith(s, b) \in Nat
  BY <1>1, <1>3, <1>7, LenProperties
<1>9. SentWith(s, 0) = Len(x)
  <2>1. Len(head(0)) = 0 /\ Len(x) \in Nat
    BY <1>1, <1>4
  <2> QED BY <1>3, <2>1
<1>10. ASSUME NEW b \in 1 .. n
       PROVE  /\ SentWith(s, b) = SentWith(s, b - 1) + Len(bs[b])
              /\ \A k \in 1 .. Len(bs[b]) : (x \o y \o z)[SentWith(s, b - 1) + k] = bs[b][k]
  <2>1. bs[b] \in Seq(SseEvent) /\ head(b - 1) \in Seq(SseEvent) /\ head(b) = head(b - 1) \o bs[b]
    BY <1>1, <1>6, ElementOfSeq
  <2>2. PICK after \in Seq(SseEvent) : y = head(b - 1) \o (bs[b] \o after)
    BY <1>6
  <2>3. SentWith(s, b) = Len(x) + Len(head(b)) /\ SentWith(s, b - 1) = Len(x) + Len(head(b - 1))
    BY <1>3, Zenon
  <2> HIDE DEF y
  <2>4. /\ Len(x) + Len(head(b - 1) \o bs[b]) = (Len(x) + Len(head(b - 1))) + Len(bs[b])
        /\ \A k \in 1 .. Len(bs[b]) : (x \o y \o z)[(Len(x) + Len(head(b - 1))) + k] = bs[b][k]
    <3>1. /\ x \in Seq(SseEvent) /\ z \in Seq(SseEvent) /\ after \in Seq(SseEvent)
          /\ head(b - 1) \in Seq(SseEvent) /\ bs[b] \in Seq(SseEvent)
      BY <1>1, <2>1
    <3>2. Within(x, z, head(b - 1), bs[b], after)
      BY <3>1, InTheMiddle
    <3> QED BY <2>2, <3>2, Zenon DEF Within
  <2> QED BY <2>1, <2>3, <2>4, Zenon
<1>11. /\ Len(x \o y \o z) = SentWith(s, n) + Len(z)
       /\ \A k \in 1 .. Len(z) : (x \o y \o z)[SentWith(s, n) + k] = z[k]
       /\ \A k \in 1 .. Len(x) : (x \o y \o z)[k] = x[k]
  <2>1. SentWith(s, n) = Len(x) + Len(y)
    BY <1>3, <1>5
  <2> HIDE DEF y
  <2> QED BY <1>1, <2>1, ThreeInARow
<1>12. /\ Whole(s) = x \o y \o z /\ \A b \in 1 .. n : bs[b] = BlockEvents(s, b)
  BY <1>1, <1>2
<1> HIDE DEF x, y, z, bs
<1>13. ASSUME NEW b \in 1 .. n
       PROVE  /\ SentWith(s, b) = SentWith(s, b - 1) + Len(BlockEvents(s, b))
              /\ \A k \in 1 .. Len(BlockEvents(s, b)) :
                   Whole(s)[SentWith(s, b - 1) + k] = BlockEvents(s, b)[k]
  BY <1>10, <1>12, Zenon
<1>14. /\ Len(Whole(s)) = SentWith(s, n) + Len(z)
       /\ \A k \in 1 .. Len(z) : Whole(s)[SentWith(s, n) + k] = z[k]
       /\ \A k \in 1 .. Len(x) : Whole(s)[k] = x[k]
  BY <1>11, <1>12, Zenon
<1> QED BY <1>8, <1>9, <1>13, <1>14, Zenon DEF x, z

(* ------------------------- what has been put together ------------------- *)

CallRecord == [id : Nat, name : Nat, arguments : Seq(Piece)]

ACall(id, name, arguments) == [id |-> id, name |-> name, arguments |-> arguments]

Acc(text, thinking, calls, finish) ==
  [text |-> text, thinking |-> thinking, calls |-> calls, finish |-> finish]

\* The pieces of a kind, and the calls, block by block.
Wanted(s, kind) ==
  [b \in DOMAIN s.answer |->
     IF s.answer[b].kind = kind THEN Pieces(b, s.answer[b].pieces) ELSE <<>>]

WholeCall(s, b) == ACall(b, b, Pieces(b, s.answer[b].pieces))

WantedCalls(s) ==
  [b \in DOMAIN s.answer |-> IF s.answer[b].kind = "call" THEN <<WholeCall(s, b)>> ELSE <<>>]

\* What the first b blocks come to.
Upto(blocks, b) == FlattenSeq(SubSeq(blocks, 1, b))

\* What is there of a block of which k pieces came, a call once it has begun.
Part(s, kind, b, k) == IF s.answer[b].kind = kind THEN Pieces(b, k) ELSE <<>>

PartCall(s, b, k, begun) ==
  IF s.answer[b].kind = "call" /\ begun
    THEN <<ACall(b, b, Pieces(b, k))>> ELSE <<>>

\* The accumulator within block b, and after b blocks.
AccWith(s, b, k, begun) ==
  Acc(Upto(Wanted(s, "text"), b - 1) \o Part(s, "text", b, k),
      Upto(Wanted(s, "thinking"), b - 1) \o Part(s, "thinking", b, k),
      Upto(WantedCalls(s), b - 1) \o PartCall(s, b, k, begun),
      FALSE)

AccDone(s, b, finish) ==
  Acc(Upto(Wanted(s, "text"), b), Upto(Wanted(s, "thinking"), b), Upto(WantedCalls(s), b), finish)

\* What the blocks have are sequences, block by block.
LEMMA WantedTyped ==
  ASSUME NEW s, ScriptOK(s)
  PROVE  /\ \A kind : /\ Wanted(s, kind) \in Seq(Seq(Piece))
                      /\ Len(Wanted(s, kind)) = Len(s.answer)
                      /\ \A b \in 1 .. Len(s.answer) :
                           Wanted(s, kind)[b] = Part(s, kind, b, s.answer[b].pieces)
         /\ WantedCalls(s) \in Seq(Seq(CallRecord))
         /\ Len(WantedCalls(s)) = Len(s.answer)
         /\ \A b \in 1 .. Len(s.answer) :
              WantedCalls(s)[b] = PartCall(s, b, s.answer[b].pieces, TRUE)
<1> DEFINE n == Len(s.answer)
<1>1. DOMAIN s.answer = 1 .. n /\ n \in Nat
  BY LenProperties DEF ScriptOK
<1>2. ASSUME NEW b \in 1 .. n
      PROVE  Pieces(b, s.answer[b].pieces) \in Seq(Piece) /\ b \in Nat
  BY <1>1, BlockKnown, PiecesTyped
<1>3. ASSUME NEW kind
      PROVE  /\ Wanted(s, kind) \in Seq(Seq(Piece))
             /\ Len(Wanted(s, kind)) = n
             /\ \A b \in 1 .. n : Wanted(s, kind)[b] = Part(s, kind, b, s.answer[b].pieces)
  <2>1. \A b \in 1 .. n : Part(s, kind, b, s.answer[b].pieces) \in Seq(Piece)
    BY <1>2, EmptySeq DEF Part
  <2>2. Wanted(s, kind) = [b \in 1 .. n |-> Part(s, kind, b, s.answer[b].pieces)]
    BY <1>1 DEF Wanted, Part
  <2> DEFINE p(b) == Part(s, kind, b, s.answer[b].pieces)
  <2>3. \A b \in 1 .. n : p(b) \in Seq(Piece)
    BY <2>1
  <2>4. Wanted(s, kind) = [b \in 1 .. n |-> p(b)]
    BY <2>2
  <2> HIDE DEF p
  <2>5. /\ Wanted(s, kind) \in Seq(Seq(Piece)) /\ Len(Wanted(s, kind)) = n
        /\ \A b \in 1 .. n : Wanted(s, kind)[b] = p(b)
    BY <1>1, <2>3, <2>4
  <2> QED BY <2>5 DEF p
<1>4. /\ WantedCalls(s) \in Seq(Seq(CallRecord))
      /\ Len(WantedCalls(s)) = n
      /\ \A b \in 1 .. n : WantedCalls(s)[b] = PartCall(s, b, s.answer[b].pieces, TRUE)
  <2> DEFINE p(b) == PartCall(s, b, s.answer[b].pieces, TRUE)
  <2>1. \A b \in 1 .. n : p(b) \in Seq(CallRecord)
    <3> TAKE b \in 1 .. n
    <3>1. WholeCall(s, b) \in CallRecord
      BY <1>2 DEF WholeCall, ACall, CallRecord
    <3>2. p(b) = <<>> \/ p(b) = <<WholeCall(s, b)>>
      BY DEF PartCall, WholeCall
    <3>3. <<>> \in Seq(CallRecord) /\ <<WholeCall(s, b)>> \in Seq(CallRecord)
      BY <3>1, EmptySeq
    <3> HIDE DEF p
    <3> QED BY <3>2, <3>3, Zenon
  <2>2. WantedCalls(s) = [b \in 1 .. n |-> p(b)]
    BY <1>1 DEF WantedCalls, PartCall, WholeCall
  <2> HIDE DEF p
  <2>3. /\ WantedCalls(s) \in Seq(Seq(CallRecord)) /\ Len(WantedCalls(s)) = n
        /\ \A b \in 1 .. n : WantedCalls(s)[b] = p(b)
    BY <1>1, <2>1, <2>2
  <2> QED BY <2>3 DEF p
<1> QED BY <1>3, <1>4

\* What b blocks come to, from block to block.
LEMMA UptoStep ==
  ASSUME NEW S, NEW blocks \in Seq(Seq(S))
  PROVE  /\ Upto(blocks, 0) = <<>>
         /\ Upto(blocks, Len(blocks)) = FlattenSeq(blocks)
         /\ \A b \in 0 .. Len(blocks) : Upto(blocks, b) \in Seq(S)
         /\ \A b \in 1 .. Len(blocks) :
              /\ Upto(blocks, b) = Upto(blocks, b - 1) \o blocks[b]
              /\ \E after \in Seq(S) : FlattenSeq(blocks) = Upto(blocks, b - 1) \o (blocks[b] \o after)
<1>1. Upto(blocks, 0) = <<>>
  <2>1. SubSeq(blocks, 1, 0) = <<>>
    BY SubSeqEmpty
  <2>2. FlattenSeq(<<>>) = <<>>
    BY FlattenBasics, Zenon
  <2> QED BY <2>1, <2>2 DEF Upto
<1>2. Upto(blocks, Len(blocks)) = FlattenSeq(blocks)
  BY SubSeqFull DEF Upto
<1>3. ASSUME NEW b \in 1 .. Len(blocks)
      PROVE  /\ Upto(blocks, b) = Upto(blocks, b - 1) \o blocks[b]
             /\ Upto(blocks, b - 1) \in Seq(S) /\ blocks[b] \in Seq(S)
             /\ \E after \in Seq(S) : FlattenSeq(blocks) = Upto(blocks, b - 1) \o (blocks[b] \o after)
  <2>1. blocks[b] \in Seq(S)
    BY ElementOfSeq
  <2> DEFINE before == FlattenSeq(SubSeq(blocks, 1, b - 1))
             after  == FlattenSeq(SubSeq(blocks, b + 1, Len(blocks)))
  <2>2. /\ before \in Seq(S)
        /\ after \in Seq(S)
        /\ FlattenSeq(SubSeq(blocks, 1, b)) = before \o blocks[b]
        /\ FlattenSeq(blocks) = before \o (blocks[b] \o after)
    BY FlattenSplit
  <2> QED BY <2>1, <2>2 DEF Upto
<1>4. ASSUME NEW b \in 0 .. Len(blocks) PROVE Upto(blocks, b) \in Seq(S)
  <2>1. CASE b = 0
    BY <1>1, <2>1, EmptySeq
  <2>2. CASE b # 0
    <3>1. b \in 1 .. Len(blocks)
      BY <2>2
    <3> QED BY <1>3, <3>1, ConcatProperties, ZenonT(40)
  <2> QED BY <2>1, <2>2
<1> QED BY <1>1, <1>2, <1>3, <1>4

\* No pieces, one more piece, all the pieces at once.
LEMMA PiecesGrow ==
  ASSUME NEW b \in Nat
  PROVE  /\ Pieces(b, 0) = <<>>
         /\ \A k \in Nat : Pieces(b, k) \o <<<<b, k + 1>>>> = Pieces(b, k + 1)
         /\ \A k \in Nat : Pieces(b, k) \o <<>> = Pieces(b, k) /\ <<>> \o Pieces(b, k) = Pieces(b, k)
<1>1. Pieces(b, 0) = <<>>
  <2>1. Pieces(b, 0) \in Seq(Piece) /\ Len(Pieces(b, 0)) = 0
    BY PiecesTyped
  <2> QED BY <2>1, EmptySeq
<1>2. ASSUME NEW k \in Nat PROVE Pieces(b, k) \o <<<<b, k + 1>>>> = Pieces(b, k + 1)
  <2> DEFINE p == Pieces(b, k)
             q == Pieces(b, k + 1)
             x == <<b, k + 1>>
  <2>1. /\ p \in Seq(Piece) /\ Len(p) = k /\ \A j \in 1 .. k : p[j] = <<b, j>>
        /\ q \in Seq(Piece) /\ Len(q) = k + 1 /\ \A j \in 1 .. k + 1 : q[j] = <<b, j>>
    BY PiecesTyped
  <2>2. x \in Piece
    BY DEF Piece
  <2> HIDE DEF p, q
  <2>3. q[k + 1] = x /\ \A j \in 1 .. k : q[j] = p[j]
    <3>1. k + 1 \in 1 .. k + 1 /\ \A j \in 1 .. k : j \in 1 .. k + 1
      OBVIOUS
    <3> QED BY <2>1, <3>1, Zenon
  <2> HIDE DEF x
  <2>4. /\ p \o <<x>> \in Seq(Piece) /\ Len(p \o <<x>>) = k + 1
        /\ \A j \in 1 .. k : (p \o <<x>>)[j] = p[j]
        /\ (p \o <<x>>)[k + 1] = x
    BY <2>1, <2>2
  <2>5. \A j \in 1 .. k + 1 : (p \o <<x>>)[j] = q[j]
    <3> TAKE j \in 1 .. k + 1
    <3>1. CASE j = k + 1
      BY <2>3, <2>4, <3>1
    <3>2. CASE j # k + 1
      <4>1. j \in 1 .. k
        BY <3>2
      <4> QED BY <2>3, <2>4, <4>1
    <3> QED BY <3>1, <3>2
  <2>6. p \o <<x>> = q
    BY <2>1, <2>4, <2>5, SeqEqual
  <2> QED BY <2>6 DEF p, q, x
<1>3. ASSUME NEW k \in Nat PROVE Pieces(b, k) \o <<>> = Pieces(b, k) /\ <<>> \o Pieces(b, k) = Pieces(b, k)
  BY PiecesTyped, ConcatEmptySeq
<1> QED BY <1>1, <1>2, <1>3

\* The calls of the first b blocks have the numbers of those blocks.
LEMMA CallIds ==
  ASSUME NEW s, ScriptOK(s)
  PROVE  \A b \in 0 .. Len(s.answer) :
           /\ Upto(WantedCalls(s), b) \in Seq(CallRecord)
           /\ \A i \in 1 .. Len(Upto(WantedCalls(s), b)) : Upto(WantedCalls(s), b)[i].id \in 1 .. b
<1> DEFINE n == Len(s.answer)
           u(b) == Upto(WantedCalls(s), b)
           P == {b \in 0 .. n : \A i \in 1 .. Len(u(b)) : u(b)[i].id \in 1 .. b}
<1>1. /\ n \in Nat
      /\ WantedCalls(s) \in Seq(Seq(CallRecord)) /\ Len(WantedCalls(s)) = n
      /\ \A b \in 1 .. n : WantedCalls(s)[b] = PartCall(s, b, s.answer[b].pieces, TRUE)
  BY WantedTyped, LenProperties DEF ScriptOK
<1>2. /\ u(0) = <<>>
      /\ \A b \in 0 .. n : u(b) \in Seq(CallRecord)
      /\ \A b \in 1 .. n : u(b) = u(b - 1) \o WantedCalls(s)[b]
  BY <1>1, UptoStep
<1> HIDE DEF u
<1>3. 0 \in P
  BY <1>1, <1>2
<1>4. ASSUME NEW b \in 0 .. n - 1, b \in P PROVE b + 1 \in P
  <2>1. /\ b + 1 \in 1 .. n /\ (b + 1) - 1 = b /\ b \in 0 .. n /\ b + 1 \in 0 .. n
    BY <1>1
  <2>2. u(b + 1) = u(b) \o PartCall(s, b + 1, s.answer[b + 1].pieces, TRUE)
    BY <1>1, <1>2, <2>1
  <2>3. u(b) \in Seq(CallRecord) /\ u(b + 1) \in Seq(CallRecord)
    BY <1>2, <2>1
  <2>4. \A i \in 1 .. Len(u(b)) : u(b)[i].id \in 1 .. b
    BY <1>4
  <2> DEFINE c == ACall(b + 1, b + 1, Pieces(b + 1, s.answer[b + 1].pieces))
  <2>5. PartCall(s, b + 1, s.answer[b + 1].pieces, TRUE) = <<>>
          \/ PartCall(s, b + 1, s.answer[b + 1].pieces, TRUE) = <<c>>
    BY DEF PartCall
  <2>6. c.id = b + 1
    BY DEF ACall
  <2> HIDE DEF c
  <2>7. CASE u(b + 1) = u(b) \o <<>>
    <3>1. u(b + 1) = u(b)
      BY <2>3, <2>7, ConcatEmptySeq
    <3> QED BY <2>1, <2>4, <3>1
  <2>8. CASE u(b + 1) = u(b) \o <<c>>
    <3> DEFINE v == u(b)
    <3>1. v \in Seq(CallRecord) /\ Len(v) \in Nat
      BY <2>3
    <3> HIDE DEF v
    <3>2. Len(v \o <<c>>) = Len(v) + 1 /\ (v \o <<c>>)[Len(v) + 1] = c
          /\ \A i \in 1 .. Len(v) : (v \o <<c>>)[i] = v[i]
      BY <3>1
    <3>3. \A i \in 1 .. Len(v) + 1 : (v \o <<c>>)[i].id \in 1 .. b + 1
      <4> TAKE i \in 1 .. Len(v) + 1
      <4>1. CASE i = Len(v) + 1
        BY <2>1, <2>6, <3>2, <4>1
      <4>2. CASE i # Len(v) + 1
        <5>1. i \in 1 .. Len(v)
          BY <3>1, <4>2
        <5>2. v[i].id \in 1 .. b
          BY <2>4, <5>1 DEF v
        <5> QED BY <2>1, <3>2, <5>1, <5>2
      <4> QED BY <4>1, <4>2
    <3> QED BY <2>1, <2>8, <3>2, <3>3 DEF v
  <2> QED BY <2>2, <2>5, <2>7, <2>8
<1>5. 0 .. n \subseteq P
  <2> HIDE DEF P
  <2> QED BY <1>1, <1>3, <1>4, NumbersUpTo
<1> QED BY <1>2, <1>5 DEF u

(* --------------------------- the accumulator ---------------------------- *)

\* process_event, of any accumulator.
Take(a, item) ==
  LET same == {i \in DOMAIN a.calls : a.calls[i].id = item.id} IN
  CASE item.type = "ContentDelta"  -> [a EXCEPT !.text = @ \o item.pieces]
    [] item.type = "ThinkingDelta" -> [a EXCEPT !.thinking = @ \o item.pieces]
    [] item.type = "ToolCallDelta" /\ same = {} -> [a EXCEPT !.calls = Append(@, Call(item))]
    [] item.type = "ToolCallDelta" /\ same # {} ->
         LET i == CHOOSE i \in same : \A k \in same : i <= k IN
         [a EXCEPT !.calls[i].name = IF item.name = 0 THEN @ ELSE item.name,
                   !.calls[i].arguments = @ \o item.pieces]
    [] item.type = "End" -> [a EXCEPT !.finish = TRUE]
    [] OTHER -> a

\* What the accumulator makes of an item depends on nothing else in the state.
LEMMA ProcessedIsTake == \A item : Processed(item) = Take(acc, item)
BY DEF Processed, Take

\* The accumulators at the two ends of a block are those between blocks.
LEMMA AccTurns ==
  ASSUME NEW s, ScriptOK(s), NEW b \in 1 .. Len(s.answer)
  PROVE  /\ AccWith(s, b, 0, FALSE) = AccDone(s, b - 1, FALSE)
         /\ AccWith(s, b, s.answer[b].pieces, TRUE) = AccDone(s, b, FALSE)
         /\ s.answer[b].kind # "call" =>
              \A k : AccWith(s, b, k, TRUE) = AccWith(s, b, k, FALSE)
<1>1. /\ Len(s.answer) \in Nat /\ b - 1 \in 0 .. Len(s.answer) /\ b \in Nat
      /\ b \in DOMAIN s.answer
  BY LenProperties DEF ScriptOK
<1>2. s.answer[b].pieces \in Nat
  BY <1>1, BlockKnown
<1>3. ASSUME NEW kind
      PROVE  /\ Upto(Wanted(s, kind), b - 1) \o Part(s, kind, b, 0) = Upto(Wanted(s, kind), b - 1)
             /\ Upto(Wanted(s, kind), b - 1) \o Part(s, kind, b, s.answer[b].pieces)
                  = Upto(Wanted(s, kind), b)
  <2>1. /\ Wanted(s, kind) \in Seq(Seq(Piece)) /\ Len(Wanted(s, kind)) = Len(s.answer)
        /\ Wanted(s, kind)[b] = Part(s, kind, b, s.answer[b].pieces)
    BY WantedTyped
  <2>2. /\ Upto(Wanted(s, kind), b - 1) \in Seq(Piece)
        /\ Upto(Wanted(s, kind), b) = Upto(Wanted(s, kind), b - 1) \o Wanted(s, kind)[b]
    BY <1>1, <2>1, UptoStep
  <2>3. Part(s, kind, b, 0) = <<>>
    BY <1>1, PiecesGrow DEF Part
  <2> QED BY <2>1, <2>2, <2>3, ConcatEmptySeq
<1>4. /\ Upto(WantedCalls(s), b - 1) \o PartCall(s, b, 0, FALSE) = Upto(WantedCalls(s), b - 1)
      /\ Upto(WantedCalls(s), b - 1) \o PartCall(s, b, s.answer[b].pieces, TRUE) = Upto(WantedCalls(s), b)
  <2>1. /\ WantedCalls(s) \in Seq(Seq(CallRecord)) /\ Len(WantedCalls(s)) = Len(s.answer)
        /\ WantedCalls(s)[b] = PartCall(s, b, s.answer[b].pieces, TRUE)
    BY WantedTyped
  <2>2. /\ Upto(WantedCalls(s), b - 1) \in Seq(CallRecord)
        /\ Upto(WantedCalls(s), b) = Upto(WantedCalls(s), b - 1) \o WantedCalls(s)[b]
    BY <1>1, <2>1, UptoStep
  <2>3. PartCall(s, b, 0, FALSE) = <<>>
    BY DEF PartCall
  <2> QED BY <2>1, <2>2, <2>3, ConcatEmptySeq
<1>5. s.answer[b].kind # "call" => \A k : PartCall(s, b, k, TRUE) = PartCall(s, b, k, FALSE)
  BY DEF PartCall
<1> QED BY <1>3, <1>4, <1>5 DEF AccWith, AccDone

\* An accumulator of which one field changes.
LEMMA AccUpdated ==
  ASSUME NEW t, NEW h, NEW c, NEW f, NEW x
  PROVE  /\ [Acc(t, h, c, f) EXCEPT !.text = x] = Acc(x, h, c, f)
         /\ [Acc(t, h, c, f) EXCEPT !.thinking = x] = Acc(t, x, c, f)
         /\ [Acc(t, h, c, f) EXCEPT !.calls = x] = Acc(t, h, x, f)
         /\ [Acc(t, h, c, f) EXCEPT !.finish = x] = Acc(t, h, c, x)
         /\ Acc(t, h, c, f).text = t /\ Acc(t, h, c, f).thinking = h
         /\ Acc(t, h, c, f).calls = c /\ Acc(t, h, c, f).finish = f
BY Z3 DEF Acc

Named(n, q) == IF n = 0 THEN q ELSE n

\* The step of process_event for a call it knows.
Grown(a, l, n, p) ==
  [a EXCEPT !.calls[l].name = IF n = 0 THEN @ ELSE n, !.calls[l].arguments = @ \o p]

Put(seq, l, x) == [seq EXCEPT ![l] = x]

\* A call of the accumulator that gets its name, if there is one, and more arguments.
LEMMA CallUpdated ==
  ASSUME NEW t, NEW h, NEW calls, NEW f, NEW l \in DOMAIN calls,
         NEW i, NEW q, NEW r, NEW n, NEW p, calls[l] = ACall(i, q, r)
  PROVE  Grown(Acc(t, h, calls, f), l, n, p)
           = Acc(t, h, Put(calls, l, ACall(i, Named(n, q), r \o p)), f)
<1> DEFINE a == Acc(t, h, calls, f)
           m == IF n = 0 THEN q ELSE n
           b == [a EXCEPT !.calls[l].name = IF n = 0 THEN @ ELSE n]
           more == [calls EXCEPT ![l] = ACall(i, m, r)]
<1>1. /\ [ACall(i, q, r) EXCEPT !.name = m] = ACall(i, m, r)
      /\ [ACall(i, m, r) EXCEPT !.arguments = r \o p] = ACall(i, m, r \o p)
      /\ ACall(i, q, r).name = q /\ ACall(i, m, r).arguments = r
  <2> HIDE DEF m
  <2>1. [ACall(i, q, r) EXCEPT !.name = m] = ACall(i, m, r) /\ ACall(i, q, r).name = q
    BY Z3 DEF ACall
  <2>2. [ACall(i, m, r) EXCEPT !.arguments = r \o p] = ACall(i, m, r \o p) /\ ACall(i, m, r).arguments = r
    <3> DEFINE x == r \o p
    <3> HIDE DEF x
    <3>1. [ACall(i, m, r) EXCEPT !.arguments = x] = ACall(i, m, x) /\ ACall(i, m, r).arguments = r
      BY Z3 DEF ACall
    <3> QED BY <3>1 DEF x
  <2> QED BY <2>1, <2>2
<1>2. a.calls = calls /\ a.calls[l].name = q
  BY <1>1, AccUpdated
<1>3. b = [a EXCEPT !.calls = [calls EXCEPT ![l] = [calls[l] EXCEPT !.name = m]]]
  BY <1>2
<1>4. b = [a EXCEPT !.calls = more]
  BY <1>1, <1>3
<1>5. b = Acc(t, h, more, f)
  BY <1>4, AccUpdated
<1> HIDE DEF m
<1>6. b.calls = more /\ l \in DOMAIN more /\ more[l] = ACall(i, m, r)
  <2>1. l \in DOMAIN more /\ more[l] = ACall(i, m, r)
    OBVIOUS
  <2> HIDE DEF b, more
  <2> QED BY <1>5, <2>1, AccUpdated
<1> HIDE DEF b
<1>7. [b EXCEPT !.calls[l].arguments = @ \o p]
        = [b EXCEPT !.calls = [more EXCEPT ![l] = ACall(i, m, r \o p)]]
  BY <1>1, <1>6
<1>8. [more EXCEPT ![l] = ACall(i, m, r \o p)] = [calls EXCEPT ![l] = ACall(i, m, r \o p)]
  OBVIOUS
<1> HIDE DEF more
<1>9. [b EXCEPT !.calls[l].arguments = @ \o p]
        = Acc(t, h, [calls EXCEPT ![l] = ACall(i, m, r \o p)], f)
  BY <1>5, <1>7, <1>8, AccUpdated
<1>11. [a EXCEPT !.calls[l].name = IF n = 0 THEN @ ELSE n, !.calls[l].arguments = @ \o p]
         = [b EXCEPT !.calls[l].arguments = @ \o p]
  BY DEF b
<1> QED BY <1>9, <1>11, Zenon DEF m, Grown, Put, Named

\* The last element of a sequence is replaced.
LEMMA LastReplaced ==
  ASSUME NEW S, NEW v \in Seq(S), NEW x, NEW y
  PROVE  [Append(v, x) EXCEPT ![Len(v) + 1] = y] = Append(v, y)
<1> DEFINE l == Len(v) + 1
           p == [Append(v, x) EXCEPT ![l] = y]
           q == Append(v, y)
<1>1. Len(v) \in Nat /\ l \in 1 .. l
  OBVIOUS
<1>2. /\ DOMAIN Append(v, x) = 1 .. l /\ DOMAIN q = 1 .. l
      /\ \A i \in 1 .. Len(v) : Append(v, x)[i] = v[i] /\ q[i] = v[i]
      /\ q[l] = y
  OBVIOUS
<1>3. DOMAIN p = 1 .. l /\ p[l] = y /\ \A i \in 1 .. l \ {l} : p[i] = Append(v, x)[i]
  BY <1>1, <1>2
<1>4. p = [i \in 1 .. l |-> p[i]] /\ q = [i \in 1 .. l |-> q[i]]
  <2>1. v \in Seq(S \cup {x, y})
    OBVIOUS
  <2>2. q \in Seq(S \cup {x, y}) /\ Append(v, x) \in Seq(S \cup {x, y})
    BY <2>1
  <2>3. q \in [1 .. l -> S \cup {x, y}] /\ Append(v, x) \in [1 .. l -> S \cup {x, y}]
    <3>1. \A s \in Seq(S \cup {x, y}) : DOMAIN s = 1 .. l => s \in [1 .. l -> S \cup {x, y}]
      OBVIOUS
    <3> QED BY <1>2, <2>2, <3>1, Zenon
  <2>4. p \in [1 .. l -> S \cup {x, y}]
    BY <2>3
  <2> HIDE DEF p, q
  <2> QED BY <2>3, <2>4
<1> HIDE DEF p, q
<1>5. \A i \in 1 .. l : p[i] = q[i]
  <2> TAKE i \in 1 .. l
  <2>1. CASE i = l
    BY <1>2, <1>3, <2>1
  <2>2. CASE i # l
    <3>1. i \in 1 .. Len(v)
      BY <1>1, <2>2
    <3> QED BY <1>2, <1>3, <2>2, <3>1
  <2> QED BY <2>1, <2>2
<1> QED BY <1>4, <1>5 DEF p, q

\* What each stream event adds to an accumulator.
LEMMA TextTaken ==
  ASSUME NEW t, NEW h, NEW c, NEW f, NEW p
  PROVE  Take(Acc(t, h, c, f), Item("ContentDelta", 0, 0, p)) = Acc(t \o p, h, c, f)
<1> DEFINE a == Acc(t, h, c, f)
           x == t \o p
<1>1. Take(a, Item("ContentDelta", 0, 0, p)) = [a EXCEPT !.text = a.text \o p]
  BY DEF Take, Item
<1>2. a.text = t
  BY AccUpdated
<1>3. [a EXCEPT !.text = x] = Acc(x, h, c, f)
  <2> HIDE DEF x
  <2> QED BY AccUpdated
<1> QED BY <1>1, <1>2, <1>3

\* A thinking delta is put behind the thinking.
LEMMA ThinkingTaken ==
  ASSUME NEW t, NEW h, NEW c, NEW f, NEW p
  PROVE  Take(Acc(t, h, c, f), Item("ThinkingDelta", 0, 0, p)) = Acc(t, h \o p, c, f)
<1> DEFINE a == Acc(t, h, c, f)
           x == h \o p
<1>1. Take(a, Item("ThinkingDelta", 0, 0, p)) = [a EXCEPT !.thinking = a.thinking \o p]
  BY DEF Take, Item
<1>2. a.thinking = h
  BY AccUpdated
<1>3. [a EXCEPT !.thinking = x] = Acc(t, x, c, f)
  <2> HIDE DEF x
  <2> QED BY AccUpdated
<1> QED BY <1>1, <1>2, <1>3

\* The end sets the finish reason.
LEMMA EndTaken ==
  ASSUME NEW t, NEW h, NEW c, NEW f
  PROVE  Take(Acc(t, h, c, f), Plain("End")) = Acc(t, h, c, TRUE)
<1>1. Take(Acc(t, h, c, f), Plain("End")) = [Acc(t, h, c, f) EXCEPT !.finish = TRUE]
  BY DEF Take, Plain, Item
<1> DEFINE x == TRUE
<1> HIDE DEF x
<1>2. [Acc(t, h, c, f) EXCEPT !.finish = x] = Acc(t, h, c, x)
  BY AccUpdated
<1> QED BY <1>1, <1>2 DEF x

\* A call is begun by the first event with its id ...
LEMMA CallBegun ==
  ASSUME NEW t, NEW h, NEW c \in Seq(CallRecord), NEW f, NEW id, NEW name, NEW p,
         \A i \in 1 .. Len(c) : c[i].id # id
  PROVE  Take(Acc(t, h, c, f), Item("ToolCallDelta", id, name, p))
           = Acc(t, h, Append(c, ACall(id, name, p)), f)
<1> DEFINE a == Acc(t, h, c, f)
           item == Item("ToolCallDelta", id, name, p)
           x == Append(c, ACall(id, name, p))
<1>1. a.calls = c
  BY AccUpdated
<1>2. item.id = id /\ Call(item) = ACall(id, name, p) /\ item.type = "ToolCallDelta"
  BY DEF Item, Call, ACall
<1>3. {i \in DOMAIN a.calls : a.calls[i].id = item.id} = {}
  BY <1>1, <1>2
<1> HIDE DEF a, item
<1>4. Take(a, item) = [a EXCEPT !.calls = x]
  BY <1>1, <1>2, <1>3 DEF Take
<1>5. [a EXCEPT !.calls = x] = Acc(t, h, x, f)
  <2> HIDE DEF x
  <2> QED BY AccUpdated DEF a
<1> QED BY <1>4, <1>5 DEF a, item

\* ... and found again by it.
LEMMA CallGrown ==
  ASSUME NEW t, NEW h, NEW v \in Seq(CallRecord), NEW f, NEW id, NEW q, NEW r, NEW name, NEW p,
         ACall(id, q, r) \in CallRecord,
         \A i \in 1 .. Len(v) : v[i].id # id
  PROVE  Take(Acc(t, h, Append(v, ACall(id, q, r)), f), Item("ToolCallDelta", id, name, p))
           = Acc(t, h, Append(v, ACall(id, Named(name, q), r \o p)), f)
<1> DEFINE c == ACall(id, q, r)
           d == ACall(id, Named(name, q), r \o p)
           calls == Append(v, c)
           a == Acc(t, h, calls, f)
           item == Item("ToolCallDelta", id, name, p)
           same == {i \in DOMAIN a.calls : a.calls[i].id = item.id}
           l == Len(v) + 1
<1>1. a.calls = calls
  <2> HIDE DEF calls
  <2> QED BY AccUpdated
<1>2. item.id = id /\ item.name = name /\ item.pieces = p /\ item.type = "ToolCallDelta"
  BY DEF Item
<1>3. c.id = id
  BY DEF ACall
<1> HIDE DEF c, d
<1>4. /\ Len(v) \in Nat /\ l \in 1 .. l /\ l \in Nat
      /\ calls \in Seq(CallRecord) /\ DOMAIN calls = 1 .. l
      /\ \A i \in 1 .. Len(v) : calls[i] = v[i]
      /\ calls[l] = c
  BY DEF c
<1>5. Put(calls, l, d) = Append(v, d)
  BY LastReplaced DEF Put
<1> HIDE DEF calls, a, item
<1>6. same = {l}
  <2>1. ASSUME NEW i \in 1 .. l PROVE calls[i].id = id <=> i = l
    <3>1. CASE i = l
      BY <1>3, <1>4, <3>1
    <3>2. CASE i # l
      <4>1. i \in 1 .. Len(v)
        BY <1>4, <3>2
      <4> QED BY <1>4, <3>2, <4>1
    <3> QED BY <3>1, <3>2
  <2> QED BY <1>1, <1>2, <1>4, <2>1
<1>7. (CHOOSE i \in same : \A j \in same : i <= j) = l
  <2> HIDE DEF same, l
  <2> QED BY <1>4, <1>6
<1>8. same # {}
  BY <1>6
<1>9. Take(a, item) = Grown(a, l, name, p)
  <2> DEFINE m == CHOOSE i \in same : \A j \in same : i <= j
  <2>1. Take(a, item) = Grown(a, m, item.name, item.pieces)
    BY <1>2, <1>8, Zenon DEF Take, Grown
  <2>2. m = l
    BY <1>7
  <2> HIDE DEF l, m
  <2> QED BY <1>2, <2>1, <2>2, Zenon
<1>10. Grown(a, l, name, p) = Acc(t, h, Put(calls, l, d), f)
  <2>1. l \in DOMAIN calls /\ calls[l] = ACall(id, q, r)
    BY <1>4 DEF c
  <2> HIDE DEF l
  <2> QED BY <2>1, CallUpdated DEF a, d
<1> QED BY <1>5, <1>9, <1>10, Zenon DEF a, calls, c, d, item

\* Pieces are joined in any grouping.
LEMMA PiecesAssociative == \A u, v, w \in Seq(Piece) : (u \o v) \o w = u \o (v \o w)
BY ConcatAssociative

\* A delta of block b turns its first k pieces into its first m.
DeltaAdds(s, b, k, m, begun, pieces, name) ==
  LET a == AccWith(s, b, k, begun)
  IN  /\ s.answer[b].kind = "text" =>
           Take(a, Item("ContentDelta", 0, 0, pieces)) = AccWith(s, b, m, TRUE)
      /\ s.answer[b].kind = "thinking" =>
           Take(a, Item("ThinkingDelta", 0, 0, pieces)) = AccWith(s, b, m, TRUE)
      /\ s.answer[b].kind = "call" =>
           Take(a, Item("ToolCallDelta", b, name, pieces)) = AccWith(s, b, m, TRUE)

\* A delta with the pieces k + 1 to m of a block adds them where they belong: a call that
\* has begun is found by its id, and one that has not is begun with its name.
LEMMA DeltaTaken ==
  ASSUME NEW s, ScriptOK(s), NEW b \in 1 .. Len(s.answer), NEW k \in Nat, NEW m \in Nat,
         NEW begun \in BOOLEAN, NEW pieces \in Seq(Piece), NEW name,
         Pieces(b, k) \o pieces = Pieces(b, m),
         begun => name = 0, ~begun => name = b /\ pieces = Pieces(b, m)
  PROVE  DeltaAdds(s, b, k, m, begun, pieces, name)
<1> DEFINE a == AccWith(s, b, k, begun)
           u(kind) == Upto(Wanted(s, kind), b - 1)
           v == Upto(WantedCalls(s), b - 1)
           c(j) == ACall(b, b, Pieces(b, j))
           no == FALSE
<1>1. Len(s.answer) \in Nat /\ b - 1 \in 0 .. Len(s.answer) /\ b \in Nat
  BY LenProperties DEF ScriptOK
<1>2. \A kind : (u(kind) \o Pieces(b, k)) \o pieces = u(kind) \o Pieces(b, m)
  <2> TAKE kind
  <2>1. u(kind) \in Seq(Piece)
    BY <1>1, WantedTyped, UptoStep
  <2>2. Pieces(b, k) \in Seq(Piece)
    BY <1>1, PiecesTyped
  <2> HIDE DEF u
  <2>3. (u(kind) \o Pieces(b, k)) \o pieces = u(kind) \o (Pieces(b, k) \o pieces)
    BY <2>1, <2>2, PiecesAssociative, Zenon
  <2> QED BY <2>3
<1>3. v \in Seq(CallRecord) /\ \A i \in 1 .. Len(v) : v[i].id \in 1 .. b - 1
  BY <1>1, CallIds
<1>4. a = Acc(u("text") \o Part(s, "text", b, k), u("thinking") \o Part(s, "thinking", b, k),
              v \o PartCall(s, b, k, begun), no)
  BY DEF AccWith
<1>5. AccWith(s, b, m, TRUE) =
        Acc(u("text") \o Part(s, "text", b, m), u("thinking") \o Part(s, "thinking", b, m),
            v \o PartCall(s, b, m, TRUE), no)
  BY DEF AccWith
<1> HIDE DEF a, u, v, no
<1>6. CASE s.answer[b].kind = "text"
  <2>1. /\ Part(s, "text", b, k) = Pieces(b, k) /\ Part(s, "text", b, m) = Pieces(b, m)
        /\ Part(s, "thinking", b, k) = <<>> /\ Part(s, "thinking", b, m) = <<>>
        /\ PartCall(s, b, k, begun) = <<>> /\ PartCall(s, b, m, TRUE) = <<>>
    BY <1>6 DEF Part, PartCall
  <2>2. Take(Acc(u("text") \o Pieces(b, k), u("thinking") \o <<>>, v \o <<>>, no),
             Item("ContentDelta", 0, 0, pieces))
          = Acc((u("text") \o Pieces(b, k)) \o pieces, u("thinking") \o <<>>, v \o <<>>, no)
    BY TextTaken
  <2>3. Take(a, Item("ContentDelta", 0, 0, pieces)) = AccWith(s, b, m, TRUE)
    BY <1>2, <1>4, <1>5, <2>1, <2>2, Zenon
  <2> QED BY <1>6, <2>3 DEF a, DeltaAdds
<1>7. CASE s.answer[b].kind = "thinking"
  <2>1. /\ Part(s, "thinking", b, k) = Pieces(b, k) /\ Part(s, "thinking", b, m) = Pieces(b, m)
        /\ Part(s, "text", b, k) = <<>> /\ Part(s, "text", b, m) = <<>>
        /\ PartCall(s, b, k, begun) = <<>> /\ PartCall(s, b, m, TRUE) = <<>>
    BY <1>7 DEF Part, PartCall
  <2>2. Take(Acc(u("text") \o <<>>, u("thinking") \o Pieces(b, k), v \o <<>>, no),
             Item("ThinkingDelta", 0, 0, pieces))
          = Acc(u("text") \o <<>>, (u("thinking") \o Pieces(b, k)) \o pieces, v \o <<>>, no)
    BY ThinkingTaken
  <2>3. Take(a, Item("ThinkingDelta", 0, 0, pieces)) = AccWith(s, b, m, TRUE)
    BY <1>2, <1>4, <1>5, <2>1, <2>2, Zenon
  <2> QED BY <1>7, <2>3 DEF a, DeltaAdds
<1>8. CASE s.answer[b].kind = "call"
  <2> DEFINE item == Item("ToolCallDelta", b, name, pieces)
  <2>1. /\ Part(s, "text", b, k) = <<>> /\ Part(s, "text", b, m) = <<>>
        /\ Part(s, "thinking", b, k) = <<>> /\ Part(s, "thinking", b, m) = <<>>
        /\ PartCall(s, b, m, TRUE) = <<c(m)>>
    BY <1>8 DEF Part, PartCall
  <2>2. c(k) \in CallRecord /\ c(m) \in CallRecord
    BY <1>1, PiecesTyped DEF CallRecord, ACall
  <2>3. \A i \in 1 .. Len(v) : v[i].id # b
    <3>1. \A j \in 1 .. b - 1 : j # b
      BY <1>1
    <3> QED BY <1>3, <3>1
  <2> DEFINE t == u("text") \o <<>>
             h == u("thinking") \o <<>>
  <2>4. v \o <<>> = v /\ v \o <<c(k)>> = Append(v, c(k)) /\ v \o <<c(m)>> = Append(v, c(m))
    <3> HIDE DEF c
    <3> QED BY <1>3, <2>2, ConcatEmptySeq, AppendIsConcat
  <2>5. AccWith(s, b, m, TRUE) = Acc(t, h, Append(v, c(m)), no)
    BY <1>5, <2>1, <2>4, Zenon
  <2>6. CASE ~begun
    <3>1. a = Acc(t, h, v, no)
      <4>1. PartCall(s, b, k, begun) = <<>>
        BY <2>6 DEF PartCall
      <4> QED BY <1>4, <2>1, <2>4, <4>1, Zenon
    <3>2. Take(Acc(t, h, v, no), item) = Acc(t, h, Append(v, ACall(b, name, pieces)), no)
      <4> HIDE DEF t, h
      <4> QED BY <1>3, <2>3, CallBegun
    <3>3. ACall(b, name, pieces) = c(m)
      BY <2>6
    <3> QED BY <1>8, <2>5, <3>1, <3>2, <3>3, Zenon DEF a, DeltaAdds
  <2>7. CASE begun
    <3>1. a = Acc(t, h, Append(v, c(k)), no)
      <4>1. PartCall(s, b, k, begun) = <<c(k)>>
        BY <1>8, <2>7 DEF PartCall
      <4> QED BY <1>4, <2>1, <2>4, <4>1, Zenon
    <3>2. Take(Acc(t, h, Append(v, ACall(b, b, Pieces(b, k))), no), item)
            = Acc(t, h, Append(v, ACall(b, Named(name, b), Pieces(b, k) \o pieces)), no)
      <4> DEFINE r == Pieces(b, k)
      <4>1. ACall(b, b, r) \in CallRecord /\ v \in Seq(CallRecord)
        BY <1>3, <2>2
      <4> HIDE DEF t, h, r
      <4>2. Take(Acc(t, h, Append(v, ACall(b, b, r)), no), Item("ToolCallDelta", b, name, pieces))
              = Acc(t, h, Append(v, ACall(b, Named(name, b), r \o pieces)), no)
        BY <2>3, <4>1, CallGrown
      <4> QED BY <4>2 DEF r
    <3>3. ACall(b, Named(name, b), Pieces(b, k) \o pieces) = c(m)
      BY <2>7 DEF Named
    <3> QED BY <1>8, <2>5, <3>1, <3>2, <3>3, Zenon DEF a, DeltaAdds
  <2> QED BY <2>6, <2>7
<1>9. b \in DOMAIN s.answer
  BY <1>1, LenProperties DEF ScriptOK
<1>10. s.answer[b].kind \in Kinds
  BY <1>9, BlockKnown
<1> QED BY <1>6, <1>7, <1>8, <1>10 DEF Kinds, DeltaAdds

(* ---------------------------- the translators --------------------------- *)

Translator == [calls : SUBSET Nat, callId : Nat, toolName : Nat, started : BOOLEAN]
ItemType ==
  {"Start", "ContentDelta", "ThinkingDelta", "ToolCallDelta", "UsageDelta", "End", "Error", "Err"}

StreamItem == [type : ItemType, id : Nat, name : Nat, pieces : Seq(Piece)]

\* No block is open.
Between(t) == t.calls = {} /\ t.callId = 0 /\ t.toolName = 0

\* Of block b, o events and k pieces have been read, and its call, if it is one, is begun.
InBlock(s, b, o, k, begun, t) ==
  \/ o = 0 /\ k = 0 /\ ~begun /\ Between(t)
  \/ /\ s.provider = "anthropic" /\ o = k + 1 /\ begun
     /\ t.calls = (IF s.answer[b].kind = "call" THEN {b} ELSE {})
     /\ t.callId = 0 /\ t.toolName = 0
  \/ /\ s.provider = "openai" /\ o = k + 1 /\ (begun <=> k > 0)
     /\ t.calls = {}
     /\ t.callId = (IF s.answer[b].kind = "call" THEN b ELSE 0)
     /\ t.toolName = (IF s.answer[b].kind = "call" /\ k = 0 THEN b ELSE 0)
  \/ s.provider = "gemini" /\ s.answer[b].kind # "call" /\ o = k /\ k > 0 /\ begun /\ Between(t)

\* After i events of the whole script the accumulator is a and the translator t.
Reached(s, i, a, t) ==
  \/ i = 0 /\ s.provider # "gemini" /\ a = AccDone(s, 0, FALSE) /\ Between(t)
  \/ \E b \in 1 .. Len(s.answer) :
       \E o \in 0 .. Len(BlockEvents(s, b)) - 1, k \in 0 .. s.answer[b].pieces, begun \in BOOLEAN :
         /\ InBlock(s, b, o, k, begun, t)
         /\ i = SentWith(s, b - 1) + o
         /\ a = AccWith(s, b, k, begun)
  \/ \E o \in 0 .. Len(Closing(s)), finish \in BOOLEAN :
       /\ i = SentWith(s, Len(s.answer)) + o
       /\ finish <=> o = Len(Closing(s))
       /\ a = AccDone(s, Len(s.answer), finish)
       /\ Between(t)

\* There is something at the end of every script.
LEMMA ClosingKnown ==
  ASSUME NEW s, ScriptOK(s)
  PROVE  /\ Len(Closing(s)) \in Nat \ {0}
         /\ s.provider = "anthropic" =>
              /\ Len(Closing(s)) = 3
              /\ Closing(s)[1] = Sent("ping", 0, <<>>)
              /\ Closing(s)[2] = Sent("message_delta", 0, <<>>)
              /\ Closing(s)[3] = Sent("message_stop", 0, <<>>)
         /\ s.provider = "openai" =>
              Len(Closing(s)) = 1 /\ Closing(s)[1] = Sent("completed", 0, <<>>)
         /\ s.provider = "gemini" =>
              Len(Closing(s)) = 1 /\ Closing(s)[1] = Sent("last_chunk", 0, <<>>)
<1> DEFINE x == Sent("ping", 0, <<>>)
           y == Sent("message_delta", 0, <<>>)
           z == Sent("message_stop", 0, <<>>)
           c == Sent("completed", 0, <<>>)
           l == Sent("last_chunk", 0, <<>>)
<1>1. CASE s.provider = "anthropic"
  <2>1. Closing(s) = <<x, y, z>>
    BY <1>1 DEF Closing
  <2> HIDE DEF x, y, z
  <2>2. /\ Len(Closing(s)) = 3
        /\ Closing(s)[1] = x /\ Closing(s)[2] = y /\ Closing(s)[3] = z
    BY <2>1
  <2> QED BY <1>1, <2>2 DEF x, y, z
<1>2. CASE s.provider = "openai"
  <2>1. Closing(s) = <<c>>
    BY <1>2 DEF Closing
  <2> HIDE DEF c
  <2>2. Len(Closing(s)) = 1 /\ Closing(s)[1] = c
    BY <2>1
  <2> QED BY <1>2, <2>2 DEF c
<1>3. CASE s.provider = "gemini"
  <2>1. Closing(s) = <<l>>
    BY <1>3 DEF Closing
  <2> HIDE DEF l
  <2>2. Len(Closing(s)) = 1 /\ Closing(s)[1] = l
    BY <2>1
  <2>3. Len(Closing(s)) \in Nat \ {0} /\ s.provider # "anthropic" /\ s.provider # "openai"
    BY <1>3, <2>2
  <2> QED BY <1>3, <2>2, <2>3, Zenon DEF l
<1> QED BY <1>1, <1>2, <1>3 DEF ScriptOK

\* Between two blocks.
LEMMA Arrive ==
  ASSUME NEW s, ScriptOK(s), NEW b \in 0 .. Len(s.answer), NEW t, Between(t)
  PROVE  Reached(s, SentWith(s, b), AccDone(s, b, FALSE), t)
<1>1. Len(s.answer) \in Nat /\ DOMAIN s.answer = 1 .. Len(s.answer)
  BY LenProperties DEF ScriptOK
<1>2. CASE b = Len(s.answer)
  <2>1. Len(Closing(s)) \in Nat \ {0} /\ SentWith(s, b) \in Nat
    BY ClosingKnown, WholeAt
  <2> DEFINE no == FALSE
  <2>2. no \in BOOLEAN /\ (no <=> 0 = Len(Closing(s)))
    BY <2>1
  <2>3. 0 \in 0 .. Len(Closing(s)) /\ SentWith(s, b) = SentWith(s, Len(s.answer)) + 0
    BY <1>2, <2>1
  <2> HIDE DEF no
  <2>4. Reached(s, SentWith(s, b), AccDone(s, b, no), t)
    BY <1>2, <2>2, <2>3 DEF Reached
  <2> QED BY <2>4 DEF no
<1>3. CASE b # Len(s.answer)
  <2>1. b + 1 \in 1 .. Len(s.answer) /\ (b + 1) - 1 = b
    BY <1>1, <1>3
  <2> DEFINE no == FALSE
  <2>2. no \in BOOLEAN /\ ~no
    OBVIOUS
  <2>3. AccWith(s, b + 1, 0, no) = AccDone(s, b, no)
    BY <2>1, AccTurns, Zenon
  <2>4. /\ 0 \in 0 .. Len(BlockEvents(s, b + 1)) - 1
        /\ 0 \in 0 .. s.answer[b + 1].pieces
        /\ SentWith(s, b) = SentWith(s, (b + 1) - 1) + 0
    <3>1. b + 1 \in DOMAIN s.answer
      BY <1>1, <2>1
    <3>2. Len(BlockEvents(s, b + 1)) >= 1 /\ BlockEvents(s, b + 1) \in Seq(SseEvent)
      BY <3>1, BlockShape
    <3>3. s.answer[b + 1].pieces \in Nat
      BY <3>1, BlockKnown
    <3>4. SentWith(s, b) \in Nat
      BY WholeAt
    <3> QED BY <2>1, <3>2, <3>3, <3>4, LenProperties
  <2> HIDE DEF no
  <2>5. InBlock(s, b + 1, 0, 0, no, t)
    BY <2>2 DEF InBlock
  <2>6. Reached(s, SentWith(s, b), AccWith(s, b + 1, 0, no), t)
    BY <2>1, <2>2, <2>4, <2>5 DEF Reached
  <2> QED BY <2>3, <2>6 DEF no
<1> QED BY <1>2, <1>3

\* One event further in a block, or past its end.
LEMMA Advance ==
  ASSUME NEW s, ScriptOK(s), NEW b \in 1 .. Len(s.answer),
         NEW o \in 0 .. Len(BlockEvents(s, b)) - 1,
         NEW k \in 0 .. s.answer[b].pieces, NEW begun \in BOOLEAN, NEW t,
         \/ o + 1 < Len(BlockEvents(s, b)) /\ InBlock(s, b, o + 1, k, begun, t)
         \/ o + 1 = Len(BlockEvents(s, b)) /\ k = s.answer[b].pieces /\ begun /\ Between(t)
  PROVE  Reached(s, SentWith(s, b - 1) + o + 1, AccWith(s, b, k, begun), t)
<1>1. /\ Len(s.answer) \in Nat /\ b \in 0 .. Len(s.answer) /\ b - 1 \in 0 .. Len(s.answer)
      /\ b \in DOMAIN s.answer
  BY LenProperties DEF ScriptOK
<1>2. Len(BlockEvents(s, b)) \in Nat
  BY <1>1, BlockShape, LenProperties
<1>3. SentWith(s, b - 1) \in Nat /\ SentWith(s, b) = SentWith(s, b - 1) + Len(BlockEvents(s, b))
  BY <1>1, WholeAt
<1>4. CASE o + 1 < Len(BlockEvents(s, b)) /\ InBlock(s, b, o + 1, k, begun, t)
  <2>1. /\ o + 1 \in 0 .. Len(BlockEvents(s, b)) - 1
        /\ SentWith(s, b - 1) + o + 1 = SentWith(s, b - 1) + (o + 1)
    BY <1>2, <1>3, <1>4, SMTT(30)
  <2> QED BY <1>4, <2>1 DEF Reached
<1>5. CASE o + 1 = Len(BlockEvents(s, b)) /\ k = s.answer[b].pieces /\ begun /\ Between(t)
  <2>1. SentWith(s, b - 1) + o + 1 = SentWith(s, b)
    BY <1>2, <1>3, <1>5
  <2>2. AccWith(s, b, k, begun) = AccDone(s, b, FALSE)
    <3>1. begun = TRUE
      BY <1>5
    <3> QED BY <1>5, <3>1, AccTurns, Zenon
  <2>3. Reached(s, SentWith(s, b), AccDone(s, b, FALSE), t)
    BY <1>1, <1>5, Arrive, Zenon
  <2> QED BY <2>1, <2>2, <2>3, Zenon
<1> QED BY <1>4, <1>5

\* A stream event that adds nothing to the accumulator.
Idle(item) == item.type \notin {"ContentDelta", "ThinkingDelta", "ToolCallDelta", "End"}

\* Stream events that turn the accumulator a into b: one of them does, if they differ.
Owes(items, a, b) ==
  \/ b = a /\ \A j \in DOMAIN items : Idle(items[j])
  \/ \E j \in DOMAIN items :
       b = Take(a, items[j]) /\ \A k \in DOMAIN items \ {j} : Idle(items[k])

\* Such an event leaves the accumulator as it is.
LEMMA IdleTaken ==
  ASSUME NEW a, NEW item, Idle(item)
  PROVE  Take(a, item) = a
<1>1. /\ item.type # "ContentDelta" /\ item.type # "ThinkingDelta"
      /\ item.type # "ToolCallDelta" /\ item.type # "End"
  BY Zenon DEF Idle
<1> QED BY <1>1, Zenon DEF Take

\* Of short sequences of stream events, what they come to.
LEMMA FewOwed ==
  ASSUME NEW a, NEW u, NEW v, NEW x, Idle(u), Idle(v)
  PROVE  /\ Owes(<<>>, a, a)
         /\ Owes(<<u>>, a, a)
         /\ Owes(<<u, v>>, a, a)
         /\ Owes(<<x>>, a, Take(a, x))
         /\ Owes(<<u, x>>, a, Take(a, x))
         /\ Owes(<<x, u>>, a, Take(a, x))
         /\ Owes(<<u, x, v>>, a, Take(a, x))
         /\ Owes(<<u, v, x>>, a, Take(a, x))
<1>1. Owes(<<>>, a, a) /\ Owes(<<u>>, a, a) /\ Owes(<<u, v>>, a, a)
  BY DEF Owes
<1>2. Owes(<<x>>, a, Take(a, x)) /\ Owes(<<u, x>>, a, Take(a, x)) /\ Owes(<<x, u>>, a, Take(a, x))
  BY DEF Owes
<1>3. Owes(<<u, x, v>>, a, Take(a, x)) /\ Owes(<<u, v, x>>, a, Take(a, x))
  BY DEF Owes
<1> QED BY <1>1, <1>2, <1>3

\* The stream events without pieces.
LEMMA PlainKnown ==
  /\ \A type \in ItemType : Plain(type) \in StreamItem /\ Plain(type).type = type
  /\ \A type \in {"Start", "UsageDelta", "Error", "Err"} : Idle(Plain(type))
BY EmptySeq DEF Plain, Item, StreamItem, Idle

\* A stream event that turns the first k pieces of block b into its first m.
Delivers(s, b, k, m, begun, item) ==
  /\ item \in StreamItem
  /\ Take(AccWith(s, b, k, begun), item) = AccWith(s, b, m, TRUE)

\* The delta an adapter makes of an event with pieces of block b.
LEMMA DeltaItem ==
  ASSUME ScriptOK(script), NEW b \in 1 .. Len(script.answer), NEW k \in Nat, NEW m \in Nat,
         NEW begun \in BOOLEAN, NEW pieces \in Seq(Piece), NEW type, NEW id, NEW name,
         Pieces(b, k) \o pieces = Pieces(b, m),
         ~begun => pieces = Pieces(b, m),
         script.answer[b].kind = "call" => id = b /\ name = IF begun THEN 0 ELSE b
  PROVE  Delivers(script, b, k, m, begun, Delta(Sent(type, b, pieces), id, name))
<1> DEFINE e == Sent(type, b, pieces)
           x == Delta(e, id, name)
           n == IF begun THEN 0 ELSE b
<1>1. e.pieces = pieces /\ e.block = b
  BY DEF Sent
<1>2. b \in Nat /\ b \in DOMAIN script.answer /\ n \in Nat
  BY LenProperties DEF ScriptOK
<1>3. script.answer[b].kind \in Kinds
  BY <1>2, BlockKnown
<1>4. x = CASE script.answer[b].kind = "text"     -> Item("ContentDelta", 0, 0, pieces)
            [] script.answer[b].kind = "thinking" -> Item("ThinkingDelta", 0, 0, pieces)
            [] script.answer[b].kind = "call"     -> Item("ToolCallDelta", b, n, pieces)
  BY <1>1, <1>3 DEF Delta, KindOf, Kinds
<1>5. /\ begun => n = 0
      /\ ~begun => n = b /\ pieces = Pieces(b, m)
  OBVIOUS
<1> HIDE DEF n, x
<1>6. DeltaAdds(script, b, k, m, begun, pieces, n)
  BY <1>5, DeltaTaken
<1>7. x \in StreamItem
  <2>0. \A y \in ItemType, i \in Nat, j \in Nat, p \in Seq(Piece) : Item(y, i, j, p) \in StreamItem
    BY DEF StreamItem, Item
  <2>1. /\ Item("ContentDelta", 0, 0, pieces) \in StreamItem
        /\ Item("ThinkingDelta", 0, 0, pieces) \in StreamItem
        /\ Item("ToolCallDelta", b, n, pieces) \in StreamItem
    <3>1. /\ 0 \in Nat /\ "ContentDelta" \in ItemType /\ "ThinkingDelta" \in ItemType
          /\ "ToolCallDelta" \in ItemType
      BY DEF ItemType
    <3> QED BY <1>2, <2>0, <3>1, Zenon
  <2> QED BY <1>3, <1>4, <2>1 DEF Kinds
<1>8. Take(AccWith(script, b, k, begun), x) = AccWith(script, b, m, TRUE)
  <2>1. CASE script.answer[b].kind = "text"
    <3>1. x = Item("ContentDelta", 0, 0, pieces)
      BY <1>4, <2>1
    <3> QED BY <1>6, <2>1, <3>1, Zenon DEF DeltaAdds
  <2>2. CASE script.answer[b].kind = "thinking"
    <3>1. x = Item("ThinkingDelta", 0, 0, pieces)
      BY <1>4, <2>2
    <3> QED BY <1>6, <2>2, <3>1, Zenon DEF DeltaAdds
  <2>3. CASE script.answer[b].kind = "call"
    <3>1. x = Item("ToolCallDelta", b, n, pieces)
      BY <1>4, <2>3
    <3> QED BY <1>6, <2>3, <3>1, Zenon DEF DeltaAdds
  <2> QED BY <1>3, <2>1, <2>2, <2>3 DEF Kinds
<1> QED BY <1>7, <1>8 DEF x, Delivers

\* The adapter's turn with event i + 1: its stream events, and how it is left.
TurnTaken(s, i, items, a, t) ==
  /\ items \in Seq(StreamItem)
  /\ t \in Translator
  /\ \E b : Owes(items, a, b) /\ Reached(s, i + 1, b, t)

\* A translator with other calls.
LEMMA OtherCalls ==
  ASSUME NEW t \in Translator, NEW x \in SUBSET Nat
  PROVE  /\ [t EXCEPT !.calls = x] \in Translator
         /\ [t EXCEPT !.calls = x].calls = x
         /\ [t EXCEPT !.calls = x].callId = t.callId
         /\ [t EXCEPT !.calls = x].toolName = t.toolName
BY DEF Translator

\* A translator with another call, or started.
LEMMA TranslatorUpdated ==
  ASSUME NEW t \in Translator
  PROVE  /\ \A x, y \in Nat :
              /\ [t EXCEPT !.callId = x, !.toolName = y] \in Translator
              /\ [t EXCEPT !.callId = x, !.toolName = y].calls = t.calls
              /\ [t EXCEPT !.callId = x, !.toolName = y].callId = x
              /\ [t EXCEPT !.callId = x, !.toolName = y].toolName = y
         /\ \A y \in Nat :
              /\ [t EXCEPT !.toolName = y] \in Translator
              /\ [t EXCEPT !.toolName = y].calls = t.calls
              /\ [t EXCEPT !.toolName = y].callId = t.callId
              /\ [t EXCEPT !.toolName = y].toolName = y
         /\ \A x \in BOOLEAN :
              /\ [t EXCEPT !.started = x] \in Translator
              /\ [t EXCEPT !.started = x].calls = t.calls
              /\ [t EXCEPT !.started = x].callId = t.callId
              /\ [t EXCEPT !.started = x].toolName = t.toolName
BY DEF Translator

\* A turn in the middle of a block, from k to m of its pieces, or the last one of it.
LEMMA BlockTurn ==
  ASSUME NEW s, ScriptOK(s), NEW b \in 1 .. Len(s.answer),
         NEW o \in 0 .. Len(BlockEvents(s, b)) - 1,
         NEW k, NEW m \in 0 .. s.answer[b].pieces, NEW begun, NEW goes \in BOOLEAN,
         NEW items \in Seq(StreamItem), NEW t \in Translator,
         Owes(items, AccWith(s, b, k, begun), AccWith(s, b, m, goes)),
         \/ o + 1 < Len(BlockEvents(s, b)) /\ InBlock(s, b, o + 1, m, goes, t)
         \/ o + 1 = Len(BlockEvents(s, b)) /\ m = s.answer[b].pieces /\ goes /\ Between(t)
  PROVE  TurnTaken(s, SentWith(s, b - 1) + o, items, AccWith(s, b, k, begun), t)
<1>1. Reached(s, SentWith(s, b - 1) + o + 1, AccWith(s, b, m, goes), t)
  BY Advance
<1> QED BY <1>1 DEF TurnTaken

\* Of a block with n pieces, the next piece after the first k.
LEMMA NextPiece ==
  ASSUME NEW b \in Nat, NEW k \in Nat
  PROVE  /\ <<<<b, k + 1>>>> \in Seq(Piece)
         /\ Pieces(b, k) \o <<<<b, k + 1>>>> = Pieces(b, k + 1)
         /\ k = 0 => <<<<b, k + 1>>>> = Pieces(b, k + 1)
<1>1. <<<<b, k + 1>>>> \in Seq(Piece)
  BY OnePiece
<1>2. Pieces(b, k) \o <<<<b, k + 1>>>> = Pieces(b, k + 1)
  BY PiecesGrow
<1>3. k = 0 => <<<<b, k + 1>>>> = Pieces(b, k + 1)
  <2> SUFFICES ASSUME k = 0 PROVE <<<<b, k + 1>>>> = Pieces(b, k + 1)
    OBVIOUS
  <2> DEFINE x == <<<<b, k + 1>>>>
  <2>1. Pieces(b, k) = <<>>
    BY PiecesGrow
  <2> HIDE DEF x
  <2>2. <<>> \o x = x
    BY <1>1, ConcatEmptySeq DEF x
  <2> QED BY <1>2, <2>1, <2>2 DEF x
<1> QED BY <1>1, <1>2, <1>3

\* The adapter of Anthropic, within a block.
LEMMA AnthropicTurn ==
  ASSUME ScriptOK(script), script.provider = "anthropic", tr \in Translator,
         NEW b \in 1 .. Len(script.answer),
         NEW o \in 0 .. Len(BlockEvents(script, b)) - 1,
         NEW k \in 0 .. script.answer[b].pieces, NEW begun \in BOOLEAN,
         InBlock(script, b, o, k, begun, tr)
  PROVE  LET e == BlockEvents(script, b)[o + 1]
         IN  TurnTaken(script, SentWith(script, b - 1) + o, AnthropicItems(e),
                       AccWith(script, b, k, begun), AnthropicState(e))
<1> DEFINE e == BlockEvents(script, b)[o + 1]
           n == script.answer[b].pieces
           a == AccWith(script, b, k, begun)
           call == script.answer[b].kind = "call"
           yes == TRUE
           no == FALSE
<1>1. b \in Nat /\ b \in DOMAIN script.answer /\ n \in Nat \ {0}
  BY BlockKnown, LenProperties DEF ScriptOK
<1>2. /\ BlockEvents(script, b) \in Seq(SseEvent)
      /\ Framed(BlockEvents(script, b), b, n,
                "content_block_start", "content_block_delta", "content_block_stop")
  BY <1>1, BlockShape
<1>3. Len(BlockEvents(script, b)) = n + 2
  BY <1>2 DEF Framed
<1>b. yes \in BOOLEAN /\ no \in BOOLEAN /\ yes /\ ~no
  OBVIOUS
<1>4. CASE o = 0 /\ k = 0 /\ ~begun /\ Between(tr)
  <2>1. e = Sent("content_block_start", b, <<>>)
    BY <1>2, <1>4 DEF Framed
  <2>2. e.type = "content_block_start" /\ e.block = b /\ KindOf(e) = script.answer[b].kind
    BY <2>1 DEF Sent, KindOf
  <2>3. o + 1 < Len(BlockEvents(script, b)) /\ k \in 0 .. n
    BY <1>1, <1>3, <1>4
  <2> HIDE DEF e
  <2>4. CASE call
    <3> DEFINE x == Item("ToolCallDelta", b, b, <<>>)
               more == tr.calls \cup {b}
               t == [tr EXCEPT !.calls = more]
    <3>1. AnthropicItems(e) = <<x>> /\ AnthropicState(e) = t
      BY <2>2, <2>4 DEF AnthropicItems, AnthropicState
    <3>2. t \in Translator /\ t.calls = {b} /\ t.callId = 0 /\ t.toolName = 0
      <4>1. tr.calls \cup {b} \in SUBSET Nat /\ tr.calls \cup {b} = {b}
        BY <1>1, <1>4 DEF Between
      <4>2. tr.callId = 0 /\ tr.toolName = 0
        BY <1>4 DEF Between
      <4>0. more \in SUBSET Nat
        BY <4>1
      <4> HIDE DEF more
      <4>3. t \in Translator /\ t.calls = more /\ t.callId = tr.callId /\ t.toolName = tr.toolName
        BY <4>0, OtherCalls
      <4> QED BY <4>1, <4>2, <4>3 DEF more
    <3>3. Take(AccWith(script, b, 0, no), x) = AccWith(script, b, 0, yes)
      <4>1. <<>> \in Seq(Piece) /\ Pieces(b, 0) \o <<>> = Pieces(b, 0) /\ <<>> = Pieces(b, 0)
        BY <1>1, PiecesGrow, EmptySeq
      <4> HIDE DEF no, call
      <4>2. DeltaAdds(script, b, 0, 0, no, <<>>, b)
        BY <1>b, <4>1, DeltaTaken
      <4> QED BY <2>4, <4>2 DEF DeltaAdds, call, yes
    <3>4. x \in StreamItem
      BY <1>1, EmptySeq DEF StreamItem, ItemType, Item
    <3> HIDE DEF x, t
    <3>5. <<x>> \in Seq(StreamItem)
      BY <3>4
    <3>6. a = AccWith(script, b, 0, no)
      BY <1>4
    <3>7. Owes(<<x>>, a, AccWith(script, b, 0, yes))
      <4>1. Owes(<<x>>, a, Take(a, x))
        BY DEF Owes
      <4> HIDE DEF a, yes, no
      <4> QED BY <3>3, <3>6, <4>1
    <3>8. InBlock(script, b, o + 1, 0, yes, t)
      <4>1. o + 1 = 0 + 1
        BY <1>4
      <4> QED BY <1>b, <2>4, <3>2, <4>1 DEF InBlock
    <3>9. TurnTaken(script, SentWith(script, b - 1) + o, <<x>>, a, t)
      <4>1. 0 \in 0 .. n
        BY <1>1
      <4> HIDE DEF yes, no
      <4> QED BY <1>b, <2>3, <3>2, <3>5, <3>7, <3>8, <4>1, BlockTurn
    <3> QED BY <3>1, <3>9 DEF e
  <2>5. CASE ~call
    <3>1. AnthropicItems(e) = <<>> /\ AnthropicState(e) = tr
      BY <2>2, <2>5 DEF AnthropicItems, AnthropicState
    <3>2. a = AccWith(script, b, 0, yes)
      <4>1. AccWith(script, b, 0, TRUE) = AccWith(script, b, 0, FALSE)
        BY <2>5, AccTurns, Zenon
      <4> QED BY <1>4, <4>1
    <3>3. Owes(<<>>, a, AccWith(script, b, 0, yes))
      <4> HIDE DEF a, yes
      <4> QED BY <3>2 DEF Owes
    <3>4. InBlock(script, b, o + 1, 0, yes, tr)
      <4>1. o + 1 = 0 + 1
        BY <1>4
      <4> QED BY <1>4, <1>b, <2>5, <4>1 DEF InBlock, Between
    <3>5. TurnTaken(script, SentWith(script, b - 1) + o, <<>>, a, tr)
      <4>1. 0 \in 0 .. n /\ <<>> \in Seq(StreamItem)
        BY <1>1, EmptySeq
      <4> HIDE DEF yes, no
      <4> QED BY <1>b, <2>3, <3>3, <3>4, <4>1, BlockTurn
    <3> QED BY <3>1, <3>5 DEF e
  <2> QED BY <2>4, <2>5
<1>5. CASE /\ o = k + 1 /\ begun
           /\ tr.calls = (IF script.answer[b].kind = "call" THEN {b} ELSE {})
           /\ tr.callId = 0 /\ tr.toolName = 0
  <2>1. k \in Nat /\ k <= n
    BY <1>1
  <2>2. CASE k < n
    <3> DEFINE x == Delta(e, IF e.block \in tr.calls THEN e.block ELSE 0, 0)
    <3>1. e = Sent("content_block_delta", b, <<<<b, k + 1>>>>)
      <4>1. k + 1 \in 1 .. n
        BY <1>1, <2>1, <2>2
      <4>2. BlockEvents(script, b)[(k + 1) + 1] = Sent("content_block_delta", b, <<<<b, k + 1>>>>)
        BY <1>2, <4>1 DEF Framed
      <4> QED BY <1>5, <4>2
    <3>2. e.type = "content_block_delta" /\ e.block = b
      BY <3>1 DEF Sent
    <3>3. x \in StreamItem /\ Take(AccWith(script, b, k, yes), x) = AccWith(script, b, k + 1, yes)
      <4>1. /\ <<<<b, k + 1>>>> \in Seq(Piece)
            /\ Pieces(b, k) \o <<<<b, k + 1>>>> = Pieces(b, k + 1)
        BY <1>1, <2>1, NextPiece
      <4>2. /\ k + 1 \in Nat
            /\ call => (IF e.block \in tr.calls THEN e.block ELSE 0) = b
        BY <1>5, <2>1, <3>2
      <4> DEFINE p == <<<<b, k + 1>>>>
                 id == IF e.block \in tr.calls THEN e.block ELSE 0
      <4>3. call => id = b /\ 0 = IF yes THEN 0 ELSE b
        BY <4>2
      <4>4. p \in Seq(Piece) /\ Pieces(b, k) \o p = Pieces(b, k + 1)
        BY <4>1
      <4>5. x = Delta(Sent("content_block_delta", b, p), id, 0)
        BY <3>1
      <4> HIDE DEF p, id, x, yes, no
      <4>6. Delivers(script, b, k, k + 1, yes, Delta(Sent("content_block_delta", b, p), id, 0))
        BY <1>b, <2>1, <4>2, <4>3, <4>4, DeltaItem
      <4> QED BY <4>5, <4>6 DEF yes, Delivers
    <3>4. AnthropicItems(e) = <<x>> /\ AnthropicState(e) = tr
      BY <3>2 DEF AnthropicItems, AnthropicState
    <3> HIDE DEF x, e
    <3>5. <<x>> \in Seq(StreamItem) /\ a = AccWith(script, b, k, yes)
      BY <1>5, <3>3
    <3>6. Owes(<<x>>, a, AccWith(script, b, k + 1, yes))
      <4>1. Owes(<<x>>, a, Take(a, x))
        BY DEF Owes
      <4> HIDE DEF a, yes
      <4> QED BY <3>3, <3>5, <4>1
    <3>7. InBlock(script, b, o + 1, k + 1, yes, tr)
      <4>1. o + 1 = (k + 1) + 1
        BY <1>5
      <4> QED BY <1>5, <1>b, <4>1 DEF InBlock
    <3>8. k + 1 \in 0 .. n /\ o + 1 < Len(BlockEvents(script, b))
      BY <1>1, <1>3, <1>5, <2>1, <2>2
    <3>9. TurnTaken(script, SentWith(script, b - 1) + o, <<x>>, a, tr)
      <4> HIDE DEF yes, no
      <4> QED BY <1>b, <3>5, <3>6, <3>7, <3>8, BlockTurn
    <3> QED BY <3>4, <3>9 DEF e
  <2>3. CASE k = n
    <3> DEFINE less == tr.calls \ {b}
               t == [tr EXCEPT !.calls = less]
    <3>1. e = Sent("content_block_stop", b, <<>>)
      <4>1. o + 1 = n + 2
        BY <1>1, <1>5, <2>3
      <4>2. BlockEvents(script, b)[n + 2] = Sent("content_block_stop", b, <<>>)
        BY <1>2, Zenon DEF Framed
      <4> QED BY <4>1, <4>2, Zenon
    <3>2. e.type = "content_block_stop" /\ e.block = b
      BY <3>1 DEF Sent
    <3>3. AnthropicItems(e) = <<>> /\ AnthropicState(e) = t
      BY <3>2 DEF AnthropicItems, AnthropicState
    <3>4. t \in Translator /\ Between(t)
      <4>1. tr.calls \ {b} \in SUBSET Nat /\ tr.calls \ {b} = {}
        BY <1>1, <1>5
      <4>0. less \in SUBSET Nat
        BY <4>1
      <4> HIDE DEF less
      <4>2. t \in Translator /\ t.calls = less /\ t.callId = tr.callId /\ t.toolName = tr.toolName
        BY <4>0, OtherCalls
      <4> QED BY <1>5, <4>1, <4>2 DEF less, Between
    <3>5. Owes(<<>>, a, AccWith(script, b, n, begun))
      BY <2>3 DEF Owes
    <3>6. o + 1 = Len(BlockEvents(script, b)) /\ n \in 0 .. n /\ <<>> \in Seq(StreamItem)
      BY <1>1, <1>3, <1>5, <2>3, EmptySeq
    <3> HIDE DEF e, t, n
    <3>7. TurnTaken(script, SentWith(script, b - 1) + o, <<>>, a, t)
      BY <1>5, <3>4, <3>5, <3>6, BlockTurn DEF n
    <3> QED BY <3>3, <3>7 DEF e
  <2> QED BY <1>1, <2>1, <2>2, <2>3
<1>6. script.provider # "openai" /\ script.provider # "gemini"
  OBVIOUS
<1> QED BY <1>4, <1>5, <1>6, Zenon DEF InBlock

\* An event of a provider is not the payload that cannot be read.
LEMMA NotGarbled == \A e \in SseEvent : e # Garbled /\ e.type # "garbled"
<1> TAKE e \in SseEvent
<1>1. e.type \in EventType
  BY DEF SseEvent
<1>2. Garbled.type = "garbled"
  BY DEF Garbled, Sent
<1> QED BY <1>1, <1>2 DEF EventType

\* The adapter of OpenAI, within a block.
LEMMA OpenAiTurn ==
  ASSUME ScriptOK(script), script.provider = "openai", tr \in Translator,
         NEW b \in 1 .. Len(script.answer),
         NEW o \in 0 .. Len(BlockEvents(script, b)) - 1,
         NEW k \in 0 .. script.answer[b].pieces, NEW begun \in BOOLEAN,
         InBlock(script, b, o, k, begun, tr)
  PROVE  LET e == BlockEvents(script, b)[o + 1]
         IN  TurnTaken(script, SentWith(script, b - 1) + o, OpenAiItems(e.type, e),
                       AccWith(script, b, k, begun), OpenAiState(e.type, e))
<1> DEFINE e == BlockEvents(script, b)[o + 1]
           n == script.answer[b].pieces
           a == AccWith(script, b, k, begun)
           call == script.answer[b].kind = "call"
           yes == TRUE
           no == FALSE
<1>1. b \in Nat /\ b \in DOMAIN script.answer /\ n \in Nat \ {0}
  BY BlockKnown, LenProperties DEF ScriptOK
<1>2. /\ BlockEvents(script, b) \in Seq(SseEvent)
      /\ Framed(BlockEvents(script, b), b, n, "output_item.added", "delta", "output_item.done")
  BY <1>1, BlockShape
<1>3. Len(BlockEvents(script, b)) = n + 2
  BY <1>2 DEF Framed
<1>b. yes \in BOOLEAN /\ no \in BOOLEAN /\ yes /\ ~no
  OBVIOUS
<1>e. e # Garbled
  <2>1. o + 1 \in 1 .. Len(BlockEvents(script, b))
    BY <1>1, <1>3
  <2>2. e \in SseEvent
    BY <1>2, <2>1, ElementOfSeq
  <2> QED BY <2>2, NotGarbled
<1>4. CASE o = 0 /\ k = 0 /\ ~begun /\ Between(tr)
  <2>1. e = Sent("output_item.added", b, <<>>)
    BY <1>2, <1>4 DEF Framed
  <2>2. e.type = "output_item.added" /\ e.block = b /\ KindOf(e) = script.answer[b].kind
    BY <2>1 DEF Sent, KindOf
  <2>3. o + 1 < Len(BlockEvents(script, b)) /\ 0 \in 0 .. n /\ <<>> \in Seq(StreamItem)
    BY <1>1, <1>3, <1>4, EmptySeq
  <2> DEFINE t == OpenAiState(e.type, e)
  <2>4. OpenAiItems(e.type, e) = <<>>
    BY <2>2 DEF OpenAiItems
  <2>5. /\ t \in Translator /\ t.calls = {}
        /\ t.callId = (IF call THEN b ELSE 0) /\ t.toolName = (IF call THEN b ELSE 0)
    <3>1. CASE call
      <4>1. t = [tr EXCEPT !.callId = b, !.toolName = b]
        BY <1>e, <2>2, <3>1 DEF OpenAiState
      <4>2. tr.calls = {}
        BY <1>4 DEF Between
      <4> HIDE DEF e, t
      <4> QED BY <1>1, <3>1, <4>1, <4>2 DEF Translator
    <3>2. CASE ~call
      <4>1. t = tr
        BY <2>2, <3>2 DEF OpenAiState
      <4> QED BY <1>4, <3>2, <4>1 DEF Between
    <3> QED BY <3>1, <3>2
  <2> HIDE DEF t
  <2>6. InBlock(script, b, o + 1, 0, no, t)
    <3>1. o + 1 = 0 + 1
      BY <1>4
    <3> QED BY <1>b, <2>5, <3>1 DEF InBlock
  <2>7. Owes(<<>>, a, AccWith(script, b, 0, no))
    <3>1. a = AccWith(script, b, 0, no)
      BY <1>4
    <3> QED BY <3>1 DEF Owes
  <2>8. TurnTaken(script, SentWith(script, b - 1) + o, <<>>, a, t)
    <3> HIDE DEF yes, no, n, e
    <3> QED BY <1>b, <2>3, <2>5, <2>6, <2>7, BlockTurn DEF n
  <2> QED BY <2>4, <2>8 DEF t
<1>5. CASE /\ o = k + 1 /\ (begun <=> k > 0)
           /\ tr.calls = {}
           /\ tr.callId = (IF script.answer[b].kind = "call" THEN b ELSE 0)
           /\ tr.toolName = (IF script.answer[b].kind = "call" /\ k = 0 THEN b ELSE 0)
  <2>1. k \in Nat /\ k <= n
    BY <1>1
  <2>2. CASE k < n
    <3> DEFINE x == Delta(e, tr.callId, tr.toolName)
               t == OpenAiState(e.type, e)
               p == <<<<b, k + 1>>>>
    <3>1. e = Sent("delta", b, p)
      <4>1. k + 1 \in 1 .. n
        BY <1>1, <2>1, <2>2
      <4>2. BlockEvents(script, b)[(k + 1) + 1] = Sent("delta", b, <<<<b, k + 1>>>>)
        BY <1>2, <4>1 DEF Framed
      <4> QED BY <1>5, <4>2
    <3>2. e.type = "delta" /\ e.block = b /\ KindOf(e) = script.answer[b].kind
      BY <3>1 DEF Sent, KindOf
    <3>3. x \in StreamItem /\ Take(a, x) = AccWith(script, b, k + 1, yes)
      <4>1. /\ p \in Seq(Piece) /\ Pieces(b, k) \o p = Pieces(b, k + 1)
            /\ k = 0 => p = Pieces(b, k + 1)
        BY <1>1, <2>1, NextPiece
      <4>2. k + 1 \in Nat /\ (~begun => p = Pieces(b, k + 1))
        BY <1>5, <2>1, <4>1
      <4>3. call => tr.callId = b /\ tr.toolName = IF begun THEN 0 ELSE b
        BY <1>5, <2>1
      <4> HIDE DEF p, yes, no, e
      <4>6. Delivers(script, b, k, k + 1, begun, Delta(Sent("delta", b, p), tr.callId, tr.toolName))
        BY <2>1, <4>1, <4>2, <4>3, DeltaItem
      <4> QED BY <3>1, <4>6 DEF yes, Delivers
    <3>4. OpenAiItems(e.type, e) = <<x>>
      BY <1>e, <3>2 DEF OpenAiItems
    <3>5. /\ t \in Translator /\ t.calls = {}
          /\ t.callId = (IF call THEN b ELSE 0) /\ t.toolName = 0
      <4>1. CASE call
        <5>1. t = [tr EXCEPT !.toolName = 0]
          BY <1>e, <3>2, <4>1 DEF OpenAiState
        <5> HIDE DEF e, t
        <5> QED BY <1>5, <4>1, <5>1 DEF Translator
      <4>2. CASE ~call
        <5>1. t = tr
          BY <3>2, <4>2 DEF OpenAiState
        <5> QED BY <1>5, <4>2, <5>1
      <4> QED BY <4>1, <4>2
    <3> HIDE DEF x, e, t
    <3>6. <<x>> \in Seq(StreamItem)
      BY <3>3
    <3>7. Owes(<<x>>, a, AccWith(script, b, k + 1, yes))
      <4>1. Owes(<<x>>, a, Take(a, x))
        BY DEF Owes
      <4> HIDE DEF a, yes
      <4> QED BY <3>3, <4>1
    <3>8. InBlock(script, b, o + 1, k + 1, yes, t)
      <4>1. o + 1 = (k + 1) + 1 /\ k + 1 > 0 /\ k + 1 # 0
        BY <1>5, <2>1
      <4> QED BY <1>b, <3>5, <4>1 DEF InBlock
    <3>9. k + 1 \in 0 .. n /\ o + 1 < Len(BlockEvents(script, b))
      BY <1>1, <1>3, <1>5, <2>1, <2>2
    <3>10. TurnTaken(script, SentWith(script, b - 1) + o, <<x>>, a, t)
      <4> HIDE DEF yes, no
      <4> QED BY <1>b, <3>5, <3>6, <3>7, <3>8, <3>9, BlockTurn
    <3> QED BY <3>4, <3>10 DEF e, t
  <2>3. CASE k = n
    <3> DEFINE t == OpenAiState(e.type, e)
    <3>1. e = Sent("output_item.done", b, <<>>)
      <4>1. o + 1 = n + 2
        BY <1>1, <1>5, <2>3
      <4>2. BlockEvents(script, b)[n + 2] = Sent("output_item.done", b, <<>>)
        BY <1>2, Zenon DEF Framed
      <4> QED BY <4>1, <4>2, Zenon
    <3>2. e.type = "output_item.done"
      BY <3>1 DEF Sent
    <3>3. OpenAiItems(e.type, e) = <<>> /\ t = [tr EXCEPT !.callId = 0, !.toolName = 0]
      BY <3>2 DEF OpenAiItems, OpenAiState
    <3> HIDE DEF e, t
    <3>4. t \in Translator /\ Between(t)
      BY <1>5, <3>3 DEF Translator, Between
    <3>5. Owes(<<>>, a, AccWith(script, b, n, begun))
      BY <2>3 DEF Owes
    <3>6. o + 1 = Len(BlockEvents(script, b)) /\ n \in 0 .. n /\ <<>> \in Seq(StreamItem)
      BY <1>1, <1>3, <1>5, <2>3, EmptySeq
    <3>7. begun
      BY <1>1, <1>5, <2>3
    <3> HIDE DEF n
    <3>8. TurnTaken(script, SentWith(script, b - 1) + o, <<>>, a, t)
      BY <3>4, <3>5, <3>6, <3>7, BlockTurn DEF n
    <3> QED BY <3>3, <3>8 DEF e, t
  <2> QED BY <1>1, <2>1, <2>2, <2>3
<1>6. script.provider # "anthropic" /\ script.provider # "gemini"
  OBVIOUS
<1> QED BY <1>4, <1>5, <1>6, Zenon DEF InBlock

\* Short sequences of items, joined.
LEMMA Joined ==
  /\ \A x, y \in StreamItem :
       <<x>> \in Seq(StreamItem) /\ <<x, y>> \in Seq(StreamItem) /\ <<x>> \o <<y>> = <<x, y>>
  /\ \A x, y, z \in StreamItem :
       <<x, y, z>> \in Seq(StreamItem) /\ <<x, y>> \o <<z>> = <<x, y, z>>
<1>1. ASSUME NEW x \in StreamItem, NEW y \in StreamItem
      PROVE  <<x>> \in Seq(StreamItem) /\ <<x, y>> \in Seq(StreamItem) /\ <<x>> \o <<y>> = <<x, y>>
  <2>1. <<x>> \in Seq(StreamItem) /\ <<y>> \in Seq(StreamItem) /\ <<x, y>> \in Seq(StreamItem)
    OBVIOUS
  <2>2. /\ Len(<<x>> \o <<y>>) = 2 /\ Len(<<x, y>>) = 2
        /\ (<<x>> \o <<y>>)[1] = x /\ (<<x>> \o <<y>>)[2] = y
        /\ <<x, y>>[1] = x /\ <<x, y>>[2] = y
    OBVIOUS
  <2>3. <<x>> \o <<y>> \in Seq(StreamItem)
    BY <2>1, ConcatProperties
  <2> DEFINE v == <<x>> \o <<y>>
             w == <<x, y>>
  <2> HIDE DEF v, w
  <2>4. \A i \in 1 .. 2 : v[i] = w[i]
    BY <2>2 DEF v, w
  <2>5. v = w
    BY <2>1, <2>2, <2>3, <2>4, SeqEqual DEF v, w
  <2> QED BY <2>1, <2>5 DEF v, w
<1>2. ASSUME NEW x \in StreamItem, NEW y \in StreamItem, NEW z \in StreamItem
      PROVE  <<x, y, z>> \in Seq(StreamItem) /\ <<x, y>> \o <<z>> = <<x, y, z>>
  <2>1. <<x, y>> \in Seq(StreamItem) /\ <<z>> \in Seq(StreamItem) /\ <<x, y, z>> \in Seq(StreamItem)
    OBVIOUS
  <2>2. /\ Len(<<x, y>> \o <<z>>) = 3 /\ Len(<<x, y, z>>) = 3
        /\ (<<x, y>> \o <<z>>)[1] = x /\ (<<x, y>> \o <<z>>)[2] = y /\ (<<x, y>> \o <<z>>)[3] = z
        /\ <<x, y, z>>[1] = x /\ <<x, y, z>>[2] = y /\ <<x, y, z>>[3] = z
    OBVIOUS
  <2>3. <<x, y>> \o <<z>> \in Seq(StreamItem)
    BY <2>1, ConcatProperties
  <2> DEFINE v == <<x, y>> \o <<z>>
             w == <<x, y, z>>
  <2> HIDE DEF v, w
  <2>4. \A i \in 1 .. 3 : v[i] = w[i]
    BY <2>2 DEF v, w
  <2>5. v = w
    BY <2>1, <2>2, <2>3, <2>4, SeqEqual DEF v, w
  <2> QED BY <2>1, <2>5 DEF v, w
<1> QED BY <1>1, <1>2

\* A chunk's stream events: the answer's start before the first, and what it holds.
LEMMA ChunkItems ==
  ASSUME NEW x \in StreamItem, NEW a, NEW u \in {<<>>, <<Plain("Start")>>}
  PROVE  LET items == u \o <<x>> \o <<Plain("UsageDelta")>> \o <<>>
             last  == u \o <<>> \o <<Plain("UsageDelta")>> \o <<Plain("End")>>
         IN  /\ items \in Seq(StreamItem) /\ Owes(items, a, Take(a, x))
             /\ last \in Seq(StreamItem) /\ Owes(last, a, Take(a, Plain("End")))
             /\ u \o <<>> \o <<>> \o <<>> \in Seq(StreamItem)
             /\ Owes(u \o <<>> \o <<>> \o <<>>, a, a)
<1> DEFINE s == Plain("Start")
           y == Plain("UsageDelta")
           z == Plain("End")
<1>1. s \in StreamItem /\ y \in StreamItem /\ z \in StreamItem /\ Idle(s) /\ Idle(y)
  BY PlainKnown DEF ItemType
<1> HIDE DEF s, y, z
<1>2. /\ \A v \in Seq(StreamItem) : <<>> \o v = v /\ v \o <<>> = v
      /\ <<>> \in Seq(StreamItem)
  BY ConcatEmptySeq, EmptySeq
<1>3. CASE u = <<>>
  <2>1. u \o <<x>> \o <<y>> \o <<>> = <<x, y>>
    <3>1. <<x>> \o <<y>> = <<x, y>> /\ <<x>> \in Seq(StreamItem) /\ <<x, y>> \in Seq(StreamItem)
      BY <1>1, Joined
    <3> QED BY <1>2, <1>3, <3>1, Zenon
  <2>2. u \o <<>> \o <<y>> \o <<z>> = <<y, z>>
    <3>1. <<y>> \o <<z>> = <<y, z>> /\ <<y>> \in Seq(StreamItem)
      BY <1>1, Joined
    <3> QED BY <1>2, <1>3, <3>1, Zenon
  <2>3. u \o <<>> \o <<>> \o <<>> = <<>>
    BY <1>2, <1>3, Zenon
  <2>4. Owes(<<x, y>>, a, Take(a, x)) /\ Owes(<<y, z>>, a, Take(a, z)) /\ Owes(<<>>, a, a)
    BY <1>1, FewOwed
  <2>5. <<x, y>> \in Seq(StreamItem) /\ <<y, z>> \in Seq(StreamItem)
    BY <1>1
  <2> QED BY <1>2, <2>1, <2>2, <2>3, <2>4, <2>5, Zenon DEF y, z
<1>4. CASE u = <<s>>
  <2>1. u \o <<x>> \o <<y>> \o <<>> = <<s, x, y>>
    <3>1. /\ <<s>> \o <<x>> = <<s, x>> /\ <<s, x>> \o <<y>> = <<s, x, y>>
          /\ <<s, x, y>> \in Seq(StreamItem)
      BY <1>1, Joined
    <3> QED BY <1>2, <1>4, <3>1, Zenon
  <2>2. u \o <<>> \o <<y>> \o <<z>> = <<s, y, z>>
    <3>1. <<s>> \o <<y>> = <<s, y>> /\ <<s, y>> \o <<z>> = <<s, y, z>> /\ <<s>> \in Seq(StreamItem)
      BY <1>1, Joined
    <3> QED BY <1>2, <1>4, <3>1, Zenon
  <2>3. u \o <<>> \o <<>> \o <<>> = <<s>> /\ <<s>> \in Seq(StreamItem)
    <3>1. <<s>> \in Seq(StreamItem)
      BY <1>1
    <3> QED BY <1>2, <1>4, <3>1, Zenon
  <2>4. Owes(<<s, x, y>>, a, Take(a, x)) /\ Owes(<<s, y, z>>, a, Take(a, z)) /\ Owes(<<s>>, a, a)
    BY <1>1, FewOwed
  <2>5. <<s, x, y>> \in Seq(StreamItem) /\ <<s, y, z>> \in Seq(StreamItem)
    BY <1>1
  <2> QED BY <2>1, <2>2, <2>3, <2>4, <2>5, Zenon DEF y, z
<1> QED BY <1>3, <1>4 DEF s

\* The adapter of Gemini, within a block.
LEMMA GeminiTurn ==
  ASSUME ScriptOK(script), script.provider = "gemini", tr \in Translator,
         NEW b \in 1 .. Len(script.answer),
         NEW o \in 0 .. Len(BlockEvents(script, b)) - 1,
         NEW k \in 0 .. script.answer[b].pieces, NEW begun \in BOOLEAN,
         InBlock(script, b, o, k, begun, tr),
         NEW t \in Translator, t.calls = tr.calls, t.callId = tr.callId, t.toolName = tr.toolName
  PROVE  LET e == BlockEvents(script, b)[o + 1]
         IN  TurnTaken(script, SentWith(script, b - 1) + o, GeminiItems(e),
                       AccWith(script, b, k, begun), t)
<1> DEFINE e == BlockEvents(script, b)[o + 1]
           n == script.answer[b].pieces
           a == AccWith(script, b, k, begun)
           call == script.answer[b].kind = "call"
           x == Delta(e, e.block, e.block)
           u == IF tr.started THEN <<>> ELSE <<Plain("Start")>>
           yes == TRUE
<1>1. b \in Nat /\ b \in DOMAIN script.answer /\ n \in Nat \ {0}
  BY BlockKnown, LenProperties DEF ScriptOK
<1>2. /\ BlockEvents(script, b) \in Seq(SseEvent)
      /\ call => Len(BlockEvents(script, b)) = 1
                 /\ BlockEvents(script, b)[1] = Sent("chunk", b, Pieces(b, n))
      /\ ~call => Len(BlockEvents(script, b)) = n
                  /\ \A j \in 1 .. n : BlockEvents(script, b)[j] = Sent("chunk", b, <<<<b, j>>>>)
  BY <1>1, BlockShape
<1>b. yes \in BOOLEAN /\ yes
  OBVIOUS
<1>3. o + 1 \in 1 .. Len(BlockEvents(script, b)) /\ Len(BlockEvents(script, b)) \in Nat /\ o \in Nat
  BY <1>1, <1>2
<1>e. e # Garbled
  <2>2. e \in SseEvent
    BY <1>2, <1>3, ElementOfSeq
  <2> QED BY <2>2, NotGarbled
<1>4. /\ Between(tr) /\ Between(t)
      /\ o = k \/ (call /\ o = 0)
      /\ ~begun => k = 0
      /\ call => k = 0 /\ ~begun
  <2>1. \/ o = 0 /\ k = 0 /\ ~begun /\ Between(tr)
        \/ ~call /\ o = k /\ k > 0 /\ begun /\ Between(tr)
    BY DEF InBlock
  <2>2. Between(tr) => Between(t)
    BY DEF Between
  <2>3. (k > 0) => ~(k = 0)
    BY <1>1
  <2> HIDE DEF call
  <2>4. CASE o = 0 /\ k = 0 /\ ~begun /\ Between(tr)
    BY <2>2, <2>4
  <2>5. CASE ~call /\ o = k /\ k > 0 /\ begun /\ Between(tr)
    BY <2>2, <2>5, Zenon
  <2> QED BY <2>1, <2>4, <2>5
<1> DEFINE m == IF call THEN n ELSE k + 1
           p == IF call THEN Pieces(b, n) ELSE <<<<b, k + 1>>>>
<1>5. /\ e = Sent("chunk", b, p)
      /\ k \in Nat /\ m \in Nat /\ m \in 0 .. n
      /\ p \in Seq(Piece) /\ Pieces(b, k) \o p = Pieces(b, m)
      /\ ~begun => p = Pieces(b, m)
      /\ \/ o + 1 < Len(BlockEvents(script, b)) /\ ~call /\ o + 1 = m /\ m > 0
         \/ o + 1 = Len(BlockEvents(script, b)) /\ m = n
  <2>1. CASE call
    <3>1. e = Sent("chunk", b, p) /\ o + 1 = Len(BlockEvents(script, b)) /\ m = n
      BY <1>2, <1>3, <1>4, <2>1
    <3>2. k = 0 /\ p = Pieces(b, n) /\ k \in Nat
      BY <1>4, <2>1
    <3>3. Pieces(b, n) \in Seq(Piece)
      BY <1>1, PiecesTyped
    <3>4. Pieces(b, k) \o Pieces(b, n) = Pieces(b, n)
      BY <1>1, <3>2, PiecesGrow, ZenonT(60)
    <3> HIDE DEF e, m, p, n
    <3>5. m \in Nat /\ m \in 0 .. n
      BY <1>1, <3>1
    <3> QED BY <2>1, <3>1, <3>2, <3>3, <3>4, <3>5
  <2>2. CASE ~call
    <3>1. o = k /\ Len(BlockEvents(script, b)) = n /\ k + 1 \in 1 .. n /\ k \in Nat
      BY <1>2, <1>3, <1>4, <2>2
    <3>2. e = Sent("chunk", b, <<<<b, k + 1>>>>)
      BY <1>2, <2>2, <3>1
    <3>3. /\ <<<<b, k + 1>>>> \in Seq(Piece)
          /\ Pieces(b, k) \o <<<<b, k + 1>>>> = Pieces(b, k + 1)
          /\ k = 0 => <<<<b, k + 1>>>> = Pieces(b, k + 1)
      BY <1>1, <3>1, NextPiece
    <3>4. m = k + 1 /\ p = <<<<b, k + 1>>>>
      BY <2>2
    <3>5. \/ o + 1 < Len(BlockEvents(script, b)) /\ ~call /\ o + 1 = m /\ m > 0
          \/ o + 1 = Len(BlockEvents(script, b)) /\ m = n
      BY <1>1, <2>2, <3>1, <3>4
    <3> HIDE DEF e, m, p, n
    <3>6. m \in Nat /\ m \in 0 .. n
      BY <3>1, <3>4, <1>1
    <3> QED BY <1>4, <3>1, <3>2, <3>3, <3>4, <3>5, <3>6, Zenon
  <2> QED BY <2>1, <2>2
<1> HIDE DEF m, p
<1>6. Delivers(script, b, k, m, begun, Delta(Sent("chunk", b, p), b, b))
  <2>1. call => b = b /\ b = IF begun THEN 0 ELSE b
    BY <1>4
  <2> QED BY <1>5, <2>1, DeltaItem
<1>7. x \in StreamItem /\ Take(a, x) = AccWith(script, b, m, yes)
  <2>1. e.block = b
    BY <1>5 DEF Sent
  <2> HIDE DEF e
  <2> QED BY <1>5, <1>6, <2>1 DEF Delivers
<1> DEFINE items == u \o <<x>> \o <<Plain("UsageDelta")>> \o <<>>
<1>8. GeminiItems(e) = items
  <2>1. e.type = "chunk"
    BY <1>5 DEF Sent
  <2> HIDE DEF x
  <2>2. GeminiItems(e) = u \o (IF e.type = "chunk" THEN <<x>> ELSE <<>>)
                           \o (IF e.type = "error" THEN <<>> ELSE <<Plain("UsageDelta")>>)
                           \o (IF e.type = "last_chunk" THEN <<Plain("End")>> ELSE <<>>)
    BY <1>e, Zenon DEF GeminiItems, x
  <2>3. e.type # "error" /\ e.type # "last_chunk"
    BY <2>1
  <2> HIDE DEF e, u
  <2> QED BY <2>1, <2>2, <2>3, Zenon
<1>9. items \in Seq(StreamItem) /\ Owes(items, a, Take(a, x))
  <2>1. u \in {<<>>, <<Plain("Start")>>}
    OBVIOUS
  <2> HIDE DEF u, x, a, e
  <2> QED BY <1>7, <2>1, ChunkItems
<1> HIDE DEF items, e, x
<1>10. Owes(items, a, AccWith(script, b, m, yes))
  <2> HIDE DEF a, yes
  <2> QED BY <1>7, <1>9
<1>11. \/ o + 1 < Len(BlockEvents(script, b)) /\ InBlock(script, b, o + 1, m, yes, t)
       \/ o + 1 = Len(BlockEvents(script, b)) /\ m = script.answer[b].pieces /\ yes /\ Between(t)
  BY <1>b, <1>4, <1>5 DEF InBlock
<1>12. TurnTaken(script, SentWith(script, b - 1) + o, items, a, t)
  <2> HIDE DEF yes
  <2> QED BY <1>b, <1>5, <1>9, <1>10, <1>11, BlockTurn
<1> QED BY <1>8, <1>12 DEF e

\* Where event i + 1 is, and what goes with that place.
Located(s, i, a, t) ==
  \/ /\ i = 0 /\ s.provider # "gemini" /\ a = AccDone(s, 0, FALSE) /\ Between(t)
     /\ Whole(s)[i + 1] =
          Sent(IF s.provider = "anthropic" THEN "message_start" ELSE "created", 0, <<>>)
     /\ SentWith(s, 0) = 1
  \/ \E b \in 1 .. Len(s.answer) :
       \E o \in 0 .. Len(BlockEvents(s, b)) - 1, k \in 0 .. s.answer[b].pieces,
          begun \in BOOLEAN :
         /\ InBlock(s, b, o, k, begun, t)
         /\ i = SentWith(s, b - 1) + o
         /\ a = AccWith(s, b, k, begun)
         /\ Whole(s)[i + 1] = BlockEvents(s, b)[o + 1]
  \/ \E o \in 0 .. Len(Closing(s)) - 1 :
       /\ i = SentWith(s, Len(s.answer)) + o
       /\ a = AccDone(s, Len(s.answer), FALSE)
       /\ Between(t)
       /\ Whole(s)[i + 1] = Closing(s)[o + 1]

\* The events of a script are at their places, before, in and after the blocks.
LEMMA EventKnown ==
  ASSUME NEW s, ScriptOK(s), NEW i \in 0 .. Len(Whole(s)) - 1, NEW a, NEW t, Reached(s, i, a, t)
  PROVE  Located(s, i, a, t)
<1>1. /\ Len(s.answer) \in Nat /\ DOMAIN s.answer = 1 .. Len(s.answer)
      /\ s.provider \in {"anthropic", "openai", "gemini"}
  BY LenProperties DEF ScriptOK
<1>2. /\ SentWith(s, 0) = Len(Opening(s))
      /\ \A b \in 0 .. Len(s.answer) : SentWith(s, b) \in Nat
      /\ Len(Whole(s)) = SentWith(s, Len(s.answer)) + Len(Closing(s))
      /\ \A k \in 1 .. Len(Opening(s)) : Whole(s)[k] = Opening(s)[k]
      /\ \A b \in 1 .. Len(s.answer) : \A k \in 1 .. Len(BlockEvents(s, b)) :
           Whole(s)[SentWith(s, b - 1) + k] = BlockEvents(s, b)[k]
      /\ \A k \in 1 .. Len(Closing(s)) : Whole(s)[SentWith(s, Len(s.answer)) + k] = Closing(s)[k]
  BY WholeAt
<1>3. Len(Closing(s)) \in Nat \ {0}
  BY ClosingKnown
<1>4. CASE i = 0 /\ s.provider # "gemini" /\ a = AccDone(s, 0, FALSE) /\ Between(t)
  <2> DEFINE x == Sent(IF s.provider = "anthropic" THEN "message_start" ELSE "created", 0, <<>>)
  <2>1. Opening(s) = <<x>>
    <3>1. CASE s.provider = "anthropic"
      BY <3>1, PartsTyped
    <3>2. CASE s.provider = "openai"
      BY <3>2, PartsTyped
    <3> QED BY <1>1, <1>4, <3>1, <3>2
  <2> HIDE DEF x
  <2>2. Len(Opening(s)) = 1 /\ Opening(s)[1] = x
    BY <2>1
  <2>3. Whole(s)[i + 1] = x /\ SentWith(s, 0) = 1
    BY <1>2, <1>4, <2>2
  <2> QED BY <1>4, <2>3, Zenon DEF x, Located
<1>5. ASSUME NEW b \in 1 .. Len(s.answer), NEW o \in 0 .. Len(BlockEvents(s, b)) - 1,
             NEW k \in 0 .. s.answer[b].pieces, NEW begun \in BOOLEAN,
             InBlock(s, b, o, k, begun, t), i = SentWith(s, b - 1) + o, a = AccWith(s, b, k, begun)
      PROVE  Whole(s)[i + 1] = BlockEvents(s, b)[o + 1]
  <2>1. Len(BlockEvents(s, b)) \in Nat
    BY <1>1, BlockShape, LenProperties
  <2>2. SentWith(s, b - 1) \in Nat
    BY <1>1, <1>2
  <2>3. o + 1 \in 1 .. Len(BlockEvents(s, b)) /\ i + 1 = SentWith(s, b - 1) + (o + 1)
    BY <1>5, <2>1, <2>2
  <2>4. Whole(s)[SentWith(s, b - 1) + (o + 1)] = BlockEvents(s, b)[o + 1]
    BY <1>2, <2>3, Zenon
  <2> QED BY <2>3, <2>4, Zenon
<1>6. ASSUME NEW o \in 0 .. Len(Closing(s)), NEW finish \in BOOLEAN,
             i = SentWith(s, Len(s.answer)) + o, finish <=> o = Len(Closing(s)),
             a = AccDone(s, Len(s.answer), finish), Between(t)
      PROVE  /\ o \in 0 .. Len(Closing(s)) - 1
             /\ a = AccDone(s, Len(s.answer), FALSE)
             /\ Whole(s)[i + 1] = Closing(s)[o + 1]
  <2>1. SentWith(s, Len(s.answer)) \in Nat
    BY <1>1, <1>2
  <2>2. o + 1 \in 1 .. Len(Closing(s)) /\ i + 1 = SentWith(s, Len(s.answer)) + (o + 1)
        /\ o \in 0 .. Len(Closing(s)) - 1 /\ o # Len(Closing(s))
    BY <1>2, <1>3, <1>6, <2>1
  <2>3. finish = FALSE
    BY <1>6, <2>2
  <2> QED BY <1>2, <1>6, <2>2, <2>3
<1>7. CASE \E b \in 1 .. Len(s.answer) :
       \E o \in 0 .. Len(BlockEvents(s, b)) - 1, k \in 0 .. s.answer[b].pieces, begun \in BOOLEAN :
         /\ InBlock(s, b, o, k, begun, t)
         /\ i = SentWith(s, b - 1) + o
         /\ a = AccWith(s, b, k, begun)
  BY <1>5, <1>7, Zenon DEF Located
<1>8. CASE \E o \in 0 .. Len(Closing(s)), finish \in BOOLEAN :
       /\ i = SentWith(s, Len(s.answer)) + o
       /\ finish <=> o = Len(Closing(s))
       /\ a = AccDone(s, Len(s.answer), finish)
       /\ Between(t)
  <2>1. PICK o \in 0 .. Len(Closing(s)), finish \in BOOLEAN :
               /\ i = SentWith(s, Len(s.answer)) + o
               /\ finish <=> o = Len(Closing(s))
               /\ a = AccDone(s, Len(s.answer), finish)
               /\ Between(t)
    BY <1>8, Zenon
  <2>2. /\ o \in 0 .. Len(Closing(s)) - 1
        /\ a = AccDone(s, Len(s.answer), FALSE)
        /\ Whole(s)[i + 1] = Closing(s)[o + 1]
    BY <2>1, <1>6
  <2> QED BY <2>1, <2>2, Zenon DEF Located
<1> QED BY <1>4, <1>7, <1>8, Zenon DEF Reached, Located

\* A turn between blocks that adds nothing, and the last turn of an answer.
LEMMA OuterTurn ==
  ASSUME NEW s, ScriptOK(s), NEW items \in Seq(StreamItem), NEW t \in Translator, Between(t)
  PROVE  /\ \A b : SentWith(s, 0) = 1 /\ b = AccDone(s, 0, FALSE) /\ Owes(items, b, b)
                     => TurnTaken(s, 0, items, b, t)
         /\ \A b : \A o \in 0 .. Len(Closing(s)) - 1 :
              /\ b = AccDone(s, Len(s.answer), FALSE)
              /\ Owes(items, b, IF o + 1 = Len(Closing(s)) THEN Take(b, Plain("End")) ELSE b)
              => TurnTaken(s, SentWith(s, Len(s.answer)) + o, items, b, t)
<1> DEFINE no == FALSE
           yes == TRUE
<1>0. Len(s.answer) \in Nat
  BY LenProperties DEF ScriptOK
<1>1. ASSUME NEW b, SentWith(s, 0) = 1, b = AccDone(s, 0, no), Owes(items, b, b)
      PROVE  TurnTaken(s, 0, items, b, t)
  <2>0. 0 \in 0 .. Len(s.answer)
    BY <1>0
  <2>1. Reached(s, SentWith(s, 0), AccDone(s, 0, FALSE), t)
    BY <2>0, Arrive, Zenon
  <2>2. 0 + 1 = SentWith(s, 0)
    BY <1>1
  <2> QED BY <1>1, <2>1, <2>2 DEF TurnTaken
<1>2. ASSUME NEW o \in 0 .. Len(Closing(s)) - 1, NEW b,
             b = AccDone(s, Len(s.answer), no),
             Owes(items, b, IF o + 1 = Len(Closing(s)) THEN Take(b, Plain("End")) ELSE b)
      PROVE  TurnTaken(s, SentWith(s, Len(s.answer)) + o, items, b, t)
  <2> DEFINE n == Len(s.answer)
             last == o + 1 = Len(Closing(s))
  <2>0. n \in 0 .. Len(s.answer)
    BY <1>0
  <2>1. Len(Closing(s)) \in Nat \ {0} /\ SentWith(s, n) \in Nat
    <3>1. Len(Closing(s)) \in Nat \ {0}
      BY ClosingKnown
    <3>2. SentWith(s, n) \in Nat
      BY <2>0, WholeAt, Zenon
    <3> QED BY <3>1, <3>2
  <2>2. o + 1 \in 0 .. Len(Closing(s)) /\ (SentWith(s, n) + o) + 1 = SentWith(s, n) + (o + 1)
    BY <2>1
  <2>3. CASE last
    <3>1. Take(b, Plain("End")) = AccDone(s, n, yes)
      BY <1>2, EndTaken, Zenon DEF AccDone
    <3> HIDE DEF yes
    <3>2. Reached(s, SentWith(s, n) + (o + 1), AccDone(s, n, yes), t)
      BY <2>2, <2>3 DEF Reached, yes
    <3>3. Owes(items, b, AccDone(s, n, yes))
      BY <1>2, <2>3, <3>1, Zenon
    <3> QED BY <2>2, <3>2, <3>3 DEF TurnTaken
  <2>4. CASE ~last
    <3>1. b = AccDone(s, n, no)
      BY <1>2
    <3> HIDE DEF no
    <3>2. Reached(s, SentWith(s, n) + (o + 1), AccDone(s, n, no), t)
      BY <2>2, <2>4 DEF Reached, no
    <3>3. Owes(items, b, b)
      BY <1>2, <2>4, Zenon
    <3> QED BY <2>2, <3>1, <3>2, <3>3 DEF TurnTaken
  <2> QED BY <2>3, <2>4
<1> QED BY <1>1, <1>2, Zenon

\* What an adapter does with an event that has one payload.
LEMMA Turned ==
  ASSUME ScriptOK(script), tr \in Translator, NEW etype, NEW d,
         Translate([etype |-> etype, data |-> <<d>>])
  PROVE  /\ script.provider = "anthropic" => queue' = AnthropicItems(d) /\ tr' = AnthropicState(d)
         /\ script.provider = "openai" =>
              queue' = OpenAiItems(etype, d) /\ tr' = OpenAiState(etype, d)
         /\ script.provider = "gemini" =>
              /\ queue' = GeminiItems(d)
              /\ tr' \in Translator
              /\ tr'.calls = tr.calls /\ tr'.callId = tr.callId /\ tr'.toolName = tr.toolName
<1> DEFINE event == [etype |-> etype, data |-> <<d>>]
<1>1. Payload(event) = d /\ event.etype = etype
  BY DEF Payload
<1> HIDE DEF event
<1>2. Translate(event)
  BY DEF event
<1>3. CASE script.provider = "anthropic"
  <2>1. queue' = AnthropicItems(d) /\ tr' = AnthropicState(d)
    BY <1>1, <1>2, <1>3 DEF Translate
  <2> QED BY <1>3, <2>1
<1>4. CASE script.provider = "openai"
  <2>1. queue' = OpenAiItems(etype, d) /\ tr' = OpenAiState(etype, d)
    BY <1>1, <1>2, <1>4 DEF Translate
  <2> QED BY <1>4, <2>1
<1>5. CASE script.provider = "gemini"
  <2> DEFINE on == tr.started \/ d # Garbled
  <2>1. queue' = GeminiItems(d) /\ tr' = [tr EXCEPT !.started = on]
    BY <1>1, <1>2, <1>5 DEF Translate
  <2>2. on \in BOOLEAN
    OBVIOUS
  <2> HIDE DEF on
  <2>3. /\ tr' \in Translator
        /\ tr'.calls = tr.calls /\ tr'.callId = tr.callId /\ tr'.toolName = tr.toolName
    BY <2>1, <2>2 DEF Translator
  <2> QED BY <1>5, <2>1, <2>3
<1> QED BY <1>3, <1>4, <1>5 DEF ScriptOK

\* Every event of a whole script takes the translator and the accumulator one place further.
LEMMA WholeTurn ==
  ASSUME ScriptOK(script), tr \in Translator, NEW i \in 0 .. Len(Whole(script)) - 1, NEW a,
         Reached(script, i, a, tr), NEW e, e = Whole(script)[i + 1],
         Translate([etype |-> TypeOf(script, e), data |-> <<e>>])
  PROVE  TurnTaken(script, i, queue', a, tr')
<1>1. /\ Len(script.answer) \in Nat
      /\ script.provider \in {"anthropic", "openai", "gemini"}
  BY LenProperties DEF ScriptOK
<1>2. /\ script.provider = "anthropic" => queue' = AnthropicItems(e) /\ tr' = AnthropicState(e)
      /\ script.provider = "openai" => queue' = OpenAiItems(e.type, e) /\ tr' = OpenAiState(e.type, e)
      /\ script.provider = "gemini" =>
           /\ queue' = GeminiItems(e)
           /\ tr' \in Translator
           /\ tr'.calls = tr.calls /\ tr'.callId = tr.callId /\ tr'.toolName = tr.toolName
  <2>1. script.provider = "openai" => TypeOf(script, e) = e.type
    BY DEF TypeOf
  <2> QED BY <2>1, Turned
<1>3. e # Garbled
  <2>1. Whole(script) \in Seq(SseEvent) /\ i + 1 \in 1 .. Len(Whole(script))
    BY PartsTyped, LenProperties
  <2>2. e \in SseEvent
    BY <2>1, ElementOfSeq
  <2> QED BY <2>2, NotGarbled
<1>4. \A type, b, p : Sent(type, b, p).type = type
  BY DEF Sent
<1>i. /\ Plain("Start") \in StreamItem /\ Plain("UsageDelta") \in StreamItem
      /\ Plain("End") \in StreamItem
      /\ Idle(Plain("Start")) /\ Idle(Plain("UsageDelta"))
  BY PlainKnown DEF ItemType
<1>5. CASE /\ i = 0 /\ script.provider # "gemini" /\ a = AccDone(script, 0, FALSE) /\ Between(tr)
           /\ e = Sent(IF script.provider = "anthropic" THEN "message_start" ELSE "created", 0, <<>>)
           /\ SentWith(script, 0) = 1
  <2> DEFINE s == Plain("Start")
             y == Plain("UsageDelta")
             items == IF script.provider = "anthropic" THEN <<s, y>> ELSE <<s>>
  <2>1. queue' = items /\ tr' = tr
    <3>1. CASE script.provider = "anthropic"
      <4>1. e.type = "message_start"
        BY <1>4, <1>5, <3>1
      <4> QED BY <1>2, <3>1, <4>1 DEF AnthropicItems, AnthropicState
    <3>2. CASE script.provider # "anthropic"
      <4>1. e.type = "created"
        BY <1>4, <1>5, <3>2
      <4> QED BY <1>1, <1>2, <1>3, <1>5, <3>2, <4>1 DEF OpenAiItems, OpenAiState
    <3> QED BY <3>1, <3>2
  <2> HIDE DEF s, y
  <2>2. items \in Seq(StreamItem)
    BY <1>i, Joined DEF s, y
  <2>3. Owes(items, a, a)
    <3> HIDE DEF items
    <3>1. Owes(<<s, y>>, a, a) /\ Owes(<<s>>, a, a)
      BY <1>i, FewOwed DEF s, y
    <3> QED BY <3>1, Zenon DEF items
  <2> HIDE DEF items
  <2>4. TurnTaken(script, 0, items, a, tr)
    BY <1>5, <2>2, <2>3, OuterTurn, Zenon
  <2> QED BY <1>5, <2>1, <2>4
<1>6. ASSUME NEW b \in 1 .. Len(script.answer), NEW o \in 0 .. Len(BlockEvents(script, b)) - 1,
             NEW k \in 0 .. script.answer[b].pieces, NEW begun \in BOOLEAN,
             InBlock(script, b, o, k, begun, tr), i = SentWith(script, b - 1) + o,
             a = AccWith(script, b, k, begun), e = BlockEvents(script, b)[o + 1]
      PROVE  TurnTaken(script, i, queue', a, tr')
  <2>1. CASE script.provider = "anthropic"
    <3>1. TurnTaken(script, SentWith(script, b - 1) + o, AnthropicItems(e),
                    AccWith(script, b, k, begun), AnthropicState(e))
      BY <1>6, <2>1, AnthropicTurn
    <3> QED BY <1>2, <1>6, <2>1, <3>1
  <2>2. CASE script.provider = "openai"
    <3>1. TurnTaken(script, SentWith(script, b - 1) + o, OpenAiItems(e.type, e),
                    AccWith(script, b, k, begun), OpenAiState(e.type, e))
      BY <1>6, <2>2, OpenAiTurn
    <3> QED BY <1>2, <1>6, <2>2, <3>1
  <2>3. CASE script.provider = "gemini"
    <3>1. ASSUME NEW t \in Translator, t.calls = tr.calls, t.callId = tr.callId, t.toolName = tr.toolName
          PROVE  TurnTaken(script, SentWith(script, b - 1) + o, GeminiItems(e),
                           AccWith(script, b, k, begun), t)
      BY <1>6, <2>3, <3>1, GeminiTurn
    <3> QED BY <1>2, <1>6, <2>3, <3>1
  <2> QED BY <1>1, <2>1, <2>2, <2>3
<1>7. ASSUME NEW o \in 0 .. Len(Closing(script)) - 1,
             i = SentWith(script, Len(script.answer)) + o,
             a = AccDone(script, Len(script.answer), FALSE), Between(tr),
             e = Closing(script)[o + 1]
      PROVE  TurnTaken(script, i, queue', a, tr')
  <2> DEFINE y == Plain("UsageDelta")
             z == Plain("End")
             last == o + 1 = Len(Closing(script))
  <2>0. Owes(<<>>, a, a) /\ Owes(<<y>>, a, a) /\ Owes(<<z>>, a, Take(a, z))
    BY <1>i, FewOwed
  <2>s. <<>> \in Seq(StreamItem) /\ <<y>> \in Seq(StreamItem) /\ <<z>> \in Seq(StreamItem)
    BY <1>i, Joined, EmptySeq
  <2>1. /\ queue' \in Seq(StreamItem)
        /\ tr' \in Translator /\ Between(tr')
        /\ Owes(queue', a, IF last THEN Take(a, z) ELSE a)
    <3>1. CASE script.provider = "anthropic"
      <4>1. /\ Len(Closing(script)) = 3
            /\ Closing(script)[1] = Sent("ping", 0, <<>>)
            /\ Closing(script)[2] = Sent("message_delta", 0, <<>>)
            /\ Closing(script)[3] = Sent("message_stop", 0, <<>>)
        BY <3>1, ClosingKnown
      <4>2. CASE o = 0
        <5>1. e.type = "ping" /\ ~last
          BY <1>4, <1>7, <4>1, <4>2
        <5>2. queue' = <<>> /\ tr' = tr
          BY <1>2, <3>1, <5>1 DEF AnthropicItems, AnthropicState
        <5> HIDE DEF last, y, z
        <5> QED BY <1>7, <2>0, <2>s, <5>1, <5>2
      <4>3. CASE o = 1
        <5>1. e.type = "message_delta" /\ ~last
          BY <1>4, <1>7, <4>1, <4>3
        <5>2. queue' = <<y>> /\ tr' = tr
          BY <1>2, <3>1, <5>1 DEF AnthropicItems, AnthropicState
        <5> HIDE DEF last, y, z
        <5> QED BY <1>7, <2>0, <2>s, <5>1, <5>2
      <4>4. CASE o = 2
        <5>1. e.type = "message_stop" /\ last
          BY <1>4, <1>7, <4>1, <4>4
        <5>2. queue' = <<z>> /\ tr' = tr
          BY <1>2, <3>1, <5>1 DEF AnthropicItems, AnthropicState
        <5> HIDE DEF last, y, z
        <5> QED BY <1>7, <2>0, <2>s, <5>1, <5>2
      <4>5. o \in 0 .. 2
        BY <4>1
      <4> QED BY <4>2, <4>3, <4>4, <4>5
    <3>2. CASE script.provider = "openai"
      <4>1. Len(Closing(script)) = 1 /\ Closing(script)[1] = Sent("completed", 0, <<>>)
        BY <3>2, ClosingKnown
      <4>2. o = 0 /\ e.type = "completed" /\ last
        BY <1>4, <1>7, <4>1
      <4>3. queue' = <<z>> /\ tr' = tr
        BY <1>2, <3>2, <4>2 DEF OpenAiItems, OpenAiState
      <4> HIDE DEF last, y, z
      <4> QED BY <1>7, <2>0, <2>s, <4>2, <4>3
    <3>3. CASE script.provider = "gemini"
      <4>1. Len(Closing(script)) = 1 /\ Closing(script)[1] = Sent("last_chunk", 0, <<>>)
        BY <3>3, ClosingKnown
      <4>a. o = 0 /\ 0 + 1 = 1
        BY <4>1
      <4>2. o = 0 /\ e = Sent("last_chunk", 0, <<>>) /\ last
        BY <1>7, <4>1, <4>a, Zenon
      <4> DEFINE u == IF tr.started THEN <<>> ELSE <<Plain("Start")>>
                 items == u \o <<>> \o <<Plain("UsageDelta")>> \o <<Plain("End")>>
      <4>3. GeminiItems(e) = items
        <5>1. e.type = "last_chunk"
          BY <4>2 DEF Sent
        <5>2. "last_chunk" # "chunk" /\ "last_chunk" # "error"
          OBVIOUS
        <5> QED BY <1>3, <5>1, <5>2, Zenon DEF GeminiItems
      <4>4. items \in Seq(StreamItem) /\ Owes(items, a, Take(a, Plain("End")))
        <5>1. u \in {<<>>, <<Plain("Start")>>}
          OBVIOUS
        <5> HIDE DEF u
        <5> QED BY <1>i, <5>1, ChunkItems
      <4> HIDE DEF items
      <4>5. tr' \in Translator /\ Between(tr')
        BY <1>2, <1>7, <3>3 DEF Between
      <4> QED BY <1>2, <3>3, <4>2, <4>3, <4>4, <4>5, Zenon
    <3> QED BY <1>1, <3>1, <3>2, <3>3
  <2>2. TurnTaken(script, SentWith(script, Len(script.answer)) + o, queue', a, tr')
    <3> DEFINE q == queue'
               t == tr'
    <3>1. q \in Seq(StreamItem) /\ t \in Translator /\ Between(t) /\ Owes(q, a, IF last THEN Take(a, z) ELSE a)
      BY <2>1
    <3> HIDE DEF q, t
    <3>2. TurnTaken(script, SentWith(script, Len(script.answer)) + o, q, a, t)
      BY <1>7, <3>1, OuterTurn, Zenon
    <3> QED BY <3>2 DEF q, t
  <2> QED BY <1>7, <2>2
<1>8. CASE \E b \in 1 .. Len(script.answer) :
              \E o \in 0 .. Len(BlockEvents(script, b)) - 1, k \in 0 .. script.answer[b].pieces,
                 begun \in BOOLEAN :
                /\ InBlock(script, b, o, k, begun, tr)
                /\ i = SentWith(script, b - 1) + o
                /\ a = AccWith(script, b, k, begun)
                /\ e = BlockEvents(script, b)[o + 1]
  BY <1>6, <1>8, Zenon
<1>9. CASE \E o \in 0 .. Len(Closing(script)) - 1 :
              /\ i = SentWith(script, Len(script.answer)) + o
              /\ a = AccDone(script, Len(script.answer), FALSE)
              /\ Between(tr)
              /\ e = Closing(script)[o + 1]
  BY <1>7, <1>9, Zenon
<1>10. Located(script, i, a, tr)
  BY EventKnown
<1> QED BY <1>5, <1>8, <1>9, <1>10, Zenon DEF Located

\* Of the translator only the open call counts.
LEMMA ReachedLike ==
  ASSUME NEW s, NEW i, NEW a, NEW t, NEW u, Reached(s, i, a, t),
         u.calls = t.calls, u.callId = t.callId, u.toolName = t.toolName
  PROVE  Reached(s, i, a, u)
<1>1. Between(t) => Between(u)
  BY DEF Between
<1>2. \A b, o, k, begun : InBlock(s, b, o, k, begun, t) => InBlock(s, b, o, k, begun, u)
  BY <1>1 DEF InBlock
<1> QED BY <1>1, <1>2, Zenon DEF Reached

\* The adapter's turn with event i + 1, whatever it is: an error of the provider, and a payload
\* that is cut short, are the last it gets.
Answered(s, i, items, a, t, whole) ==
  /\ items \in Seq(StreamItem)
  /\ t \in Translator
  /\ \E b : /\ Owes(items, a, b)
            /\ \E r : Reached(s, r, b, t)
            /\ whole /\ i + 1 < Len(Events(s)) => Reached(s, i + 1, b, t)

\* ... with the whole payload.
LEMMA WholeAnswered ==
  ASSUME ScriptOK(script), tr \in Translator, NEW i \in 0 .. Len(Events(script)) - 1, NEW a,
         Reached(script, i, a, tr), NEW e, e = Events(script)[i + 1],
         Translate([etype |-> TypeOf(script, e), data |-> <<e>>])
  PROVE  Answered(script, i, queue', a, tr', TRUE)
<1> DEFINE err == script.error
           w == Whole(script)
           yes == TRUE
<1>1. /\ Events(script) \in Seq(SseEvent) /\ err \in Nat /\ Len(w) \in Nat
      /\ err < Len(w) =>
           /\ Len(Events(script)) = err + 1
           /\ \A j \in 1 .. err : Events(script)[j] = w[j]
           /\ Events(script)[err + 1] = Sent("error", 0, <<>>)
      /\ err >= Len(w) => Events(script) = w
  BY EventsTyped
<1>2. CASE i < Len(w) /\ e = w[i + 1]
  <2>1. i \in 0 .. Len(w) - 1
    BY <1>1, <1>2
  <2>2. TurnTaken(script, i, queue', a, tr')
    BY <1>2, <2>1, WholeTurn
  <2> HIDE DEF yes
  <2>3. Answered(script, i, queue', a, tr', yes)
    BY <2>2 DEF TurnTaken, Answered
  <2> QED BY <2>3 DEF yes
<1>3. CASE err < Len(w) /\ i = err /\ e = Sent("error", 0, <<>>)
  <2>1. e.type = "error" /\ i + 1 = Len(Events(script))
    BY <1>1, <1>3 DEF Sent
  <2>2. /\ script.provider = "anthropic" => queue' = AnthropicItems(e) /\ tr' = AnthropicState(e)
        /\ script.provider = "openai" => queue' = OpenAiItems(e.type, e) /\ tr' = OpenAiState(e.type, e)
        /\ script.provider = "gemini" =>
             /\ queue' = GeminiItems(e)
             /\ tr' \in Translator
             /\ tr'.calls = tr.calls /\ tr'.callId = tr.callId /\ tr'.toolName = tr.toolName
    <3>1. script.provider = "openai" => TypeOf(script, e) = e.type
      BY DEF TypeOf
    <3> QED BY <3>1, Turned
  <2>3. /\ queue' \in Seq(StreamItem) /\ Owes(queue', a, a)
        /\ tr' \in Translator
        /\ tr'.calls = tr.calls /\ tr'.callId = tr.callId /\ tr'.toolName = tr.toolName
    <3> DEFINE x == Plain("Error")
               y == Plain("Start")
    <3>1. /\ x \in StreamItem /\ Idle(x)
          /\ y \in StreamItem /\ Idle(y)
      BY PlainKnown DEF ItemType
    <3>2. <<x>> \in Seq(StreamItem) /\ Owes(<<x>>, a, a)
      BY <3>1, FewOwed, Joined
    <3>3. CASE script.provider = "anthropic"
      <4>1. queue' = <<x>> /\ tr' = tr
        BY <2>1, <2>2, <3>3 DEF AnthropicItems, AnthropicState
      <4> HIDE DEF x
      <4> QED BY <3>2, <4>1
    <3>4. CASE script.provider = "openai"
      <4>1. queue' = <<x>> /\ tr' = tr
        BY <2>1, <2>2, <3>4 DEF OpenAiItems, OpenAiState
      <4> HIDE DEF x
      <4> QED BY <3>2, <4>1
    <3>5. CASE script.provider = "gemini"
      <4> DEFINE u == IF tr.started THEN <<>> ELSE <<Plain("Start")>>
                 items == u \o <<>> \o <<>> \o <<>>
      <4>0. e # Garbled
        BY <2>1 DEF Garbled, Sent
      <4>1. GeminiItems(e) = items
        <5>1. "error" # "chunk" /\ "error" # "last_chunk"
          OBVIOUS
        <5> QED BY <2>1, <4>0, <5>1, Zenon DEF GeminiItems
      <4>2. items \in Seq(StreamItem) /\ Owes(items, a, a)
        <5>1. u \in {<<>>, <<Plain("Start")>>}
          OBVIOUS
        <5> HIDE DEF u
        <5> QED BY <3>1, <5>1, ChunkItems DEF x
      <4> HIDE DEF items
      <4> QED BY <2>2, <3>5, <4>1, <4>2
    <3> QED BY <3>3, <3>4, <3>5 DEF ScriptOK
  <2>4. Reached(script, i, a, tr')
    <3> DEFINE t == tr'
    <3>1. t.calls = tr.calls /\ t.callId = tr.callId /\ t.toolName = tr.toolName
      BY <2>3
    <3> HIDE DEF t
    <3>2. Reached(script, i, a, t)
      BY <3>1, ReachedLike
    <3> QED BY <3>2 DEF t
  <2>5. ~(TRUE /\ i + 1 < Len(Events(script)))
    BY <1>1, <2>1
  <2> QED BY <2>3, <2>4, <2>5, Zenon DEF Answered
<1>4. \/ i < Len(w) /\ e = w[i + 1]
      \/ err < Len(w) /\ i = err /\ e = Sent("error", 0, <<>>)
  <2>1. CASE err >= Len(w)
    BY <1>1, <2>1
  <2>2. CASE err < Len(w) /\ i < err
    <3>1. i + 1 \in 1 .. err /\ i < Len(w)
      BY <1>1, <2>2
    <3> QED BY <1>1, <2>2, <3>1
  <2>3. CASE err < Len(w) /\ i >= err
    <3>1. i = err
      BY <1>1, <2>3
    <3> QED BY <1>1, <2>3, <3>1
  <2> QED BY <1>1, <2>1, <2>2, <2>3
<1> QED BY <1>2, <1>3, <1>4

\* ... with a payload cut short: OpenAI's ends of an answer and of a call need none.
LEMMA GarbledAnswered ==
  ASSUME ScriptOK(script), tr \in Translator, NEW i \in 0 .. Len(Events(script)) - 1, NEW a,
         Reached(script, i, a, tr), NEW e, e = Events(script)[i + 1],
         Translate([etype |-> TypeOf(script, e), data |-> <<Garbled>>])
  PROVE  Answered(script, i, queue', a, tr', FALSE)
<1> DEFINE no == FALSE
<1>0. e # Garbled /\ e.type # "garbled"
  <2>1. Events(script) \in Seq(SseEvent) /\ i + 1 \in 1 .. Len(Events(script))
    BY EventsTyped, LenProperties
  <2>2. e \in SseEvent
    BY <2>1, ElementOfSeq
  <2> QED BY <2>2, NotGarbled
<1>1. /\ script.provider = "anthropic" =>
           queue' = AnthropicItems(Garbled) /\ tr' = AnthropicState(Garbled)
      /\ script.provider = "openai" =>
           queue' = OpenAiItems(e.type, Garbled) /\ tr' = OpenAiState(e.type, Garbled)
      /\ script.provider = "gemini" =>
           /\ queue' = GeminiItems(Garbled)
           /\ tr' \in Translator
           /\ tr'.calls = tr.calls /\ tr'.callId = tr.callId /\ tr'.toolName = tr.toolName
  <2>1. script.provider = "openai" => TypeOf(script, e) = e.type
    BY DEF TypeOf
  <2> QED BY <2>1, Turned
<1>2. CASE script.provider = "openai" /\ e.type \in {"completed", "output_item.done", "error"}
  <2>1. /\ OpenAiItems(e.type, Garbled) = OpenAiItems(e.type, e)
        /\ OpenAiState(e.type, Garbled) = OpenAiState(e.type, e)
    BY <1>2 DEF OpenAiItems, OpenAiState
  <2>2. Translate([etype |-> TypeOf(script, e), data |-> <<e>>])
    <3> DEFINE event == [etype |-> TypeOf(script, e), data |-> <<e>>]
    <3>1. event.etype = e.type /\ Payload(event) = e
      BY <1>2 DEF Payload, TypeOf
    <3> HIDE DEF event
    <3>2. Translate(event)
      BY <1>1, <1>2, <2>1, <3>1 DEF Translate
    <3> QED BY <3>2 DEF event
  <2>3. Answered(script, i, queue', a, tr', TRUE)
    BY <2>2, WholeAnswered, Zenon
  <2> QED BY <2>3, Zenon DEF Answered
<1>3. CASE ~(script.provider = "openai" /\ e.type \in {"completed", "output_item.done", "error"})
  <2> DEFINE x == Plain("Err")
  <2>1. <<x>> \in Seq(StreamItem) /\ Owes(<<x>>, a, a) /\ <<>> \in Seq(StreamItem) /\ Owes(<<>>, a, a)
    <3>1. x \in StreamItem /\ Idle(x)
      BY PlainKnown DEF ItemType
    <3> QED BY <3>1, FewOwed, Joined, EmptySeq
  <2>2. Garbled.type = "garbled"
    BY DEF Garbled, Sent
  <2>3. /\ queue' \in {<<>>, <<x>>}
        /\ tr' \in Translator
        /\ tr'.calls = tr.calls /\ tr'.callId = tr.callId /\ tr'.toolName = tr.toolName
    <3>1. CASE script.provider = "anthropic"
      BY <1>1, <2>2, <3>1 DEF AnthropicItems, AnthropicState
    <3>2. CASE script.provider = "openai"
      BY <1>1, <1>3, <3>2 DEF OpenAiItems, OpenAiState
    <3>3. CASE script.provider = "gemini"
      BY <1>1, <3>3 DEF GeminiItems
    <3> QED BY <3>1, <3>2, <3>3 DEF ScriptOK
  <2>4. Reached(script, i, a, tr')
    <3> DEFINE t == tr'
    <3>1. t.calls = tr.calls /\ t.callId = tr.callId /\ t.toolName = tr.toolName
      BY <2>3
    <3> HIDE DEF t
    <3>2. Reached(script, i, a, t)
      BY <3>1, ReachedLike
    <3> QED BY <3>2 DEF t
  <2>5. queue' \in Seq(StreamItem) /\ Owes(queue', a, a)
    <3> HIDE DEF x
    <3> QED BY <2>1, <2>3
  <2> QED BY <2>3, <2>4, <2>5, Zenon DEF Answered
<1> QED BY <1>2, <1>3

(* --------------------------- the invariant ------------------------------ *)

\* Nothing has been sent yet.
LEMMA Start ==
  ASSUME NEW s, ScriptOK(s), NEW t, Between(t)
  PROVE  Reached(s, 0, AccDone(s, 0, FALSE), t)
<1>1. CASE s.provider = "gemini"
  <2>1. SentWith(s, 0) = Len(Opening(s)) /\ Opening(s) = <<>>
    BY <1>1, PartsTyped, WholeAt
  <2>2. SentWith(s, 0) = 0
    BY <2>1
  <2>3. 0 \in 0 .. Len(s.answer)
    BY LenProperties DEF ScriptOK
  <2>4. Reached(s, SentWith(s, 0), AccDone(s, 0, FALSE), t)
    BY <2>3, Arrive, Zenon
  <2> QED BY <2>2, <2>4, Zenon
<1>2. CASE s.provider # "gemini"
  BY <1>2, Zenon DEF Reached
<1> QED BY <1>1, <1>2

\* The stream event at the head of the queue is used, and the others come to the rest.
LEMMA HeadTaken ==
  ASSUME NEW q \in Seq(StreamItem), q # <<>>, NEW a, NEW b, Owes(q, a, b)
  PROVE  Owes(Tail(q), Take(a, Head(q)), b) /\ Take(a, Head(q)) \in {a, b}
<1>1. /\ Len(q) \in Nat \ {0} /\ DOMAIN q = 1 .. Len(q)
      /\ DOMAIN Tail(q) = 1 .. Len(q) - 1
      /\ \A j \in 1 .. Len(q) - 1 : Tail(q)[j] = q[j + 1]
      /\ Head(q) = q[1]
  OBVIOUS
<1>2. CASE b = a /\ \A j \in DOMAIN q : Idle(q[j])
  <2>1. Take(a, Head(q)) = a
    <3>1. Idle(q[1])
      BY <1>1, <1>2
    <3> QED BY <1>1, <3>1, IdleTaken
  <2>2. \A j \in DOMAIN Tail(q) : Idle(Tail(q)[j])
    BY <1>1, <1>2
  <2> QED BY <1>2, <2>1, <2>2 DEF Owes
<1>3. CASE \E j \in DOMAIN q : b = Take(a, q[j]) /\ \A k \in DOMAIN q \ {j} : Idle(q[k])
  <2>1. PICK j \in DOMAIN q : b = Take(a, q[j]) /\ \A k \in DOMAIN q \ {j} : Idle(q[k])
    BY <1>3
  <2>2. CASE j = 1
    <3>1. Take(a, Head(q)) = b
      BY <1>1, <2>1, <2>2
    <3>2. \A k \in DOMAIN Tail(q) : Idle(Tail(q)[k])
      BY <1>1, <2>1, <2>2
    <3> QED BY <3>1, <3>2 DEF Owes
  <2>3. CASE j # 1
    <3>1. Take(a, Head(q)) = a
      <4>1. Idle(q[1])
        BY <1>1, <2>1, <2>3
      <4> QED BY <1>1, <4>1, IdleTaken
    <3>2. j - 1 \in DOMAIN Tail(q) /\ Tail(q)[j - 1] = q[j]
      BY <1>1, <2>3
    <3>3. \A k \in DOMAIN Tail(q) \ {j - 1} : Idle(Tail(q)[k])
      <4> TAKE k \in DOMAIN Tail(q) \ {j - 1}
      <4>1. Tail(q)[k] = q[k + 1] /\ k + 1 \in DOMAIN q \ {j}
        BY <1>1, <2>3
      <4> QED BY <2>1, <4>1
    <3> QED BY <2>1, <3>1, <3>2, <3>3 DEF Owes
  <2> QED BY <2>2, <2>3
<1> QED BY <1>2, <1>3 DEF Owes

\* When the queue is used the accumulator and the translator are at the place in the script
\* the parser is at, as long as more is to come.
Waits(s, left, event, a, t) ==
  \E i : ParserAt(s, left, event, i) /\ (i < Len(Events(s)) => Reached(s, i, a, t))

\* What the queue makes of an accumulator: that place; over says no more is to come.
Handed(s, left, event, q, a, t, over) ==
  \E b : /\ Owes(q, a, b)
         /\ \E r : Reached(s, r, b, t)
         /\ over \/ Waits(s, left, event, b, t)

Over == net = "eof" /\ byteBuf = <<>> /\ sse = NewEvent

\* The inductive invariant of a stream.
StreamInv ==
  /\ BytesTyped
  /\ net \in {"open", "eof", "broken"}
  /\ result \in {"running", "Ok", "Err"}
  /\ open \in BOOLEAN
  /\ queue \in Seq(StreamItem)
  /\ tr \in Translator
  /\ \E r, t : Reached(script, r, acc, t)
  /\ Handed(script, Ahead, sse, queue, acc, tr, Over)

\* Before the first byte everything is still to come.
LEMMA StreamInvInit == Init => StreamInv
<1> SUFFICES ASSUME Init PROVE StreamInv
  OBVIOUS
<1> USE DEF Init
<1>1. BytesTyped
  <2>1. script \in Scripts /\ ScriptOK(script)
    BY StreamAssumption
  <2>2. AllBytes[script] = Bytes(script)
    BY <2>1 DEF AllBytes
  <2>3. Bytes(script) \in Seq(Byte)
    <3>1. 0 \in 0 .. Len(Events(script))
      BY <2>1, EventsTyped, LenProperties
    <3> QED BY <2>1, <3>1, NextDue
  <2> QED BY <2>1, <2>2, <2>3, EmptySeq DEF BytesTyped
<1>2. ScriptOK(script) /\ AllBytes[script] = Bytes(script) /\ AllBytes[script] \in Seq(Byte)
  BY <1>1, ScriptKnown
<1>3. Ahead = After(script, 0)
  <2> DEFINE all == AllBytes[script]
  <2>1. all \in Seq(Byte)
    BY <1>2
  <2>2. all = After(script, 0)
    BY <1>2, NextDue
  <2>3. Ahead = <<>> \o SubSeq(all, 0 + 1, Len(all))
    BY DEF Ahead, ToCome
  <2> HIDE DEF all
  <2>4. SubSeq(all, 0 + 1, Len(all)) = all
    BY <2>1
  <2> QED BY <2>1, <2>2, <2>3, <2>4, ConcatEmptySeq
<1>4. ParserAt(script, Ahead, sse, 0)
  <2>1. 0 \in 0 .. Len(Events(script))
    BY <1>2, EventsTyped, LenProperties
  <2>2. sse = NewEvent
    OBVIOUS
  <2> QED BY <1>2, <1>3, <2>1, <2>2, BetweenEvents
<1>5. Between(tr) /\ tr \in Translator
  BY DEF Between, Translator
<1>6. acc = AccDone(script, 0, FALSE)
  <2>1. /\ Upto(Wanted(script, "text"), 0) = <<>> /\ Upto(Wanted(script, "thinking"), 0) = <<>>
        /\ Upto(WantedCalls(script), 0) = <<>>
    BY <1>2, WantedTyped, UptoStep
  <2> QED BY <2>1 DEF AccDone, Acc
<1>7. Reached(script, 0, acc, tr)
  BY <1>2, <1>5, <1>6, Start, Zenon
<1>8. Owes(queue, acc, acc)
  BY DEF Owes
<1>9. Waits(script, Ahead, sse, acc, tr)
  BY <1>4, <1>7, Zenon DEF Waits
<1>10. Handed(script, Ahead, sse, queue, acc, tr, Over)
  BY <1>7, <1>8, <1>9, Zenon DEF Handed
<1>11. queue \in Seq(StreamItem)
  BY EmptySeq
<1>12. \E r, t : Reached(script, r, acc, t)
  BY <1>7, Zenon
<1> QED BY <1>1, <1>5, <1>10, <1>11, <1>12 DEF StreamInv

\* The parser has nothing in its queue and something to read.
LEMMA Reads ==
  ASSUME StreamInv, Polled, ~Over
  PROVE  \E i : /\ ParserAt(script, Ahead, sse, i)
                /\ i < Len(Events(script)) => Reached(script, i, acc, tr)
<1>1. PICK a : Owes(queue, acc, a) /\ (Over \/ Waits(script, Ahead, sse, a, tr))
  BY Zenon DEF StreamInv, Handed
<1>2. a = acc
  <2>1. DOMAIN queue = {}
    BY DEF Polled
  <2> QED BY <1>1, <2>1 DEF Owes
<1> QED BY <1>1, <1>2, Zenon DEF Waits

\* Every step of the parser, the translator or the consumer moves the script's place with it.
LEMMA StreamInvStep == StreamInv /\ [Next]_vars => StreamInv'
<1> SUFFICES ASSUME StreamInv, [Next]_vars PROVE StreamInv'
  OBVIOUS
<1>0. /\ BytesTyped
      /\ net \in {"open", "eof", "broken"}
      /\ result \in {"running", "Ok", "Err"}
      /\ open \in BOOLEAN
      /\ queue \in Seq(StreamItem)
      /\ tr \in Translator
      /\ \E r, t : Reached(script, r, acc, t)
      /\ Handed(script, Ahead, sse, queue, acc, tr, Over)
      /\ ScriptOK(script)
  BY ScriptKnown DEF StreamInv
<1>1. CASE Chunk
  <2>1. UNCHANGED <<script, mode, net, sse, tr, queue, acc, result, open>>
    BY <1>1 DEF Chunk, readerVars
  <2>2. byteBuf' \in Seq(Byte) /\ pos' \in 0 .. Len(AllBytes[script]) /\ Ahead' = Ahead
    BY <1>0, <1>1, ChunkParsed
  <2>3. BytesTyped'
    BY <1>0, <2>1, <2>2 DEF BytesTyped
  <2>4. ~Over
    BY <1>1 DEF Chunk, Over
  <2>5. Handed(script', Ahead', sse', queue', acc', tr', Over')
    BY <1>0, <2>1, <2>2, <2>4, Zenon DEF Handed
  <2> QED BY <1>0, <2>1, <2>3, <2>5 DEF StreamInv
<1>2. CASE Line
  <2>1. UNCHANGED <<script, mode, pos, net, acc, result, open>>
    BY <1>2 DEF Line, netVars, readerVars
  <2>2. Polled /\ HasLine
    BY <1>2 DEF Line
  <2>3. ~Over
    <3>1. byteBuf # <<>>
      BY <2>2 DEF HasLine
    <3> QED BY <3>1 DEF Over
  <2>4. PICK i : /\ ParserAt(script, Ahead, sse, i)
                 /\ i < Len(Events(script)) => Reached(script, i, acc, tr)
    BY <2>2, <2>3, Reads
  <2> DEFINE e == Events(script)[i + 1]
  <2>5. /\ byteBuf' \in Seq(Byte)
        /\ \/ UNCHANGED <<tr, queue>> /\ ParserAt(script, Ahead', sse', i)
           \/ /\ i \in 0 .. Len(Events(script)) - 1
              /\ sse = [etype |-> TypeOf(script, e), data |-> <<e>>]
              /\ Translate(sse)
              /\ ParserAt(script, Ahead', sse', i + 1)
    BY <1>0, <1>2, <2>4, LineParsed
  <2>6. BytesTyped'
    BY <1>0, <2>1, <2>5 DEF BytesTyped
  <2>7. CASE UNCHANGED <<tr, queue>> /\ ParserAt(script, Ahead', sse', i)
    <3>1. PICK a : Owes(queue, acc, a) /\ \E r : Reached(script, r, a, tr)
      BY <1>0, Zenon DEF Handed
    <3>2. a = acc
      <4>1. DOMAIN queue = {}
        BY <2>2 DEF Polled
      <4> QED BY <3>1, <4>1 DEF Owes
    <3>3. Waits(script, Ahead', sse', acc, tr)
      BY <2>4, <2>7, Zenon DEF Waits
    <3>4. Handed(script', Ahead', sse', queue', acc', tr', Over')
      BY <2>1, <2>7, <3>1, <3>2, <3>3, Zenon DEF Handed
    <3> QED BY <1>0, <2>1, <2>6, <2>7, <3>4 DEF StreamInv
  <2>8. CASE /\ i \in 0 .. Len(Events(script)) - 1
             /\ sse = [etype |-> TypeOf(script, e), data |-> <<e>>]
             /\ Translate(sse)
             /\ ParserAt(script, Ahead', sse', i + 1)
    <3>1. Reached(script, i, acc, tr)
      <4>1. Len(Events(script)) \in Nat
        BY <1>0, EventsTyped, LenProperties
      <4> QED BY <2>4, <2>8, <4>1
    <3>2. Answered(script, i, queue', acc, tr', TRUE)
      <4>1. Translate([etype |-> TypeOf(script, e), data |-> <<e>>])
        <5>1. \A event : event = sse /\ Translate(sse) => Translate(event)
          BY DEF Translate
        <5> QED BY <2>8, <5>1
      <4> QED BY <1>0, <2>8, <3>1, <4>1, WholeAnswered, Zenon
    <3>3. PICK b : /\ Owes(queue', acc, b)
                   /\ \E r : Reached(script, r, b, tr')
                   /\ i + 1 < Len(Events(script)) => Reached(script, i + 1, b, tr')
      BY <3>2, Zenon DEF Answered
    <3>4. Waits(script, Ahead', sse', b, tr')
      BY <2>8, <3>3, Zenon DEF Waits
    <3>5. Handed(script', Ahead', sse', queue', acc', tr', Over')
      BY <2>1, <3>3, <3>4, Zenon DEF Handed
    <3>6. queue' \in Seq(StreamItem) /\ tr' \in Translator
      BY <3>2, Zenon DEF Answered
    <3> QED BY <1>0, <2>1, <2>6, <3>5, <3>6 DEF StreamInv
  <2> QED BY <2>5, <2>7, <2>8
<1>3. CASE Eof
  <2>1. UNCHANGED <<script, mode, pos, acc, result, open>>
    BY <1>3 DEF Eof, readerVars
  <2>2. Polled /\ net = "open" /\ ~HasLine /\ Over' /\ net' = "eof" /\ byteBuf' = <<>>
    BY <1>3 DEF Eof, Over
  <2>3. BytesTyped'
    BY <1>0, <2>1, <2>2, EmptySeq DEF BytesTyped
  <2>4. PICK i : /\ ParserAt(script, Ahead, sse, i)
                 /\ i < Len(Events(script)) => Reached(script, i, acc, tr)
    <3>1. ~Over
      BY <2>2 DEF Over
    <3> QED BY <2>2, <3>1, Reads
  <2> DEFINE event == IF byteBuf = <<>> THEN sse ELSE WithField(Decoded(byteBuf))
             e == Events(script)[i + 1]
  <2>5. IF event.data # <<>> THEN Translate(event) ELSE UNCHANGED <<tr, queue>>
    BY <1>3 DEF Eof
  <2>6. \/ event.data = <<>>
        \/ /\ i \in 0 .. Len(Events(script)) - 1
           /\ \E d \in {e, Garbled} : event = [etype |-> TypeOf(script, e), data |-> <<d>>]
    BY <1>0, <2>2, <2>4, EndParsed
  <2> HIDE DEF event
  <2>7. CASE event.data = <<>>
    <3>1. UNCHANGED <<tr, queue>>
      BY <2>5, <2>7
    <3>2. Handed(script', Ahead', sse', queue', acc', tr', Over')
      BY <1>0, <2>1, <2>2, <3>1, Zenon DEF Handed
    <3> QED BY <1>0, <2>1, <2>2, <2>3, <3>1, <3>2 DEF StreamInv
  <2>8. CASE event.data # <<>>
    <3>1. PICK d \in {e, Garbled} : event = [etype |-> TypeOf(script, e), data |-> <<d>>]
      BY <2>6, <2>8
    <3>2. i \in 0 .. Len(Events(script)) - 1
      BY <2>6, <2>8
    <3>3. Reached(script, i, acc, tr)
      <4>1. Len(Events(script)) \in Nat
        BY <1>0, EventsTyped, LenProperties
      <4> QED BY <2>4, <3>2, <4>1
    <3>4. Translate([etype |-> TypeOf(script, e), data |-> <<d>>])
      BY <2>5, <2>8, <3>1, Zenon
    <3>5. \E whole : Answered(script, i, queue', acc, tr', whole)
      <4>1. CASE d = e
        BY <1>0, <3>2, <3>3, <3>4, <4>1, WholeAnswered, Zenon
      <4>2. CASE d = Garbled
        BY <1>0, <3>2, <3>3, <3>4, <4>2, GarbledAnswered, Zenon
      <4> QED BY <3>1, <4>1, <4>2
    <3>6. PICK b : Owes(queue', acc, b) /\ \E r : Reached(script, r, b, tr')
      BY <3>5, Zenon DEF Answered
    <3>7. queue' \in Seq(StreamItem) /\ tr' \in Translator
      BY <3>5, Zenon DEF Answered
    <3>8. Handed(script', Ahead', sse', queue', acc', tr', Over')
      BY <2>1, <2>2, <3>6, Zenon DEF Handed
    <3> QED BY <1>0, <2>1, <2>2, <2>3, <3>7, <3>8 DEF StreamInv
  <2> QED BY <2>7, <2>8
<1>4. CASE Breaks
  <2>1. UNCHANGED <<script, mode, pos, byteBuf, sse, tr, acc, result, open>>
    BY <1>4 DEF Breaks, parserVars, readerVars
  <2>2. /\ Polled /\ net = "open" /\ ~Over
        /\ net' = "broken" /\ queue' = <<Plain("Err")>>
    BY <1>4 DEF Breaks, Over
  <2>3. Ahead' = Ahead /\ BytesTyped'
    BY <1>0, <2>1 DEF Ahead, ToCome, BytesTyped
  <2>4. queue' \in Seq(StreamItem) /\ Owes(queue', acc, acc)
    <3> DEFINE x == Plain("Err")
    <3>1. x \in StreamItem /\ Idle(x)
      BY PlainKnown DEF ItemType
    <3>2. <<x>> \in Seq(StreamItem) /\ Owes(<<x>>, acc, acc)
      BY <3>1, FewOwed, Joined
    <3> QED BY <2>2, <3>2
  <2>5. PICK a : Owes(queue, acc, a) /\ \E r : Reached(script, r, a, tr)
    BY <1>0, Zenon DEF Handed
  <2>6. a = acc
    <3>1. DOMAIN queue = {}
      BY <2>2 DEF Polled
    <3> QED BY <2>5, <3>1 DEF Owes
  <2>7. Waits(script, Ahead, sse, acc, tr)
    BY <2>2, Reads, Zenon DEF Waits
  <2>8. Handed(script', Ahead', sse', queue', acc', tr', Over')
    BY <2>1, <2>3, <2>4, <2>5, <2>6, <2>7, Zenon DEF Handed
  <2> QED BY <1>0, <2>1, <2>2, <2>3, <2>4, <2>8 DEF StreamInv
<1>5. CASE Consume
  <2>1. UNCHANGED <<script, pos, net, byteBuf, sse, tr, result, open>>
    BY <1>5 DEF Consume, netVars, parserVars
  <2>2. queue # <<>> /\ queue' = Tail(queue) /\ acc' = Take(acc, Head(queue))
    BY <1>5, ProcessedIsTake DEF Consume
  <2>3. Ahead' = Ahead /\ BytesTyped' /\ Over' = Over
    BY <1>0, <2>1 DEF Ahead, ToCome, BytesTyped, Over
  <2>4. PICK a : /\ Owes(queue, acc, a)
                 /\ \E r : Reached(script, r, a, tr)
                 /\ Over \/ Waits(script, Ahead, sse, a, tr)
    BY <1>0, Zenon DEF Handed
  <2>5. Owes(queue', acc', a) /\ acc' \in {acc, a}
    BY <1>0, <2>2, <2>4, HeadTaken
  <2>6. Handed(script', Ahead', sse', queue', acc', tr', Over')
    BY <2>1, <2>3, <2>4, <2>5, Zenon DEF Handed
  <2>7. \E r, t : Reached(script', r, acc', t)
    BY <1>0, <2>1, <2>4, <2>5
  <2>8. queue' \in Seq(StreamItem)
    BY <1>0, <2>2
  <2> QED BY <1>0, <2>1, <2>3, <2>6, <2>7, <2>8 DEF StreamInv
<1>6. CASE Fail \/ Finish \/ Receive \/ DropReceiver \/ UNCHANGED vars
  <2>1. UNCHANGED <<script, pos, net, byteBuf, sse, tr, queue, acc>>
    BY <1>6 DEF Fail, Finish, Receive, DropReceiver, vars, netVars, parserVars
  <2>2. result' \in {"running", "Ok", "Err"} /\ open' \in BOOLEAN
    BY <1>0, <1>6 DEF Fail, Finish, Receive, DropReceiver, vars, readerVars
  <2>3. Ahead' = Ahead /\ BytesTyped' /\ Over' = Over
    BY <1>0, <2>1 DEF Ahead, ToCome, BytesTyped, Over
  <2>4. Handed(script', Ahead', sse', queue', acc', tr', Over')
    BY <1>0, <2>1, <2>3, Zenon
  <2> QED BY <1>0, <2>1, <2>2, <2>3, <2>4 DEF StreamInv
<1> QED BY <1>1, <1>2, <1>3, <1>4, <1>5, <1>6 DEF Next, Network, Consumer

(* ------------------------------- the results ---------------------------- *)

\* Prefixes, element by element; they are an order.
LEMMA PrefixKnown ==
  ASSUME NEW S
  PROVE  /\ \A x, y \in Seq(S) :
              IsPrefix(x, y) <=> Len(x) <= Len(y) /\ \A i \in 1 .. Len(x) : x[i] = y[i]
         /\ \A x \in Seq(S) : IsPrefix(x, x) /\ IsPrefix(<<>>, x)
         /\ \A x, y \in Seq(S) : IsPrefix(x, x \o y)
         /\ \A x, y, z \in Seq(S) : IsPrefix(x, y) /\ IsPrefix(y, z) => IsPrefix(x, z)
<1>1. ASSUME NEW x \in Seq(S), NEW y \in Seq(S)
      PROVE  IsPrefix(x, y) <=> Len(x) <= Len(y) /\ \A i \in 1 .. Len(x) : x[i] = y[i]
  <2>1. ASSUME Len(x) <= Len(y)
        PROVE  SubSeq(x, 1, Len(x)) = SubSeq(y, 1, Len(x)) <=> \A i \in 1 .. Len(x) : x[i] = y[i]
    <3>1. /\ Len(SubSeq(x, 1, Len(x))) = Len(x) /\ Len(SubSeq(y, 1, Len(x))) = Len(x)
          /\ \A i \in 1 .. Len(x) : SubSeq(x, 1, Len(x))[i] = x[i] /\ SubSeq(y, 1, Len(x))[i] = y[i]
          /\ SubSeq(x, 1, Len(x)) \in Seq(S) /\ SubSeq(y, 1, Len(x)) \in Seq(S)
      BY <2>1
    <3> DEFINE p == SubSeq(x, 1, Len(x))
               q == SubSeq(y, 1, Len(x))
    <3> HIDE DEF p, q
    <3>2. (\A i \in 1 .. Len(x) : x[i] = y[i]) => p = q
      <4>1. ASSUME \A i \in 1 .. Len(x) : x[i] = y[i] PROVE p = q
        <5>1. \A i \in 1 .. Len(p) : p[i] = q[i]
          BY <3>1, <4>1 DEF p, q
        <5>2. p \in Seq(S) /\ q \in Seq(S) /\ Len(p) = Len(q)
          BY <3>1 DEF p, q
        <5> QED BY <5>1, <5>2, SeqEqual
      <4> QED BY <4>1
    <3>3. p = q => \A i \in 1 .. Len(x) : x[i] = y[i]
      <4>1. \A i \in 1 .. Len(x) : p[i] = x[i] /\ q[i] = y[i]
        BY <3>1 DEF p, q
      <4> QED BY <4>1
    <3> QED BY <3>2, <3>3 DEF p, q
  <2> QED BY <2>1, Zenon DEF IsPrefix
<1>2. ASSUME NEW x \in Seq(S) PROVE IsPrefix(x, x) /\ IsPrefix(<<>>, x)
  <2>1. IsPrefix(x, x)
    <3>1. Len(x) <= Len(x) /\ \A i \in 1 .. Len(x) : x[i] = x[i]
      BY LenProperties
    <3> QED BY <1>1, <3>1
  <2>2. IsPrefix(<<>>, x)
    <3> DEFINE e == <<>>
    <3>1. e \in Seq(S) /\ Len(e) = 0 /\ Len(x) \in Nat
      BY EmptySeq
    <3> HIDE DEF e
    <3>2. Len(e) <= Len(x) /\ \A i \in 1 .. Len(e) : e[i] = x[i]
      BY <3>1
    <3>3. IsPrefix(e, x)
      BY <1>1, <3>1, <3>2
    <3> QED BY <3>3 DEF e
  <2> QED BY <2>1, <2>2
<1>3. ASSUME NEW x \in Seq(S), NEW y \in Seq(S) PROVE IsPrefix(x, x \o y)
  <2>1. /\ x \o y \in Seq(S) /\ Len(x) <= Len(x \o y)
        /\ \A i \in 1 .. Len(x) : (x \o y)[i] = x[i]
    BY ConcatProperties
  <2> QED BY <1>1, <2>1
<1>4. ASSUME NEW x \in Seq(S), NEW y \in Seq(S), NEW z \in Seq(S), IsPrefix(x, y), IsPrefix(y, z)
      PROVE  IsPrefix(x, z)
  <2>1. /\ Len(x) <= Len(y) /\ \A i \in 1 .. Len(x) : x[i] = y[i]
        /\ Len(y) <= Len(z) /\ \A i \in 1 .. Len(y) : y[i] = z[i]
    BY <1>1, <1>4
  <2>2. Len(x) <= Len(z) /\ \A i \in 1 .. Len(x) : x[i] = z[i]
    BY <2>1
  <2> QED BY <1>1, <2>2
<1> QED BY <1>1, <1>2, <1>3, <1>4

\* The first pieces of a block are a prefix of all of them.
LEMMA PiecesPrefix ==
  ASSUME NEW b \in Nat, NEW n \in Nat, NEW k \in 0 .. n
  PROVE  IsPrefix(Pieces(b, k), Pieces(b, n))
<1>0. k \in Nat /\ k <= n
  OBVIOUS
<1> DEFINE p == Pieces(b, k)
           q == Pieces(b, n)
<1>1. p \in Seq(Piece) /\ Len(p) = k /\ \A j \in 1 .. k : p[j] = <<b, j>>
  BY <1>0, PiecesTyped DEF Pieces
<1>2. q \in Seq(Piece) /\ Len(q) = n /\ \A j \in 1 .. n : q[j] = <<b, j>>
  BY PiecesTyped DEF Pieces
<1> HIDE DEF p, q
<1>3. Len(p) <= Len(q) /\ \A j \in 1 .. Len(p) : p[j] = q[j]
  <2>1. Len(p) <= Len(q)
    BY <1>0, <1>1, <1>2
  <2>2. ASSUME NEW j \in 1 .. Len(p) PROVE p[j] = q[j]
    <3>1. j \in 1 .. k /\ j \in 1 .. n
      BY <1>0, <1>1, <2>2
    <3> QED BY <1>1, <1>2, <3>1
  <2> QED BY <2>1, <2>2
<1>4. IsPrefix(p, q)
  BY <1>1, <1>2, <1>3, PrefixKnown
<1> QED BY <1>4 DEF p, q

\* A prefix stays one behind the same beginning, whatever follows.
LEMMA PrefixBehind ==
  ASSUME NEW S, NEW u \in Seq(S), NEW x \in Seq(S), NEW y \in Seq(S), NEW z \in Seq(S),
         IsPrefix(x, y)
  PROVE  IsPrefix(u \o x, u \o (y \o z))
<1>1. Len(x) <= Len(y) /\ \A i \in 1 .. Len(x) : x[i] = y[i]
  BY PrefixKnown
<1> DEFINE w == y \o z
<1>2. w \in Seq(S) /\ Len(y) <= Len(w) /\ \A i \in 1 .. Len(y) : w[i] = y[i]
  BY ConcatProperties
<1>3. Len(x) \in Nat /\ Len(y) \in Nat /\ Len(u) \in Nat /\ Len(w) \in Nat
  BY <1>2
<1> HIDE DEF w
<1>4. /\ u \o x \in Seq(S) /\ Len(u \o x) = Len(u) + Len(x)
      /\ u \o w \in Seq(S) /\ Len(u \o w) = Len(u) + Len(w)
      /\ \A i \in 1 .. Len(u) + Len(x) :
           (u \o x)[i] = IF i <= Len(u) THEN u[i] ELSE x[i - Len(u)]
      /\ \A i \in 1 .. Len(u) + Len(w) :
           (u \o w)[i] = IF i <= Len(u) THEN u[i] ELSE w[i - Len(u)]
  BY <1>2, ConcatProperties
<1>5. ASSUME NEW i \in 1 .. Len(u) + Len(x) PROVE (u \o x)[i] = (u \o w)[i]
  <2>1. i \in 1 .. Len(u) + Len(w)
    BY <1>1, <1>2, <1>3
  <2>2. CASE i <= Len(u)
    BY <1>4, <2>1, <2>2
  <2>3. CASE ~(i <= Len(u))
    <3>1. i - Len(u) \in 1 .. Len(x) /\ i - Len(u) \in 1 .. Len(y)
      BY <1>1, <1>3, <2>3
    <3>2. x[i - Len(u)] = w[i - Len(u)]
      BY <1>1, <1>2, <3>1
    <3> QED BY <1>4, <2>1, <2>3, <3>2
  <2> QED BY <2>2, <2>3
<1>6. Len(u \o x) <= Len(u \o w)
  BY <1>1, <1>2, <1>3, <1>4
<1> DEFINE p == u \o x
           q == u \o w
<1>7. p \in Seq(S) /\ q \in Seq(S) /\ Len(p) <= Len(q) /\ \A i \in 1 .. Len(p) : p[i] = q[i]
  BY <1>4, <1>5, <1>6
<1> HIDE DEF p, q
<1>8. IsPrefix(p, q)
  BY <1>7, PrefixKnown
<1> QED BY <1>8 DEF p, q, w

\* What the calls of an accumulator are: all but the last whole, the last begun.
CallsInPlace(calls, whole) ==
  /\ Len(calls) <= Len(whole)
  /\ \A i \in DOMAIN calls :
       IF i = Len(calls) THEN BeginsCall(calls[i], whole[i]) ELSE calls[i] = whole[i]

\* Whole calls, and behind them one that is begun, are in place.
LEMMA CallsBegun ==
  ASSUME NEW v \in Seq(CallRecord), NEW after \in Seq(CallRecord),
         NEW c \in CallRecord, NEW d \in CallRecord, BeginsCall(c, d)
  PROVE  /\ CallsInPlace(v, v \o after)
         /\ CallsInPlace(Append(v, c), v \o (<<d>> \o after))
<1>1. \A e \in CallRecord : BeginsCall(e, e)
  <2>1. \A e \in CallRecord : e.arguments \in Seq(Piece)
    BY DEF CallRecord
  <2> QED BY <2>1, PrefixKnown DEF BeginsCall
<1>2. /\ Len(v) \in Nat /\ Len(after) \in Nat /\ DOMAIN v = 1 .. Len(v)
      /\ \A i \in 1 .. Len(v) : v[i] \in CallRecord
  OBVIOUS
<1>3. CallsInPlace(v, v \o after)
  <2> DEFINE w == v \o after
  <2>1. Len(w) = Len(v) + Len(after) /\ \A i \in 1 .. Len(v) : w[i] = v[i]
    BY ConcatProperties
  <2> HIDE DEF w
  <2>2. Len(v) <= Len(w)
    BY <1>2, <2>1
  <2>3. \A i \in 1 .. Len(v) : BeginsCall(v[i], w[i]) /\ v[i] = w[i]
    BY <1>1, <1>2, <2>1
  <2> QED BY <1>2, <2>2, <2>3 DEF CallsInPlace, w
<1>4. CallsInPlace(Append(v, c), v \o (<<d>> \o after))
  <2> DEFINE x == Append(v, c)
             y == <<d>> \o after
             w == v \o y
             l == Len(v) + 1
  <2>1. /\ Len(x) = l /\ DOMAIN x = 1 .. l /\ x[l] = c
        /\ \A i \in 1 .. Len(v) : x[i] = v[i]
    OBVIOUS
  <2>2. y \in Seq(CallRecord) /\ Len(y) = 1 + Len(after) /\ y[1] = d
    <3>1. <<d>> \in Seq(CallRecord) /\ Len(<<d>>) = 1 /\ <<d>>[1] = d
      OBVIOUS
    <3> DEFINE o == <<d>>
    <3> HIDE DEF o
    <3>2. /\ o \o after \in Seq(CallRecord) /\ Len(o \o after) = 1 + Len(after)
          /\ (o \o after)[1] = d
      BY <1>2, <3>1, ConcatProperties DEF o
    <3> QED BY <3>2 DEF o
  <2> HIDE DEF x, y
  <2>3. Len(w) = Len(v) + Len(y) /\ (\A i \in 1 .. Len(v) : w[i] = v[i]) /\ w[l] = d
    <3>0. /\ Len(v \o y) = Len(v) + Len(y)
          /\ \A i \in 1 .. Len(v) + Len(y) :
               (v \o y)[i] = IF i <= Len(v) THEN v[i] ELSE y[i - Len(v)]
      <4>1. v \in Seq(CallRecord) /\ y \in Seq(CallRecord)
        BY <2>2
      <4> QED BY <4>1, ConcatProperties
    <3> HIDE DEF w, l
    <3>1. Len(w) = Len(v) + Len(y) /\ \A i \in 1 .. Len(v) : w[i] = v[i]
      BY <1>2, <2>2, <3>0 DEF w
    <3>2. w[l] = y[l - Len(v)]
      <4>1. l \in 1 .. Len(v) + Len(y) /\ ~(l <= Len(v))
        BY <1>2, <2>2 DEF l
      <4> QED BY <3>0, <4>1 DEF w
    <3>3. l - Len(v) = 1
      BY <1>2 DEF l
    <3> QED BY <2>2, <3>1, <3>2, <3>3
  <2> HIDE DEF w
  <2>4. Len(x) <= Len(w)
    BY <1>2, <2>1, <2>2, <2>3
  <2>5. ASSUME NEW i \in 1 .. l
        PROVE  IF i = Len(x) THEN BeginsCall(x[i], w[i]) ELSE x[i] = w[i]
    <3>1. CASE i = l
      <4>1. BeginsCall(x[i], w[i])
        BY <2>1, <2>3, <3>1
      <4> QED BY <2>1, <3>1, <4>1
    <3>2. CASE i # l
      <4>1. i \in 1 .. Len(v)
        BY <1>2, <3>2
      <4> QED BY <2>1, <2>3, <3>2, <4>1
    <3> QED BY <3>1, <3>2
  <2> QED BY <2>1, <2>4, <2>5 DEF CallsInPlace, x, y, w
<1> QED BY <1>3, <1>4

\* What an accumulator holds at any place in a script.
InPlace(s, a) ==
  /\ a.text \in Seq(Piece) /\ a.thinking \in Seq(Piece)
  /\ IsPrefix(a.text, FlattenSeq(Wanted(s, "text")))
  /\ IsPrefix(a.thinking, FlattenSeq(Wanted(s, "thinking")))
  /\ CallsInPlace(a.calls, FlattenSeq(WantedCalls(s)))
  /\ a.finish => /\ a.text = FlattenSeq(Wanted(s, "text"))
                 /\ a.thinking = FlattenSeq(Wanted(s, "thinking"))
                 /\ a.calls = FlattenSeq(WantedCalls(s))

\* What is gathered of a block, behind the blocks before it, is in place ...
LEMMA WithInPlace ==
  ASSUME NEW s, ScriptOK(s), NEW b \in 1 .. Len(s.answer), NEW k \in 0 .. s.answer[b].pieces,
         NEW begun \in BOOLEAN
  PROVE  InPlace(s, AccWith(s, b, k, begun))
<1> DEFINE n == s.answer[b].pieces
           u(kind) == Upto(Wanted(s, kind), b - 1)
           v == Upto(WantedCalls(s), b - 1)
           no == FALSE
<1>1. /\ Len(s.answer) \in Nat /\ b - 1 \in 0 .. Len(s.answer) /\ b \in Nat
      /\ b \in DOMAIN s.answer
  BY LenProperties DEF ScriptOK
<1>2. n \in Nat /\ k \in Nat
  BY <1>1, BlockKnown
<1>3. ASSUME NEW kind
      PROVE  /\ u(kind) \o Part(s, kind, b, k) \in Seq(Piece)
             /\ IsPrefix(u(kind) \o Part(s, kind, b, k), FlattenSeq(Wanted(s, kind)))
  <2>1. /\ Wanted(s, kind) \in Seq(Seq(Piece)) /\ Len(Wanted(s, kind)) = Len(s.answer)
        /\ Wanted(s, kind)[b] = Part(s, kind, b, n)
    BY WantedTyped
  <2>2. u(kind) \in Seq(Piece)
    BY <1>1, <2>1, UptoStep
  <2>3. PICK after \in Seq(Piece) :
          FlattenSeq(Wanted(s, kind)) = u(kind) \o (Part(s, kind, b, n) \o after)
    <3> DEFINE w == Wanted(s, kind)
    <3>1. w \in Seq(Seq(Piece)) /\ Len(w) = Len(s.answer) /\ b \in 1 .. Len(w)
      BY <1>1, <2>1
    <3> HIDE DEF w
    <3>2. \E after \in Seq(Piece) : FlattenSeq(w) = Upto(w, b - 1) \o (w[b] \o after)
      BY <3>1, UptoStep
    <3> QED BY <2>1, <3>2, Zenon DEF w
  <2>4. /\ Part(s, kind, b, k) \in Seq(Piece) /\ Part(s, kind, b, n) \in Seq(Piece)
        /\ IsPrefix(Part(s, kind, b, k), Part(s, kind, b, n))
    <3>1. CASE s.answer[b].kind = kind
      <4>1. Part(s, kind, b, k) = Pieces(b, k) /\ Part(s, kind, b, n) = Pieces(b, n)
        BY <3>1 DEF Part
      <4>2. Pieces(b, k) \in Seq(Piece) /\ Pieces(b, n) \in Seq(Piece)
        BY <1>1, <1>2, PiecesTyped
      <4>3. IsPrefix(Pieces(b, k), Pieces(b, n))
        BY <1>1, <1>2, PiecesPrefix
      <4> QED BY <4>1, <4>2, <4>3
    <3>2. CASE s.answer[b].kind # kind
      <4>1. Part(s, kind, b, k) = <<>> /\ Part(s, kind, b, n) = <<>>
        BY <3>2 DEF Part
      <4>2. <<>> \in Seq(Piece)
        BY EmptySeq
      <4> QED BY <4>1, <4>2, PrefixKnown, ZenonT(40)
    <3> QED BY <3>1, <3>2
  <2> DEFINE x == Part(s, kind, b, k)
             y == Part(s, kind, b, n)
  <2> HIDE DEF u, x, y
  <2>5. u(kind) \o x \in Seq(Piece)
    BY <2>2, <2>4, ConcatProperties DEF x
  <2>6. IsPrefix(u(kind) \o x, u(kind) \o (y \o after))
    BY <2>2, <2>4, PrefixBehind DEF x, y
  <2> QED BY <2>3, <2>5, <2>6 DEF x, y
<1>4. CallsInPlace(v \o PartCall(s, b, k, begun), FlattenSeq(WantedCalls(s)))
  <2> DEFINE c == ACall(b, b, Pieces(b, k))
             d == ACall(b, b, Pieces(b, n))
  <2>1. /\ WantedCalls(s) \in Seq(Seq(CallRecord)) /\ Len(WantedCalls(s)) = Len(s.answer)
        /\ WantedCalls(s)[b] = PartCall(s, b, n, TRUE)
    BY WantedTyped
  <2>2. v \in Seq(CallRecord)
    BY <1>1, <2>1, UptoStep
  <2>3. PICK after \in Seq(CallRecord) :
          FlattenSeq(WantedCalls(s)) = v \o (PartCall(s, b, n, TRUE) \o after)
    <3> DEFINE w == WantedCalls(s)
    <3>1. w \in Seq(Seq(CallRecord)) /\ Len(w) = Len(s.answer) /\ b \in 1 .. Len(w)
      BY <1>1, <2>1
    <3> HIDE DEF w
    <3>2. \E after \in Seq(CallRecord) : FlattenSeq(w) = Upto(w, b - 1) \o (w[b] \o after)
      BY <3>1, UptoStep
    <3> QED BY <2>1, <3>2, Zenon DEF w
  <2>4. c \in CallRecord /\ d \in CallRecord /\ BeginsCall(c, d)
    <3>1. Pieces(b, k) \in Seq(Piece) /\ Pieces(b, n) \in Seq(Piece)
      BY <1>1, <1>2, PiecesTyped
    <3>2. IsPrefix(Pieces(b, k), Pieces(b, n))
      BY <1>1, <1>2, PiecesPrefix
    <3> QED BY <1>1, <3>1, <3>2 DEF ACall, CallRecord, BeginsCall
  <2> HIDE DEF c, d, v
  <2>5. CASE PartCall(s, b, k, begun) = <<>>
    <3>1. v \o PartCall(s, b, k, begun) = v
      BY <2>2, <2>5, ConcatEmptySeq
    <3>2. PartCall(s, b, n, TRUE) \o after \in Seq(CallRecord)
      <4>1. PartCall(s, b, n, TRUE) \in Seq(CallRecord)
        BY <2>1, ElementOfSeq
      <4> QED BY <4>1, ConcatProperties
    <3>3. CallsInPlace(v, v \o (PartCall(s, b, n, TRUE) \o after))
      BY <2>2, <2>4, <3>2, CallsBegun
    <3> QED BY <2>3, <3>1, <3>3
  <2>6. CASE PartCall(s, b, k, begun) # <<>>
    <3>1. PartCall(s, b, k, begun) = <<c>> /\ PartCall(s, b, n, TRUE) = <<d>>
      BY <2>6 DEF PartCall, c, d
    <3>2. v \o <<c>> = Append(v, c)
      BY <2>2, <2>4, AppendIsConcat
    <3>3. CallsInPlace(Append(v, c), v \o (<<d>> \o after))
      BY <2>2, <2>4, CallsBegun
    <3> QED BY <2>3, <3>1, <3>2, <3>3, Zenon
  <2> QED BY <2>5, <2>6
<1> DEFINE a == AccWith(s, b, k, begun)
<1>5. /\ a.text = u("text") \o Part(s, "text", b, k)
      /\ a.thinking = u("thinking") \o Part(s, "thinking", b, k)
      /\ a.calls = v \o PartCall(s, b, k, begun)
      /\ a.finish = no
  BY DEF AccWith, Acc
<1> HIDE DEF a, u, v
<1> QED BY <1>3, <1>4, <1>5 DEF InPlace, a

\* ... so is the whole answer, and so is nothing ...
LEMMA DoneInPlace ==
  ASSUME NEW s, ScriptOK(s), NEW finish \in BOOLEAN
  PROVE  InPlace(s, AccDone(s, Len(s.answer), finish)) /\ InPlace(s, AccDone(s, 0, FALSE))
<1>1. Len(s.answer) \in Nat
  BY LenProperties DEF ScriptOK
<1>2. ASSUME NEW kind
      PROVE  /\ Upto(Wanted(s, kind), 0) = <<>>
             /\ Upto(Wanted(s, kind), Len(s.answer)) = FlattenSeq(Wanted(s, kind))
             /\ FlattenSeq(Wanted(s, kind)) \in Seq(Piece)
             /\ <<>> \in Seq(Piece)
             /\ IsPrefix(<<>>, FlattenSeq(Wanted(s, kind)))
             /\ IsPrefix(FlattenSeq(Wanted(s, kind)), FlattenSeq(Wanted(s, kind)))
  <2>1. /\ Wanted(s, kind) \in Seq(Seq(Piece)) /\ Len(Wanted(s, kind)) = Len(s.answer)
    BY WantedTyped
  <2>2. FlattenSeq(Wanted(s, kind)) \in Seq(Piece)
    BY <2>1, FlattenBasics
  <2> QED BY <2>1, <2>2, UptoStep, EmptySeq, PrefixKnown
<1>3. /\ Upto(WantedCalls(s), 0) = <<>>
      /\ Upto(WantedCalls(s), Len(s.answer)) = FlattenSeq(WantedCalls(s))
      /\ CallsInPlace(<<>>, FlattenSeq(WantedCalls(s)))
      /\ CallsInPlace(FlattenSeq(WantedCalls(s)), FlattenSeq(WantedCalls(s)))
  <2>1. WantedCalls(s) \in Seq(Seq(CallRecord)) /\ Len(WantedCalls(s)) = Len(s.answer)
    BY WantedTyped
  <2> DEFINE w == FlattenSeq(WantedCalls(s))
  <2>2. w \in Seq(CallRecord) /\ <<>> \in Seq(CallRecord)
    BY <2>1, FlattenBasics, EmptySeq
  <2> HIDE DEF w
  <2>3. PICK c \in CallRecord : BeginsCall(c, c)
    <3> DEFINE c == ACall(0, 0, <<>>)
    <3>1. <<>> \in Seq(Piece)
      BY EmptySeq
    <3>2. IsPrefix(<<>>, <<>>)
      BY <3>1, PrefixKnown
    <3>3. c \in CallRecord /\ BeginsCall(c, c)
      BY <3>1, <3>2 DEF ACall, CallRecord, BeginsCall
    <3> QED BY <3>3
  <2>4. CallsInPlace(<<>>, <<>> \o w) /\ CallsInPlace(w, w \o <<>>)
    BY <2>2, <2>3, CallsBegun
  <2>5. <<>> \o w = w /\ w \o <<>> = w
    BY <2>2, ConcatEmptySeq
  <2> QED BY <2>1, <2>4, <2>5, UptoStep DEF w
<1>4. InPlace(s, AccDone(s, Len(s.answer), finish))
  <2> DEFINE a == AccDone(s, Len(s.answer), finish)
  <2>1. /\ a.text = FlattenSeq(Wanted(s, "text")) /\ a.thinking = FlattenSeq(Wanted(s, "thinking"))
        /\ a.calls = FlattenSeq(WantedCalls(s))
    BY <1>2, <1>3 DEF AccDone, Acc
  <2> HIDE DEF a
  <2> QED BY <1>2, <1>3, <2>1 DEF InPlace, a
<1>5. InPlace(s, AccDone(s, 0, FALSE))
  <2> DEFINE a == AccDone(s, 0, FALSE)
  <2>1. a.text = <<>> /\ a.thinking = <<>> /\ a.calls = <<>> /\ a.finish = FALSE
    BY <1>2, <1>3 DEF AccDone, Acc
  <2> HIDE DEF a
  <2> QED BY <1>2, <1>3, <2>1 DEF InPlace, a
<1> QED BY <1>4, <1>5

\* ... hence whatever is gathered at any place of the script.
LEMMA ReachedInPlace ==
  ASSUME NEW s, ScriptOK(s), NEW i, NEW a, NEW t, Reached(s, i, a, t)
  PROVE  InPlace(s, a)
<1>1. CASE \E b \in 1 .. Len(s.answer) :
       \E o \in 0 .. Len(BlockEvents(s, b)) - 1, k \in 0 .. s.answer[b].pieces, begun \in BOOLEAN :
         a = AccWith(s, b, k, begun)
  BY <1>1, WithInPlace, Zenon
<1>2. CASE \E finish \in BOOLEAN : a = AccDone(s, Len(s.answer), finish)
  BY <1>2, DoneInPlace, Zenon
<1>3. CASE a = AccDone(s, 0, FALSE)
  <2>1. \E finish : finish \in BOOLEAN
    OBVIOUS
  <2> QED BY <1>3, <2>1, DoneInPlace, Zenon
<1> QED BY <1>1, <1>2, <1>3, Zenon DEF Reached

\* What the properties of a stream call the answer is what the lemmas call it.
LEMMA AnswerNamed ==
  ASSUME ScriptOK(script)
  PROVE  /\ \A kind : PiecesOf(kind) = FlattenSeq(Wanted(script, kind))
         /\ CallsOf = FlattenSeq(WantedCalls(script))
<1>1. \A kind : PiecesOf(kind) = FlattenSeq(Wanted(script, kind))
  BY Zenon DEF PiecesOf, Wanted
<1>2. CallsOf = FlattenSeq(WantedCalls(script))
  BY Zenon DEF CallsOf, WantedCalls, WholeCall, ACall
<1> QED BY <1>1, <1>2

\* The pieces of a stream are in place wherever it stands.
LEMMA StreamInPlace == StreamInv => InPlace(script, acc) /\ PiecesInPlace
<1> SUFFICES ASSUME StreamInv PROVE InPlace(script, acc) /\ PiecesInPlace
  OBVIOUS
<1>1. ScriptOK(script)
  BY ScriptKnown DEF StreamInv
<1>2. InPlace(script, acc)
  BY <1>1, ReachedInPlace, Zenon DEF StreamInv
<1>3. /\ PiecesOf("text") = FlattenSeq(Wanted(script, "text"))
      /\ PiecesOf("thinking") = FlattenSeq(Wanted(script, "thinking"))
      /\ CallsOf = FlattenSeq(WantedCalls(script))
  BY <1>1, AnswerNamed
<1>4. PiecesInPlace
  BY <1>2, <1>3, Zenon DEF PiecesInPlace, InPlace, CallsInPlace
<1> QED BY <1>2, <1>4

\* What the translator remembers names blocks of the answer.
LEMMA TranslatorInPlace ==
  ASSUME NEW s, ScriptOK(s), NEW i, NEW a, NEW t, Reached(s, i, a, t)
  PROVE  t.calls \subseteq DOMAIN s.answer /\ t.callId \in {0} \cup DOMAIN s.answer
<1>1. DOMAIN s.answer = 1 .. Len(s.answer)
  BY LenProperties DEF ScriptOK
<1>2. CASE Between(t)
  BY <1>2 DEF Between
<1>3. CASE \E b \in 1 .. Len(s.answer) : \E o, k, begun : InBlock(s, b, o, k, begun, t)
  <2>1. PICK b \in 1 .. Len(s.answer) : \E o, k, begun : InBlock(s, b, o, k, begun, t)
    BY <1>3
  <2>2. b \in DOMAIN s.answer
    BY <1>1, <2>1
  <2>3. (t.calls = {} \/ t.calls = {b}) /\ (t.callId = 0 \/ t.callId = b)
    BY <2>1, Zenon DEF InBlock, Between
  <2> QED BY <2>2, <2>3
<1> QED BY <1>2, <1>3, Zenon DEF Reached

(* --------------------------- the partial objects ------------------------ *)

\* A message of the channel of partial objects.
Message == [text : Seq(Piece), complete : BOOLEAN]

\* The partial objects passed on while the text is `text': they grow up to it, and the
\* complete one, which ends the task, is the last.
Growing(all, text, over) ==
  /\ all \in Seq(Message)
  /\ \A i, k \in DOMAIN all : i < k => IsPrefix(all[i].text, all[k].text) /\ ~all[i].complete
  /\ \A i \in DOMAIN all : IsPrefix(all[i].text, text)
  /\ \A i \in DOMAIN all : all[i].complete => over

\* They grow with the text, and with one more of all the text there is.
LEMMA GrowsOn ==
  ASSUME NEW text \in Seq(Piece), NEW more \in Seq(Piece), IsPrefix(text, more),
         NEW all, Growing(all, text, FALSE),
         NEW complete \in BOOLEAN, NEW over \in BOOLEAN, complete => over
  PROVE  /\ Growing(all, more, over)
         /\ Growing(Append(all, [text |-> more, complete |-> complete]), more, over)
<1> DEFINE m == [text |-> more, complete |-> complete]
           n == Len(all)
           x == Append(all, m)
<1>1. /\ all \in Seq(Message) /\ n \in Nat /\ DOMAIN all = 1 .. n
      /\ \A i \in 1 .. n : /\ all[i] \in Message /\ all[i].text \in Seq(Piece)
                           /\ IsPrefix(all[i].text, text) /\ ~all[i].complete
      /\ \A i, k \in 1 .. n : i < k => IsPrefix(all[i].text, all[k].text) /\ ~all[i].complete
  <2>1. all \in Seq(Message) /\ n \in Nat /\ DOMAIN all = 1 .. n
    BY DEF Growing
  <2>2. \A i \in 1 .. n : all[i] \in Message
    BY <2>1
  <2> QED BY <2>1, <2>2 DEF Growing, Message
<1>2. \A i \in 1 .. n : IsPrefix(all[i].text, more)
  BY <1>1, PrefixKnown
<1>3. Growing(all, more, over)
  BY <1>1, <1>2 DEF Growing
<1>4. m \in Message /\ m.text = more /\ m.complete = complete /\ IsPrefix(m.text, more)
  BY PrefixKnown DEF Message
<1> HIDE DEF m
<1>5. /\ x \in Seq(Message) /\ DOMAIN x = 1 .. n + 1 /\ x[n + 1] = m
      /\ \A i \in 1 .. n : x[i] = all[i]
  BY <1>1, <1>4
<1> HIDE DEF n, x
<1>6. \A i \in 1 .. n + 1 : IsPrefix(x[i].text, more) /\ (x[i].complete => over)
  <2> SUFFICES ASSUME NEW i \in 1 .. n + 1
               PROVE  IsPrefix(x[i].text, more) /\ (x[i].complete => over)
    OBVIOUS
  <2>1. CASE i = n + 1
    BY <1>4, <1>5, <2>1
  <2>2. CASE i # n + 1
    <3>1. i \in 1 .. n
      BY <1>1, <2>2
    <3> QED BY <1>1, <1>2, <1>5, <3>1
  <2> QED BY <2>1, <2>2
<1>7. ASSUME NEW i \in 1 .. n + 1, NEW k \in 1 .. n + 1, i < k
      PROVE  IsPrefix(x[i].text, x[k].text) /\ ~x[i].complete
  <2>1. i \in 1 .. n
    BY <1>1, <1>7
  <2>2. CASE k = n + 1
    BY <1>1, <1>2, <1>4, <1>5, <2>1, <2>2
  <2>3. CASE k # n + 1
    <3>1. k \in 1 .. n
      BY <1>1, <2>3
    <3> QED BY <1>1, <1>5, <1>7, <2>1, <3>1
  <2> QED BY <2>2, <2>3
<1>8. Growing(x, more, over)
  BY <1>5, <1>6, <1>7 DEF Growing
<1> QED BY <1>3, <1>8 DEF x, m

\* The text only grows.
LEMMA TextGrows ==
  ASSUME NEW text \in Seq(Piece), NEW thinking, NEW calls, NEW finish, NEW item \in StreamItem
  PROVE  /\ Take(Acc(text, thinking, calls, finish), item).text \in Seq(Piece)
         /\ IsPrefix(text, Take(Acc(text, thinking, calls, finish), item).text)
<1> DEFINE a == Acc(text, thinking, calls, finish)
           b == Take(a, item)
<1>1. item.pieces \in Seq(Piece)
  BY DEF StreamItem
<1>2. /\ text \o item.pieces \in Seq(Piece)
      /\ IsPrefix(text, text) /\ IsPrefix(text, text \o item.pieces)
  BY <1>1, PrefixKnown, ConcatProperties
<1>3. a.text = text
  BY DEF Acc
<1>4. CASE item.type = "ContentDelta"
  <2>1. b = [a EXCEPT !.text = @ \o item.pieces]
    BY <1>4 DEF Take
  <2>2. b.text = text \o item.pieces
    BY <2>1 DEF Acc
  <2> QED BY <1>2, <2>2
<1>5. CASE item.type # "ContentDelta"
  <2>1. b.text = a.text
    BY <1>5 DEF Take, Acc
  <2> QED BY <1>2, <1>3, <2>1
<1> QED BY <1>4, <1>5

\* An accumulator that is reached is a record of four fields.
LEMMA ReachedAcc ==
  ASSUME NEW s, NEW i, NEW a, NEW t, Reached(s, i, a, t)
  PROVE  \E text, thinking, calls, finish : a = Acc(text, thinking, calls, finish)
BY Zenon DEF Reached, AccWith, AccDone

\* The partial objects: received and on their way, they grow with the text until the task is
\* over, and the last of a task that succeeded is whole.
PartialInv ==
  /\ StreamInv
  /\ mode \in {"complete", "object"}
  /\ channel \in Seq(Message) /\ seen \in Seq(Message)
  /\ Len(channel) <= Capacity
  /\ open => /\ Growing(seen \o channel, acc.text, result # "running")
             /\ mode = "object" /\ result = "Ok" =>
                  /\ seen \o channel # <<>>
                  /\ Last(seen \o channel).complete
                  /\ Last(seen \o channel).text = PiecesOf("text")

\* Nothing was passed on yet.
LEMMA PartialInvInit == Init => PartialInv
<1> SUFFICES ASSUME Init PROVE PartialInv
  OBVIOUS
<1>1. StreamInv
  BY StreamInvInit
<1>2. /\ mode \in {"complete", "object"} /\ channel = <<>> /\ seen = <<>> /\ acc.text = <<>>
      /\ result = "running"
  BY DEF Init
<1>3. <<>> \in Seq(Message) /\ Len(<<>>) = 0 /\ 0 <= Capacity
  BY StreamAssumption, EmptySeq
<1>4. seen \o channel = <<>>
  BY <1>2
<1>5. Growing(<<>>, <<>>, FALSE)
  BY <1>3 DEF Growing
<1> QED BY <1>1, <1>2, <1>3, <1>4, <1>5 DEF PartialInv

\* Passing a message on with the text.
LEMMA PassedOn ==
  ASSUME NEW old \in Seq(Message), NEW on \in Seq(Message), NEW m \in Message
  PROVE  /\ Append(on, m) \in Seq(Message) /\ Len(Append(on, m)) = Len(on) + 1
         /\ old \o Append(on, m) = Append(old \o on, m)
         /\ Append(old \o on, m) # <<>> /\ Last(Append(old \o on, m)) = m
         /\ on # <<>> => /\ Append(old, Head(on)) \in Seq(Message)
                         /\ Tail(on) \in Seq(Message) /\ Len(Tail(on)) <= Len(on)
                         /\ Append(old, Head(on)) \o Tail(on) = old \o on
<1> DEFINE x == old \o on
<1>1. x \in Seq(Message) /\ Len(x) \in Nat
  BY ConcatProperties
<1>2. Append(on, m) \in Seq(Message) /\ Len(Append(on, m)) = Len(on) + 1
  BY AppendProperties
<1>3. <<m>> \in Seq(Message)
  OBVIOUS
<1>4. old \o Append(on, m) = Append(x, m)
  <2>1. Append(on, m) = on \o <<m>> /\ Append(x, m) = x \o <<m>>
    BY <1>1, AppendIsConcat
  <2>2. old \o (on \o <<m>>) = x \o <<m>>
    BY <1>3, ConcatAssociative
  <2> QED BY <2>1, <2>2
<1> HIDE DEF x
<1>5. Append(x, m) # <<>> /\ Last(Append(x, m)) = m
  BY <1>1, AppendProperties DEF Last
<1>6. ASSUME on # <<>>
      PROVE  /\ Append(old, Head(on)) \in Seq(Message)
             /\ Tail(on) \in Seq(Message) /\ Len(Tail(on)) <= Len(on)
             /\ Append(old, Head(on)) \o Tail(on) = old \o on
  <2> DEFINE h == Head(on)
             r == Tail(on)
  <2>1. /\ h \in Message /\ r \in Seq(Message) /\ Len(r) <= Len(on)
        /\ <<h>> \o r = on
    <3>1. h \in Message /\ r \in Seq(Message) /\ Len(r) = Len(on) - 1 /\ Len(on) \in Nat
      BY <1>6, HeadTailProperties
    <3>2. <<h>> \o r = on
      <4>1. <<h>> \o r \in Seq(Message) /\ Len(<<h>> \o r) = Len(on)
        BY <3>1
      <4>2. \A i \in 1 .. Len(on) : (<<h>> \o r)[i] = on[i]
        BY <1>6, <3>1
      <4> QED BY <4>1, <4>2, SeqEqual
    <3> QED BY <3>1, <3>2
  <2> HIDE DEF h, r
  <2>2. Append(old, h) \in Seq(Message) /\ Append(old, h) = old \o <<h>> /\ <<h>> \in Seq(Message)
    BY <2>1, AppendProperties, AppendIsConcat
  <2>3. (old \o <<h>>) \o r = old \o (<<h>> \o r)
    BY <2>1, <2>2, ConcatAssociative
  <2> QED BY <2>1, <2>2, <2>3 DEF h, r
<1> QED BY <1>2, <1>4, <1>5, <1>6 DEF x

\* What is passed on grows with the text that is gathered.
LEMMA PartialInvStep == PartialInv /\ [Next]_vars => PartialInv'
<1> SUFFICES ASSUME PartialInv, [Next]_vars PROVE PartialInv'
  OBVIOUS
<1> DEFINE all == seen \o channel
           done == mode = "object" /\ result = "Ok" =>
                     all # <<>> /\ Last(all).complete /\ Last(all).text = PiecesOf("text")
<1>0. /\ StreamInv /\ StreamInv'
      /\ mode \in {"complete", "object"}
      /\ channel \in Seq(Message) /\ seen \in Seq(Message)
      /\ Len(channel) <= Capacity
      /\ open \in BOOLEAN
      /\ open => Growing(all, acc.text, result # "running") /\ done
  BY StreamInvStep DEF PartialInv, StreamInv
<1>1. CASE Chunk \/ Eof \/ Breaks \/ Line \/ UNCHANGED vars
  <2>1. UNCHANGED <<script, mode, acc, result, channel, open, seen>>
    BY <1>1 DEF Chunk, Eof, Breaks, Line, vars, netVars, readerVars
  <2>2. PiecesOf("text")' = PiecesOf("text")
    BY <2>1 DEF PiecesOf
  <2> QED BY <1>0, <2>1, <2>2 DEF PartialInv
<1>2. CASE Fail
  <2>1. /\ result = "running" /\ result' = "Err"
        /\ UNCHANGED <<script, mode, acc, channel, open, seen>>
    BY <1>2 DEF Fail, netVars, readerVars
  <2>2. Growing(all, acc.text, FALSE) => Growing(all, acc.text, TRUE)
    BY DEF Growing
  <2> QED BY <1>0, <2>1, <2>2 DEF PartialInv
<1>3. CASE Consume
  <2>1. /\ result = "running" /\ queue # <<>>
        /\ UNCHANGED <<script, mode, result, open, seen>>
        /\ acc' = Take(acc, Head(queue))
        /\ \/ channel' = channel
           \/ open /\ Len(channel) < Capacity /\ channel' = Append(channel, Partial(acc', FALSE))
    BY <1>3, ProcessedIsTake DEF Consume, netVars, Send
  <2>2. acc.text \in Seq(Piece) /\ acc'.text \in Seq(Piece) /\ IsPrefix(acc.text, acc'.text)
    <3>1. Head(queue) \in StreamItem
      BY <1>0, <2>1, HeadTailProperties DEF StreamInv
    <3>2. acc.text \in Seq(Piece)
      BY <1>0, StreamInPlace DEF InPlace
    <3>3. PICK r, t : Reached(script, r, acc, t)
      BY <1>0 DEF StreamInv
    <3>4. PICK text, thinking, calls, finish : acc = Acc(text, thinking, calls, finish)
      BY <3>3, ReachedAcc
    <3>5. acc.text = text
      BY <3>4 DEF Acc
    <3> QED BY <2>1, <3>1, <3>2, <3>4, <3>5, TextGrows
  <2> DEFINE m == Partial(acc', FALSE)
  <2>3. m \in Message /\ m = [text |-> acc'.text, complete |-> FALSE]
    BY <2>2 DEF Partial, Message
  <2> HIDE DEF m
  <2>4. CASE channel' = channel
    <3>1. open => Growing(all, acc'.text, FALSE)
      BY <1>0, <2>1, <2>2, GrowsOn
    <3> QED BY <1>0, <2>1, <2>4, <3>1 DEF PartialInv
  <2>5. CASE open /\ Len(channel) < Capacity /\ channel' = Append(channel, m)
    <3>1. /\ Append(channel, m) \in Seq(Message) /\ Len(Append(channel, m)) = Len(channel) + 1
          /\ seen \o Append(channel, m) = Append(all, m)
      BY <1>0, <2>3, PassedOn
    <3>2. Growing(Append(all, m), acc'.text, FALSE)
      BY <1>0, <2>1, <2>2, <2>3, <2>5, GrowsOn
    <3>3. Len(channel') <= Capacity
      BY <1>0, <2>5, <3>1, LenProperties, StreamAssumption
    <3> QED BY <1>0, <2>1, <2>5, <3>1, <3>2, <3>3 DEF PartialInv
  <2> QED BY <2>1, <2>4, <2>5 DEF m
<1>4. CASE Finish
  <2>1. /\ result = "running" /\ result' \in {"Ok", "Err"}
        /\ UNCHANGED <<script, mode, acc, open, seen>>
    BY <1>4 DEF Finish, Polled, netVars
  <2>2. acc.text \in Seq(Piece) /\ IsPrefix(acc.text, acc.text)
    <3>1. acc.text \in Seq(Piece)
      BY <1>0, StreamInPlace DEF InPlace
    <3> QED BY <3>1, PrefixKnown
  <2>3. open => Growing(all, acc.text, TRUE)
    BY <1>0, <2>1, <2>2, GrowsOn
  <2>4. CASE channel' = channel /\ ~(open /\ mode = "object" /\ result' = "Ok")
    <3>1. result' # "running"
      BY <2>1
    <3> QED BY <1>0, <2>1, <2>3, <2>4, <3>1 DEF PartialInv
  <2> DEFINE m == Partial(acc, TRUE)
  <2>5. m \in Message /\ m = [text |-> acc.text, complete |-> TRUE] /\ m.text = acc.text /\ m.complete
    BY <2>2 DEF Partial, Message
  <2> HIDE DEF m
  <2>6. CASE /\ open /\ Len(channel) < Capacity /\ channel' = Append(channel, m)
             /\ acc.text = PiecesOf("text")
    <3>1. /\ Append(channel, m) \in Seq(Message) /\ Len(Append(channel, m)) = Len(channel) + 1
          /\ seen \o Append(channel, m) = Append(all, m)
          /\ Append(all, m) # <<>> /\ Last(Append(all, m)) = m
      <4>1. /\ Append(channel, m) \in Seq(Message) /\ Len(Append(channel, m)) = Len(channel) + 1
            /\ seen \o Append(channel, m) = Append(all, m)
        BY <1>0, <2>5, PassedOn
      <4>2. Append(all, m) # <<>> /\ Last(Append(all, m)) = m
        BY <1>0, <2>5, PassedOn
      <4> QED BY <4>1, <4>2
    <3>2. Growing(Append(all, m), acc.text, TRUE)
      BY <1>0, <2>1, <2>2, <2>5, <2>6, GrowsOn
    <3>3. Len(channel') <= Capacity
      BY <1>0, <2>6, <3>1, LenProperties, StreamAssumption
    <3>4. PiecesOf("text")' = PiecesOf("text")
      BY <2>1 DEF PiecesOf
    <3>5. result' # "running"
      BY <2>1
    <3> QED BY <1>0, <2>1, <2>5, <2>6, <3>1, <3>2, <3>3, <3>4, <3>5 DEF PartialInv
  <2> QED BY <1>0, <1>4, <2>4, <2>6 DEF Finish, Send, IsObject, m
<1>5. CASE Receive
  <2>1. /\ channel # <<>> /\ seen' = Append(seen, Head(channel)) /\ channel' = Tail(channel)
        /\ UNCHANGED <<script, mode, acc, result, open>>
    BY <1>5 DEF Receive, netVars
  <2>2. Head(channel) \in Message
    BY <1>0, <2>1, HeadTailProperties
  <2>3. /\ seen' \in Seq(Message) /\ channel' \in Seq(Message) /\ Len(channel') <= Len(channel)
        /\ seen' \o channel' = all
    BY <1>0, <2>1, <2>2, PassedOn
  <2>4. Len(channel') <= Capacity
    BY <1>0, <2>3, LenProperties, StreamAssumption
  <2>5. PiecesOf("text")' = PiecesOf("text")
    BY <2>1 DEF PiecesOf
  <2> QED BY <1>0, <2>1, <2>3, <2>4, <2>5 DEF PartialInv
<1>6. CASE DropReceiver
  <2>1. channel' = <<>> /\ open' = FALSE /\ UNCHANGED <<mode, seen>>
    BY <1>6 DEF DropReceiver, netVars
  <2>2. <<>> \in Seq(Message) /\ Len(<<>>) = 0 /\ 0 <= Capacity
    BY StreamAssumption, EmptySeq
  <2> QED BY <1>0, <2>1, <2>2 DEF PartialInv
<1> QED BY <1>1, <1>2, <1>3, <1>4, <1>5, <1>6 DEF Next, Network, Consumer

(* ------------------------------- the theorems --------------------------- *)

\* The inductive invariant.
LEMMA StreamInvariant == Spec => []PartialInv
<1>1. PartialInv /\ [Next]_vars => PartialInv'
  BY PartialInvStep
<1> QED BY PartialInvInit, <1>1, PTL DEF Spec

\* parse_sse_stream, the adapters' translate_stream and StreamAccumulator::process_event
\* together: wherever the chunks are cut and the connection ends, text, thinking and the
\* arguments of every call are what the provider sent, in order, and a response with a
\* finish reason is whole.
THEOREM StreamKeepsPieces == Spec => []PiecesInPlace
<1>1. PartialInv => PiecesInPlace
  BY StreamInPlace DEF PartialInv
<1> QED BY StreamInvariant, <1>1, PTL

\* The state of a stream is of its type: the translator remembers only blocks of the answer,
\* and the channel of partial objects never holds more than it has room for.
THEOREM StreamTyped == Spec => []StreamTypeOK
<1>1. PartialInv => StreamTypeOK
  <2> SUFFICES ASSUME PartialInv PROVE StreamTypeOK
    OBVIOUS
  <2>1. /\ BytesTyped /\ net \in {"open", "eof", "broken"}
        /\ result \in {"running", "Ok", "Err"} /\ open \in BOOLEAN
        /\ Len(channel) <= Capacity
    BY DEF PartialInv, StreamInv
  <2>2. ScriptOK(script)
    BY <2>1, ScriptKnown
  <2>3. \E a, r : Reached(script, r, a, tr)
    BY Zenon DEF PartialInv, StreamInv, Handed
  <2>4. tr.calls \subseteq DOMAIN script.answer /\ tr.callId \in {0} \cup DOMAIN script.answer
    BY <2>2, <2>3, TranslatorInPlace
  <2>5. acc.text \in Seq(Nat \X Nat) /\ acc.thinking \in Seq(Nat \X Nat)
    BY StreamInPlace DEF PartialInv, InPlace, Piece
  <2> QED BY <2>1, <2>4, <2>5 DEF StreamTypeOK, BytesTyped
<1> QED BY StreamInvariant, <1>1, PTL

\* stream_object's channel: partial objects only grow, the complete one is the last, and it is
\* there whenever the task succeeded and the receiver was kept, for every capacity.
THEOREM PartialObjectsGrow == Spec => []PartialsGrow
<1>1. PartialInv => PartialsGrow
  BY DEF PartialInv, PartialsGrow, Growing
<1> QED BY StreamInvariant, <1>1, PTL
(* --------------------------- a stream descends --------------------------- *)

\* What is left of a stream: the receiver, the task and the connection, the bytes
\* to come and to be parsed, the events to be consumed, the objects to be received.
StreamRank == <<One(open), One(result = "running"), One(net = "open"),
                Len(AllBytes[script]) - pos, Len(byteBuf), Len(queue), Len(channel)>>

StreamDescends == [][Lower(StreamRank', StreamRank)]_vars

\* What is left of a stream is counted in numbers.
LEMMA StreamRankParts ==
  ASSUME PartialInv
  PROVE  /\ Len(AllBytes[script]) \in Nat /\ pos \in 0 .. Len(AllBytes[script])
         /\ byteBuf \in Seq(Byte) /\ queue \in Seq(StreamItem) /\ channel \in Seq(Message)
         /\ StreamRank \in [1 .. 7 -> Nat]
<1>1. /\ Len(AllBytes[script]) \in Nat /\ pos \in 0 .. Len(AllBytes[script])
      /\ byteBuf \in Seq(Byte) /\ queue \in Seq(StreamItem) /\ channel \in Seq(Message)
  <2>1. BytesTyped /\ queue \in Seq(StreamItem) /\ channel \in Seq(Message)
    BY DEF PartialInv, StreamInv
  <2>2. AllBytes[script] \in Seq(Byte)
    BY <2>1, ScriptKnown
  <2> QED BY <2>1, <2>2, LenProperties DEF BytesTyped
<1>2. /\ Len(byteBuf) \in Nat /\ Len(queue) \in Nat /\ Len(channel) \in Nat
      /\ Len(AllBytes[script]) - pos \in Nat
  BY <1>1
<1>3. One(open) \in Nat /\ One(result = "running") \in Nat /\ One(net = "open") \in Nat
  BY DEF One
<1> QED BY <1>1, <1>2, <1>3 DEF StreamRank

\* A line that ends in the buffer ends at a place of it.
LEMMA LineEnds ==
  ASSUME byteBuf \in Seq(Byte), HasLine
  PROVE  EndOfLine \in 1 .. Len(byteBuf)
<1> DEFINE F == {i \in DOMAIN byteBuf : byteBuf[i] = LF}
<1>1. F \in SUBSET Nat /\ F # {}
  BY DEF HasLine
<1>2. PICK i \in F : \A k \in F : i <= k
  <2> HIDE DEF F
  <2> QED BY <1>1, LeastNumber
<1>3. i \in DOMAIN byteBuf /\ byteBuf[i] = LF /\ \A k \in 1 .. i - 1 : byteBuf[k] # LF
  BY <1>2
<1>4. EndOfLine \in DOMAIN byteBuf
  BY <1>3, Zenon DEF EndOfLine
<1> QED BY <1>4

\* Every step of the network, the consumer and the holder of the receiver lowers it.
LEMMA StreamStepDescends ==
  ASSUME PartialInv, Next
  PROVE  Lower(StreamRank', StreamRank)
<1> USE DEF StreamRank
<1>t. /\ Len(AllBytes[script]) \in Nat /\ pos \in 0 .. Len(AllBytes[script])
      /\ byteBuf \in Seq(Byte) /\ queue \in Seq(StreamItem) /\ channel \in Seq(Message)
  BY StreamRankParts
<1>1. CASE DropReceiver
  <2>1. open /\ ~open'
    BY <1>1 DEF DropReceiver
  <2>2. One(open)' < One(open)
    BY <2>1 DEF One
  <2> QED BY <2>2, LowerOfSeven, SMTT(40)
<1>2. CASE Fail \/ Finish
  <2>1. open' = open /\ result = "running" /\ result' # "running"
    BY <1>2 DEF Fail, Finish, Polled, readerVars
  <2>2. One(open)' = One(open) /\ One(result = "running")' < One(result = "running")
    BY <2>1 DEF One
  <2> QED BY <2>2, LowerOfSeven, SMTT(40)
<1>3. CASE Eof \/ Breaks
  <2>1. open' = open /\ result' = result /\ net = "open" /\ net' # "open"
    BY <1>3 DEF Eof, Breaks, readerVars
  <2>2. /\ One(open)' = One(open) /\ One(result = "running")' = One(result = "running")
        /\ One(net = "open")' < One(net = "open")
    BY <2>1 DEF One
  <2> QED BY <2>2, LowerOfSeven, SMTT(40)
<1>4. CASE Chunk \/ Line \/ Consume \/ Receive
  <2>1. UNCHANGED <<open, result, net, script>>
    BY <1>4 DEF Chunk, Line, Consume, Receive, netVars, readerVars
  <2>2. /\ One(open)' = One(open) /\ One(result = "running")' = One(result = "running")
        /\ One(net = "open")' = One(net = "open") /\ AllBytes[script]' = AllBytes[script]
    BY <2>1 DEF AllBytes
  <2> DEFINE all == Len(AllBytes[script])
  <2>3. Len(AllBytes[script])' = all /\ all \in Nat
    BY <1>t, <2>2
  <2>4. CASE Chunk
    <3>1. pos' \in pos + 1 .. Len(AllBytes[script])
      BY <2>4 DEF Chunk
    <3>2. (Len(AllBytes[script]) - pos)' < Len(AllBytes[script]) - pos
      BY <1>t, <2>3, <3>1
    <3> QED BY <2>2, <3>2, LowerOfSeven, SMTT(40)
  <2>5. CASE Line
    <3>1. UNCHANGED pos /\ HasLine /\ byteBuf' = SubSeq(byteBuf, EndOfLine + 1, Len(byteBuf))
      BY <2>5 DEF Line, netVars
    <3>2. EndOfLine \in 1 .. Len(byteBuf)
      BY <1>t, <3>1, LineEnds
    <3>3. Len(byteBuf') < Len(byteBuf)
      BY <1>t, <3>1, <3>2
    <3>4. (Len(AllBytes[script]) - pos)' = Len(AllBytes[script]) - pos
      BY <2>3, <3>1
    <3> QED BY <2>2, <3>3, <3>4, LowerOfSeven, SMTT(40)
  <2>6. CASE Consume
    <3>1. UNCHANGED <<pos, byteBuf>> /\ queue # <<>> /\ queue' = Tail(queue)
      BY <2>6 DEF Consume, netVars, parserVars
    <3>2. Len(queue') < Len(queue)
      BY <1>t, <3>1
    <3>3. (Len(AllBytes[script]) - pos)' = Len(AllBytes[script]) - pos
      BY <2>3, <3>1
    <3>4. Len(byteBuf)' = Len(byteBuf)
      BY <3>1
    <3> QED BY <2>2, <3>2, <3>3, <3>4, LowerOfSeven, SMTT(40)
  <2>7. CASE Receive
    <3>1. UNCHANGED <<pos, byteBuf, queue>> /\ channel # <<>> /\ channel' = Tail(channel)
      BY <2>7 DEF Receive, netVars, parserVars
    <3>2. Len(channel') < Len(channel)
      BY <1>t, <3>1
    <3>3. (Len(AllBytes[script]) - pos)' = Len(AllBytes[script]) - pos
      BY <2>3, <3>1
    <3>4. Len(byteBuf)' = Len(byteBuf) /\ Len(queue)' = Len(queue)
      BY <3>1
    <3> QED BY <2>2, <3>2, <3>3, <3>4, LowerOfSeven, SMTT(40)
  <2> QED BY <1>4, <2>4, <2>5, <2>6, <2>7
<1> QED BY <1>1, <1>2, <1>3, <1>4 DEF Next, Network, Consumer

\* However the network cuts the bytes, wherever the connection ends, and whether or
\* not anyone receives, a stream takes finitely many steps: every byte is parsed, every
\* event consumed and every partial object received once (the parser, the adapters'
\* streams, the accumulator and stream_object).
THEOREM StreamsDescend == Spec => [](StreamRank \in [1 .. 7 -> Nat]) /\ StreamDescends
<1>1. PartialInv => StreamRank \in [1 .. 7 -> Nat]
  BY StreamRankParts
<1>2. PartialInv /\ [Next]_vars => [Lower(StreamRank', StreamRank)]_vars
  BY StreamStepDescends
<1> QED BY <1>1, <1>2, StreamInvariant, PTL DEF Spec, StreamDescends

(* ------------------------- a stream is never stuck ----------------------- *)

\* Where nothing can be received and nothing fails any more, the consumer is told.
BreakTold == net = "broken" => queue = <<Plain("Err")>>

\* The channel takes what the task passes on.
Takes == mode = "complete" \/ ~open \/ Len(channel) < Capacity

\* While the answer is read, the consumer has a line, an event, an error or the end
\* to take, or the network owes it bytes; only for a full channel does it wait, and
\* then the holder of the receiver has something to receive.
StreamServed ==
  result = "running" =>
    \/ queue # <<>> /\ (Head(queue).type = "Err" \/ Takes)
    \/ queue = <<>> /\ (net = "open" \/ HasLine)
    \/ queue = <<>> /\ net = "eof" /\ Takes
    \/ open /\ channel # <<>>

\* The error of a broken connection stays until it is taken.
LEMMA BreakToldStep == BreakTold /\ [Next]_vars => BreakTold'
<1> SUFFICES ASSUME BreakTold, [Next]_vars PROVE BreakTold'
  OBVIOUS
<1> USE DEF BreakTold
<1>1. CASE UNCHANGED vars
  BY <1>1 DEF vars, netVars
<1>2. CASE Breaks
  BY <1>2 DEF Breaks
<1>3. CASE Chunk \/ Eof
  <2>1. net' # "broken"
    BY <1>3 DEF Chunk, Eof
  <2> QED BY <2>1
<1>4. CASE Line
  <2>1. queue = <<>> /\ net' = net
    BY <1>4 DEF Line, Polled, netVars
  <2> QED BY <2>1
<1>5. CASE Consume
  <2>1. queue # <<>> /\ Head(queue).type # "Err" /\ net' = net
    BY <1>5 DEF Consume, netVars
  <2>2. Head(<<Plain("Err")>>).type = "Err"
    BY DEF Plain, Item
  <2> QED BY <2>1, <2>2
<1>6. CASE Fail \/ Finish \/ Receive \/ DropReceiver
  <2>1. UNCHANGED <<net, queue>>
    BY <1>6 DEF Fail, Finish, Receive, DropReceiver, netVars
  <2> QED BY <2>1
<1> QED BY <1>1, <1>2, <1>3, <1>4, <1>5, <1>6 DEF Next, Network, Consumer

\* No stream is stuck, whatever the provider sends, wherever the connection ends and
\* however small the channel: the only thing its reader ever waits for besides the
\* network is room that the holder of the receiver can make (stream_object).
THEOREM StreamIsServed == Spec => []StreamServed
<1>1. Init => BreakTold
  BY DEF Init, BreakTold
<1>2. PartialInv /\ BreakTold => StreamServed
  <2> SUFFICES ASSUME PartialInv, BreakTold, result = "running"
               PROVE  \/ queue # <<>> /\ (Head(queue).type = "Err" \/ Takes)
                      \/ queue = <<>> /\ (net = "open" \/ HasLine)
                      \/ queue = <<>> /\ net = "eof" /\ Takes
                      \/ open /\ channel # <<>>
    BY DEF StreamServed
  <2>1. net \in {"open", "eof", "broken"} /\ channel \in Seq(Message)
    BY DEF PartialInv, StreamInv
  <2>2. CASE net = "broken"
    <3>1. queue # <<>> /\ Head(queue).type = "Err"
      BY <2>2 DEF BreakTold, Plain, Item
    <3> QED BY <3>1
  <2>3. ~Takes => open /\ channel # <<>>
    <3> SUFFICES ASSUME ~Takes PROVE open /\ channel # <<>>
      OBVIOUS
    <3>1. open /\ ~(Len(channel) < Capacity)
      BY DEF Takes
    <3>2. Capacity \in Nat /\ 0 < Capacity
      BY StreamAssumption
    <3>3. channel = <<>> => Len(channel) = 0
      OBVIOUS
    <3> QED BY <3>1, <3>2, <3>3
  <2> QED BY <2>1, <2>2, <2>3
<1> QED BY <1>1, <1>2, BreakToldStep, StreamInvariant, PTL DEF Spec
=============================================================================
