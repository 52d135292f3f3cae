----------------------------- MODULE TuiProofs -----------------------------
(***************************************************************************)
(* Theorems about TuiRun, for any pipeline, any capacity of the channel    *)
(* and any number of node executions.                                      *)
(***************************************************************************)
EXTENDS TuiRun, Induction

IsPrompt(i) == inbox[i].kind = "Prompt"

\* The question the bridge relays is in one place at a time: in the inbox, on
\* display or answered; nothing else is in any of the three.
OnePrompt ==
  /\ responses # <<>> => relay # 0 /\ responses[1] = relay
  /\ overlay # 0 /\ ~closed => overlay = relay /\ responses = <<>>
  /\ \A i \in 1..Len(inbox) : IsPrompt(i) =>
       /\ inbox[i].question = relay /\ overlay = 0 /\ responses = <<>> /\ relay # 0
       /\ \A j \in 1..Len(inbox) : IsPrompt(j) => j = i
  /\ closed => inbox = <<>>
  /\ ~bridging => closed

\* A question that is asked has a number; a reply is to the question asked last.
Numbered == pc \in {"ask", "wait"} => steps # 0
ReplyOwn == reply.kind = "answer" => reply.question = steps

TuiInv == TuiTypeOK /\ OnePrompt /\ Numbered /\ ReplyOwn

\* The first element of a sequence and the rest.
LEMMA HeadAndTail ==
  ASSUME NEW S, NEW s \in Seq(S), s # <<>>
  PROVE  /\ Head(s) \in S /\ Head(s) = s[1] /\ 1 \in 1..Len(s)
         /\ Tail(s) \in Seq(S) /\ Len(Tail(s)) = Len(s) - 1 /\ Len(s) \in Nat
         /\ \A i \in 1..Len(Tail(s)) : i + 1 \in 1..Len(s) /\ Tail(s)[i] = s[i + 1]
<1>1. Len(s) \in Nat /\ Len(s) # 0
  BY EmptySeq
<1> QED BY <1>1, HeadTailProperties

\* What is in the inbox after a message that is no second prompt was sent.
LEMMA SendTypes ==
  ASSUME TuiTypeOK, NEW m \in Event \cup Prompt, Send(m)
  PROVE  inbox' \in Seq(Event \cup Prompt)
BY AppendProperties DEF TuiTypeOK, Send

\* An engine event is not a prompt.
LEMMA EventIsNoPrompt ==
  ASSUME NEW e \in Event
  PROVE  e.kind \in Kinds /\ e.kind # "Prompt"
BY DEF Event, Kinds, Ends

\* The actions of the engine emit one event at most and send nothing.
LEMMA EmitTypes ==
  ASSUME TuiTypeOK, NEW kind \in Kinds, NEW n \in Node \cup {NoNode}, Emit(kind, n)
  PROVE  events' \in Seq(Event) /\ Len(events') = Len(events) + 1
<1>1. Ev(kind, n) \in Event
  BY DEF Ev, Event
<1> QED BY <1>1, AppendProperties DEF TuiTypeOK, Emit

\* No prompt exists yet.
LEMMA TuiInit == Init => TuiInv
<1> SUFFICES ASSUME Init PROVE TuiInv
  OBVIOUS
<1>1. Cardinality(Resumed) \in Nat
  BY TuiAssumption, FS_CardinalityType
<1>2. TuiTypeOK
  <2>1. timeout \in BOOLEAN
    BY TuiAssumption DEF Init
  <2>2. shown \in [Node -> {"Pending", "Running", "Completed", "Failed"}]
    BY DEF Init
  <2>3. bridging \in BOOLEAN /\ timer \in BOOLEAN /\ closed \in BOOLEAN
    BY DEF Init
  <2> QED BY <1>1, <2>1, <2>2, <2>3, TuiAssumption DEF Init, TuiTypeOK, Reply
<1>3. OnePrompt
  BY DEF Init, OnePrompt, IsPrompt
<1>4. Numbered /\ ReplyOwn
  BY DEF Init, Numbered, ReplyOwn, NoReply
<1> QED BY <1>2, <1>3, <1>4 DEF TuiInv

\* The steps of the engine: the prompt stays where it is.
LEMMA EngineKeeps == TuiInv /\ Engine => TuiInv'
<1> SUFFICES ASSUME TuiInv, Engine PROVE TuiInv'
  OBVIOUS
<1> USE DEF TuiInv
<1>1. UNCHANGED <<timeout, read, relay, bridging, inbox, promptVars, screenVars, timer, closed>>
  BY DEF Engine, Begin, StartNode, WorkReturns, Ask, GateReturns, GateTimesOut, EndRun, Report,
         bridgeVars
<1>2. OnePrompt'
  BY <1>1 DEF OnePrompt, IsPrompt, promptVars
<1>3. /\ node \in Node \cup {NoNode} /\ steps \in 0..MaxSteps /\ reply \in Reply
      /\ talk \in 0..MaxSteps - steps
      /\ events \in Seq(Event) /\ read \in 0..Len(events) /\ questions \in Seq(1..MaxSteps)
      /\ pc \in {"begin", "next", "ask", "work", "wait", "done"}
  BY DEF TuiTypeOK
<1> DEFINE Typed ==
        /\ pc' \in {"begin", "next", "ask", "work", "wait", "done"}
        /\ node' \in Node \cup {NoNode} /\ steps' \in 0..MaxSteps /\ reply' \in Reply
        /\ talk' \in 0..MaxSteps - steps'
        /\ events' \in Seq(Event) /\ read \in 0..Len(events')
        /\ questions' \in Seq(1..MaxSteps)
        /\ Numbered' /\ ReplyOwn'
<1>4. SUFFICES Typed
  BY <1>1, <1>2 DEF TuiTypeOK, promptVars, screenVars
<1>5. ASSUME NEW kind \in {"NodeCompleted", "NodeFailed"}, Report(kind), UNCHANGED questions
      PROVE  Typed
  <2>1. events' \in Seq(Event) /\ Len(events') = Len(events) + 1
    BY <1>3, <1>5, EmitTypes DEF Report, Kinds
  <2> QED BY <1>3, <1>5, <2>1 DEF Report, Numbered, ReplyOwn
<1>6. CASE Begin
  <2>1. events' \in Seq(Event) /\ Len(events') = Len(events) + 1
    BY <1>3, <1>6, EmitTypes DEF Begin, Kinds
  <2> QED BY <1>3, <1>6, <2>1 DEF Begin, bridgeVars, Numbered, ReplyOwn
<1>7. ASSUME NEW n \in Node, StartNode(n)
      PROVE  Typed
  <2>1. events' \in Seq(Event) /\ Len(events') = Len(events) + 1
    BY <1>3, <1>7, EmitTypes DEF StartNode, Kinds
  <2>2. /\ steps' = steps + 1 /\ steps' \in 0..MaxSteps /\ reply' = NoReply /\ NoReply \in Reply
        /\ talk' \in 0..MaxSteps - steps'
    BY <1>3, <1>7, TuiAssumption DEF StartNode, Reply
  <2> QED BY <1>3, <1>7, <2>1, <2>2 DEF StartNode, bridgeVars, Numbered, ReplyOwn, NoReply
<1>8. CASE WorkReturns
  BY <1>5, <1>8 DEF WorkReturns, bridgeVars
<1>9. CASE Ask
  <2>1. CASE bridging
    <3>1. steps \in 1..MaxSteps
      BY <1>3, <1>9 DEF Ask, Numbered
    <3>2. questions' \in Seq(1..MaxSteps)
      <4>1. Append(questions, steps) \in Seq(1..MaxSteps)
        BY <1>3, <3>1
      <4> QED BY <1>9, <2>1, <4>1 DEF Ask
    <3> QED BY <1>3, <1>9, <2>1, <3>1, <3>2 DEF Ask, Numbered, ReplyOwn
  <2>2. CASE ~bridging
    BY <1>5, <1>9, <2>2 DEF Ask
  <2> QED BY <2>1, <2>2
<1>10. CASE GateReturns
  BY <1>5, <1>10 DEF GateReturns, bridgeVars
<1>11. CASE GateTimesOut
  BY <1>5, <1>11 DEF GateTimesOut, bridgeVars
<1>12. CASE EndRun
  <2>1. events' \in Seq(Event) /\ Len(events') >= Len(events)
    <3>1. CASE UNCHANGED events
      BY <1>3, <3>1
    <3>2. ASSUME NEW kind \in Ends, Emit(kind, NoNode)
          PROVE  events' \in Seq(Event) /\ Len(events') >= Len(events)
      <4>1. kind \in Kinds /\ NoNode \in Node \cup {NoNode}
        BY <3>2 DEF Kinds
      <4>2. events' \in Seq(Event) /\ Len(events') = Len(events) + 1
        BY <3>2, <4>1, EmitTypes
      <4> QED BY <1>3, <4>2
    <3> QED BY <1>12, <3>1, <3>2 DEF EndRun
  <2> QED BY <1>3, <1>12, <2>1 DEF EndRun, bridgeVars, Numbered, ReplyOwn
<1> QED BY <1>6, <1>7, <1>8, <1>9, <1>10, <1>11, <1>12 DEF Engine

\* What an agent says moves nothing but the events.
LEMMA TalkKeeps ==
  ASSUME TuiInv, NEW n \in Node, Talk(n)
  PROVE  TuiInv'
<1>1. UNCHANGED <<timeout, pc, node, steps, reply, bridgeVars, inbox, promptVars, screenVars,
                  timer, closed>>
  BY DEF Talk
<1>2. /\ steps \in 0..MaxSteps /\ talk \in 0..MaxSteps - steps /\ MaxSteps \in Nat
      /\ events \in Seq(Event) /\ read \in 0..Len(events)
  BY TuiAssumption DEF TuiInv, TuiTypeOK
<1>3. talk' \in 0..MaxSteps - steps
  BY <1>2 DEF Talk
<1>4. events' \in Seq(Event) /\ Len(events') = Len(events) + 1
  BY EmitTypes DEF Talk, Kinds, TuiInv
<1>5. read \in 0..Len(events')
  BY <1>2, <1>4
<1>6. TuiTypeOK'
  BY <1>1, <1>3, <1>4, <1>5 DEF TuiInv, TuiTypeOK, bridgeVars, promptVars, screenVars
<1>7. OnePrompt'
  BY <1>1 DEF TuiInv, OnePrompt, IsPrompt, bridgeVars, promptVars
<1>8. Numbered' /\ ReplyOwn'
  BY <1>1 DEF TuiInv, Numbered, ReplyOwn
<1> QED BY <1>6, <1>7, <1>8 DEF TuiInv

\* Forwarding an event adds no prompt.
LEMMA ForwardEventKeeps == TuiInv /\ ForwardEvent => TuiInv'
<1> SUFFICES ASSUME TuiInv, ForwardEvent PROVE TuiInv'
  OBVIOUS
<1> USE DEF TuiInv
<1>1. UNCHANGED <<engineVars, questions, relay, bridging, promptVars, screenVars, timer, closed>>
  BY DEF ForwardEvent
<1>2. events \in Seq(Event) /\ read \in 0..Len(events) /\ read < Len(events)
      /\ inbox \in Seq(Event \cup Prompt)
  BY DEF TuiTypeOK, ForwardEvent
<1>3. Capacity \in Nat /\ Capacity # 0
  BY TuiAssumption
<1>4. NextEvent \in 1..Len(events) /\ read' = NextEvent
  BY <1>2, <1>3 DEF NextEvent, Oldest, ForwardEvent
<1> DEFINE e == events[NextEvent]
<1>5. e \in Event /\ Send(e) /\ e.kind # "Prompt"
  BY <1>2, <1>4, EventIsNoPrompt DEF ForwardEvent
<1> HIDE DEF e
<1>6. inbox' \in Seq(Event \cup Prompt)
  BY <1>5, SendTypes
<1>7. TuiTypeOK'
  BY <1>1, <1>4, <1>6 DEF TuiTypeOK, engineVars, promptVars, screenVars
<1>8. OnePrompt'
  <2>1. CASE closed
    BY <1>1, <1>5, <2>1 DEF OnePrompt, Send, IsPrompt, promptVars
  <2>2. CASE ~closed
    <3>1. inbox' = Append(inbox, e)
      BY <1>5, <2>2 DEF Send
    <3>2. /\ Len(inbox') = Len(inbox) + 1 /\ Len(inbox) \in Nat
          /\ \A i \in 1..Len(inbox) : inbox'[i] = inbox[i]
          /\ inbox'[Len(inbox) + 1] = e
      BY <1>2, <1>5, <3>1
    <3>3. \A i \in 1..Len(inbox') : IsPrompt(i)' => i \in 1..Len(inbox) /\ IsPrompt(i)
      BY <1>5, <3>2 DEF IsPrompt
    <3>4. \A i \in 1..Len(inbox) : inbox'[i] = inbox[i]
      BY <3>2
    <3> QED BY <1>1, <2>2, <3>3, <3>4 DEF OnePrompt, promptVars
  <2> QED BY <2>1, <2>2
<1>9. Numbered' /\ ReplyOwn'
  BY <1>1 DEF Numbered, ReplyOwn, engineVars
<1> QED BY <1>7, <1>8, <1>9

\* A question is forwarded only when no other is outstanding: its prompt is the
\* only one.
LEMMA ForwardQuestionKeeps == TuiInv /\ ForwardQuestion => TuiInv'
<1> SUFFICES ASSUME TuiInv, ForwardQuestion PROVE TuiInv'
  OBVIOUS
<1> USE DEF TuiInv
<1>1. UNCHANGED <<engineVars, read, bridging, promptVars, screenVars, timer, closed>>
  BY DEF ForwardQuestion
<1>2. questions \in Seq(1..MaxSteps) /\ questions # <<>> /\ relay = 0
      /\ inbox \in Seq(Event \cup Prompt)
  BY DEF TuiTypeOK, ForwardQuestion, CanTake
<1>3. MaxSteps \in Nat
  BY TuiAssumption
<1>4. PICK q \in 1..MaxSteps : q = Head(questions)
  <2>1. Head(questions) \in 1..MaxSteps
    BY <1>2, HeadAndTail
  <2> QED BY <2>1
<1>5. relay' = q /\ q # 0
  BY <1>3, <1>4 DEF ForwardQuestion
<1>6. questions' \in Seq(1..MaxSteps)
  BY <1>2 DEF ForwardQuestion
<1> DEFINE m == [kind |-> "Prompt", question |-> q]
<1>7. m \in Prompt /\ Send(m)
  BY <1>4 DEF ForwardQuestion, Prompt
<1>8. inbox' \in Seq(Event \cup Prompt)
  BY <1>7, SendTypes
<1>9. responses = <<>> /\ (closed \/ overlay = 0)
  BY <1>2 DEF OnePrompt
<1>10. \A i \in 1..Len(inbox) : ~IsPrompt(i)
  BY <1>2 DEF OnePrompt
<1>11. TuiTypeOK'
  <2>1. relay' \in 0..MaxSteps
    BY <1>3, <1>4, <1>5
  <2> QED BY <1>1, <1>6, <1>8, <2>1 DEF TuiTypeOK, engineVars, promptVars, screenVars
<1>12. OnePrompt'
  <2>1. CASE closed
    BY <1>1, <1>7, <1>9, <2>1 DEF OnePrompt, Send, IsPrompt, promptVars
  <2>2. CASE ~closed
    <3>1. inbox' = Append(inbox, m)
      BY <1>7, <2>2 DEF Send
    <3>2. /\ Len(inbox') = Len(inbox) + 1 /\ Len(inbox) \in Nat
          /\ \A i \in 1..Len(inbox) : inbox'[i] = inbox[i]
          /\ inbox'[Len(inbox) + 1] = m
      BY <1>2, <1>7, <3>1
    <3>3. \A i \in 1..Len(inbox') : IsPrompt(i)' => i = Len(inbox) + 1
      BY <1>10, <3>2 DEF IsPrompt
    <3>4. inbox'[Len(inbox) + 1].question = q
      BY <3>2
    <3> QED BY <1>1, <1>5, <1>9, <2>2, <3>3, <3>4 DEF OnePrompt, promptVars
  <2> QED BY <2>1, <2>2
<1>13. Numbered' /\ ReplyOwn'
  BY <1>1 DEF Numbered, ReplyOwn, engineVars
<1> QED BY <1>11, <1>12, <1>13

\* The response relayed is the one to the question relayed.
LEMMA RelayResponseKeeps == TuiInv /\ RelayResponse => TuiInv'
<1> SUFFICES ASSUME TuiInv, RelayResponse PROVE TuiInv'
  OBVIOUS
<1> USE DEF TuiInv
<1>1. UNCHANGED <<timeout, pc, node, steps, talk, events, read, questions, bridging, inbox, overlay,
                  screenVars, timer, closed>>
  BY DEF RelayResponse
<1>2. responses \in Seq(1..MaxSteps) /\ Len(responses) <= 1 /\ responses # <<>>
  BY DEF TuiTypeOK, RelayResponse
<1>3. responses' = <<>> /\ relay' = 0
  BY <1>2 DEF RelayResponse
<1>4. PICK q \in 1..MaxSteps : q = Head(responses) /\ q = relay
  <2>1. Head(responses) \in 1..MaxSteps /\ Head(responses) = responses[1]
    BY <1>2, HeadAndTail
  <2> QED BY <1>2, <2>1 DEF OnePrompt
<1>5. reply' = (IF pc = "wait" /\ steps = q THEN Answer(q) ELSE reply)
  BY <1>4 DEF RelayResponse, Deliver
<1>6. reply' \in Reply
  BY <1>5 DEF TuiTypeOK, Reply
<1>7. TuiTypeOK'
  <2>1. responses' \in Seq(1..MaxSteps) /\ Len(responses') <= 1 /\ relay' \in 0..MaxSteps
    BY <1>3, TuiAssumption
  <2> QED BY <1>1, <1>6, <2>1 DEF TuiTypeOK, screenVars
<1>8. OnePrompt'
  BY <1>1, <1>2, <1>3 DEF OnePrompt, IsPrompt
<1>9. Numbered' /\ ReplyOwn'
  BY <1>1, <1>5 DEF Numbered, ReplyOwn, Answer
<1> QED BY <1>7, <1>8, <1>9

\* The bridge ends only after the dashboard.
LEMMA BridgeEndsKeeps == TuiInv /\ BridgeEnds => TuiInv'
<1> SUFFICES ASSUME TuiInv, BridgeEnds PROVE TuiInv'
  OBVIOUS
<1> USE DEF TuiInv
<1>1. UNCHANGED <<timeout, pc, node, steps, talk, events, read, inbox, promptVars, screenVars,
                  timer, closed>>
  BY DEF BridgeEnds
<1>2. closed /\ responses = <<>> /\ relay' = 0 /\ bridging' = FALSE /\ questions' = <<>>
  BY DEF BridgeEnds, SenderGone
<1>3. reply' \in {reply, Cancelled, Dropped}
  BY DEF BridgeEnds
<1>4. TuiTypeOK'
  <2>1. questions' \in Seq(1..MaxSteps) /\ relay' \in 0..MaxSteps
    BY <1>2, TuiAssumption
  <2>2. reply' \in Reply
    BY <1>3 DEF TuiTypeOK, Reply
  <2>3. bridging' \in BOOLEAN
    BY <1>2
  <2> QED BY <1>1, <2>1, <2>2, <2>3 DEF TuiTypeOK, promptVars, screenVars
<1>5. OnePrompt'
  BY <1>1, <1>2 DEF OnePrompt, IsPrompt, promptVars
<1>6. Numbered' /\ ReplyOwn'
  BY <1>1, <1>3 DEF Numbered, ReplyOwn, Cancelled, Dropped
<1> QED BY <1>4, <1>5, <1>6

\* Handling an event changes nothing but what is shown.
LEMMA HandleEventTypes ==
  ASSUME TuiTypeOK, NEW e \in Event, HandleEvent(e)
  PROVE  /\ shown' \in [Node -> {"Pending", "Running", "Completed", "Failed"}]
         /\ finished' \in Nat
         /\ status' \in {"Starting", "Running", "Completed", "Failed", "Aborted"}
         /\ timer' \in BOOLEAN
         /\ overlay' = overlay
<1>1. /\ shown \in [Node -> {"Pending", "Running", "Completed", "Failed"}]
      /\ finished \in Nat
      /\ status \in {"Starting", "Running", "Completed", "Failed", "Aborted"}
      /\ timer \in BOOLEAN
  BY DEF TuiTypeOK
<1>2. timer' \in BOOLEAN
  BY <1>1 DEF HandleEvent, screenVars
<1>3. status' \in {"Starting", "Running", "Completed", "Failed", "Aborted"}
  BY <1>1 DEF HandleEvent, screenVars
<1>4. finished' \in Nat
  BY <1>1 DEF HandleEvent, Finish, screenVars
<1>5. shown' \in [Node -> {"Pending", "Running", "Completed", "Failed"}]
  BY <1>1 DEF HandleEvent, Finish, screenVars
<1>6. overlay' = overlay
  BY DEF HandleEvent
<1> QED BY <1>2, <1>3, <1>4, <1>5, <1>6

\* Handling a message takes the prompt out of the inbox, if it was one.
LEMMA UpdateKeeps == TuiInv /\ Update => TuiInv'
<1> SUFFICES ASSUME TuiInv, Update PROVE TuiInv'
  OBVIOUS
<1> USE DEF TuiInv
<1>1. UNCHANGED <<engineVars, bridgeVars, responses, closed>> /\ ~closed
  BY DEF Update
<1>2. inbox \in Seq(Event \cup Prompt) /\ inbox # <<>> /\ inbox' = Tail(inbox)
  BY DEF Update, TuiTypeOK
<1>3. /\ Head(inbox) \in Event \cup Prompt /\ Head(inbox) = inbox[1] /\ 1 \in 1..Len(inbox)
      /\ inbox' \in Seq(Event \cup Prompt) /\ Len(inbox) \in Nat
      /\ \A i \in 1..Len(inbox') : i + 1 \in 1..Len(inbox) /\ inbox'[i] = inbox[i + 1]
  BY <1>2, HeadAndTail
<1>4. \A i \in 1..Len(inbox') : IsPrompt(i)' <=> IsPrompt(i + 1)
  BY <1>3 DEF IsPrompt
<1>5. \A i \in 1..Len(inbox') : i + 1 # 1
  OBVIOUS
<1>6. Numbered' /\ ReplyOwn'
  BY <1>1 DEF Numbered, ReplyOwn, engineVars
<1>7. CASE IsPrompt(1)
  <2>1. PICK m \in Prompt : m = Head(inbox)
    BY <1>3, <1>7, EventIsNoPrompt DEF IsPrompt
  <2>2. ShowPrompt(m.question)
    BY <1>3, <1>7, <2>1 DEF Update, IsPrompt
  <2>3. m.question \in 1..MaxSteps
    BY DEF Prompt
  <2>4. overlay' = m.question /\ UNCHANGED <<screenVars, timer>>
    BY <2>2 DEF ShowPrompt
  <2>5. overlay' \in 0..MaxSteps
    BY <2>3, <2>4, TuiAssumption
  <2>6. TuiTypeOK'
    BY <1>1, <1>3, <2>4, <2>5 DEF TuiTypeOK, engineVars, bridgeVars, screenVars
  <2>7. m.question = relay /\ responses = <<>> /\ relay # 0
    BY <1>3, <1>7, <2>1 DEF OnePrompt, IsPrompt
  <2>8. \A i \in 1..Len(inbox') : ~IsPrompt(i)'
    BY <1>3, <1>4, <1>5, <1>7 DEF OnePrompt
  <2>9. OnePrompt'
    BY <1>1, <2>4, <2>7, <2>8 DEF OnePrompt, bridgeVars
  <2> QED BY <1>6, <2>6, <2>9
<1>8. CASE ~IsPrompt(1)
  <2>1. PICK e \in Event : e = Head(inbox)
    BY <1>3, <1>8 DEF IsPrompt, Prompt
  <2>2. HandleEvent(e)
    BY <1>3, <1>8, <2>1 DEF Update, IsPrompt
  <2>3. /\ shown' \in [Node -> {"Pending", "Running", "Completed", "Failed"}]
        /\ finished' \in Nat
        /\ status' \in {"Starting", "Running", "Completed", "Failed", "Aborted"}
        /\ timer' \in BOOLEAN
        /\ overlay' = overlay
    BY <2>2, HandleEventTypes
  <2>4. TuiTypeOK'
    BY <1>1, <1>3, <2>3 DEF TuiTypeOK, engineVars, bridgeVars
  <2>5. \A i, j \in 1..Len(inbox') : j + 1 = i + 1 => i = j
    OBVIOUS
  <2>6. \A i \in 1..Len(inbox') : IsPrompt(i)' =>
          /\ inbox'[i].question = relay /\ overlay = 0 /\ responses = <<>> /\ relay # 0
          /\ \A j \in 1..Len(inbox') : IsPrompt(j)' => j = i
    BY <1>3, <1>4, <2>5 DEF OnePrompt
  <2>7. OnePrompt'
    BY <1>1, <2>3, <2>6 DEF OnePrompt, bridgeVars
  <2> QED BY <1>6, <2>4, <2>7
<1> QED BY <1>7, <1>8

\* The response goes where the prompt was.
LEMMA RespondKeeps == TuiInv /\ Respond => TuiInv'
<1> SUFFICES ASSUME TuiInv, Respond PROVE TuiInv'
  OBVIOUS
<1> USE DEF TuiInv
<1>1. UNCHANGED <<engineVars, bridgeVars, inbox, screenVars, timer, closed>> /\ ~closed
  BY DEF Respond
<1>2. overlay \in 1..MaxSteps /\ overlay = relay /\ responses = <<>>
  BY DEF Respond, OnePrompt, TuiTypeOK
<1>3. responses' = <<overlay>> /\ overlay' = 0
  BY <1>2 DEF Respond, Clear
<1>4. responses' \in Seq(1..MaxSteps) /\ Len(responses') = 1 /\ responses'[1] = relay
  BY <1>2, <1>3
<1>5. \A i \in 1..Len(inbox) : ~IsPrompt(i)
  BY <1>2 DEF OnePrompt
<1>6. TuiTypeOK'
  BY <1>1, <1>3, <1>4, TuiAssumption DEF TuiTypeOK, engineVars, bridgeVars, screenVars
<1>7. OnePrompt'
  BY <1>1, <1>2, <1>3, <1>4, <1>5 DEF OnePrompt, IsPrompt, bridgeVars
<1>8. Numbered' /\ ReplyOwn'
  BY <1>1 DEF Numbered, ReplyOwn, engineVars
<1> QED BY <1>6, <1>7, <1>8

\* Closing the dashboard drops its prompt.
LEMMA CloseKeeps == TuiInv /\ Close => TuiInv'
<1> SUFFICES ASSUME TuiInv, Close PROVE TuiInv'
  OBVIOUS
<1> USE DEF TuiInv
<1>1. UNCHANGED <<engineVars, bridgeVars, promptVars, screenVars, timer>>
      /\ closed' = TRUE /\ inbox' = <<>>
  BY DEF Close
<1>2. inbox' \in Seq(Event \cup Prompt) /\ closed' \in BOOLEAN
  BY <1>1
<1>3. TuiTypeOK'
  BY <1>1, <1>2 DEF TuiTypeOK, engineVars, bridgeVars, promptVars, screenVars
<1>4. OnePrompt'
  BY <1>1 DEF OnePrompt, bridgeVars, promptVars
<1>5. Numbered' /\ ReplyOwn'
  BY <1>1 DEF Numbered, ReplyOwn, engineVars
<1> QED BY <1>3, <1>4, <1>5

\* A step that changes nothing keeps the invariant.
LEMMA StutterKeeps == TuiInv /\ UNCHANGED vars => TuiInv'
<1> SUFFICES ASSUME TuiInv, UNCHANGED vars PROVE TuiInv'
  OBVIOUS
<1>1. UNCHANGED <<engineVars, bridgeVars, inbox, promptVars, screenVars, timer, closed>>
  BY DEF vars
<1> QED BY <1>1 DEF TuiInv, TuiTypeOK, OnePrompt, IsPrompt, Numbered, ReplyOwn, engineVars,
                    bridgeVars, promptVars, screenVars

\* Whatever the tasks and the user do, the question relayed is in one place and
\* every reply is to the question asked last.
THEOREM TuiInductive == Spec => []TuiInv
<1>1. TuiInv /\ [Next]_vars => TuiInv'
  BY EngineKeeps, TalkKeeps, ForwardEventKeeps, ForwardQuestionKeeps, RelayResponseKeeps,
     BridgeEndsKeeps, UpdateKeeps, RespondKeeps, CloseKeeps, StutterKeeps
     DEF Next, UserQuits, AutoQuit
<1> QED BY TuiInit, <1>1, PTL DEF Spec

\* The state of the bridges and the dashboard is well typed, and at most one
\* response is on its way (run.rs:1185-1193).
THEOREM TuiTypeCorrect == Spec => []TuiTypeOK
<1>1. TuiInv => TuiTypeOK
  BY DEF TuiInv
<1> QED BY <1>1, TuiInductive, PTL

\* No gate acts on an answer that was entered for another question, for any
\* number of gates given up before (interviewer.rs:452-460, run.rs:1190-1193).
THEOREM AnswersReachTheirQuestion == Spec => []AnswersBelong
<1>1. TuiInv => AnswersBelong
  BY DEF TuiInv, ReplyOwn, AnswersBelong
<1> QED BY <1>1, TuiInductive, PTL

(* ------------------------- a gate that waits is served ------------------- *)

\* A question without a reply is on its way or relayed, and the one relayed is in
\* the inbox, on display or answered.
Tracked ==
  /\ pc = "wait" /\ reply = NoReply =>
       bridging /\ (relay = steps \/ \E i \in 1..Len(questions) : questions[i] = steps)
  /\ relay # 0 /\ ~closed =>
       responses # <<>> \/ overlay = relay \/ \E i \in 1..Len(inbox) : IsPrompt(i)

\* A gate waits for somebody who can act: the engine to take its reply, the bridge
\* to take a question, to relay a response or to end, and, while the dashboard is
\* open, the dashboard to handle a message or the user to answer what is on display.
GateServed ==
  pc = "wait" =>
    \/ reply # NoReply
    \/ CanTake
    \/ bridging /\ relay # 0 /\ (responses # <<>> \/ SenderGone)
    \/ ~closed /\ (inbox # <<>> \/ overlay # 0)

\* Nobody waits at the start.
LEMMA TrackedInit == Init => Tracked
BY DEF Init, Tracked

\* A question is dropped only with a reply to the gate, a prompt only with a response.
LEMMA TrackedStep == TuiInv /\ Tracked /\ [Next]_vars => Tracked'
<1> SUFFICES ASSUME TuiInv, Tracked, [Next]_vars PROVE Tracked'
  OBVIOUS
<1>t. /\ questions \in Seq(1..MaxSteps) /\ inbox \in Seq(Event \cup Prompt)
      /\ responses \in Seq(1..MaxSteps) /\ Len(responses) <= 1 /\ steps \in 0..MaxSteps
  BY DEF TuiInv, TuiTypeOK
<1> DEFINE Asked == bridging /\ (relay = steps \/ \E i \in 1..Len(questions) : questions[i] = steps)
           Seen == responses # <<>> \/ overlay = relay \/ \E i \in 1..Len(inbox) : IsPrompt(i)
<1>0. /\ pc = "wait" /\ reply = NoReply => Asked
      /\ relay # 0 /\ ~closed => Seen
  BY DEF Tracked
<1>q. SUFFICES /\ pc' = "wait" /\ reply' = NoReply => Asked'
               /\ relay' # 0 /\ ~closed' => Seen'
  BY DEF Tracked
<1>1. CASE UNCHANGED vars
  BY <1>0, <1>1 DEF vars, engineVars, bridgeVars, promptVars, IsPrompt
<1>2. CASE Engine
  <2>1. UNCHANGED <<relay, bridging, inbox, overlay, responses, closed>>
    BY <1>2 DEF Engine, Begin, StartNode, WorkReturns, Ask, GateReturns, GateTimesOut, EndRun,
                bridgeVars, promptVars
  <2>2. Seen' <=> Seen
    BY <2>1 DEF IsPrompt
  <2>3. ASSUME pc' = "wait" PROVE Asked'
    <3>1. Ask /\ bridging /\ questions' = Append(questions, steps) /\ steps' = steps
      BY <1>2, <2>3 DEF Engine, Begin, StartNode, WorkReturns, Ask, GateReturns, GateTimesOut,
                        EndRun, Report
    <3>2. Len(questions) + 1 \in 1..Len(questions') /\ questions'[Len(questions) + 1] = steps'
      BY <1>t, <3>1
    <3> QED BY <2>1, <3>1, <3>2
  <2> HIDE DEF Asked, Seen
  <2> QED BY <1>0, <2>1, <2>2, <2>3
<1>3. CASE ForwardEvent
  <2>1. UNCHANGED <<pc, steps, reply, questions, relay, bridging, overlay, responses, closed>>
    BY <1>3 DEF ForwardEvent, engineVars, promptVars
  <2>2. Asked' <=> Asked
    BY <2>1
  <2>3. ASSUME ~closed PROVE Seen => Seen'
    <3>1. inbox' = Append(inbox, events[NextEvent])
      BY <1>3, <2>3 DEF ForwardEvent, Send
    <3>2. \A i \in 1..Len(inbox) : i \in 1..Len(inbox') /\ inbox'[i] = inbox[i]
      BY <1>t, <3>1
    <3> QED BY <2>1, <3>2 DEF IsPrompt
  <2> HIDE DEF Asked, Seen
  <2> QED BY <1>0, <2>1, <2>2, <2>3
<1>4. CASE ForwardQuestion
  <2>1. /\ UNCHANGED <<pc, steps, reply, bridging, overlay, responses, closed>>
        /\ relay = 0 /\ questions # <<>>
        /\ relay' = Head(questions) /\ questions' = Tail(questions)
    BY <1>4 DEF ForwardQuestion, CanTake, engineVars, promptVars
  <2>2. ASSUME pc = "wait", Asked PROVE Asked'
    <3>1. steps # 0
      BY <2>2 DEF TuiInv, Numbered
    <3>2. PICK i \in 1..Len(questions) : questions[i] = steps
      BY <2>1, <2>2, <3>1
    <3>3. CASE i = 1
      BY <1>t, <2>1, <2>2, <3>2, <3>3
    <3>4. CASE i # 1
      <4>1. i - 1 \in 1..Len(questions') /\ questions'[i - 1] = questions[i]
        BY <1>t, <2>1, <3>2, <3>4
      <4> QED BY <2>1, <2>2, <3>2, <4>1
    <3> QED BY <3>3, <3>4
  <2>3. ASSUME ~closed PROVE Seen'
    <3> DEFINE m == [kind |-> "Prompt", question |-> Head(questions)]
    <3>1. inbox' = Append(inbox, m) /\ m.kind = "Prompt"
      BY <1>4, <2>3 DEF ForwardQuestion, Send
    <3> HIDE DEF m
    <3>2. Len(inbox) + 1 \in 1..Len(inbox') /\ inbox'[Len(inbox) + 1] = m
      BY <1>t, <3>1
    <3> QED BY <3>1, <3>2 DEF IsPrompt
  <2> HIDE DEF Asked, Seen
  <2> QED BY <1>0, <2>1, <2>2, <2>3
<1>5. CASE RelayResponse
  <2>1. /\ UNCHANGED <<pc, steps, questions, bridging>> /\ relay' = 0 /\ relay # 0
        /\ reply' = IF pc = "wait" /\ steps = relay THEN Answer(Head(responses)) ELSE reply
    BY <1>5 DEF RelayResponse, Deliver
  <2>2. Answer(Head(responses)) # NoReply
    BY DEF Answer, NoReply
  <2>3. ASSUME pc = "wait", reply' = NoReply PROVE reply = NoReply /\ steps # relay
    BY <2>1, <2>2, <2>3
  <2>4. steps # relay /\ Asked => Asked'
    BY <2>1
  <2> HIDE DEF Asked, Seen
  <2> QED BY <1>0, <2>1, <2>3, <2>4
<1>6. CASE BridgeEnds
  <2>1. pc' = pc /\ relay' = 0
        /\ reply' = IF pc # "wait" THEN reply ELSE IF relay = steps THEN Cancelled ELSE Dropped
    BY <1>6 DEF BridgeEnds
  <2>2. Cancelled # NoReply /\ Dropped # NoReply
    BY DEF Cancelled, Dropped, NoReply
  <2> QED BY <2>1, <2>2
<1>7. CASE Update
  <2>1. /\ UNCHANGED <<pc, steps, reply, questions, relay, bridging, responses, closed>>
        /\ ~closed /\ inbox # <<>> /\ inbox' = Tail(inbox)
    BY <1>7 DEF Update, engineVars, bridgeVars
  <2>2. Asked' <=> Asked
    BY <2>1
  <2>3. ASSUME relay # 0, Seen PROVE Seen'
    <3>1. CASE responses # <<>>
      BY <2>1, <3>1
    <3>2. CASE Head(inbox).kind = "Prompt"
      <4>1. overlay' = Head(inbox).question /\ 1 \in 1..Len(inbox) /\ Head(inbox) = inbox[1]
        BY <1>7, <1>t, <2>1, <3>2 DEF Update, ShowPrompt, HandleEvent
      <4>2. inbox[1].question = relay
        BY <3>2, <4>1 DEF TuiInv, OnePrompt, IsPrompt
      <4> QED BY <2>1, <4>1, <4>2
    <3>3. CASE responses = <<>> /\ Head(inbox).kind # "Prompt"
      <4>1. UNCHANGED overlay
        BY <1>7, <3>3 DEF Update, HandleEvent
      <4>2. CASE overlay = relay
        BY <2>1, <4>1, <4>2
      <4>3. ASSUME NEW i \in 1..Len(inbox), IsPrompt(i) PROVE Seen'
        <5>1. i # 1
          BY <1>t, <2>1, <3>3, <4>3 DEF IsPrompt
        <5>2. i - 1 \in 1..Len(inbox') /\ inbox'[i - 1] = inbox[i]
          BY <1>t, <2>1, <5>1
        <5> QED BY <4>3, <5>2 DEF IsPrompt
      <4> QED BY <2>3, <3>3, <4>2, <4>3
    <3> QED BY <3>1, <3>2, <3>3
  <2> HIDE DEF Asked, Seen
  <2> QED BY <1>0, <2>1, <2>2, <2>3
<1>8. CASE Respond
  <2>1. /\ UNCHANGED <<pc, steps, reply, questions, relay, bridging>>
        /\ responses' = Append(responses, overlay)
    BY <1>8 DEF Respond, engineVars, bridgeVars
  <2>2. responses' # <<>>
    BY <1>t, <2>1
  <2>3. Asked' <=> Asked
    BY <2>1
  <2> HIDE DEF Asked
  <2> QED BY <1>0, <2>1, <2>2, <2>3
<1>9. ASSUME NEW n \in Node, Talk(n)
      PROVE  /\ pc' = "wait" /\ reply' = NoReply => Asked'
             /\ relay' # 0 /\ ~closed' => Seen'
  <2>1. UNCHANGED <<pc, steps, reply, questions, relay, bridging, inbox, overlay, responses,
                    closed>>
    BY <1>9 DEF Talk, bridgeVars, promptVars
  <2>2. (Asked' <=> Asked) /\ (Seen' <=> Seen)
    BY <2>1 DEF IsPrompt
  <2> HIDE DEF Asked, Seen
  <2> QED BY <1>0, <2>1, <2>2
<1>10. CASE UserQuits \/ AutoQuit
  <2>1. UNCHANGED <<pc, steps, reply, questions, relay, bridging>> /\ closed'
    BY <1>10 DEF UserQuits, AutoQuit, Close, engineVars, bridgeVars
  <2>2. Asked' <=> Asked
    BY <2>1
  <2> HIDE DEF Asked
  <2> QED BY <1>0, <2>1, <2>2
<1> QED BY <1>1, <1>2, <1>3, <1>4, <1>5, <1>6, <1>7, <1>8, <1>9, <1>10 DEF Next

\* No gate is forgotten: as long as the engine waits for an answer, a task has
\* something to do for it, or the question is on display; and once the dashboard
\* has closed, it is a task's turn (run.rs:1178-1206).
THEOREM WaitingGateIsServed == Spec => []GateServed
<1>1. TuiInv /\ Tracked => GateServed
  <2> SUFFICES ASSUME TuiInv, Tracked, pc = "wait", reply = NoReply, ~CanTake
               PROVE  \/ bridging /\ relay # 0 /\ (responses # <<>> \/ SenderGone)
                      \/ ~closed /\ (inbox # <<>> \/ overlay # 0)
    BY DEF GateServed
  <2>1. bridging /\ (relay = steps \/ \E i \in 1..Len(questions) : questions[i] = steps)
    BY DEF Tracked
  <2>2. steps # 0
    BY DEF TuiInv, Numbered
  <2>3. (\E i \in 1..Len(questions) : questions[i] = steps) => questions # <<>>
    OBVIOUS
  <2>4. relay # 0
    BY <2>1, <2>2, <2>3 DEF CanTake
  <2>5. (\E i \in 1..Len(inbox) : IsPrompt(i)) => inbox # <<>>
    OBVIOUS
  <2> QED BY <2>1, <2>4, <2>5 DEF Tracked, SenderGone
<1> QED BY <1>1, TrackedInit, TrackedStep, TuiInductive, PTL DEF Spec

(* ------------------------- the dashboard descends ------------------------ *)

\* How far the engine is from the next node or its end.
Stage == CASE pc = "begin"            -> 5
           [] pc = "ask"              -> 4
           [] pc \in {"work", "wait"} -> 3
           [] pc = "next"             -> 2
           [] OTHER                   -> 1

\* The dashboard, the budget of the engine and the agents, the engine's place, the
\* events to forward, the gate bridge, the questions to relay, the messages to show,
\* the prompt on display and the responses to relay: each hands its work on to what
\* stands behind it.
TuiRank == <<One(~closed), MaxSteps - (steps + talk), Stage, Len(events) - read, One(bridging),
             Len(questions), Len(inbox), One(overlay # 0), Len(responses)>>

TuiDescends == [][Lower(TuiRank', TuiRank)]_vars

\* The parts of the rank are numbers.
LEMMA TuiRankTyped ==
  ASSUME TuiTypeOK
  PROVE  TuiRank \in [1 .. 9 -> Nat]
<1>1. /\ MaxSteps - (steps + talk) \in Nat /\ Len(events) - read \in Nat
      /\ Len(questions) \in Nat /\ Len(inbox) \in Nat /\ Len(responses) \in Nat
  <2>1. /\ steps \in 0 .. MaxSteps /\ talk \in 0 .. MaxSteps - steps
        /\ read \in 0 .. Len(events) /\ Len(events) \in Nat
    BY LenProperties DEF TuiTypeOK
  <2>2. Len(questions) \in Nat /\ Len(inbox) \in Nat /\ Len(responses) \in Nat
    BY LenProperties DEF TuiTypeOK
  <2> QED BY <2>1, <2>2, TuiAssumption
<1>2. One(~closed) \in Nat /\ One(bridging) \in Nat /\ One(overlay # 0) \in Nat /\ Stage \in Nat
  BY DEF One, Stage
<1> QED BY <1>1, <1>2, SMTT(40) DEF TuiRank

\* Every step of the engine, the bridges, the dashboard and the user lowers it.
LEMMA TuiStepDescends ==
  ASSUME TuiTypeOK, Next
  PROVE  Lower(TuiRank', TuiRank)
<1> USE DEF TuiRank
<1>t. /\ steps \in 0 .. MaxSteps /\ talk \in 0 .. MaxSteps - steps
      /\ MaxSteps \in Nat /\ Capacity \in Nat \ {0}
      /\ events \in Seq(Event) /\ Len(events) \in Nat /\ read \in 0 .. Len(events)
      /\ questions \in Seq(1 .. MaxSteps) /\ inbox \in Seq(Event \cup Prompt)
      /\ responses \in Seq(1 .. MaxSteps)
  BY TuiAssumption, LenProperties DEF TuiTypeOK
<1>1. CASE UserQuits \/ AutoQuit
  <2>1. ~closed /\ closed'
    BY <1>1 DEF UserQuits, AutoQuit, Close
  <2>2. One(~closed)' < One(~closed)
    BY <2>1 DEF One
  <2> QED BY <2>2, LowerOfNine, SMTT(40)
<1>2. ASSUME NEW n \in Node, StartNode(n) \/ Talk(n) PROVE Lower(TuiRank', TuiRank)
  <2>1. closed' = closed /\ steps' + talk' = steps + talk + 1
    BY <1>t, <1>2 DEF StartNode, Talk
  <2>2. /\ One(~closed)' = One(~closed)
        /\ MaxSteps - (steps' + talk') < MaxSteps - (steps + talk)
    BY <1>t, <2>1
  <2> QED BY <2>2, LowerOfNine, SMTT(40)
<1>3. CASE Begin \/ WorkReturns \/ Ask \/ GateReturns \/ GateTimesOut \/ EndRun
  <2>1. closed' = closed /\ steps' = steps /\ talk' = talk
    BY <1>3 DEF Begin, WorkReturns, Ask, GateReturns, GateTimesOut, EndRun, Report
  <2>2. One(~closed)' = One(~closed) /\ MaxSteps - (steps' + talk') = MaxSteps - (steps + talk)
    BY <2>1
  <2>3. Stage' < Stage
    BY <1>3 DEF Begin, WorkReturns, Ask, GateReturns, GateTimesOut, EndRun, Report, Stage
  <2> QED BY <2>2, <2>3, LowerOfNine, SMTT(40)
<1>4. CASE ForwardEvent \/ ForwardQuestion \/ RelayResponse \/ BridgeEnds \/ Update \/ Respond
  <2>1. UNCHANGED <<closed, steps, talk, pc, events>>
    BY <1>4 DEF ForwardEvent, ForwardQuestion, RelayResponse, BridgeEnds, Update, Respond,
                engineVars
  <2>2. /\ One(~closed)' = One(~closed)
        /\ MaxSteps - (steps' + talk') = MaxSteps - (steps + talk)
        /\ Stage' = Stage
    BY <2>1 DEF Stage
  <2>3. CASE ForwardEvent
    <3>1. read' = NextEvent /\ read < Len(events)
      BY <2>3 DEF ForwardEvent
    <3>2. NextEvent \in read + 1 .. Len(events)
      BY <1>t, <3>1 DEF NextEvent, Oldest
    <3>3. (Len(events) - read)' < Len(events) - read
      BY <1>t, <2>1, <3>1, <3>2
    <3> QED BY <2>2, <3>3, LowerOfNine, SMTT(40)
  <2>4. CASE BridgeEnds
    <3>1. UNCHANGED read /\ bridging /\ ~bridging'
      BY <2>4 DEF BridgeEnds
    <3>2. (Len(events) - read)' = Len(events) - read /\ One(bridging)' < One(bridging)
      BY <2>1, <3>1 DEF One
    <3> QED BY <2>2, <3>2, LowerOfNine, SMTT(40)
  <2>5. CASE ForwardQuestion
    <3>1. UNCHANGED <<read, bridging>> /\ questions # <<>> /\ questions' = Tail(questions)
      BY <2>5 DEF ForwardQuestion, CanTake
    <3>2. /\ (Len(events) - read)' = Len(events) - read /\ One(bridging)' = One(bridging)
          /\ Len(questions') < Len(questions)
      BY <1>t, <2>1, <3>1
    <3> QED BY <2>2, <3>2, LowerOfNine, SMTT(40)
  <2>6. CASE Update
    <3>1. UNCHANGED <<read, bridging, questions>> /\ inbox # <<>> /\ inbox' = Tail(inbox)
      BY <2>6 DEF Update, bridgeVars
    <3>2. /\ (Len(events) - read)' = Len(events) - read /\ One(bridging)' = One(bridging)
          /\ Len(questions)' = Len(questions) /\ Len(inbox') < Len(inbox)
      BY <1>t, <2>1, <3>1
    <3> QED BY <2>2, <3>2, LowerOfNine, SMTT(40)
  <2>7. CASE Respond
    <3>1. UNCHANGED <<read, bridging, questions, inbox>> /\ overlay # 0 /\ overlay' = 0
      BY <2>7 DEF Respond, Clear, bridgeVars
    <3>2. /\ (Len(events) - read)' = Len(events) - read /\ One(bridging)' = One(bridging)
          /\ Len(questions)' = Len(questions) /\ Len(inbox)' = Len(inbox)
          /\ One(overlay # 0)' < One(overlay # 0)
      BY <2>1, <3>1 DEF One
    <3> QED BY <2>2, <3>2, LowerOfNine, SMTT(40)
  <2>8. CASE RelayResponse
    <3>1. /\ UNCHANGED <<read, bridging, questions, inbox, overlay>>
          /\ responses # <<>> /\ responses' = Tail(responses)
      BY <2>8 DEF RelayResponse
    <3>2. /\ (Len(events) - read)' = Len(events) - read /\ One(bridging)' = One(bridging)
          /\ Len(questions)' = Len(questions) /\ Len(inbox)' = Len(inbox)
          /\ One(overlay # 0)' = One(overlay # 0) /\ Len(responses') < Len(responses)
      BY <1>t, <2>1, <3>1
    <3> QED BY <2>2, <3>2, LowerOfNine, SMTT(40)
  <2> QED BY <1>4, <2>3, <2>4, <2>5, <2>6, <2>7, <2>8
<1> QED BY <1>1, <1>2, <1>3, <1>4 DEF Next, Engine

\* An interactive run takes finitely many steps, whatever the user enters or
\* ignores and however the four tasks are scheduled: every event, question,
\* message and response is handled once and handed on in one direction only
\* (run.rs:1156-1235).
THEOREM DashboardDescends == Spec => [](TuiRank \in [1 .. 9 -> Nat]) /\ TuiDescends
<1>1. TuiTypeOK => TuiRank \in [1 .. 9 -> Nat]
  BY TuiRankTyped
<1>2. TuiTypeOK /\ [Next]_vars => [Lower(TuiRank', TuiRank)]_vars
  BY TuiStepDescends
<1> QED BY <1>1, <1>2, TuiTypeCorrect, PTL DEF Spec, TuiDescends
=============================================================================
