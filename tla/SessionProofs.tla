---------------------------- MODULE SessionProofs ----------------------------
(***************************************************************************)
(* Theorems about AgentSession, for any tools, limits and number of inputs *)
(* and any size of the detector's window.                                  *)
(***************************************************************************)
EXTENDS AgentSession, Induction

(* -------------------------- the inductive invariant --------------------- *)

\* A call that sleeps has a retry left.
RetryLeft == llm = "waiting" => attempt < MaxRetries

\* A session in the middle of an input is active; at a round of tools it is
\* below its limit, elsewhere no calls are left; whenever the LLM may be called
\* the request is the conversation.
InputState ==
  /\ at # "idle" => active
  /\ at = "tools" => turn < MaxTurns
  /\ at # "tools" => calls = <<>>
  /\ at \in {"top", "llm"} => request = messages

\* Responses are numbered by their turns; results belong to turns below the limit.
TurnsNumbered ==
  /\ \A p \in DOMAIN messages :
       /\ messages[p].turn <= turn
       /\ messages[p].kind = "result" => messages[p].turn < MaxTurns
  /\ \A p, q \in DOMAIN messages :
       messages[p].kind = "assistant" /\ messages[q].kind = "assistant"
         /\ messages[p].turn = messages[q].turn => p = q

\* The response at p is the one whose round is under way: its first calls are
\* answered and nothing but their results and warnings came after it.
UnderWay(p) ==
  /\ messages[p].kind = "assistant"
  /\ messages[p].turn = turn
  /\ messages[p].n = Len(calls)
  /\ Answered(messages, p, taken)
  /\ \A i \in taken + 1 .. Len(calls) : ResultsOf(messages, p, i) = {}
  /\ \A k \in p + 1 .. Len(messages) : messages[k].kind \in {"result", "warning"}

\* All other calls of a session that may go on are answered.
RoundsAnswered ==
  /\ at = "tools" => \E p \in DOMAIN messages : UnderWay(p)
  /\ active => \A p \in DOMAIN messages :
       messages[p].kind = "assistant" =>
         \/ at = "tools" /\ messages[p].turn = turn
         \/ Answered(messages, p, messages[p].n)

SessionInv ==
  /\ SessionTypeOK
  /\ RetryLeft
  /\ InputState
  /\ TurnsNumbered
  /\ RoundsAnswered

(* ----------------------------- conversations ---------------------------- *)

\* Messages are messages.
LEMMA MsgTyped ==
  ASSUME NEW k \in {"user", "steer", "assistant", "result", "warning"}, NEW t \in Nat,
         NEW n \in Nat, NEW tool \in Tool \cup {NoTool}
  PROVE  /\ Msg(k, t, n, tool) \in Message
         /\ Msg(k, t, n, tool).kind = k
         /\ Msg(k, t, n, tool).turn = t
         /\ Msg(k, t, n, tool).n = n
BY DEF Msg, Message

\* What is added to a conversation comes after what was said.
LEMMA Longer ==
  ASSUME NEW ms \in Seq(Message), NEW extra \in Seq(Message)
  PROVE  /\ ms \o extra \in Seq(Message)
         /\ Len(ms) \in Nat /\ Len(extra) \in Nat
         /\ Len(ms \o extra) = Len(ms) + Len(extra)
         /\ DOMAIN ms = 1 .. Len(ms)
         /\ DOMAIN extra = 1 .. Len(extra)
         /\ DOMAIN (ms \o extra) = 1 .. Len(ms) + Len(extra)
         /\ \A q \in DOMAIN ms : (ms \o extra)[q] = ms[q]
         /\ \A q \in DOMAIN (ms \o extra) \ DOMAIN ms :
              q - Len(ms) \in DOMAIN extra /\ (ms \o extra)[q] = extra[q - Len(ms)]
<1>1. /\ ms \o extra \in Seq(Message)
      /\ Len(ms \o extra) = Len(ms) + Len(extra)
      /\ \A i \in 1 .. Len(ms) + Len(extra) :
           (ms \o extra)[i] = IF i <= Len(ms) THEN ms[i] ELSE extra[i - Len(ms)]
  BY ConcatProperties
<1>2. Len(ms) \in Nat /\ Len(extra) \in Nat /\ DOMAIN ms = 1 .. Len(ms)
      /\ DOMAIN extra = 1 .. Len(extra)
  OBVIOUS
<1>3. DOMAIN (ms \o extra) = 1 .. Len(ms) + Len(extra)
  BY <1>1
<1> QED BY <1>1, <1>2, <1>3

\* Adding no result of the response at p leaves its results alone.
LEMMA ResultsStay ==
  ASSUME NEW ms \in Seq(Message), NEW extra \in Seq(Message), NEW p \in DOMAIN ms, NEW i,
         \A e \in DOMAIN extra :
           ~(extra[e].kind = "result" /\ extra[e].turn = ms[p].turn /\ extra[e].n = i)
  PROVE  ResultsOf(ms \o extra, p, i) = ResultsOf(ms, p, i)
<1> DEFINE new == ms \o extra
<1>1. /\ \A q \in DOMAIN ms : q \in DOMAIN new /\ new[q] = ms[q]
      /\ \A q \in DOMAIN new \ DOMAIN ms :
           q - Len(ms) \in DOMAIN extra /\ new[q] = extra[q - Len(ms)]
  BY Longer
<1> HIDE DEF new
<1>2. ResultsOf(new, p, i) = ResultsOf(ms, p, i)
  BY <1>1 DEF ResultsOf
<1> QED BY <1>2 DEF new

\* Calls that are answered stay so.
LEMMA AnsweredStays ==
  ASSUME NEW ms \in Seq(Message), NEW extra \in Seq(Message), NEW p \in DOMAIN ms,
         NEW n \in Nat, Answered(ms, p, n),
         \A e \in DOMAIN extra :
           ~(extra[e].kind = "result" /\ extra[e].turn = ms[p].turn /\ extra[e].n \in 1 .. n)
  PROVE  Answered(ms \o extra, p, n)
<1> SUFFICES ASSUME NEW i \in 1 .. n
             PROVE  \E q \in DOMAIN (ms \o extra) :
                      /\ ResultsOf(ms \o extra, p, i) = {q}
                      /\ p < q
                      /\ \A k \in p + 1 .. q : (ms \o extra)[k].kind \in {"result", "warning"}
  BY DEF Answered
<1>1. PICK q \in DOMAIN ms :
        /\ ResultsOf(ms, p, i) = {q}
        /\ p < q
        /\ \A k \in p + 1 .. q : ms[k].kind \in {"result", "warning"}
  BY DEF Answered
<1>2. ResultsOf(ms \o extra, p, i) = {q}
  BY <1>1, ResultsStay
<1>3. q \in DOMAIN (ms \o extra) /\ \A k \in p + 1 .. q : k \in DOMAIN ms
  BY Longer
<1>4. \A k \in p + 1 .. q : (ms \o extra)[k] = ms[k]
  BY <1>3, Longer
<1> QED BY <1>1, <1>2, <1>3, <1>4

\* The result of the next call, put behind the results before it, answers it.
LEMMA AnsweredNext ==
  ASSUME NEW ms \in Seq(Message), NEW p \in DOMAIN ms, NEW n \in Nat, NEW res \in Message,
         Answered(ms, p, n), ResultsOf(ms, p, n + 1) = {},
         \A k \in p + 1 .. Len(ms) : ms[k].kind \in {"result", "warning"},
         res.kind = "result", res.turn = ms[p].turn, res.n = n + 1
  PROVE  Answered(ms \o <<res>>, p, n + 1)
<1> DEFINE new == ms \o <<res>>
           last == Len(ms) + 1
<1>0. <<res>> \in Seq(Message) /\ Len(<<res>>) = 1 /\ <<res>>[1] = res /\ DOMAIN <<res>> = {1}
  OBVIOUS
<1>1. /\ new \in Seq(Message) /\ Len(ms) \in Nat
      /\ DOMAIN ms = 1 .. Len(ms) /\ DOMAIN new = 1 .. last
      /\ \A q \in DOMAIN ms : new[q] = ms[q]
      /\ new[last] = res
  <2>1. DOMAIN new = 1 .. Len(ms) + 1 /\ new \in Seq(Message)
    BY <1>0, Longer
  <2>2. last \in DOMAIN new \ DOMAIN ms /\ last - Len(ms) = 1
    BY <2>1, <1>0, Longer
  <2>3. new[last] = <<res>>[last - Len(ms)]
    BY <1>0, <2>2, Longer
  <2> QED BY <1>0, <2>1, <2>2, <2>3, Longer
<1>2. Answered(new, p, n)
  <2>1. \A e \in DOMAIN <<res>> : <<res>>[e].n \notin 1 .. n
    BY <1>0
  <2> QED BY <1>0, <2>1, AnsweredStays
<1>3. ResultsOf(new, p, n + 1) = {last}
  <2> HIDE DEF new
  <2>1. \A q \in DOMAIN ms : q \notin ResultsOf(new, p, n + 1)
    BY <1>1 DEF ResultsOf
  <2>2. last \in ResultsOf(new, p, n + 1)
    BY <1>1 DEF ResultsOf
  <2>3. \A q \in DOMAIN new : q \in DOMAIN ms \/ q = last
    BY <1>1
  <2> QED BY <2>1, <2>2, <2>3 DEF ResultsOf
<1>4. p < last /\ \A k \in p + 1 .. last : new[k].kind \in {"result", "warning"}
  <2> HIDE DEF new
  <2> QED BY <1>1
<1>5. \A i \in 1 .. n + 1 : i \in 1 .. n \/ i = n + 1
  OBVIOUS
<1> HIDE DEF new
<1>6. Answered(new, p, n + 1)
  <2> SUFFICES ASSUME NEW i \in 1 .. n + 1
               PROVE  \E q \in DOMAIN new :
                        /\ ResultsOf(new, p, i) = {q}
                        /\ p < q
                        /\ \A k \in p + 1 .. q : new[k].kind \in {"result", "warning"}
    BY DEF Answered
  <2>1. CASE i \in 1 .. n
    BY <1>2, <2>1 DEF Answered
  <2>2. CASE i = n + 1
    <3>1. last \in DOMAIN new
      BY <1>1
    <3> QED BY <1>3, <1>4, <2>2, <3>1
  <2> QED BY <1>5, <2>1, <2>2
<1> QED BY <1>6 DEF new

(* ------------------------- what a step changes -------------------------- *)

\* Steps that say nothing.
Silent ==
  /\ UNCHANGED <<messages, turn, calls, taken, window, steering>>
  /\ request' = request
  /\ at' = "tools" <=> at = "tools"
  /\ at' \in {"top", "llm"} => at \in {"top", "llm"}
  /\ at' # "idle" => active' /\ at # "idle"
  /\ active' => active

\* Steps of the owner's words: they leave nothing but a request to be sent.
Speaks ==
  /\ \E extra \in Seq(Message) :
       /\ messages' = messages \o extra
       /\ \A e \in DOMAIN extra : extra[e].kind \in {"user", "steer"} /\ extra[e].turn = turn
  /\ request' = messages'
  /\ UNCHANGED <<turn, window, active>>
  /\ steering' = <<>>
  /\ at' = "top"
  /\ \/ at = "idle" /\ active /\ UNCHANGED <<calls, taken>>
     \/ at = "tools" /\ taken = Len(calls) /\ calls' = <<>> /\ taken' = 0

\* What was steered becomes messages.
LEMMA SteeredTyped ==
  ASSUME SessionTypeOK
  PROVE  /\ Steered \in Seq(Message)
         /\ \A i \in DOMAIN Steered : Steered[i].kind = "steer" /\ Steered[i].turn = turn
<1>1. steering \in Seq(1 .. MaxSaid) /\ turn \in Nat /\ NoTool \in Tool \cup {NoTool}
  BY DEF SessionTypeOK
<1>2. DOMAIN steering = 1 .. Len(steering) /\ Len(steering) \in Nat
      /\ \A i \in DOMAIN steering : steering[i] \in Nat
  <2>1. DOMAIN steering = 1 .. Len(steering) /\ Len(steering) \in Nat
    BY <1>1
  <2>2. \A i \in DOMAIN steering : steering[i] \in 1 .. MaxSaid
    BY <1>1, <2>1, ElementOfSeq
  <2>3. 1 .. MaxSaid \subseteq Nat
    BY SessionAssumption
  <2> QED BY <2>1, <2>2, <2>3
<1>3. \A i \in DOMAIN steering : /\ Msg("steer", turn, steering[i], NoTool) \in Message
                                 /\ Msg("steer", turn, steering[i], NoTool).kind = "steer"
                                 /\ Msg("steer", turn, steering[i], NoTool).turn = turn
  BY <1>1, <1>2, MsgTyped
<1>4. Steered = [i \in 1 .. Len(steering) |-> Msg("steer", turn, steering[i], NoTool)]
  BY <1>2 DEF Steered
<1>5. Steered \in Seq(Message)
  BY <1>2, <1>3, <1>4
<1> QED BY <1>2, <1>3, <1>5 DEF Steered

\* An input says itself and what was steered before it.
LEMMA InputSpeaks ==
  ASSUME SessionTypeOK, ProcessInput
  PROVE  Speaks /\ said' \in 0 .. MaxSaid
<1> DEFINE msg == Msg("user", turn, said + 1, NoTool)
           extra == <<msg>> \o Steered
<1>1. turn \in Nat /\ said \in 0 .. MaxSaid /\ messages \in Seq(Message) /\ MaxSaid \in Nat
  BY SessionAssumption DEF SessionTypeOK
<1>2. msg \in Message /\ msg.kind = "user" /\ msg.turn = turn
  BY <1>1, MsgTyped
<1> HIDE DEF msg
<1>3. <<msg>> \in Seq(Message) /\ DOMAIN <<msg>> = {1} /\ Len(<<msg>>) = 1 /\ <<msg>>[1] = msg
  BY <1>2
<1>4. extra \in Seq(Message) /\ messages \o extra = messages \o <<msg>> \o Steered
  BY <1>1, <1>3, SteeredTyped, ConcatAssociative
<1>5. \A e \in DOMAIN extra : extra[e].kind \in {"user", "steer"} /\ extra[e].turn = turn
  <2> SUFFICES ASSUME NEW e \in DOMAIN extra
               PROVE  extra[e].kind \in {"user", "steer"} /\ extra[e].turn = turn
    OBVIOUS
  <2>1. CASE e \in DOMAIN <<msg>>
    BY <1>2, <1>3, <2>1, SteeredTyped, Longer
  <2>2. CASE e \notin DOMAIN <<msg>>
    <3>1. e - 1 \in DOMAIN Steered /\ extra[e] = Steered[e - 1]
      BY <1>3, <2>2, SteeredTyped, Longer
    <3> QED BY <3>1, SteeredTyped
  <2> QED BY <2>1, <2>2
<1>6. /\ messages' = messages \o <<msg>> \o Steered
      /\ request' = messages' /\ at' = "top" /\ at = "idle" /\ active
      /\ UNCHANGED <<turn, window, active, calls, taken>>
      /\ steering' = <<>> /\ said' = said + 1 /\ said < MaxSaid
  BY DEF ProcessInput, toolVars, msg
<1> HIDE DEF extra
<1>7. messages' = messages \o extra
  BY <1>4, <1>6
<1>8. said' \in 0 .. MaxSaid
  BY <1>1, <1>6
<1> QED BY <1>4, <1>5, <1>6, <1>7, <1>8 DEF Speaks

\* The end of a round says what was steered.
LEMMA RoundSpeaks ==
  ASSUME SessionTypeOK, NextRound
  PROVE  Speaks
BY SteeredTyped DEF NextRound, RoundIsOver, Speaks

\* Every step is one that says nothing, one that says something, a response, or
\* the taking of a result.
LEMMA StepKinds ==
  ASSUME SessionInv, [Next]_vars
  PROVE  \/ Silent
         \/ Steer
         \/ Speaks
         \/ \E round \in Rounds : Response(round)
         \/ Collect
<1>1. CASE UNCHANGED vars
  BY <1>1 DEF SessionInv, InputState, Silent, vars, conversationVars, toolVars, sessionVars
<1>2. CASE ProcessInput
  BY <1>2, InputSpeaks DEF SessionInv
<1>3. CASE NextRound
  BY <1>3, RoundSpeaks DEF SessionInv
<1>4. CASE Cancel
  BY <1>4 DEF SessionInv, InputState, Cancel, Silent, conversationVars, toolVars
<1>5. CASE StopAtTop \/ Call
  BY <1>5 DEF SessionInv, InputState, StopAtTop, Call, End, Return, Silent,
              conversationVars, toolVars
<1>6. CASE Retry \/ CallFails \/ AttemptError
  BY <1>6 DEF SessionInv, InputState, Retry, CallFails, AttemptError, Return, Silent,
              conversationVars, toolVars, sessionVars
<1>7. CASE ToolAnswers
  BY <1>7 DEF SessionInv, InputState, ToolAnswers, ToolReturns, Silent,
              conversationVars, sessionVars
<1> QED BY <1>1, <1>2, <1>3, <1>4, <1>5, <1>6, <1>7 DEF Next, SessionStep, ProviderAnswers

(* --------------------------- the type invariant ------------------------- *)

\* A call and its retries.
LEMMA LlmStep ==
  ASSUME LlmTypeOK, RetryLeft, [Next]_vars
  PROVE  LlmTypeOK' /\ RetryLeft'
<1>1. MaxRetries \in Nat /\ attempt \in 0 .. MaxRetries
  BY RetryAssumption DEF LlmTypeOK
<1>2. CASE UNCHANGED llmVars
  BY <1>2 DEF llmVars, LlmTypeOK, RetryLeft
<1>3. CASE Begin \/ Responds \/ Fails
  BY <1>1, <1>3 DEF Begin, Responds, Fails, LlmTypeOK, RetryLeft
<1>4. CASE AttemptFails
  BY <1>1, <1>4 DEF AttemptFails, LlmTypeOK, RetryLeft
<1>5. CASE Retries
  BY <1>1, <1>5 DEF Retries, LlmTypeOK, RetryLeft
<1>6. \/ UNCHANGED llmVars
      \/ Begin \/ Responds \/ Fails \/ AttemptFails \/ Retries
  BY DEF Next, vars, ProcessInput, Steer, Cancel, SessionStep, ProviderAnswers, ToolAnswers,
         StopAtTop, Call, Retry, CallFails, Collect, NextRound, AttemptError, Response,
         ToolReturns
<1> QED BY <1>2, <1>3, <1>4, <1>5, <1>6

\* A round of calls.
LEMMA RoundTyped ==
  ASSUME NEW round \in Rounds
  PROVE  round \in Seq(Tool) /\ Len(round) \in Nat /\ DOMAIN round = 1 .. Len(round)
<1>1. PICK n \in 0 .. MaxRound : round \in [1 .. n -> Tool]
  BY DEF Rounds
<1>2. n \in Nat
  BY SessionAssumption
<1>3. round \in Seq(Tool)
  BY <1>1, <1>2
<1> QED BY <1>3

\* A response becomes a message.
LEMMA ResponseSays ==
  ASSUME SessionTypeOK, NEW round \in Rounds, Response(round)
  PROVE  /\ Msg("assistant", turn + 1, Len(round), NoTool) \in Message
         /\ messages' = messages \o <<Msg("assistant", turn + 1, Len(round), NoTool)>>
         /\ turn' = turn + 1
         /\ UNCHANGED <<request, steering, said, returned, taken, window, cancelled>>
<1>1. turn + 1 \in Nat /\ Len(round) \in Nat /\ messages \in Seq(Message)
  BY RoundTyped DEF SessionTypeOK
<1>2. Msg("assistant", turn + 1, Len(round), NoTool) \in Message
  BY <1>1, MsgTyped
<1>3. Append(messages, Msg("assistant", turn + 1, Len(round), NoTool))
        = messages \o <<Msg("assistant", turn + 1, Len(round), NoTool)>>
  BY <1>1, <1>2, AppendIsConcat
<1> QED BY <1>2, <1>3 DEF Response

\* A result becomes a message, perhaps with a warning behind it.
LEMMA CollectSays ==
  ASSUME SessionTypeOK, Collect
  PROVE  /\ Result \in Message /\ Result.kind = "result" /\ Result.turn = turn
         /\ Result.n = taken + 1
         /\ \E extra \in Seq(Message) :
              /\ messages' = (messages \o <<Result>>) \o extra
              /\ \A e \in DOMAIN extra : extra[e].kind = "warning" /\ extra[e].turn = turn
         /\ taken' = taken + 1 /\ taken' \in 0 .. Len(calls)
         /\ UNCHANGED <<calls, returned, request, turn, steering, said, active, at, answer, cancelled>>
<1>1. /\ turn \in Nat /\ messages \in Seq(Message) /\ calls \in Seq(Tool)
      /\ taken \in 0 .. Len(calls) /\ taken < Len(calls)
  BY DEF SessionTypeOK, Collect
<1>2. taken + 1 \in 1 .. Len(calls) /\ taken + 1 \in 0 .. Len(calls) /\ taken + 1 \in Nat
  <2>1. Len(calls) \in Nat
    BY <1>1
  <2> QED BY <1>1, <2>1
<1>3. calls[taken + 1] \in Tool
  BY <1>1, <1>2, ElementOfSeq
<1>4. Result \in Message /\ Result.kind = "result" /\ Result.turn = turn /\ Result.n = taken + 1
  <2> DEFINE tool == calls[taken + 1]
             n == taken + 1
  <2>1. tool \in Tool \cup {NoTool} /\ n \in Nat
    BY <1>2, <1>3
  <2> HIDE DEF tool, n
  <2>2. Msg("result", turn, n, tool) \in Message
    BY <1>1, <2>1, MsgTyped
  <2>3. /\ Msg("result", turn, n, tool).kind = "result"
        /\ Msg("result", turn, n, tool).turn = turn
        /\ Msg("result", turn, n, tool).n = n
    BY DEF Msg
  <2> QED BY <2>2, <2>3 DEF Result, tool, n
<1> DEFINE warning == Msg("warning", turn, 0, NoTool)
<1>5. warning \in Message /\ warning.kind = "warning" /\ warning.turn = turn
  BY <1>1, MsgTyped
<1>6. messages' = messages \o <<Result, warning>> \/ messages' = messages \o <<Result>>
  BY DEF Collect, TakeResult
<1> HIDE DEF warning
<1>7. /\ <<Result, warning>> = <<Result>> \o <<warning>>
      /\ <<Result>> \in Seq(Message) /\ <<warning>> \in Seq(Message)
      /\ DOMAIN <<warning>> = {1} /\ <<warning>>[1] = warning
  BY <1>4, <1>5
<1>8. messages \o <<Result, warning>> = (messages \o <<Result>>) \o <<warning>>
  BY <1>1, <1>7, ConcatAssociative
<1>9. messages \o <<Result>> = (messages \o <<Result>>) \o <<>>
  <2>1. messages \o <<Result>> \in Seq(Message)
    BY <1>1, <1>7, Longer
  <2> QED BY <2>1, ConcatEmptySeq
<1>10. \E extra \in Seq(Message) :
         /\ messages' = (messages \o <<Result>>) \o extra
         /\ \A e \in DOMAIN extra : extra[e].kind = "warning" /\ extra[e].turn = turn
  <2>1. CASE messages' = messages \o <<Result, warning>>
    BY <1>5, <1>7, <1>8, <2>1
  <2>2. CASE messages' = messages \o <<Result>>
    <3>1. <<>> \in Seq(Message) /\ DOMAIN <<>> = {}
      OBVIOUS
    <3> QED BY <1>9, <2>2, <3>1
  <2> QED BY <1>6, <2>1, <2>2
<1> QED BY <1>2, <1>4, <1>10 DEF Collect, TakeResult, sessionVars

\* The window drops what it has no room for.
LEMMA RecordedTyped ==
  ASSUME NEW h \in Seq(Tool), NEW sig \in Tool
  PROVE  Recorded(h, sig) \in Seq(Tool) /\ Len(Recorded(h, sig)) <= WindowSize
<1> DEFINE s == Append(h, sig)
           n == Len(s)
<1>1. s \in Seq(Tool) /\ n \in Nat /\ WindowSize \in Nat \ {0}
  BY DetectorAssumption
<1>2. \A i \in 1 .. n : s[i] \in Tool
  BY <1>1, ElementOfSeq
<1> HIDE DEF s, n
<1>3. CASE n > WindowSize
  <2>1. n - WindowSize + 1 \in Int /\ \A i \in n - WindowSize + 1 .. n : s[i] \in Tool
    BY <1>1, <1>2, <1>3
  <2>2. /\ SubSeq(s, n - WindowSize + 1, n) \in Seq(Tool)
        /\ Len(SubSeq(s, n - WindowSize + 1, n)) =
             IF n - WindowSize + 1 <= n THEN n - (n - WindowSize + 1) + 1 ELSE 0
    BY <1>1, <2>1, SubSeqProperties
  <2>3. Recorded(h, sig) = SubSeq(s, n - WindowSize + 1, n)
    BY <1>3 DEF Recorded, s, n
  <2>4. n - (n - WindowSize + 1) + 1 = WindowSize
    BY <1>1
  <2>5. Len(SubSeq(s, n - WindowSize + 1, n)) <= WindowSize
    BY <1>1, <2>2, <2>4
  <2> QED BY <2>2, <2>3, <2>5
<1>4. CASE ~(n > WindowSize)
  <2>1. Recorded(h, sig) = s
    BY <1>4 DEF Recorded, s, n
  <2> QED BY <1>1, <1>4, <2>1 DEF n
<1> QED BY <1>3, <1>4

\* The conversation and what is to be added to it.
LEMMA ConversationTyped ==
  ASSUME SessionInv, [Next]_vars
  PROVE  /\ messages' \in Seq(Message)
         /\ request' \in Seq(Message)
         /\ turn' \in Nat
         /\ steering' \in Seq(1 .. MaxSaid)
         /\ said' \in 0 .. MaxSaid
<1>0. /\ SessionTypeOK /\ messages \in Seq(Message) /\ request \in Seq(Message) /\ turn \in Nat
      /\ steering \in Seq(1 .. MaxSaid) /\ said \in 0 .. MaxSaid /\ MaxSaid \in Nat
  BY SessionAssumption DEF SessionInv, SessionTypeOK
<1>1. messages' \in Seq(Message) /\ request' \in Seq(Message) /\ turn' \in Nat
  <2>1. CASE Silent
    BY <1>0, <2>1 DEF Silent
  <2>2. CASE Steer
    BY <1>0, <2>2 DEF Steer
  <2>3. CASE Speaks
    BY <1>0, <2>3, Longer DEF Speaks
  <2>4. ASSUME NEW round \in Rounds, Response(round)
        PROVE  messages' \in Seq(Message) /\ request' \in Seq(Message) /\ turn' \in Nat
    <3> DEFINE msg == Msg("assistant", turn + 1, Len(round), NoTool)
    <3>1. msg \in Message /\ messages' = messages \o <<msg>> /\ turn' = turn + 1 /\ request' = request
      BY <1>0, <2>4, ResponseSays
    <3> HIDE DEF msg
    <3>2. <<msg>> \in Seq(Message)
      BY <3>1
    <3> QED BY <1>0, <3>1, <3>2, Longer
  <2>5. CASE Collect
    <3>1. /\ Result \in Message /\ UNCHANGED <<request, turn>>
          /\ \E extra \in Seq(Message) : messages' = (messages \o <<Result>>) \o extra
      BY <1>0, <2>5, CollectSays
    <3>2. <<Result>> \in Seq(Message)
      BY <3>1
    <3>3. messages \o <<Result>> \in Seq(Message)
      BY <1>0, <3>2, Longer
    <3> QED BY <1>0, <3>1, <3>3, Longer
  <2> QED BY <2>1, <2>2, <2>3, <2>4, <2>5, StepKinds
<1>2. steering' \in Seq(1 .. MaxSaid) /\ said' \in 0 .. MaxSaid
  <2>1. <<>> \in Seq(1 .. MaxSaid)
    OBVIOUS
  <2>2. CASE Steer
    <3>1. said + 1 \in 1 .. MaxSaid /\ said + 1 \in 0 .. MaxSaid
      BY <1>0, <2>2 DEF Steer
    <3>2. Append(steering, said + 1) \in Seq(1 .. MaxSaid)
      BY <1>0, <3>1
    <3> QED BY <2>2, <3>1, <3>2 DEF Steer
  <2>3. CASE ProcessInput
    BY <1>0, <2>1, <2>3, InputSpeaks DEF ProcessInput
  <2>4. CASE NextRound
    BY <1>0, <2>1, <2>4 DEF NextRound
  <2>5. ASSUME ~Steer, ~ProcessInput, ~NextRound
        PROVE  UNCHANGED <<steering, said>>
    BY <2>5 DEF Next, vars, Cancel, SessionStep, ProviderAnswers, ToolAnswers,
         StopAtTop, Call, Retry, CallFails, Collect, AttemptError, Response,
         ToolReturns, conversationVars
  <2> QED BY <1>0, <2>2, <2>3, <2>4, <2>5
<1> QED BY <1>1, <1>2

\* The round of tools.
LEMMA ToolsTyped ==
  ASSUME SessionInv, [Next]_vars
  PROVE  /\ calls' \in Seq(Tool)
         /\ returned' \subseteq DOMAIN calls'
         /\ taken' \in 0 .. Len(calls')
         /\ window' \in Seq(Tool) /\ Len(window') <= WindowSize
<1>0. /\ SessionTypeOK /\ calls \in Seq(Tool) /\ returned \subseteq DOMAIN calls
      /\ taken \in 0 .. Len(calls) /\ window \in Seq(Tool) /\ Len(window) <= WindowSize
      /\ WindowSize \in Nat \ {0}
  BY DetectorAssumption DEF SessionInv, SessionTypeOK
<1>1. window' \in Seq(Tool) /\ Len(window') <= WindowSize
  <2>1. CASE UNCHANGED window
    BY <1>0, <2>1
  <2>2. CASE Collect
    <3> DEFINE seen == Recorded(window, calls[taken + 1])
    <3>1. taken + 1 \in 1 .. Len(calls)
      <4>1. Len(calls) \in Nat /\ taken < Len(calls)
        BY <1>0, <2>2 DEF Collect
      <4> QED BY <1>0, <4>1
    <3>2. calls[taken + 1] \in Tool
      BY <1>0, <3>1, ElementOfSeq
    <3>3. seen \in Seq(Tool) /\ Len(seen) <= WindowSize
      BY <1>0, <3>2, RecordedTyped
    <3>4. window' = <<>> \/ window' = seen
      BY <2>2 DEF Collect, TakeResult
    <3> HIDE DEF seen
    <3>5. <<>> \in Seq(Tool) /\ Len(<<>>) <= WindowSize
      BY <1>0
    <3> QED BY <3>3, <3>4, <3>5
  <2>3. \A round \in Rounds : Response(round) => UNCHANGED window
    BY DEF Response
  <2> QED BY <2>1, <2>2, <2>3, StepKinds DEF Silent, Speaks, Steer, toolVars
<1>2. /\ calls' \in Seq(Tool)
      /\ returned' \subseteq DOMAIN calls'
      /\ taken' \in 0 .. Len(calls')
  <2>1. CASE UNCHANGED <<calls, returned, taken>>
    BY <1>0, <2>1
  <2>2. CASE ToolAnswers
    BY <1>0, <2>2 DEF ToolAnswers, ToolReturns
  <2>3. CASE Collect
    BY <1>0, <2>3, CollectSays
  <2>4. CASE RoundIsOver
    <3>1. <<>> \in Seq(Tool) /\ Len(<<>>) = 0
      OBVIOUS
    <3> QED BY <2>4, <3>1 DEF RoundIsOver
  <2>5. ASSUME NEW round \in Rounds, Response(round)
        PROVE  /\ calls' \in Seq(Tool)
               /\ returned' \subseteq DOMAIN calls'
               /\ taken' \in 0 .. Len(calls')
    <3>1. calls = <<>>
      BY <2>5 DEF SessionInv, InputState, Response
    <3>2. returned = {} /\ taken = 0
      BY <1>0, <3>1
    <3>3. calls' = calls \/ calls' = round
      BY <2>5 DEF Response, Proceed
    <3>4. calls' \in Seq(Tool) /\ Len(calls') \in Nat
      BY <1>0, <3>3, RoundTyped
    <3>5. returned' = {} /\ taken' = 0
      BY <2>5, <3>2 DEF Response
    <3> QED BY <3>4, <3>5
  <2>6. \/ UNCHANGED <<calls, returned, taken>>
        \/ ToolAnswers \/ Collect \/ RoundIsOver
        \/ \E round \in Rounds : Response(round)
    BY DEF Next, vars, ProcessInput, Steer, Cancel, SessionStep, ProviderAnswers,
           StopAtTop, Call, Retry, CallFails, NextRound, AttemptError, toolVars
  <2> QED BY <2>1, <2>2, <2>3, <2>4, <2>5, <2>6
<1> QED BY <1>1, <1>2

\* Where the session is, and what it answers.
LEMMA PlaceTyped ==
  ASSUME SessionTypeOK, [Next]_vars
  PROVE  /\ active' \in BOOLEAN
         /\ at' \in {"idle", "top", "llm", "tools"}
         /\ cancelled' \in BOOLEAN
         /\ answer' \in {"none", "Ok", "Llm", "TurnLimit", "Cancelled"}
<1> USE DEF SessionTypeOK, Next, vars, ProcessInput, Steer, Cancel, SessionStep,
            ProviderAnswers, ToolAnswers, StopAtTop, Call, Retry, CallFails, Collect,
            NextRound, RoundIsOver, AttemptError, Response, Proceed, ToolReturns, End,
            Return, sessionVars
<1>1. active' \in BOOLEAN
  OBVIOUS
<1>2. at' \in {"idle", "top", "llm", "tools"}
  OBVIOUS
<1>3. cancelled' \in BOOLEAN
  OBVIOUS
<1>4. answer' \in {"none", "Ok", "Llm", "TurnLimit", "Cancelled"}
  OBVIOUS
<1> QED BY <1>1, <1>2, <1>3, <1>4

\* Every step keeps the types.
LEMMA TypedStep ==
  ASSUME SessionInv, [Next]_vars
  PROVE  SessionTypeOK' /\ RetryLeft'
<1>1. LlmTypeOK' /\ RetryLeft'
  BY LlmStep DEF SessionInv, SessionTypeOK
<1>2. SessionTypeOK
  BY DEF SessionInv
<1> QED BY <1>1, <1>2, ConversationTyped, ToolsTyped, PlaceTyped DEF SessionTypeOK

(* ----------------------- inputs, turns and rounds ----------------------- *)

\* How a response goes on: only below the limit, and not after a cancellation,
\* its tools are executed.
LEMMA ResponseGoesOn ==
  ASSUME SessionInv, NEW round \in Rounds, Response(round)
  PROVE  /\ at = "llm" /\ active
         /\ \/ at' = "tools" /\ calls' = round /\ active' /\ turn' < MaxTurns /\ ~cancelled
            \/ at' = "idle" /\ calls' = <<>> /\ (active' => round = <<>>)
<1>1. turn \in Nat /\ MaxTurns \in Nat /\ turn' = turn + 1
  BY SessionAssumption DEF SessionInv, SessionTypeOK, Response
<1>2. at = "llm" /\ active /\ calls = <<>>
  BY DEF Response, SessionInv, InputState
<1>3. Proceed(round)
  BY DEF Response
<1>4. CASE round = <<>> /\ Return("Ok") /\ UNCHANGED <<active, calls>>
  BY <1>2, <1>4 DEF Return
<1>5. CASE (End("TurnLimit") \/ End("Cancelled")) /\ UNCHANGED calls
  BY <1>2, <1>5 DEF End, Return
<1>6. CASE /\ ~AtLimit /\ ~StopsBeforeTools
           /\ at' = "tools" /\ calls' = round /\ UNCHANGED <<active, answer>>
  <2>1. turn' < MaxTurns
    BY <1>1, <1>6 DEF AtLimit
  <2>2. ~cancelled
    BY <1>6 DEF StopsBeforeTools
  <2> QED BY <1>2, <1>6, <2>1, <2>2
<1> QED BY <1>3, <1>4, <1>5, <1>6 DEF Proceed

\* Every step keeps an input's place in line with the session.
LEMMA InputStep ==
  ASSUME SessionInv, [Next]_vars
  PROVE  InputState'
<1>1. CASE Silent
  BY <1>1 DEF Silent, SessionInv, InputState
<1>2. CASE Steer
  BY <1>2 DEF Steer, SessionInv, InputState, toolVars, sessionVars
<1>3. CASE Speaks
  BY <1>3 DEF Speaks, SessionInv, InputState
<1>4. ASSUME NEW round \in Rounds, Response(round) PROVE InputState'
  BY <1>4, ResponseGoesOn DEF InputState
<1>5. CASE Collect
  <2>1. SessionTypeOK
    BY DEF SessionInv
  <2>2. UNCHANGED <<at, active, turn, calls>> /\ at = "tools"
    BY <1>5, <2>1, CollectSays DEF Collect
  <2> QED BY <2>2 DEF SessionInv, InputState
<1> QED BY <1>1, <1>2, <1>3, <1>4, <1>5, StepKinds

\* A message of a turn that has begun keeps the turns numbered, unless it is
\* another response of it or a result beyond the limit.
LEMMA TurnsExtend ==
  ASSUME NEW ms \in Seq(Message), NEW extra \in Seq(Message), NEW n \in Nat, NEW m \in Nat,
         n <= m,
         \A p \in DOMAIN ms : ms[p].turn <= n /\ (ms[p].kind = "result" => ms[p].turn < MaxTurns),
         \A p, q \in DOMAIN ms :
           ms[p].kind = "assistant" /\ ms[q].kind = "assistant" /\ ms[p].turn = ms[q].turn => p = q,
         \A e \in DOMAIN extra :
           /\ extra[e].turn <= m
           /\ extra[e].kind = "result" => extra[e].turn < MaxTurns
           /\ extra[e].kind = "assistant" => extra[e].turn > n /\ Len(extra) = 1
  PROVE  LET new == ms \o extra IN
         /\ \A p \in DOMAIN new :
              new[p].turn <= m /\ (new[p].kind = "result" => new[p].turn < MaxTurns)
         /\ \A p, q \in DOMAIN new :
              new[p].kind = "assistant" /\ new[q].kind = "assistant"
                /\ new[p].turn = new[q].turn => p = q
<1> DEFINE new == ms \o extra
<1>1. /\ \A q \in DOMAIN ms : new[q] = ms[q]
      /\ \A q \in DOMAIN new \ DOMAIN ms :
           q - Len(ms) \in DOMAIN extra /\ new[q] = extra[q - Len(ms)]
      /\ DOMAIN new = 1 .. Len(ms) + Len(extra)
      /\ DOMAIN ms = 1 .. Len(ms) /\ DOMAIN extra = 1 .. Len(extra)
      /\ Len(ms) \in Nat /\ Len(extra) \in Nat
  BY Longer
<1>2. \A p \in DOMAIN ms : ms[p].turn \in Nat
  <2>1. \A p \in DOMAIN ms : ms[p] \in Message
    BY <1>1, ElementOfSeq
  <2> QED BY <2>1 DEF Message
<1> HIDE DEF new
<1>3. \A p \in DOMAIN new :
        new[p].turn <= m /\ (new[p].kind = "result" => new[p].turn < MaxTurns)
  <2>1. ASSUME NEW p \in DOMAIN ms
        PROVE  new[p].turn <= m /\ (new[p].kind = "result" => new[p].turn < MaxTurns)
    BY <1>1, <1>2
  <2>2. ASSUME NEW p \in DOMAIN new \ DOMAIN ms
        PROVE  new[p].turn <= m /\ (new[p].kind = "result" => new[p].turn < MaxTurns)
    BY <1>1
  <2> QED BY <2>1, <2>2
<1>4. ASSUME NEW p \in DOMAIN new, NEW q \in DOMAIN new,
             new[p].kind = "assistant", new[q].kind = "assistant", new[p].turn = new[q].turn
      PROVE  p = q
  <2>1. CASE p \in DOMAIN ms /\ q \in DOMAIN ms
    BY <1>1, <1>4, <2>1
  <2>2. CASE p \notin DOMAIN ms /\ q \notin DOMAIN ms
    <3>1. p - Len(ms) \in DOMAIN extra /\ q - Len(ms) \in DOMAIN extra /\ Len(extra) = 1
      BY <1>1, <1>4, <2>2
    <3> QED BY <1>1, <3>1
  <2>3. \A a \in DOMAIN ms : \A b \in DOMAIN new \ DOMAIN ms :
          new[b].kind = "assistant" => new[a].turn # new[b].turn
    <3> SUFFICES ASSUME NEW a \in DOMAIN ms, NEW b \in DOMAIN new \ DOMAIN ms,
                        new[b].kind = "assistant"
                 PROVE  new[a].turn # new[b].turn
      OBVIOUS
    <3>1. ms[a].turn <= n /\ ms[a].turn \in Nat /\ new[a] = ms[a]
      BY <1>1, <1>2
    <3>2. new[b].turn > n
      BY <1>1
    <3> QED BY <3>1, <3>2
  <2> QED BY <1>4, <2>1, <2>2, <2>3
<1> QED BY <1>3, <1>4 DEF new

\* Every step keeps the numbers of the turns.
LEMMA TurnsStep ==
  ASSUME SessionInv, [Next]_vars
  PROVE  TurnsNumbered'
<1>0. /\ SessionTypeOK /\ messages \in Seq(Message) /\ turn \in Nat
      /\ \A p \in DOMAIN messages :
           messages[p].turn <= turn /\ (messages[p].kind = "result" => messages[p].turn < MaxTurns)
      /\ \A p, q \in DOMAIN messages :
           messages[p].kind = "assistant" /\ messages[q].kind = "assistant"
             /\ messages[p].turn = messages[q].turn => p = q
  BY DEF SessionInv, SessionTypeOK, TurnsNumbered
<1>1. CASE UNCHANGED <<messages, turn>>
  BY <1>0, <1>1 DEF TurnsNumbered
<1>2. CASE Speaks
  <2>1. PICK extra \in Seq(Message) :
          /\ messages' = messages \o extra
          /\ \A e \in DOMAIN extra : extra[e].kind \in {"user", "steer"} /\ extra[e].turn = turn
    BY <1>2 DEF Speaks
  <2>2. turn' = turn
    BY <1>2 DEF Speaks
  <2>3. \A e \in DOMAIN extra :
          /\ extra[e].turn <= turn
          /\ extra[e].kind = "result" => extra[e].turn < MaxTurns
          /\ extra[e].kind = "assistant" => extra[e].turn > turn /\ Len(extra) = 1
    BY <1>0, <2>1
  <2> QED BY <1>0, <2>1, <2>2, <2>3, TurnsExtend DEF TurnsNumbered
<1>3. ASSUME NEW round \in Rounds, Response(round) PROVE TurnsNumbered'
  <2> DEFINE msg == Msg("assistant", turn + 1, Len(round), NoTool)
  <2>1. msg \in Message /\ messages' = messages \o <<msg>> /\ turn' = turn + 1
    BY <1>0, <1>3, ResponseSays
  <2>2. msg.kind = "assistant" /\ msg.turn = turn + 1
    BY DEF Msg
  <2> HIDE DEF msg
  <2>3. /\ <<msg>> \in Seq(Message)
        /\ \A e \in DOMAIN <<msg>> :
             /\ <<msg>>[e].turn <= turn + 1
             /\ <<msg>>[e].kind = "result" => <<msg>>[e].turn < MaxTurns
             /\ <<msg>>[e].kind = "assistant" => <<msg>>[e].turn > turn /\ Len(<<msg>>) = 1
    BY <1>0, <2>1, <2>2
  <2>4. turn + 1 \in Nat /\ turn <= turn + 1
    BY <1>0
  <2> QED BY <1>0, <2>1, <2>3, <2>4, TurnsExtend DEF TurnsNumbered
<1>4. CASE Collect
  <2>0. turn < MaxTurns
    BY <1>4 DEF Collect, SessionInv, InputState
  <2>1. Result \in Message /\ Result.kind = "result" /\ Result.turn = turn /\ turn' = turn
    BY <1>0, <1>4, CollectSays
  <2>2. PICK extra \in Seq(Message) :
          /\ messages' = (messages \o <<Result>>) \o extra
          /\ \A e \in DOMAIN extra : extra[e].kind = "warning" /\ extra[e].turn = turn
    BY <1>0, <1>4, CollectSays
  <2>3. <<Result>> \in Seq(Message) /\ DOMAIN <<Result>> = {1} /\ <<Result>>[1] = Result
        /\ Len(<<Result>>) = 1
    BY <2>1
  <2> DEFINE added == <<Result>> \o extra
  <2>4. added \in Seq(Message) /\ messages' = messages \o added
    BY <1>0, <2>2, <2>3, Longer, ConcatAssociative
  <2>5. \A e \in DOMAIN added : added[e].kind \in {"result", "warning"} /\ added[e].turn = turn
    <3> SUFFICES ASSUME NEW e \in DOMAIN added
                 PROVE  added[e].kind \in {"result", "warning"} /\ added[e].turn = turn
      OBVIOUS
    <3>1. CASE e \in DOMAIN <<Result>>
      BY <2>1, <2>3, <3>1, Longer
    <3>2. CASE e \notin DOMAIN <<Result>>
      <4>1. e - Len(<<Result>>) \in DOMAIN extra /\ added[e] = extra[e - Len(<<Result>>)]
        BY <2>3, <3>2, Longer
      <4> QED BY <2>2, <4>1
    <3> QED BY <3>1, <3>2
  <2> HIDE DEF added
  <2>6. \A e \in DOMAIN added :
          /\ added[e].turn <= turn
          /\ added[e].kind = "result" => added[e].turn < MaxTurns
          /\ added[e].kind = "assistant" => added[e].turn > turn /\ Len(added) = 1
    BY <1>0, <2>0, <2>5
  <2>7. turn' = turn
    BY <2>1
  <2>8. turn <= turn
    BY <1>0
  <2>9. LET new == messages \o added IN
        /\ \A p \in DOMAIN new :
             new[p].turn <= turn /\ (new[p].kind = "result" => new[p].turn < MaxTurns)
        /\ \A p, q \in DOMAIN new :
             new[p].kind = "assistant" /\ new[q].kind = "assistant"
               /\ new[p].turn = new[q].turn => p = q
    BY ONLY <1>0, <2>4, <2>6, <2>8, TurnsExtend
  <2> QED BY <2>4, <2>7, <2>9 DEF TurnsNumbered
<1> QED BY <1>1, <1>2, <1>3, <1>4, StepKinds DEF Silent, Steer

\* The calls of every response are answered.
AllAnswered ==
  \A p \in DOMAIN messages :
    messages[p].kind = "assistant" => Answered(messages, p, messages[p].n)

\* They are when no round is under way, and when its last result is taken.
LEMMA AllAnsweredNow ==
  ASSUME SessionInv, active, at # "tools" \/ taken = Len(calls)
  PROVE  AllAnswered
<1>1. CASE at # "tools"
  BY <1>1 DEF SessionInv, RoundsAnswered, AllAnswered
<1>2. CASE at = "tools" /\ taken = Len(calls)
  <2>1. PICK p \in DOMAIN messages : UnderWay(p)
    BY <1>2 DEF SessionInv, RoundsAnswered
  <2> SUFFICES ASSUME NEW q \in DOMAIN messages, messages[q].kind = "assistant"
               PROVE  Answered(messages, q, messages[q].n)
    BY DEF AllAnswered
  <2>2. CASE messages[q].turn = turn
    <3>1. q = p
      BY <2>1, <2>2 DEF UnderWay, SessionInv, TurnsNumbered
    <3> QED BY <1>2, <2>1, <3>1 DEF UnderWay
  <2>3. CASE messages[q].turn # turn
    BY <2>3 DEF SessionInv, RoundsAnswered
  <2> QED BY <2>2, <2>3
<1> QED BY <1>1, <1>2

\* The fields of what was said.
LEMMA SaidTyped ==
  ASSUME SessionTypeOK, NEW p \in DOMAIN messages
  PROVE  messages[p] \in Message /\ messages[p].n \in Nat /\ messages[p].turn \in Nat
<1>1. messages \in Seq(Message)
  BY DEF SessionTypeOK
<1>2. messages[p] \in Message
  BY <1>1, ElementOfSeq, LenProperties
<1> QED BY <1>2 DEF Message

\* Words of the owner leave the calls answered.
LEMMA SpeaksAnswered ==
  ASSUME SessionInv, Speaks
  PROVE  RoundsAnswered'
<1>0. SessionTypeOK /\ messages \in Seq(Message)
  BY DEF SessionInv, SessionTypeOK
<1>1. active /\ at' = "top" /\ AllAnswered
  BY AllAnsweredNow DEF Speaks, SessionInv, InputState
<1>2. PICK extra \in Seq(Message) :
        /\ messages' = messages \o extra
        /\ \A e \in DOMAIN extra : extra[e].kind \in {"user", "steer"} /\ extra[e].turn = turn
  BY DEF Speaks
<1>3. ASSUME NEW p \in DOMAIN messages', messages'[p].kind = "assistant"
      PROVE  Answered(messages', p, messages'[p].n)
  <2>1. p \in DOMAIN messages /\ messages'[p] = messages[p]
    <3>1. CASE p \in DOMAIN messages
      BY <1>0, <1>2, <3>1, Longer
    <3>2. CASE p \notin DOMAIN messages
      <4>1. p - Len(messages) \in DOMAIN extra /\ messages'[p] = extra[p - Len(messages)]
        BY <1>0, <1>2, <1>3, <3>2, Longer
      <4> QED BY <1>2, <1>3, <4>1
    <3> QED BY <3>1, <3>2
  <2>2. Answered(messages, p, messages[p].n) /\ messages[p].n \in Nat
    BY <1>0, <1>1, <1>3, <2>1, SaidTyped DEF AllAnswered
  <2>3. Answered(messages \o extra, p, messages[p].n)
    BY <1>0, <1>2, <2>1, <2>2, AnsweredStays
  <2> QED BY <1>2, <2>1, <2>3
<1> QED BY <1>1, <1>3 DEF RoundsAnswered

\* A response comes when all calls are answered, and its own are the next.
LEMMA ResponseAnswered ==
  ASSUME SessionInv, NEW round \in Rounds, Response(round)
  PROVE  RoundsAnswered'
<1> DEFINE msg == Msg("assistant", turn + 1, Len(round), NoTool)
<1>0. /\ SessionTypeOK /\ messages \in Seq(Message) /\ turn \in Nat /\ Len(round) \in Nat
      /\ Len(messages) \in Nat /\ at = "llm" /\ active /\ calls = <<>> /\ taken \in 0 .. Len(calls)
  BY RoundTyped, ResponseGoesOn DEF SessionInv, SessionTypeOK, InputState
<1> PICK last \in Nat : last = Len(messages) + 1
  BY <1>0
<1>1. AllAnswered
  BY <1>0, AllAnsweredNow
<1>2. msg \in Message /\ messages' = messages \o <<msg>> /\ turn' = turn + 1 /\ taken' = taken
  BY <1>0, ResponseSays
<1>3. msg.kind = "assistant" /\ msg.turn = turn + 1 /\ msg.n = Len(round)
  BY DEF Msg
<1> HIDE DEF msg
<1>4. <<msg>> \in Seq(Message) /\ DOMAIN <<msg>> = {1} /\ <<msg>>[1] = msg /\ Len(<<msg>>) = 1
  BY <1>2
<1>5. /\ DOMAIN messages = 1 .. Len(messages)
      /\ DOMAIN messages' = 1 .. last /\ Len(messages') = last
      /\ \A q \in DOMAIN messages : messages'[q] = messages[q]
      /\ messages'[last] = msg
  <2>1. last \in DOMAIN messages' \ DOMAIN messages /\ last - Len(messages) = 1
    BY <1>0, <1>2, <1>4, Longer
  <2> QED BY <1>0, <1>2, <1>4, <2>1, Longer
<1>6. ASSUME NEW p \in DOMAIN messages, messages[p].kind = "assistant"
      PROVE  Answered(messages', p, messages'[p].n)
  <2>1. Answered(messages, p, messages[p].n) /\ messages[p].n \in Nat
    BY <1>0, <1>1, <1>6, SaidTyped DEF AllAnswered
  <2>2. \A e \in DOMAIN <<msg>> : <<msg>>[e].kind # "result"
    BY <1>3, <1>4
  <2>3. Answered(messages \o <<msg>>, p, messages[p].n)
    BY <1>0, <1>4, <2>1, <2>2, AnsweredStays
  <2> QED BY <1>2, <1>5, <2>3
<1>7. Answered(messages', last, 0)
  BY DEF Answered
<1>8. CASE at' = "tools" /\ calls' = round /\ active'
  <2>1. taken' = 0
    BY <1>0, <1>2
  <2>2. \A i \in 1 .. Len(round) : ResultsOf(messages', last, i) = {}
    <3> SUFFICES ASSUME NEW i \in 1 .. Len(round), NEW q \in DOMAIN messages',
                        messages'[q].kind = "result", messages'[q].turn = messages'[last].turn
                 PROVE  FALSE
      BY DEF ResultsOf
    <3>1. q \in DOMAIN messages
      BY <1>0, <1>3, <1>5
    <3>2. messages[q].turn <= turn /\ messages[q].turn \in Nat
      BY <1>0, <3>1, SaidTyped DEF SessionInv, TurnsNumbered
    <3> QED BY <1>0, <1>3, <1>5, <3>1, <3>2
  <2>3. UnderWay(last)'
    <3>1. /\ messages'[last].kind = "assistant"
          /\ messages'[last].turn = turn'
          /\ messages'[last].n = Len(calls')
      BY <1>2, <1>3, <1>5, <1>8
    <3>2. Answered(messages', last, taken')
      BY <1>7, <2>1
    <3>3. \A i \in taken' + 1 .. Len(calls') : ResultsOf(messages', last, i) = {}
      BY <1>8, <2>1, <2>2
    <3>4. last + 1 .. Len(messages') = {}
      BY <1>0, <1>5
    <3> QED BY <3>1, <3>2, <3>3, <3>4 DEF UnderWay
  <2>4. last \in DOMAIN messages'
    BY <1>0, <1>5
  <2>5. \A p \in DOMAIN messages' : p \in DOMAIN messages \/ messages'[p].turn = turn'
    BY <1>0, <1>2, <1>3, <1>5
  <2>6. \E p \in DOMAIN messages' : UnderWay(p)'
    BY <2>3, <2>4
  <2>7. \A p \in DOMAIN messages' : messages'[p].kind = "assistant" =>
          messages'[p].turn = turn' \/ Answered(messages', p, messages'[p].n)
    BY <1>5, <1>6, <2>5
  <2> QED BY <1>8, <2>6, <2>7 DEF RoundsAnswered
<1>9. CASE at' = "idle" /\ (active' => round = <<>>)
  <2>1. ASSUME active', NEW p \in DOMAIN messages', messages'[p].kind = "assistant"
        PROVE  Answered(messages', p, messages'[p].n)
    <3>1. CASE p \in DOMAIN messages
      BY <1>5, <1>6, <2>1, <3>1
    <3>2. CASE p = last
      <4>1. messages'[p].n = 0
        BY <1>3, <1>5, <1>9, <2>1, <3>2
      <4> QED BY <1>7, <3>2, <4>1
    <3> QED BY <1>0, <1>5, <3>1, <3>2
  <2> QED BY <1>9, <2>1 DEF RoundsAnswered
<1> QED BY <1>8, <1>9, ResponseGoesOn

\* A result that is taken answers the next call of the round.
LEMMA CollectAnswered ==
  ASSUME SessionInv, Collect
  PROVE  RoundsAnswered'
<1> DEFINE mid == messages \o <<Result>>
<1>0. /\ SessionTypeOK /\ messages \in Seq(Message) /\ turn \in Nat /\ Len(messages) \in Nat
      /\ DOMAIN messages = 1 .. Len(messages) /\ active /\ at = "tools"
      /\ taken \in Nat /\ Len(calls) \in Nat
  BY DEF SessionInv, SessionTypeOK, InputState, Collect
<1>1. /\ Result \in Message /\ Result.kind = "result" /\ Result.turn = turn
      /\ Result.n = taken + 1 /\ taken' = taken + 1
      /\ UNCHANGED <<calls, turn, active, at>>
  BY <1>0, CollectSays
<1>2. PICK extra \in Seq(Message) :
        /\ messages' = (messages \o <<Result>>) \o extra
        /\ \A e \in DOMAIN extra : extra[e].kind = "warning" /\ extra[e].turn = turn
  BY <1>0, CollectSays
<1>3. <<Result>> \in Seq(Message) /\ DOMAIN <<Result>> = {1} /\ <<Result>>[1] = Result
      /\ Len(<<Result>>) = 1
  BY <1>1
<1>4. /\ mid \in Seq(Message) /\ DOMAIN mid = 1 .. Len(messages) + 1
      /\ DOMAIN messages \subseteq DOMAIN mid /\ Len(mid) = Len(messages) + 1
      /\ \A q \in DOMAIN messages : mid[q] = messages[q]
      /\ \A q \in DOMAIN mid \ DOMAIN messages : mid[q] = Result
  <2>1. /\ mid \in Seq(Message) /\ DOMAIN mid = 1 .. Len(messages) + 1
        /\ Len(mid) = Len(messages) + 1
        /\ \A q \in DOMAIN messages : mid[q] = messages[q]
    BY <1>0, <1>3, Longer
  <2>2. \A q \in DOMAIN mid \ DOMAIN messages : mid[q] = <<Result>>[q - Len(messages)]
    BY <1>0, <1>3, Longer
  <2>3. \A q \in DOMAIN mid \ DOMAIN messages : q - Len(messages) = 1
    BY <1>0, <2>1
  <2> QED BY <1>0, <1>3, <2>1, <2>2, <2>3
<1>5. messages' = mid \o extra
  BY <1>2
<1> HIDE DEF mid
<1>6. /\ DOMAIN mid \subseteq DOMAIN messages'
      /\ \A q \in DOMAIN mid : messages'[q] = mid[q]
      /\ \A q \in DOMAIN messages' \ DOMAIN mid : messages'[q].kind = "warning"
      /\ DOMAIN messages' = 1 .. Len(messages')
  <2>1. \A q \in DOMAIN messages' \ DOMAIN mid :
          q - Len(mid) \in DOMAIN extra /\ messages'[q] = extra[q - Len(mid)]
    BY <1>4, <1>5, Longer
  <2>2. DOMAIN mid \subseteq DOMAIN messages' /\ \A q \in DOMAIN mid : messages'[q] = mid[q]
    BY <1>4, <1>5, Longer
  <2>3. DOMAIN messages' = 1 .. Len(messages')
    BY <1>4, <1>5, Longer
  <2> QED BY <1>2, <2>1, <2>2, <2>3
<1>7. \A e \in DOMAIN extra : extra[e].kind # "result"
  BY <1>2
<1>8. PICK p \in DOMAIN messages : UnderWay(p)
  BY <1>0 DEF SessionInv, RoundsAnswered
<1>9. UnderWay(p)'
  <2>1. taken + 1 \in taken + 1 .. Len(calls)
    <3>1. taken < Len(calls)
      BY DEF Collect
    <3> QED BY <1>0, <3>1
  <2>2. Answered(mid, p, taken + 1)
    BY <1>0, <1>1, <1>8, <2>1, AnsweredNext DEF UnderWay, mid
  <2>3. Answered(messages', p, taken + 1)
    <3>1. p \in DOMAIN mid /\ taken + 1 \in Nat
      BY <1>0, <1>4
    <3> QED BY <1>4, <1>5, <1>7, <2>2, <3>1, AnsweredStays
  <2>4. \A i \in taken + 2 .. Len(calls) : ResultsOf(messages', p, i) = {}
    <3> SUFFICES ASSUME NEW i \in taken + 2 .. Len(calls) PROVE ResultsOf(messages', p, i) = {}
      OBVIOUS
    <3>1. i \in taken + 1 .. Len(calls) /\ i # taken + 1
      BY <1>0
    <3>2. \A e \in DOMAIN <<Result>> : <<Result>>[e].n # i
      BY <1>1, <1>3, <3>1
    <3>3. ResultsOf(mid, p, i) = ResultsOf(messages, p, i)
      <4>1. ResultsOf(messages \o <<Result>>, p, i) = ResultsOf(messages, p, i)
        <5>1. \A e \in DOMAIN <<Result>> :
                ~(<<Result>>[e].kind = "result" /\ <<Result>>[e].turn = messages[p].turn
                  /\ <<Result>>[e].n = i)
          BY <3>2
        <5> QED BY <1>0, <1>3, <5>1, ResultsStay, ZenonT(40)
      <4> QED BY <4>1 DEF mid
    <3>4. ResultsOf(messages', p, i) = ResultsOf(mid, p, i)
      BY <1>4, <1>5, <1>7, ResultsStay
    <3> QED BY <1>8, <3>1, <3>3, <3>4 DEF UnderWay
  <2>5. \A k \in p + 1 .. Len(messages') : messages'[k].kind \in {"result", "warning"}
    <3> SUFFICES ASSUME NEW k \in p + 1 .. Len(messages')
                 PROVE  messages'[k].kind \in {"result", "warning"}
      OBVIOUS
    <3>1. k \in DOMAIN messages'
      BY <1>0, <1>6
    <3>2. CASE k \in DOMAIN messages
      <4>1. k \in p + 1 .. Len(messages)
        BY <1>0, <3>2
      <4>2. messages[k].kind \in {"result", "warning"}
        BY <1>8, <4>1 DEF UnderWay
      <4> QED BY <1>4, <1>6, <3>2, <4>2
    <3>3. CASE k \in DOMAIN mid \ DOMAIN messages
      BY <1>1, <1>4, <1>6, <3>3
    <3> QED BY <1>6, <3>1, <3>2, <3>3
  <2>6. messages'[p] = messages[p]
    BY <1>4, <1>6
  <2>7. taken' + 1 = taken + 2
    BY <1>0, <1>1
  <2> QED BY <1>1, <1>8, <2>3, <2>4, <2>5, <2>6, <2>7 DEF UnderWay
<1>10. p \in DOMAIN messages'
  BY <1>4, <1>6
<1>11. ASSUME NEW q \in DOMAIN messages', messages'[q].kind = "assistant", messages'[q].turn # turn
       PROVE  Answered(messages', q, messages'[q].n)
  <2>1. q \in DOMAIN messages /\ messages'[q] = messages[q] /\ mid[q] = messages[q] /\ q \in DOMAIN mid
    BY <1>1, <1>4, <1>6, <1>11
  <2>2. Answered(messages, q, messages[q].n) /\ messages[q].n \in Nat
    BY <1>0, <1>11, <2>1, SaidTyped DEF SessionInv, RoundsAnswered
  <2>3. \A e \in DOMAIN <<Result>> : <<Result>>[e].turn # messages[q].turn
    BY <1>1, <1>3, <1>11, <2>1
  <2>4. Answered(mid, q, messages[q].n)
    BY <1>0, <1>3, <2>1, <2>2, <2>3, AnsweredStays DEF mid
  <2>5. Answered(messages', q, messages[q].n)
    BY <1>4, <1>5, <1>7, <2>1, <2>2, <2>4, AnsweredStays
  <2> QED BY <2>1, <2>5
<1> QED BY <1>0, <1>1, <1>9, <1>10, <1>11 DEF RoundsAnswered

\* Every step keeps all calls answered but those of the round under way.
LEMMA RoundsStep ==
  ASSUME SessionInv, [Next]_vars
  PROVE  RoundsAnswered'
<1>1. CASE Silent \/ Steer
  <2>1. /\ UNCHANGED <<messages, turn, calls, taken>>
        /\ at' = "tools" <=> at = "tools"
        /\ active' => active
    BY <1>1 DEF Silent, Steer, toolVars, sessionVars
  <2> QED BY <2>1 DEF SessionInv, RoundsAnswered, UnderWay
<1> QED BY <1>1, StepKinds, SpeaksAnswered, ResponseAnswered, CollectAnswered

(* ------------------------------ the detector ----------------------------- *)

\* Multiples of a period.
LEMMA Multiples ==
  ASSUME NEW p \in Nat, NEW j \in Nat, NEW m \in Nat, j <= m
  PROVE  /\ j * p \in Nat /\ m * p \in Nat
         /\ (j + 1) * p = j * p + p
         /\ j * p <= m * p
<1>1. (m - j) * p \in Nat
  OBVIOUS
<1>2. m * p = j * p + (m - j) * p
  OBVIOUS
<1>3. j * p \in Nat /\ m * p \in Nat /\ (j + 1) * p = j * p + p
  OBVIOUS
<1> QED BY <1>1, <1>2, <1>3

\* The place x of one period is the place x of the next, one period earlier.
LEMMA PeriodBefore ==
  ASSUME NEW p \in Nat, NEW x \in 1 .. p, NEW n \in Nat, NEW a \in Nat, NEW b \in Nat,
         NEW c \in Nat, NEW d \in Nat, c = b - p, b = d - p, d <= n, a <= c
  PROVE  c + x \in a + 1 .. n - p
OBVIOUS

\* A period fits M times into n exactly when it is at most their quotient.
LEMMA Fits ==
  ASSUME NEW n \in Nat, NEW M \in Nat \ {0}, NEW p \in Nat
  PROVE  p <= n \div M <=> p * M <= n
<1> DEFINE q == n \div M
<1> DEFINE r == n % M
<1>1. q \in Nat /\ r \in Nat /\ r <= M - 1 /\ n = M * q + r
  OBVIOUS
<1> HIDE DEF r
<1> HIDE DEF q
<1>2. ASSUME p <= q PROVE p * M <= n
  <2>1. p * M <= q * M
    BY <1>1, <1>2, Multiples
  <2>2. q * M = M * q
    BY <1>1
  <2> QED BY <1>1, <2>1, <2>2
<1>3. ASSUME q + 1 <= p PROVE ~(p * M <= n)
  <2>1. (q + 1) * M <= p * M
    BY <1>1, <1>3, Multiples
  <2>2. (q + 1) * M = M * q + M
    BY <1>1
  <2> QED BY <1>1, <2>1, <2>2
<1>4. p <= q \/ q + 1 <= p
  BY <1>1
<1> QED BY <1>2, <1>3, <1>4 DEF q

\* The recursion by which repetitions are counted.
LEMMA BlocksDef ==
  ASSUME NEW h, Len(h) \in Nat, NEW p \in Nat \ {0}, p <= Len(h)
  PROVE  \E f : /\ TrailingRepetitions(h, p) = f[Len(h)]
                /\ f = [pos \in 0 .. Len(h) |->
                          IF pos >= p /\ SubSeq(h, pos - p + 1, pos) = SubSeq(h, Len(h) - p + 1, Len(h))
                          THEN 1 + f[pos - p] ELSE 0]
<1> DEFINE pattern == SubSeq(h, Len(h) - p + 1, Len(h))
           Ends(pos) == pos >= p /\ SubSeq(h, pos - p + 1, pos) = pattern
           Def(g, pos) == IF Ends(pos) THEN 1 + g[pos - p] ELSE 0
           f[pos \in 0 .. Len(h)] ==
             IF pos >= p /\ SubSeq(h, pos - p + 1, pos) = pattern THEN 1 + f[pos - p] ELSE 0
<1>0. 0 .. Len(h) \in SUBSET Nat
  OBVIOUS
<1>1. WFDefOn(Below, 0 .. Len(h), Def)
  <2> SUFFICES ASSUME NEW g, NEW k, NEW pos \in 0 .. Len(h),
                      \A y \in SetLessThan(pos, Below, 0 .. Len(h)) : g[y] = k[y]
               PROVE  Def(g, pos) = Def(k, pos)
    BY Zenon DEF WFDefOn
  <2>1. CASE Ends(pos)
    <3>0. pos >= p
      BY <2>1
    <3> HIDE DEF Ends
    <3>1. pos - p \in SetLessThan(pos, Below, 0 .. Len(h))
      BY <3>0 DEF SetLessThan, Below
    <3>2. g[pos - p] = k[pos - p]
      BY <3>1
    <3> QED BY <2>1, <3>2
  <2>2. CASE ~Ends(pos)
    <3> HIDE DEF Ends
    <3> QED BY <2>2
  <2> QED BY <2>1, <2>2
<1>2. OpDefinesFcn(f, 0 .. Len(h), Def)
  BY DEF OpDefinesFcn
<1>3. WFInductiveDefines(f, 0 .. Len(h), Def)
  <2> HIDE DEF Def, f
  <2> QED BY <1>0, <1>1, <1>2, RecursionHolds
<1>4. TrailingRepetitions(h, p) = f[Len(h)]
  <2>1. ~(p = 0 \/ Len(h) < p)
    OBVIOUS
  <2> QED BY <2>1, Zenon DEF TrailingRepetitions
<1>5. f = [pos \in 0 .. Len(h) |->
             IF pos >= p /\ SubSeq(h, pos - p + 1, pos) = SubSeq(h, Len(h) - p + 1, Len(h))
             THEN 1 + f[pos - p] ELSE 0]
  BY <1>3 DEF WFInductiveDefines
<1> HIDE DEF f
<1> QED BY <1>4, <1>5

\* Calls that end in M copies of the last p are counted as such.
LEMMA RepetitionsFound ==
  ASSUME NEW S, NEW h \in Seq(S), NEW p \in Nat \ {0}, NEW M \in Nat \ {0},
         M = MinRepetitions, p * M <= Len(h), PeriodicEnd(h, p)
  PROVE  TrailingRepetitions(h, p) >= M
<1> DEFINE n == Len(h)
           e == p * M
           mul(j) == j * p
           upto(j) == n - mul(j)
<1>0. n \in Nat /\ p \in Nat /\ p # 0 /\ M \in Nat /\ M # 0 /\ e \in Nat /\ e <= n
  OBVIOUS
<1>a. /\ mul(0) = 0 /\ mul(1) = p /\ mul(M) = e
      /\ \A j \in 0 .. M : mul(j) \in Nat /\ mul(j) <= e
      /\ \A j \in 0 .. M - 1 : mul(j + 1) = mul(j) + p
  <2>1. mul(0) = 0 /\ mul(1) = p /\ mul(M) = e
    OBVIOUS
  <2>2. ASSUME NEW j \in 0 .. M PROVE mul(j) \in Nat /\ mul(j) <= mul(M)
    <3>1. j \in Nat /\ j <= M
      OBVIOUS
    <3> QED BY <3>1, Multiples
  <2>3. ASSUME NEW j \in 0 .. M - 1 PROVE mul(j + 1) = mul(j) + p
    BY Multiples
  <2> HIDE DEF mul
  <2> QED BY <2>1, <2>2, <2>3
<1>b. \A i \in n - e + 1 .. n - p : h[i] = h[i + p]
  BY DEF PeriodicEnd
<1> HIDE DEF mul, e
<1>1. \A j \in 0 .. M : upto(j) \in 0 .. n
  BY <1>0, <1>a
<1>2. \A j \in 0 .. M - 1 : upto(j + 1) = upto(j) - p /\ upto(j) <= n
  BY <1>0, <1>a
<1>3. upto(0) = n /\ upto(M) = n - e /\ p <= n
  <2>1. 1 \in 0 .. M
    BY <1>0
  <2> QED BY <1>0, <1>a, <2>1
<1>c. \A j \in 0 .. M : upto(M) <= upto(j)
  BY <1>0, <1>a
<1> HIDE DEF upto
<1>4. \A i \in upto(M) + 1 .. n - p : h[i] = h[i + p]
  BY <1>b, <1>3
<1>5. ASSUME NEW x \in 1 .. p
      PROVE  \A j \in 0 .. M - 1 : h[upto(j + 1) + x] = h[n - p + x]
  <2> DEFINE P == {j \in 0 .. M - 1 : h[upto(j + 1) + x] = h[n - p + x]}
  <2>1. 0 \in P
    <3>1. 0 \in 0 .. M - 1 /\ 0 + 1 = 1
      BY <1>0
    <3>2. upto(1) = n - p
      BY <1>2, <1>3, <3>1
    <3> QED BY <3>1, <3>2
  <2>2. ASSUME NEW j \in 0 .. M - 1 - 1, j \in P PROVE j + 1 \in P
    <3>1. j \in 0 .. M - 1 /\ j + 1 \in 0 .. M - 1 /\ j + 2 \in 0 .. M /\ (j + 1) + 1 = j + 2
      OBVIOUS
    <3>2. upto(j + 2) = upto(j + 1) - p /\ upto(j + 1) = upto(j) - p /\ upto(j) <= n
      BY <1>2, <3>1
    <3>3. upto(M) <= upto(j + 2) /\ upto(j + 2) \in 0 .. n /\ upto(j + 1) \in 0 .. n /\ upto(j) \in 0 .. n
      BY <1>1, <1>c, <3>1
    <3>4. upto(M) \in 0 .. n
      BY <1>1
    <3>5. upto(j + 2) + x \in upto(M) + 1 .. n - p /\ (upto(j + 2) + x) + p = upto(j + 1) + x
      <4> HIDE DEF P, n
      <4>1. p \in Nat /\ n \in Nat
        BY <1>0
      <4>2. upto(M) \in Nat /\ upto(j + 1) \in Nat /\ upto(j + 2) \in Nat /\ upto(j) \in Nat
        BY <3>3, <3>4
      <4>3. /\ upto(j + 2) = upto(j + 1) - p /\ upto(j + 1) = upto(j) - p
            /\ upto(j) <= n /\ upto(M) <= upto(j + 2)
        BY <3>2, <3>3, Zenon
      <4>4. upto(j + 2) + x \in upto(M) + 1 .. n - p
        BY <4>1, <4>2, <4>3, PeriodBefore, Zenon
      <4>5. (upto(j + 2) + x) + p = upto(j + 1) + x
        <5>1. \A b, c \in Nat : c = b - p => (c + x) + p = b + x
          BY <4>1
        <5> QED BY <4>2, <4>3, <5>1, Zenon
      <4> QED BY <4>4, <4>5
    <3>6. h[upto(j + 2) + x] = h[upto(j + 1) + x]
      BY <1>4, <3>5
    <3> QED BY <2>2, <3>1, <3>6
  <2>3. 0 .. M - 1 \subseteq P
    <3>1. M - 1 \in Nat
      BY <1>0
    <3> HIDE DEF P
    <3> QED BY <2>1, <2>2, <3>1, NumbersUpTo
  <2> QED BY <2>3
<1>6. ASSUME NEW j \in 0 .. M - 1
      PROVE  SubSeq(h, upto(j) - p + 1, upto(j)) = SubSeq(h, n - p + 1, n)
  <2> DEFINE a == upto(j + 1)
             u == SubSeq(h, a + 1, a + p)
             v == SubSeq(h, n - p + 1, n)
  <2>1. j + 1 \in 0 .. M /\ j \in 0 .. M /\ a = upto(j) - p /\ upto(j) = a + p
    BY <1>0, <1>1, <1>2
  <2>2. a \in 0 .. n /\ a + p \in 0 .. n
    BY <1>1, <2>1
  <2>3. u \in Seq(S) /\ Len(u) = p /\ \A x \in 1 .. p : u[x] = h[a + x]
    <3> HIDE DEF a
    <3>1. \A i \in a + 1 .. a + p : h[i] \in S
      BY <1>0, <2>2
    <3>2. u \in Seq(S) /\ Len(u) = (a + p) - (a + 1) + 1
          /\ \A x \in 1 .. (a + p) - (a + 1) + 1 : u[x] = h[(a + 1) + x - 1]
      BY <1>0, <2>2, <3>1, SubSeqProperties
    <3> QED BY <1>0, <2>2, <3>2
  <2>4. v \in Seq(S) /\ Len(v) = p /\ \A x \in 1 .. p : v[x] = h[n - p + x]
    <3>1. \A i \in n - p + 1 .. n : h[i] \in S
      BY <1>0, <1>3
    <3>2. v \in Seq(S) /\ Len(v) = n - (n - p + 1) + 1
          /\ \A x \in 1 .. n - (n - p + 1) + 1 : v[x] = h[(n - p + 1) + x - 1]
      BY <1>0, <1>3, <3>1, SubSeqProperties
    <3>3. /\ n - (n - p + 1) + 1 = p
          /\ \A x \in 1 .. p : (n - p + 1) + x - 1 = n - p + x
      BY <1>0
    <3> QED BY <3>2, <3>3
  <2>5. \A x \in 1 .. p : u[x] = v[x]
    <3> HIDE DEF u, v
    <3> QED BY <1>5, <2>3, <2>4
  <2>6. u = v
    <3> HIDE DEF u, v
    <3> QED BY <2>3, <2>4, <2>5, SeqEqual
  <2>7. u = SubSeq(h, upto(j) - p + 1, upto(j))
    BY <2>1
  <2> QED BY <2>6, <2>7
<1>7. PICK f : /\ TrailingRepetitions(h, p) = f[n]
               /\ f = [pos \in 0 .. n |->
                         IF pos >= p /\ SubSeq(h, pos - p + 1, pos) = SubSeq(h, n - p + 1, n)
                         THEN 1 + f[pos - p] ELSE 0]
  BY <1>0, <1>3, BlocksDef
<1>8. \A pos \in 0 .. n : f[pos] \in Nat
  <2> DEFINE P == {m \in 0 .. n : \A pos \in 0 .. m : f[pos] \in Nat}
  <2>1. ASSUME NEW pos \in 0 .. n, \A q \in 0 .. pos - 1 : f[q] \in Nat PROVE f[pos] \in Nat
    <3>1. CASE pos >= p /\ SubSeq(h, pos - p + 1, pos) = SubSeq(h, n - p + 1, n)
      <4>1. pos - p \in 0 .. pos - 1
        BY <1>0, <3>1
      <4>2. f[pos] = 1 + f[pos - p]
        BY <1>7, <3>1
      <4> QED BY <2>1, <4>1, <4>2
    <3>2. CASE ~(pos >= p /\ SubSeq(h, pos - p + 1, pos) = SubSeq(h, n - p + 1, n))
      <4>1. f[pos] = 0
        BY <1>7, <3>2
      <4> QED BY <4>1
    <3> QED BY <3>1, <3>2
  <2>2. 0 \in P
    <3>1. f[0] \in Nat
      BY <1>0, <2>1
    <3> QED BY <1>0, <3>1
  <2>3. ASSUME NEW m \in 0 .. n - 1, m \in P PROVE m + 1 \in P
    <3>1. m + 1 \in 0 .. n /\ \A q \in 0 .. m : f[q] \in Nat
      BY <1>0, <2>3
    <3>2. f[m + 1] \in Nat
      <4>1. (m + 1) - 1 = m
        OBVIOUS
      <4> QED BY <2>1, <3>1, <4>1
    <3>3. \A q \in 0 .. m + 1 : q \in 0 .. m \/ q = m + 1
      OBVIOUS
    <3> QED BY <3>1, <3>2, <3>3
  <2>4. 0 .. n \subseteq P
    <3> HIDE DEF P
    <3> QED BY <1>0, <2>2, <2>3, NumbersUpTo
  <2> QED BY <1>0, <2>4
<1>9. \A k \in 0 .. M : f[upto(M - k)] >= k
  <2> DEFINE P == {k \in 0 .. M : f[upto(M - k)] >= k}
  <2>1. 0 \in P
    <3>1. f[upto(M - 0)] \in Nat
      BY <1>1, <1>8
    <3> QED BY <3>1
  <2>2. ASSUME NEW k \in 0 .. M - 1, k \in P PROVE k + 1 \in P
    <3> DEFINE j == M - (k + 1)
    <3>1. j \in 0 .. M - 1 /\ j \in 0 .. M /\ j + 1 \in 0 .. M /\ j + 1 = M - k
      OBVIOUS
    <3>2. f[upto(j + 1)] >= k
      BY <2>2, <3>1
    <3> HIDE DEF j
    <3>3. upto(j) \in 0 .. n /\ upto(j + 1) \in 0 .. n /\ upto(j + 1) = upto(j) - p
      BY <1>1, <1>2, <3>1
    <3>4. upto(j) >= p /\ SubSeq(h, upto(j) - p + 1, upto(j)) = SubSeq(h, n - p + 1, n)
      <4>1. upto(j) >= p
        BY <1>0, <3>3
      <4> QED BY <1>6, <3>1, <4>1
    <3>5. f[upto(j)] = 1 + f[upto(j) - p]
      BY <1>7, <3>3, <3>4
    <3>6. f[upto(j)] >= k + 1
      <4>1. f[upto(j + 1)] \in Nat
        BY <1>8, <3>3
      <4> QED BY <3>2, <3>3, <3>5, <4>1
    <3>7. k + 1 \in 0 .. M
      OBVIOUS
    <3> QED BY <3>6, <3>7 DEF j
  <2>3. 0 .. M \subseteq P
    <3> HIDE DEF P
    <3> QED BY <2>1, <2>2, NumbersUpTo
  <2> QED BY <2>3
<1>10. f[upto(M - M)] >= M /\ M - M = 0
  BY <1>9
<1> QED BY <1>3, <1>7, <1>10

\* The last calls, as many as the window holds.
EndOf(s) == IF Len(s) > WindowSize THEN SubSeq(s, Len(s) - WindowSize + 1, Len(s)) ELSE s

\* They are what they are at the end of the calls.
LEMMA EndKnown ==
  ASSUME NEW S, NEW s \in Seq(S)
  PROVE  /\ EndOf(s) \in Seq(S) /\ Len(EndOf(s)) \in Nat
         /\ Len(EndOf(s)) = IF Len(s) > WindowSize THEN WindowSize ELSE Len(s)
         /\ \A i \in 1 .. Len(EndOf(s)) : EndOf(s)[i] = s[Len(s) - Len(EndOf(s)) + i]
<1>0. Len(s) \in Nat /\ WindowSize \in Nat \ {0}
  BY DetectorAssumption
<1>1. CASE Len(s) > WindowSize
  <2> DEFINE m == Len(s) - WindowSize + 1
  <2>0. m \in 1 .. Len(s) + 1 /\ Len(s) - m + 1 = WindowSize /\ m <= Len(s)
    BY <1>0, <1>1
  <2>1. \A i \in m .. Len(s) : s[i] \in S
    BY <1>0, <1>1
  <2> HIDE DEF m
  <2>2. /\ SubSeq(s, m, Len(s)) \in Seq(S) /\ Len(SubSeq(s, m, Len(s))) = WindowSize
        /\ \A i \in 1 .. WindowSize : SubSeq(s, m, Len(s))[i] = s[m + i - 1]
    BY <1>0, <2>0, <2>1, SubSeqProperties
  <2>3. EndOf(s) = SubSeq(s, m, Len(s))
    BY <1>1 DEF EndOf, m
  <2>4. \A i \in 1 .. WindowSize : m + i - 1 = Len(s) - WindowSize + i
    BY <1>0 DEF m
  <2> QED BY <1>0, <1>1, <2>2, <2>3, <2>4
<1>2. CASE ~(Len(s) > WindowSize)
  <2>1. EndOf(s) = s
    BY <1>2 DEF EndOf
  <2>2. \A i \in 1 .. Len(s) : s[i] = s[Len(s) - Len(s) + i]
    BY <1>0
  <2> QED BY <1>0, <1>2, <2>1, <2>2
<1> QED BY <1>1, <1>2

\* Recording a call keeps the window at the end of the calls.
LEMMA RecordedAtEnd ==
  ASSUME NEW S, NEW s \in Seq(S), NEW c \in S
  PROVE  Recorded(EndOf(s), c) = EndOf(Append(s, c))
<1> DEFINE h == EndOf(s)
           t == Append(h, c)
           u == Append(s, c)
<1>0. Len(s) \in Nat /\ WindowSize \in Nat \ {0}
  BY DetectorAssumption
<1>1. /\ h \in Seq(S) /\ Len(h) \in Nat
      /\ Len(h) = IF Len(s) > WindowSize THEN WindowSize ELSE Len(s)
      /\ \A i \in 1 .. Len(h) : h[i] = s[Len(s) - Len(h) + i]
  BY EndKnown
<1>2. Recorded(h, c) = EndOf(t)
  BY DEF Recorded, EndOf
<1> HIDE DEF h
<1>3. /\ t \in Seq(S) /\ Len(t) = Len(h) + 1 /\ t[Len(t)] = c
      /\ \A i \in 1 .. Len(h) : t[i] = h[i]
  BY <1>1
<1>4. /\ u \in Seq(S) /\ Len(u) = Len(s) + 1 /\ u[Len(u)] = c
      /\ \A i \in 1 .. Len(s) : u[i] = s[i]
  OBVIOUS
<1> HIDE DEF t, u
<1>5. \A i \in 1 .. Len(t) : t[i] = u[Len(u) - Len(t) + i]
  <2> TAKE i \in 1 .. Len(t)
  <2>1. CASE i = Len(t)
    <3>1. \A a, b \in Nat : a - b + b = a
      OBVIOUS
    <3>2. Len(u) \in Nat /\ Len(t) \in Nat
      BY <1>0, <1>1, <1>3, <1>4
    <3> QED BY <1>3, <1>4, <2>1, <3>1, <3>2
  <2>2. CASE i # Len(t)
    <3>1. i \in 1 .. Len(h) /\ Len(u) - Len(t) + i = Len(s) - Len(h) + i
      BY <1>0, <1>1, <1>3, <1>4, <2>2
    <3>2. Len(s) - Len(h) + i \in 1 .. Len(s)
      BY <1>0, <1>1, <3>1
    <3> QED BY <1>1, <1>3, <1>4, <3>1, <3>2
  <2> QED BY <2>1, <2>2
<1>6. /\ EndOf(t) \in Seq(S) /\ Len(EndOf(t)) \in Nat
      /\ Len(EndOf(t)) = IF Len(t) > WindowSize THEN WindowSize ELSE Len(t)
      /\ \A i \in 1 .. Len(EndOf(t)) : EndOf(t)[i] = t[Len(t) - Len(EndOf(t)) + i]
  BY <1>3, EndKnown
<1>7. /\ EndOf(u) \in Seq(S) /\ Len(EndOf(u)) \in Nat
      /\ Len(EndOf(u)) = IF Len(u) > WindowSize THEN WindowSize ELSE Len(u)
      /\ \A i \in 1 .. Len(EndOf(u)) : EndOf(u)[i] = u[Len(u) - Len(EndOf(u)) + i]
  BY <1>4, EndKnown
<1> PICK n \in Nat : n = Len(EndOf(t))
  BY <1>6
<1>8. Len(EndOf(u)) = n
  BY <1>0, <1>1, <1>3, <1>4, <1>6, <1>7
<1>9. ASSUME NEW i \in 1 .. n PROVE EndOf(t)[i] = EndOf(u)[i]
  <2>1. n <= Len(t) /\ Len(t) \in Nat /\ Len(u) \in Nat
    BY <1>0, <1>1, <1>3, <1>4, <1>6
  <2>2. Len(t) - n + i \in 1 .. Len(t)
    BY <2>1
  <2>3. Len(u) - Len(t) + (Len(t) - n + i) = Len(u) - n + i
    BY <2>1
  <2>4. t[Len(t) - n + i] = u[Len(u) - n + i]
    BY <1>5, <2>2, <2>3
  <2> QED BY <1>6, <1>7, <1>8, <2>4
<1>10. EndOf(t) = EndOf(u)
  BY <1>6, <1>7, <1>8, <1>9, SeqEqual
<1> QED BY <1>2, <1>10 DEF h, u

\* Whatever makes up the end of the calls shows in the window.
LEMMA LoopShows ==
  ASSUME NEW S, NEW s \in Seq(S), LoopAtEnd(s)
  PROVE  Loops(EndOf(s))
<1> PICK M \in Nat \ {0} : M = MinRepetitions
  BY DetectorAssumption
<1> PICK h \in Seq(S) : h = EndOf(s)
  BY EndKnown
<1>0. Len(s) \in Nat /\ WindowSize \in Nat
  BY DetectorAssumption
<1>1. /\ Len(h) \in Nat
      /\ Len(h) = IF Len(s) > WindowSize THEN WindowSize ELSE Len(s)
      /\ \A i \in 1 .. Len(h) : h[i] = s[Len(s) - Len(h) + i]
  BY EndKnown
<1>2. PICK p \in 1 .. WindowSize \div M :
        /\ p * M <= Len(s)
        /\ \A i \in Len(s) - p * M + 1 .. Len(s) - p : s[i] = s[i + p]
  BY DEF LoopAtEnd, PeriodicEnd
<1>3. p \in Nat \ {0}
  <2>1. WindowSize \div M \in Nat
    BY <1>0
  <2> QED BY <2>1
<1> PICK e \in Nat : e = p * M
  BY <1>3
<1>4. e <= WindowSize /\ e <= Len(s)
  <2>1. p <= WindowSize \div M
    BY <1>3
  <2> QED BY <1>0, <1>2, <1>3, <2>1, Fits
<1>5. e <= Len(h)
  BY <1>0, <1>1, <1>4
<1>6. p <= e
  <2>1. 1 * p <= M * p /\ 1 * p = p /\ M * p = p * M
    BY <1>3, Multiples
  <2> QED BY <2>1
<1>7. ASSUME NEW i \in Len(h) - e + 1 .. Len(h) - p PROVE h[i] = h[i + p]
  <2>0. p \in Nat
    BY <1>3
  <2>1. i \in 1 .. Len(h) /\ i + p \in 1 .. Len(h)
    <3>1. Len(h) - e \in Nat /\ e - p \in Nat
      BY <1>1, <1>5, <1>6, <2>0
    <3> QED BY <1>1, <2>0, <3>1
  <2>2. PICK d \in Nat : d = Len(s) - Len(h)
    <3>1. Len(h) <= Len(s)
      BY <1>0, <1>1
    <3>2. Len(s) - Len(h) \in Nat
      BY <1>0, <1>1, <3>1
    <3> QED BY <3>2
  <2>3. d + i \in Len(s) - e + 1 .. Len(s) - p /\ (d + i) + p = d + (i + p)
    <3>1. \A l, k \in Nat : d = l - k /\ i \in k - e + 1 .. k - p
                            => d + i \in l - e + 1 .. l - p /\ (d + i) + p = d + (i + p)
      BY <2>0
    <3> QED BY <1>0, <1>1, <2>2, <3>1
  <2>4. s[d + i] = s[d + (i + p)]
    BY <1>2, <2>3
  <2> QED BY <1>1, <2>1, <2>2, <2>4
<1>8. TrailingRepetitions(h, p) >= M
  <2>1. PeriodicEnd(h, p)
    BY <1>7 DEF PeriodicEnd
  <2> QED BY <1>3, <1>5, <2>1, RepetitionsFound
<1>9. p \in 1 .. Len(h) \div M
  <2>1. p <= Len(h) \div M
    BY <1>1, <1>3, <1>5, Fits
  <2>2. Len(h) \div M \in Nat
    BY <1>1
  <2> QED BY <1>3, <2>1, <2>2
<1> QED BY <1>8, <1>9 DEF Loops

(* --------------------------- calls since a warning ----------------------- *)

\* The window holds the last calls since the model was warned, and these end in no
\* loop.
WindowInv ==
  \E w \in 0 .. Len(messages) :
    /\ LastWarning(messages, w)
    /\ window = EndOf(CallsAfter(messages, w))
    /\ ~LoopAtEnd(CallsAfter(messages, w))

Signature == Tool \cup {NoTool}

\* What the messages call, one by one.
LEMMA CalledTyped ==
  ASSUME NEW ms \in Seq(Message), NEW w \in 0 .. Len(ms)
  PROVE  /\ [i \in 1 .. Len(ms) - w |-> Called(ms[w + i])] \in Seq(Seq(Signature))
         /\ Len([i \in 1 .. Len(ms) - w |-> Called(ms[w + i])]) = Len(ms) - w
         /\ CallsAfter(ms, w) \in Seq(Signature)
<1> DEFINE a == [i \in 1 .. Len(ms) - w |-> Called(ms[w + i])]
<1>1. Len(ms) \in Nat /\ Len(ms) - w \in Nat
  <2>1. Len(ms) \in Nat
    BY LenProperties
  <2> QED BY <2>1
<1>2. \A m \in Message : Called(m) \in Seq(Signature)
  <2> TAKE m \in Message
  <2>1. m.tool \in Signature
    BY DEF Message, Signature
  <2>2. <<m.tool>> \in Seq(Signature) /\ <<>> \in Seq(Signature)
    BY <2>1
  <2> QED BY <2>2 DEF Called
<1>3. \A i \in 1 .. Len(ms) - w : ms[w + i] \in Message
  <2> TAKE i \in 1 .. Len(ms) - w
  <2>1. w + i \in 1 .. Len(ms)
    BY <1>1
  <2> QED BY <2>1, ElementOfSeq
<1>4. \A i \in 1 .. Len(ms) - w : Called(ms[w + i]) \in Seq(Signature)
  BY <1>2, <1>3
<1>5. a \in Seq(Seq(Signature)) /\ Len(a) = Len(ms) - w
  <2> PICK n \in Nat : n = Len(ms) - w
    BY <1>1
  <2>1. [i \in 1 .. n |-> Called(ms[w + i])] \in [1 .. n -> Seq(Signature)]
    BY <1>4
  <2> HIDE DEF a
  <2>2. a \in [1 .. n -> Seq(Signature)]
    BY <2>1 DEF a
  <2>3. a \in Seq(Seq(Signature))
    BY <2>2
  <2> QED BY <2>2, <2>3
<1>6. CallsAfter(ms, w) \in Seq(Signature)
  <2>1. CallsAfter(ms, w) = FlattenSeq(a)
    BY DEF CallsAfter
  <2> HIDE DEF a
  <2> QED BY <1>5, <2>1, FlattenBasics
<1> QED BY <1>5, <1>6

\* Calls behind those of ms are those of what was added.
LEMMA CallsGrow ==
  ASSUME NEW ms \in Seq(Message), NEW extra \in Seq(Message), NEW w \in 0 .. Len(ms)
  PROVE  CallsAfter(ms \o extra, w) = CallsAfter(ms, w) \o CallsAfter(extra, 0)
<1> DEFINE new == ms \o extra
           a == [i \in 1 .. Len(ms) - w |-> Called(ms[w + i])]
           b == [i \in 1 .. Len(extra) - 0 |-> Called(extra[0 + i])]
           c == [i \in 1 .. Len(new) - w |-> Called(new[w + i])]
<1>1. /\ new \in Seq(Message)
      /\ Len(ms) \in Nat /\ Len(extra) \in Nat /\ Len(new) = Len(ms) + Len(extra)
      /\ \A i \in 1 .. Len(new) : new[i] = IF i <= Len(ms) THEN ms[i] ELSE extra[i - Len(ms)]
  BY ConcatProperties, LenProperties
<1> HIDE DEF new
<1>2. w \in 0 .. Len(new) /\ 0 \in 0 .. Len(extra)
  BY <1>1
<1>3. /\ a \in Seq(Seq(Signature)) /\ Len(a) = Len(ms) - w
      /\ b \in Seq(Seq(Signature)) /\ Len(b) = Len(extra)
      /\ c \in Seq(Seq(Signature)) /\ Len(c) = Len(new) - w
  <2>1. a \in Seq(Seq(Signature)) /\ Len(a) = Len(ms) - w
    BY CalledTyped
  <2>2. b \in Seq(Seq(Signature)) /\ Len(b) = Len(extra) - 0
    BY <1>2, CalledTyped
  <2>3. c \in Seq(Seq(Signature)) /\ Len(c) = Len(new) - w
    BY <1>1, <1>2, CalledTyped
  <2> QED BY <1>1, <2>1, <2>2, <2>3
<1>4. /\ \A i \in 1 .. Len(ms) - w : a[i] = Called(ms[w + i])
      /\ \A i \in 1 .. Len(extra) : b[i] = Called(extra[i])
      /\ \A i \in 1 .. Len(new) - w : c[i] = Called(new[w + i])
  BY <1>1
<1>5. CallsAfter(ms, w) = FlattenSeq(a) /\ CallsAfter(extra, 0) = FlattenSeq(b)
      /\ CallsAfter(new, w) = FlattenSeq(c)
  BY Zenon DEF CallsAfter
<1> HIDE DEF a, b, c
<1>6. /\ a \o b \in Seq(Seq(Signature)) /\ Len(a \o b) = Len(a) + Len(b)
      /\ \A i \in 1 .. Len(a) + Len(b) : (a \o b)[i] = IF i <= Len(a) THEN a[i] ELSE b[i - Len(a)]
  <2> DEFINE T == Seq(Signature)
  <2>1. a \in Seq(T) /\ b \in Seq(T)
    BY <1>3
  <2> HIDE DEF T
  <2>2. /\ a \o b \in Seq(T) /\ Len(a \o b) = Len(a) + Len(b)
        /\ \A i \in 1 .. Len(a) + Len(b) : (a \o b)[i] = IF i <= Len(a) THEN a[i] ELSE b[i - Len(a)]
    BY <2>1, ConcatProperties
  <2> QED BY <2>2 DEF T
<1>7. Len(a) + Len(b) = Len(c)
  BY <1>1, <1>3
<1>8. ASSUME NEW i \in 1 .. Len(c) PROVE (a \o b)[i] = c[i]
  <2>1. i \in 1 .. Len(new) - w /\ w + i \in 1 .. Len(new)
    BY <1>1, <1>3
  <2>2. CASE i <= Len(a)
    <3>1. i \in 1 .. Len(ms) - w /\ w + i <= Len(ms)
      BY <1>1, <1>3, <2>1, <2>2
    <3> QED BY <1>1, <1>4, <1>6, <1>7, <2>1, <2>2, <3>1
  <2>3. CASE ~(i <= Len(a))
    <3>1. i - Len(a) \in 1 .. Len(extra) /\ ~(w + i <= Len(ms)) /\ (w + i) - Len(ms) = i - Len(a)
      BY <1>1, <1>3, <2>1, <2>3
    <3>2. (a \o b)[i] = b[i - Len(a)]
      BY <1>6, <1>7, <2>3
    <3>3. c[i] = Called(extra[i - Len(a)])
      BY <1>1, <1>4, <2>1, <3>1, SMTT(40)
    <3> QED BY <1>4, <3>1, <3>2, <3>3
  <2> QED BY <2>2, <2>3
<1>9. a \o b = c
  BY <1>3, <1>6, <1>7, <1>8, SeqEqual
<1>10. FlattenSeq(a \o b) = FlattenSeq(a) \o FlattenSeq(b)
  BY <1>3, FlattenConcat
<1> QED BY <1>5, <1>9, <1>10 DEF new

\* Messages without a result call nothing ...
LEMMA NothingCalled ==
  ASSUME NEW ms \in Seq(Message), \A e \in DOMAIN ms : ms[e].kind # "result"
  PROVE  CallsAfter(ms, 0) = <<>>
<1> DEFINE a == [i \in 1 .. Len(ms) - 0 |-> Called(ms[0 + i])]
           first(k) == SubSeq(a, 1, k)
           P == {k \in 0 .. Len(ms) : FlattenSeq(first(k)) = <<>>}
<1>1. Len(ms) \in Nat /\ 0 \in 0 .. Len(ms)
  <2>1. Len(ms) \in Nat
    BY LenProperties
  <2> QED BY <2>1
<1>2. a \in Seq(Seq(Signature)) /\ Len(a) = Len(ms)
  <2>1. a \in Seq(Seq(Signature)) /\ Len(a) = Len(ms) - 0
    BY <1>1, CalledTyped
  <2> QED BY <1>1, <2>1
<1>3. \A i \in 1 .. Len(ms) : a[i] = <<>>
  BY <1>1 DEF Called
<1>4. CallsAfter(ms, 0) = FlattenSeq(a)
  BY Zenon DEF CallsAfter
<1> HIDE DEF a
<1>5. first(0) = <<>> /\ first(Len(ms)) = a
  BY <1>1, <1>2, SubSeqEmpty, SubSeqFull
<1>6. ASSUME NEW k \in 0 .. Len(ms) - 1
      PROVE  first(k) \in Seq(Seq(Signature)) /\ first(k + 1) = Append(first(k), <<>>)
  <2>1. k + 1 \in 1 .. Len(a) /\ 1 \in 1 .. Len(a) /\ (k + 1) - 1 = k /\ \A i \in 1 .. k : i \in 1 .. Len(a)
    BY <1>1, <1>2
  <2>2. \A i \in 1 .. k : a[i] \in Seq(Signature)
    BY <1>2, <2>1, ElementOfSeq
  <2>3. first(k) \in Seq(Seq(Signature))
    BY <1>1, <1>2, <2>2, SubSeqProperties
  <2>4. SubSeq(a, 1, k + 1) = SubSeq(a, 1, k) \o <<a[k + 1]>>
    <3>1. k + 1 \in 1 .. k + 1 /\ k + 1 \in 1 .. Len(a)
      BY <2>1
    <3> QED BY <1>2, <2>1, <3>1, SubSeqRecursiveSecond, Z3
  <2>5. a[k + 1] = <<>> /\ <<>> \in Seq(Signature)
    BY <1>2, <1>3, <2>1
  <2> QED BY <2>3, <2>4, <2>5, AppendIsConcat
<1>7. 0 \in P
  <2>1. FlattenSeq(first(0)) = <<>>
    BY <1>5, FlattenBasics, Zenon
  <2> QED BY <1>1, <2>1
<1>8. ASSUME NEW k \in 0 .. Len(ms) - 1, k \in P PROVE k + 1 \in P
  <2> HIDE DEF first
  <2>1. <<>> \in Seq(Signature)
    OBVIOUS
  <2>2. FlattenSeq(Append(first(k), <<>>)) = FlattenSeq(first(k)) \o <<>>
    BY <1>6, <2>1, FlattenBasics
  <2>3. FlattenSeq(first(k)) = <<>> /\ <<>> \o <<>> = <<>>
    BY <1>8
  <2>4. FlattenSeq(first(k + 1)) = <<>>
    BY <1>6, <2>2, <2>3
  <2> QED BY <1>1, <2>4
<1>9. Len(ms) \in P
  <2>1. 0 .. Len(ms) \subseteq P
    <3> HIDE DEF P
    <3> QED BY <1>1, <1>7, <1>8, NumbersUpTo
  <2> HIDE DEF P
  <2> QED BY <1>1, <2>1
<1> QED BY <1>4, <1>5, <1>9, Zenon

\* ... and a result calls its tool.
LEMMA OneCalled ==
  ASSUME NEW m \in Message, m.kind = "result"
  PROVE  CallsAfter(<<m>>, 0) = <<m.tool>>
<1> DEFINE a == [i \in 1 .. Len(<<m>>) - 0 |-> Called(<<m>>[0 + i])]
           x == <<m.tool>>
<1>1. x \in Seq(Signature)
  <2>1. m.tool \in Signature
    BY DEF Message, Signature
  <2> QED BY <2>1
<1>2. Called(m) = x
  BY DEF Called
<1>3. CallsAfter(<<m>>, 0) = FlattenSeq(a)
  BY Zenon DEF CallsAfter
<1> HIDE DEF x
<1>4. a = Append(<<>>, x) /\ <<>> \in Seq(Seq(Signature))
  <2>1. Len(<<m>>) = 1 /\ <<m>>[1] = m
    OBVIOUS
  <2>2. a = [i \in 1 .. 1 |-> x]
    BY <1>2, <2>1
  <2>3. Append(<<>>, x) = [i \in 1 .. 1 |-> x]
    OBVIOUS
  <2> QED BY <2>2, <2>3
<1> HIDE DEF a
<1>5. FlattenSeq(Append(<<>>, x)) = FlattenSeq(<<>>) \o x
  BY <1>1, <1>4, FlattenBasics
<1>6. FlattenSeq(<<>>) = <<>>
  BY FlattenBasics, Zenon
<1> QED BY <1>1, <1>3, <1>4, <1>5, <1>6, ConcatEmptySeq DEF x

\* The last warning is one place ...
LEMMA LastWarningUnique ==
  ASSUME NEW ms \in Seq(Message), NEW v \in 0 .. Len(ms), NEW w \in 0 .. Len(ms),
         LastWarning(ms, v), LastWarning(ms, w)
  PROVE  v = w
<1>1. Len(ms) \in Nat
  BY LenProperties
<1>2. ASSUME NEW x \in 0 .. Len(ms), NEW y \in 0 .. Len(ms),
             LastWarning(ms, x), LastWarning(ms, y)
      PROVE  ~(x < y)
  <2> SUFFICES ASSUME x < y PROVE FALSE
    OBVIOUS
  <2>1. y \in x + 1 .. Len(ms) /\ y # 0
    BY <1>1
  <2> QED BY <1>2, <2>1 DEF LastWarning
<1>3. ~(v < w) /\ ~(w < v)
  BY <1>2
<1> QED BY <1>1, <1>3

\* ... and stays there until the next.
LEMMA LastWarningStays ==
  ASSUME NEW ms \in Seq(Message), NEW extra \in Seq(Message), NEW w \in 0 .. Len(ms),
         LastWarning(ms, w), \A e \in DOMAIN extra : extra[e].kind # "warning"
  PROVE  LastWarning(ms \o extra, w) /\ w \in 0 .. Len(ms \o extra)
<1> DEFINE new == ms \o extra
<1>1. /\ new \in Seq(Message) /\ Len(ms) \in Nat /\ Len(extra) \in Nat
      /\ Len(new) = Len(ms) + Len(extra)
      /\ DOMAIN ms = 1 .. Len(ms) /\ DOMAIN new = 1 .. Len(ms) + Len(extra)
      /\ \A q \in DOMAIN ms : new[q] = ms[q]
      /\ \A q \in DOMAIN new \ DOMAIN ms :
           q - Len(ms) \in DOMAIN extra /\ new[q] = extra[q - Len(ms)]
  BY Longer
<1> HIDE DEF new
<1>2. w = 0 \/ new[w].kind = "warning"
  <2>1. w = 0 \/ w \in DOMAIN ms
    BY <1>1
  <2> QED BY <1>1, <2>1 DEF LastWarning
<1>3. ASSUME NEW v \in w + 1 .. Len(new) PROVE new[v].kind # "warning"
  <2>1. v \in DOMAIN new
    BY <1>1
  <2>2. CASE v \in DOMAIN ms
    <3>1. v \in w + 1 .. Len(ms)
      BY <1>1, <2>2
    <3> QED BY <1>1, <2>2, <3>1 DEF LastWarning
  <2>3. CASE v \notin DOMAIN ms
    BY <1>1, <2>1, <2>3
  <2> QED BY <2>2, <2>3
<1>4. w \in 0 .. Len(new)
  BY <1>1
<1> QED BY <1>2, <1>3, <1>4 DEF LastWarning, new

\* No call is no loop.
LEMMA NoLoopYet == ~LoopAtEnd(<<>>)
<1> SUFFICES ASSUME NEW p \in 1 .. WindowSize \div MinRepetitions,
                    p * MinRepetitions <= Len(<<>>)
             PROVE  FALSE
  BY DEF LoopAtEnd
<1> PICK M \in Nat \ {0} : M = MinRepetitions
  BY DetectorAssumption
<1>1. WindowSize \div M \in Nat
  BY DetectorAssumption
<1>2. p \in Nat \ {0}
  BY <1>1
<1>3. 1 * p <= M * p /\ 1 * p = p /\ M * p = p * M /\ p * M \in Nat
  BY <1>2, Multiples
<1> QED BY <1>2, <1>3

\* Messages that are neither results nor warnings leave the window as it should be.
LEMMA WindowKept ==
  ASSUME messages \in Seq(Message), WindowInv, window' = window, NEW extra \in Seq(Message),
         messages' = messages \o extra,
         \A e \in DOMAIN extra : extra[e].kind \notin {"result", "warning"}
  PROVE  WindowInv'
<1>1. PICK w \in 0 .. Len(messages) :
        /\ LastWarning(messages, w)
        /\ window = EndOf(CallsAfter(messages, w))
        /\ ~LoopAtEnd(CallsAfter(messages, w))
  BY DEF WindowInv
<1>2. CallsAfter(messages', w) = CallsAfter(messages, w)
  <2>1. CallsAfter(extra, 0) = <<>>
    BY NothingCalled
  <2>2. CallsAfter(messages \o extra, w) = CallsAfter(messages, w) \o CallsAfter(extra, 0)
    BY CallsGrow
  <2>3. CallsAfter(messages, w) \in Seq(Signature)
    BY CalledTyped
  <2> QED BY <2>1, <2>2, <2>3, ConcatEmptySeq
<1>3. LastWarning(messages', w) /\ w \in 0 .. Len(messages')
  BY <1>1, LastWarningStays
<1> QED BY <1>1, <1>2, <1>3 DEF WindowInv

\* A result is recorded; if it closes a loop the model is warned.
LEMMA WindowTaken ==
  ASSUME SessionTypeOK, WindowInv, Collect
  PROVE  WindowInv'
<1> DEFINE tool == calls[taken + 1]
           warning == Msg("warning", turn, 0, NoTool)
           seen == Recorded(window, tool)
<1>0. messages \in Seq(Message) /\ turn \in Nat /\ Len(messages) \in Nat
  BY LenProperties DEF SessionTypeOK
<1>1. Result \in Message /\ Result.kind = "result" /\ Result.tool = tool
  BY CollectSays DEF Result, Msg
<1>2. tool \in Signature
  BY <1>1 DEF Message, Signature
<1>3. warning \in Message /\ warning.kind = "warning"
  BY <1>0, MsgTyped
<1>4. /\ messages' = messages \o (IF Loops(seen) THEN <<Result, warning>> ELSE <<Result>>)
      /\ window' = IF Loops(seen) THEN <<>> ELSE seen
  BY DEF Collect, TakeResult
<1>5. PICK w \in 0 .. Len(messages) :
        /\ LastWarning(messages, w)
        /\ window = EndOf(CallsAfter(messages, w))
        /\ ~LoopAtEnd(CallsAfter(messages, w))
  BY DEF WindowInv
<1> DEFINE s == CallsAfter(messages, w)
<1>6. s \in Seq(Signature)
  BY <1>0, CalledTyped
<1> HIDE DEF tool, warning, s
<1>7. CASE Loops(seen)
  <2> DEFINE new == messages \o <<Result, warning>>
             n == Len(messages) + 2
  <2>1. messages' = new /\ window' = <<>>
    BY <1>4, <1>7
  <2>2. <<Result, warning>> \in Seq(Message) /\ Len(<<Result, warning>>) = 2
        /\ <<Result, warning>>[2] = warning
    BY <1>1, <1>3
  <2>3. new \in Seq(Message) /\ Len(new) = n /\ n \in Nat /\ new[n] = warning
    <3>1. n \in 1 .. Len(messages) + 2 /\ ~(n <= Len(messages)) /\ n - Len(messages) = 2
      BY <1>0
    <3>2. new[n] = <<Result, warning>>[n - Len(messages)]
      BY <1>0, <2>2, <3>1, ConcatProperties
    <3> QED BY <1>0, <2>2, <3>1, <3>2, ConcatProperties
  <2> HIDE DEF new, n
  <2>4. LastWarning(new, n) /\ n \in 0 .. Len(new)
    BY <1>3, <2>3 DEF LastWarning
  <2>5. CallsAfter(new, n) = <<>>
    <3>1. [i \in 1 .. Len(new) - n |-> Called(new[n + i])] = <<>>
      BY <2>3
    <3>2. FlattenSeq(<<>>) = <<>>
      BY FlattenBasics, Zenon
    <3> QED BY <3>1, <3>2, Zenon DEF CallsAfter
  <2>6. EndOf(<<>>) = <<>>
    BY DetectorAssumption DEF EndOf
  <2>7. ~LoopAtEnd(<<>>)
    BY NoLoopYet
  <2> QED BY <2>1, <2>4, <2>5, <2>6, <2>7, Zenon DEF WindowInv
<1>8. CASE ~Loops(seen)
  <2>1. messages' = messages \o <<Result>> /\ window' = seen
    BY <1>4, <1>8
  <2>2. /\ <<Result>> \in Seq(Message) /\ DOMAIN <<Result>> = {1} /\ <<Result>>[1] = Result
    BY <1>1
  <2>3. LastWarning(messages', w) /\ w \in 0 .. Len(messages')
    BY <1>0, <1>1, <1>5, <2>1, <2>2, LastWarningStays
  <2>4. CallsAfter(messages', w) = Append(s, tool)
    <3>1. CallsAfter(<<Result>>, 0) = <<tool>>
      BY <1>1, OneCalled
    <3>2. CallsAfter(messages \o <<Result>>, w) = s \o CallsAfter(<<Result>>, 0)
      BY <1>0, <2>2, CallsGrow DEF s
    <3> QED BY <1>2, <1>6, <2>1, <3>1, <3>2, AppendIsConcat
  <2>5. seen = EndOf(Append(s, tool))
    BY <1>2, <1>5, <1>6, RecordedAtEnd DEF s
  <2>6. ~LoopAtEnd(Append(s, tool))
    <3>1. Append(s, tool) \in Seq(Signature)
      BY <1>2, <1>6
    <3> QED BY <1>8, <2>5, <3>1, LoopShows
  <2> QED BY <2>1, <2>3, <2>4, <2>5, <2>6 DEF WindowInv
<1> QED BY <1>7, <1>8

\* Every step keeps the window in line with the conversation.
LEMMA WindowStep ==
  ASSUME SessionInv, WindowInv, [Next]_vars
  PROVE  WindowInv'
<1>0. SessionTypeOK /\ messages \in Seq(Message)
  BY DEF SessionInv, SessionTypeOK
<1>1. CASE Silent \/ Steer
  <2>1. UNCHANGED <<messages, window>>
    BY <1>1 DEF Silent, Steer, toolVars
  <2> QED BY <2>1 DEF WindowInv
<1>2. CASE Speaks
  <2>1. PICK extra \in Seq(Message) :
          /\ messages' = messages \o extra
          /\ \A e \in DOMAIN extra : extra[e].kind \in {"user", "steer"}
    BY <1>2 DEF Speaks
  <2>2. window' = window
    BY <1>2 DEF Speaks
  <2> QED BY <1>0, <2>1, <2>2, WindowKept
<1>3. ASSUME NEW round \in Rounds, Response(round) PROVE WindowInv'
  <2> DEFINE msg == Msg("assistant", turn + 1, Len(round), NoTool)
  <2>1. msg \in Message /\ messages' = messages \o <<msg>> /\ window' = window
    BY <1>0, <1>3, ResponseSays
  <2>2. msg.kind = "assistant"
    BY DEF Msg
  <2> HIDE DEF msg
  <2>3. <<msg>> \in Seq(Message) /\ \A e \in DOMAIN <<msg>> : <<msg>>[e].kind = "assistant"
    BY <2>1, <2>2
  <2> QED BY <1>0, <2>1, <2>3, WindowKept
<1>4. CASE Collect
  BY <1>0, <1>4, WindowTaken
<1> QED BY <1>1, <1>2, <1>3, <1>4, StepKinds

\* Nothing was called yet.
LEMMA WindowInit == Init => WindowInv
<1> SUFFICES ASSUME Init PROVE WindowInv
  OBVIOUS
<1>1. messages = <<>> /\ window = <<>>
  BY DEF Init
<1>2. CallsAfter(<<>>, 0) = <<>>
  <2>1. <<>> \in Seq(Message) /\ DOMAIN <<>> = {}
    OBVIOUS
  <2> QED BY <2>1, NothingCalled
<1>3. EndOf(<<>>) = <<>> /\ LastWarning(<<>>, 0) /\ 0 \in 0 .. Len(<<>>)
  BY DetectorAssumption DEF EndOf, LastWarning
<1> QED BY <1>1, <1>2, <1>3, NoLoopYet DEF WindowInv

(* -------------------------------- theorems ------------------------------ *)

\* A new session has said nothing.
LEMMA SessionInvInit == Init => SessionInv
<1> SUFFICES ASSUME Init PROVE SessionInv
  OBVIOUS
<1>1. /\ messages = <<>> /\ request = <<>> /\ calls = <<>> /\ steering = <<>> /\ window = <<>>
      /\ llm = "idle" /\ attempt = 0 /\ active = TRUE /\ at = "idle" /\ turn = 0 /\ said = 0
      /\ cancelled = FALSE /\ returned = {} /\ taken = 0 /\ answer = "none"
  BY DEF Init, LlmInit
<1>2. SessionTypeOK
  <2>1. LlmTypeOK
    BY <1>1, RetryAssumption DEF LlmTypeOK
  <2>2. messages \in Seq(Message) /\ request \in Seq(Message) /\ turn \in Nat
    BY <1>1
  <2>3. steering \in Seq(1 .. MaxSaid) /\ said \in 0 .. MaxSaid
    BY <1>1, SessionAssumption
  <2>4. /\ calls \in Seq(Tool) /\ window \in Seq(Tool) /\ Len(window) <= WindowSize
        /\ returned \subseteq DOMAIN calls /\ taken \in 0 .. Len(calls)
    BY <1>1, DetectorAssumption
  <2> QED BY <1>1, <2>1, <2>2, <2>3, <2>4 DEF SessionTypeOK
<1> QED BY <1>1, <1>2 DEF SessionInv, RetryLeft, InputState, TurnsNumbered, RoundsAnswered

\* The inductive invariant.
LEMMA SessionInductive == Spec => []SessionInv
<1>1. SessionInv /\ [Next]_vars => SessionInv'
  BY TypedStep, InputStep, TurnsStep, RoundsStep DEF SessionInv
<1> QED BY <1>1, SessionInvInit, PTL DEF Spec

\* The session keeps its types; the window stays within its size.
THEOREM SessionTypeCorrect == Spec => []SessionTypeOK
<1>1. SessionInv => SessionTypeOK
  BY DEF SessionInv
<1> QED BY <1>1, SessionInductive, PTL

\* Every request the LLM is sent is the whole conversation, with every call in it
\* answered once and in its place.
THEOREM RequestsAnswered == Spec => []CallsAnswered
<1>1. SessionInv => CallsAnswered
  <2> SUFFICES ASSUME SessionInv, at = "llm"
      PROVE  /\ request = messages
             /\ \A p \in DOMAIN request :
                  request[p].kind = "assistant" => Answered(request, p, request[p].n)
    BY DEF CallsAnswered
  <2>1. request = messages /\ active
    BY DEF SessionInv, InputState
  <2> QED BY <2>1, AllAnsweredNow DEF AllAnswered
<1> QED BY <1>1, SessionInductive, PTL

\* No tool is executed for a response at or beyond the limit of turns.
THEOREM ToolsBounded == Spec => []ToolsWithinTurns
<1>1. SessionInv => ToolsWithinTurns
  BY DEF SessionInv, TurnsNumbered, ToolsWithinTurns
<1> QED BY <1>1, SessionInductive, PTL

\* A cancelled session begins no call of the LLM and no round of tools.
THEOREM CancellationStops == Spec => CancelStops
<1>1. SessionInv /\ [Next]_vars
        => [cancelled => at' \in {at, "idle"} \/ at = "idle" \/ at' = "top"]_vars
  <2> SUFFICES ASSUME SessionInv, [Next]_vars, cancelled
               PROVE  at' \in {at, "idle"} \/ at = "idle" \/ at' = "top"
    OBVIOUS
  <2>1. \A round \in Rounds : Response(round) => at' = "idle"
    BY ResponseGoesOn
  <2>2. \/ UNCHANGED at \/ at = "idle" \/ at' = "idle" \/ at' = "top"
        \/ \E round \in Rounds : Response(round)
    BY DEF Next, vars, ProcessInput, Steer, Cancel, SessionStep, ProviderAnswers,
           ToolAnswers, StopAtTop, Call, Retry, CallFails, Collect, NextRound, RoundIsOver,
           AttemptError, ToolReturns, End, Return, sessionVars
  <2> QED BY <2>1, <2>2
<1> QED BY <1>1, SessionInductive, PTL DEF Spec, CancelStops

\* A model that repeats a pattern MinRepetitions times is warned before it is called
\* again, whatever rounds, inputs and other tools lie between: the window forgets
\* nothing that a loop could be made of.
THEOREM LoopsAreWarned == Spec => []LoopIsWarned
<1>1. SessionInv /\ WindowInv => LoopIsWarned
  <2> SUFFICES ASSUME SessionInv, WindowInv PROVE LoopIsWarned
    OBVIOUS
  <2>1. PICK w \in 0 .. Len(messages) :
          LastWarning(messages, w) /\ ~LoopAtEnd(CallsAfter(messages, w))
    BY DEF WindowInv
  <2> DEFINE v == CHOOSE v \in 0 .. Len(messages) : LastWarning(messages, v)
  <2>2. v \in 0 .. Len(messages) /\ LastWarning(messages, v)
    BY <2>1, Zenon
  <2>3. CallsSinceWarning = CallsAfter(messages, v)
    BY DEF CallsSinceWarning
  <2> HIDE DEF v
  <2>4. v = w
    BY <2>1, <2>2, LastWarningUnique DEF SessionInv, SessionTypeOK
  <2> QED BY <2>1, <2>3, <2>4 DEF LoopIsWarned
<1>2. SessionInv /\ WindowInv /\ [Next]_vars => WindowInv'
  BY WindowStep
<1> QED BY <1>1, <1>2, WindowInit, SessionInductive, PTL DEF Spec
(* ------------------------- every input comes to rest --------------------- *)

\* How far process_input is from its return or from the next call of the LLM.
Place == CASE at = "tools" -> 3
           [] at = "top"   -> 2
           [] at = "llm"   -> 1
           [] OTHER        -> 0

\* The attempts and delays a call of the LLM may still take.
CallLeft == CASE llm = "trying"  -> 2 * (MaxRetries - attempt) + 2
              [] llm = "waiting" -> 2 * (MaxRetries - attempt) + 1
              [] OTHER           -> 0

\* The tools of the round that are still out.
Outstanding == Cardinality(DOMAIN calls \ returned)

SessionRank == <<MaxSaid - said, One(~cancelled), Left(MaxTurns, turn), Place, CallLeft,
                 Outstanding, Len(calls) - taken>>

SessionDescends == [][Lower(SessionRank', SessionRank)]_vars

\* The parts of the rank are numbers.
LEMMA SessionRankParts ==
  ASSUME SessionTypeOK
  PROVE  /\ MaxSaid - said \in Nat /\ One(~cancelled) \in Nat /\ Left(MaxTurns, turn) \in Nat
         /\ Place \in Nat /\ CallLeft \in Nat /\ Outstanding \in Nat /\ Len(calls) - taken \in Nat
         /\ IsFiniteSet(DOMAIN calls \ returned)
<1> USE SessionAssumption, RetryAssumption DEF SessionTypeOK, LlmTypeOK
<1>1. MaxSaid - said \in Nat /\ One(~cancelled) \in Nat /\ Left(MaxTurns, turn) \in Nat
  BY DEF One, Left
<1>2. Place \in Nat /\ CallLeft \in Nat
  <2>1. MaxRetries - attempt \in Nat
    OBVIOUS
  <2> QED BY <2>1, SMTT(30) DEF Place, CallLeft
<1>3. Len(calls) - taken \in Nat
  OBVIOUS
<1>4. IsFiniteSet(DOMAIN calls \ returned)
  <2>1. DOMAIN calls = 1 .. Len(calls) /\ Len(calls) \in Nat
    OBVIOUS
  <2>2. IsFiniteSet(1 .. Len(calls))
    BY <2>1, FS_Interval
  <2> QED BY <2>1, <2>2, FS_Difference
<1>5. Outstanding \in Nat
  BY <1>4, FS_CardinalityType DEF Outstanding
<1> QED BY <1>1, <1>2, <1>3, <1>4, <1>5

\* Every step of the session, its owner, the provider and the tools lowers it.
LEMMA SessionStepDescends ==
  ASSUME SessionTypeOK, Next
  PROVE  Lower(SessionRank', SessionRank)
<1> USE DEF SessionRank
<1>t. /\ said \in Nat /\ turn \in Nat /\ taken \in Nat /\ attempt \in 0 .. MaxRetries
      /\ MaxSaid \in Nat /\ MaxTurns \in Nat /\ MaxRetries \in Nat /\ calls \in Seq(Tool)
      /\ cancelled \in BOOLEAN
  BY SessionAssumption, RetryAssumption DEF SessionTypeOK, LlmTypeOK
<1>1. CASE ProcessInput \/ Steer
  <2>1. said' = said + 1
    BY <1>1 DEF ProcessInput, Steer
  <2>2. MaxSaid - said' < MaxSaid - said
    BY <1>t, <2>1
  <2> QED BY <2>2, LowerOfSeven, SMTT(40)
<1>2. CASE Cancel
  <2>1. said' = said /\ ~cancelled /\ cancelled'
    BY <1>2 DEF Cancel, conversationVars
  <2>2. One(~cancelled)' < One(~cancelled)
    BY <2>1 DEF One
  <2> QED BY <2>1, <2>2, LowerOfSeven, SMTT(40)
<1>3. CASE StopAtTop \/ Call \/ CallFails \/ NextRound
  <2>1. UNCHANGED <<said, turn, cancelled>>
    BY <1>3 DEF StopAtTop, Call, CallFails, NextRound, RoundIsOver, conversationVars
  <2>2. Place' < Place
    BY <1>3 DEF StopAtTop, Call, CallFails, NextRound, RoundIsOver, End, Return, Place
  <2>3. One(~cancelled)' = One(~cancelled) /\ Left(MaxTurns, turn)' = Left(MaxTurns, turn)
    BY <2>1
  <2> QED BY <2>1, <2>2, <2>3, LowerOfSeven, SMTT(40)
<1>4. CASE AttemptError \/ Retry
  <2>1. UNCHANGED <<said, turn, cancelled, at>>
    BY <1>4 DEF AttemptError, Retry, conversationVars, sessionVars
  <2>2. CallLeft' < CallLeft
    <3>1. CASE AttemptError
      <4>1. llm = "trying" /\ llm' \in {"waiting", "failed"} /\ attempt' = attempt
        BY <3>1 DEF AttemptError, AttemptFails
      <4> QED BY <1>t, <4>1 DEF CallLeft
    <3>2. CASE Retry
      <4>1. llm = "waiting" /\ llm' = "trying" /\ attempt' = attempt + 1
        BY <3>2 DEF Retry, Retries
      <4> QED BY <1>t, <4>1 DEF CallLeft
    <3> QED BY <1>4, <3>1, <3>2
  <2>3. /\ One(~cancelled)' = One(~cancelled) /\ Left(MaxTurns, turn)' = Left(MaxTurns, turn)
        /\ Place' = Place
    BY <2>1 DEF Place
  <2> QED BY <2>1, <2>2, <2>3, LowerOfSeven, SMTT(40)
<1>5. ASSUME NEW round \in Rounds, Response(round) PROVE Lower(SessionRank', SessionRank)
  <2>1. UNCHANGED <<said, cancelled>> /\ turn' = turn + 1 /\ at = "llm"
    BY <1>5 DEF Response
  <2>2. One(~cancelled)' = One(~cancelled)
    BY <2>1
  <2>3. CASE turn < MaxTurns
    <3>1. Left(MaxTurns, turn)' < Left(MaxTurns, turn)
      BY <1>t, <2>1, <2>3 DEF Left
    <3> QED BY <2>1, <2>2, <3>1, LowerOfSeven, SMTT(40)
  <2>4. CASE ~(turn < MaxTurns)
    <3>1. AtLimit
      BY <1>t, <2>4 DEF AtLimit
    <3>2. at' = "idle"
      BY <1>5, <3>1 DEF Response, Proceed, End, Return
    <3>3. Place' < Place
      BY <2>1, <3>2 DEF Place
    <3>4. Left(MaxTurns, turn)' = Left(MaxTurns, turn)
      BY <1>t, <2>1, <2>4 DEF Left
    <3> QED BY <2>1, <2>2, <3>3, <3>4, LowerOfSeven, SMTT(40)
  <2> QED BY <2>3, <2>4
<1>6. ASSUME NEW i \in DOMAIN calls \ returned, ToolReturns(i)
      PROVE  Lower(SessionRank', SessionRank)
  <2>1. /\ UNCHANGED <<said, turn, cancelled, at, llm, attempt, calls>>
        /\ returned' = returned \cup {i}
    BY <1>6 DEF ToolReturns, conversationVars, sessionVars, llmVars
  <2>2. /\ One(~cancelled)' = One(~cancelled) /\ Left(MaxTurns, turn)' = Left(MaxTurns, turn)
        /\ Place' = Place /\ CallLeft' = CallLeft
    BY <2>1 DEF Place, CallLeft
  <2>3. Outstanding' < Outstanding
    <3>1. DOMAIN calls' \ returned' = (DOMAIN calls \ returned) \ {i}
      BY <2>1
    <3>2. IsFiniteSet(DOMAIN calls \ returned)
      BY SessionRankParts
    <3>3. /\ Cardinality((DOMAIN calls \ returned) \ {i}) = Cardinality(DOMAIN calls \ returned) - 1
          /\ Cardinality(DOMAIN calls \ returned) \in Nat
      BY <1>6, <3>2, FS_RemoveElement, FS_CardinalityType
    <3>4. Outstanding' = Cardinality((DOMAIN calls \ returned) \ {i})
      BY <3>1, Zenon DEF Outstanding
    <3>5. Outstanding = Cardinality(DOMAIN calls \ returned)
      BY DEF Outstanding
    <3> QED BY <3>3, <3>4, <3>5
  <2> QED BY <2>1, <2>2, <2>3, LowerOfSeven, SMTT(40)
<1>7. CASE Collect
  <2>1. /\ UNCHANGED <<said, turn, cancelled, at, llm, attempt, calls, returned>>
        /\ taken' = taken + 1
    BY <1>7 DEF Collect, TakeResult, conversationVars, sessionVars, llmVars
  <2>2. /\ One(~cancelled)' = One(~cancelled) /\ Left(MaxTurns, turn)' = Left(MaxTurns, turn)
        /\ Place' = Place /\ CallLeft' = CallLeft /\ Outstanding' = Outstanding
    BY <2>1 DEF Place, CallLeft, Outstanding
  <2>3. Len(calls') - taken' < Len(calls) - taken
    BY <1>t, <2>1
  <2> QED BY <2>1, <2>2, <2>3, LowerOfSeven, SMTT(40)
<1> QED BY <1>1, <1>2, <1>3, <1>4, <1>5, <1>6, <1>7
        DEF Next, SessionStep, ProviderAnswers, ToolAnswers

\* An input of any session takes finitely many steps, whatever the model asks
\* for, however its calls fail and whenever the token is cancelled: no retry, no
\* round of tools and no steering gives back what it used up of the inputs, the
\* turns, the attempts or the results to come (session.rs process_input,
\* retry.rs).
THEOREM InputsDescend == Spec => [](SessionRank \in [1 .. 7 -> Nat]) /\ SessionDescends
<1>1. SessionTypeOK => SessionRank \in [1 .. 7 -> Nat]
  BY SessionRankParts DEF SessionRank
<1>2. SessionTypeOK /\ [Next]_vars => [Lower(SessionRank', SessionRank)]_vars
  BY SessionStepDescends
<1> QED BY <1>1, <1>2, SessionTypeCorrect, PTL DEF Spec, SessionDescends

(* ------------------------- no input is left waiting ---------------------- *)

\* A call of the LLM is under way while the session waits for one, and only then.
CallMatches == at = "llm" <=> llm # "idle"

\* A session with an input in hand waits for nothing that is not under way: at the
\* top it stops or can call, in a call an attempt is out, a delay runs or an error
\* is there to return, in a round a tool is out, or a result or the end of the round
\* is there to take.
InputServed ==
  at # "idle" =>
    \/ at = "top" /\ (cancelled \/ llm = "idle")
    \/ at = "llm" /\ llm \in {"trying", "waiting", "failed"}
    \/ at = "tools" /\ DOMAIN calls \ returned # {}
    \/ at = "tools" /\ returned = DOMAIN calls /\ taken <= Len(calls)

\* A step begins or ends the wait together with the call.
LEMMA CallMatchesStep == CallMatches /\ [Next]_vars => CallMatches'
<1> SUFFICES ASSUME CallMatches, [Next]_vars PROVE CallMatches'
  OBVIOUS
<1> USE DEF CallMatches
<1>1. CASE ProcessInput \/ StopAtTop \/ NextRound
  <2>1. at' # "llm" /\ at # "llm" /\ llm' = llm
    BY <1>1 DEF ProcessInput, StopAtTop, NextRound, RoundIsOver, End, Return, llmVars
  <2> QED BY <2>1
<1>2. CASE Call
  BY <1>2 DEF Call, Begin
<1>3. CASE AttemptError \/ Retry
  BY <1>3 DEF AttemptError, AttemptFails, Retry, Retries, sessionVars
<1>4. CASE CallFails
  BY <1>4 DEF CallFails, Fails, Return
<1>5. ASSUME NEW round \in Rounds, Response(round) PROVE CallMatches'
  BY <1>5 DEF Response, Responds, Proceed, Return, End
<1>6. CASE \/ UNCHANGED vars \/ Steer \/ Cancel \/ Collect
           \/ \E i \in DOMAIN calls \ returned : ToolReturns(i)
  BY <1>6 DEF vars, Steer, Cancel, Collect, ToolReturns, sessionVars, llmVars
<1> QED BY <1>1, <1>2, <1>3, <1>4, <1>5, <1>6
        DEF Next, SessionStep, ProviderAnswers, ToolAnswers

\* No input is left waiting, whenever the token is cancelled and whatever fails
\* (session.rs, client and util/retry.rs).
THEOREM InputIsServed == Spec => []InputServed
<1>1. Init => CallMatches
  BY DEF Init, LlmInit, CallMatches
<1>2. SessionTypeOK /\ CallMatches => InputServed
  <2> SUFFICES ASSUME SessionTypeOK, CallMatches PROVE InputServed
    OBVIOUS
  <2>1. /\ at \in {"idle", "top", "llm", "tools"}
        /\ llm \in {"idle", "trying", "waiting", "failed"}
        /\ returned \subseteq DOMAIN calls
    BY DEF SessionTypeOK, LlmTypeOK
  <2>2. taken <= Len(calls)
    <3>1. calls \in Seq(Tool) /\ taken \in 0 .. Len(calls)
      BY DEF SessionTypeOK
    <3> QED BY <3>1
  <2>3. at = "llm" <=> llm # "idle"
    BY DEF CallMatches
  <2>4. DOMAIN calls \ returned # {} \/ returned = DOMAIN calls
    BY <2>1
  <2> QED BY <2>1, <2>2, <2>3, <2>4 DEF InputServed
<1> QED BY <1>1, <1>2, CallMatchesStep, SessionTypeCorrect, PTL DEF Spec
=============================================================================
