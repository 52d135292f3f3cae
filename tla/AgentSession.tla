---------------------------- MODULE AgentSession ----------------------------
(***************************************************************************)
(* An agent session: it takes one input at a time, calls the LLM with the  *)
(* conversation, executes the tools a response asks for and calls the LLM  *)
(* again, until a response asks for none. Its owner steers it between      *)
(* inputs; any task that holds its token may cancel it at any time.        *)
(*                                                                         *)
(* An action is what happens between two awaits of process_input. The      *)
(* events a step emits repeat what it does to the conversation and are     *)
(* left out.                                                               *)
(***************************************************************************)
EXTENDS LlmCall, LoopDetector, SequencesExt

CONSTANTS
  Tool,      \* a tool with its arguments: the signature of a call
  NoTool,    \* no tool
  MaxTurns,  \* SessionConfig.max_turns
  MaxRound,  \* bound: calls of a response
  MaxSaid    \* bound: inputs and steering messages

ASSUME SessionAssumption ==
  /\ NoTool \notin Tool
  /\ MaxTurns \in Nat
  /\ MaxRound \in Nat
  /\ MaxSaid \in Nat

VARIABLES
  active,     \* SessionState.active
  at,         \* of process_input: "idle" (not called), "top", "llm", "tools"
  messages,   \* the conversation
  request,    \* the messages of the request that is sent
  turn,       \* turn_number: responses so far
  steering,   \* steering_queue
  said,       \* inputs and steering messages so far
  cancelled,  \* cancel_token
  calls,      \* tool calls of the last response
  returned,   \* those whose tool has returned
  taken,      \* results put into the conversation
  window,     \* LoopDetector.history
  answer      \* what the last process_input returned

conversationVars == <<messages, request, turn, steering, said>>
toolVars    == <<calls, returned, taken, window>>
sessionVars == <<active, at, answer, cancelled>>
vars        == <<llmVars, conversationVars, toolVars, sessionVars>>

\* A message: of kind "user", "steer" or "warning"; "assistant", with the number
\* of its tool calls; or "result", with the number and the tool of its call.
Msg(k, t, n, tool) == [kind |-> k, turn |-> t, n |-> n, tool |-> tool]

Rounds == UNION {[1 .. n -> Tool] : n \in 0 .. MaxRound}

Init ==
  /\ LlmInit
  /\ active = TRUE
  /\ at = "idle"
  /\ messages = <<>>
  /\ request = <<>>
  /\ turn = 0
  /\ steering = <<>>
  /\ said = 0
  /\ cancelled = FALSE
  /\ calls = <<>>
  /\ returned = {}
  /\ taken = 0
  /\ window = <<>>
  /\ answer = "none"

Return(a) == at' = "idle" /\ answer' = a

\* The session is over: no input is accepted any more.
End(a) == active' = FALSE /\ Return(a)

Steered == [i \in DOMAIN steering |-> Msg("steer", turn, steering[i], NoTool)]

(***************************************************************************)
(* The owner and the holder of the token                                   *)
(***************************************************************************)

\* process_input adds the input, then what was steered before it came. An
\* inactive session refuses.
ProcessInput ==
  /\ at = "idle"
  /\ active
  /\ said < MaxSaid
  /\ said' = said + 1
  /\ messages' = messages \o <<Msg("user", turn, said + 1, NoTool)>> \o Steered
  /\ steering' = <<>>
  /\ request' = messages'
  /\ at' = "top"
  /\ UNCHANGED <<llmVars, toolVars, turn, active, answer, cancelled>>

\* steer and follow_up need the session for themselves: not during an input.
Steer ==
  /\ at = "idle"
  /\ said < MaxSaid
  /\ said' = said + 1
  /\ steering' = Append(steering, said + 1)
  /\ UNCHANGED <<llmVars, toolVars, sessionVars, messages, request, turn>>

Cancel ==
  /\ ~cancelled
  /\ cancelled' = TRUE
  /\ UNCHANGED <<llmVars, conversationVars, toolVars, active, at, answer>>

(***************************************************************************)
(* The loop of process_input                                               *)
(***************************************************************************)

StopAtTop ==
  /\ at = "top"
  /\ cancelled
  /\ End("Cancelled")
  /\ UNCHANGED <<llmVars, conversationVars, toolVars, cancelled>>

Call ==
  /\ at = "top"
  /\ ~cancelled
  /\ Begin
  /\ at' = "llm"
  /\ UNCHANGED <<conversationVars, toolVars, active, answer, cancelled>>

\* The call fails: process_input returns the error, the session stays active.
CallFails ==
  /\ at = "llm"
  /\ Fails
  /\ Return("Llm")
  /\ UNCHANGED <<conversationVars, toolVars, active, cancelled>>

AttemptError ==
  /\ at = "llm"
  /\ AttemptFails
  /\ UNCHANGED <<conversationVars, toolVars, sessionVars>>

Retry ==
  /\ at = "llm"
  /\ Retries
  /\ UNCHANGED <<conversationVars, toolVars, sessionVars>>

\* A limit on the responses to the last input.
AtLimitOfInput ==
  Cardinality({p \in DOMAIN messages : messages[p].kind = "assistant"
                 /\ \A q \in p .. Len(messages) : messages[q].kind # "user"}) + 1 >= MaxTurns

\* The turns are those of the whole session, whatever input they belong to.
AtLimit == turn + 1 >= MaxTurns

\* A round that does not look at the token.
NeverStops == FALSE

StopsBeforeTools == cancelled

\* A response without tool calls is the answer. Others are checked against the
\* limit and the token before their tools are executed; if either ends the
\* session, their calls stay unanswered.
Proceed(round) ==
  \/ round = <<>> /\ Return("Ok") /\ UNCHANGED <<active, calls>>
  \/ round # <<>> /\ AtLimit /\ End("TurnLimit") /\ UNCHANGED calls
  \/ round # <<>> /\ ~AtLimit /\ StopsBeforeTools /\ End("Cancelled") /\ UNCHANGED calls
  \/ /\ round # <<>> /\ ~AtLimit /\ ~StopsBeforeTools
     /\ at' = "tools"
     /\ calls' = round
     /\ UNCHANGED <<active, answer>>

Response(round) ==
  /\ at = "llm"
  /\ Responds
  /\ messages' = Append(messages, Msg("assistant", turn + 1, Len(round), NoTool))
  /\ turn' = turn + 1
  /\ Proceed(round)
  /\ UNCHANGED <<request, steering, said, returned, taken, window, cancelled>>

\* The tools of a round run concurrently and return in any order.
ToolReturns(i) ==
  /\ at = "tools"
  /\ returned' = returned \cup {i}
  /\ UNCHANGED <<llmVars, conversationVars, sessionVars, calls, taken, window>>

Result == Msg("result", turn, taken + 1, calls[taken + 1])

\* A loop is announced to the model right after the result that closed it, and
\* the detector starts anew.
TakeResult ==
  LET seen == Recorded(window, calls[taken + 1]) IN
  /\ messages' = messages \o (IF Loops(seen)
                               THEN <<Result, Msg("warning", turn, 0, NoTool)>>
                               ELSE <<Result>>)
  /\ window' = IF Loops(seen) THEN <<>> ELSE seen
  /\ taken' = taken + 1

\* When all have returned the results are taken in the order of the calls ...
Collect ==
  /\ at = "tools"
  /\ returned = DOMAIN calls
  /\ taken < Len(calls)
  /\ TakeResult
  /\ UNCHANGED <<llmVars, sessionVars, request, turn, steering, said, calls, returned>>

RoundIsOver ==
  /\ at = "tools"
  /\ taken = Len(calls)
  /\ at' = "top"
  /\ calls' = <<>>
  /\ returned' = {}
  /\ taken' = 0

\* A request that stays as it was.
NextRoundStale ==
  /\ RoundIsOver
  /\ messages' = messages \o Steered
  /\ steering' = <<>>
  /\ UNCHANGED <<llmVars, request, turn, said, window, active, answer, cancelled>>

\* ... what was steered is added, and the request takes the conversation.
NextRound ==
  /\ RoundIsOver
  /\ messages' = messages \o Steered
  /\ steering' = <<>>
  /\ request' = messages'
  /\ UNCHANGED <<llmVars, turn, said, window, active, answer, cancelled>>

(***************************************************************************)
(* Specification                                                           *)
(***************************************************************************)

ProviderAnswers == AttemptError \/ \E round \in Rounds : Response(round)

ToolAnswers == \E i \in DOMAIN calls \ returned : ToolReturns(i)

\* What the session does as soon as it is polled.
SessionStep == StopAtTop \/ Call \/ Retry \/ CallFails \/ Collect \/ NextRound

Next ==
  \/ ProcessInput \/ Steer \/ Cancel
  \/ SessionStep \/ ProviderAnswers \/ ToolAnswers

Spec == Init /\ [][Next]_vars

\* The runtime polls the session and its timers; the provider answers every
\* request with something, and every tool returns.
FairSpec ==
  /\ Spec
  /\ WF_vars(SessionStep) /\ WF_vars(ProviderAnswers) /\ WF_vars(ToolAnswers)

(***************************************************************************)
(* Properties                                                              *)
(***************************************************************************)

Message ==
  [kind : {"user", "steer", "assistant", "result", "warning"},
   turn : Nat, n : Nat, tool : Tool \cup {NoTool}]

\* Type invariant.
SessionTypeOK ==
  /\ LlmTypeOK
  /\ active \in BOOLEAN
  /\ at \in {"idle", "top", "llm", "tools"}
  /\ messages \in Seq(Message)
  /\ request \in Seq(Message)
  /\ turn \in Nat
  /\ steering \in Seq(1 .. MaxSaid)
  /\ said \in 0 .. MaxSaid
  /\ cancelled \in BOOLEAN
  /\ calls \in Seq(Tool)
  /\ returned \subseteq DOMAIN calls
  /\ taken \in 0 .. Len(calls)
  /\ window \in Seq(Tool) /\ Len(window) <= WindowSize
  /\ answer \in {"none", "Ok", "Llm", "TurnLimit", "Cancelled"}

\* Places in ms of the result of call i of the response at p.
ResultsOf(ms, p, i) ==
  {q \in DOMAIN ms : ms[q].kind = "result" /\ ms[q].turn = ms[p].turn /\ ms[q].n = i}

\* The first n calls of the response at p are answered, each once, after it and
\* before anything but other results of its and warnings.
Answered(ms, p, n) ==
  \A i \in 1 .. n : \E q \in DOMAIN ms :
    /\ ResultsOf(ms, p, i) = {q}
    /\ p < q
    /\ \A k \in p + 1 .. q : ms[k].kind \in {"result", "warning"}

\* The LLM is never sent a call without its result, a result twice or out of
\* place, or less than the whole conversation: not after a failed call, a round
\* that a limit or a cancellation cut short, or steering between inputs.
CallsAnswered ==
  at = "llm" =>
    /\ request = messages
    /\ \A p \in DOMAIN request :
         request[p].kind = "assistant" => Answered(request, p, request[p].n)

\* However many inputs share the session, tools are executed for fewer than
\* MaxTurns responses.
ToolsWithinTurns ==
  \A p \in DOMAIN messages : messages[p].kind = "result" => messages[p].turn < MaxTurns

\* The last warning in ms is at w; 0 stands for none.
LastWarning(ms, w) ==
  /\ w = 0 \/ ms[w].kind = "warning"
  /\ \A v \in w + 1 .. Len(ms) : ms[v].kind # "warning"

\* The tools called by the messages behind w, as their results tell.
Called(m) == IF m.kind = "result" THEN <<m.tool>> ELSE <<>>

CallsAfter(ms, w) == FlattenSeq([i \in 1 .. Len(ms) - w |-> Called(ms[w + i])])

\* The tools called since the model was last warned of a loop.
CallsSinceWarning ==
  CallsAfter(messages, CHOOSE w \in 0 .. Len(messages) : LastWarning(messages, w))

\* A model that repeats itself is told so at the MinRepetitions-th repetition,
\* across rounds and inputs: the calls since the last warning end in no loop.
LoopIsWarned == ~LoopAtEnd(CallsSinceWarning)

\* Once the token is cancelled no call of the LLM and no round of tools is begun;
\* what is under way is waited for.
CancelStops ==
  [][cancelled => at' \in {at, "idle"} \/ at = "idle" \/ at' = "top"]_vars

\* Every input returns, whatever the model asks for: the attempts of a call and
\* the rounds of a session are bounded.
InputReturns == (at # "idle") ~> (at = "idle")
=============================================================================
