------------------------------- MODULE TuiRun -------------------------------
(***************************************************************************)
(* `smasher run' with its dashboard: four tasks and a user.                *)
(*                                                                         *)
(* The engine runs nodes and broadcasts events; a node that asks a human   *)
(* sends its question through a channel and waits. One bridge forwards the *)
(* events to the dashboard, another the questions, one at a time, and      *)
(* relays what the user entered. The dashboard closes when the user quits  *)
(* or some time after an announced end; only then does the command wait    *)
(* for the engine.                                                         *)
(*                                                                         *)
(* The engine is reduced to what the dashboard sees of it: the events of   *)
(* each node and how the run ends, with or without an announcement. The    *)
(* agent of a node emits events of its own, also after the node failed.    *)
(***************************************************************************)
EXTENDS Naturals, Sequences, FiniteSets

CONSTANTS
  Node,      \* the nodes of the pipeline
  Gate,      \* those that ask a human
  Resumed,   \* those an earlier process had completed
  Timeouts,  \* whether --interviewer timeout:N is given: a subset of BOOLEAN
  Capacity,  \* events the broadcast channel retains; 256 in the code
  MaxSteps   \* bound: node executions of the run and events of their agents, together

ASSUME TuiAssumption ==
  /\ Gate \subseteq Node
  /\ Resumed \subseteq Node
  /\ IsFiniteSet(Resumed)
  /\ Timeouts \subseteq BOOLEAN
  /\ Capacity \in Nat \ {0}
  /\ MaxSteps \in Nat

NoNode == "none"

VARIABLES
  timeout,    \* the interviewer gives up after some time
  pc,         \* where the engine is
  node,       \* the node it executes
  steps,      \* nodes started; also names the question a gate asks
  talk,       \* events the agents of nodes have emitted
  reply,      \* what is in the oneshot channel of the question asked last
  events,     \* everything broadcast
  read,       \* how many of them the event bridge has taken or lost
  questions,  \* questions on their way to the gate bridge
  relay,      \* the question whose response the gate bridge waits for, or 0
  bridging,   \* the gate bridge runs
  inbox,      \* messages the dashboard has not handled
  overlay,    \* the question on display, or 0
  responses,  \* what the user entered, each named by the question on display
  shown,      \* the status shown for each node
  finished,   \* the number of finished nodes shown
  status,     \* the status shown for the run
  timer,      \* the pause before the dashboard closes by itself has begun
  closed      \* the dashboard has closed

engineVars == <<timeout, pc, node, steps, talk, reply, events>>
bridgeVars == <<read, questions, relay, bridging>>
screenVars == <<shown, finished, status>>
promptVars == <<overlay, responses>>
vars == <<engineVars, bridgeVars, inbox, promptVars, screenVars, timer, closed>>

Ends  == {"PipelineCompleted", "PipelineAborted"}
Kinds == {"PipelineStarted", "NodeStarted", "NodeCompleted", "NodeFailed", "AgentMessage"}
         \cup Ends

Ev(kind, n) == [kind |-> kind, node |-> n]
Event  == [kind : Kinds, node : Node \cup {NoNode}]
Prompt == [kind : {"Prompt"}, question : 1..MaxSteps]

NoReply   == [kind |-> "none"]
Dropped   == [kind |-> "dropped"]
Cancelled == [kind |-> "cancelled"]
Answer(q) == [kind |-> "answer", question |-> q]
Reply == {NoReply, Dropped, Cancelled} \cup {Answer(q) : q \in 1..MaxSteps}

Init ==
  /\ timeout \in Timeouts
  /\ pc = "begin" /\ node = NoNode /\ steps = 0 /\ talk = 0 /\ reply = NoReply
  /\ events = <<>> /\ read = 0
  /\ questions = <<>> /\ relay = 0 /\ bridging = TRUE
  /\ inbox = <<>> /\ overlay = 0 /\ responses = <<>>
  /\ shown = [n \in Node |-> IF n \in Resumed THEN "Completed" ELSE "Pending"]
  /\ finished = Cardinality(Resumed)
  /\ status = "Starting"
  /\ timer = FALSE /\ closed = FALSE

(* ------------------------------ the engine ----------------------------- *)

Emit(kind, n) == events' = Append(events, Ev(kind, n))

Begin ==
  /\ pc = "begin"
  /\ pc' = "next"
  /\ Emit("PipelineStarted", NoNode)
  /\ UNCHANGED <<timeout, node, steps, talk, reply, bridgeVars, inbox, promptVars, screenVars,
                 timer, closed>>

StartNode(n) ==
  /\ pc = "next" /\ steps + talk < MaxSteps
  /\ pc' = IF n \in Gate THEN "ask" ELSE "work"
  /\ node' = n
  /\ steps' = steps + 1
  /\ reply' = NoReply
  /\ Emit("NodeStarted", n)
  /\ UNCHANGED <<timeout, talk, bridgeVars, inbox, promptVars, screenVars, timer, closed>>

Report(kind) ==
  /\ pc' = "next"
  /\ Emit(kind, node)
  /\ UNCHANGED <<timeout, node, steps, talk, reply>>

\* A node that asks nobody returns.
WorkReturns ==
  /\ pc = "work"
  /\ \E kind \in {"NodeCompleted", "NodeFailed"} : Report(kind)
  /\ UNCHANGED <<bridgeVars, inbox, promptVars, screenVars, timer, closed>>

\* The question is sent, or the node fails because nobody receives questions.
Ask ==
  /\ pc = "ask"
  /\ IF bridging
       THEN /\ questions' = Append(questions, steps)
            /\ pc' = "wait"
            /\ UNCHANGED <<timeout, node, steps, talk, reply, events>>
       ELSE Report("NodeFailed") /\ UNCHANGED questions
  /\ UNCHANGED <<read, relay, bridging, inbox, promptVars, screenVars, timer, closed>>

\* A cancelled question skips the node, which counts as completed; a dropped
\* one fails it.
GateReturns ==
  /\ pc = "wait" /\ reply # NoReply
  /\ Report(IF reply = Dropped THEN "NodeFailed" ELSE "NodeCompleted")
  /\ UNCHANGED <<bridgeVars, inbox, promptVars, screenVars, timer, closed>>

\* The time is up, and nothing has been answered.
GateTimesOut ==
  /\ pc = "wait" /\ timeout /\ reply = NoReply
  /\ Report("NodeFailed")
  /\ UNCHANGED <<bridgeVars, inbox, promptVars, screenVars, timer, closed>>

\* Some errors of the engine are returned without an event.
EndRun ==
  /\ pc \in {"begin", "next"}
  /\ pc' = "done"
  /\ \/ pc = "next" /\ \E kind \in Ends : Emit(kind, NoNode)
     \/ UNCHANGED events
  /\ UNCHANGED <<timeout, node, steps, talk, reply, bridgeVars, inbox, promptVars, screenVars,
                 timer, closed>>

\* The agent of a node that works emits an event, or that of a node that failed:
\* the task that reads its output is not stopped when the node's time is up.
Speaks(n) ==
  /\ n \notin Gate
  /\ \/ pc = "work" /\ node = n
     \/ \E i \in 1..Len(events) : events[i] = Ev("NodeFailed", n)

Talk(n) ==
  /\ Speaks(n)
  /\ ~(closed /\ pc = "done")
  /\ steps + talk < MaxSteps
  /\ talk' = talk + 1
  /\ Emit("AgentMessage", n)
  /\ UNCHANGED <<timeout, pc, node, steps, reply, bridgeVars, inbox, promptVars, screenVars,
                 timer, closed>>

Engine == Begin \/ (\E n \in Node : StartNode(n)) \/ WorkReturns \/ Ask \/ GateReturns
          \/ GateTimesOut \/ EndRun

(* ------------------------------ the bridges ---------------------------- *)

\* A message is handed to the dashboard; one that has closed takes none.
Send(m) == inbox' = IF closed THEN inbox ELSE Append(inbox, m)

\* The oldest event still retained.
Oldest == IF Len(events) > Capacity THEN Len(events) - Capacity ELSE 0

\* Mutant: a bridge that lags is a bridge that ends.
NextEventNoLag == IF read < Oldest THEN 0 ELSE read + 1
\* The event to take: the next one, or the oldest if that has been overwritten.
NextEvent      == IF read < Oldest THEN Oldest + 1 ELSE read + 1

\* The channel never closes: the command itself holds the emitter.
ForwardEvent ==
  /\ read < Len(events)
  /\ NextEvent > 0
  /\ read' = NextEvent
  /\ Send(events[NextEvent])
  /\ UNCHANGED <<engineVars, questions, relay, bridging, promptVars, screenVars, timer, closed>>

\* Mutant: the next question is taken although a response is outstanding.
CanTakeAlways == bridging /\ questions # <<>>
CanTake       == bridging /\ questions # <<>> /\ relay = 0

ForwardQuestion ==
  /\ CanTake
  /\ relay' = Head(questions)
  /\ questions' = Tail(questions)
  /\ Send([kind |-> "Prompt", question |-> Head(questions)])
  /\ UNCHANGED <<engineVars, read, bridging, promptVars, screenVars, timer, closed>>

\* A reply reaches the node only while it waits for this very question.
Deliver(q, r) == reply' = IF pc = "wait" /\ steps = q THEN r ELSE reply

RelayResponse ==
  /\ bridging /\ relay # 0 /\ responses # <<>>
  /\ Deliver(relay, Answer(Head(responses)))
  /\ responses' = Tail(responses)
  /\ relay' = 0
  /\ UNCHANGED <<timeout, pc, node, steps, talk, events, read, questions, bridging, inbox, overlay,
                 screenVars, timer, closed>>

\* Mutant: the command keeps a sender of its own.
SenderKept == FALSE
\* The responses have no sender any more: the dashboard held the only one.
SenderGone == closed

\* The bridge cancels the question it relays and ends, which drops the others.
BridgeEnds ==
  /\ bridging /\ relay # 0 /\ responses = <<>> /\ SenderGone
  /\ bridging' = FALSE
  /\ relay' = 0
  /\ questions' = <<>>
  /\ reply' = IF pc # "wait" THEN reply ELSE IF relay = steps THEN Cancelled ELSE Dropped
  /\ UNCHANGED <<timeout, pc, node, steps, talk, events, read, inbox, promptVars, screenVars,
                 timer, closed>>

(* ----------------------------- the dashboard --------------------------- *)

\* A node that is shown as finished already is not counted once more.
Finish(n, as, counted) ==
  /\ shown' = [shown EXCEPT ![n] = as]
  /\ finished' = finished + (IF shown[n] \in counted THEN 0 ELSE 1)

HandleEvent(e) ==
  /\ \/ /\ e.kind = "PipelineStarted"
        /\ status' = "Running"
        /\ UNCHANGED <<shown, finished, timer>>
     \/ /\ e.kind = "NodeStarted"
        /\ shown' = [shown EXCEPT ![e.node] = "Running"]
        /\ UNCHANGED <<finished, status, timer>>
     \/ /\ e.kind = "NodeCompleted"
        /\ Finish(e.node, "Completed", {"Completed"})
        /\ UNCHANGED <<status, timer>>
     \/ /\ e.kind = "NodeFailed"
        /\ Finish(e.node, "Failed", {"Completed", "Failed"})
        /\ status' = "Failed"
        /\ UNCHANGED timer
     \/ /\ e.kind = "PipelineCompleted"
        /\ status' = IF status = "Failed" THEN "Failed" ELSE "Completed"
        /\ timer' = TRUE
        /\ UNCHANGED <<shown, finished>>
     \/ /\ e.kind = "PipelineAborted"
        /\ status' = "Aborted"
        /\ timer' = TRUE
        /\ UNCHANGED <<shown, finished>>
     \/ /\ e.kind = "AgentMessage"
        /\ UNCHANGED <<screenVars, timer>>
  /\ UNCHANGED overlay

\* A prompt takes the place of whatever was on display.
ShowPrompt(q) ==
  /\ overlay' = q
  /\ UNCHANGED <<screenVars, timer>>

Update ==
  /\ ~closed /\ inbox # <<>>
  /\ inbox' = Tail(inbox)
  /\ \/ Head(inbox).kind = "Prompt" /\ ShowPrompt(Head(inbox).question)
     \/ Head(inbox).kind # "Prompt" /\ HandleEvent(Head(inbox))
  /\ UNCHANGED <<engineVars, bridgeVars, responses, closed>>

\* Mutant: the prompt stays on display.
ClearKept == UNCHANGED overlay
Clear     == overlay' = 0

\* Enter sends what was typed, Esc an empty text.
Respond ==
  /\ ~closed /\ overlay # 0
  /\ responses' = Append(responses, overlay)
  /\ Clear
  /\ UNCHANGED <<engineVars, bridgeVars, inbox, screenVars, timer, closed>>

\* The dashboard and the only sender of responses are dropped.
Close ==
  /\ ~closed
  /\ closed' = TRUE
  /\ inbox' = <<>>
  /\ UNCHANGED <<engineVars, bridgeVars, promptVars, screenVars, timer>>

\* q or Esc, or Ctrl+C while a prompt is on display.
UserQuits == Close

\* The pause after an announced end is over, whatever is on display.
AutoQuit == timer /\ Close

Next == Engine \/ (\E n \in Node : Talk(n)) \/ ForwardEvent \/ ForwardQuestion
        \/ RelayResponse \/ BridgeEnds \/ Update \/ Respond \/ UserQuits \/ AutoQuit

Spec == Init /\ [][Next]_vars

\* Handlers return, tasks are scheduled, timers elapse; nobody has to press a key.
FairSpec ==
  /\ Spec
  /\ WF_vars(Engine) /\ WF_vars(ForwardEvent) /\ WF_vars(ForwardQuestion)
  /\ WF_vars(RelayResponse) /\ WF_vars(BridgeEnds) /\ WF_vars(Update) /\ WF_vars(AutoQuit)

(* ------------------------------ properties ----------------------------- *)

\* Every variable has its type; at most one response of the user is on its way
\* to the bridge (tui.rs: each prompt is answered once).
TuiTypeOK ==
  /\ timeout \in BOOLEAN
  /\ pc \in {"begin", "next", "ask", "work", "wait", "done"}
  /\ node \in Node \cup {NoNode}
  /\ steps \in 0..MaxSteps
  /\ talk \in 0..MaxSteps - steps
  /\ reply \in Reply
  /\ events \in Seq(Event)
  /\ read \in 0..Len(events)
  /\ questions \in Seq(1..MaxSteps)
  /\ relay \in 0..MaxSteps
  /\ bridging \in BOOLEAN
  /\ inbox \in Seq(Event \cup Prompt)
  /\ overlay \in 0..MaxSteps
  /\ responses \in Seq(1..MaxSteps) /\ Len(responses) <= 1
  /\ shown \in [Node -> {"Pending", "Running", "Completed", "Failed"}]
  /\ finished \in Nat
  /\ status \in {"Starting", "Running", "Completed", "Failed", "Aborted"}
  /\ timer \in BOOLEAN
  /\ closed \in BOOLEAN

\* An answer a node acts on was entered while the node's own question was on
\* display, also when earlier questions were given up and answered late.
AnswersBelong == pc = "wait" /\ reply.kind = "answer" => reply.question = steps

\* Once the dashboard has closed, the engine reaches its end and the command
\* returns: a gate that waits, or asks later, is not left without an answer.
QuitEndsRun == closed ~> pc = "done"

\* An announced end closes the dashboard without a key, also when events were
\* lost on the way, agents go on talking or a prompt is still on display; unless
\* so much is said after it that it is overwritten before the bridge takes it.
IsEnd(i)       == events[i].kind \in Ends
EndOverwritten == \E i \in 1..Len(events) : IsEnd(i) /\ read < i /\ i <= Oldest

EndClosesDashboard ==
  (\E i \in 1..Len(events) : IsEnd(i) /\ read < i) ~> closed \/ EndOverwritten
=============================================================================
