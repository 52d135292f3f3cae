----------------------------- MODULE HumanGate -----------------------------
(***************************************************************************)
(* Questions to humans: a pipeline asks one question after the other       *)
(* through an HttpInterviewer, clients list the pending ones and answer    *)
(* them, and the handler that poses a question may stop waiting for it.    *)
(* Which of the two handlers for interviewer nodes poses it is decided by  *)
(* the order of registration.                                              *)
(***************************************************************************)
EXTENDS Naturals, SequencesExt

CONSTANTS
  Client,    \* HTTP clients that answer
  Registry,  \* handlers in the order they were registered
  MaxAsks    \* bound: questions a pipeline asks

ASSUME GateAssumption ==
  /\ MaxAsks \in Nat
  /\ Client \cap {"none", "default", "failure"} = {}

VARIABLES
  asked,    \* questions asked so far; the last is the current one
  attrs,    \* of the current node: has it a timeout, has it a default choice
  phase,    \* of the handler: "idle", "waiting", "elapsed"
  queue,    \* ids of the pending questions
  chan,     \* by question: the client whose answer was sent
  told,     \* answers to clients: who, for which question, with success or not
  outcome,  \* by question: the client whose answer was used, or the lack of one
  listed    \* by client: the questions it was shown

vars == <<asked, attrs, phase, queue, chan, told, outcome, listed>>

Question == 1 .. MaxAsks

Handles(h) == h \in {"interviewer", "human_gate"}

\* The first registered handler that handles interviewer nodes.
Handler == Registry[SelectInSeq(Registry, Handles)]

\* A gate that knows no timeout but the one of its constructor.
TimeoutOfHandler(a) == FALSE

\* Only the human gate reads the node's human.timeout_secs.
ResolveTimeout(a) == Handler = "human_gate" /\ a.timeout

Init ==
  /\ asked = 0
  /\ attrs = [timeout |-> FALSE, default |-> FALSE]
  /\ phase = "idle"
  /\ queue = <<>>
  /\ chan = [q \in Question |-> "none"]
  /\ told = {}
  /\ outcome = [q \in Question |-> "none"]
  /\ listed = [c \in Client |-> {}]

\* The handler of the next interviewer node queues its question and awaits the
\* receiver of the answer.
Ask ==
  /\ phase = "idle"
  /\ asked < MaxAsks
  /\ asked' = asked + 1
  /\ attrs' \in [timeout : BOOLEAN, default : BOOLEAN]
  /\ queue' = Append(queue, asked + 1)
  /\ phase' = "waiting"
  /\ UNCHANGED <<chan, told, outcome, listed>>

\* GET .../questions
List(c) ==
  /\ listed' = [listed EXCEPT ![c] = Range(queue)]
  /\ UNCHANGED <<asked, attrs, phase, queue, chan, told, outcome>>

\* The receiver of a question lives as long as its handler waits for it.
Receives(q) == q = asked /\ phase # "idle"

Says(c, q, ok) == told' = told \cup {[client |-> c, question |-> q, success |-> ok]}

\* An answer that leaves its question in the queue.
AnswerUntaken(c, q) ==
  /\ q \in listed[c]
  /\ IF q \in Range(queue) /\ Receives(q)
     THEN chan' = [chan EXCEPT ![q] = c] /\ Says(c, q, TRUE)
     ELSE UNCHANGED chan /\ Says(c, q, FALSE)
  /\ UNCHANGED <<asked, attrs, phase, queue, outcome, listed>>

\* POST .../questions/{id}/answer: the question is taken from the queue, then
\* the answer is sent, in vain if the receiver was dropped.
Answer(c, q) ==
  /\ q \in listed[c]
  /\ IF q \in Range(queue) /\ Receives(q)
     THEN chan' = [chan EXCEPT ![q] = c] /\ Says(c, q, TRUE)
     ELSE UNCHANGED chan /\ Says(c, q, FALSE)
  /\ queue' = RemoveFirst(queue, q)
  /\ UNCHANGED <<asked, attrs, phase, outcome, listed>>

Use(q, o) ==
  /\ outcome' = [outcome EXCEPT ![q] = o]
  /\ phase' = "idle"
  /\ UNCHANGED <<asked, attrs, queue, chan, told, listed>>

\* The handler is polled with the answer in the channel.
Wake == phase = "waiting" /\ chan[asked] # "none" /\ Use(asked, chan[asked])

\* A timer that is polled before the channel.
ElapseFirst ==
  /\ phase = "waiting"
  /\ ResolveTimeout(attrs)
  /\ phase' = "elapsed"
  /\ UNCHANGED <<asked, attrs, queue, chan, told, outcome, listed>>

\* The handler is polled with the channel empty and its timer elapsed ...
Elapse ==
  /\ phase = "waiting"
  /\ chan[asked] = "none"
  /\ ResolveTimeout(attrs)
  /\ phase' = "elapsed"
  /\ UNCHANGED <<asked, attrs, queue, chan, told, outcome, listed>>

\* ... and then drops the receiver. The question stays in the queue.
GiveUp == phase = "elapsed" /\ Use(asked, IF attrs.default THEN "default" ELSE "failure")

Next ==
  \/ Ask \/ Wake \/ Elapse \/ GiveUp
  \/ \E c \in Client : List(c)
  \/ \E c \in Client, q \in Question : Answer(c, q)

\* Timers elapse and woken tasks are polled; no human has to answer.
Spec == Init /\ [][Next]_vars /\ WF_vars(Wake) /\ WF_vars(Elapse) /\ WF_vars(GiveUp)

(***************************************************************************)
(* Properties                                                              *)
(***************************************************************************)

\* Type invariant; a question is listed once, and not after it was answered.
GateTypeOK ==
  /\ asked \in 0 .. MaxAsks
  /\ attrs \in [timeout : BOOLEAN, default : BOOLEAN]
  /\ phase \in {"idle", "waiting", "elapsed"}
  /\ queue \in Seq(1 .. asked)
  /\ IsInjective(queue)
  /\ \A q \in Range(queue) : chan[q] = "none"
  /\ chan \in [Question -> Client \cup {"none"}]
  /\ told \subseteq [client : Client, question : Question, success : BOOLEAN]
  /\ outcome \in [Question -> Client \cup {"none", "default", "failure"}]
  /\ listed \in [Client -> SUBSET Question]

\* However many clients race to answer a question, late, twice or from a stale
\* list, at most one is told of success, and only its answer can be the one the
\* node used.
OneAnswer ==
  \A q \in Question :
    LET lucky == {t.client : t \in {u \in told : u.question = q /\ u.success}}
    IN  /\ \A c, d \in lucky : c = d
        /\ outcome[q] \in Client => outcome[q] \in lucky

\* An answer that arrives before the timer has elapsed is the one the node uses,
\* even when the timer elapses before the node is polled again.
AnswerInTimeIsUsed ==
  \A q \in Question, c \in Client :
    (phase = "waiting" /\ asked = q /\ chan[q] = c) ~> (outcome[q] = c)

\* Documented for human.timeout_secs: a gate with a timeout does not wait for
\* ever; when nobody answers it takes its default choice or fails.
GateTimesOut ==
  \A q \in Question :
    (phase = "waiting" /\ asked = q /\ attrs.timeout) ~> (outcome[q] # "none")
=============================================================================
