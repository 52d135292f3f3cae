----------------------------- MODULE GateProofs -----------------------------
(***************************************************************************)
(* Theorems about HumanGate, for any number of clients and questions and   *)
(* any order of the handlers.                                              *)
(***************************************************************************)
EXTENDS HumanGate, SequenceTheorems, TLAPS

\* The answer in the channel of a question is the one its client was told was
\* delivered, and the only one the node can use.
Delivered ==
  \A q \in Question :
    /\ \A c \in Client :
         [client |-> c, question |-> q, success |-> TRUE] \in told <=> chan[q] = c
    /\ outcome[q] \in Client => outcome[q] = chan[q]

\* A question that was not asked yet has no answer.
UnaskedUnanswered ==
  /\ \A q \in Question : q > asked => chan[q] = "none"
  /\ phase # "idle" => asked \in Question

GateInv == GateTypeOK /\ Delivered /\ UnaskedUnanswered

\* Taking a question out of the queue leaves the others, each once.
LEMMA RemovedKeeps ==
  ASSUME NEW S, NEW qs \in Seq(S), IsInjective(qs), NEW id
  PROVE  /\ RemoveFirst(qs, id) \in Seq(S)
         /\ IsInjective(RemoveFirst(qs, id))
         /\ Range(RemoveFirst(qs, id)) = Range(qs) \ {id}
<1> DEFINE n == Len(qs)
<1>0. n \in Nat /\ DOMAIN qs = 1 .. n
  OBVIOUS
<1>1. CASE \A i \in 1 .. n : qs[i] # id
  <2>1. RemoveFirst(qs, id) = qs
    BY <1>1 DEF RemoveFirst
  <2> QED BY <1>0, <1>1, <2>1 DEF Range
<1>2. ASSUME NEW pos \in 1 .. n, qs[pos] = id
      PROVE  /\ RemoveFirst(qs, id) \in Seq(S)
             /\ IsInjective(RemoveFirst(qs, id))
             /\ Range(RemoveFirst(qs, id)) = Range(qs) \ {id}
  <2>1. \A j \in 1 .. n : qs[j] = id => j = pos
    BY <1>0, <1>2 DEF IsInjective
  <2>2. {j \in 1 .. n : qs[j] = id} = {pos}
    BY <1>2, <2>1
  <2>3. Min({pos}) = pos
    BY <1>2 DEF Min
  <2>4. RemoveFirst(qs, id) = RemoveAt(qs, pos)
    BY <1>2, <2>2, <2>3 DEF RemoveFirst, SelectInSeq
  <2> DEFINE left == SubSeq(qs, 1, pos - 1)
             right == SubSeq(qs, pos + 1, n)
             new == left \o right
  <2>5. RemoveFirst(qs, id) = new
    BY <2>4 DEF RemoveAt
  <2>6. left \in Seq(S) /\ Len(left) = pos - 1 /\ \A k \in 1 .. pos - 1 : left[k] = qs[k]
    BY <1>0, <1>2, SubSeqProperties
  <2>7. right \in Seq(S) /\ Len(right) = n - pos /\ \A k \in 1 .. n - pos : right[k] = qs[k + pos]
    <3>1. \A i \in pos + 1 .. n : qs[i] \in S
      BY <1>0, <1>2
    <3>2. /\ right \in Seq(S)
          /\ Len(right) = IF pos + 1 <= n THEN n - (pos + 1) + 1 ELSE 0
          /\ \A i \in 1 .. n - (pos + 1) + 1 : right[i] = qs[pos + 1 + i - 1]
      BY <1>0, <1>2, <3>1, SubSeqProperties
    <3>3. n - (pos + 1) + 1 = n - pos /\ \A k \in 1 .. n - pos : pos + 1 + k - 1 = k + pos
      BY <1>0, <1>2
    <3>4. \A k \in 1 .. n - pos : right[k] = qs[k + pos]
      BY <3>2, <3>3
    <3>5. (IF pos + 1 <= n THEN n - (pos + 1) + 1 ELSE 0) = n - pos
      <4> HIDE DEF n
      <4> QED BY <1>0, <1>2
    <3>6. Len(right) = n - pos
      <4> HIDE DEF right, n
      <4> QED BY <3>2, <3>5
    <3> QED BY <3>2, <3>4, <3>6
  <2> HIDE DEF left, right
  <2>8. /\ new \in Seq(S) /\ Len(new) = n - 1
        /\ \A k \in 1 .. pos - 1 : new[k] = left[k]
        /\ \A k \in pos .. n - 1 : new[k] = right[k - (pos - 1)]
    <3>1. new \in Seq(S) /\ Len(new) = Len(left) + Len(right)
      BY <2>6, <2>7, ConcatProperties
    <3>2. \A k \in 1 .. Len(left) + Len(right) :
            new[k] = IF k <= Len(left) THEN left[k] ELSE right[k - Len(left)]
      BY <2>6, <2>7, ConcatProperties
    <3>3. Len(left) + Len(right) = n - 1
      BY <1>0, <1>2, <2>6, <2>7
    <3> HIDE DEF new
    <3> QED BY <1>0, <1>2, <2>6, <3>1, <3>2, <3>3
  <2>9. /\ DOMAIN new = 1 .. n - 1
        /\ \A k \in 1 .. pos - 1 : new[k] = qs[k]
        /\ \A k \in pos .. n - 1 : new[k] = qs[k + 1]
    <3>1. DOMAIN new = 1 .. n - 1
      BY <2>8
    <3>2. \A k \in pos .. n - 1 : k - (pos - 1) \in 1 .. n - pos /\ k - (pos - 1) + pos = k + 1
      BY <1>0, <1>2
    <3>3. \A k \in pos .. n - 1 : right[k - (pos - 1)] = qs[k + 1]
      BY <2>7, <3>2
    <3> QED BY <2>6, <2>8, <3>1, <3>3
  <2> HIDE DEF new
  <2> DEFINE old(k) == IF k < pos THEN k ELSE k + 1
  <2>10. \A k \in DOMAIN new : new[k] = qs[old(k)] /\ old(k) \in 1 .. n /\ old(k) # pos
    BY <1>0, <1>2, <2>9
  <2>11. \A k, l \in DOMAIN new : old(k) = old(l) => k = l
    BY <1>0, <1>2, <2>9
  <2> HIDE DEF old
  <2>12. IsInjective(new)
    BY <1>0, <2>10, <2>11 DEF IsInjective
  <2>13. Range(new) \subseteq Range(qs) \ {id}
    BY <1>0, <2>1, <2>10 DEF Range
  <2>14. Range(qs) \ {id} \subseteq Range(new)
    <3> SUFFICES ASSUME NEW i \in 1 .. n, i # pos
                 PROVE  \E k \in DOMAIN new : new[k] = qs[i]
      BY <1>0, <1>2 DEF Range
    <3>1. CASE i < pos
      BY <1>0, <2>9, <3>1
    <3>2. CASE ~(i < pos)
      <4>1. i - 1 \in pos .. n - 1 /\ i - 1 \in DOMAIN new /\ i - 1 + 1 = i
        BY <1>0, <1>2, <2>9, <3>2
      <4> QED BY <2>9, <4>1
    <3> QED BY <3>1, <3>2
  <2>15. Range(new) = Range(qs) \ {id}
    BY <2>13, <2>14
  <2> QED BY <2>5, <2>8, <2>12, <2>15
<1> QED BY <1>1, <1>2

\* No question was asked yet.
LEMMA GateInit == Init => GateInv
<1> SUFFICES ASSUME Init PROVE GateInv
  OBVIOUS
<1>1. <<>> \in Seq(1 .. 0) /\ IsInjective(<<>>) /\ Range(<<>>) = {}
  BY DEF IsInjective, Range
<1>2. GateTypeOK
  BY <1>1, GateAssumption DEF Init, GateTypeOK
<1>3. Delivered
  BY GateAssumption DEF Init, Delivered
<1>4. UnaskedUnanswered
  BY DEF Init, UnaskedUnanswered
<1> QED BY <1>2, <1>3, <1>4 DEF GateInv

\* An answer that is told is an answer.
LEMMA TellTyped ==
  ASSUME NEW c \in Client, NEW q \in Question
  PROVE  /\ [client |-> c, question |-> q, success |-> TRUE]
              \in [client : Client, question : Question, success : BOOLEAN]
         /\ [client |-> c, question |-> q, success |-> FALSE]
              \in [client : Client, question : Question, success : BOOLEAN]
BY Zenon

\* Every step keeps an answer with the client that took its question.
LEMMA GateStep == GateInv /\ [Next]_vars => GateInv'
<1> SUFFICES ASSUME GateInv, [Next]_vars PROVE GateInv'
  OBVIOUS
<1> USE GateAssumption DEF GateInv
<1>0. /\ asked \in 0 .. MaxAsks /\ asked \in Nat /\ MaxAsks \in Nat
      /\ queue \in Seq(1 .. asked) /\ IsInjective(queue)
      /\ chan \in [Question -> Client \cup {"none"}]
      /\ outcome \in [Question -> Client \cup {"none", "default", "failure"}]
      /\ listed \in [Client -> SUBSET Question]
  BY DEF GateTypeOK
<1>1. CASE UNCHANGED vars
  BY <1>1 DEF vars, GateTypeOK, Delivered, UnaskedUnanswered, Question
<1>2. CASE Ask
  <2>1. /\ asked' = asked + 1 /\ asked' \in 0 .. MaxAsks /\ queue' = Append(queue, asked + 1)
        /\ attrs' \in [timeout : BOOLEAN, default : BOOLEAN] /\ phase' = "waiting"
        /\ UNCHANGED <<chan, told, outcome, listed>>
    BY <1>0, <1>2 DEF Ask
  <2>2. queue \in Seq(1 .. asked + 1)
    <3>1. 1 .. asked \subseteq 1 .. asked + 1
      BY <1>0
    <3> QED BY <1>0, <3>1
  <2>3. queue' \in Seq(1 .. asked')
    BY <1>0, <2>1, <2>2
  <2>4. /\ DOMAIN queue' = DOMAIN queue \cup {Len(queue) + 1}
        /\ queue'[Len(queue) + 1] = asked + 1
        /\ \A i \in DOMAIN queue : queue'[i] = queue[i] /\ queue[i] \in 1 .. asked
    BY <1>0, <2>1
  <2>5. IsInjective(queue')
    BY <1>0, <2>4 DEF IsInjective
  <2>6. Range(queue') = Range(queue) \cup {asked + 1}
    BY <2>4 DEF Range
  <2>7. asked + 1 \in Question /\ chan[asked + 1] = "none"
    BY <1>0, <2>1 DEF UnaskedUnanswered, Question
  <2>8. \A q \in Range(queue') : chan'[q] = "none"
    BY <2>1, <2>6, <2>7 DEF GateTypeOK
  <2>9. GateTypeOK'
    BY <2>1, <2>3, <2>5, <2>8 DEF GateTypeOK, Question
  <2>10. Delivered' /\ UnaskedUnanswered'
    BY <1>0, <2>1, <2>7 DEF Delivered, UnaskedUnanswered, Question
  <2> QED BY <2>9, <2>10
<1>3. ASSUME NEW c \in Client, List(c) PROVE GateInv'
  <2>1. \A i \in DOMAIN queue : queue[i] \in 1 .. asked
    BY <1>0
  <2>2. Range(queue) \subseteq Question
    BY <1>0, <2>1 DEF Range, Question
  <2>3. listed' \in [Client -> SUBSET Question]
    BY <1>0, <1>3, <2>2 DEF List
  <2>4. UNCHANGED <<asked, attrs, phase, queue, chan, told, outcome>>
    BY <1>3 DEF List
  <2> QED BY <2>3, <2>4 DEF GateTypeOK, Delivered, UnaskedUnanswered, Question
<1>4. ASSUME NEW c \in Client, NEW q \in Question, Answer(c, q) PROVE GateInv'
  <2>1. /\ queue' = RemoveFirst(queue, q) /\ UNCHANGED <<asked, attrs, phase, outcome, listed>>
    BY <1>4 DEF Answer
  <2>2. /\ queue' \in Seq(1 .. asked) /\ IsInjective(queue')
        /\ Range(queue') \subseteq Range(queue) \ {q}
    BY <1>0, <2>1, RemovedKeeps
  <2>3. CASE q \in Range(queue) /\ Receives(q)
    <3>1. /\ chan' = [chan EXCEPT ![q] = c]
          /\ told' = told \cup {[client |-> c, question |-> q, success |-> TRUE]}
      BY <1>4, <2>3 DEF Answer, Says
    <3>2. chan[q] = "none" /\ q = asked
      BY <2>3 DEF GateTypeOK, Receives
    <3>3. \A p \in Range(queue') : chan'[p] = "none"
      BY <2>2, <3>1 DEF GateTypeOK
    <3>4. told' \subseteq [client : Client, question : Question, success : BOOLEAN]
      BY <3>1, TellTyped, ZenonT(40) DEF GateTypeOK
    <3>5. GateTypeOK'
      BY <1>0, <2>1, <2>2, <3>1, <3>3, <3>4 DEF GateTypeOK, Question
    <3>6. Delivered'
      <4> SUFFICES ASSUME NEW p \in Question
          PROVE  /\ \A d \in Client :
                      [client |-> d, question |-> p, success |-> TRUE] \in told' <=> chan'[p] = d
                 /\ outcome'[p] \in Client => outcome'[p] = chan'[p]
        BY DEF Delivered, Question
      <4>1. CASE p = q
        BY <1>0, <2>1, <3>1, <3>2, <4>1 DEF Delivered
      <4>2. CASE p # q
        BY <1>0, <2>1, <3>1, <4>2 DEF Delivered
      <4> QED BY <4>1, <4>2
    <3>7. UnaskedUnanswered'
      BY <1>0, <2>1, <3>1, <3>2 DEF UnaskedUnanswered, Question
    <3> QED BY <3>5, <3>6, <3>7
  <2>4. CASE ~(q \in Range(queue) /\ Receives(q))
    <3>1. /\ chan' = chan
          /\ told' = told \cup {[client |-> c, question |-> q, success |-> FALSE]}
      BY <1>4, <2>4 DEF Answer, Says
    <3>2. \A p \in Range(queue') : chan'[p] = "none"
      BY <2>2, <3>1 DEF GateTypeOK
    <3>3. told' \subseteq [client : Client, question : Question, success : BOOLEAN]
      BY <3>1, TellTyped, ZenonT(40) DEF GateTypeOK
    <3>4. GateTypeOK'
      BY <1>0, <2>1, <2>2, <3>1, <3>2, <3>3 DEF GateTypeOK, Question
    <3>5. \A d \in Client, p \in Question :
            [client |-> d, question |-> p, success |-> TRUE] \in told'
              <=> [client |-> d, question |-> p, success |-> TRUE] \in told
      BY <3>1
    <3> QED BY <2>1, <3>1, <3>4, <3>5 DEF Delivered, UnaskedUnanswered, Question
  <2> QED BY <2>3, <2>4
<1>5. ASSUME NEW q \in Question, NEW o \in Client \cup {"default", "failure"},
             o \in Client => o = chan[q], Use(q, o)
      PROVE  GateInv'
  <2>1. /\ outcome' = [outcome EXCEPT ![q] = o] /\ phase' = "idle"
        /\ UNCHANGED <<asked, attrs, queue, chan, told, listed>>
    BY <1>5 DEF Use
  <2>2. GateTypeOK'
    BY <1>0, <2>1 DEF GateTypeOK, Question
  <2>3. Delivered'
    BY <1>0, <1>5, <2>1 DEF Delivered, Question
  <2> QED BY <2>1, <2>2, <2>3 DEF UnaskedUnanswered, Question
<1>6. CASE Wake
  <2>1. asked \in Question /\ chan[asked] \in Client /\ Use(asked, chan[asked])
    BY <1>0, <1>6 DEF Wake, UnaskedUnanswered
  <2> QED BY <1>5, <2>1
<1>7. CASE Elapse
  <2>1. phase' = "elapsed" /\ phase = "waiting"
        /\ UNCHANGED <<asked, attrs, queue, chan, told, outcome, listed>>
    BY <1>7 DEF Elapse
  <2> QED BY <2>1 DEF GateTypeOK, Delivered, UnaskedUnanswered, Question
<1>8. CASE GiveUp
  <2>1. asked \in Question
    BY <1>8 DEF GiveUp, UnaskedUnanswered
  <2>2. Use(asked, "default") \/ Use(asked, "failure")
    BY <1>8 DEF GiveUp
  <2> QED BY <1>5, <2>1, <2>2
<1> QED BY <1>1, <1>2, <1>3, <1>4, <1>6, <1>7, <1>8 DEF Next

\* So it is throughout.
LEMMA GateInductive == Spec => []GateInv
BY GateInit, GateStep, PTL DEF Spec

\* A question is listed at most once, and not after it was answered, however its
\* clients and the handler race.
THEOREM GateTypeCorrect == Spec => []GateTypeOK
<1>1. GateInv => GateTypeOK
  BY DEF GateInv
<1> QED BY <1>1, GateInductive, PTL

\* At most one client is told of success for a question, and no other answer is
\* ever the one the node used.
THEOREM OneAnswerCounts == Spec => []OneAnswer
<1>1. GateInv => OneAnswer
  <2> SUFFICES ASSUME GateInv, NEW q \in Question
      PROVE  LET lucky == {t.client : t \in {u \in told : u.question = q /\ u.success}}
             IN  /\ \A c, d \in lucky : c = d
                 /\ outcome[q] \in Client => outcome[q] \in lucky
    BY DEF OneAnswer
  <2> DEFINE lucky == {t.client : t \in {u \in told : u.question = q /\ u.success}}
  <2>1. \A c \in lucky : c = chan[q]
    <3> SUFFICES ASSUME NEW u \in told, u.question = q, u.success
                 PROVE  u.client = chan[q]
      OBVIOUS
    <3>1. u \in [client : Client, question : Question, success : BOOLEAN]
      BY DEF GateInv, GateTypeOK
    <3>2. u = [client |-> u.client, question |-> q, success |-> TRUE]
      BY <3>1
    <3> QED BY <3>1, <3>2 DEF GateInv, Delivered
  <2>2. ASSUME outcome[q] \in Client PROVE outcome[q] \in lucky
    <3>1. [client |-> outcome[q], question |-> q, success |-> TRUE] \in told
      BY <2>2 DEF GateInv, Delivered
    <3> QED BY <3>1
  <2> QED BY <2>1, <2>2
<1> QED BY <1>1, GateInductive, PTL

(* ------------------- a question waits, an answer holds ------------------- *)

\* A question that a handler waits for is pending until it is answered: there is no
\* moment at which no client could be shown it and nobody has answered it.
QuestionPending == phase # "idle" /\ chan[asked] = "none" => asked \in Range(queue)

\* An answer that arrived in time stays the answer until the node uses it: no timer,
\* no other client and no later question comes between.
AnswerHolds ==
  [][\A q \in Question, c \in Client :
       phase = "waiting" /\ asked = q /\ chan[q] = c =>
         \/ phase' = "waiting" /\ asked' = q /\ chan'[q] = c
         \/ outcome'[q] = c]_vars

\* A question leaves the queue together with its answer.
LEMMA PendingStep == GateInv /\ QuestionPending /\ [Next]_vars => QuestionPending'
<1> SUFFICES ASSUME GateInv, QuestionPending, [Next]_vars,
                    phase' # "idle", chan'[asked'] = "none"
             PROVE  asked' \in Range(queue')
  BY DEF QuestionPending
<1>0. /\ queue \in Seq(1 .. asked) /\ IsInjective(queue)
      /\ chan \in [Question -> Client \cup {"none"}]
      /\ phase # "idle" => asked \in Question
  BY DEF GateInv, GateTypeOK, UnaskedUnanswered
<1>1. CASE UNCHANGED <<asked, phase, queue, chan>>
  BY <1>1 DEF QuestionPending
<1>2. CASE Ask
  <2>1. queue' = Append(queue, asked + 1) /\ asked' = asked + 1
    BY <1>2 DEF Ask
  <2>2. Len(queue) + 1 \in DOMAIN queue' /\ queue'[Len(queue) + 1] = asked'
    BY <1>0, <2>1
  <2> QED BY <2>2 DEF Range
<1>3. CASE Wake \/ GiveUp
  BY <1>3 DEF Wake, GiveUp, Use
<1>4. CASE Elapse
  <2>1. phase # "idle" /\ UNCHANGED <<asked, queue, chan>>
    BY <1>4 DEF Elapse
  <2> QED BY <2>1 DEF QuestionPending
<1>5. ASSUME NEW c \in Client, NEW q \in Question, Answer(c, q)
      PROVE  asked' \in Range(queue')
  <2>1. queue' = RemoveFirst(queue, q) /\ UNCHANGED <<asked, phase>>
    BY <1>5 DEF Answer
  <2>2. Range(queue') = Range(queue) \ {q}
    BY <1>0, <2>1, RemovedKeeps
  <2>3. chan' = chan \/ chan' = [chan EXCEPT ![q] = c]
    BY <1>5 DEF Answer
  <2>4. chan[asked] = "none"
    BY <1>0, <2>1, <2>3, GateAssumption
  <2>5. asked \in Range(queue)
    BY <2>1, <2>4 DEF QuestionPending
  <2>6. asked # q
    <3> SUFFICES ASSUME asked = q PROVE FALSE
      OBVIOUS
    <3>1. q \in Range(queue) /\ Receives(q)
      BY <2>1, <2>5 DEF Receives
    <3>2. chan' = [chan EXCEPT ![q] = c]
      BY <1>5, <3>1 DEF Answer
    <3>3. chan'[asked'] = c
      BY <1>0, <2>1, <3>2
    <3> QED BY <3>3, GateAssumption
  <2> QED BY <2>1, <2>2, <2>5, <2>6
<1>6. ASSUME NEW c \in Client, List(c) PROVE asked' \in Range(queue')
  BY <1>1, <1>6 DEF List
<1> QED BY <1>1, <1>2, <1>3, <1>4, <1>5, <1>6 DEF Next, vars

\* A question that a node waits for can be listed and answered as long as nobody
\* has, however stale and late answers race (interviewer.rs, http_interviewer.rs).
THEOREM UnansweredIsPending == Spec => []QuestionPending
<1>1. Init => QuestionPending
  BY DEF Init, QuestionPending
<1> QED BY <1>1, PendingStep, GateInductive, PTL DEF Spec

\* An answer given before the timer was polled is never overtaken: what is left of
\* `AnswerInTimeIsUsed' is that the woken handler is polled (HumanGateHandler).
THEOREM AnswersHold == Spec => AnswerHolds
<1>1. GateInv /\ [Next]_vars =>
        [\A q \in Question, c \in Client :
           phase = "waiting" /\ asked = q /\ chan[q] = c =>
             \/ phase' = "waiting" /\ asked' = q /\ chan'[q] = c
             \/ outcome'[q] = c]_vars
  <2> SUFFICES ASSUME GateInv, [Next]_vars, NEW q \in Question, NEW c \in Client,
                      phase = "waiting", asked = q, chan[q] = c
               PROVE  \/ phase' = "waiting" /\ asked' = q /\ chan'[q] = c
                      \/ outcome'[q] = c
    OBVIOUS
  <2>0. /\ chan[q] # "none"
        /\ outcome \in [Question -> Client \cup {"none", "default", "failure"}]
        /\ \A p \in Range(queue) : chan[p] = "none"
    BY GateAssumption DEF GateInv, GateTypeOK
  <2>1. CASE UNCHANGED vars
    BY <2>1 DEF vars
  <2>2. CASE Ask \/ Elapse \/ GiveUp
    BY <2>0, <2>2 DEF Ask, Elapse, GiveUp
  <2>3. CASE Wake
    BY <2>0, <2>3 DEF Wake, Use
  <2>4. ASSUME NEW d \in Client, List(d)
        PROVE  phase' = "waiting" /\ asked' = q /\ chan'[q] = c
    BY <2>4 DEF List
  <2>5. ASSUME NEW d \in Client, NEW p \in Question, Answer(d, p)
        PROVE  phase' = "waiting" /\ asked' = q /\ chan'[q] = c
    <3>1. UNCHANGED <<phase, asked>> /\ ((p \in Range(queue) /\ Receives(p)) \/ chan' = chan)
      BY <2>5 DEF Answer
    <3>2. ~(p \in Range(queue) /\ Receives(p))
      BY <2>0 DEF Receives
    <3> QED BY <3>1, <3>2
  <2> QED BY <2>1, <2>2, <2>3, <2>4, <2>5 DEF Next
<1> QED BY <1>1, GateInductive, PTL DEF Spec, AnswerHolds
=============================================================================
