----------------------------- MODULE WebProofs -----------------------------
(***************************************************************************)
(* Theorems about WebRuns, for any number of runs and clients, any         *)
(* capacity of the channel and any step budget.                            *)
(***************************************************************************)
EXTENDS WebRuns, TLAPS

EventName == Closing \cup {"PipelineStarted", "NodeStarted", "NodeReport",
                           "CheckpointCreated", "Agent"}

(* -------------------------- the inductive invariant --------------------- *)

\* An open reader reads the channel of a run, a log the one of its own.
ReadersAttached ==
  /\ \A r \in Run : log[r].open => log[r].run = r
  /\ \A c \in Client : stream[c].open => stream[c].run \in Run

\* A node that is on its way was paid for.
NodePaid == \A r \in Run : task[r] \in {"start", "work"} => budget[r] > 0

\* The record says what the task of the run has come to.
RecordFollowsTask ==
  \A r \in Run :
    /\ task[r] = "none" => record[r] = "none"
    /\ task[r] = "stored" => record[r] = StatusOf(r)
    /\ task[r] \notin {"none", "stored"} => record[r] = "Running"

\* The result agrees with the channel and the token.
ResultFollowsStream ==
  \A r \in Run :
    /\ result[r] # "none" <=> task[r] \in {"returned", "stored"}
    /\ Announced(r, "PipelineCompleted") <=> result[r] = "Ok"
    /\ result[r] = "Cancelled" => token[r] /\ Announced(r, "PipelineAborted")

\* A parent has ended, and its file is the one that was given.
ParentsEnded ==
  \A s \in Run : parent[s].run # NoRun =>
    /\ task[parent[s].run] = "stored"
    /\ file[parent[s].run] = Holding(parent[s].given)

TaskInv ==
  /\ WebTypeOK
  /\ ReadersAttached
  /\ NodePaid
  /\ RecordFollowsTask
  /\ ResultFollowsStream
  /\ ParentsEnded

(* ------------------------------ typing ----------------------------------- *)

\* Sending an event keeps the channels well typed, lengthens the one of its run
\* by that event and leaves the others alone.
LEMMA EmitTyped ==
  ASSUME sent \in [Run -> Seq(EventName)], NEW r \in Run, NEW ev \in EventName, Emit(r, ev)
  PROVE  /\ sent' \in [Run -> Seq(EventName)]
         /\ sent'[r] = Append(sent[r], ev)
         /\ \A s \in Run \ {r} : sent'[s] = sent[s]
BY DEF Emit

\* What is announced after an event is what was announced, and the event.
LEMMA EmitAnnounces ==
  ASSUME sent \in [Run -> Seq(EventName)], NEW r \in Run, NEW ev \in EventName, Emit(r, ev)
  PROVE  \A s \in Run, e \in EventName :
           Announced(s, e)' <=> (Announced(s, e) \/ (s = r /\ e = ev))
<1> SUFFICES ASSUME NEW s \in Run, NEW e \in EventName
             PROVE  Announced(s, e)' <=> (Announced(s, e) \/ (s = r /\ e = ev))
  OBVIOUS
<1>1. CASE s # r
  BY <1>1, EmitTyped DEF Announced
<1>2. CASE s = r
  <2>1. /\ sent'[r] = Append(sent[r], ev)
        /\ sent[r] \in Seq(EventName)
    BY EmitTyped
  <2>2. /\ DOMAIN sent'[r] = DOMAIN sent[r] \cup {Len(sent[r]) + 1}
        /\ sent'[r][Len(sent[r]) + 1] = ev
        /\ \A i \in DOMAIN sent[r] : sent'[r][i] = sent[r][i]
    BY <2>1
  <2> QED BY <1>2, <2>2 DEF Announced
<1> QED BY <1>1, <1>2

\* A reader that receives stays a reader of the same run.
LEMMA ReceivedTyped ==
  ASSUME sent \in [Run -> Seq(EventName)], NEW rd \in Reader, HasNext(rd), rd.run \in Run
  PROVE  /\ Received(rd) \in Reader
         /\ Received(rd).run = rd.run
         /\ Received(rd).open
<1>1. Len(sent[rd.run]) \in Nat
  OBVIOUS
<1>2. Oldest(rd.run) \in Nat \ {0}
  BY <1>1, WebAssumption DEF Oldest
<1>3. Lagged(rd) \in Reader /\ Lagged(rd).run = rd.run /\ Lagged(rd).open
  BY <1>2 DEF Lagged, Reader, HasNext
<1>4. Taken(rd) \in Reader /\ Taken(rd).run = rd.run /\ Taken(rd).open
  <2>1. Append(rd.got, rd.next) \in Seq(Nat \ {0})
    BY DEF Reader
  <2>2. rd.next + 1 \in Nat \ {0}
    BY DEF Reader
  <2> QED BY <2>1, <2>2 DEF Taken, Reader, HasNext
<1> QED BY <1>3, <1>4 DEF Received

\* A new reader is one, of the run it subscribed to.
LEMMA SubscribedTyped ==
  ASSUME sent \in [Run -> Seq(EventName)], NEW r \in Run
  PROVE  Subscribed(r) \in Reader /\ Subscribed(r).run = r
<1>1. Len(sent[r]) + 1 \in Nat \ {0}
  OBVIOUS
<1>2. <<>> \in Seq(Nat \ {0})
  OBVIOUS
<1> QED BY <1>1, <1>2 DEF Subscribed, Reader

\* Before the first request there are no runs and no readers.
LEMMA InitTyped == Init => WebTypeOK /\ ReadersAttached /\ NodePaid
<1> SUFFICES ASSUME Init PROVE WebTypeOK /\ ReadersAttached /\ NodePaid
  OBVIOUS
<1>1. NoReader \in Reader /\ ~NoReader.open
  <2>1. <<>> \in Seq(Nat \ {0})
    OBVIOUS
  <2> QED BY <2>1 DEF NoReader, Reader
<1>2. Absent \in [state : {"absent", "torn", "saved"}, holds : Nat]
  BY DEF Absent
<1>3. \A r \in Run : sent[r] = <<>>
  BY DEF Init
<1>4. WebTypeOK
  BY <1>1, <1>2, WebAssumption DEF Init, WebTypeOK
<1> QED BY <1>1, <1>4 DEF Init, ReadersAttached, NodePaid

(* ------------------------- what a step changes -------------------------- *)

TaskPlace == {"none", "inserted", "spawned", "top", "start", "work", "save", "saving",
              "route", "returned", "stored"}

Executing == TaskPlace \ {"none", "returned", "stored"}

\* The engine ends with a result, after the event that goes with it.
Ends(r) ==
  /\ task[r] \in Executing
  /\ task' = [task EXCEPT ![r] = "returned"]
  /\ \/ result' = [result EXCEPT ![r] = "Ok"] /\ Emit(r, "PipelineCompleted")
     \/ /\ result' = [result EXCEPT ![r] = "Error"]
        /\ UNCHANGED sent \/ Emit(r, "PipelineAborted")
     \/ /\ token[r]
        /\ result' = [result EXCEPT ![r] = "Cancelled"]
        /\ Emit(r, "PipelineAborted")
  /\ UNCHANGED <<record, token>>

\* A task goes on from one place in its run to another.
GoesOn(r) ==
  /\ task[r] \in Executing
  /\ \E place \in Executing : task' = [task EXCEPT ![r] = place]
  /\ UNCHANGED sent \/ \E ev \in EventName \ Closing : Emit(r, ev)
  /\ UNCHANGED <<record, token, result>>

\* What a step does to records, tokens, tasks, results and channels.
ControlEffect ==
  \/ UNCHANGED <<record, token, task, result, sent>>
  \/ \E r \in Run :
       \/ token' = [token EXCEPT ![r] = TRUE] /\ UNCHANGED <<record, task, result, sent>>
       \/ Insert(r) /\ UNCHANGED <<token, result, sent>>
       \/ GoesOn(r)
       \/ Ends(r)
       \/ Emit(r, "Agent") /\ UNCHANGED <<record, token, task, result>>
       \/ Store(r)

\* What it does to the step budgets, beside the tasks.
BudgetEffect ==
  \/ /\ UNCHANGED budget
     /\ \/ UNCHANGED task
        \/ \E r \in Run, place \in TaskPlace \ {"start", "work"} :
             task' = [task EXCEPT ![r] = place]
        \/ \E r \in Run : budget[r] > 0 /\ task' = [task EXCEPT ![r] = "start"]
        \/ \E r \in Run : task[r] = "start" /\ task' = [task EXCEPT ![r] = "work"]
  \/ \E r \in Run, place \in TaskPlace \ {"start", "work"} :
       /\ task[r] = "work"
       /\ budget' = [budget EXCEPT ![r] = budget[r] - 1]
       /\ task' = [task EXCEPT ![r] = place]

\* To the counters of nodes and agent events.
CounterEffect ==
  /\ \/ UNCHANGED nodes
     \/ \E r \in Run : nodes' = [nodes EXCEPT ![r] = nodes[r] + 1]
     \/ \E r, s \in Run : nodes' = [nodes EXCEPT ![s] = file[r].holds]
  /\ \/ UNCHANGED bridge
     \/ \E r \in Run : bridge' = [bridge EXCEPT ![r] = bridge[r] + 1]
     \/ \E r \in Run : bridge[r] > 0 /\ bridge' = [bridge EXCEPT ![r] = bridge[r] - 1]
  /\ \/ UNCHANGED talked
     \/ \E r \in Run : talked[r] < MaxTalk /\ talked' = [talked EXCEPT ![r] = talked[r] + 1]

\* To the checkpoints and the lineage: only a run at work writes its file, only
\* a run that has ended is resumed.
FileEffect ==
  \/ UNCHANGED <<file, parent>>
  \/ \E r \in Run :
       /\ task[r] \in {"save", "saving"}
       /\ \/ file' = [file EXCEPT ![r] = Torn]
          \/ file' = [file EXCEPT ![r] = Holding(nodes[r])]
       /\ UNCHANGED parent
  \/ \E r, s \in Run :
       /\ record[r] \in Ended
       /\ file[r].state = "saved"
       /\ parent' = [parent EXCEPT ![s] = [run |-> r, given |-> file[r].holds]]
       /\ UNCHANGED file

\* To the readers.
ReaderEffect ==
  \/ UNCHANGED <<log, stream>>
  \/ \E r \in Run : UNCHANGED <<sent, stream>> /\ log' = [log EXCEPT ![r] = Subscribed(r)]
  \/ \E c \in Client, r \in Run :
       UNCHANGED <<sent, log>> /\ stream' = [stream EXCEPT ![c] = Subscribed(r)]
  \/ \E r \in Run : DrainLog(r)
  \/ \E c \in Client : Receive(c)

\* Every step changes the records, the streams, or the readers in one of a few ways.
LEMMA StepEffects ==
  ASSUME [Next]_vars
  PROVE  /\ ControlEffect
         /\ BudgetEffect
         /\ CounterEffect
         /\ FileEffect
         /\ ReaderEffect
<1> USE DEF Next, vars, Requests, Runs, Submit, Spawn, Cancel, Resume, Resumable,
            Subscribe, Start, Stop, Pass, StartNode, NodeReturns, BeginSave, EndSave,
            SaveFails, Route, Talk, Forward, Goto, Return, engineVars, channelVars
<1>1. ControlEffect
  BY DEF ControlEffect, Ends, GoesOn, Executing, TaskPlace, EventName, Closing,
         DrainLog, Receive
<1>2. BudgetEffect
  BY SMTT(30) DEF BudgetEffect, TaskPlace, Insert, Store, DrainLog, Receive
<1>3. CounterEffect
  BY DEF CounterEffect, Store, DrainLog, Receive
<1>4. FileEffect
  BY DEF FileEffect, Store, DrainLog, Receive
<1>5. ReaderEffect
  BY DEF ReaderEffect, Store
<1> QED BY <1>1, <1>2, <1>3, <1>4, <1>5

(* --------------------------- the type invariant ------------------------- *)

\* The channels stay well typed, and only grow.
LEMMA SentStep ==
  ASSUME WebTypeOK, ControlEffect
  PROVE  /\ sent' \in [Run -> Seq(EventName)]
         /\ \A r \in Run : Len(sent[r]) \in Nat /\ Len(sent'[r]) \in Nat
                             /\ Len(sent'[r]) >= Len(sent[r])
<1>0. sent \in [Run -> Seq(EventName)]
  BY DEF WebTypeOK, EventName
<1>1. CASE UNCHANGED sent
  BY <1>0, <1>1
<1>2. ASSUME NEW r \in Run, NEW ev \in EventName, Emit(r, ev)
      PROVE  /\ sent' \in [Run -> Seq(EventName)]
             /\ \A s \in Run : Len(sent[s]) \in Nat /\ Len(sent'[s]) \in Nat
                                 /\ Len(sent'[s]) >= Len(sent[s])
  <2>1. \A s \in Run : sent[s] \in Seq(EventName)
    BY <1>0
  <2>2. Len(Append(sent[r], ev)) = Len(sent[r]) + 1
    BY <2>1
  <2>3. sent' \in [Run -> Seq(EventName)]
    BY <1>0, <1>2, EmitTyped
  <2>4. Len(sent'[r]) = Len(sent[r]) + 1 /\ \A s \in Run \ {r} : sent'[s] = sent[s]
    BY <1>0, <1>2, <2>2, EmitTyped
  <2>5. \A s \in Run : Len(sent[s]) \in Nat
    BY <2>1
  <2> QED BY <2>3, <2>4, <2>5
<1>3. UNCHANGED sent \/ \E r \in Run, ev \in EventName : Emit(r, ev)
  BY DEF ControlEffect, Ends, GoesOn, Store, EventName, Closing, channelVars
<1> QED BY <1>1, <1>2, <1>3

\* The readers stay readers of the runs they subscribed to.
LEMMA ReadersStep ==
  ASSUME WebTypeOK, ReadersAttached, ReaderEffect
  PROVE  /\ log' \in [Run -> Reader]
         /\ stream' \in [Client -> Reader]
         /\ ReadersAttached'
<1>0. /\ sent \in [Run -> Seq(EventName)]
      /\ log \in [Run -> Reader]
      /\ stream \in [Client -> Reader]
  BY DEF WebTypeOK, EventName
<1>1. CASE UNCHANGED <<log, stream>>
  BY <1>0, <1>1 DEF ReadersAttached
<1>2. ASSUME NEW r \in Run, UNCHANGED stream, log' = [log EXCEPT ![r] = Subscribed(r)]
      PROVE  log' \in [Run -> Reader] /\ stream' \in [Client -> Reader] /\ ReadersAttached'
  BY <1>0, <1>2, SubscribedTyped DEF ReadersAttached
<1>3. ASSUME NEW c \in Client, NEW r \in Run,
             UNCHANGED log, stream' = [stream EXCEPT ![c] = Subscribed(r)]
      PROVE  log' \in [Run -> Reader] /\ stream' \in [Client -> Reader] /\ ReadersAttached'
  BY <1>0, <1>3, SubscribedTyped DEF ReadersAttached
<1>4. ASSUME NEW r \in Run, DrainLog(r)
      PROVE  log' \in [Run -> Reader] /\ stream' \in [Client -> Reader] /\ ReadersAttached'
  <2>1. log' = [log EXCEPT ![r] = Received(log[r])] /\ stream' = stream /\ HasNext(log[r])
    BY <1>4 DEF DrainLog
  <2>2. log[r] \in Reader /\ log[r].run = r
    BY <1>0, <2>1 DEF ReadersAttached, HasNext
  <2>3. Received(log[r]) \in Reader /\ Received(log[r]).run = r
    BY <1>0, <2>1, <2>2, ReceivedTyped
  <2> QED BY <1>0, <2>1, <2>3 DEF ReadersAttached
<1>5. ASSUME NEW c \in Client, Receive(c)
      PROVE  log' \in [Run -> Reader] /\ stream' \in [Client -> Reader] /\ ReadersAttached'
  <2> DEFINE rd == Received(stream[c])
             closes == Closes(rd, stream[c])
  <2>1. /\ stream' = [stream EXCEPT ![c] = [rd EXCEPT !.open = ~closes]]
        /\ log' = log
        /\ HasNext(stream[c])
    BY <1>5 DEF Receive
  <2>2. stream[c] \in Reader /\ stream[c].run \in Run
    BY <1>0, <2>1 DEF ReadersAttached, HasNext
  <2>3. rd \in Reader /\ rd.run \in Run
    BY <1>0, <2>1, <2>2, ReceivedTyped
  <2>4. (~closes) \in BOOLEAN
    BY DEF Closes
  <2>5. [rd EXCEPT !.open = ~closes] \in Reader /\ [rd EXCEPT !.open = ~closes].run = rd.run
    <3> HIDE DEF rd, closes
    <3>1. CASE closes
      BY <2>3, <3>1 DEF Reader
    <3>2. CASE ~closes
      BY <2>3, <3>2 DEF Reader
    <3> QED BY <3>1, <3>2
  <2> HIDE DEF rd, closes
  <2> QED BY <1>0, <2>1, <2>3, <2>5 DEF ReadersAttached
<1> QED BY <1>1, <1>2, <1>3, <1>4, <1>5 DEF ReaderEffect

\* The records, tokens, tasks and results stay well typed.
LEMMA ControlTyped ==
  ASSUME WebTypeOK, ControlEffect
  PROVE  /\ record' \in [Run -> Ended \cup {"none", "Running"}]
         /\ token' \in [Run -> BOOLEAN]
         /\ task' \in [Run -> TaskPlace]
         /\ result' \in [Run -> {"none", "Ok", "Cancelled", "Error"}]
<1> USE DEF ControlEffect, Insert, GoesOn, Ends, Store, Goto
<1>1. record' \in [Run -> Ended \cup {"none", "Running"}]
  <2>0. \A r \in Run : StatusOf(r) \in Ended
    BY DEF StatusOf, Ended
  <2>1. \/ UNCHANGED record
        \/ \E r \in Run, st \in Ended \cup {"Running"} : record' = [record EXCEPT ![r] = st]
    BY <2>0
  <2>2. record \in [Run -> Ended \cup {"none", "Running"}]
    BY DEF WebTypeOK
  <2> QED BY ONLY <2>1, <2>2
<1>2. token' \in [Run -> BOOLEAN]
  BY DEF WebTypeOK
<1>3. task' \in [Run -> TaskPlace]
  <2>1. \/ UNCHANGED task
        \/ \E r \in Run, place \in TaskPlace : task' = [task EXCEPT ![r] = place]
    BY DEF Executing, TaskPlace
  <2>2. task \in [Run -> TaskPlace]
    BY DEF WebTypeOK, TaskPlace
  <2> QED BY ONLY <2>1, <2>2
<1>4. result' \in [Run -> {"none", "Ok", "Cancelled", "Error"}]
  BY DEF WebTypeOK
<1> QED BY <1>1, <1>2, <1>3, <1>4

\* The counters stay natural numbers, the budget because a node that is on its
\* way was paid for.
LEMMA CountersTyped ==
  ASSUME WebTypeOK, NodePaid, BudgetEffect, CounterEffect
  PROVE  /\ nodes' \in [Run -> Nat]
         /\ budget' \in [Run -> 0 .. MaxNodes]
         /\ bridge' \in [Run -> Nat]
         /\ talked' \in [Run -> 0 .. MaxTalk]
         /\ NodePaid'
<1>0. /\ nodes \in [Run -> Nat] /\ bridge \in [Run -> Nat]
      /\ talked \in [Run -> 0 .. MaxTalk]
      /\ budget \in [Run -> 0 .. MaxNodes]
      /\ task \in [Run -> TaskPlace]
      /\ \A r \in Run : file[r].holds \in Nat
  BY DEF WebTypeOK, TaskPlace
<1>1. nodes' \in [Run -> Nat]
  BY <1>0 DEF CounterEffect
<1>2. bridge' \in [Run -> Nat]
  BY <1>0 DEF CounterEffect
<1>3. talked' \in [Run -> 0 .. MaxTalk]
  BY <1>0, WebAssumption DEF CounterEffect
<1>4. CASE UNCHANGED budget
  <2>1. \A r \in Run : task'[r] \in {"start", "work"} => budget[r] > 0
    BY <1>0, <1>4 DEF NodePaid, BudgetEffect
  <2> QED BY <1>0, <1>1, <1>2, <1>3, <1>4, <2>1 DEF NodePaid
<1>5. ASSUME NEW r \in Run, NEW place \in TaskPlace \ {"start", "work"}, task[r] = "work",
             budget' = [budget EXCEPT ![r] = budget[r] - 1],
             task' = [task EXCEPT ![r] = place]
      PROVE  budget' \in [Run -> 0 .. MaxNodes] /\ NodePaid'
  <2>1. budget[r] > 0
    BY <1>5 DEF NodePaid
  <2> QED BY <1>0, <1>5, <2>1, WebAssumption DEF NodePaid
<1> QED BY <1>1, <1>2, <1>3, <1>4, <1>5 DEF BudgetEffect

\* So do the files and the parents.
LEMMA FilesTyped ==
  ASSUME WebTypeOK, FileEffect
  PROVE  /\ file' \in [Run -> [state : {"absent", "torn", "saved"}, holds : Nat]]
         /\ parent' \in [Run -> [run : Run \cup {NoRun}, given : Nat]]
<1>1. Torn \in [state : {"absent", "torn", "saved"}, holds : Nat]
  BY DEF Torn
<1>2. \A n \in Nat : Holding(n) \in [state : {"absent", "torn", "saved"}, holds : Nat]
  BY DEF Holding
<1>3. file \in [Run -> [state : {"absent", "torn", "saved"}, holds : Nat]]
      /\ parent \in [Run -> [run : Run \cup {NoRun}, given : Nat]]
      /\ \A r \in Run : nodes[r] \in Nat /\ file[r].holds \in Nat
  BY DEF WebTypeOK
<1>4. file' \in [Run -> [state : {"absent", "torn", "saved"}, holds : Nat]]
  BY <1>1, <1>2, <1>3 DEF FileEffect
<1>5. \A r \in Run : [run |-> r, given |-> file[r].holds] \in [run : Run \cup {NoRun}, given : Nat]
  BY <1>3
<1>6. parent' \in [Run -> [run : Run \cup {NoRun}, given : Nat]]
  BY <1>3, <1>5 DEF FileEffect
<1> QED BY <1>4, <1>6

\* The type invariant is kept.
LEMMA TypedStep ==
  ASSUME WebTypeOK, ReadersAttached, NodePaid, [Next]_vars
  PROVE  WebTypeOK' /\ ReadersAttached' /\ NodePaid'
BY StepEffects, SentStep, ReadersStep, ControlTyped, CountersTyped, FilesTyped
   DEF WebTypeOK, TaskPlace, EventName

(* --------------------- records, results and the stream ------------------ *)

\* What the channel announces changes with the events it is sent.
LEMMA AnnouncedUnchanged ==
  ASSUME UNCHANGED sent
  PROVE  \A r \in Run : \A ev : Announced(r, ev)' <=> Announced(r, ev)
BY DEF Announced

\* Every kind of step keeps the results, the tokens and the channels in agreement.
LEMMA ResultStep ==
  ASSUME WebTypeOK, ResultFollowsStream, ControlEffect
  PROVE  ResultFollowsStream'
<1>0. /\ sent \in [Run -> Seq(EventName)]
      /\ token \in [Run -> BOOLEAN]
      /\ task \in [Run -> TaskPlace]
      /\ result \in [Run -> {"none", "Ok", "Cancelled", "Error"}]
  BY DEF WebTypeOK, EventName, TaskPlace
<1>1. "PipelineCompleted" \in EventName /\ "PipelineAborted" \in EventName
      /\ "Agent" \in EventName
  BY DEF EventName, Closing
<1>2. CASE UNCHANGED <<record, token, task, result, sent>>
  BY <1>2, AnnouncedUnchanged DEF ResultFollowsStream
<1>3. ASSUME NEW r \in Run,
             token' = [token EXCEPT ![r] = TRUE], UNCHANGED <<record, task, result, sent>>
      PROVE  ResultFollowsStream'
  <2>1. \A s \in Run : token[s] => token'[s]
    BY <1>0, <1>3
  <2> QED BY <1>3, <2>1, AnnouncedUnchanged DEF ResultFollowsStream
<1>4. ASSUME NEW r \in Run, Insert(r), UNCHANGED <<token, result, sent>>
      PROVE  ResultFollowsStream'
  <2>1. \A s \in Run : task'[s] \in {"returned", "stored"} <=> task[s] \in {"returned", "stored"}
    BY <1>0, <1>4 DEF Insert
  <2> QED BY <1>4, <2>1, AnnouncedUnchanged DEF ResultFollowsStream
<1>5. ASSUME NEW r \in Run, GoesOn(r)
      PROVE  ResultFollowsStream'
  <2>1. \A s \in Run : task'[s] \in {"returned", "stored"} <=> task[s] \in {"returned", "stored"}
    BY <1>0, <1>5 DEF GoesOn, Executing
  <2>2. \A s \in Run, ev \in Closing : Announced(s, ev)' <=> Announced(s, ev)
    <3>1. CASE UNCHANGED sent
      BY <3>1, AnnouncedUnchanged
    <3>2. ASSUME NEW ev \in EventName \ Closing, Emit(r, ev)
          PROVE  \A s \in Run, e \in Closing : Announced(s, e)' <=> Announced(s, e)
      BY <1>0, <3>2, EmitAnnounces DEF EventName
    <3> QED BY <1>5, <3>1, <3>2 DEF GoesOn
  <2>3. UNCHANGED <<token, result>>
    BY <1>5 DEF GoesOn
  <2> QED BY <2>1, <2>2, <2>3 DEF ResultFollowsStream, Closing
<1>6. ASSUME NEW r \in Run, Ends(r)
      PROVE  ResultFollowsStream'
  <2>0. /\ task[r] \in Executing /\ task' = [task EXCEPT ![r] = "returned"]
        /\ UNCHANGED token
    BY <1>6 DEF Ends
  <2>1. result[r] = "none"
    BY <1>0, <2>0 DEF ResultFollowsStream, Executing
  <2>2. ~Announced(r, "PipelineCompleted")
    BY <2>1 DEF ResultFollowsStream
  <2>3. ASSUME NEW res \in {"Ok", "Cancelled", "Error"}, result' = [result EXCEPT ![r] = res],
               \A s \in Run : Announced(s, "PipelineCompleted")'
                                <=> (Announced(s, "PipelineCompleted") \/ (s = r /\ res = "Ok")),
               \A s \in Run : Announced(s, "PipelineAborted") => Announced(s, "PipelineAborted")',
               res = "Cancelled" => token[r] /\ Announced(r, "PipelineAborted")'
        PROVE  ResultFollowsStream'
    <3> SUFFICES ASSUME NEW s \in Run
        PROVE  /\ result'[s] # "none" <=> task'[s] \in {"returned", "stored"}
               /\ Announced(s, "PipelineCompleted")' <=> result'[s] = "Ok"
               /\ result'[s] = "Cancelled" => token'[s] /\ Announced(s, "PipelineAborted")'
      BY DEF ResultFollowsStream
    <3>1. CASE s = r
      BY <1>0, <2>0, <2>2, <2>3, <3>1
    <3>2. CASE s # r
      <4>1. result'[s] = result[s] /\ task'[s] = task[s]
        BY <1>0, <2>0, <2>3, <3>2
      <4> QED BY <2>0, <2>3, <3>2, <4>1 DEF ResultFollowsStream
    <3> QED BY <3>1, <3>2
  <2>4. CASE result' = [result EXCEPT ![r] = "Ok"] /\ Emit(r, "PipelineCompleted")
    <3>1. \A s \in Run : /\ Announced(s, "PipelineCompleted")'
                              <=> (Announced(s, "PipelineCompleted") \/ s = r)
                         /\ Announced(s, "PipelineAborted")' <=> Announced(s, "PipelineAborted")
      BY <1>0, <1>1, <2>4, EmitAnnounces
    <3> QED BY <2>3, <2>4, <3>1
  <2>5. CASE result' = [result EXCEPT ![r] = "Error"] /\ UNCHANGED sent
    BY <2>3, <2>5, AnnouncedUnchanged
  <2>6. CASE result' = [result EXCEPT ![r] = "Error"] /\ Emit(r, "PipelineAborted")
    <3>1. \A s \in Run : /\ Announced(s, "PipelineCompleted")' <=> Announced(s, "PipelineCompleted")
                         /\ Announced(s, "PipelineAborted") => Announced(s, "PipelineAborted")'
      BY <1>0, <1>1, <2>6, EmitAnnounces
    <3> QED BY <2>3, <2>6, <3>1
  <2>7. CASE token[r] /\ result' = [result EXCEPT ![r] = "Cancelled"] /\ Emit(r, "PipelineAborted")
    <3>1. \A s \in Run : /\ Announced(s, "PipelineCompleted")' <=> Announced(s, "PipelineCompleted")
                         /\ Announced(s, "PipelineAborted") => Announced(s, "PipelineAborted")'
      BY <1>0, <1>1, <2>7, EmitAnnounces
    <3>2. Announced(r, "PipelineAborted")'
      BY <1>0, <1>1, <2>7, EmitAnnounces
    <3> QED BY <2>3, <2>7, <3>1, <3>2
  <2> QED BY <1>6, <2>4, <2>5, <2>6, <2>7 DEF Ends
<1>7. ASSUME NEW r \in Run, Emit(r, "Agent"), UNCHANGED <<record, token, task, result>>
      PROVE  ResultFollowsStream'
  <2>1. \A s \in Run, ev \in Closing : Announced(s, ev)' <=> Announced(s, ev)
    BY <1>0, <1>1, <1>7, EmitAnnounces DEF Closing, EventName
  <2> QED BY <1>7, <2>1 DEF ResultFollowsStream, Closing
<1>8. ASSUME NEW r \in Run, Store(r)
      PROVE  ResultFollowsStream'
  <2>1. \A s \in Run : task'[s] \in {"returned", "stored"} <=> task[s] \in {"returned", "stored"}
    BY <1>0, <1>8 DEF Store, Goto
  <2>2. UNCHANGED <<token, result, sent>>
    BY <1>8 DEF Store, channelVars
  <2> QED BY <2>1, <2>2, AnnouncedUnchanged DEF ResultFollowsStream
<1> QED BY <1>2, <1>3, <1>4, <1>5, <1>6, <1>7, <1>8 DEF ControlEffect

\* The record is written when the run is inserted and when its task is over; the
\* result it is then taken from stays.
LEMMA RecordStep ==
  ASSUME WebTypeOK, RecordFollowsTask, ResultFollowsStream, ControlEffect
  PROVE  RecordFollowsTask'
<1>0. /\ record \in [Run -> Ended \cup {"none", "Running"}]
      /\ task \in [Run -> TaskPlace]
      /\ result \in [Run -> {"none", "Ok", "Cancelled", "Error"}]
  BY DEF WebTypeOK, TaskPlace
<1>1. CASE UNCHANGED <<record, task, result>>
  BY <1>1 DEF RecordFollowsTask, StatusOf
<1>2. ASSUME NEW r \in Run, Insert(r), UNCHANGED result
      PROVE  RecordFollowsTask'
  <2>1. /\ task' = [task EXCEPT ![r] = "inserted"]
        /\ record' = [record EXCEPT ![r] = "Running"]
    BY <1>2 DEF Insert
  <2> QED BY <1>0, <1>2, <2>1 DEF RecordFollowsTask, StatusOf
<1>3. ASSUME NEW r \in Run, NEW place \in TaskPlace \ {"none", "stored"},
             task[r] \in Executing, task' = [task EXCEPT ![r] = place],
             UNCHANGED record, \A s \in Run \ {r} : result'[s] = result[s]
      PROVE  RecordFollowsTask'
  <2>1. \A s \in Run : task[s] = "stored" => s # r
    BY <1>3 DEF Executing
  <2> QED BY <1>0, <1>3, <2>1 DEF RecordFollowsTask, StatusOf, Executing
<1>4. ASSUME NEW r \in Run, Store(r)
      PROVE  RecordFollowsTask'
  <2>1. /\ task' = [task EXCEPT ![r] = "stored"]
        /\ record' = [record EXCEPT ![r] = StatusOf(r)]
        /\ UNCHANGED result
    BY <1>4 DEF Store, Goto
  <2>2. \A s \in Run : StatusOf(s)' = StatusOf(s)
    BY <2>1 DEF StatusOf
  <2> QED BY <1>0, <2>1, <2>2 DEF RecordFollowsTask
<1>5. ASSUME NEW r \in Run, GoesOn(r) PROVE RecordFollowsTask'
  BY <1>3, <1>5 DEF GoesOn, Executing
<1>6. ASSUME NEW r \in Run, Ends(r) PROVE RecordFollowsTask'
  <2>1. \A s \in Run \ {r} : result'[s] = result[s]
    BY <1>0, <1>6 DEF Ends
  <2>2. "returned" \in TaskPlace \ {"none", "stored"}
    BY DEF TaskPlace
  <2> QED BY <1>3, <1>6, <2>1, <2>2 DEF Ends
<1> QED BY <1>1, <1>2, <1>4, <1>5, <1>6 DEF ControlEffect

\* A status that is final is the one of a run whose task is over.
LEMMA EndedIsStored ==
  ASSUME RecordFollowsTask, WebTypeOK, NEW r \in Run
  PROVE  record[r] \in Ended <=> task[r] = "stored"
<1>1. task[r] \in TaskPlace
  BY DEF WebTypeOK, TaskPlace
<1> QED BY <1>1 DEF RecordFollowsTask, StatusOf, Ended, TaskPlace

\* A task that is over stays so, and its record with it.
LEMMA StoredStays ==
  ASSUME WebTypeOK, RecordFollowsTask, ResultFollowsStream, ControlEffect,
         NEW r \in Run, task[r] = "stored"
  PROVE  task'[r] = "stored" /\ record'[r] = record[r]
<1>1. task \in [Run -> TaskPlace] /\ record \in [Run -> Ended \cup {"none", "Running"}]
  BY DEF WebTypeOK, TaskPlace
<1> QED BY <1>1 DEF ControlEffect, Insert, GoesOn, Ends, Executing, Store, Goto

\* The file that a resumed run was given is not written any more.
LEMMA ParentsStep ==
  ASSUME TaskInv, ControlEffect, FileEffect
  PROVE  ParentsEnded'
<1>0. /\ file \in [Run -> [state : {"absent", "torn", "saved"}, holds : Nat]]
      /\ parent \in [Run -> [run : Run \cup {NoRun}, given : Nat]]
  BY DEF TaskInv, WebTypeOK
<1>1. \A r \in Run : task[r] = "stored" => task'[r] = "stored"
  BY StoredStays DEF TaskInv
<1>2. CASE UNCHANGED <<file, parent>>
  BY <1>0, <1>1, <1>2 DEF TaskInv, ParentsEnded
<1>3. ASSUME NEW r \in Run, task[r] \in {"save", "saving"}, UNCHANGED parent,
             \A s \in Run \ {r} : file'[s] = file[s]
      PROVE  ParentsEnded'
  <2> SUFFICES ASSUME NEW s \in Run, parent[s].run # NoRun
               PROVE  /\ task'[parent[s].run] = "stored"
                      /\ file'[parent[s].run] = Holding(parent[s].given)
    BY <1>3 DEF ParentsEnded
  <2>1. /\ parent[s].run \in Run
        /\ task[parent[s].run] = "stored"
        /\ file[parent[s].run] = Holding(parent[s].given)
    BY <1>0 DEF TaskInv, ParentsEnded
  <2> QED BY <1>1, <1>3, <2>1
<1>4. ASSUME NEW r \in Run, NEW s \in Run, record[r] \in Ended, file[r].state = "saved",
             parent' = [parent EXCEPT ![s] = [run |-> r, given |-> file[r].holds]],
             UNCHANGED file
      PROVE  ParentsEnded'
  <2>1. task'[r] = "stored"
    BY <1>1, <1>4, EndedIsStored DEF TaskInv
  <2>2. file[r] = Holding(file[r].holds)
    BY <1>0, <1>4 DEF Holding
  <2>3. parent'[s].run = r /\ parent'[s].given = file[r].holds
    BY <1>0, <1>4
  <2>4. \A t \in Run \ {s} : parent'[t] = parent[t]
    BY <1>0, <1>4
  <2>5. \A t \in Run \ {s} : parent[t].run # NoRun =>
          task'[parent[t].run] = "stored" /\ file[parent[t].run] = Holding(parent[t].given)
    BY <1>0, <1>1 DEF TaskInv, ParentsEnded
  <2> QED BY <1>4, <2>1, <2>2, <2>3, <2>4, <2>5 DEF ParentsEnded
<1>5. FileEffect => \/ UNCHANGED <<file, parent>>
                    \/ \E r \in Run : /\ task[r] \in {"save", "saving"} /\ UNCHANGED parent
                                      /\ \A s \in Run \ {r} : file'[s] = file[s]
                    \/ \E r, s \in Run :
                         /\ record[r] \in Ended
                         /\ file[r].state = "saved"
                         /\ parent' = [parent EXCEPT ![s] = [run |-> r, given |-> file[r].holds]]
                         /\ UNCHANGED file
  BY <1>0 DEF FileEffect
<1> QED BY <1>2, <1>3, <1>4, <1>5

\* There are no tasks yet.
LEMMA TaskInvInit == Init => TaskInv
<1> SUFFICES ASSUME Init PROVE TaskInv
  OBVIOUS
<1>1. \A r \in Run : /\ record[r] = "none" /\ task[r] = "none" /\ result[r] = "none"
                     /\ parent[r].run = NoRun /\ sent[r] = <<>>
  BY DEF Init
<1>2. \A r \in Run : \A ev : ~Announced(r, ev)
  BY <1>1 DEF Announced
<1>3. RecordFollowsTask /\ ResultFollowsStream /\ ParentsEnded
  BY <1>1, <1>2 DEF RecordFollowsTask, ResultFollowsStream, ParentsEnded
<1> QED BY <1>3, InitTyped DEF TaskInv

\* Every step keeps record, budget and stream in line with the place of the task.
LEMMA TaskInvStep == TaskInv /\ [Next]_vars => TaskInv'
<1> SUFFICES ASSUME TaskInv, [Next]_vars PROVE TaskInv'
  OBVIOUS
<1>1. WebTypeOK' /\ ReadersAttached' /\ NodePaid'
  BY TypedStep DEF TaskInv
<1>2. ResultFollowsStream' /\ RecordFollowsTask'
  BY StepEffects, ResultStep, RecordStep DEF TaskInv
<1>3. ParentsEnded'
  BY StepEffects, ParentsStep
<1> QED BY <1>1, <1>2, <1>3 DEF TaskInv

\* So they are throughout.
LEMMA TaskInductive == Spec => []TaskInv
BY TaskInvInit, TaskInvStep, PTL DEF Spec

(* -------------------------------- theorems ------------------------------ *)

\* Records, tokens, tasks, checkpoints, channels and readers keep their types,
\* whatever requests and tasks do.
THEOREM WebTypeCorrect == Spec => []WebTypeOK
<1>1. TaskInv => WebTypeOK
  BY DEF TaskInv
<1> QED BY <1>1, TaskInductive, PTL

\* The status of an ended run is what its event stream announced.
THEOREM StatusFollowsStream == Spec => []StatusMatchesStream
<1>1. TaskInv => StatusMatchesStream
  <2> SUFFICES ASSUME TaskInv, NEW r \in Run, record[r] \in Ended
               PROVE  /\ record[r] = "Completed" <=> Announced(r, "PipelineCompleted")
                      /\ record[r] = "Aborted" => token[r] /\ Announced(r, "PipelineAborted")
    BY DEF StatusMatchesStream
  <2>1. record[r] = StatusOf(r)
    BY EndedIsStored DEF TaskInv, RecordFollowsTask
  <2> QED BY <2>1 DEF TaskInv, ResultFollowsStream, StatusOf
<1> QED BY <1>1, TaskInductive, PTL

\* A resumed run was given the checkpoint its parent ended with.
THEOREM ResumesFinal == Spec => []ResumedFromFinal
<1>1. TaskInv => ResumedFromFinal
  BY DEF TaskInv, ParentsEnded, ResumedFromFinal
<1> QED BY <1>1, TaskInductive, PTL

\* The status of an ended run never changes.
THEOREM EndedStays == Spec => EndedIsFinal
<1>1. TaskInv /\ [Next]_vars
        => [\A r \in Run : record[r] \in Ended => record'[r] = record[r]]_vars
  <2> SUFFICES ASSUME TaskInv, [Next]_vars, NEW r \in Run, record[r] \in Ended
               PROVE  record'[r] = record[r]
    OBVIOUS
  <2> QED BY EndedIsStored, StepEffects, StoredStays DEF TaskInv
<1> QED BY <1>1, TaskInductive, PTL DEF Spec, EndedIsFinal

(* -------------------------------- readers ------------------------------- *)

\* A reader got events in order, none of them still to come, ...
GotInOrder(rd) ==
  /\ \A i, j \in DOMAIN rd.got : i < j => rd.got[i] < rd.got[j]
  /\ \A i \in DOMAIN rd.got : rd.got[i] < rd.next

\* ... and what it skipped was overwritten.
SkippedOverwritten(rd) == \A p \in Skipped(rd) : p + Capacity <= Len(sent[rd.run])

ReadsRight(rd) == rd.run # NoRun => GotInOrder(rd) /\ SkippedOverwritten(rd)

ReadersRight ==
  /\ \A r \in Run : ReadsRight(log[r])
  /\ \A c \in Client : ReadsRight(stream[c])

\* A new reader has skipped nothing.
LEMMA SubscribedReads ==
  ASSUME sent \in [Run -> Seq(EventName)], NEW r \in Run
  PROVE  ReadsRight(Subscribed(r))
<1>1. Len(sent[r]) \in Nat
  OBVIOUS
<1>2. Skipped(Subscribed(r)) = {}
  BY <1>1 DEF Skipped, Subscribed
<1>3. GotInOrder(Subscribed(r))
  BY DEF GotInOrder, Subscribed
<1> QED BY <1>2, <1>3 DEF ReadsRight, SkippedOverwritten

\* Receiving takes the next event, or skips those that are overwritten.
LEMMA ReceivedReads ==
  ASSUME sent \in [Run -> Seq(EventName)], NEW rd \in Reader, rd.run \in Run,
         GotInOrder(rd), SkippedOverwritten(rd)
  PROVE  GotInOrder(Received(rd)) /\ SkippedOverwritten(Received(rd))
<1>0. /\ Len(sent[rd.run]) \in Nat
      /\ rd.next \in Nat \ {0} /\ rd.from \in Nat \ {0}
      /\ rd.got \in Seq(Nat \ {0})
      /\ Capacity \in Nat \ {0}
  BY WebAssumption DEF Reader
<1>1. CASE rd.next < Oldest(rd.run)
  <2>1. Received(rd) = Lagged(rd)
    BY <1>1 DEF Received
  <2>2. /\ Lagged(rd).got = rd.got /\ Lagged(rd).from = rd.from /\ Lagged(rd).run = rd.run
        /\ Lagged(rd).next = Oldest(rd.run)
    BY DEF Lagged, Reader
  <2>3. Len(sent[rd.run]) > Capacity /\ Oldest(rd.run) = Len(sent[rd.run]) - Capacity + 1
    BY <1>0, <1>1 DEF Oldest
  <2>4. GotInOrder(Lagged(rd))
    <3>1. \A i \in DOMAIN rd.got : rd.got[i] \in Nat
      BY <1>0
    <3> QED BY <1>0, <1>1, <2>2, <2>3, <3>1 DEF GotInOrder
  <2>5. \A p \in Skipped(Lagged(rd)) : p + Capacity <= Len(sent[rd.run])
    BY <1>0, <2>2, <2>3 DEF Skipped
  <2> QED BY <2>1, <2>2, <2>4, <2>5 DEF SkippedOverwritten
<1>2. CASE ~(rd.next < Oldest(rd.run))
  <2>1. Received(rd) = Taken(rd)
    BY <1>2 DEF Received
  <2>2. /\ Taken(rd).got = Append(rd.got, rd.next) /\ Taken(rd).from = rd.from
        /\ Taken(rd).run = rd.run /\ Taken(rd).next = rd.next + 1
    BY DEF Taken, Reader
  <2> DEFINE new == Append(rd.got, rd.next)
  <2>3. /\ DOMAIN new = 1 .. Len(rd.got) + 1 /\ DOMAIN rd.got = 1 .. Len(rd.got)
        /\ Len(rd.got) \in Nat
        /\ new[Len(rd.got) + 1] = rd.next
        /\ \A i \in DOMAIN rd.got : new[i] = rd.got[i] /\ rd.got[i] \in Nat
    BY <1>0
  <2> HIDE DEF new
  <2>4. \A i, j \in DOMAIN new : i < j => new[i] < new[j]
    <3> SUFFICES ASSUME NEW i \in DOMAIN new, NEW j \in DOMAIN new, i < j
                 PROVE  new[i] < new[j]
      OBVIOUS
    <3>1. i \in DOMAIN rd.got
      BY <2>3
    <3>2. new[i] = rd.got[i] /\ rd.got[i] < rd.next
      BY <2>3, <3>1 DEF GotInOrder
    <3>3. CASE j = Len(rd.got) + 1
      BY <2>3, <3>2, <3>3
    <3>4. CASE j # Len(rd.got) + 1
      <4>1. j \in DOMAIN rd.got
        BY <2>3, <3>4
      <4>2. rd.got[i] < rd.got[j]
        BY <3>1, <4>1 DEF GotInOrder
      <4> QED BY <2>3, <3>2, <4>1, <4>2
    <3> QED BY <3>3, <3>4
  <2>5. \A i \in DOMAIN new : new[i] < rd.next + 1
    <3> SUFFICES ASSUME NEW i \in DOMAIN new PROVE new[i] < rd.next + 1
      OBVIOUS
    <3>1. CASE i = Len(rd.got) + 1
      BY <1>0, <2>3, <3>1
    <3>2. CASE i \in DOMAIN rd.got
      <4>1. rd.got[i] < rd.next
        BY <3>2 DEF GotInOrder
      <4> QED BY <1>0, <2>3, <3>2, <4>1
    <3> QED BY <2>3, <3>1, <3>2
  <2>6. GotInOrder(Taken(rd))
    BY <2>2, <2>4, <2>5 DEF GotInOrder, new
  <2>7. Skipped(Taken(rd)) \subseteq Skipped(rd)
    <3>1. \A i \in DOMAIN rd.got : i \in DOMAIN new
      BY <2>3
    <3>2. Len(rd.got) + 1 \in DOMAIN new
      BY <2>3
    <3>3. Skipped(Taken(rd)) = (rd.from .. rd.next) \ {new[i] : i \in DOMAIN new}
      BY <1>0, <2>2, SMTT(40) DEF Skipped, new
    <3>4. SUFFICES ASSUME NEW p \in Skipped(Taken(rd)) PROVE p \in Skipped(rd)
      OBVIOUS
    <3>5. p \in rd.from .. rd.next /\ \A i \in DOMAIN new : p # new[i]
      BY <3>3
    <3>6. p # rd.next /\ \A i \in DOMAIN rd.got : p # rd.got[i]
      BY <2>3, <3>1, <3>2, <3>5
    <3>7. p \in rd.from .. rd.next - 1
      BY <1>0, <3>5, <3>6
    <3> QED BY <3>6, <3>7 DEF Skipped
  <2> QED BY <2>1, <2>2, <2>6, <2>7 DEF SkippedOverwritten
<1> QED BY <1>1, <1>2

\* Whether a reader is open says nothing of what it read.
LEMMA OpenIrrelevant ==
  ASSUME NEW rd \in Reader, NEW b \in BOOLEAN
  PROVE  ReadsRight([rd EXCEPT !.open = b]) <=> ReadsRight(rd)
<1> DEFINE new == [rd EXCEPT !.open = b]
<1>1. new.run = rd.run /\ new.next = rd.next /\ new.from = rd.from /\ new.got = rd.got
  BY Zenon DEF Reader
<1> HIDE DEF new
<1>2. Skipped(new) = Skipped(rd)
  BY <1>1 DEF Skipped
<1>3. ReadsRight(new) <=> ReadsRight(rd)
  BY <1>1, <1>2 DEF ReadsRight, GotInOrder, SkippedOverwritten
<1> QED BY <1>3 DEF new

\* As the channels only grow, what was overwritten stays overwritten.
LEMMA StillOverwritten ==
  ASSUME WebTypeOK, ControlEffect, NEW rd \in Reader, ReadsRight(rd)
  PROVE  rd.run # NoRun => /\ GotInOrder(rd)
                           /\ \A p \in Skipped(rd) : p + Capacity <= Len(sent'[rd.run])
<1> SUFFICES ASSUME rd.run # NoRun, NEW p \in Skipped(rd)
             PROVE  GotInOrder(rd) /\ p + Capacity <= Len(sent'[rd.run])
  BY DEF ReadsRight
<1>1. rd.run \in Run
  BY DEF Reader
<1>2. /\ Len(sent[rd.run]) \in Nat /\ Len(sent'[rd.run]) \in Nat
      /\ Len(sent'[rd.run]) >= Len(sent[rd.run])
  BY <1>1, SentStep
<1>3. p \in Nat /\ Capacity \in Nat
  BY WebAssumption DEF Skipped, Reader
<1>4. p + Capacity <= Len(sent[rd.run])
  BY DEF ReadsRight, SkippedOverwritten
<1> QED BY <1>2, <1>3, <1>4 DEF ReadsRight

\* The readers read right with the channels of the next state, before they move.
ReadsRightAfter(rd) ==
  rd.run # NoRun => /\ GotInOrder(rd)
                    /\ \A p \in Skipped(rd) : p + Capacity <= Len(sent'[rd.run])

\* Every step keeps a reader at its place in the stream, less what was overwritten.
LEMMA ReadersRightStep ==
  ASSUME WebTypeOK, ReadersAttached, ReadersRight, ControlEffect, ReaderEffect
  PROVE  ReadersRight'
<1>0. /\ sent \in [Run -> Seq(EventName)]
      /\ log \in [Run -> Reader]
      /\ stream \in [Client -> Reader]
  BY DEF WebTypeOK, EventName
<1>1. /\ \A r \in Run : ReadsRightAfter(log[r])
      /\ \A c \in Client : ReadsRightAfter(stream[c])
  BY <1>0, StillOverwritten DEF ReadersRight, ReadsRightAfter
<1>2. ASSUME \A r \in Run : ReadsRightAfter(log'[r]),
             \A c \in Client : ReadsRightAfter(stream'[c])
      PROVE  ReadersRight'
  BY <1>2 DEF ReadersRight, ReadsRight, ReadsRightAfter, GotInOrder, SkippedOverwritten, Skipped
<1>3. ASSUME UNCHANGED sent, NEW rd, ReadsRight(rd)
      PROVE  ReadsRightAfter(rd)
  BY <1>3 DEF ReadsRight, ReadsRightAfter, SkippedOverwritten
<1>4. ASSUME NEW rd \in Reader, HasNext(rd), rd.run \in Run, ReadsRight(rd), UNCHANGED sent
      PROVE  ReadsRight(Received(rd)) /\ ReadsRightAfter(Received(rd))
  <2>1. rd.run # NoRun
    BY <1>4, WebAssumption
  <2>2. GotInOrder(Received(rd)) /\ SkippedOverwritten(Received(rd))
    BY <1>0, <1>4, <2>1, ReceivedReads DEF ReadsRight
  <2> QED BY <1>3, <1>4, <2>2 DEF ReadsRight
<1>5. CASE UNCHANGED <<log, stream>>
  BY <1>1, <1>2, <1>5
<1>6. ASSUME NEW r \in Run, UNCHANGED <<sent, stream>>, log' = [log EXCEPT ![r] = Subscribed(r)]
      PROVE  ReadersRight'
  <2>1. ReadsRightAfter(Subscribed(r))
    BY <1>0, <1>3, <1>6, SubscribedReads
  <2>2. \A s \in Run : log'[s] = IF s = r THEN Subscribed(r) ELSE log[s]
    BY <1>0, <1>6
  <2> QED BY <1>1, <1>2, <1>6, <2>1, <2>2
<1>7. ASSUME NEW c \in Client, NEW r \in Run, UNCHANGED <<sent, log>>,
             stream' = [stream EXCEPT ![c] = Subscribed(r)]
      PROVE  ReadersRight'
  <2>1. ReadsRightAfter(Subscribed(r))
    BY <1>0, <1>3, <1>7, SubscribedReads
  <2>2. \A d \in Client : stream'[d] = IF d = c THEN Subscribed(r) ELSE stream[d]
    BY <1>0, <1>7
  <2> QED BY <1>1, <1>2, <1>7, <2>1, <2>2
<1>8. ASSUME NEW r \in Run, DrainLog(r)
      PROVE  ReadersRight'
  <2>1. /\ HasNext(log[r]) /\ UNCHANGED <<sent, stream>>
        /\ log' = [log EXCEPT ![r] = Received(log[r])]
    BY <1>8 DEF DrainLog
  <2>2. log[r] \in Reader /\ log[r].run \in Run /\ ReadsRight(log[r])
    BY <1>0, <2>1 DEF ReadersAttached, HasNext, ReadersRight
  <2>3. ReadsRightAfter(Received(log[r]))
    BY <1>4, <2>1, <2>2
  <2>4. \A s \in Run : log'[s] = IF s = r THEN Received(log[r]) ELSE log[s]
    BY <1>0, <2>1
  <2> QED BY <1>1, <1>2, <2>1, <2>3, <2>4
<1>9. ASSUME NEW c \in Client, Receive(c)
      PROVE  ReadersRight'
  <2> DEFINE rd == Received(stream[c])
             closes == Closes(rd, stream[c])
  <2>1. /\ HasNext(stream[c]) /\ UNCHANGED <<sent, log>>
        /\ stream' = [stream EXCEPT ![c] = [rd EXCEPT !.open = ~closes]]
    BY <1>9 DEF Receive
  <2>2. stream[c] \in Reader /\ stream[c].run \in Run /\ ReadsRight(stream[c])
    BY <1>0, <2>1 DEF ReadersAttached, HasNext, ReadersRight
  <2>3. ReadsRight(rd) /\ rd \in Reader
    BY <1>0, <1>4, <2>1, <2>2, ReceivedTyped
  <2>4. (~closes) \in BOOLEAN
    BY DEF Closes
  <2> HIDE DEF rd, closes
  <2>5. ReadsRight([rd EXCEPT !.open = ~closes])
    BY <2>3, <2>4, OpenIrrelevant
  <2>6. ReadsRightAfter([rd EXCEPT !.open = ~closes])
    BY <1>3, <2>1, <2>5
  <2>7. \A d \in Client : stream'[d] = IF d = c THEN [rd EXCEPT !.open = ~closes] ELSE stream[d]
    BY <1>0, <2>1
  <2> QED BY <1>1, <1>2, <2>1, <2>6, <2>7
<1> QED BY <1>5, <1>6, <1>7, <1>8, <1>9 DEF ReaderEffect

\* So it is throughout.
LEMMA ReadersInductive == Spec => []ReadersRight
<1>1. Init => ReadersRight
  BY DEF Init, ReadersRight, ReadsRight, NoReader
<1>2. TaskInv /\ ReadersRight /\ [Next]_vars => ReadersRight'
  BY StepEffects, ReadersRightStep DEF TaskInv
<1> QED BY <1>1, <1>2, TaskInductive, PTL DEF Spec

\* Whatever the capacity and however the readers are scheduled, the event log
\* and the event streams get events in order, none twice, and lose only what
\* was overwritten.
THEOREM ReadersLoseOnlyOverwritten == Spec => []LosesOnlyOverwritten
<1>1. ReadersRight => LosesOnlyOverwritten
  BY DEF ReadersRight, ReadsRight, GotInOrder, SkippedOverwritten, LosesOnlyOverwritten
<1> QED BY <1>1, ReadersInductive, PTL

(* ------------------------------ every run winds down --------------------- *)

\* How far a task is from its end, the nodes ahead not counted.
Distance(place) ==
  CASE place = "none"     -> 10
    [] place = "inserted" -> 9
    [] place = "spawned"  -> 8
    [] place = "save"     -> 7
    [] place = "saving"   -> 6
    [] place = "route"    -> 5
    [] place = "top"      -> 4
    [] place = "start"    -> 3
    [] place = "work"     -> 2
    [] place = "returned" -> 1
    [] place = "stored"   -> 0

\* The steps a run has left: six for each node of its budget, and the distance.
StepsLeft(r) == 6 * budget[r] + Distance(task[r])

\* What a request, an agent or a reader does leaves the steps of every run as
\* they are, and a run whose task moves has fewer.
StepsFall ==
  [][\A r \in Run : /\ task'[r] = task[r] => StepsLeft(r)' = StepsLeft(r)
                    /\ task'[r] # task[r] => StepsLeft(r)' < StepsLeft(r)]_vars

\* Places in the order of a task that executes no node in between.
Follows(p, q) ==
  \/ p = "none"     /\ q = "inserted"
  \/ p = "inserted" /\ q = "spawned"
  \/ p = "spawned"  /\ q = "top"
  \/ p = "save"     /\ q \in {"saving", "route"}
  \/ p = "saving"   /\ q = "route"
  \/ p = "route"    /\ q \in {"top", "returned"}
  \/ p = "top"      /\ q \in {"start", "returned"}
  \/ p = "start"    /\ q = "work"
  \/ p = "returned" /\ q = "stored"

\* What a step does to a task and its budget.
Moves(r, place) ==
  /\ task' = [task EXCEPT ![r] = place]
  /\ \/ Follows(task[r], place) /\ UNCHANGED budget
     \/ /\ task[r] = "work" /\ place \in {"save", "route"}
        /\ budget' = [budget EXCEPT ![r] = budget[r] - 1]

\* One task moves, or none does and no budget is spent.
LEMMA OneTaskMoves ==
  ASSUME [Next]_vars
  PROVE  UNCHANGED <<task, budget>> \/ \E r \in Run, place \in TaskPlace : Moves(r, place)
<1> USE DEF Moves, Follows, TaskPlace, Goto, Return, Insert, engineVars, channelVars
<1>1. CASE UNCHANGED vars
  BY <1>1 DEF vars
<1>2. CASE Requests
  BY <1>2 DEF Requests, Submit, Cancel, Resume, Subscribe
<1>3. ASSUME NEW r \in Run, Runs(r)
      PROVE  UNCHANGED <<task, budget>> \/ \E place \in TaskPlace : Moves(r, place)
  BY <1>3 DEF Runs, Spawn, Start, Stop, Pass, StartNode, BeginSave, EndSave, SaveFails,
              Route, Store
<1>4. ASSUME NEW r \in Run, NodeReturns(r)
      PROVE  \E place \in TaskPlace : Moves(r, place)
  BY <1>4 DEF NodeReturns
<1>5. ASSUME NEW r \in Run, Talk(r) \/ Forward(r) \/ DrainLog(r)
      PROVE  UNCHANGED <<task, budget>>
  BY <1>5 DEF Talk, Forward, DrainLog
<1>6. ASSUME NEW c \in Client, Receive(c)
      PROVE  UNCHANGED <<task, budget>>
  BY <1>6 DEF Receive
<1> HIDE DEF Moves
<1> QED BY <1>1, <1>2, <1>3, <1>4, <1>5, <1>6 DEF Next

\* A move lowers what is left.
LEMMA MoveLowers ==
  ASSUME WebTypeOK, NodePaid, NEW r \in Run, NEW place \in TaskPlace, Moves(r, place)
  PROVE  /\ task'[r] # task[r]
         /\ StepsLeft(r)' < StepsLeft(r)
         /\ \A s \in Run \ {r} : task'[s] = task[s] /\ StepsLeft(s)' = StepsLeft(s)
<1>0. /\ task \in [Run -> TaskPlace]
      /\ budget \in [Run -> 0 .. MaxNodes]
  BY DEF WebTypeOK, TaskPlace
<1>1. task' = [task EXCEPT ![r] = place]
  BY DEF Moves
<1>2. CASE Follows(task[r], place) /\ UNCHANGED budget
  <2>1. task'[r] = place /\ budget'[r] = budget[r] /\ budget[r] \in Nat
    BY <1>0, <1>1, <1>2, WebAssumption
  <2>2. Distance(place) \in Nat /\ Distance(task[r]) \in Nat
    BY <1>2 DEF Follows, Distance
  <2>3. Distance(place) < Distance(task[r]) /\ place # task[r]
    BY <1>2 DEF Follows, Distance
  <2>4. \A s \in Run \ {r} : task'[s] = task[s] /\ budget'[s] = budget[s]
    BY <1>0, <1>1, <1>2
  <2>5. StepsLeft(r)' = 6 * budget[r] + Distance(place)
    BY <2>1 DEF StepsLeft
  <2> QED BY <2>1, <2>2, <2>3, <2>4, <2>5 DEF StepsLeft
<1>3. CASE /\ task[r] = "work" /\ place \in {"save", "route"}
           /\ budget' = [budget EXCEPT ![r] = budget[r] - 1]
  <2>1. /\ task'[r] = place /\ budget'[r] = budget[r] - 1
        /\ budget[r] \in Nat /\ budget[r] > 0
    BY <1>0, <1>1, <1>3, WebAssumption DEF NodePaid
  <2>2. Distance(task[r]) = 2 /\ Distance(place) \in {5, 7}
    BY <1>3 DEF Distance
  <2>3. \A s \in Run \ {r} : task'[s] = task[s] /\ budget'[s] = budget[s]
    BY <1>0, <1>1, <1>3
  <2>4. StepsLeft(r)' = 6 * (budget[r] - 1) + Distance(place)
    BY <2>1 DEF StepsLeft
  <2>5. place # task[r]
    BY <1>3
  <2> QED BY <2>1, <2>2, <2>3, <2>4, <2>5 DEF StepsLeft
<1> QED BY <1>2, <1>3 DEF Moves

\* The task of every run, submitted or resumed, makes at most six moves for each
\* node of its budget and ten more, whoever cancels, resumes or reads meanwhile:
\* what is left starts there and every move lowers it.
THEOREM RunsWindDown ==
  Spec => [](\A r \in Run : StepsLeft(r) \in 0 .. 6 * MaxNodes + 10) /\ StepsFall
<1>1. TaskInv => \A r \in Run : StepsLeft(r) \in 0 .. 6 * MaxNodes + 10
  <2> SUFFICES ASSUME TaskInv, NEW r \in Run
               PROVE  StepsLeft(r) \in 0 .. 6 * MaxNodes + 10
    OBVIOUS
  <2>1. budget[r] \in 0 .. MaxNodes /\ task[r] \in TaskPlace /\ MaxNodes \in Nat
    BY WebAssumption DEF TaskInv, WebTypeOK, TaskPlace
  <2>2. Distance(task[r]) \in 0 .. 10
    BY <2>1 DEF TaskPlace, Distance
  <2> QED BY <2>1, <2>2 DEF StepsLeft
<1>2. TaskInv /\ [Next]_vars =>
        [\A r \in Run : /\ task'[r] = task[r] => StepsLeft(r)' = StepsLeft(r)
                        /\ task'[r] # task[r] => StepsLeft(r)' < StepsLeft(r)]_vars
  <2> SUFFICES ASSUME TaskInv, [Next]_vars, NEW r \in Run
               PROVE  /\ task'[r] = task[r] => StepsLeft(r)' = StepsLeft(r)
                      /\ task'[r] # task[r] => StepsLeft(r)' < StepsLeft(r)
    OBVIOUS
  <2>1. CASE UNCHANGED <<task, budget>>
    BY <2>1 DEF StepsLeft
  <2>2. ASSUME NEW s \in Run, NEW place \in TaskPlace, Moves(s, place)
        PROVE  /\ task'[r] = task[r] => StepsLeft(r)' = StepsLeft(r)
               /\ task'[r] # task[r] => StepsLeft(r)' < StepsLeft(r)
    BY <2>2, MoveLowers DEF TaskInv
  <2> QED BY <2>1, <2>2, OneTaskMoves
<1> QED BY <1>1, <1>2, TaskInductive, PTL DEF Spec, StepsFall
=============================================================================
