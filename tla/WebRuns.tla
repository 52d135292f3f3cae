------------------------------ MODULE WebRuns ------------------------------
(***************************************************************************)
(* The web server's runs: the map of run records behind a read-write lock, *)
(* the task that executes each run and stores how it ended, the requests   *)
(* that submit, cancel and resume runs, and the broadcast channel of each  *)
(* run with its readers: the event log and the event streams of clients.   *)
(*                                                                         *)
(* The engine is Engine.tla seen from outside: it starts nodes, reports    *)
(* them, saves checkpoints and ends. An action is what happens under one   *)
(* hold of the lock, or between two awaits of a task.                      *)
(***************************************************************************)
EXTENDS Naturals, Sequences, SequencesExt

CONSTANTS
  Run,       \* identifiers of runs
  NoRun,     \* no run
  Client,    \* HTTP clients, each with one event stream
  Capacity,  \* events the broadcast buffer holds: 256
  MaxNodes,  \* node executions of a run: max_steps, 1000
  MaxTalk,   \* bound: agent events per run
  Watched    \* bound: the runs whose event log is followed

ASSUME WebAssumption ==
  /\ NoRun \notin Run
  /\ Capacity \in Nat \ {0}
  /\ MaxNodes \in Nat
  /\ MaxTalk \in Nat
  /\ Watched \subseteq Run

VARIABLES
  record,  \* status in the record of a run, "none" before it is inserted
  token,   \* its cancellation token
  task,    \* where its task is
  result,  \* what the engine returned
  nodes,   \* nodes it executed, the restored ones included
  budget,  \* node executions left
  file,    \* checkpoint.json: "absent", "torn" or [holds |-> nodes]
  parent,  \* the run it was resumed from, and the nodes it was given
  bridge,  \* agent events not yet forwarded to the channel
  talked,  \* agent events so far
  sent,    \* events sent to its channel
  log,     \* reader that drains the channel into the event log
  stream   \* readers of the clients' event streams

engineVars  == <<token, task, result, nodes, budget, file, parent>>
channelVars == <<bridge, talked, sent, log, stream>>
vars        == <<record, engineVars, channelVars>>

Ended      == {"Completed", "Failed", "Aborted"}
Absent     == [state |-> "absent", holds |-> 0]
Torn       == [state |-> "torn", holds |-> 0]
Holding(n) == [state |-> "saved", holds |-> n]
Closing    == {"PipelineCompleted", "PipelineAborted"}

(***************************************************************************)
(* Broadcast channel. A reader has the place of the next event it will     *)
(* receive; events further back than Capacity are overwritten.             *)
(***************************************************************************)

NoReader == [run |-> NoRun, next |-> 1, from |-> 1, got |-> <<>>, open |-> FALSE]

Subscribed(r) ==
  [run |-> r, next |-> Len(sent[r]) + 1, from |-> Len(sent[r]) + 1,
   got |-> <<>>, open |-> TRUE]

Oldest(r) == IF Len(sent[r]) > Capacity THEN Len(sent[r]) - Capacity + 1 ELSE 1

HasNext(rd) == rd.open /\ rd.next <= Len(sent[rd.run])

\* A reader that forgets what the buffer still holds.
LaggedToNewest(rd) == [rd EXCEPT !.next = Len(sent[rd.run]) + 1]

Lagged(rd) == [rd EXCEPT !.next = Oldest(rd.run)]
Taken(rd)  == [rd EXCEPT !.next = @ + 1, !.got = Append(@, rd.next)]

\* A reader that gives up when it lags.
ReceivedOrStop(rd) ==
  IF rd.next < Oldest(rd.run) THEN [rd EXCEPT !.open = FALSE] ELSE Taken(rd)

\* recv(): an overwritten event is answered with Lagged, and the next call
\* continues at the oldest event left.
Received(rd) == IF rd.next < Oldest(rd.run) THEN Lagged(rd) ELSE Taken(rd)

Emit(r, ev) == sent' = [sent EXCEPT ![r] = Append(@, ev)]

(***************************************************************************)
(* Initial state and requests                                              *)
(***************************************************************************)

Init ==
  /\ record = [r \in Run |-> "none"]
  /\ token  = [r \in Run |-> FALSE]
  /\ task   = [r \in Run |-> "none"]
  /\ result = [r \in Run |-> "none"]
  /\ nodes  = [r \in Run |-> 0]
  /\ budget = [r \in Run |-> MaxNodes]
  /\ file   = [r \in Run |-> Absent]
  /\ parent = [r \in Run |-> [run |-> NoRun, given |-> 0]]
  /\ bridge = [r \in Run |-> 0]
  /\ talked = [r \in Run |-> 0]
  /\ sent   = [r \in Run |-> <<>>]
  /\ log    = [r \in Run |-> NoReader]
  /\ stream = [c \in Client |-> NoReader]

Insert(r) ==
  /\ task[r] = "none"
  /\ record' = [record EXCEPT ![r] = "Running"]
  /\ task' = [task EXCEPT ![r] = "inserted"]

\* POST /api/runs: the graph passed lint, the record is inserted.
Submit(r) ==
  /\ Insert(r)
  /\ UNCHANGED <<token, result, nodes, budget, file, parent, channelVars>>

\* After the lock is released the log subscribes, then the task is spawned.
Spawn(r) ==
  /\ task[r] = "inserted"
  /\ log' = IF r \in Watched THEN [log EXCEPT ![r] = Subscribed(r)] ELSE log
  /\ task' = [task EXCEPT ![r] = "spawned"]
  /\ UNCHANGED <<record, token, result, nodes, budget, file, parent, bridge,
                 talked, sent, stream>>

\* A cancellation that also stores the status it answers.
CancelStoring(r) ==
  /\ record[r] = "Running"
  /\ token' = [token EXCEPT ![r] = TRUE]
  /\ record' = [record EXCEPT ![r] = "Aborted"]
  /\ UNCHANGED <<task, result, nodes, budget, file, parent, channelVars>>

\* POST /api/runs/{id}/cancel: under the read lock, so no status is stored
\* between the check and the cancellation.
Cancel(r) ==
  /\ record[r] = "Running"
  /\ token' = [token EXCEPT ![r] = TRUE]
  /\ UNCHANGED <<record, task, result, nodes, budget, file, parent, channelVars>>

\* A resume that does not wait for the end of the run.
ResumableAnytime(r) == record[r] # "none"

Resumable(r) == record[r] \in Ended

\* POST /api/runs/{id}/resume: a new run s from the checkpoint in the directory
\* of run r. Other states of the file are errors. The new run saves none.
Resume(r, s) ==
  /\ Resumable(r)
  /\ file[r].state = "saved"
  /\ Insert(s)
  /\ nodes' = [nodes EXCEPT ![s] = file[r].holds]
  /\ parent' = [parent EXCEPT ![s] = [run |-> r, given |-> file[r].holds]]
  /\ UNCHANGED <<token, result, budget, file, channelVars>>

\* GET /api/runs/{id}/events
Subscribe(c, r) ==
  /\ record[r] # "none"
  /\ stream[c].run = NoRun
  /\ stream' = [stream EXCEPT ![c] = Subscribed(r)]
  /\ UNCHANGED <<record, engineVars, bridge, talked, sent, log>>

(***************************************************************************)
(* The task of a run                                                       *)
(***************************************************************************)

Goto(r, place) == task' = [task EXCEPT ![r] = place]

Return(r, res) ==
  /\ Goto(r, "returned")
  /\ result' = [result EXCEPT ![r] = res]

\* run or run_from_checkpoint opens the event stream.
Start(r) ==
  /\ task[r] = "spawned"
  /\ Emit(r, "PipelineStarted")
  /\ Goto(r, "top")
  /\ UNCHANGED <<record, token, result, nodes, budget, file, parent, bridge,
                 talked, log, stream>>

\* The token and the step budget are checked before each node ...
Stop(r) ==
  /\ task[r] = "top"
  /\ \/ token[r] /\ Return(r, "Cancelled")
     \/ ~token[r] /\ budget[r] = 0 /\ Return(r, "Error")
  /\ Emit(r, "PipelineAborted")
  /\ UNCHANGED <<record, token, nodes, budget, file, parent, bridge, talked,
                 log, stream>>

\* A step budget that is not checked.
PassUnbudgeted(r) ==
  /\ task[r] = "top"
  /\ ~token[r]
  /\ Goto(r, "start")
  /\ UNCHANGED <<record, token, result, nodes, budget, file, parent, channelVars>>

Pass(r) ==
  /\ task[r] = "top"
  /\ ~token[r]
  /\ budget[r] > 0
  /\ Goto(r, "start")
  /\ UNCHANGED <<record, token, result, nodes, budget, file, parent, channelVars>>

\* ... and the node starts after an await.
StartNode(r) ==
  /\ task[r] = "start"
  /\ Emit(r, "NodeStarted")
  /\ Goto(r, "work")
  /\ UNCHANGED <<record, token, result, nodes, budget, file, parent, bridge,
                 talked, log, stream>>

\* The handler returns, perhaps never: an agent works, a human is asked. The
\* report is NodeCompleted or NodeFailed.
NodeReturns(r) ==
  /\ task[r] = "work"
  /\ nodes' = [nodes EXCEPT ![r] = @ + 1]
  /\ budget' = [budget EXCEPT ![r] = @ - 1]
  /\ Emit(r, "NodeReport")
  /\ Goto(r, IF parent[r].run = NoRun THEN "save" ELSE "route")
  /\ UNCHANGED <<record, token, result, file, parent, bridge, talked, log, stream>>

\* The checkpoint is rewritten in place.
BeginSave(r) ==
  /\ task[r] = "save"
  /\ file' = [file EXCEPT ![r] = Torn]
  /\ Goto(r, "saving")
  /\ UNCHANGED <<record, token, result, nodes, budget, parent, channelVars>>

EndSave(r) ==
  /\ task[r] = "saving"
  /\ file' = [file EXCEPT ![r] = Holding(nodes[r])]
  /\ Emit(r, "CheckpointCreated")
  /\ Goto(r, "route")
  /\ UNCHANGED <<record, token, result, nodes, budget, parent, bridge, talked,
                 log, stream>>

\* A save that fails is logged, before or after the file was truncated.
SaveFails(r) ==
  /\ task[r] \in {"save", "saving"}
  /\ Goto(r, "route")
  /\ UNCHANGED <<record, token, result, nodes, budget, file, parent, channelVars>>

\* Another node, or the end: announced as completed, announced as aborted, or
\* an error without an event (goals not met, a malformed edge).
Route(r) ==
  /\ task[r] = "route"
  /\ \/ Goto(r, "top") /\ UNCHANGED <<result, sent>>
     \/ Return(r, "Ok") /\ Emit(r, "PipelineCompleted")
     \/ Return(r, "Error") /\ Emit(r, "PipelineAborted")
     \/ Return(r, "Error") /\ UNCHANGED sent
  /\ UNCHANGED <<record, token, nodes, budget, file, parent, bridge, talked,
                 log, stream>>

\* A status read off the token instead of the result.
StatusByToken(r) ==
  IF token[r] THEN "Aborted" ELSE IF result[r] = "Ok" THEN "Completed" ELSE "Failed"

StatusOf(r) ==
  CASE result[r] = "Ok"        -> "Completed"
    [] result[r] = "Cancelled" -> "Aborted"
    [] OTHER                   -> "Failed"

\* The task takes the write lock and stores how the run ended.
Store(r) ==
  /\ task[r] = "returned"
  /\ record' = [record EXCEPT ![r] = StatusOf(r)]
  /\ Goto(r, "stored")
  /\ UNCHANGED <<token, result, nodes, budget, file, parent, channelVars>>

(***************************************************************************)
(* Agents and readers                                                      *)
(***************************************************************************)

\* The agent of the node at work emits a session event.
Talk(r) ==
  /\ task[r] = "work"
  /\ talked[r] < MaxTalk
  /\ talked' = [talked EXCEPT ![r] = @ + 1]
  /\ bridge' = [bridge EXCEPT ![r] = @ + 1]
  /\ UNCHANGED <<record, engineVars, sent, log, stream>>

\* A task of its own forwards it to the run's channel, whenever it is polled:
\* after the node's report, or after the run has ended.
Forward(r) ==
  /\ bridge[r] > 0
  /\ bridge' = [bridge EXCEPT ![r] = @ - 1]
  /\ Emit(r, "Agent")
  /\ UNCHANGED <<record, engineVars, talked, log, stream>>

DrainLog(r) ==
  /\ HasNext(log[r])
  /\ log' = [log EXCEPT ![r] = Received(@)]
  /\ UNCHANGED <<record, engineVars, bridge, talked, sent, stream>>

\* A stream that knows only the good end.
ClosesOnSuccess(rd, was) ==
  Len(rd.got) > Len(was.got) /\ sent[rd.run][Last(rd.got)] = "PipelineCompleted"

\* The stream of a client ends with the event that closes the pipeline.
Closes(rd, was) ==
  Len(rd.got) > Len(was.got) /\ sent[rd.run][Last(rd.got)] \in Closing

Receive(c) ==
  LET rd == Received(stream[c]) IN
  /\ HasNext(stream[c])
  /\ stream' = [stream EXCEPT ![c] = [rd EXCEPT !.open = ~Closes(rd, stream[c])]]
  /\ UNCHANGED <<record, engineVars, bridge, talked, sent, log>>

(***************************************************************************)
(* Specification                                                           *)
(***************************************************************************)

Requests ==
  \/ \E r \in Run : Submit(r) \/ Cancel(r)
  \/ \E r, s \in Run : Resume(r, s)
  \/ \E c \in Client, r \in Run : Subscribe(c, r)

\* What the task of a run does as soon as it is polled.
Runs(r) ==
  \/ Spawn(r) \/ Start(r) \/ Stop(r) \/ Pass(r) \/ StartNode(r)
  \/ BeginSave(r) \/ EndSave(r) \/ SaveFails(r) \/ Route(r) \/ Store(r)

Next ==
  \/ Requests
  \/ \E r \in Run : Runs(r) \/ NodeReturns(r) \/ Talk(r) \/ Forward(r) \/ DrainLog(r)
  \/ \E c \in Client : Receive(c)

Spec == Init /\ [][Next]_vars

\* The runtime polls ready tasks; a client that keeps its connection is sent
\* what its stream yields. No fairness for handlers: a run may never end.
Fairness ==
  /\ \A r \in Run : WF_vars(Runs(r)) /\ WF_vars(Forward(r)) /\ WF_vars(DrainLog(r))
  /\ \A c \in Client : WF_vars(Receive(c))

FairSpec == Spec /\ Fairness

(***************************************************************************)
(* Properties                                                              *)
(***************************************************************************)

Reader ==
  [run : Run \cup {NoRun}, next : Nat \ {0}, from : Nat \ {0},
   got : Seq(Nat \ {0}), open : BOOLEAN]

\* Type invariant.
WebTypeOK ==
  /\ record \in [Run -> Ended \cup {"none", "Running"}]
  /\ token \in [Run -> BOOLEAN]
  /\ task \in [Run -> {"none", "inserted", "spawned", "top", "start", "work",
                       "save", "saving", "route", "returned", "stored"}]
  /\ result \in [Run -> {"none", "Ok", "Cancelled", "Error"}]
  /\ nodes \in [Run -> Nat]
  /\ budget \in [Run -> 0 .. MaxNodes]
  /\ file \in [Run -> [state : {"absent", "torn", "saved"}, holds : Nat]]
  /\ parent \in [Run -> [run : Run \cup {NoRun}, given : Nat]]
  /\ bridge \in [Run -> Nat]
  /\ talked \in [Run -> 0 .. MaxTalk]
  /\ sent \in [Run -> Seq(Closing \cup {"PipelineStarted", "NodeStarted",
                              "NodeReport", "CheckpointCreated", "Agent"})]
  /\ log \in [Run -> Reader]
  /\ stream \in [Client -> Reader]

Announced(r, ev) == \E i \in DOMAIN sent[r] : sent[r][i] = ev

\* What GET /api/runs/{id} answers agrees with what the event stream told:
\* completed if and only if the stream announced completion, aborted only for a
\* run that was cancelled and announced as aborted, however the cancellation
\* and the end of the run were interleaved.
StatusMatchesStream ==
  \A r \in Run : record[r] \in Ended =>
    /\ record[r] = "Completed" <=> Announced(r, "PipelineCompleted")
    /\ record[r] = "Aborted" => token[r] /\ Announced(r, "PipelineAborted")

\* A run seen as ended never runs again and keeps its status: cancellations and
\* resumes that come late leave it alone.
EndedIsFinal ==
  [][\A r \in Run : record[r] \in Ended => record'[r] = record[r]]_vars

\* A resumed run starts from the final checkpoint of its parent: the file it
\* was given is never written again.
ResumedFromFinal ==
  \A s \in Run : LET p == parent[s] IN
    p.run # NoRun => file[p.run] = Holding(p.given)

\* Places a reader has passed without receiving them.
Skipped(rd) == (rd.from .. rd.next - 1) \ {rd.got[i] : i \in DOMAIN rd.got}

\* A reader receives events in the order they were sent, none twice, and loses
\* only those that Capacity later events had overwritten.
LosesOnlyOverwritten ==
  \A rd \in {log[r] : r \in Run} \cup {stream[c] : c \in Client} :
    rd.run # NoRun =>
      /\ \A i, j \in DOMAIN rd.got : i < j => rd.got[i] < rd.got[j]
      /\ \A p \in Skipped(rd) : p + Capacity <= Len(sent[rd.run])

\* A client that is still to receive the event that closes the pipeline sees
\* its stream end, unless it lags so far that this event is overwritten.
StreamEnds ==
  \A c \in Client :
    LET rd      == stream[c]
        ends(S) == \E p \in S : sent[rd.run][p] \in Closing
    IN  (rd.open /\ ends(rd.next .. Len(sent[rd.run])))
          ~> (~stream[c].open \/ ends(Skipped(stream[c])))

\* Once a run has ended, its event log catches up with everything that was sent
\* and not overwritten, the agents' late events included.
LogCatchesUp ==
  \A r \in Watched : (task[r] = "stored") ~> (log[r].next > Len(sent[r]))
=============================================================================
