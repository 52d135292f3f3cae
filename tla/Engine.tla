------------------------------- MODULE Engine -------------------------------
(***************************************************************************)
(* The execution loop of one pipeline run (engine.rs): check the           *)
(* cancellation token and the step budget, start the node, run its handler *)
(* with retries, record the outcome, save a checkpoint, and route along an *)
(* edge, a goal gate or a retry target, until the run completes or fails.  *)
(* Around it act the stall watchdog, a task of its own, and whoever holds  *)
(* the cancellation token.  Time is the number of Ticks since the last     *)
(* progress; handlers are external and may return any of the outcomes the  *)
(* graph lists for their node.                                             *)
(***************************************************************************)
EXTENDS PipelineGraph

CONSTANTS Graphs,        \* the pipelines that may be submitted
          InitCtx,       \* the variables the caller seeds the context with
          MaxSteps,      \* EngineConfig::max_steps
          MaxIdentical,  \* EngineConfig::max_identical_failures, 0 for None
          Checkpointing, \* enable_checkpointing with a checkpoint_dir, at submission
          StallTimeout,  \* EngineConfig::stall_timeout in Ticks, 0 for None
          Cancellable    \* the caller holds a cancellation token

ASSUME EngineAssumption ==
  /\ \A g \in Graphs : IsGraph(g)
  /\ InitCtx \in Context
  /\ MaxSteps \in Nat
  /\ MaxIdentical \in Nat
  /\ StallTimeout \in Nat
  /\ Checkpointing \in BOOLEAN
  /\ Cancellable \in BOOLEAN

VARIABLES graph,     \* the pipeline being run
          autosave,  \* this call of run saves checkpoints
          pc,        \* where the loop is
          cur,       \* current_node_id
          steps,     \* steps taken by this call of run
          visited,   \* visited_nodes: each node once, in order of first visit
          outcomes,  \* node_outcomes: node -> its latest outcome
          sigs,      \* failure_signatures: <<node, error>> -> count
          ctx,       \* the shared context
          out,       \* the outcome of the handler that just returned
          attempts,  \* RetryState::attempts of the current node
          restarts,  \* LoopCounter: <<from, to>> -> traversals
          cancelled, \* the cancellation token
          stall,     \* stall_detected
          idle,      \* Ticks since last_progress
          late,      \* nodes started since the token was cancelled (history)
          disk,      \* checkpoint.json
          events,    \* the events emitted by this call of run
          result     \* what run returned, "none" while it runs

config   == <<graph, autosave>>
loopVars == <<cur, steps, visited, outcomes, sigs, out, attempts, restarts>>
envVars  == <<cancelled, stall, idle, late>>
vars     == <<config, pc, loopVars, ctx, envVars, disk, events, result>>

NoFile == [file |-> "absent"]
Torn   == [file |-> "torn"]   \* truncated or partly written: not JSON

Count(f, x) == IF x \in DOMAIN f THEN f[x] ELSE 0
Bump(f, x)  == [y \in DOMAIN f \cup {x} |-> IF y = x THEN Count(f, x) + 1 ELSE f[y]]

\* Phases of the loop, in which the watchdog runs and the token matters.
Looping == {"top", "start", "exec", "record", "save", "saving", "route"}

\* Mutant: the snapshot misses the node that was just recorded.
CheckpointBefore ==
  [file |-> "saved", current |-> cur, visited |-> visited, ctx |-> ctx,
   outcomes |-> Restrict(outcomes, DOMAIN outcomes \ {cur})]

Checkpoint == [file |-> "saved", current |-> cur, visited |-> visited,
               outcomes |-> outcomes, ctx |-> ctx]

(* ------------------------------- events -------------------------------- *)

EventKind == {"PipelineStarted", "NodeStarted", "NodeCompleted", "NodeFailed",
              "CheckpointCreated", "EdgeTraversed", "LoopRestarted",
              "PipelineCompleted", "PipelineAborted"}

Event == [ev : EventKind, node : NodeId \cup {NoNode}]
           \cup [ev : EventKind, node : NodeId \cup {NoNode}, out : Outcome]
           \cup [ev : EventKind, node : NodeId \cup {NoNode}, to : NodeId, label : Text]

Ev(kind, n)           == [ev |-> kind, node |-> n]
EvOutcome(kind, n, o) == [ev |-> kind, node |-> n, out |-> o]
EvEdge(kind, e)       == [ev |-> kind, node |-> e.from, to |-> e.to, label |-> e.label]

Emit(es) == events' = events \o es

\* run returns an error; `es' says whether an abort event was emitted for it.
Return(res, es) ==
  /\ pc' = "done"
  /\ result' = res
  /\ Emit(es)

Aborted == <<Ev("PipelineAborted", cur)>>

(* ---------------------------- initial state ---------------------------- *)

Init ==
  /\ graph \in Graphs
  /\ autosave = Checkpointing
  /\ pc = "init"
  /\ cur = NoNode
  /\ steps = 0
  /\ visited = <<>>
  /\ outcomes = Empty
  /\ sigs = Empty
  /\ ctx = InitCtx
  /\ out = Succeed
  /\ attempts = 0
  /\ restarts = Empty
  /\ cancelled = FALSE
  /\ stall = FALSE
  /\ idle = 0
  /\ late = 0
  /\ disk = NoFile
  /\ events = <<>>
  /\ result = "none"

(* ------------------------------ Engine::run ----------------------------- *)

\* A graph without exactly one start node is refused before any event.
RejectGraph ==
  /\ pc = "init"
  /\ Cardinality(StartNodes(graph)) # 1
  /\ Return(IF StartNodes(graph) = {} THEN "NoStartNode" ELSE "MultipleStartNodes", <<>>)
  /\ UNCHANGED <<config, loopVars, ctx, envVars, disk>>

Launch ==
  /\ pc = "init"
  /\ Cardinality(StartNodes(graph)) = 1
  /\ cur' \in StartNodes(graph)
  /\ pc' = "top"
  /\ Emit(<<Ev("PipelineStarted", NoNode)>>)
  /\ idle' = 0
  /\ UNCHANGED <<config, steps, visited, outcomes, sigs, out, attempts, restarts,
                 ctx, cancelled, stall, late, disk, result>>

(* --------------------------- top of the loop --------------------------- *)

AbortCancelled ==
  /\ pc = "top"
  /\ cancelled
  /\ Return(IF stall THEN "Stalled" ELSE "Cancelled", Aborted)
  /\ UNCHANGED <<config, loopVars, ctx, envVars, disk>>

AbortMaxSteps ==
  /\ pc = "top"
  /\ ~cancelled
  /\ steps >= MaxSteps
  /\ Return("MaxStepsExceeded", Aborted)
  /\ UNCHANGED <<config, loopVars, ctx, envVars, disk>>

\* The current node is looked up; only then can it start.
LookUp ==
  /\ IF cur \in graph.nodes
       THEN pc' = "start" /\ UNCHANGED <<result, events>>
       ELSE Return("NodeNotFound", <<>>)
  /\ UNCHANGED <<config, loopVars, ctx, envVars, disk>>

\* Mutants: one step more than the budget; the token is not looked at.
PassChecksLate     == pc = "top" /\ ~cancelled /\ steps <= MaxSteps /\ LookUp
PassChecksNoToken  == pc = "top" /\ steps < MaxSteps /\ LookUp

\* The token and the budget were fine.  Before the node starts the loop waits
\* for the progress lock, so a cancellation may still slip in between.
PassChecks ==
  /\ pc = "top"
  /\ ~cancelled
  /\ steps < MaxSteps
  /\ LookUp

StartNode ==
  /\ pc = "start"
  /\ pc' = "exec"
  /\ idle' = 0
  /\ attempts' = 0
  /\ late' = IF cancelled THEN late + 1 ELSE late
  /\ Emit(<<Ev("NodeStarted", cur)>>)
  /\ UNCHANGED <<config, cur, steps, visited, outcomes, sigs, out, restarts,
                 ctx, cancelled, stall, disk, result>>

(* ------------------------- handler and retries ------------------------- *)

\* Mutant: the attempts are not counted.
HandlerReturnsUncounted ==
  /\ pc = "exec"
  /\ \E b \in graph.behaviours[cur] :
       /\ ctx' = Overlay(ctx, b.writes)
       /\ out' = b.out
       /\ attempts' = attempts
       /\ pc' = IF ShouldRetry(graph, cur, attempts', b.out) THEN "exec" ELSE "record"
  /\ UNCHANGED <<config, cur, steps, visited, outcomes, sigs, restarts,
                 envVars, disk, events, result>>

\* One execution of the handler; a retryable outcome is tried again, after a
\* delay, while the policy allows.  Neither the token nor the watchdog's
\* progress mark is touched between the attempts.
HandlerReturns ==
  /\ pc = "exec"
  /\ \E b \in graph.behaviours[cur] :
       /\ ctx' = Overlay(ctx, b.writes)
       /\ out' = b.out
       /\ attempts' = attempts + 1
       /\ pc' = IF ShouldRetry(graph, cur, attempts', b.out) THEN "exec" ELSE "record"
  /\ UNCHANGED <<config, cur, steps, visited, outcomes, sigs, restarts,
                 envVars, disk, events, result>>

\* Mutant: any outcome but a failure clears the node's signatures.
NewSigsForgetful ==
  IF MaxIdentical = 0 THEN sigs
  ELSE IF IsFailure(out) THEN Bump(sigs, <<cur, out.error>>)
  ELSE [p \in {q \in DOMAIN sigs : q[1] # cur} |-> sigs[p]]

NewSigs ==
  IF MaxIdentical = 0 THEN sigs
  ELSE IF IsFailure(out) THEN Bump(sigs, <<cur, out.error>>)
  ELSE IF IsSuccess(out) THEN [p \in {q \in DOMAIN sigs : q[1] # cur} |-> sigs[p]]
  ELSE sigs

FailureCycle == /\ MaxIdentical # 0
                /\ IsFailure(out)
                /\ NewSigs[<<cur, out.error>>] >= MaxIdentical

\* Mutant: a skipped node is not reported.
ReportUnlessSkipped(n, o) ==
  IF o.kind = "Skip" THEN <<>>
  ELSE <<EvOutcome(IF IsFailure(o) THEN "NodeFailed" ELSE "NodeCompleted", n, o)>>

Report(n, o) ==
  <<EvOutcome(IF IsFailure(o) THEN "NodeFailed" ELSE "NodeCompleted", n, o)>>

MarkVisited(seq, n) == IF n \in Range(seq) THEN seq ELSE Append(seq, n)

\* The outcome is final: report it, count the step, record it, and abort when
\* the same node has failed with the same error too often.
RecordOutcome ==
  /\ pc = "record"
  /\ idle' = 0
  /\ steps' = steps + 1
  /\ outcomes' = [n \in DOMAIN outcomes \cup {cur} |-> IF n = cur THEN out ELSE outcomes[n]]
  /\ visited' = MarkVisited(visited, cur)
  /\ sigs' = NewSigs
  /\ IF FailureCycle
       THEN Return("DeterministicFailureCycle", Report(cur, out) \o Aborted)
       ELSE /\ pc' = IF autosave THEN "save" ELSE "route"
            /\ Emit(Report(cur, out))
            /\ UNCHANGED result
  /\ UNCHANGED <<config, cur, out, attempts, restarts, ctx, cancelled, stall, late, disk>>

(* ------------------------------ checkpoint ------------------------------ *)

\* std::fs::write first truncates the file ...
BeginSave ==
  /\ pc = "save"
  /\ pc' = "saving"
  /\ disk' = Torn
  /\ UNCHANGED <<config, loopVars, ctx, envVars, events, result>>

\* ... and then fills it.
EndSave ==
  /\ pc = "saving"
  /\ pc' = "route"
  /\ disk' = Checkpoint
  /\ Emit(<<Ev("CheckpointCreated", cur)>>)
  /\ UNCHANGED <<config, loopVars, ctx, envVars, result>>

\* Mutant: the event is emitted whether or not the file was written.
SaveFailsAnnounced ==
  /\ pc \in {"save", "saving"}
  /\ pc' = "route"
  /\ Emit(<<Ev("CheckpointCreated", cur)>>)
  /\ UNCHANGED <<config, loopVars, ctx, envVars, disk, result>>

\* A failed save is only logged: the file cannot be opened, or not be filled.
SaveFails ==
  /\ pc \in {"save", "saving"}
  /\ pc' = "route"
  /\ UNCHANGED <<config, loopVars, ctx, envVars, disk, events, result>>

(* ------------------------------- routing -------------------------------- *)

\* Continue at a retry target, which must be a node of the graph.
GoTo(target) ==
  /\ IF target \in graph.nodes
       THEN cur' = target /\ pc' = "top" /\ UNCHANGED <<result, events>>
       ELSE Return("NodeNotFound", <<>>) /\ UNCHANGED cur
  /\ UNCHANGED <<steps, visited, outcomes, sigs, out, attempts, restarts>>

AtExit == pc = "route" /\ graph.type[cur] = "Exit"

ExitReached ==
  /\ AtExit
  /\ GoalsMet(graph, outcomes)
  /\ pc' = "finish"
  /\ UNCHANGED <<config, loopVars, ctx, envVars, disk, events, result>>

\* An unsatisfied goal sends the run to that goal's retry target.
GoalRetry ==
  /\ AtExit
  /\ \E n \in FirstUnsatisfied(graph, outcomes) :
       \E target \in ResolveRetryTarget(graph, n) : GoTo(target)
  /\ UNCHANGED <<config, ctx, envVars, disk>>

GoalsFail ==
  /\ AtExit
  /\ \E n \in FirstUnsatisfied(graph, outcomes) : ResolveRetryTarget(graph, n) = {}
  /\ Return("GoalEnforcement", <<>>)
  /\ UNCHANGED <<config, loopVars, ctx, envVars, disk>>

AtEdges == pc = "route" /\ graph.type[cur] # "Exit"

\* Conditions see the outcome that was just recorded.
RoutingCtx == [ctx EXCEPT !["outcome"] = OutcomeLabel(out)]

Selected == SelectEdge(graph, cur, RoutingCtx, out)

NoEdge == AtEdges /\ ~ParseError(graph, cur) /\ Selected = {}

EdgeError ==
  /\ AtEdges
  /\ ParseError(graph, cur)
  /\ ctx' = RoutingCtx
  /\ Return("EdgeSelection", <<>>)
  /\ UNCHANGED <<config, loopVars, envVars, disk>>

TraverseEdge ==
  /\ AtEdges
  /\ ~ParseError(graph, cur)
  /\ \E e \in Selected :
       /\ cur' = e.to
       /\ ctx' = Carry(e.fid, ClearNode(graph, e, RoutingCtx))
       /\ restarts' = IF e.restart THEN Bump(restarts, <<e.from, e.to>>) ELSE restarts
       /\ Emit(IF e.restart THEN <<EvEdge("EdgeTraversed", e), EvEdge("LoopRestarted", e)>>
                            ELSE <<EvEdge("EdgeTraversed", e)>>)
  /\ pc' = "top"
  /\ UNCHANGED <<config, steps, visited, outcomes, sigs, out, attempts, envVars, disk, result>>

\* A failed node without an edge to follow falls back on its retry target.
FailureRoute ==
  /\ NoEdge
  /\ IsFailure(out)
  /\ ctx' = RoutingCtx
  /\ \E target \in ResolveRetryTarget(graph, cur) : GoTo(target)
  /\ UNCHANGED <<config, envVars, disk>>

Unroutable ==
  /\ NoEdge
  /\ IsFailure(out)
  /\ ResolveRetryTarget(graph, cur) = {}
  /\ ctx' = RoutingCtx
  /\ Return("UnroutableFailure", Aborted)
  /\ UNCHANGED <<config, loopVars, envVars, disk>>

\* Mutant: any node without an edge ends the run.
EndAnyOutcome ==
  /\ NoEdge
  /\ ctx' = RoutingCtx
  /\ pc' = "finish"
  /\ UNCHANGED <<config, loopVars, envVars, disk, events, result>>

EndNoEdge ==
  /\ NoEdge
  /\ ~IsFailure(out)
  /\ ctx' = RoutingCtx
  /\ pc' = "finish"
  /\ UNCHANGED <<config, loopVars, envVars, disk, events, result>>

\* After the loop the goals are enforced once more, for runs that ended
\* without an exit node; the completion event reports the last node of the
\* visit order.
LastVisited == visited[Len(visited)]

Completion == <<EvOutcome("PipelineCompleted", LastVisited, outcomes[LastVisited])>>

\* Mutants: the goals are not enforced after the loop; or after the event.
FinishUnchecked ==
  /\ pc = "finish"
  /\ Return("Completed", Completion)
  /\ UNCHANGED <<config, loopVars, ctx, envVars, disk>>

FinishAnnouncedFirst ==
  /\ pc = "finish"
  /\ Return(IF GoalsMet(graph, outcomes) THEN "Completed" ELSE "GoalEnforcement", Completion)
  /\ UNCHANGED <<config, loopVars, ctx, envVars, disk>>

Finish ==
  /\ pc = "finish"
  /\ IF GoalsMet(graph, outcomes)
       THEN Return("Completed", Completion)
       ELSE Return("GoalEnforcement", <<>>)
  /\ UNCHANGED <<config, loopVars, ctx, envVars, disk>>

(* ------------------------------ environment ----------------------------- *)

Tick ==
  /\ StallTimeout # 0
  /\ pc \in Looping
  /\ idle <= StallTimeout
  /\ idle' = idle + 1
  /\ UNCHANGED <<config, pc, loopVars, ctx, cancelled, stall, late, disk, events, result>>

\* The watchdog finds no progress for longer than the timeout, raises its
\* flag, cancels the token and ends.  It is stopped when the loop ends.
WatchdogFires ==
  /\ StallTimeout # 0
  /\ pc \in Looping
  /\ idle > StallTimeout
  /\ ~stall
  /\ stall' = TRUE
  /\ cancelled' = TRUE
  /\ UNCHANGED <<config, pc, loopVars, ctx, idle, late, disk, events, result>>

UserCancels ==
  /\ Cancellable
  /\ pc # "done"
  /\ ~cancelled
  /\ cancelled' = TRUE
  /\ UNCHANGED <<config, pc, loopVars, ctx, stall, idle, late, disk, events, result>>

(* ----------------------------- specification ---------------------------- *)

Loop ==
  \/ RejectGraph \/ Launch
  \/ AbortCancelled \/ AbortMaxSteps \/ PassChecks \/ StartNode
  \/ RecordOutcome
  \/ BeginSave \/ EndSave \/ SaveFails
  \/ ExitReached \/ GoalRetry \/ GoalsFail
  \/ EdgeError \/ TraverseEdge \/ FailureRoute \/ Unroutable \/ EndNoEdge
  \/ Finish

Watchdog == Tick \/ WatchdogFires

Next == Loop \/ HandlerReturns \/ Watchdog \/ UserCancels

Spec == Init /\ [][Next]_vars

\* The runtime polls a ready task again, time passes, and a due timer fires.
FairEngine == WF_vars(Loop) /\ WF_vars(Tick) /\ WF_vars(WatchdogFires)

FairLoopSpec == Spec /\ FairEngine

\* In addition every handler returns, as the ones with timeouts do.
FairSpec == FairLoopSpec /\ WF_vars(HandlerReturns)

(***************************************************************************)
(* Properties                                                              *)
(***************************************************************************)

Results == {"none", "Completed", "NoStartNode", "MultipleStartNodes",
            "NodeNotFound", "MaxStepsExceeded", "Cancelled", "Stalled",
            "DeterministicFailureCycle", "GoalEnforcement", "EdgeSelection",
            "UnroutableFailure"}

\* Type invariant: the state of the loop, and the events it emitted.
LoopTypeOK ==
  /\ graph \in Graphs
  /\ autosave \in BOOLEAN
  /\ pc \in Looping \cup {"init", "finish", "done"}
  /\ cur \in NodeId \cup {NoNode}
  /\ pc \notin {"init", "done", "top"} => cur \in graph.nodes
  /\ steps \in 0 .. MaxSteps
  /\ pc \in {"start", "exec", "record"} => steps < MaxSteps
  /\ visited \in Seq(graph.nodes)
  /\ DOMAIN outcomes \subseteq graph.nodes
  /\ outcomes \in [DOMAIN outcomes -> Outcome]
  /\ out \in Outcome
  /\ \A p \in DOMAIN sigs : sigs[p] \in Nat
  /\ ctx \in Context
  /\ attempts \in Nat
  /\ \A p \in DOMAIN restarts : restarts[p] \in Nat
  /\ cancelled \in BOOLEAN
  /\ stall \in BOOLEAN
  /\ idle \in 0 .. StallTimeout + 1
  /\ late \in Nat
  /\ disk.file \in {"absent", "torn", "saved"}
  /\ result \in Results

TypeOK == LoopTypeOK /\ events \in Seq(Event)

IsReport(e)      == e.ev \in {"NodeCompleted", "NodeFailed"}
ReportOf(e, n)   == IsReport(e) /\ e.node = n
Terminal         == {"PipelineCompleted", "PipelineAborted"}
Tally(Test(_))   == Cardinality({i \in DOMAIN events : Test(events[i])})

\* A run that announces completion has, for every goal node, a last report in
\* its event stream, and that report is a success: the goal gate cannot be
\* passed with an outcome that a later visit of the goal node overturned.
CompletedMeansGoals ==
  result = "Completed" =>
    \A n \in Range(graph.goals) :
      \E i \in DOMAIN events :
        /\ ReportOf(events[i], n)
        /\ IsSuccess(events[i].out)
        /\ \A j \in i + 1 .. Len(events) : ~ReportOf(events[j], n)

\* visited_nodes lists exactly the nodes with an outcome, each once, whatever
\* loops, retries and goal re-routes did.
VisitedMatchesOutcomes ==
  /\ Range(visited) = DOMAIN outcomes
  /\ IsInjective(visited)

\* The event stream is a well-formed account of the run: it opens with
\* PipelineStarted, every NodeStarted is answered by one report before the
\* next node starts, at most MaxSteps nodes start, and nothing follows a
\* terminal event.
EventProtocol ==
  LET Started(e)  == e.ev = "NodeStarted"
      starts      == Tally(Started)
      reports     == Tally(IsReport)
  IN  /\ events # <<>> => events[1].ev = "PipelineStarted"
      /\ \A i \in DOMAIN events : events[i].ev \in Terminal => i = Len(events)
      /\ reports = steps
      /\ starts = reports + (IF pc \in {"exec", "record"} THEN 1 ELSE 0)
      /\ starts <= MaxSteps
      /\ \A i, j \in DOMAIN events :
           (i < j /\ Started(events[i]) /\ Started(events[j])) =>
             \E k \in i + 1 .. j - 1 : ReportOf(events[k], events[i].node)

\* The failures of node n with this error since n last succeeded.
IdenticalFailures(n, error) ==
  Cardinality({i \in DOMAIN events :
    /\ events[i].ev = "NodeFailed"
    /\ events[i].node = n
    /\ events[i].out.error = error
    /\ \A j \in i + 1 .. Len(events) :
         ~(ReportOf(events[j], n) /\ IsSuccess(events[j].out))})

\* Counted on the event stream: no node fails MaxIdentical times with the same
\* error, without a success in between, unless the run ends there as a
\* deterministic failure cycle; and it ends so for no other reason.
FailureCycleCaught ==
  LET errors  == {events[i].out.error : i \in {j \in DOMAIN events : events[j].ev = "NodeFailed"}}
      atLimit == \E n \in graph.nodes, error \in errors :
                   IdenticalFailures(n, error) >= MaxIdentical
  IN  MaxIdentical # 0 => (atLimit <=> result = "DeterministicFailureCycle")

\* An outcome that asks for a retry is recorded only when the node's attempts
\* are used up, and no node is attempted more often than its policy allows.
RetriesExhausted ==
  /\ pc = "record" /\ IsRetryable(out) => attempts >= graph.maxAttempts[cur]
  /\ pc \in {"exec", "record"} => attempts <= 1 \/ attempts <= graph.maxAttempts[cur]

\* A run completes only at an exit node or at a node that did not fail: a
\* failure without a route is never mistaken for the end of the pipeline.
NoSilentFailure ==
  result = "Completed" =>
    \/ graph.type[cur] = "Exit"
    \/ ~IsFailure(outcomes[cur])

\* The token is checked before each node, but not together with its start: one
\* node at most starts after a cancellation.
OneLateStart == late <= 1

\* Subscribers learn the truth: completion is announced when and only when run
\* returns it, an abort for exactly these errors and for no other.
AnnouncedAsReturned ==
  LET last == events[Len(events)].ev
  IN  pc = "done" /\ events # <<>> =>
        /\ result = "Completed" <=> last = "PipelineCompleted"
        /\ last = "PipelineAborted" <=>
             result \in {"Cancelled", "Stalled", "MaxStepsExceeded",
                         "DeterministicFailureCycle", "UnroutableFailure"}

\* A saved checkpoint describes a moment of this run: its visit order is a
\* prefix of the run's, its current node was visited, and it holds an outcome
\* for exactly the visited nodes.
CheckpointConsistent ==
  disk.file = "saved" =>
    /\ disk.visited = SubSeq(visited, 1, Len(disk.visited))
    /\ disk.current \in Range(disk.visited)
    /\ DOMAIN disk.outcomes = Range(disk.visited)

\* Every run ends, however its nodes fail, loop and retry: the step budget cuts
\* off what routing would keep alive.
Terminates == <>(pc = "done")

\* Documented for stall_timeout: the watchdog cancels the execution when no node
\* starts or completes within that time. A run it found stalled ends.
StallCancels == [](stall => <>(pc = "done"))

\* The abstract view of a run.
GoodNodes == {n \in DOMAIN outcomes : IsSuccess(outcomes[n])}

RunStatus == CASE result = "none"      -> "Running"
               [] result = "Completed" -> "Completed"
               [] OTHER                -> "Failed"

Run == INSTANCE PipelineRun WITH
         Node   <- UNION {g.nodes : g \in Graphs},
         Budget <- MaxSteps,
         goals  <- Range(graph.goals),
         good   <- GoodNodes,
         spent  <- steps,
         status <- RunStatus

\* The engine implements the abstract run: at most MaxSteps executions, one end,
\* completion only with every goal's latest execution a success, and an end.
ImplementsRun == Run!Spec
=============================================================================
