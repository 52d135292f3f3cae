---------------------------- MODULE EngineProofs ----------------------------
EXTENDS Lint, Induction

\* Picking the best edge of a pool is deterministic: priority, name of the target
\* and position leave one.
LEMMA PickBestUnique ==
  ASSUME NEW g, NEW pool,
         \A e \in pool : e.priority \in Int /\ e.pos \in Int /\ g.lex[e.to] \in Int,
         NEW e \in PickBest(g, pool), NEW f \in PickBest(g, pool)
  PROVE  e = f
<1>1. CASE e # f
  <2>1. Precedes(g, e, f) /\ Precedes(g, f, e)
    BY <1>1 DEF PickBest
  <2>2. e \in pool /\ f \in pool
    BY DEF PickBest
  <2> QED BY <2>1, <2>2 DEF Precedes
<1> QED BY <1>1

\* The graph in use is one of the submitted, hence well formed.
LEMMA GraphInUse == LoopTypeOK => IsGraph(graph)
BY EngineAssumption DEF LoopTypeOK

\* The three ways to write an event give events.
LEMMA EventsTyped ==
  /\ \A n \in NodeId \cup {NoNode}, kind \in EventKind : Ev(kind, n) \in Event
  /\ \A n \in NodeId, kind \in EventKind, o \in Outcome : EvOutcome(kind, n, o) \in Event
  /\ \A kind \in EventKind : \A e :
       e.from \in NodeId /\ e.to \in NodeId /\ e.label \in Text => EvEdge(kind, e) \in Event
BY DEF Ev, EvOutcome, EvEdge, Event

\* Every event says what kind it is.
LEMMA KindsWritten ==
  /\ \A kind, n : Ev(kind, n).ev = kind
  /\ \A kind, n, o : EvOutcome(kind, n, o).ev = kind
  /\ \A kind, e : EvEdge(kind, e).ev = kind
BY DEF Ev, EvOutcome, EvEdge

\* Emitting events keeps the stream well typed.
LEMMA EmitTyped ==
  ASSUME events \in Seq(Event), NEW es \in Seq(Event), Emit(es)
  PROVE  events' \in Seq(Event)
BY DEF Emit

\* Everything the engine does to the context yields a context.
LEMMA ContextTyped ==
  ASSUME NEW c \in Context
  PROVE  /\ \A w : (DOMAIN w \subseteq Key /\ \A k \in DOMAIN w : w[k] \in Val)
                     => Overlay(c, w) \in Context
         /\ \A d \in Context : Restore(c, d) \in Context
         /\ \A ks : Forget(c, ks) \in Context
         /\ \A fid \in FidelityMode : Carry(fid, c) \in Context
         /\ \A o \in Outcome : [c EXCEPT !["outcome"] = OutcomeLabel(o)] \in Context
<1>1. \A w : (DOMAIN w \subseteq Key /\ \A k \in DOMAIN w : w[k] \in Val)
                     => Overlay(c, w) \in Context
  BY DEF Overlay, Context
<1>2. \A d \in Context : Restore(c, d) \in Context
  BY DEF Restore, Context
<1>3. \A ks : Forget(c, ks) \in Context
  BY DEF Forget, Context
<1>4. \A fid \in FidelityMode : Carry(fid, c) \in Context
  BY <1>3, ContextAssumption DEF Carry, Context, FidelityMode
<1>5. \A o \in Outcome : [c EXCEPT !["outcome"] = OutcomeLabel(o)] \in Context
  BY ContextAssumption DEF Context, OutcomeLabel, Outcome, OutcomeKind, IsSuccess, IsFailure
<1> QED BY <1>1, <1>2, <1>3, <1>4, <1>5

\* Counting one more leaves counters natural numbers.
LEMMA BumpTyped ==
  ASSUME NEW f, \A x \in DOMAIN f : f[x] \in Nat, NEW y
  PROVE  \A x \in DOMAIN Bump(f, y) : Bump(f, y)[x] \in Nat
BY DEF Bump, Count

\* Marking a visit keeps the visit order well typed.
LEMMA MarkVisitedTyped ==
  ASSUME NEW S, NEW s \in Seq(S), NEW n \in S
  PROVE  MarkVisited(s, n) \in Seq(S)
BY DEF MarkVisited

\* The selected edge is one of the node's own.
LEMMA SelectedLeaves ==
  ASSUME NEW g, NEW n, NEW c, NEW o, NEW e \in SelectEdge(g, n, c, o)
  PROVE  e \in EdgesFrom(g, n)
<1>0. DOMAIN Pools(g, n, c, o) = 1 .. 5
  BY DEF Pools
<1>1. PICK i \in 1 .. 5 : e \in PickBest(g, Pools(g, n, c, o)[i])
  BY <1>0 DEF SelectEdge
<1>2. \A j \in 1 .. 5 : Pools(g, n, c, o)[j] \subseteq EdgesFrom(g, n)
  BY DEF Pools, Plain
<1> QED BY <1>1, <1>2 DEF PickBest

(* ------------------------- the inductive invariant ---------------------- *)

\* In the phases after the handler, the outcome of the current node is recorded.
CurrentRecorded ==
  pc \in {"save", "saving", "route", "finish"} =>
    cur \in DOMAIN outcomes /\ outcomes[cur] = out

\* n's last report among the events es carries the outcome o.
LastReport(es, n, o) ==
  \E i \in DOMAIN es :
    /\ ReportOf(es[i], n)
    /\ es[i].out = o
    /\ \A j \in i + 1 .. Len(es) : ~ReportOf(es[j], n)

\* Every recorded outcome is the one the node's last report carries.
OutcomesReported == \A n \in DOMAIN outcomes : LastReport(events, n, outcomes[n])

\* What is true at the end of a run that completed, and on the way there.
EndsRight ==
  /\ pc = "finish" => graph.type[cur] = "Exit" \/ ~IsFailure(out)
  /\ result # "none" => pc = "done"
  /\ result = "Completed" => GoalsMet(graph, outcomes)
  /\ NoSilentFailure

\* A late start needs a cancellation that slipped in between the check and the
\* start: with the token cancelled, "start" is entered by no step.
LateStarts ==
  /\ late \in {0, 1}
  /\ late = 1 => cancelled /\ pc # "start"

IInv ==
  /\ TypeOK
  /\ VisitedMatchesOutcomes
  /\ CurrentRecorded
  /\ OutcomesReported
  /\ EndsRight
  /\ LateStarts

\* Marking a visit adds the node and keeps the visit order free of repetitions.
LEMMA MarkVisitedRange ==
  ASSUME NEW S, NEW s \in Seq(S), NEW n \in S, IsInjective(s)
  PROVE  /\ Range(MarkVisited(s, n)) = Range(s) \cup {n}
         /\ IsInjective(MarkVisited(s, n))
<1>1. CASE n \in Range(s)
  BY <1>1 DEF MarkVisited
<1>2. CASE n \notin Range(s)
  <2>1. MarkVisited(s, n) = Append(s, n)
    BY <1>2 DEF MarkVisited
  <2>2. /\ DOMAIN Append(s, n) = 1 .. Len(s) + 1
        /\ DOMAIN s = 1 .. Len(s)
        /\ Len(s) \in Nat
        /\ \A i \in DOMAIN s : Append(s, n)[i] = s[i]
        /\ Append(s, n)[Len(s) + 1] = n
    OBVIOUS
  <2>3. Range(Append(s, n)) = Range(s) \cup {n}
    <3>1. DOMAIN Append(s, n) = DOMAIN s \cup {Len(s) + 1}
      BY <2>2
    <3> QED BY <2>2, <3>1 DEF Range
  <2>4. ASSUME NEW i \in DOMAIN Append(s, n), NEW j \in DOMAIN Append(s, n),
               Append(s, n)[i] = Append(s, n)[j]
        PROVE  i = j
    <3>1. \A k \in DOMAIN s : s[k] # n
      BY <1>2 DEF Range
    <3>2. CASE i \in DOMAIN s /\ j \in DOMAIN s
      BY <2>2, <2>4, <3>2 DEF IsInjective
    <3> QED BY <2>2, <2>4, <3>1, <3>2
  <2> QED BY <2>1, <2>3, <2>4 DEF IsInjective
<1> QED BY <1>1, <1>2

\* The type invariant holds initially.
LEMMA InitTyped == Init => TypeOK
<1> SUFFICES ASSUME Init PROVE TypeOK
  OBVIOUS
<1>1. Succeed \in Outcome
  <2>1. {} \in SUBSET NodeId
    OBVIOUS
  <2> QED BY <2>1, NameAssumption DEF Succeed, Outcome, OutcomeKind
<1>2. visited \in Seq(graph.nodes) /\ events \in Seq(Event)
  BY DEF Init
<1>3. Empty \in [{} -> Outcome] /\ DOMAIN Empty = {}
  BY DEF Empty
<1>4. disk.file = "absent"
  BY DEF Init, NoFile
<1>5. outcomes \in [DOMAIN outcomes -> Outcome] /\ DOMAIN outcomes \subseteq graph.nodes
  BY <1>3 DEF Init
<1>6. /\ \A p \in DOMAIN sigs : sigs[p] \in Nat
      /\ \A p \in DOMAIN restarts : restarts[p] \in Nat
  BY <1>3 DEF Init
<1>7. /\ graph \in Graphs /\ autosave \in BOOLEAN /\ ctx \in Context /\ out \in Outcome
      /\ steps = 0 /\ attempts = 0 /\ idle = 0 /\ late = 0
      /\ pc = "init" /\ cur = NoNode /\ result = "none"
      /\ cancelled = FALSE /\ stall = FALSE
  BY <1>1, EngineAssumption DEF Init
<1>8. steps \in 0 .. MaxSteps /\ idle \in 0 .. StallTimeout + 1
  BY <1>7, EngineAssumption
<1>9. result \in Results /\ pc \in Looping \cup {"init", "finish", "done"}
  BY <1>7 DEF Results
<1>10. disk.file \in {"absent", "torn", "saved"} /\ late \in Nat /\ attempts \in Nat
  BY <1>4, <1>7
<1> QED
  BY <1>2, <1>5, <1>6, <1>7, <1>8, <1>9, <1>10 DEF TypeOK, LoopTypeOK

\* Every step keeps the state of the loop well typed.
LEMMA LoopStepTyped == LoopTypeOK /\ [Next]_vars => LoopTypeOK'
<1> SUFFICES ASSUME LoopTypeOK, [Next]_vars PROVE LoopTypeOK'
  OBVIOUS
<1> USE EngineAssumption
<1>g. IsGraph(graph)
  BY GraphInUse
<1>1. CASE RejectGraph
  BY <1>1 DEF LoopTypeOK, RejectGraph, Return, config, loopVars, envVars, Results, Looping
<1>2. CASE Launch
  <2>1. cur' \in NodeId
    BY <1>2, <1>g DEF Launch, StartNodes, IsGraph
  <2> QED BY <1>2, <2>1 DEF LoopTypeOK, Launch, config, Looping
<1>3. CASE AbortCancelled
  BY <1>3 DEF LoopTypeOK, AbortCancelled, Return, config, loopVars, envVars, Results, Looping
<1>4. CASE AbortMaxSteps
  BY <1>4 DEF LoopTypeOK, AbortMaxSteps, Return, config, loopVars, envVars, Results, Looping
<1>5. CASE PassChecks
  BY <1>5 DEF LoopTypeOK, PassChecks, LookUp, Return, config, loopVars, envVars, Results, Looping
<1>6. CASE StartNode
  BY <1>6 DEF LoopTypeOK, StartNode, config, loopVars, envVars, Results, Looping
<1>7. CASE HandlerReturns
  <2>1. PICK b \in graph.behaviours[cur] : out' = b.out /\ ctx' = Overlay(ctx, b.writes)
    BY <1>7 DEF HandlerReturns
  <2>2. cur \in graph.nodes /\ ctx \in Context
    BY <1>7 DEF LoopTypeOK, HandlerReturns
  <2>3. out' \in Outcome /\ ctx' \in Context
    BY <1>g, <2>1, <2>2, ContextTyped DEF IsGraph
  <2> QED BY <1>7, <2>3 DEF LoopTypeOK, HandlerReturns, config, envVars, Looping
<1>8. CASE RecordOutcome
  <2> USE <1>8 DEF RecordOutcome, LoopTypeOK
  <2>1. cur \in graph.nodes /\ steps \in Nat
    BY DEF Looping
  <2>2. visited' \in Seq(graph.nodes)
    BY <2>1, MarkVisitedTyped
  <2>3. DOMAIN outcomes' \subseteq graph.nodes /\ outcomes' \in [DOMAIN outcomes' -> Outcome]
    BY <2>1
  <2>4. \A p \in DOMAIN sigs' : sigs'[p] \in Nat
    BY BumpTyped DEF NewSigs
  <2>5. steps' \in 0 .. MaxSteps
    BY <2>1
  <2>6. pc' \in {"save", "route", "done"} /\ result' \in Results
    BY DEF Return, Results
  <2> QED BY <2>1, <2>2, <2>3, <2>4, <2>5, <2>6 DEF config, Looping
<1>9. CASE BeginSave
  BY <1>9 DEF LoopTypeOK, BeginSave, config, loopVars, envVars, Looping, Torn
<1>10. CASE EndSave
  BY <1>10 DEF LoopTypeOK, EndSave, Checkpoint, config, loopVars, envVars, Looping
<1>11. CASE SaveFails
  BY <1>11 DEF LoopTypeOK, SaveFails, config, loopVars, envVars, Looping
<1>12. CASE ExitReached
  BY <1>12 DEF LoopTypeOK, ExitReached, AtExit, config, loopVars, envVars, Looping
<1>13. CASE GoalRetry
  BY <1>13, <1>g DEF LoopTypeOK, GoalRetry, AtExit, GoTo, Return, config, loopVars, envVars, Looping, Results, IsGraph
<1>14. CASE GoalsFail
  BY <1>14 DEF LoopTypeOK, GoalsFail, AtExit, Return, config, loopVars, envVars, Looping, Results
<1>15. CASE EdgeError
  BY <1>15, ContextTyped DEF LoopTypeOK, EdgeError, AtEdges, RoutingCtx, Return, config, loopVars, envVars, Looping, Results
<1>16. CASE TraverseEdge
  <2> USE <1>16 DEF TraverseEdge, AtEdges, LoopTypeOK
  <2>1. PICK e \in Selected :
          /\ cur' = e.to
          /\ ctx' = Carry(e.fid, ClearNode(graph, e, RoutingCtx))
          /\ restarts' = IF e.restart THEN Bump(restarts, <<e.from, e.to>>) ELSE restarts
    OBVIOUS
  <2>2. e \in graph.edges
    BY SelectedLeaves DEF Selected, EdgesFrom
  <2>3. cur' \in NodeId
    BY <2>1, <2>2, <1>g DEF IsGraph
  <2>4. ctx' \in Context
    <3>1. RoutingCtx \in Context
      BY ContextTyped DEF RoutingCtx
    <3>2. ClearNode(graph, e, RoutingCtx) \in Context
      BY <3>1, ContextTyped DEF ClearNode
    <3> QED BY <2>1, <2>2, <3>2, <1>g, ContextTyped DEF IsGraph
  <2>5. \A p \in DOMAIN restarts' : restarts'[p] \in Nat
    BY <2>1, BumpTyped
  <2> QED BY <2>3, <2>4, <2>5 DEF config, envVars, Looping
<1>17. CASE FailureRoute
  BY <1>17, <1>g, ContextTyped, ZenonT(60) DEF LoopTypeOK, FailureRoute, NoEdge, AtEdges, RoutingCtx, GoTo, Return, config, loopVars, envVars, Looping, Results, IsGraph
<1>18. CASE Unroutable
  BY <1>18, ContextTyped DEF LoopTypeOK, Unroutable, NoEdge, AtEdges, RoutingCtx, Return, config, loopVars, envVars, Looping, Results
<1>19. CASE EndNoEdge
  BY <1>19, ContextTyped DEF LoopTypeOK, EndNoEdge, NoEdge, AtEdges, RoutingCtx, config, loopVars, envVars, Looping
<1>20. CASE Finish
  BY <1>20 DEF LoopTypeOK, Finish, Return, config, loopVars, envVars, Results, Looping
<1>21. CASE Tick
  BY <1>21 DEF LoopTypeOK, Tick, config, loopVars, Looping
<1>22. CASE WatchdogFires
  BY <1>22 DEF LoopTypeOK, WatchdogFires, config, loopVars
<1>23. CASE UserCancels
  BY <1>23 DEF LoopTypeOK, UserCancels, config, loopVars
<1>24. CASE UNCHANGED vars
  BY <1>24 DEF LoopTypeOK, vars, config, loopVars, envVars
<1> QED
  BY <1>1, <1>2, <1>3, <1>4, <1>5, <1>6, <1>7, <1>8, <1>9, <1>10, <1>11, <1>12, <1>13,
     <1>14, <1>15, <1>16, <1>17, <1>18, <1>19, <1>20, <1>21, <1>22, <1>23, <1>24
     DEF Next, Loop, Watchdog

\* Only recording an outcome touches the visit order and the outcomes.
LEMMA OnlyRecordVisits ==
  [Next]_vars => RecordOutcome \/ UNCHANGED <<visited, outcomes>>
<1> SUFFICES ASSUME [Next]_vars, ~RecordOutcome PROVE UNCHANGED <<visited, outcomes>>
  OBVIOUS
<1>1. CASE HandlerReturns \/ Watchdog \/ UserCancels \/ UNCHANGED vars
  BY <1>1 DEF HandlerReturns, Watchdog, Tick, WatchdogFires, UserCancels, vars, loopVars
<1>2. CASE RejectGraph \/ Launch \/ AbortCancelled \/ AbortMaxSteps \/ PassChecks \/ StartNode
  BY <1>2 DEF RejectGraph, Launch, AbortCancelled, AbortMaxSteps, PassChecks, LookUp, StartNode, loopVars
<1>3. CASE BeginSave \/ EndSave \/ SaveFails \/ ExitReached \/ GoalRetry \/ GoalsFail
  BY <1>3 DEF BeginSave, EndSave, SaveFails, ExitReached, GoalRetry, GoTo, GoalsFail, loopVars
<1>4. CASE EdgeError \/ TraverseEdge \/ FailureRoute \/ Unroutable \/ EndNoEdge \/ Finish
  BY <1>4 DEF EdgeError, TraverseEdge, FailureRoute, GoTo, Unroutable, EndNoEdge, Finish, loopVars
<1> QED BY <1>1, <1>2, <1>3, <1>4 DEF Next, Loop

\* The visit order and the outcomes stay in step.
LEMMA VisitsStep ==
  LoopTypeOK /\ VisitedMatchesOutcomes /\ [Next]_vars => VisitedMatchesOutcomes'
<1> SUFFICES ASSUME LoopTypeOK, VisitedMatchesOutcomes, [Next]_vars
             PROVE  VisitedMatchesOutcomes'
  OBVIOUS
<1>1. CASE RecordOutcome
  <2>1. visited \in Seq(graph.nodes) /\ cur \in graph.nodes
    BY <1>1 DEF LoopTypeOK, RecordOutcome
  <2>2. visited' = MarkVisited(visited, cur) /\ DOMAIN outcomes' = DOMAIN outcomes \cup {cur}
    BY <1>1 DEF RecordOutcome
  <2> QED BY <2>1, <2>2, MarkVisitedRange DEF VisitedMatchesOutcomes
<1>2. CASE UNCHANGED <<visited, outcomes>>
  BY <1>2 DEF VisitedMatchesOutcomes
<1> QED BY <1>1, <1>2, OnlyRecordVisits

\* Between the report of a node and the next start its outcome stands recorded.
LEMMA RecordedStep ==
  LoopTypeOK /\ CurrentRecorded /\ [Next]_vars => CurrentRecorded'
<1> SUFFICES ASSUME LoopTypeOK, CurrentRecorded, [Next]_vars PROVE CurrentRecorded'
  OBVIOUS
<1>1. CASE RecordOutcome
  BY <1>1 DEF RecordOutcome, CurrentRecorded, Return
<1>2. CASE HandlerReturns \/ Watchdog \/ UserCancels \/ UNCHANGED vars
  BY <1>2 DEF HandlerReturns, Watchdog, Tick, WatchdogFires, UserCancels, vars, loopVars, CurrentRecorded
<1>3. CASE RejectGraph \/ Launch \/ AbortCancelled \/ AbortMaxSteps \/ PassChecks \/ StartNode
  BY <1>3 DEF RejectGraph, Launch, AbortCancelled, AbortMaxSteps, PassChecks, LookUp, StartNode,
              Return, loopVars, CurrentRecorded
<1>4. CASE BeginSave \/ EndSave \/ SaveFails \/ ExitReached \/ GoalRetry \/ GoalsFail
  BY <1>4 DEF BeginSave, EndSave, SaveFails, ExitReached, AtExit, GoalRetry, GoTo, GoalsFail,
              Return, loopVars, CurrentRecorded
<1>5. CASE EdgeError \/ TraverseEdge \/ FailureRoute \/ Unroutable \/ EndNoEdge \/ Finish
  BY <1>5 DEF EdgeError, TraverseEdge, FailureRoute, GoTo, Unroutable, EndNoEdge, NoEdge, AtEdges,
              Finish, Return, loopVars, CurrentRecorded
<1> QED BY <1>1, <1>2, <1>3, <1>4, <1>5 DEF Next, Loop

\* How a run ends right: at an exit or without a failure, and with its goals met.
LEMMA EndsStep ==
  LoopTypeOK /\ CurrentRecorded /\ EndsRight /\ [Next]_vars => EndsRight'
<1> SUFFICES ASSUME LoopTypeOK, CurrentRecorded, EndsRight, [Next]_vars PROVE EndsRight'
  OBVIOUS
<1> USE DEF EndsRight, NoSilentFailure
<1>1. CASE Finish
  BY <1>1 DEF Finish, Return, loopVars, config, CurrentRecorded
<1>2. CASE HandlerReturns \/ Watchdog \/ UserCancels \/ UNCHANGED vars
  BY <1>2 DEF HandlerReturns, Watchdog, Tick, WatchdogFires, UserCancels, vars, loopVars, config, Looping
<1>3. CASE RejectGraph \/ Launch \/ AbortCancelled \/ AbortMaxSteps \/ PassChecks \/ StartNode
  BY <1>3 DEF RejectGraph, Launch, AbortCancelled, AbortMaxSteps, PassChecks, LookUp, StartNode,
              Return, loopVars, config
<1>4. CASE RecordOutcome \/ BeginSave \/ EndSave \/ SaveFails
  BY <1>4 DEF RecordOutcome, BeginSave, EndSave, SaveFails, Return, loopVars, config
<1>5. CASE ExitReached \/ GoalRetry \/ GoalsFail
  BY <1>5 DEF ExitReached, AtExit, GoalRetry, GoTo, GoalsFail, Return, loopVars, config
<1>6. CASE EdgeError \/ TraverseEdge \/ FailureRoute \/ Unroutable \/ EndNoEdge
  BY <1>6 DEF EdgeError, TraverseEdge, FailureRoute, GoTo, Unroutable, EndNoEdge, NoEdge, AtEdges,
              Return, loopVars, config
<1> QED BY <1>1, <1>2, <1>3, <1>4, <1>5, <1>6 DEF Next, Loop

\* At most one node starts late.
LEMMA LateStep == LoopTypeOK /\ LateStarts /\ [Next]_vars => LateStarts'
<1> SUFFICES ASSUME LoopTypeOK, LateStarts, [Next]_vars PROVE LateStarts'
  OBVIOUS
<1> USE DEF LateStarts
<1>1. CASE StartNode
  BY <1>1 DEF StartNode
<1>2. CASE HandlerReturns \/ Watchdog \/ UserCancels \/ UNCHANGED vars
  BY <1>2 DEF HandlerReturns, Watchdog, Tick, WatchdogFires, UserCancels, vars, envVars
<1>3. CASE RejectGraph \/ Launch \/ AbortCancelled \/ AbortMaxSteps \/ PassChecks
  BY <1>3 DEF RejectGraph, Launch, AbortCancelled, AbortMaxSteps, PassChecks, LookUp, Return, envVars
<1>4. CASE RecordOutcome \/ BeginSave \/ EndSave \/ SaveFails \/ ExitReached \/ GoalRetry \/ GoalsFail
  BY <1>4 DEF RecordOutcome, BeginSave, EndSave, SaveFails, ExitReached, GoalRetry, GoTo, GoalsFail,
              Return, envVars
<1>5. CASE EdgeError \/ TraverseEdge \/ FailureRoute \/ Unroutable \/ EndNoEdge \/ Finish
  BY <1>5 DEF EdgeError, TraverseEdge, FailureRoute, GoTo, Unroutable, EndNoEdge, Finish, Return, envVars
<1> QED BY <1>1, <1>2, <1>3, <1>4, <1>5 DEF Next, Loop

(* ----------------------------- event stream ----------------------------- *)

\* One event that is no report, as a sequence.
LEMMA QuietOne ==
  ASSUME NEW kind \in EventKind \ {"NodeCompleted", "NodeFailed"}, NEW n \in NodeId \cup {NoNode}
  PROVE  /\ <<Ev(kind, n)>> \in Seq(Event)
         /\ \A i \in DOMAIN <<Ev(kind, n)>> : ~IsReport(<<Ev(kind, n)>>[i])
<1>1. Ev(kind, n) \in Event
  BY EventsTyped
<1>2. ~IsReport(Ev(kind, n))
  BY DEF Ev, IsReport
<1> HIDE DEF IsReport
<1> QED BY <1>1, <1>2

\* A step other than recording an outcome adds typed events, none of them a report.
LEMMA QuietStep ==
  ASSUME LoopTypeOK, events \in Seq(Event), VisitedMatchesOutcomes, CurrentRecorded,
         [Next]_vars, ~RecordOutcome
  PROVE  \E es \in Seq(Event) : events' = events \o es /\ \A i \in DOMAIN es : ~IsReport(es[i])
<1> DEFINE Quiet(es) == es \in Seq(Event) /\ \A i \in DOMAIN es : ~IsReport(es[i])
<1>g. IsGraph(graph)
  BY GraphInUse
<1>n. NoNode \in NodeId \cup {NoNode} /\ cur \in NodeId \cup {NoNode}
  BY DEF LoopTypeOK
<1>a. Quiet(Aborted)
  BY <1>n, QuietOne DEF Aborted, EventKind
<1>e. Quiet(<<>>)
  OBVIOUS
<1>1. CASE UNCHANGED events
  <2>1. events' = events \o <<>>
    BY <1>1
  <2> QED BY <2>1, <1>e
<1>2. ASSUME NEW es, Emit(es), Quiet(es)
      PROVE  \E fs \in Seq(Event) : events' = events \o fs /\ \A i \in DOMAIN fs : ~IsReport(fs[i])
  BY <1>2 DEF Emit
<1>3. CASE HandlerReturns \/ Watchdog \/ UserCancels \/ UNCHANGED vars
  BY <1>1, <1>3 DEF HandlerReturns, Watchdog, Tick, WatchdogFires, UserCancels, vars
<1>4. CASE RejectGraph
  BY <1>4, <1>e, <1>2 DEF RejectGraph, Return
<1>5. CASE Launch
  <2>1. Quiet(<<Ev("PipelineStarted", NoNode)>>)
    BY <1>n, QuietOne DEF EventKind
  <2> QED BY <1>5, <2>1, <1>2 DEF Launch
<1>6. CASE AbortCancelled \/ AbortMaxSteps
  BY <1>6, <1>a, <1>2 DEF AbortCancelled, AbortMaxSteps, Return
<1>7. CASE PassChecks
  BY <1>7, <1>1, <1>e, <1>2 DEF PassChecks, LookUp, Return
<1>8. CASE StartNode
  <2>1. Quiet(<<Ev("NodeStarted", cur)>>)
    BY <1>n, QuietOne DEF EventKind
  <2> QED BY <1>8, <2>1, <1>2 DEF StartNode
<1>9. CASE BeginSave \/ SaveFails \/ ExitReached \/ EndNoEdge
  BY <1>9, <1>1 DEF BeginSave, SaveFails, ExitReached, EndNoEdge
<1>10. CASE EndSave
  <2>1. Quiet(<<Ev("CheckpointCreated", cur)>>)
    BY <1>n, QuietOne DEF EventKind
  <2> QED BY <1>10, <2>1, <1>2 DEF EndSave
<1>11. CASE GoalRetry \/ FailureRoute
  BY <1>11, <1>1, <1>e, <1>2 DEF GoalRetry, FailureRoute, GoTo, Return
<1>12. CASE GoalsFail \/ EdgeError
  BY <1>12, <1>e, <1>2 DEF GoalsFail, EdgeError, Return
<1>13. CASE Unroutable
  BY <1>13, <1>a, <1>2 DEF Unroutable, Return
<1>14. CASE TraverseEdge
  <2>1. PICK e \in Selected :
          Emit(IF e.restart THEN <<EvEdge("EdgeTraversed", e), EvEdge("LoopRestarted", e)>>
                            ELSE <<EvEdge("EdgeTraversed", e)>>)
    BY <1>14 DEF TraverseEdge
  <2>2. e \in graph.edges
    BY SelectedLeaves DEF Selected, EdgesFrom
  <2>3. e.from \in NodeId /\ e.to \in NodeId /\ e.label \in Text
    BY <2>2, <1>g DEF IsGraph
  <2>4. EvEdge("EdgeTraversed", e) \in Event /\ EvEdge("LoopRestarted", e) \in Event
    BY <2>3, EventsTyped DEF EventKind
  <2>5. ~IsReport(EvEdge("EdgeTraversed", e)) /\ ~IsReport(EvEdge("LoopRestarted", e))
    BY DEF EvEdge, IsReport
  <2>6. Quiet(<<EvEdge("EdgeTraversed", e)>>)
    BY <2>4, <2>5
  <2>7. Quiet(<<EvEdge("EdgeTraversed", e), EvEdge("LoopRestarted", e)>>)
    BY <2>4, <2>5
  <2> QED BY <2>1, <2>6, <2>7, <1>2
<1>15. CASE Finish
  <2>1. LastVisited \in DOMAIN outcomes
    <3>1. cur \in Range(visited) /\ visited \in Seq(graph.nodes)
      BY <1>15 DEF Finish, CurrentRecorded, VisitedMatchesOutcomes, LoopTypeOK
    <3>2. Len(visited) \in DOMAIN visited
      BY <3>1 DEF Range
    <3> QED BY <3>2 DEF LastVisited, VisitedMatchesOutcomes, Range
  <2>2. LastVisited \in NodeId /\ outcomes[LastVisited] \in Outcome
    BY <2>1, <1>g DEF LoopTypeOK, IsGraph
  <2>3. EvOutcome("PipelineCompleted", LastVisited, outcomes[LastVisited]) \in Event
    BY <2>2, EventsTyped DEF EventKind
  <2>4. ~IsReport(EvOutcome("PipelineCompleted", LastVisited, outcomes[LastVisited]))
    BY DEF EvOutcome, IsReport
  <2>5. Quiet(Completion)
    BY <2>3, <2>4 DEF Completion
  <2> QED BY <1>15, <2>5, <1>e, <1>2 DEF Finish, Return
<1> QED
  BY <1>3, <1>4, <1>5, <1>6, <1>7, <1>8, <1>9, <1>10, <1>11, <1>12, <1>13, <1>14, <1>15
     DEF Next, Loop

\* Recording an outcome adds its report, and after it perhaps the abort.
LEMMA ReportingStep ==
  ASSUME LoopTypeOK, events \in Seq(Event), RecordOutcome
  PROVE  \E es \in Seq(Event) :
           /\ events' = events \o (Report(cur, out) \o es)
           /\ \A i \in DOMAIN es : ~IsReport(es[i])
           /\ Report(cur, out) \in Seq(Event)
<1>g. IsGraph(graph)
  BY GraphInUse
<1>1. cur \in graph.nodes /\ cur \in NodeId /\ out \in Outcome
  BY <1>g DEF LoopTypeOK, RecordOutcome, IsGraph
<1>2. Report(cur, out) \in Seq(Event)
  BY <1>1, EventsTyped DEF Report, EventKind
<1>3. Aborted \in Seq(Event) /\ \A i \in DOMAIN Aborted : ~IsReport(Aborted[i])
  BY <1>1, QuietOne DEF Aborted, EventKind
<1>4. CASE FailureCycle
  BY <1>2, <1>3, <1>4 DEF RecordOutcome, Return, Emit
<1>5. CASE ~FailureCycle
  <2>1. events' = events \o Report(cur, out)
    BY <1>5 DEF RecordOutcome, Emit
  <2>2. Report(cur, out) = Report(cur, out) \o <<>>
    BY <1>2
  <2>3. <<>> \in Seq(Event) /\ \A i \in DOMAIN <<>> : ~IsReport(<<>>[i])
    OBVIOUS
  <2> QED BY <1>2, <2>1, <2>2, <2>3
<1> QED BY <1>4, <1>5

\* A last report stays the last when what follows it are no reports.
LEMMA LastReportStays ==
  ASSUME NEW s \in Seq(Event), NEW es \in Seq(Event), \A i \in DOMAIN es : ~IsReport(es[i]),
         NEW n, NEW o, LastReport(s, n, o)
  PROVE  LastReport(s \o es, n, o)
<1>1. PICK i \in DOMAIN s : /\ ReportOf(s[i], n)
                            /\ s[i].out = o
                            /\ \A j \in i + 1 .. Len(s) : ~ReportOf(s[j], n)
  BY DEF LastReport
<1>2. i \in DOMAIN (s \o es) /\ (s \o es)[i] = s[i]
  OBVIOUS
<1>3. ASSUME NEW j \in i + 1 .. Len(s \o es) PROVE ~ReportOf((s \o es)[j], n)
  <2>1. CASE j <= Len(s)
    BY <1>1, <2>1
  <2>2. CASE j > Len(s)
    <3>1. j - Len(s) \in DOMAIN es /\ (s \o es)[j] = es[j - Len(s)]
      BY <2>2
    <3> QED BY <3>1 DEF ReportOf
  <2> QED BY <2>1, <2>2
<1> QED BY <1>1, <1>2, <1>3 DEF LastReport

\* The last reports and the recorded outcomes agree after every step.
LEMMA ReportedStep ==
  ASSUME TypeOK, VisitedMatchesOutcomes, CurrentRecorded, OutcomesReported, [Next]_vars
  PROVE  OutcomesReported'
<1> USE DEF TypeOK
<1>1. CASE ~RecordOutcome
  <2>1. outcomes' = outcomes
    BY <1>1, OnlyRecordVisits
  <2>2. PICK es \in Seq(Event) : events' = events \o es /\ \A i \in DOMAIN es : ~IsReport(es[i])
    BY <1>1, QuietStep
  <2> QED BY <2>1, <2>2, LastReportStays DEF OutcomesReported
<1>2. CASE RecordOutcome
  <2>1. PICK es \in Seq(Event) :
           /\ events' = events \o (Report(cur, out) \o es)
           /\ \A i \in DOMAIN es : ~IsReport(es[i])
           /\ Report(cur, out) \in Seq(Event)
    BY <1>2, ReportingStep
  <2> DEFINE mid == events \o Report(cur, out)
  <2>2. mid \in Seq(Event) /\ events' = mid \o es
    BY <2>1
  <2>3. Len(mid) = Len(events) + 1 /\ mid[Len(mid)] = Report(cur, out)[1]
    BY <2>1 DEF Report
  <2>4. \A i \in DOMAIN events : mid[i] = events[i]
    BY <2>1
  <2>5. LastReport(mid, cur, out)
    <3>1. ReportOf(mid[Len(mid)], cur) /\ mid[Len(mid)].out = out
      BY <2>3 DEF Report, EvOutcome, ReportOf, IsReport
    <3> QED BY <2>2, <2>3, <3>1 DEF LastReport
  <2>6. ASSUME NEW n \in DOMAIN outcomes, n # cur PROVE LastReport(mid, n, outcomes[n])
    <3>1. PICK i \in DOMAIN events : /\ ReportOf(events[i], n)
                                     /\ events[i].out = outcomes[n]
                                     /\ \A j \in i + 1 .. Len(events) : ~ReportOf(events[j], n)
      BY DEF OutcomesReported, LastReport
    <3>2. ~ReportOf(mid[Len(mid)], n)
      BY <2>3, <2>6 DEF Report, EvOutcome, ReportOf
    <3>3. \A j \in i + 1 .. Len(mid) : ~ReportOf(mid[j], n)
      BY <2>2, <2>3, <2>4, <3>1, <3>2
    <3>4. i \in DOMAIN mid /\ mid[i] = events[i]
      BY <2>2, <2>3, <2>4
    <3> HIDE DEF mid
    <3> QED BY <3>1, <3>3, <3>4 DEF LastReport
  <2>7. /\ DOMAIN outcomes' = DOMAIN outcomes \cup {cur}
        /\ \A n \in DOMAIN outcomes' : outcomes'[n] = IF n = cur THEN out ELSE outcomes[n]
    BY <1>2 DEF RecordOutcome
  <2>8. \A n \in DOMAIN outcomes' : LastReport(mid, n, outcomes'[n])
    BY <2>5, <2>6, <2>7
  <2> HIDE DEF mid
  <2> QED BY <2>1, <2>2, <2>8, LastReportStays DEF OutcomesReported
<1> QED BY <1>1, <1>2

\* Every event emitted is well formed.
LEMMA EventsStep ==
  ASSUME TypeOK, VisitedMatchesOutcomes, CurrentRecorded, [Next]_vars
  PROVE  events' \in Seq(Event)
<1>t. LoopTypeOK /\ events \in Seq(Event)
  BY DEF TypeOK
<1>1. CASE RecordOutcome
  <2>1. PICK es \in Seq(Event) : /\ events' = events \o (Report(cur, out) \o es)
                                 /\ Report(cur, out) \in Seq(Event)
    BY <1>t, <1>1, ReportingStep
  <2> QED BY <1>t, <2>1
<1>2. CASE ~RecordOutcome
  <2>1. PICK es \in Seq(Event) : events' = events \o es
    BY <1>t, <1>2, QuietStep
  <2> QED BY <1>t, <2>1
<1> QED BY <1>1, <1>2

(* ------------------------------- theorems ------------------------------- *)

\* The invariant holds initially ...
LEMMA IInvInit == Init => IInv
<1> SUFFICES ASSUME Init PROVE IInv
  OBVIOUS
<1>1. TypeOK
  BY InitTyped
<1>2. Range(visited) = {} /\ DOMAIN outcomes = {} /\ IsInjective(visited)
  BY DEF Init, Empty, Range, IsInjective
<1> QED BY <1>1, <1>2 DEF IInv, VisitedMatchesOutcomes, CurrentRecorded, OutcomesReported, EndsRight,
           NoSilentFailure, LateStarts, Init

\* ... and every step keeps it.
LEMMA IInvStep == IInv /\ [Next]_vars => IInv'
<1> SUFFICES ASSUME IInv, [Next]_vars PROVE IInv'
  OBVIOUS
<1> USE DEF IInv
<1>1. TypeOK'
  BY LoopStepTyped, EventsStep DEF TypeOK
<1>2. VisitedMatchesOutcomes' /\ CurrentRecorded'
  BY VisitsStep, RecordedStep DEF TypeOK
<1>3. OutcomesReported'
  BY ReportedStep
<1>4. EndsRight' /\ LateStarts'
  BY EndsStep, LateStep DEF TypeOK
<1> QED BY <1>1, <1>2, <1>3, <1>4

\* The inductive invariant is invariant.
LEMMA Inductive == Spec => []IInv
BY IInvInit, IInvStep, PTL DEF Spec

\* The state of the loop and every emitted event are well typed, for any graphs
\* and any configuration: in particular a step never indexes an outcome or a
\* visit order outside its domain when it announces completion.
THEOREM TypeCorrect == Spec => []TypeOK
<1>1. IInv => TypeOK
  BY DEF IInv
<1> QED BY <1>1, Inductive, PTL

\* visited_nodes and node_outcomes never diverge.
THEOREM VisitsMatch == Spec => []VisitedMatchesOutcomes
<1>1. IInv => VisitedMatchesOutcomes
  BY DEF IInv
<1> QED BY <1>1, Inductive, PTL

\* A completed run had every goal's last report a success.
THEOREM GoalsHold == Spec => []CompletedMeansGoals
<1>1. IInv => CompletedMeansGoals
  <2> SUFFICES ASSUME IInv, result = "Completed", NEW n \in Range(graph.goals)
               PROVE  \E i \in DOMAIN events :
                        /\ ReportOf(events[i], n)
                        /\ IsSuccess(events[i].out)
                        /\ \A j \in i + 1 .. Len(events) : ~ReportOf(events[j], n)
    BY DEF CompletedMeansGoals
  <2>1. n \in DOMAIN outcomes /\ IsSuccess(outcomes[n])
    BY DEF IInv, EndsRight, GoalsMet, Satisfied
  <2>2. LastReport(events, n, outcomes[n])
    BY <2>1 DEF IInv, OutcomesReported
  <2> QED BY <2>1, <2>2 DEF LastReport
<1> QED BY <1>1, Inductive, PTL

\* A failure without a route never completes a run.
THEOREM NoFailureSilenced == Spec => []NoSilentFailure
<1>1. IInv => NoSilentFailure
  BY DEF IInv, EndsRight
<1> QED BY <1>1, Inductive, PTL

\* At most one node starts after the token was cancelled.
THEOREM LateStartsBounded == Spec => []OneLateStart
<1>1. IInv => OneLateStart
  BY DEF IInv, LateStarts, OneLateStart
<1> QED BY <1>1, Inductive, PTL

(* ------------------------ what a step appends --------------------------- *)

\* The events are a sequence, whatever they are.
EventsAreSeq == \E S : events \in Seq(S)

\* What a step appends to the stream.
Adds(es) == (\E S : es \in Seq(S)) /\ events' = events \o es

\* No event, a single event, and two, as a sequence.
LEMMA FewAreSeq ==
  ASSUME NEW e, NEW f
  PROVE  /\ \E S : <<>> \in Seq(S)
         /\ \E S : <<e>> \in Seq(S)
         /\ \E S : <<e, f>> \in Seq(S)
<1>1. <<>> \in Seq({}) /\ <<e>> \in Seq({e}) /\ <<e, f>> \in Seq({e, f})
  OBVIOUS
<1> QED BY <1>1

\* Where appended events are found.
LEMMA Appended ==
  ASSUME EventsAreSeq, NEW es, Adds(es)
  PROVE  /\ EventsAreSeq'
         /\ DOMAIN events = 1 .. Len(events) /\ Len(events) \in Nat
         /\ DOMAIN es = 1 .. Len(es) /\ Len(es) \in Nat
         /\ DOMAIN events' = 1 .. Len(events) + Len(es) /\ Len(events') = Len(events) + Len(es)
         /\ \A i \in 1 .. Len(events) : events'[i] = events[i]
         /\ \A i \in 1 .. Len(es) : events'[Len(events) + i] = es[i]
<1>1. PICK S : events \in Seq(S)
  BY DEF EventsAreSeq
<1>2. PICK T : es \in Seq(T)
  BY DEF Adds
<1>3. events \in Seq(S \cup T) /\ es \in Seq(S \cup T)
  BY <1>1, <1>2
<1>4. events' = events \o es
  BY DEF Adds
<1>5. events' \in Seq(S \cup T)
  BY <1>3, <1>4
<1>6. EventsAreSeq'
  BY <1>5 DEF EventsAreSeq
<1> QED BY <1>3, <1>4, <1>6

RecordReport == EvOutcome(IF IsFailure(out) THEN "NodeFailed" ELSE "NodeCompleted", cur, out)

\* Nothing but the abort of a run that ends follows the first event.
OnlyAbortAfter(es) ==
  \A i \in DOMAIN es : i # 1 => es[i].ev = "PipelineAborted" /\ i = Len(es) /\ pc' = "done"

\* Recording an outcome appends its report, and perhaps the abort.
LEMMA RecordAdds ==
  ASSUME RecordOutcome
  PROVE  \E es : Adds(es) /\ 1 \in DOMAIN es /\ es[1] = RecordReport /\ OnlyAbortAfter(es)
<1> DEFINE report == RecordReport
           abort  == Ev("PipelineAborted", cur)
           both   == <<report>> \o <<abort>>
<1>1. abort.ev = "PipelineAborted"
  BY KindsWritten
<1>2. (pc' = "done" /\ Emit(<<report>> \o <<abort>>)) \/ Emit(<<report>>)
  BY DEF RecordOutcome, Return, Report, Aborted, RecordReport
<1> HIDE DEF report, abort
<1>3. <<report>> \in Seq({report, abort}) /\ <<abort>> \in Seq({report, abort})
  OBVIOUS
<1>4. both \in Seq({report, abort})
  BY <1>3
<1>5. DOMAIN both = 1 .. 2 /\ Len(both) = 2 /\ DOMAIN <<report>> = 1 .. 1
  BY <1>3
<1>6. both[1] = report /\ both[2] = abort /\ <<report>>[1] = report
  BY <1>3
<1>7. 1 \in DOMAIN both /\ 1 \in DOMAIN <<report>>
  BY <1>5
<1>8. OnlyAbortAfter(<<report>>) /\ (pc' = "done" => OnlyAbortAfter(both))
  BY <1>1, <1>5, <1>6 DEF OnlyAbortAfter
<1>9. (pc' = "done" /\ Adds(both)) \/ Adds(<<report>>)
  BY <1>2, <1>3, <1>4 DEF Emit, Adds
<1> HIDE DEF both
<1>10. report = RecordReport
  BY DEF report
<1> QED BY <1>6, <1>7, <1>8, <1>9, <1>10

(* --------------------------- retries, announcements --------------------- *)

\* While its handler may run again, the node has attempts left.
AttemptsLeft == pc = "exec" => attempts = 0 \/ attempts < graph.maxAttempts[cur]

RetryInv == RetriesExhausted /\ AttemptsLeft

\* A node is given up only when its attempts are used up.
LEMMA RetryStep ==
  ASSUME IsGraph(graph), pc = "exec" => cur \in graph.nodes, attempts \in Nat, RetryInv, [Next]_vars
  PROVE  attempts' \in Nat /\ RetryInv'
<1> USE DEF RetryInv, RetriesExhausted, AttemptsLeft
<1>1. CASE HandlerReturns
  <2>1. cur \in graph.nodes /\ attempts \in Nat /\ pc = "exec"
    BY <1>1 DEF HandlerReturns
  <2>2. graph.maxAttempts[cur] \in Nat
    BY <2>1 DEF IsGraph
  <2>3. /\ attempts' = attempts + 1
        /\ pc' = IF IsRetryable(out') /\ attempts' < graph.maxAttempts[cur] THEN "exec" ELSE "record"
        /\ UNCHANGED <<graph, cur>>
    BY <1>1 DEF HandlerReturns, ShouldRetry, config
  <2>4. CASE IsRetryable(out') /\ attempts' < graph.maxAttempts[cur]
    BY <2>1, <2>2, <2>3, <2>4
  <2>5. CASE ~(IsRetryable(out') /\ attempts' < graph.maxAttempts[cur])
    <3>1. attempts' <= 1 \/ attempts' <= graph.maxAttempts[cur]
      BY <2>1, <2>2, <2>3
    <3>2. IsRetryable(out') => attempts' >= graph.maxAttempts[cur]
      BY <2>1, <2>2, <2>3, <2>5
    <3> QED BY <2>3, <2>5, <3>1, <3>2 DEF IsRetryable
  <2> QED BY <2>4, <2>5
<1>2. CASE StartNode
  BY <1>2 DEF StartNode, config
<1>3. CASE Watchdog \/ UserCancels \/ UNCHANGED vars
  BY <1>3 DEF Watchdog, Tick, WatchdogFires, UserCancels, vars, loopVars, config
<1>4. CASE RejectGraph \/ Launch \/ AbortCancelled \/ AbortMaxSteps \/ PassChecks
  BY <1>4 DEF RejectGraph, Launch, AbortCancelled, AbortMaxSteps, PassChecks, LookUp, Return,
              loopVars, config
<1>5. CASE RecordOutcome \/ BeginSave \/ EndSave \/ SaveFails \/ ExitReached \/ GoalRetry \/ GoalsFail
  BY <1>5 DEF RecordOutcome, BeginSave, EndSave, SaveFails, ExitReached, GoalRetry, GoTo, GoalsFail,
              Return, loopVars, config
<1>6. CASE EdgeError \/ TraverseEdge \/ FailureRoute \/ Unroutable \/ EndNoEdge \/ Finish
  BY <1>6 DEF EdgeError, TraverseEdge, FailureRoute, GoTo, Unroutable, EndNoEdge, Finish,
              Return, loopVars, config
<1> QED BY <1>1, <1>2, <1>3, <1>4, <1>5, <1>6 DEF Next, Loop

\* A retryable outcome stands only when the attempts are used up, and no node is
\* attempted more often than its policy allows (execute_with_retry).
THEOREM RetriesUsedUp == Spec => []RetriesExhausted
<1>1. Init => RetryInv
  BY DEF Init, RetryInv, RetriesExhausted, AttemptsLeft
<1>2. IInv /\ RetryInv /\ [Next]_vars => RetryInv'
  BY RetryStep, GraphInUse DEF IInv, TypeOK, LoopTypeOK
<1>3. RetryInv => RetriesExhausted
  BY DEF RetryInv
<1> QED BY <1>1, <1>2, <1>3, Inductive, PTL DEF Spec

LastEvent == events[Len(events)].ev

\* Until run returns, nothing terminal was announced; then it is what run returned.
Truthful ==
  IF pc = "done" THEN AnnouncedAsReturned
  ELSE events # <<>> => LastEvent \notin Terminal

\* The last of a sequence to which one or two elements are added.
LEMMA LastAdded ==
  ASSUME events \in Seq(Event), NEW e, NEW f
  PROVE  /\ events \o <<>> = events
         /\ events \o <<e>> # <<>>
         /\ (events \o <<e>>)[Len(events \o <<e>>)] = e
         /\ events \o <<e, f>> # <<>>
         /\ (events \o <<e, f>>)[Len(events \o <<e, f>>)] = f
         /\ events \o (<<e>> \o <<f>>) # <<>>
         /\ (events \o (<<e>> \o <<f>>))[Len(events \o (<<e>> \o <<f>>))] = f
<1> DEFINE S == Event \cup {e, f}
<1>1. events \in Seq(S) /\ <<e>> \in Seq(S) /\ <<f>> \in Seq(S) /\ <<e, f>> \in Seq(S)
  OBVIOUS
<1> HIDE DEF S
<1>2. <<e>> \o <<f>> \in Seq(S) /\ Len(<<e>> \o <<f>>) = 2 /\ (<<e>> \o <<f>>)[2] = f
  BY <1>1
<1>3. /\ events \o <<>> = events
      /\ Len(events \o <<e>>) = Len(events) + 1
      /\ Len(events \o <<e, f>>) = Len(events) + 2
      /\ Len(events \o (<<e>> \o <<f>>)) = Len(events) + 2
      /\ Len(events) \in Nat
  BY <1>1, <1>2
<1>4. /\ (events \o <<e>>)[Len(events) + 1] = e
      /\ (events \o <<e, f>>)[Len(events) + 2] = f
      /\ (events \o (<<e>> \o <<f>>))[Len(events) + 2] = f
  BY <1>1, <1>2
<1>5. /\ events \o <<e>> # <<>> /\ events \o <<e, f>> # <<>>
      /\ events \o (<<e>> \o <<f>>) # <<>>
  BY <1>3
<1> QED BY <1>3, <1>4, <1>5

\* What is announced stays true.
LEMMA TruthStep == events \in Seq(Event) /\ Truthful /\ [Next]_vars => Truthful'
<1> SUFFICES ASSUME events \in Seq(Event), Truthful, [Next]_vars PROVE Truthful'
  OBVIOUS
<1> DEFINE Aborts == {"Cancelled", "Stalled", "MaxStepsExceeded",
                      "DeterministicFailureCycle", "UnroutableFailure"}
\* Running on, with no event or with one that ends nothing.
<1>1. ASSUME pc # "done", pc' # "done",
             UNCHANGED events \/ \E e : e.ev \notin Terminal /\ Emit(<<e>>)
      PROVE  Truthful'
  BY <1>1, LastAdded DEF Truthful, LastEvent, Emit
\* Returning what is announced by nothing, by an abort, by the completion.
<1>2. ASSUME pc # "done", NEW res, res \notin Aborts \cup {"Completed"}, Return(res, <<>>)
      PROVE  Truthful'
  <2>1. events' = events /\ pc' = "done" /\ result' = res
    BY <1>2, LastAdded DEF Return, Emit
  <2>2. events # <<>> => LastEvent \notin {"PipelineCompleted", "PipelineAborted"}
    BY <1>2 DEF Truthful, Terminal
  <2> QED BY <1>2, <2>1, <2>2 DEF Truthful, LastEvent, AnnouncedAsReturned
<1>3. ASSUME NEW res \in Aborts, Return(res, Aborted)
      PROVE  Truthful'
  BY <1>3, LastAdded, KindsWritten DEF Truthful, AnnouncedAsReturned, Return, Emit, Aborted
<1>4. CASE UNCHANGED vars
  BY <1>4 DEF vars, Truthful, LastEvent, AnnouncedAsReturned
<1>5. CASE HandlerReturns \/ Watchdog \/ UserCancels
  BY <1>1, <1>5 DEF HandlerReturns, Watchdog, Tick, WatchdogFires, UserCancels, Looping
<1>6. CASE RejectGraph \/ GoalsFail \/ EdgeError
  <2>1. pc # "done" /\ \E res : res \notin Aborts \cup {"Completed"} /\ Return(res, <<>>)
    BY <1>6 DEF RejectGraph, GoalsFail, EdgeError, AtExit, AtEdges
  <2> QED BY <2>1, <1>2
<1>7. CASE Launch \/ StartNode \/ EndSave
  <2>1. /\ pc # "done" /\ pc' # "done"
        /\ \E kind \in {"PipelineStarted", "NodeStarted", "CheckpointCreated"} : \E n :
             Emit(<<Ev(kind, n)>>)
    BY <1>7 DEF Launch, StartNode, EndSave
  <2> QED BY <2>1, <1>1, KindsWritten DEF Terminal
<1>8. CASE AbortCancelled \/ AbortMaxSteps \/ Unroutable
  <2>1. \E res \in Aborts : Return(res, Aborted)
    BY <1>8 DEF AbortCancelled, AbortMaxSteps, Unroutable
  <2> QED BY <2>1, <1>3
<1>9. CASE PassChecks \/ GoalRetry \/ FailureRoute
  <2>1. pc # "done" /\ (Return("NodeNotFound", <<>>) \/ (UNCHANGED events /\ pc' # "done"))
    BY <1>9 DEF PassChecks, LookUp, GoalRetry, FailureRoute, GoTo, AtExit, NoEdge, AtEdges
  <2> QED BY <2>1, <1>1, <1>2
<1>10. CASE RecordOutcome
  <2> DEFINE report == EvOutcome(IF IsFailure(out) THEN "NodeFailed" ELSE "NodeCompleted", cur, out)
             abort == Ev("PipelineAborted", cur)
  <2>1. report.ev \notin Terminal /\ abort.ev = "PipelineAborted"
    BY KindsWritten DEF Terminal
  <2>2. \/ pc' # "done" /\ Emit(<<report>>)
        \/ Return("DeterministicFailureCycle", <<report>> \o <<abort>>)
    BY <1>10 DEF RecordOutcome, Report, Aborted
  <2>3. pc # "done"
    BY <1>10 DEF RecordOutcome
  <2> HIDE DEF report, abort
  <2>4. CASE pc' # "done" /\ Emit(<<report>>)
    BY <2>1, <2>3, <2>4, <1>1
  <2>5. CASE Return("DeterministicFailureCycle", <<report>> \o <<abort>>)
    BY <2>1, <2>5, LastAdded DEF Truthful, AnnouncedAsReturned, Return, Emit
  <2> QED BY <2>2, <2>4, <2>5
<1>11. CASE BeginSave \/ SaveFails \/ ExitReached \/ EndNoEdge
  BY <1>1, <1>11 DEF BeginSave, SaveFails, ExitReached, EndNoEdge, AtExit, NoEdge, AtEdges
<1>12. CASE TraverseEdge
  <2>1. PICK e \in Selected :
          Emit(IF e.restart THEN <<EvEdge("EdgeTraversed", e), EvEdge("LoopRestarted", e)>>
                            ELSE <<EvEdge("EdgeTraversed", e)>>)
    BY <1>12 DEF TraverseEdge
  <2> DEFINE walked == EvEdge("EdgeTraversed", e)
             again  == EvEdge("LoopRestarted", e)
  <2>2. walked.ev \notin Terminal /\ again.ev \notin Terminal
    BY KindsWritten DEF Terminal
  <2>3. pc # "done" /\ pc' # "done"
    BY <1>12 DEF TraverseEdge, AtEdges
  <2>4. Emit(<<walked, again>>) \/ Emit(<<walked>>)
    BY <2>1
  <2> HIDE DEF walked, again
  <2>5. CASE Emit(<<walked, again>>)
    BY <2>2, <2>3, <2>5, LastAdded DEF Truthful, LastEvent, Emit
  <2>6. CASE Emit(<<walked>>)
    BY <2>2, <2>3, <2>6, <1>1
  <2> QED BY <2>4, <2>5, <2>6
<1>13. CASE Finish
  <2> DEFINE done == EvOutcome("PipelineCompleted", LastVisited, outcomes[LastVisited])
  <2>1. done.ev = "PipelineCompleted"
    BY KindsWritten
  <2>2. pc # "done" /\ (Return("Completed", <<done>>) \/ Return("GoalEnforcement", <<>>))
    BY <1>13 DEF Finish, Completion
  <2> HIDE DEF done
  <2>3. CASE Return("Completed", <<done>>)
    BY <2>1, <2>3, LastAdded DEF Truthful, AnnouncedAsReturned, Return, Emit
  <2>4. CASE Return("GoalEnforcement", <<>>)
    BY <2>2, <2>4, <1>2
  <2> QED BY <2>2, <2>3, <2>4
<1> QED BY <1>4, <1>5, <1>6, <1>7, <1>8, <1>9, <1>10, <1>11, <1>12, <1>13 DEF Next, Loop

\* The last event tells what run returns: completion, one of the announced
\* aborts, or an error that has no event (the emits of execute_loop and run).
THEOREM AnnouncementsTrue == Spec => []AnnouncedAsReturned
<1>1. Init => Truthful
  BY DEF Init, Truthful
<1>2. IInv /\ Truthful /\ [Next]_vars => Truthful'
  BY TruthStep DEF IInv, TypeOK
<1>3. IInv /\ Truthful => AnnouncedAsReturned
  BY DEF Truthful, AnnouncedAsReturned
<1> QED BY <1>1, <1>2, <1>3, Inductive, PTL DEF Spec

(* ------------------------------ refinement ------------------------------ *)

\* What a step other than recording an outcome means for the abstract run:
\* nothing, or the end of the run, as completed only with the goals met.
LEMMA StepKinds ==
  ASSUME EndsRight, [Next]_vars, ~RecordOutcome
  PROVE  /\ UNCHANGED <<graph, steps, outcomes>>
         /\ \/ result' = result
            \/ result = "none" /\ result' \notin {"none", "Completed"}
            \/ result = "none" /\ result' = "Completed" /\ GoalsMet(graph, outcomes)
<1> USE DEF EndsRight
<1>1. CASE HandlerReturns \/ Watchdog \/ UserCancels \/ UNCHANGED vars
  BY <1>1 DEF HandlerReturns, Watchdog, Tick, WatchdogFires, UserCancels, vars, config, loopVars
<1>2. CASE RejectGraph \/ Launch \/ AbortCancelled \/ AbortMaxSteps \/ PassChecks \/ StartNode
  BY <1>2 DEF RejectGraph, Launch, AbortCancelled, AbortMaxSteps, PassChecks, LookUp, StartNode,
              Return, config, loopVars
<1>3. CASE BeginSave \/ EndSave \/ SaveFails \/ ExitReached \/ GoalRetry \/ GoalsFail
  BY <1>3 DEF BeginSave, EndSave, SaveFails, ExitReached, AtExit, GoalRetry, GoTo, GoalsFail,
              Return, config, loopVars
<1>4. CASE EdgeError \/ TraverseEdge \/ FailureRoute \/ Unroutable \/ EndNoEdge
  BY <1>4 DEF EdgeError, TraverseEdge, FailureRoute, GoTo, Unroutable, EndNoEdge, NoEdge, AtEdges,
              Return, config, loopVars
<1>5. CASE Finish
  BY <1>5 DEF Finish, Return, config, loopVars
<1> QED BY <1>1, <1>2, <1>3, <1>4, <1>5 DEF Next, Loop

\* Initially the abstract run has no successes and is running.
LEMMA RunInit == Init => Run!Init
<1> SUFFICES ASSUME Init PROVE Run!Init
  OBVIOUS
<1>1. Range(graph.goals) \in SUBSET UNION {g.nodes : g \in Graphs}
  <2>1. graph \in Graphs /\ graph.goals \in Seq(graph.nodes)
    BY EngineAssumption DEF Init, IsGraph
  <2> QED BY <2>1 DEF Range
<1>2. GoodNodes = {} /\ steps = 0 /\ RunStatus = "Running"
  BY DEF Init, GoodNodes, Empty, RunStatus
<1> QED BY <1>1, <1>2 DEF Run!Init

\* Recording an outcome is the execution of a node.
LEMMA RecordExecutes ==
  ASSUME LoopTypeOK, EndsRight, RecordOutcome
  PROVE  Run!Execute
<1>1. result = "none" /\ steps < MaxSteps /\ cur \in graph.nodes
  BY DEF LoopTypeOK, EndsRight, RecordOutcome
<1>2. RunStatus = "Running" /\ RunStatus' \in {"Running", "Failed"}
  BY <1>1 DEF RunStatus, RecordOutcome, Return
<1>3. cur \in UNION {g.nodes : g \in Graphs}
  BY <1>1 DEF LoopTypeOK
<1>4. /\ DOMAIN outcomes' = DOMAIN outcomes \cup {cur}
      /\ \A n \in DOMAIN outcomes' : outcomes'[n] = IF n = cur THEN out ELSE outcomes[n]
  BY DEF RecordOutcome
<1>5. CASE IsSuccess(out)
  <2>1. GoodNodes' = GoodNodes \cup {cur}
    BY <1>4, <1>5 DEF GoodNodes
  <2>2. Run!Succeeds(cur)
    BY <2>1 DEF Run!Succeeds
  <2> QED BY <1>1, <1>2, <1>3, <2>2 DEF Run!Execute, RecordOutcome, config
<1>6. CASE ~IsSuccess(out)
  <2>1. GoodNodes' = GoodNodes \ {cur}
    BY <1>4, <1>6 DEF GoodNodes
  <2>2. Run!Fails(cur)
    BY <2>1 DEF Run!Fails
  <2> QED BY <1>1, <1>2, <1>3, <2>2 DEF Run!Execute, RecordOutcome, config
<1> QED BY <1>5, <1>6

\* Every step of the engine is a step of the abstract run, or none.
LEMMA RunStep ==
  ASSUME IInv, [Next]_vars
  PROVE  [Run!Next]_(Run!vars)
<1>1. LoopTypeOK /\ EndsRight
  BY DEF IInv, TypeOK
<1>2. CASE RecordOutcome
  BY <1>1, <1>2, RecordExecutes DEF Run!Next
<1>3. CASE ~RecordOutcome
  <2>1. UNCHANGED <<graph, steps, outcomes>>
    BY <1>1, <1>3, StepKinds
  <2>2. UNCHANGED <<Range(graph.goals), GoodNodes, steps>>
    BY <2>1 DEF GoodNodes
  <2>3. CASE result' = result
    BY <2>2, <2>3 DEF Run!vars, RunStatus
  <2>4. CASE result = "none" /\ result' \notin {"none", "Completed"}
    BY <2>2, <2>4 DEF Run!Next, Run!Fail, RunStatus
  <2>5. CASE result = "none" /\ result' = "Completed" /\ GoalsMet(graph, outcomes)
    <3>1. Range(graph.goals) \subseteq GoodNodes
      BY <2>5 DEF GoalsMet, Satisfied, GoodNodes
    <3> QED BY <2>2, <2>5, <3>1 DEF Run!Next, Run!Complete, RunStatus
  <2> QED BY <1>1, <1>3, <2>3, <2>4, <2>5, StepKinds
<1> QED BY <1>2, <1>3

\* The engine implements the abstract run: whatever the graph and its handlers,
\* it executes at most MaxSteps nodes, ends once, and completes only when the
\* latest execution of every goal node was a success. (That it does end is
\* liveness, which the model checker shows.)
THEOREM ImplementsRunSafely == Spec => Run!Safe
<1>1. IInv /\ [Next]_vars => [Run!Next]_(Run!vars)
  BY RunStep
<1> QED BY <1>1, RunInit, Inductive, PTL DEF Spec, Run!Safe

(* -------------------- what subscribers can rely on ---------------------- *)

InHandler == pc \in {"exec", "record"}

\* What every step but a start and a report appends.
QuietAdds(es) ==
  /\ Adds(es)
  /\ \A i \in DOMAIN es : /\ ~IsReport(es[i])
                          /\ es[i].ev # "NodeStarted"
                          /\ es[i].ev \in Terminal => i = Len(es) /\ pc' = "done"
  /\ es # <<>> => /\ pc # "done" /\ pc' # "init"
                  /\ pc = "init" => es[1].ev = "PipelineStarted"
  /\ es = <<>> /\ pc = "init" => pc' \in {"init", "done"}

\* What such a step leaves alone.
Undisturbed ==
  /\ steps' = steps
  /\ sigs' = sigs
  /\ graph' = graph
  /\ InHandler' <=> InHandler
  /\ InHandler' => cur' = cur
  /\ pc = "done" => pc' = "done"
  /\ pc' # "init" \/ pc = "init"

\* Every step but the start of a node and its report is quiet.
LEMMA QuietSteps ==
  ASSUME EventsAreSeq, [Next]_vars, ~RecordOutcome, ~StartNode
  PROVE  Undisturbed /\ \E es : QuietAdds(es)
<1> DEFINE Goal == Undisturbed /\ \E es : QuietAdds(es)
           Silent == pc = "init" => pc' \in {"init", "done"}
           Plainly(e) == ~IsReport(e) /\ e.ev # "NodeStarted"
<1>0. (\E S : <<>> \in Seq(S)) /\ <<>> = <<>> /\ DOMAIN <<>> = {}
  <2>1. <<>> \in Seq({})
    OBVIOUS
  <2> QED BY <2>1
<1>1. ASSUME Undisturbed, Silent, UNCHANGED events \/ Emit(<<>>) PROVE Goal
  <2>1. PICK S : events \in Seq(S)
    BY DEF EventsAreSeq
  <2>2. events' = events \o <<>>
    BY <1>1, <2>1 DEF Emit
  <2>3. QuietAdds(<<>>)
    BY <1>0, <1>1, <2>2 DEF QuietAdds, Adds
  <2> QED BY <1>1, <2>3
<1>2. ASSUME Undisturbed, pc # "done", pc' # "init", NEW e, Plainly(e), Emit(<<e>>),
             e.ev \in Terminal => pc' = "done",
             pc = "init" => e.ev = "PipelineStarted"
      PROVE  Goal
  <2>1. /\ DOMAIN <<e>> = 1 .. 1 /\ Len(<<e>>) = 1 /\ <<e>>[1] = e /\ <<e>> # <<>>
        /\ \A i \in 1 .. 1 : i = 1
    OBVIOUS
  <2>2. QuietAdds(<<e>>)
    BY <1>2, <2>1, FewAreSeq DEF QuietAdds, Adds, Emit
  <2> QED BY <1>2, <2>2
<1>3. ASSUME Undisturbed, pc \notin {"init", "done"}, pc' # "init",
             NEW e, NEW f, Plainly(e), Plainly(f), Emit(<<e, f>>),
             e.ev \notin Terminal, f.ev \notin Terminal
      PROVE  Goal
  <2>1. /\ DOMAIN <<e, f>> = 1 .. 2 /\ <<e, f>>[1] = e /\ <<e, f>>[2] = f /\ <<e, f>> # <<>>
        /\ \A i \in 1 .. 2 : i = 1 \/ i = 2
    OBVIOUS
  <2>2. QuietAdds(<<e, f>>)
    BY <1>3, <2>1, FewAreSeq DEF QuietAdds, Adds, Emit
  <2> QED BY <1>3, <2>2
<1>4. ASSUME Undisturbed, pc \notin {"init", "done"}, pc' = "done", Emit(Aborted) PROVE Goal
  BY <1>2, <1>4, KindsWritten DEF Aborted, IsReport
<1> HIDE DEF Goal
<1>5. CASE UNCHANGED vars
  <2>1. Undisturbed /\ Silent /\ UNCHANGED events
    BY <1>5 DEF vars, config, loopVars, Undisturbed, InHandler
  <2> QED BY <1>1, <2>1 DEF Goal
<1>6. CASE HandlerReturns \/ Watchdog \/ UserCancels
  <2>1. Undisturbed /\ Silent /\ UNCHANGED events
    BY <1>6 DEF HandlerReturns, Watchdog, Tick, WatchdogFires, UserCancels, config, loopVars,
                Undisturbed, InHandler, Looping
  <2> QED BY <1>1, <2>1 DEF Goal
<1>7. CASE RejectGraph \/ GoalsFail \/ EdgeError
  <2>1. Undisturbed /\ Silent /\ Emit(<<>>)
    BY <1>7 DEF RejectGraph, GoalsFail, EdgeError, AtExit, AtEdges, Return, config, loopVars,
                Undisturbed, InHandler
  <2> QED BY <1>1, <2>1 DEF Goal
<1>8. CASE Launch
  <2>1. Undisturbed /\ pc # "done" /\ pc' # "init" /\ Emit(<<Ev("PipelineStarted", NoNode)>>)
    BY <1>8 DEF Launch, config, loopVars, Undisturbed, InHandler
  <2> QED BY <1>2, <2>1, KindsWritten DEF Goal, IsReport, Terminal
<1>9. CASE AbortCancelled \/ AbortMaxSteps \/ Unroutable
  <2>1. Undisturbed /\ pc \notin {"init", "done"} /\ pc' = "done" /\ Emit(Aborted)
    BY <1>9 DEF AbortCancelled, AbortMaxSteps, Unroutable, NoEdge, AtEdges, Return, config, loopVars,
                Undisturbed, InHandler
  <2> QED BY <1>4, <2>1 DEF Goal
<1>10. CASE PassChecks \/ GoalRetry \/ FailureRoute
  <2>1. Undisturbed /\ Silent /\ (UNCHANGED events \/ Emit(<<>>))
    BY <1>10 DEF PassChecks, LookUp, GoalRetry, FailureRoute, GoTo, AtExit, NoEdge, AtEdges, Return,
                 config, loopVars, Undisturbed, InHandler
  <2> QED BY <1>1, <2>1 DEF Goal
<1>11. CASE BeginSave \/ SaveFails \/ ExitReached \/ EndNoEdge
  <2>1. Undisturbed /\ Silent /\ UNCHANGED events
    BY <1>11 DEF BeginSave, SaveFails, ExitReached, EndNoEdge, AtExit, NoEdge, AtEdges,
                 config, loopVars, Undisturbed, InHandler
  <2> QED BY <1>1, <2>1 DEF Goal
<1>12. CASE EndSave
  <2>1. Undisturbed /\ pc = "saving" /\ pc' # "init" /\ Emit(<<Ev("CheckpointCreated", cur)>>)
    BY <1>12 DEF EndSave, config, loopVars, Undisturbed, InHandler
  <2> QED BY <1>2, <2>1, KindsWritten DEF Goal, IsReport, Terminal
<1>13. CASE TraverseEdge
  <2>1. PICK e \in Selected :
          Emit(IF e.restart THEN <<EvEdge("EdgeTraversed", e), EvEdge("LoopRestarted", e)>>
                            ELSE <<EvEdge("EdgeTraversed", e)>>)
    BY <1>13 DEF TraverseEdge
  <2>2. Undisturbed /\ pc \notin {"init", "done"} /\ pc' # "init"
    BY <1>13 DEF TraverseEdge, AtEdges, config, Undisturbed, InHandler
  <2> DEFINE walked == EvEdge("EdgeTraversed", e)
             again  == EvEdge("LoopRestarted", e)
  <2>3. /\ Plainly(walked) /\ walked.ev \notin Terminal
        /\ Plainly(again) /\ again.ev \notin Terminal
    BY KindsWritten DEF Terminal, IsReport
  <2>4. Emit(<<walked, again>>) \/ Emit(<<walked>>)
    BY <2>1
  <2> HIDE DEF walked, again
  <2> QED BY <1>2, <1>3, <2>2, <2>3, <2>4 DEF Goal
<1>14. CASE Finish
  <2>1. /\ Undisturbed /\ Silent /\ pc = "finish" /\ pc' = "done"
        /\ Emit(<<>>) \/ Emit(Completion)
    BY <1>14 DEF Finish, Return, config, loopVars, Undisturbed, InHandler
  <2> QED BY <1>1, <1>2, <2>1, KindsWritten DEF Goal, Completion, IsReport
<1> QED
  BY <1>5, <1>6, <1>7, <1>8, <1>9, <1>10, <1>11, <1>12, <1>13, <1>14 DEF Next, Loop, Goal

(* ------------------------- protocol of the stream ----------------------- *)

StartsAt  == {i \in DOMAIN events : events[i].ev = "NodeStarted"}
ReportsAt == {i \in DOMAIN events : IsReport(events[i])}

\* The stream opens with PipelineStarted, and is opened when the loop runs.
Opened ==
  /\ events # <<>> => events[1].ev = "PipelineStarted"
  /\ pc \notin {"init", "done"} => events # <<>>
  /\ pc = "init" => events = <<>>

\* A terminal event is the last of a run that returned.
Closed == \A i \in DOMAIN events : events[i].ev \in Terminal => i = Len(events) /\ pc = "done"

\* One report per step, and one start more while a handler is busy.
Counted ==
  /\ IsFiniteSet(ReportsAt) /\ Cardinality(ReportsAt) = steps
  /\ IsFiniteSet(StartsAt)
  /\ Cardinality(StartsAt) = steps + (IF InHandler THEN 1 ELSE 0)

\* The start at place i was answered by a report before place j.
AnsweredBefore(i, j) == \E k \in i + 1 .. j - 1 : ReportOf(events[k], events[i].node)

\* Every start was answered before the next; only the current one may wait.
Answered ==
  /\ \A i, j \in StartsAt : i < j => AnsweredBefore(i, j)
  /\ \A i \in StartsAt : AnsweredBefore(i, Len(events) + 1)
                           \/ (InHandler /\ events[i].node = cur)

Protocol == EventsAreSeq /\ Opened /\ Closed /\ Counted /\ Answered

\* An answer stays an answer, and stays before whatever comes.
LEMMA StaysAnswered ==
  ASSUME EventsAreSeq, NEW es, Adds(es), NEW i \in DOMAIN events, NEW j \in Nat, NEW m \in Nat,
         j <= Len(events) + 1, j <= m, AnsweredBefore(i, j)
  PROVE  \E k \in i + 1 .. m - 1 : ReportOf(events'[k], events'[i].node)
<1>1. PICK k \in i + 1 .. j - 1 : ReportOf(events[k], events[i].node)
  BY DEF AnsweredBefore
<1>2. i \in 1 .. Len(events) /\ Len(events) \in Nat
  BY Appended
<1>3. k \in 1 .. Len(events) /\ k \in i + 1 .. m - 1
  BY <1>1, <1>2
<1>4. events'[k] = events[k] /\ events'[i] = events[i]
  BY <1>2, <1>3, Appended
<1> QED BY <1>1, <1>3, <1>4

\* Quiet steps move neither starts nor reports.
LEMMA QuietPlaces ==
  ASSUME EventsAreSeq, NEW es, QuietAdds(es)
  PROVE  StartsAt' = StartsAt /\ ReportsAt' = ReportsAt
<1>1. Adds(es)
  BY DEF QuietAdds
<1>2. ASSUME NEW i \in DOMAIN events', i \notin DOMAIN events
      PROVE  events'[i].ev # "NodeStarted" /\ ~IsReport(events'[i])
  <2>1. /\ i \in 1 .. Len(events) + Len(es) /\ i \notin 1 .. Len(events)
        /\ Len(events) \in Nat /\ Len(es) \in Nat
    BY <1>1, <1>2, Appended
  <2>2. i - Len(events) \in 1 .. Len(es) /\ Len(events) + (i - Len(events)) = i
    BY <2>1
  <2>3. events'[i] = es[i - Len(events)] /\ i - Len(events) \in DOMAIN es
    BY <1>1, <2>2, Appended
  <2> QED BY <2>3 DEF QuietAdds
<1>3. DOMAIN events \subseteq DOMAIN events' /\ \A i \in DOMAIN events : events'[i] = events[i]
  <2>1. Len(events) \in Nat /\ Len(es) \in Nat
    BY <1>1, Appended
  <2> QED BY <1>1, <2>1, Appended
<1> QED BY <1>2, <1>3 DEF StartsAt, ReportsAt

\* Quiet steps keep the protocol.
LEMMA QuietProtocol ==
  ASSUME Protocol, steps \in Nat, Undisturbed, NEW es, QuietAdds(es)
  PROVE  Protocol'
<1>1. Adds(es) /\ EventsAreSeq
  BY DEF QuietAdds, Protocol
<1>2. /\ EventsAreSeq'
      /\ DOMAIN events = 1 .. Len(events) /\ Len(events) \in Nat
      /\ DOMAIN es = 1 .. Len(es) /\ Len(es) \in Nat
      /\ DOMAIN events' = 1 .. Len(events) + Len(es) /\ Len(events') = Len(events) + Len(es)
      /\ \A i \in 1 .. Len(events) : events'[i] = events[i]
      /\ \A i \in 1 .. Len(es) : events'[Len(events) + i] = es[i]
  BY <1>1, Appended
<1>3. StartsAt' = StartsAt /\ ReportsAt' = ReportsAt
  BY <1>1, QuietPlaces
<1>e. (events = <<>> <=> Len(events) = 0) /\ (es = <<>> <=> Len(es) = 0)
      /\ (events' = <<>> <=> Len(events') = 0)
  BY <1>1, <1>2 DEF EventsAreSeq, Adds
<1>a. /\ \A i \in DOMAIN es : /\ ~IsReport(es[i])
                              /\ es[i].ev # "NodeStarted"
                              /\ es[i].ev \in Terminal => i = Len(es) /\ pc' = "done"
      /\ es # <<>> => /\ pc # "done" /\ pc' # "init"
                      /\ pc = "init" => es[1].ev = "PipelineStarted"
      /\ es = <<>> /\ pc = "init" => pc' \in {"init", "done"}
  BY DEF QuietAdds
<1>4. Opened'
  <2>1. CASE es = <<>>
    <3>1. Len(events') = Len(events)
      BY <1>2, <1>e, <2>1
    <3>2. events # <<>> => events'[1] = events[1]
      BY <1>2, <1>e
    <3> QED BY <1>a, <1>e, <2>1, <3>1, <3>2 DEF Opened, Protocol, Undisturbed
  <2>2. CASE es # <<>> /\ pc = "init"
    <3>1. Len(events) = 0 /\ Len(es) >= 1
      BY <1>2, <1>e, <2>2 DEF Protocol, Opened
    <3>2. events'[1] = es[1]
      BY <1>2, <3>1
    <3> QED BY <1>2, <1>e, <1>a, <2>2, <3>1, <3>2 DEF Opened
  <2>3. CASE es # <<>> /\ pc # "init"
    <3>1. Len(events) # 0
      BY <1>a, <1>e, <2>3 DEF Protocol, Opened
    <3>2. events'[1] = events[1] /\ Len(events') # 0
      BY <1>2, <3>1
    <3> QED BY <1>a, <1>e, <2>3, <3>1, <3>2 DEF Protocol, Opened
  <2> QED BY <2>1, <2>2, <2>3
<1>5. Closed'
  <2> SUFFICES ASSUME NEW i \in DOMAIN events', events'[i].ev \in Terminal
               PROVE  i = Len(events') /\ pc' = "done"
    BY DEF Closed
  <2>1. CASE i \in 1 .. Len(events)
    <3>1. i = Len(events) /\ pc = "done"
      BY <1>2, <2>1 DEF Protocol, Closed
    <3>2. Len(es) = 0 /\ pc' = "done"
      BY <1>a, <1>e, <3>1 DEF Undisturbed
    <3> QED BY <1>2, <3>1, <3>2
  <2>2. CASE i \notin 1 .. Len(events)
    <3>1. i - Len(events) \in 1 .. Len(es) /\ Len(events) + (i - Len(events)) = i
      BY <1>2, <2>2
    <3>2. es[i - Len(events)].ev \in Terminal
      BY <1>2, <3>1
    <3>3. i - Len(events) = Len(es) /\ pc' = "done"
      BY <1>2, <1>a, <3>1, <3>2
    <3> QED BY <1>2, <3>1, <3>3
  <2> QED BY <2>1, <2>2
<1>6. Counted'
  BY <1>3 DEF Protocol, Counted, Undisturbed
<1>7. Answered'
  <2>1. ASSUME NEW i \in StartsAt, NEW j \in StartsAt, i < j PROVE AnsweredBefore(i, j)'
    <3>1. AnsweredBefore(i, j)
      BY <2>1 DEF Protocol, Answered
    <3>2. i \in DOMAIN events /\ j \in Nat /\ j <= Len(events) + 1 /\ j <= j
      BY <1>2 DEF StartsAt
    <3> QED BY <1>1, <3>1, <3>2, StaysAnswered DEF AnsweredBefore
  <2>2. ASSUME NEW i \in StartsAt
        PROVE  AnsweredBefore(i, Len(events) + 1)' \/ (InHandler' /\ events'[i].node = cur')
    <3>1. i \in DOMAIN events /\ events'[i] = events[i]
      BY <1>2 DEF StartsAt
    <3>2. CASE AnsweredBefore(i, Len(events) + 1)
      <4>1. /\ Len(events) + 1 \in Nat /\ Len(events') + 1 \in Nat
            /\ Len(events) + 1 <= Len(events') + 1 /\ Len(events) + 1 <= Len(events) + 1
        BY <1>2
      <4> QED BY <1>1, <3>1, <3>2, <4>1, StaysAnswered DEF AnsweredBefore
    <3>3. CASE InHandler /\ events[i].node = cur
      BY <3>1, <3>3 DEF Undisturbed
    <3> QED BY <3>2, <3>3 DEF Protocol, Answered
  <2> QED BY <1>3, <2>1, <2>2 DEF Answered
<1> QED BY <1>2, <1>4, <1>5, <1>6, <1>7 DEF Protocol

\* Recording an outcome answers the start of the current node.
LEMMA RecordProtocol ==
  ASSUME Protocol, steps \in Nat, RecordOutcome
  PROVE  Protocol'
<1>0. PICK es : Adds(es) /\ 1 \in DOMAIN es /\ es[1] = RecordReport /\ OnlyAbortAfter(es)
  BY RecordAdds
<1>1. EventsAreSeq
  BY DEF Protocol
<1>2. /\ EventsAreSeq'
      /\ DOMAIN events = 1 .. Len(events) /\ Len(events) \in Nat
      /\ DOMAIN es = 1 .. Len(es) /\ Len(es) \in Nat
      /\ DOMAIN events' = 1 .. Len(events) + Len(es) /\ Len(events') = Len(events) + Len(es)
      /\ \A i \in 1 .. Len(events) : events'[i] = events[i]
      /\ \A i \in 1 .. Len(es) : events'[Len(events) + i] = es[i]
  BY <1>0, <1>1, Appended
<1>3. /\ pc = "record" /\ pc' \notin {"init", "exec", "record"}
      /\ steps' = steps + 1 /\ cur' = cur
  BY DEF RecordOutcome, Return
<1>4. RecordReport.ev \in {"NodeFailed", "NodeCompleted"} /\ RecordReport.node = cur
  BY DEF RecordReport, EvOutcome
<1>n. /\ Len(events) + 1 \in DOMAIN events' /\ Len(events) + 1 \notin DOMAIN events
      /\ events'[Len(events) + 1] = RecordReport
  BY <1>0, <1>2
<1>5. ASSUME NEW i \in DOMAIN events', i \notin DOMAIN events, i # Len(events) + 1
      PROVE  events'[i].ev = "PipelineAborted" /\ i = Len(events') /\ pc' = "done"
  <2>1. i - Len(events) \in 1 .. Len(es) /\ Len(events) + (i - Len(events)) = i
    BY <1>2, <1>5
  <2>2. events'[i] = es[i - Len(events)] /\ i - Len(events) # 1
    BY <1>2, <1>5, <2>1
  <2>3. es[i - Len(events)].ev = "PipelineAborted" /\ i - Len(events) = Len(es) /\ pc' = "done"
    BY <1>0, <1>2, <2>1, <2>2 DEF OnlyAbortAfter
  <2> QED BY <1>2, <2>1, <2>2, <2>3
<1>6. DOMAIN events \subseteq DOMAIN events'
  BY <1>2
<1>7. StartsAt' = StartsAt /\ ReportsAt' = ReportsAt \cup {Len(events) + 1}
  BY <1>2, <1>4, <1>n, <1>5, <1>6 DEF StartsAt, ReportsAt, IsReport
<1>8. Opened'
  <2>1. events # <<>> /\ events[1].ev = "PipelineStarted"
    BY <1>3 DEF Protocol, Opened
  <2>2. Len(events) # 0
    BY <1>1, <2>1 DEF EventsAreSeq
  <2>3. events'[1] = events[1] /\ Len(events') # 0
    BY <1>2, <2>2
  <2>4. events' # <<>>
    BY <2>3
  <2> QED BY <1>3, <2>1, <2>3, <2>4 DEF Opened
<1>9. Closed'
  <2> SUFFICES ASSUME NEW i \in DOMAIN events', events'[i].ev \in Terminal
               PROVE  i = Len(events') /\ pc' = "done"
    BY DEF Closed
  <2>1. i \notin DOMAIN events
    BY <1>2, <1>3 DEF Protocol, Closed
  <2>2. i # Len(events) + 1
    BY <1>4, <1>n DEF Terminal
  <2> QED BY <1>5, <2>1, <2>2
<1>10. Counted'
  <2>1. Len(events) + 1 \notin ReportsAt
    BY <1>n DEF ReportsAt
  <2>2. IsFiniteSet(ReportsAt') /\ Cardinality(ReportsAt') = steps + 1
    BY <1>7, <2>1, FS_AddElement DEF Protocol, Counted
  <2>3. InHandler /\ ~InHandler'
    BY <1>3 DEF InHandler
  <2>4. Cardinality(StartsAt') = steps + 1 /\ IsFiniteSet(StartsAt')
    BY <1>7, <2>3 DEF Protocol, Counted
  <2> QED BY <1>3, <2>2, <2>3, <2>4 DEF Counted
<1>11. Answered'
  <2>1. ASSUME NEW i \in StartsAt, NEW j \in StartsAt, i < j PROVE AnsweredBefore(i, j)'
    <3>1. AnsweredBefore(i, j)
      BY <2>1 DEF Protocol, Answered
    <3>2. i \in DOMAIN events /\ j \in Nat /\ j <= Len(events) + 1 /\ j <= j
      BY <1>2 DEF StartsAt
    <3> QED BY <1>0, <1>1, <3>1, <3>2, StaysAnswered DEF AnsweredBefore
  <2>2. ASSUME NEW i \in StartsAt
        PROVE  \E k \in i + 1 .. (Len(events') + 1) - 1 : ReportOf(events'[k], events'[i].node)
    <3>1. i \in DOMAIN events /\ events'[i] = events[i]
      BY <1>2 DEF StartsAt
    <3>2. CASE AnsweredBefore(i, Len(events) + 1)
      <4>1. /\ Len(events) + 1 \in Nat /\ Len(events') + 1 \in Nat
            /\ Len(events) + 1 <= Len(events') + 1 /\ Len(events) + 1 <= Len(events) + 1
        BY <1>2
      <4> QED BY <1>0, <1>1, <3>1, <3>2, <4>1, StaysAnswered
    <3>3. CASE events[i].node = cur
      <4>1. Len(events) + 1 \in i + 1 .. (Len(events') + 1) - 1
        BY <1>2, <1>n, <3>1
      <4>2. ReportOf(events'[Len(events) + 1], events'[i].node)
        BY <1>4, <1>n, <3>1, <3>3 DEF ReportOf, IsReport
      <4> QED BY <4>1, <4>2
    <3> QED BY <3>2, <3>3 DEF Protocol, Answered
  <2> QED BY <1>7, <2>1, <2>2 DEF Answered, AnsweredBefore
<1> QED BY <1>2, <1>8, <1>9, <1>10, <1>11 DEF Protocol

\* A node starts when all before it were answered.
LEMMA StartProtocol ==
  ASSUME Protocol, steps \in Nat, StartNode
  PROVE  Protocol'
<1> DEFINE started == Ev("NodeStarted", cur)
           place   == Len(events) + 1
<1>0. started.ev = "NodeStarted" /\ started.node = cur
  BY DEF Ev
<1>1. Adds(<<started>>) /\ EventsAreSeq
  BY FewAreSeq DEF StartNode, Emit, Adds, Protocol
<1>2. /\ EventsAreSeq'
      /\ DOMAIN events = 1 .. Len(events) /\ Len(events) \in Nat
      /\ DOMAIN <<started>> = 1 .. Len(<<started>>)
      /\ DOMAIN events' = 1 .. Len(events) + Len(<<started>>)
      /\ Len(events') = Len(events) + Len(<<started>>)
      /\ \A i \in 1 .. Len(events) : events'[i] = events[i]
      /\ \A i \in 1 .. Len(<<started>>) : events'[Len(events) + i] = <<started>>[i]
  BY <1>1, Appended
<1>3. pc = "start" /\ pc' = "exec" /\ steps' = steps /\ cur' = cur
  BY DEF StartNode
<1> HIDE DEF started
<1>4. /\ place \in DOMAIN events' /\ place \notin DOMAIN events /\ events'[place] = started
      /\ DOMAIN events' = DOMAIN events \cup {place} /\ Len(events') = place
  BY <1>2
<1>5. StartsAt' = StartsAt \cup {place} /\ ReportsAt' = ReportsAt
  BY <1>0, <1>2, <1>4 DEF StartsAt, ReportsAt, IsReport
<1>6. Opened'
  <2>1. events # <<>> /\ events[1].ev = "PipelineStarted"
    BY <1>3 DEF Protocol, Opened
  <2>2. Len(events) # 0
    BY <1>1, <2>1 DEF EventsAreSeq
  <2>3. events'[1] = events[1] /\ Len(events') # 0
    BY <1>2, <1>4, <2>2
  <2>4. events' # <<>>
    BY <2>3
  <2> QED BY <1>3, <2>1, <2>3, <2>4 DEF Opened
<1>7. Closed'
  BY <1>0, <1>2, <1>3, <1>4 DEF Closed, Protocol, Terminal
<1>8. Counted'
  <2>1. place \notin StartsAt
    BY <1>4 DEF StartsAt
  <2>2. ~InHandler /\ InHandler'
    BY <1>3 DEF InHandler
  <2>3. IsFiniteSet(StartsAt') /\ Cardinality(StartsAt') = steps + 1
    BY <1>5, <2>1, <2>2, FS_AddElement DEF Protocol, Counted
  <2> QED BY <1>3, <1>5, <2>2, <2>3 DEF Protocol, Counted
<1>9. Answered'
  <2>1. ASSUME NEW i \in StartsAt, NEW j \in Nat, j <= place, AnsweredBefore(i, j)
        PROVE  AnsweredBefore(i, j)'
    <3>1. i \in DOMAIN events /\ j <= Len(events) + 1 /\ j <= j
      BY <2>1 DEF StartsAt
    <3> QED BY <1>1, <2>1, <3>1, StaysAnswered DEF AnsweredBefore
  <2>2. ASSUME NEW i \in StartsAt PROVE AnsweredBefore(i, place)
    BY <1>3 DEF Protocol, Answered, InHandler
  <2>3. place \in Nat /\ place <= place /\ \A j \in StartsAt : j \in Nat /\ j <= place /\ ~(place < j)
    BY <1>2 DEF StartsAt
  <2>4. ASSUME NEW i \in StartsAt, NEW j \in StartsAt, i < j
        PROVE  \E k \in i + 1 .. j - 1 : ReportOf(events'[k], events'[i].node)
    BY <2>1, <2>3, <2>4 DEF Protocol, Answered, AnsweredBefore
  <2>5. ASSUME NEW i \in StartsAt
        PROVE  \E k \in i + 1 .. place - 1 : ReportOf(events'[k], events'[i].node)
    <3>1. i \in DOMAIN events /\ place <= Len(events) + 1
      BY <2>3 DEF StartsAt
    <3> QED BY <1>1, <2>2, <2>3, <3>1, StaysAnswered
  <2>6. ASSUME NEW i \in StartsAt
        PROVE  \E k \in i + 1 .. (place + 1) - 1 : ReportOf(events'[k], events'[i].node)
    <3>1. PICK k \in i + 1 .. place - 1 : ReportOf(events'[k], events'[i].node)
      BY <2>5
    <3>2. k \in i + 1 .. (place + 1) - 1
      BY <2>3, <3>1 DEF StartsAt
    <3> QED BY <3>1, <3>2
  <2>7. InHandler' /\ events'[place].node = cur'
    BY <1>0, <1>3, <1>4 DEF InHandler
  <2>8. ~(place < place)
    BY <2>3
  <2>9. ASSUME NEW i \in StartsAt', NEW j \in StartsAt', i < j
        PROVE  \E k \in i + 1 .. j - 1 : ReportOf(events'[k], events'[i].node)
    BY <1>5, <2>3, <2>4, <2>5, <2>8, <2>9
  <2>10. ASSUME NEW i \in StartsAt'
         PROVE  \/ \E k \in i + 1 .. (Len(events') + 1) - 1 : ReportOf(events'[k], events'[i].node)
                \/ InHandler' /\ events'[i].node = cur'
    BY <1>4, <1>5, <2>6, <2>7
  <2> QED BY <2>9, <2>10 DEF Answered, AnsweredBefore
<1> QED BY <1>2, <1>6, <1>7, <1>8, <1>9 DEF Protocol

\* Every step keeps the order of events.
LEMMA ProtocolStep == Protocol /\ steps \in Nat /\ [Next]_vars => Protocol'
BY QuietSteps, QuietProtocol, RecordProtocol, StartProtocol DEF Protocol

\* No event was emitted yet.
LEMMA ProtocolInit == Init => Protocol
<1> SUFFICES ASSUME Init PROVE Protocol
  OBVIOUS
<1>1. events = <<>> /\ steps = 0 /\ pc = "init"
  BY DEF Init
<1>2. DOMAIN events = {} /\ EventsAreSeq
  BY <1>1, FewAreSeq DEF EventsAreSeq
<1>3. StartsAt = {} /\ ReportsAt = {}
  BY <1>2 DEF StartsAt, ReportsAt
<1> QED
  BY <1>1, <1>2, <1>3, FS_EmptySet DEF Protocol, Opened, Closed, Counted, Answered, InHandler

\* The event stream is a well-formed account of the run: opened once, every start
\* answered before the next, as many as the budget allows, and closed for good
\* (the emits of execute_loop and run).
THEOREM StreamWellFormed == Spec => []EventProtocol
<1>1. IInv /\ Protocol /\ [Next]_vars => Protocol'
  <2>1. IInv => steps \in Nat
    BY EngineAssumption DEF IInv, TypeOK, LoopTypeOK
  <2> QED BY <2>1, ProtocolStep
<1>2. IInv /\ Protocol => EventProtocol
  <2> SUFFICES ASSUME IInv, Protocol PROVE EventProtocol
    OBVIOUS
  <2>1. /\ steps \in 0 .. MaxSteps /\ MaxSteps \in Nat
        /\ InHandler => steps < MaxSteps
    BY EngineAssumption DEF IInv, TypeOK, LoopTypeOK, InHandler
  <2>2. Cardinality(StartsAt) <= MaxSteps
    BY <2>1 DEF Protocol, Counted
  <2> QED BY <2>1, <2>2 DEF EventProtocol, Protocol, Opened, Closed, Counted, Answered,
             AnsweredBefore, Tally, StartsAt, ReportsAt, InHandler
<1> QED BY <1>1, <1>2, ProtocolInit, Inductive, PTL DEF Spec

(* -------------------------- identical failures -------------------------- *)

\* The failures that count against node n with this error.
FailuresAt(n, error) ==
  {i \in DOMAIN events :
    /\ events[i].ev = "NodeFailed"
    /\ events[i].node = n
    /\ events[i].out.error = error
    /\ \A j \in i + 1 .. Len(events) :
         ~(ReportOf(events[j], n) /\ IsSuccess(events[j].out))}

\* The signatures count what the stream shows.
SignaturesTrue ==
  \A n, error : /\ IsFiniteSet(FailuresAt(n, error))
                /\ Cardinality(FailuresAt(n, error)) = Count(sigs, <<n, error>>)

\* A run goes on while no count has reached the limit, and no longer.
CutAtLimit ==
  /\ result = "DeterministicFailureCycle" =>
       /\ pc = "done"
       /\ \E n \in graph.nodes : \E error : Count(sigs, <<n, error>>) >= MaxIdentical
  /\ result # "DeterministicFailureCycle" =>
       \A n, error : Count(sigs, <<n, error>>) < MaxIdentical

CycleInv == MaxIdentical # 0 => SignaturesTrue /\ CutAtLimit

\* Events that are no reports neither count nor end a count.
LEMMA FailuresStay ==
  ASSUME EventsAreSeq, NEW es, Adds(es), \A i \in DOMAIN es : ~IsReport(es[i]), NEW n, NEW error
  PROVE  FailuresAt(n, error)' = FailuresAt(n, error)
<1>1. /\ DOMAIN events = 1 .. Len(events) /\ Len(events) \in Nat
      /\ DOMAIN es = 1 .. Len(es) /\ Len(es) \in Nat
      /\ DOMAIN events' = 1 .. Len(events) + Len(es) /\ Len(events') = Len(events) + Len(es)
      /\ \A i \in 1 .. Len(events) : events'[i] = events[i]
      /\ \A i \in 1 .. Len(es) : events'[Len(events) + i] = es[i]
  BY Appended
<1>2. ASSUME NEW i \in DOMAIN events', i \notin DOMAIN events PROVE ~IsReport(events'[i])
  <2>1. i - Len(events) \in 1 .. Len(es) /\ Len(events) + (i - Len(events)) = i
    BY <1>1, <1>2
  <2> QED BY <1>1, <2>1
<1>3. ASSUME NEW i \in DOMAIN events
      PROVE  (\A j \in i + 1 .. Len(events') : ~(ReportOf(events'[j], n) /\ IsSuccess(events'[j].out)))
               <=> \A j \in i + 1 .. Len(events) : ~(ReportOf(events[j], n) /\ IsSuccess(events[j].out))
  <2>1. ASSUME NEW j \in i + 1 .. Len(events) PROVE j \in i + 1 .. Len(events') /\ events'[j] = events[j]
    BY <1>1
  <2>2. ASSUME NEW j \in i + 1 .. Len(events'), j \notin i + 1 .. Len(events) PROVE ~IsReport(events'[j])
    <3>1. j \in DOMAIN events' /\ j \notin DOMAIN events
      BY <1>1, <2>2
    <3> QED BY <1>2, <3>1
  <2> QED BY <2>1, <2>2 DEF ReportOf
<1>4. DOMAIN events \subseteq DOMAIN events'
  BY <1>1
<1> QED BY <1>1, <1>2, <1>3, <1>4 DEF FailuresAt, IsReport

\* What the report of a node adds to the counts of a node and an error.
LEMMA FailuresGrow ==
  ASSUME EventsAreSeq, RecordOutcome, NEW n, NEW error
  PROVE  \A i : i \in FailuresAt(n, error)' <=>
                  \/ i \in FailuresAt(n, error) /\ (n = cur => ~IsSuccess(out))
                  \/ i = Len(events) + 1 /\ n = cur /\ IsFailure(out) /\ error = out.error
<1> DEFINE place == Len(events) + 1
           Ends(e, m) == ReportOf(e, m) /\ IsSuccess(e.out)
<1>0. PICK es : Adds(es) /\ 1 \in DOMAIN es /\ es[1] = RecordReport /\ OnlyAbortAfter(es)
  BY RecordAdds
<1>1. /\ DOMAIN events = 1 .. Len(events) /\ Len(events) \in Nat
      /\ DOMAIN es = 1 .. Len(es) /\ Len(es) \in Nat
      /\ DOMAIN events' = 1 .. Len(events) + Len(es) /\ Len(events') = Len(events) + Len(es)
      /\ \A i \in 1 .. Len(events) : events'[i] = events[i]
      /\ \A i \in 1 .. Len(es) : events'[Len(events) + i] = es[i]
  BY <1>0, Appended
<1>2. /\ RecordReport.ev = IF IsFailure(out) THEN "NodeFailed" ELSE "NodeCompleted"
      /\ RecordReport.node = cur /\ RecordReport.out = out /\ IsReport(RecordReport)
  BY DEF RecordReport, EvOutcome, IsReport
<1>3. place \in DOMAIN events' /\ place \notin DOMAIN events /\ events'[place] = RecordReport
  BY <1>0, <1>1
<1>4. ASSUME NEW i \in DOMAIN events', i \notin DOMAIN events, i # place PROVE ~IsReport(events'[i])
  <2>1. i - Len(events) \in 1 .. Len(es) /\ Len(events) + (i - Len(events)) = i
    BY <1>1, <1>4
  <2>2. events'[i] = es[i - Len(events)] /\ i - Len(events) # 1
    BY <1>1, <1>4, <2>1
  <2>3. es[i - Len(events)].ev = "PipelineAborted"
    BY <1>0, <1>1, <2>1, <2>2 DEF OnlyAbortAfter
  <2> QED BY <2>2, <2>3 DEF IsReport
<1>5. ASSUME NEW i \in DOMAIN events, NEW m
      PROVE  (\A j \in i + 1 .. Len(events') : ~Ends(events'[j], m))
               <=> (m = cur => ~IsSuccess(out)) /\ \A j \in i + 1 .. Len(events) : ~Ends(events[j], m)
  <2>1. ASSUME NEW j \in i + 1 .. Len(events) PROVE j \in i + 1 .. Len(events') /\ events'[j] = events[j]
    BY <1>1
  <2>2. ASSUME NEW j \in i + 1 .. Len(events'), j \notin i + 1 .. Len(events), j # place
        PROVE  ~IsReport(events'[j])
    <3>1. j \in DOMAIN events' /\ j \notin DOMAIN events
      BY <1>1, <2>2
    <3> QED BY <1>4, <2>2, <3>1
  <2>3. place \in i + 1 .. Len(events') /\ place \notin i + 1 .. Len(events)
    BY <1>1, <1>3
  <2>4. Ends(events'[place], m) <=> m = cur /\ IsSuccess(out)
    BY <1>2, <1>3 DEF ReportOf
  <2> QED BY <2>1, <2>2, <2>3, <2>4 DEF ReportOf
<1>6. ASSUME NEW m PROVE \A j \in place + 1 .. Len(events') : ~Ends(events'[j], m)
  <2>1. ASSUME NEW j \in place + 1 .. Len(events') PROVE ~IsReport(events'[j])
    <3>1. j \in DOMAIN events' /\ j \notin DOMAIN events /\ j # place
      BY <1>1
    <3> QED BY <1>4, <3>1
  <2> QED BY <2>1 DEF ReportOf
<1>7. DOMAIN events \subseteq DOMAIN events'
  BY <1>1
<1>8. ASSUME NEW m, NEW e, NEW i
      PROVE  i \in FailuresAt(m, e)' <=>
               \/ i \in FailuresAt(m, e) /\ (m = cur => ~IsSuccess(out))
               \/ i = place /\ m = cur /\ IsFailure(out) /\ e = out.error
  <2>1. CASE i \in DOMAIN events
    BY <1>1, <1>3, <1>5, <1>7, <2>1 DEF FailuresAt
  <2>2. CASE i = place
    BY <1>2, <1>3, <1>6, <2>2 DEF FailuresAt
  <2>3. CASE i \notin DOMAIN events /\ i # place
    BY <1>4, <2>3 DEF FailuresAt, IsReport
  <2> QED BY <2>1, <2>2, <2>3
<1> QED BY <1>8

\* Only recording an outcome touches the signatures and finds a failure cycle.
LEMMA CycleKept ==
  ASSUME [Next]_vars, ~RecordOutcome, result = "DeterministicFailureCycle" => pc = "done"
  PROVE  /\ UNCHANGED <<sigs, graph>>
         /\ result' = "DeterministicFailureCycle" <=> result = "DeterministicFailureCycle"
         /\ pc = "done" => pc' = "done"
<1>1. CASE HandlerReturns \/ Watchdog \/ UserCancels \/ UNCHANGED vars
  BY <1>1 DEF HandlerReturns, Watchdog, Tick, WatchdogFires, UserCancels, vars, config, loopVars
<1>2. CASE RejectGraph \/ Launch \/ AbortCancelled \/ AbortMaxSteps \/ PassChecks \/ StartNode
  BY <1>2 DEF RejectGraph, Launch, AbortCancelled, AbortMaxSteps, PassChecks, LookUp, StartNode,
              Return, config, loopVars
<1>3. CASE BeginSave \/ EndSave \/ SaveFails \/ ExitReached \/ GoalRetry \/ GoalsFail
  BY <1>3 DEF BeginSave, EndSave, SaveFails, ExitReached, AtExit, GoalRetry, GoTo, GoalsFail,
              Return, config, loopVars
<1>4. CASE EdgeError \/ TraverseEdge \/ FailureRoute \/ Unroutable \/ EndNoEdge \/ Finish
  BY <1>4 DEF EdgeError, TraverseEdge, FailureRoute, GoTo, Unroutable, EndNoEdge, NoEdge, AtEdges,
              Finish, Return, config, loopVars
<1> QED BY <1>1, <1>2, <1>3, <1>4 DEF Next, Loop

\* What recording an outcome does to the counts.
LEMMA CountsGrow ==
  ASSUME RecordOutcome, MaxIdentical # 0, NEW n, NEW error
  PROVE  /\ n # cur => Count(sigs', <<n, error>>) = Count(sigs, <<n, error>>)
         /\ IsSuccess(out) => Count(sigs', <<cur, error>>) = 0
         /\ ~IsSuccess(out) /\ (~IsFailure(out) \/ error # out.error) =>
              Count(sigs', <<cur, error>>) = Count(sigs, <<cur, error>>)
         /\ IsFailure(out) =>
              /\ Count(sigs', <<cur, out.error>>) = Count(sigs, <<cur, out.error>>) + 1
              /\ sigs'[<<cur, out.error>>] = Count(sigs', <<cur, out.error>>)
<1>0. sigs' = NewSigs
  BY DEF RecordOutcome
<1>1. CASE IsFailure(out)
  <2>1. sigs' = Bump(sigs, <<cur, out.error>>) /\ ~IsSuccess(out)
    BY <1>0, <1>1 DEF NewSigs, IsFailure, IsSuccess
  <2>2. \A p : Count(sigs', p) = IF p = <<cur, out.error>> THEN Count(sigs, p) + 1 ELSE Count(sigs, p)
    BY <2>1 DEF Bump, Count
  <2>3. n # cur => <<n, error>> # <<cur, out.error>>
    OBVIOUS
  <2>4. error # out.error => <<cur, error>> # <<cur, out.error>>
    OBVIOUS
  <2>5. <<cur, out.error>> \in DOMAIN sigs'
    BY <2>1 DEF Bump
  <2> QED BY <1>1, <2>1, <2>2, <2>3, <2>4, <2>5 DEF Count
<1>2. CASE IsSuccess(out)
  <2>1. sigs' = [p \in {q \in DOMAIN sigs : q[1] # cur} |-> sigs[p]] /\ ~IsFailure(out)
    BY <1>0, <1>2 DEF NewSigs, IsFailure, IsSuccess
  <2>2. <<n, error>>[1] = n /\ <<cur, error>>[1] = cur
    OBVIOUS
  <2> QED BY <1>2, <2>1, <2>2 DEF Count
<1>3. CASE ~IsFailure(out) /\ ~IsSuccess(out)
  BY <1>0, <1>3 DEF NewSigs
<1> QED BY <1>1, <1>2, <1>3

\* The counters of failures follow the events.
LEMMA CycleStep ==
  ASSUME IInv, EventsAreSeq, CycleInv, [Next]_vars, MaxIdentical # 0
  PROVE  CycleInv'
<1>0. SignaturesTrue /\ CutAtLimit
  BY DEF CycleInv
<1>1. CASE RecordOutcome
  <2>0. /\ cur \in graph.nodes /\ graph' = graph /\ pc = "record"
        /\ \A p \in DOMAIN sigs : sigs[p] \in Nat
    BY <1>1 DEF RecordOutcome, config, IInv, TypeOK, LoopTypeOK
  <2>1. ASSUME NEW n, NEW error
        PROVE  /\ IsFiniteSet(FailuresAt(n, error)')
               /\ Cardinality(FailuresAt(n, error)') = Count(sigs', <<n, error>>)
    <3>0. /\ IsFiniteSet(FailuresAt(n, error))
          /\ Cardinality(FailuresAt(n, error)) = Count(sigs, <<n, error>>)
      BY <1>0 DEF SignaturesTrue
    <3>f. \A i : i \in FailuresAt(n, error)' <=>
                   \/ i \in FailuresAt(n, error) /\ (n = cur => ~IsSuccess(out))
                   \/ i = Len(events) + 1 /\ n = cur /\ IsFailure(out) /\ error = out.error
      BY <1>1, FailuresGrow
    <3>1. CASE n # cur
      <4>1. FailuresAt(n, error)' = FailuresAt(n, error)
        BY <3>f, <3>1
      <4> QED BY <1>1, <3>0, <3>1, <4>1, CountsGrow
    <3>2. CASE n = cur /\ IsSuccess(out)
      <4>1. FailuresAt(n, error)' = {}
        BY <3>f, <3>2 DEF IsFailure, IsSuccess
      <4>2. Count(sigs', <<n, error>>) = 0
        BY <1>1, <3>2, CountsGrow
      <4> QED BY <4>1, <4>2, FS_EmptySet
    <3>3. CASE n = cur /\ ~IsSuccess(out) /\ (~IsFailure(out) \/ error # out.error)
      <4>1. FailuresAt(n, error)' = FailuresAt(n, error)
        BY <3>f, <3>3
      <4>2. Count(sigs', <<n, error>>) = Count(sigs, <<n, error>>)
        BY <1>1, <3>3, CountsGrow
      <4> QED BY <3>0, <4>1, <4>2
    <3>4. CASE n = cur /\ IsFailure(out) /\ error = out.error
      <4>1. Len(events) + 1 \notin FailuresAt(n, error)
        BY DEF FailuresAt, EventsAreSeq
      <4>2. FailuresAt(n, error)' = FailuresAt(n, error) \cup {Len(events) + 1}
        BY <3>f, <3>4 DEF IsFailure, IsSuccess
      <4>3. Count(sigs', <<n, error>>) = Count(sigs, <<n, error>>) + 1
        BY <1>1, <3>4, CountsGrow
      <4> QED BY <3>0, <4>1, <4>2, <4>3, FS_AddElement
    <3> QED BY <3>1, <3>2, <3>3, <3>4 DEF IsFailure, IsSuccess
  <2>2. SignaturesTrue'
    BY <2>1 DEF SignaturesTrue
  <2>3. \A n, error : Count(sigs, <<n, error>>) < MaxIdentical /\ Count(sigs, <<n, error>>) \in Nat
    BY <1>0, <2>0 DEF CutAtLimit, Count
  <2>4. MaxIdentical \in Nat /\ sigs' = NewSigs
    BY <1>1, EngineAssumption DEF RecordOutcome
  <2>5. CASE FailureCycle
    <3>1. result' = "DeterministicFailureCycle" /\ pc' = "done"
      BY <1>1, <2>5 DEF RecordOutcome, Return
    <3>2. Count(sigs', <<cur, out.error>>) >= MaxIdentical
      BY <1>1, <2>4, <2>5, CountsGrow DEF FailureCycle
    <3> QED BY <2>0, <2>2, <3>1, <3>2 DEF CycleInv, CutAtLimit
  <2>6. CASE ~FailureCycle
    <3>1. result' = result /\ result # "DeterministicFailureCycle"
      BY <1>0, <1>1, <2>0, <2>6 DEF RecordOutcome, CutAtLimit
    <3>2. IsFailure(out) => Count(sigs', <<cur, out.error>>) < MaxIdentical
      <4>1. ASSUME IsFailure(out) PROVE Count(sigs', <<cur, out.error>>) < MaxIdentical
        <5>1. ~(Count(sigs', <<cur, out.error>>) >= MaxIdentical)
          BY <1>1, <2>4, <2>6, <4>1, CountsGrow DEF FailureCycle
        <5>2. Count(sigs', <<cur, out.error>>) \in Nat
          BY <1>1, <2>3, <4>1, CountsGrow
        <5> QED BY <2>4, <5>1, <5>2
      <4> QED BY <4>1
    <3>3. ASSUME NEW n, NEW error PROVE Count(sigs', <<n, error>>) < MaxIdentical
      <4>1. CASE n # cur
        BY <1>1, <2>3, <4>1, CountsGrow
      <4>2. CASE n = cur /\ IsSuccess(out)
        BY <1>1, <2>4, <4>2, CountsGrow
      <4>3. CASE n = cur /\ ~IsSuccess(out) /\ (~IsFailure(out) \/ error # out.error)
        BY <1>1, <2>3, <4>3, CountsGrow
      <4>4. CASE n = cur /\ IsFailure(out) /\ error = out.error
        BY <3>2, <4>4
      <4> QED BY <4>1, <4>2, <4>3, <4>4
    <3> QED BY <2>2, <3>1, <3>3 DEF CycleInv, CutAtLimit
  <2> QED BY <2>5, <2>6
<1>2. CASE ~RecordOutcome
  <2>1. /\ UNCHANGED <<sigs, graph>>
        /\ result' = "DeterministicFailureCycle" <=> result = "DeterministicFailureCycle"
        /\ pc = "done" => pc' = "done"
    BY <1>0, <1>2, CycleKept DEF CutAtLimit
  <2>2. \E es : Adds(es) /\ \A i \in DOMAIN es : ~IsReport(es[i])
    <3>1. CASE StartNode
      <4> DEFINE started == Ev("NodeStarted", cur)
      <4>1. Emit(<<started>>) /\ ~IsReport(started)
        BY <3>1, KindsWritten DEF StartNode, IsReport
      <4> HIDE DEF started
      <4>2. DOMAIN <<started>> = 1 .. 1 /\ <<started>>[1] = started
        OBVIOUS
      <4>3. \A i \in DOMAIN <<started>> : <<started>>[i] = started
        BY <4>2
      <4> QED BY <4>1, <4>3, FewAreSeq DEF Emit, Adds
    <3>2. CASE ~StartNode
      BY <1>2, <3>2, QuietSteps DEF QuietAdds
    <3> QED BY <3>1, <3>2
  <2>3. \A n, error : FailuresAt(n, error)' = FailuresAt(n, error)
    BY <2>2, FailuresStay
  <2> QED BY <1>0, <2>1, <2>3 DEF CycleInv, SignaturesTrue, CutAtLimit
<1> QED BY <1>1, <1>2

\* Counted on what subscribers see, a run ends as a deterministic failure cycle when
\* and only when some node has failed MaxIdentical times with the same error and
\* without a success in between (failure_signatures in execute_loop).
THEOREM CyclesCaught == Spec => []FailureCycleCaught
<1>1. Init => CycleInv
  <2> SUFFICES ASSUME Init, MaxIdentical # 0 PROVE SignaturesTrue /\ CutAtLimit
    BY DEF CycleInv
  <2>1. events = <<>> /\ sigs = Empty /\ result = "none"
    BY DEF Init
  <2>2. \A n, error : FailuresAt(n, error) = {} /\ Count(sigs, <<n, error>>) = 0
    BY <2>1 DEF FailuresAt, Count, Empty
  <2>3. MaxIdentical > 0
    BY EngineAssumption
  <2> QED BY <2>1, <2>2, <2>3, FS_EmptySet DEF SignaturesTrue, CutAtLimit
<1>2. IInv /\ Protocol /\ CycleInv /\ [Next]_vars => CycleInv'
  <2> SUFFICES ASSUME IInv, Protocol, CycleInv, [Next]_vars, MaxIdentical # 0 PROVE CycleInv'
    BY DEF CycleInv
  <2> QED BY CycleStep DEF Protocol
<1>3. IInv /\ CycleInv => FailureCycleCaught
  <2> SUFFICES ASSUME IInv, CycleInv, MaxIdentical # 0
               PROVE  (\E n \in graph.nodes,
                          error \in {events[i].out.error :
                                       i \in {j \in DOMAIN events : events[j].ev = "NodeFailed"}} :
                         IdenticalFailures(n, error) >= MaxIdentical)
                        <=> result = "DeterministicFailureCycle"
    BY DEF FailureCycleCaught
  <2>1. \A n, error : /\ IsFiniteSet(FailuresAt(n, error))
                      /\ IdenticalFailures(n, error) = Count(sigs, <<n, error>>)
                      /\ IdenticalFailures(n, error) = Cardinality(FailuresAt(n, error))
    BY ZenonT(60) DEF CycleInv, SignaturesTrue, IdenticalFailures, FailuresAt
  <2>2. MaxIdentical \in Nat /\ MaxIdentical > 0 /\ \A n, error : Count(sigs, <<n, error>>) \in Nat
    BY EngineAssumption DEF IInv, TypeOK, LoopTypeOK, Count
  <2>3. ASSUME NEW n, NEW error, IdenticalFailures(n, error) >= MaxIdentical
        PROVE  error \in {events[i].out.error :
                            i \in {j \in DOMAIN events : events[j].ev = "NodeFailed"}}
    <3>1. FailuresAt(n, error) # {}
      BY <2>1, <2>2, <2>3, FS_EmptySet
    <3> QED BY <3>1 DEF FailuresAt
  <2>4. result = "DeterministicFailureCycle" =>
          \E n \in graph.nodes : \E error : IdenticalFailures(n, error) >= MaxIdentical
    BY <2>1 DEF CycleInv, CutAtLimit
  <2>5. result # "DeterministicFailureCycle" =>
          \A n, error : ~(IdenticalFailures(n, error) >= MaxIdentical)
    <3>1. result # "DeterministicFailureCycle" =>
            \A n, error : Count(sigs, <<n, error>>) < MaxIdentical
      BY DEF CycleInv, CutAtLimit
    <3>2. ASSUME NEW c \in Nat, c < MaxIdentical PROVE ~(c >= MaxIdentical)
      BY <2>2, <3>2
    <3>3. \A n, error : IdenticalFailures(n, error) = Count(sigs, <<n, error>>)
      BY <2>1
    <3> QED BY <2>2, <3>1, <3>2, <3>3
  <2> QED BY <2>3, <2>4, <2>5
<1>4. IInv /\ Protocol /\ [Next]_vars => Protocol'
  <2>1. IInv => steps \in Nat
    BY EngineAssumption DEF IInv, TypeOK, LoopTypeOK
  <2> QED BY <2>1, ProtocolStep
<1> QED BY <1>1, <1>2, <1>3, <1>4, ProtocolInit, Inductive, PTL DEF Spec

(* ------------------------ what the lint promises ------------------------ *)

\* A pool of edges that is not empty has a best edge.
LEMMA PickBestExists ==
  ASSUME NEW g, IsGraph(g), NEW pool \in SUBSET g.edges, pool # {}
  PROVE  PickBest(g, pool) # {}
<1> DEFINE R == {p \in pool \X pool : Precedes(g, p[1], p[2])}
<1>1. IsFiniteSet(pool)
  BY FS_Subset DEF IsGraph
<1>2. \A e, f \in pool : <<e, f>> \in R <=> Precedes(g, e, f)
  OBVIOUS
<1>3. \A e \in pool : /\ e.priority \in Int /\ e.pos \in Nat /\ g.lex[e.to] \in Nat
                      /\ \A f \in pool : g.lex[e.to] = g.lex[f.to] => e.to = f.to
                      /\ \A f \in pool : e.pos = f.pos => e = f
  BY DEF IsGraph
<1>4. \A d, e, f \in pool : Precedes(g, d, e) /\ Precedes(g, e, f) => Precedes(g, d, f)
  BY <1>3 DEF Precedes
<1>5. \A e, f \in pool : e # f => Precedes(g, e, f) \/ Precedes(g, f, e)
  BY <1>3 DEF Precedes
<1>6. \E e \in pool : \A f \in pool \ {e} : <<e, f>> \in R
  <2> HIDE DEF R
  <2>1. \A d, e, f \in pool : <<d, e>> \in R /\ <<e, f>> \in R => <<d, f>> \in R
    BY <1>2, <1>4
  <2>2. \A e, f \in pool : e # f => <<e, f>> \in R \/ <<f, e>> \in R
    BY <1>2, <1>5
  <2> QED BY <1>1, <2>1, <2>2, FirstExists
<1> QED BY <1>2, <1>6 DEF PickBest

\* A node with an unconditional edge has an edge to follow, whatever its outcome.
LEMMA SelectedExists ==
  ASSUME NEW g, IsGraph(g), NEW n, NEW c, NEW o, Plain(g, n) # {}
  PROVE  SelectEdge(g, n, c, o) # {}
<1> DEFINE pool == Pools(g, n, c, o)
           Filled == {i \in 1 .. 5 : pool[i] # {}}
<1>1. DOMAIN pool = 1 .. 5 /\ pool[5] = Plain(g, n)
  BY DEF Pools
<1>2. \A i \in 1 .. 5 : pool[i] \subseteq g.edges
  BY DEF Pools, Plain, EdgesFrom
<1>3. PICK i \in Filled : \A k \in Filled : i <= k
  <2>1. Filled \in SUBSET Nat /\ Filled # {}
    BY <1>1
  <2> HIDE DEF Filled
  <2> QED BY <2>1, LeastNumber
<1>4. i \in {j \in DOMAIN pool : \A k \in 1 .. j - 1 : pool[k] = {}}
  BY <1>1, <1>3
<1>5. PickBest(g, pool[i]) # {}
  BY <1>2, <1>3, PickBestExists
<1> QED BY <1>4, <1>5 DEF SelectEdge

\* What the lint must have found for the engine to be sure of its way.
Sure(g) == IsClean(g) /\ Unconditional(g) /\ TargetsExist(g)

\* The graph is refused for its start nodes only; and where the way is sure, the
\* loop stays on nodes of the graph and finishes at an exit.
LintInv ==
  /\ result = "NoStartNode" => NoStartNode(graph)
  /\ result = "MultipleStartNodes" => MultipleStartNodes(graph)
  /\ Sure(graph) =>
       /\ pc = "top" => cur \in graph.nodes
       /\ pc = "finish" => graph.type[cur] = "Exit"
       /\ result \notin {"EdgeSelection", "UnroutableFailure", "NodeNotFound"}
       /\ result = "Completed" => graph.type[cur] = "Exit"

\* In a sure graph no node but an exit is without an edge to follow.
LEMMA SureWay ==
  ASSUME NEW g, IsGraph(g), Sure(g), NEW n \in g.nodes, g.type[n] # "Exit", NEW c, NEW o
  PROVE  /\ ~ParseError(g, n)
         /\ SelectEdge(g, n, c, o) # {}
<1>1. EdgesFrom(g, n) # {}
  BY DEF Sure, IsClean, DeadEndNodes
<1>2. \A e \in EdgesFrom(g, n) : e.cond.tag = "none"
  BY DEF Sure, Unconditional, HasExplicitCondition, EdgesFrom
<1>3. Plain(g, n) = EdgesFrom(g, n)
  BY <1>2 DEF Plain, HasExplicitCondition
<1> QED BY <1>1, <1>2, <1>3, SelectedExists DEF ParseError

\* No step of a run breaks what the lint promised.
LEMMA LintStep ==
  LoopTypeOK /\ EndsRight /\ LintInv /\ [Next]_vars => LintInv'
<1> SUFFICES ASSUME LoopTypeOK, EndsRight, LintInv, [Next]_vars PROVE LintInv'
  OBVIOUS
<1>g. IsGraph(graph)
  BY GraphInUse
<1>e. \A n, target : target \in ResolveRetryTarget(graph, n) /\ n \in graph.nodes /\ Sure(graph)
        => target \in graph.nodes
  BY DEF Sure, TargetsExist
<1>s. Sure(graph) /\ AtEdges => ~ParseError(graph, cur) /\ Selected # {}
  BY <1>g, SureWay DEF AtEdges, LoopTypeOK, Selected, Looping
<1> HIDE DEF Sure
<1>1. CASE RejectGraph
  <2>1. IsFiniteSet(StartNodes(graph))
    BY <1>g, FS_Subset DEF IsGraph, StartNodes
  <2>2. StartNodes(graph) # {} => Cardinality(StartNodes(graph)) > 1
    BY <1>1, <2>1, FS_EmptySet, FS_CardinalityType DEF RejectGraph
  <2> QED BY <1>1, <2>2 DEF RejectGraph, Return, LintInv, config, loopVars, NoStartNode, MultipleStartNodes
<1>2. CASE Launch
  BY <1>2 DEF Launch, LintInv, EndsRight, config, StartNodes
<1>3. CASE AbortCancelled \/ AbortMaxSteps \/ StartNode
  BY <1>3 DEF AbortCancelled, AbortMaxSteps, StartNode, Return, LintInv, config, loopVars
<1>4. CASE PassChecks
  BY <1>4 DEF PassChecks, LookUp, Return, LintInv, config, loopVars
<1>5. CASE RecordOutcome
  BY <1>5 DEF RecordOutcome, Return, LintInv, config
<1>6. CASE BeginSave \/ EndSave \/ SaveFails
  BY <1>6 DEF BeginSave, EndSave, SaveFails, LintInv, config, loopVars
<1>7. CASE ExitReached \/ GoalsFail
  BY <1>7 DEF ExitReached, AtExit, GoalsFail, Return, LintInv, config, loopVars
<1>8. CASE GoalRetry
  <2>1. PICK n \in FirstUnsatisfied(graph, outcomes) :
          \E target \in ResolveRetryTarget(graph, n) : GoTo(target)
    BY <1>8 DEF GoalRetry
  <2>2. n \in graph.nodes
    BY <1>g DEF FirstUnsatisfied, IsGraph
  <2> QED BY <1>8, <1>e, <2>1, <2>2 DEF GoalRetry, AtExit, GoTo, Return, LintInv, EndsRight, config
<1>9. CASE EdgeError
  BY <1>9, <1>s DEF EdgeError, Return, LintInv, config, loopVars
<1>10. CASE TraverseEdge
  <2>1. PICK e \in Selected : cur' = e.to
    BY <1>10 DEF TraverseEdge
  <2>2. e.to \in graph.nodes
    BY <1>g, SelectedLeaves DEF Selected, EdgesFrom, IsGraph
  <2> QED BY <1>10, <2>1, <2>2 DEF TraverseEdge, AtEdges, LintInv, EndsRight, config
<1>11. CASE FailureRoute
  BY <1>11, <1>s DEF FailureRoute, NoEdge, GoTo, Return, LintInv, config
<1>12. CASE Unroutable \/ EndNoEdge
  BY <1>12, <1>s DEF Unroutable, EndNoEdge, NoEdge, Return, LintInv, config, loopVars
<1>13. CASE Finish
  BY <1>13 DEF Finish, Return, LintInv, config, loopVars
<1>14. CASE HandlerReturns \/ Watchdog \/ UserCancels \/ UNCHANGED vars
  BY <1>14 DEF HandlerReturns, Watchdog, Tick, WatchdogFires, UserCancels, vars, LintInv, config, loopVars
<1> QED
  BY <1>1, <1>2, <1>3, <1>4, <1>5, <1>6, <1>7, <1>8, <1>9, <1>10, <1>11, <1>12, <1>13, <1>14
     DEF Next, Loop

\* Lint and engine agree (lint.rs against engine.rs): Engine::run refuses no graph the
\* lint finds without errors; and a clean graph without conditions, all of its retry
\* targets nodes, never loses its way, and completes at an exit node only.
THEOREM LintTrue == Spec => []LintPredicts
<1>1. Init => LintInv
  BY DEF Init, LintInv
<1>2. IInv /\ LintInv /\ [Next]_vars => LintInv'
  BY LintStep DEF IInv, TypeOK
<1>3. LintInv => LintPredicts
  BY DEF LintInv, LintPredicts, Sure, HasErrors
<1> QED BY <1>1, <1>2, <1>3, Inductive, PTL DEF Spec
(***************************************************************************)
(* The run descends: a rank that every step lowers                         *)
(***************************************************************************)

\* How far the loop is from leaving its current node.
Stage == CASE pc = "init"   -> 10
           [] pc = "save"   -> 9
           [] pc = "saving" -> 8
           [] pc = "route"  -> 7
           [] pc = "top"    -> 6
           [] pc = "start"  -> 5
           [] pc = "exec"   -> 4
           [] pc = "record" -> 3
           [] pc = "finish" -> 2
           [] OTHER         -> 1

\* The attempts that the policy of the executing node still allows.
TriesLeft == IF pc = "exec" THEN Left(graph.maxAttempts[cur], attempts) ELSE 0

\* What the clock, the watchdog and the user may do before the loop moves.
EnvironmentLeft == (StallTimeout + 1 - idle) + One(~stall) + One(~cancelled)

RunRank == <<MaxSteps - steps, Stage, TriesLeft, EnvironmentLeft>>

\* Each step of the loop, of a handler, of the watchdog and of the user uses up
\* steps of the budget, or brings the loop nearer to its next node, or uses up
\* an attempt, or something of the little that can happen beside the loop.
RunDescends == [][Lower(RunRank', RunRank)]_vars

\* What the rank needs: the bounds the loop keeps. Unlike the type invariant of
\* the loop they do not rest on where a run started.
Bounded ==
  /\ graph \in Graphs
  /\ pc \in {"start", "exec", "record"} => cur \in graph.nodes /\ steps < MaxSteps
  /\ steps \in 0 .. MaxSteps
  /\ attempts \in Nat
  /\ idle \in 0 .. StallTimeout + 1
  /\ cancelled \in BOOLEAN
  /\ stall \in BOOLEAN

\* The bounds hold when a run begins ...
LEMMA BoundedInit == Init => Bounded
<1> SUFFICES ASSUME Init PROVE Bounded
  OBVIOUS
<1>1. graph \in Graphs /\ cancelled = FALSE /\ stall = FALSE
  BY DEF Init
<1>2. pc = "init" /\ steps = 0 /\ attempts = 0 /\ idle = 0
  BY DEF Init
<1>3. steps \in 0 .. MaxSteps /\ attempts \in Nat /\ idle \in 0 .. StallTimeout + 1
  BY <1>2, EngineAssumption
<1>4. pc \notin {"start", "exec", "record"}
  BY <1>2
<1>5. cancelled \in BOOLEAN /\ stall \in BOOLEAN
  BY <1>1
<1> QED BY <1>1, <1>3, <1>4, <1>5 DEF Bounded

\* ... and every step keeps them.
LEMMA BoundedStep == Bounded /\ [Next]_vars => Bounded'
<1> SUFFICES ASSUME Bounded, [Next]_vars PROVE Bounded'
  OBVIOUS
<1> USE EngineAssumption DEF Bounded, config, loopVars, envVars
<1>1. CASE UNCHANGED vars
  BY <1>1 DEF vars
<1>2. CASE HandlerReturns \/ Watchdog \/ UserCancels
  <2>1. CASE HandlerReturns
    BY <2>1 DEF HandlerReturns
  <2>2. CASE Tick
    BY <2>2 DEF Tick
  <2>3. CASE WatchdogFires
    BY <2>3 DEF WatchdogFires
  <2>4. CASE UserCancels
    BY <2>4 DEF UserCancels
  <2> QED BY <1>2, <2>1, <2>2, <2>3, <2>4 DEF Watchdog
<1>3. CASE RejectGraph \/ Launch \/ AbortCancelled \/ AbortMaxSteps \/ PassChecks \/ StartNode
  BY <1>3 DEF RejectGraph, Launch, AbortCancelled, AbortMaxSteps, PassChecks, LookUp, StartNode,
              Return
<1>4. CASE RecordOutcome
  BY <1>4 DEF RecordOutcome, Return
<1>5. CASE BeginSave \/ EndSave \/ SaveFails \/ ExitReached \/ GoalRetry \/ GoalsFail
  BY <1>5 DEF BeginSave, EndSave, SaveFails, ExitReached, GoalRetry, GoalsFail, GoTo, Return
<1>6. CASE EdgeError \/ TraverseEdge \/ FailureRoute \/ Unroutable \/ EndNoEdge \/ Finish
  BY <1>6 DEF EdgeError, TraverseEdge, FailureRoute, Unroutable, EndNoEdge, Finish, GoTo, Return
<1> QED BY <1>1, <1>2, <1>3, <1>4, <1>5, <1>6 DEF Next, Loop

\* The stages and what is left of the attempts and beside the loop are numbers.
LEMMA RankParts ==
  Bounded => /\ MaxSteps - steps \in Nat /\ Stage \in Nat /\ TriesLeft \in Nat
                /\ EnvironmentLeft \in Nat
<1> SUFFICES ASSUME Bounded
             PROVE  /\ MaxSteps - steps \in Nat /\ Stage \in Nat /\ TriesLeft \in Nat
                    /\ EnvironmentLeft \in Nat
  OBVIOUS
<1>1. IsGraph(graph)
  BY EngineAssumption DEF Bounded
<1>2. TriesLeft \in Nat
  BY <1>1 DEF TriesLeft, Left, Bounded, IsGraph
<1>3. EnvironmentLeft \in Nat
  BY EngineAssumption DEF EnvironmentLeft, One, Bounded
<1>4. Stage \in Nat
  BY DEF Stage
<1> QED BY <1>2, <1>3, <1>4, EngineAssumption DEF Bounded

\* Every step lowers the rank.
LEMMA StepDescends ==
  ASSUME Bounded, Next
  PROVE  Lower(RunRank', RunRank)
<1> USE EngineAssumption DEF Bounded
<1> SUFFICES \/ MaxSteps - steps' < MaxSteps - steps
             \/ steps' = steps /\ Stage' < Stage
             \/ steps' = steps /\ Stage' = Stage /\ TriesLeft' < TriesLeft
             \/ /\ steps' = steps /\ Stage' = Stage /\ TriesLeft' = TriesLeft
                /\ EnvironmentLeft' < EnvironmentLeft
  BY LowerOfFour, SMTT(40) DEF RunRank
<1>g. IsGraph(graph)
  BY EngineAssumption DEF Bounded
<1>1. CASE RecordOutcome
  BY <1>1 DEF RecordOutcome
<1>2. CASE HandlerReturns
  <2>1. PICK b \in graph.behaviours[cur] :
          /\ attempts' = attempts + 1
          /\ pc' = IF ShouldRetry(graph, cur, attempts', b.out) THEN "exec" ELSE "record"
    BY <1>2 DEF HandlerReturns
  <2>2. UNCHANGED <<graph, cur, steps>> /\ pc = "exec" /\ cur \in graph.nodes
    BY <1>2 DEF HandlerReturns, config
  <2>3. CASE ShouldRetry(graph, cur, attempts', b.out)
    <3>1. attempts' < graph.maxAttempts[cur] /\ graph.maxAttempts[cur] \in Nat
      BY <1>g, <2>2, <2>3 DEF ShouldRetry, IsGraph
    <3> QED BY <2>1, <2>2, <2>3, <3>1 DEF Stage, TriesLeft, Left
  <2>4. CASE ~ShouldRetry(graph, cur, attempts', b.out)
    BY <2>1, <2>2, <2>4 DEF Stage
  <2> QED BY <2>3, <2>4
<1>3. CASE Watchdog \/ UserCancels
  <2>1. UNCHANGED <<graph, cur, steps, pc, attempts>>
    BY <1>3 DEF Watchdog, Tick, WatchdogFires, UserCancels, config, loopVars
  <2>2. Stage' = Stage /\ TriesLeft' = TriesLeft
    BY <2>1 DEF Stage, TriesLeft
  <2>3. EnvironmentLeft' < EnvironmentLeft
    <3>1. idle \in Int /\ StallTimeout \in Int
      OBVIOUS
    <3>2. CASE Tick
      BY <3>1, <3>2 DEF Tick, EnvironmentLeft, One
    <3>3. CASE WatchdogFires
      <4>1. idle' = idle /\ stall = FALSE /\ stall' = TRUE /\ cancelled' = TRUE
        BY <3>3 DEF WatchdogFires
      <4> QED BY <3>1, <4>1 DEF EnvironmentLeft, One
    <3>4. CASE UserCancels
      BY <3>1, <3>4 DEF UserCancels, EnvironmentLeft, One
    <3> QED BY <1>3, <3>2, <3>3, <3>4 DEF Watchdog
  <2> QED BY <2>1, <2>2, <2>3
<1>4. CASE Loop /\ ~RecordOutcome
  <2>1. steps' = steps /\ Stage' < Stage
    BY <1>4 DEF Loop, RejectGraph, Launch, AbortCancelled, AbortMaxSteps, PassChecks, LookUp,
                StartNode, BeginSave, EndSave, SaveFails, ExitReached, GoalRetry, GoalsFail,
                AtExit, AtEdges, NoEdge, GoTo, EdgeError, TraverseEdge, FailureRoute,
                Unroutable, EndNoEdge, Finish, Return, loopVars, Stage
  <2> QED BY <2>1
<1> QED BY <1>1, <1>2, <1>3, <1>4 DEF Next

\* A run of any pipeline, however its nodes fail, loop and retry and whatever
\* the watchdog and the user do, takes finitely many steps: its rank is a tuple
\* of naturals which each step lowers (engine.rs, the loop of Engine::run).
THEOREM RunsDescend == Spec => [](RunRank \in [1 .. 4 -> Nat]) /\ RunDescends
<1>1. Bounded => RunRank \in [1 .. 4 -> Nat]
  BY RankParts DEF RunRank
<1>2. Bounded /\ [Next]_vars => [Lower(RunRank', RunRank)]_vars
  BY StepDescends
<1>3. Init => Bounded
  BY BoundedInit
<1> QED BY <1>1, <1>2, <1>3, BoundedStep, PTL DEF Spec, RunDescends
(***************************************************************************)
(* Routing decides: never a choice, never at a loss                        *)
(***************************************************************************)

\* The edges of the node whose own condition holds.
Chosen(g, n, c) ==
  {e \in EdgesFrom(g, n) : HasExplicitCondition(e) /\ EvaluateCondition(e.cond.clauses, c)}

\* At an exit the goals are met or one goal decides; elsewhere there is at most
\* one edge to follow, and none only where no condition holds and every edge
\* has one; and a node has at most one retry target.
RoutingDecides ==
  pc = "route" =>
    /\ AtExit /\ ~GoalsMet(graph, outcomes) =>
         \E n \in Range(graph.goals) : FirstUnsatisfied(graph, outcomes) = {n}
    /\ AtEdges =>
         /\ \A e, f \in Selected : e = f
         /\ Selected = {} <=> Plain(graph, cur) = {} /\ Chosen(graph, cur, RoutingCtx) = {}
    /\ \A n \in graph.nodes : \A s, t \in ResolveRetryTarget(graph, n) : s = t

\* The selection yields one edge at most.
LEMMA SelectedOne ==
  ASSUME NEW g, IsGraph(g), NEW n, NEW c, NEW o,
         NEW e \in SelectEdge(g, n, c, o), NEW f \in SelectEdge(g, n, c, o)
  PROVE  e = f
<1> DEFINE pool == Pools(g, n, c, o)
<1>1. DOMAIN pool = 1 .. 5 /\ \A i \in 1 .. 5 : pool[i] \subseteq g.edges
  BY DEF Pools, Plain, EdgesFrom
<1>2. \A d \in SelectEdge(g, n, c, o) :
        \E i \in 1 .. 5 : d \in PickBest(g, pool[i]) /\ \A k \in 1 .. i - 1 : pool[k] = {}
  BY <1>1 DEF SelectEdge
<1> HIDE DEF pool
<1>3. PICK i \in 1 .. 5 : e \in PickBest(g, pool[i]) /\ \A k \in 1 .. i - 1 : pool[k] = {}
  BY <1>2
<1>4. PICK j \in 1 .. 5 : f \in PickBest(g, pool[j]) /\ \A k \in 1 .. j - 1 : pool[k] = {}
  BY <1>2
<1>5. pool[i] # {} /\ pool[j] # {}
  BY <1>3, <1>4 DEF PickBest
<1>6. i = j
  BY <1>3, <1>4, <1>5
<1>7. \A d \in pool[i] : d.priority \in Int /\ d.pos \in Int /\ g.lex[d.to] \in Int
  BY <1>1 DEF IsGraph
<1> QED BY <1>3, <1>4, <1>6, <1>7, PickBestUnique

\* It yields none only when nothing unconditional leaves the node and no
\* condition holds.
LEMMA SelectedNone ==
  ASSUME NEW g, IsGraph(g), NEW n, NEW c, NEW o
  PROVE  SelectEdge(g, n, c, o) = {} <=> Plain(g, n) = {} /\ Chosen(g, n, c) = {}
<1> DEFINE pool == Pools(g, n, c, o)
<1>1. /\ DOMAIN pool = 1 .. 5 /\ \A i \in 1 .. 5 : pool[i] \subseteq g.edges
      /\ pool[1] = Chosen(g, n, c)
      /\ \A i \in 2 .. 5 : pool[i] \subseteq Plain(g, n)
  BY DEF Pools, Plain, EdgesFrom, Chosen
<1>2. SelectEdge(g, n, c, o) =
        UNION {PickBest(g, pool[i]) : i \in {j \in 1 .. 5 : \A k \in 1 .. j - 1 : pool[k] = {}}}
  BY <1>1 DEF SelectEdge
<1> HIDE DEF pool
<1>3. CASE Plain(g, n) = {} /\ Chosen(g, n, c) = {}
  <2>1. ASSUME NEW i \in 1 .. 5 PROVE PickBest(g, pool[i]) = {}
    <3>1. pool[i] = {}
      BY <1>1, <1>3
    <3> QED BY <3>1 DEF PickBest
  <2> QED BY <1>2, <1>3, <2>1
<1>4. CASE Plain(g, n) = {} /\ Chosen(g, n, c) # {}
  <2>1. PickBest(g, pool[1]) # {}
    BY <1>1, <1>4, PickBestExists
  <2> QED BY <1>2, <1>4, <2>1
<1>5. CASE Plain(g, n) # {}
  BY <1>5, SelectedExists
<1> QED BY <1>3, <1>4, <1>5

\* Where some goal is not met, one goal is the first of these.
LEMMA FirstGoal ==
  ASSUME NEW g, IsGraph(g), NEW os, ~GoalsMet(g, os)
  PROVE  \E n \in Range(g.goals) : FirstUnsatisfied(g, os) = {n}
<1> DEFINE Unmet == {j \in DOMAIN g.goals : ~Satisfied(os, g.goals[j])}
<1>1. DOMAIN g.goals = 1 .. Len(g.goals) /\ Len(g.goals) \in Nat
  BY DEF IsGraph
<1>2. PICK i \in Unmet : \A k \in Unmet : i <= k
  <2>1. Unmet \in SUBSET Nat /\ Unmet # {}
    BY <1>1 DEF GoalsMet, Range
  <2> HIDE DEF Unmet
  <2> QED BY <2>1, LeastNumber
<1>3. \A k \in 1 .. i - 1 : Satisfied(os, g.goals[k])
  BY <1>1, <1>2
<1>4. ASSUME NEW j \in DOMAIN g.goals, ~Satisfied(os, g.goals[j]),
             \A k \in 1 .. j - 1 : Satisfied(os, g.goals[k])
      PROVE  j = i
  BY <1>1, <1>2, <1>4
<1>5. FirstUnsatisfied(g, os) = {g.goals[i]}
  BY <1>2, <1>3, <1>4 DEF FirstUnsatisfied
<1>6. g.goals[i] \in Range(g.goals)
  BY <1>2 DEF Range
<1> QED BY <1>5, <1>6

\* The chain of retry targets has one first target that is given.
LEMMA OneTarget ==
  ASSUME NEW g, NEW n, NEW s \in ResolveRetryTarget(g, n), NEW t \in ResolveRetryTarget(g, n)
  PROVE  s = t
<1> DEFINE chain == << g.retryTarget[n], g.fallbackTarget[n], g.graphTarget, g.graphFallback >>
<1>1. DOMAIN chain = 1 .. 4
  OBVIOUS
<1>2. \A u \in ResolveRetryTarget(g, n) :
        \E i \in 1 .. 4 : u = chain[i] /\ chain[i] # NoTarget /\ \A k \in 1 .. i - 1 : chain[k] = NoTarget
  BY <1>1 DEF ResolveRetryTarget
<1> HIDE DEF chain
<1>3. PICK i \in 1 .. 4 :
        s = chain[i] /\ chain[i] # NoTarget /\ \A k \in 1 .. i - 1 : chain[k] = NoTarget
  BY <1>2
<1>4. PICK j \in 1 .. 4 :
        t = chain[j] /\ chain[j] # NoTarget /\ \A k \in 1 .. j - 1 : chain[k] = NoTarget
  BY <1>2
<1> QED BY <1>3, <1>4

\* Wherever a run of any pipeline routes, the goal gate, the edge selection and
\* the retry targets leave one way at most, whatever the order in which edges
\* and goals were declared, and a node is without an edge only when nothing
\* unconditional leaves it (edge.rs, goals.rs, engine.rs).
THEOREM RoutesOneWay == Spec => []RoutingDecides
<1>1. LoopTypeOK => RoutingDecides
  <2> SUFFICES ASSUME LoopTypeOK PROVE RoutingDecides
    OBVIOUS
  <2>1. IsGraph(graph)
    BY GraphInUse
  <2>2. ~GoalsMet(graph, outcomes) =>
          \E n \in Range(graph.goals) : FirstUnsatisfied(graph, outcomes) = {n}
    BY <2>1, FirstGoal
  <2>3. \A e, f \in Selected : e = f
    BY <2>1, SelectedOne DEF Selected
  <2>4. Selected = {} <=> Plain(graph, cur) = {} /\ Chosen(graph, cur, RoutingCtx) = {}
    BY <2>1, SelectedNone DEF Selected
  <2>5. \A n \in graph.nodes : \A s, t \in ResolveRetryTarget(graph, n) : s = t
    BY OneTarget
  <2> QED BY <2>2, <2>3, <2>4, <2>5, Zenon DEF RoutingDecides
<1> QED BY <1>1, TypeCorrect, PTL DEF TypeOK
=============================================================================
