--------------------------- MODULE DurableProofs ---------------------------
(***************************************************************************)
(* What the run directory promises across any number of crashes, resumes   *)
(* and edited graphs.  Nothing here rests on the type invariant of Engine, *)
(* which a resume with another graph breaks: positions and visits are only *)
(* known to be names of nodes, not of nodes of the graph in use.  The      *)
(* second half is about what document and stylesheet ask for: that it is   *)
(* in the graph that is loaded from them, and in what a run makes of it.   *)
(***************************************************************************)
EXTENDS MCDurableRun, EngineProofs

AnyNode == NodeId \cup {NoNode}

\* A node whose checkpoint is being written has been visited.
VisitedBeforeSave == pc \in {"save", "saving"} => cur \in Range(visited)

\* The file holds a visit order without repetitions that begins the run's.
DiskSound ==
  disk.file = "saved" =>
    /\ disk.visited \in Seq(AnyNode)
    /\ IsInjective(disk.visited)
    /\ Len(disk.visited) <= Len(visited)
    /\ disk.current \in Range(disk.visited)

RunInv ==
  /\ graph \in Graphs
  /\ cur \in AnyNode
  /\ visited \in Seq(AnyNode)
  /\ VisitedMatchesOutcomes
  /\ VisitedBeforeSave
  /\ DiskSound
  /\ CheckpointConsistent

\* A visit order that begins another begins what is appended to it.
LEMMA StillBegins ==
  ASSUME NEW S, NEW s \in Seq(S), NEW t \in Seq(S), NEW n \in S,
         Len(t) <= Len(s), t = SubSeq(s, 1, Len(t))
  PROVE  /\ t = SubSeq(MarkVisited(s, n), 1, Len(t))
         /\ Len(t) <= Len(MarkVisited(s, n))
<1>1. CASE n \in Range(s)
  BY <1>1 DEF MarkVisited
<1>2. CASE n \notin Range(s)
  <2>1. MarkVisited(s, n) = Append(s, n)
    BY <1>2 DEF MarkVisited
  <2>2. SubSeq(Append(s, n), 1, Len(t)) = SubSeq(s, 1, Len(t))
    OBVIOUS
  <2> QED BY <2>1, <2>2
<1> QED BY <1>1, <1>2

\* A sequence begins itself.
LEMMA BeginsItself ==
  ASSUME NEW S, NEW s \in Seq(S)
  PROVE  s = SubSeq(s, 1, Len(s))
OBVIOUS

\* Only two operations write the file, and only saving it makes it whole.
LEMMA OnlySavesWrite ==
  [Next]_vars => BeginSave \/ EndSave \/ UNCHANGED disk
<1> SUFFICES ASSUME [Next]_vars, ~BeginSave, ~EndSave PROVE UNCHANGED disk
  OBVIOUS
<1>1. CASE HandlerReturns \/ Watchdog \/ UserCancels \/ UNCHANGED vars
  BY <1>1 DEF HandlerReturns, Watchdog, Tick, WatchdogFires, UserCancels, vars
<1>2. CASE RejectGraph \/ Launch \/ AbortCancelled \/ AbortMaxSteps \/ PassChecks \/ StartNode
  BY <1>2 DEF RejectGraph, Launch, AbortCancelled, AbortMaxSteps, PassChecks, LookUp, StartNode
<1>3. CASE RecordOutcome \/ SaveFails \/ ExitReached \/ GoalRetry \/ GoalsFail
  BY <1>3 DEF RecordOutcome, SaveFails, ExitReached, GoalRetry, GoalsFail
<1>4. CASE EdgeError \/ TraverseEdge \/ FailureRoute \/ Unroutable \/ EndNoEdge \/ Finish
  BY <1>4 DEF EdgeError, TraverseEdge, FailureRoute, Unroutable, EndNoEdge, Finish
<1> QED BY <1>1, <1>2, <1>3, <1>4 DEF Next, Loop

\* The position is always a name, and a save is only entered by recording.
LEMMA PositionStep ==
  ASSUME graph \in Graphs, cur \in AnyNode, [Next]_vars
  PROVE  /\ graph' = graph
         /\ cur' \in AnyNode
         /\ pc' \in {"save", "saving"} =>
              cur' = cur /\ (RecordOutcome \/ pc \in {"save", "saving"})
<1>g. IsGraph(graph)
  BY EngineAssumption
<1>1. CASE HandlerReturns \/ Watchdog \/ UserCancels \/ UNCHANGED vars
  BY <1>1 DEF HandlerReturns, Watchdog, Tick, WatchdogFires, UserCancels, vars, config, loopVars
<1>2. CASE RejectGraph \/ AbortCancelled \/ AbortMaxSteps \/ PassChecks \/ StartNode
  BY <1>2 DEF RejectGraph, AbortCancelled, AbortMaxSteps, PassChecks, LookUp, StartNode,
              Return, config, loopVars
<1>3. CASE Launch
  BY <1>3, <1>g DEF Launch, StartNodes, IsGraph, AnyNode, config
<1>4. CASE RecordOutcome \/ BeginSave \/ EndSave \/ SaveFails \/ ExitReached \/ GoalsFail
  BY <1>4 DEF RecordOutcome, BeginSave, EndSave, SaveFails, ExitReached, GoalsFail,
              Return, config, loopVars
<1>5. CASE GoalRetry \/ FailureRoute
  BY <1>5, <1>g DEF GoalRetry, FailureRoute, GoTo, Return, IsGraph, AnyNode, config
<1>6. CASE TraverseEdge
  <2>1. PICK e \in Selected : cur' = e.to
    BY <1>6 DEF TraverseEdge
  <2>2. e \in graph.edges
    BY SelectedLeaves DEF Selected, EdgesFrom
  <2>3. e.to \in graph.nodes
    BY <2>2, <1>g DEF IsGraph
  <2> QED BY <1>6, <2>1, <2>3, <1>g DEF TraverseEdge, IsGraph, AnyNode, config
<1>7. CASE EdgeError \/ Unroutable \/ EndNoEdge \/ Finish
  BY <1>7 DEF EdgeError, Unroutable, EndNoEdge, Finish, Return, config, loopVars
<1> QED BY <1>1, <1>2, <1>3, <1>4, <1>5, <1>6, <1>7 DEF Next, Loop

\* The invariant holds when the first process starts.
LEMMA RunInvInit == DurableInit => RunInv
<1> SUFFICES ASSUME DurableInit PROVE RunInv
  OBVIOUS
<1>1. visited = <<>> /\ DOMAIN outcomes = {} /\ disk.file = "absent" /\ pc = "init"
  BY DEF DurableInit, Init, NoFile, Empty
<1>2. graph \in Graphs /\ cur \in AnyNode
  BY DEF DurableInit, Init, AnyNode
<1>3. VisitedMatchesOutcomes
  BY <1>1 DEF VisitedMatchesOutcomes, Range, IsInjective
<1> QED
  BY <1>1, <1>2, <1>3 DEF RunInv, VisitedBeforeSave, DiskSound, CheckpointConsistent

\* The engine preserves it.
LEMMA RunInvEngine == RunInv /\ [Next]_vars => RunInv'
<1> SUFFICES ASSUME RunInv, [Next]_vars PROVE RunInv'
  OBVIOUS
<1>1. /\ graph' \in Graphs
      /\ cur' \in AnyNode
      /\ pc' \in {"save", "saving"} =>
           cur' = cur /\ (RecordOutcome \/ pc \in {"save", "saving"})
  BY PositionStep DEF RunInv
<1>2. CASE RecordOutcome
  <2>1. /\ visited' = MarkVisited(visited, cur)
        /\ DOMAIN outcomes' = DOMAIN outcomes \cup {cur}
        /\ disk' = disk
    BY <1>2 DEF RecordOutcome
  <2>2. visited' \in Seq(AnyNode)
    BY <2>1, MarkVisitedTyped DEF RunInv
  <2>3. Range(visited') = Range(visited) \cup {cur} /\ IsInjective(visited')
    BY <2>1, MarkVisitedRange DEF RunInv, VisitedMatchesOutcomes
  <2>4. VisitedMatchesOutcomes' /\ VisitedBeforeSave'
    BY <1>1, <2>1, <2>3 DEF RunInv, VisitedMatchesOutcomes, VisitedBeforeSave
  <2>5. CASE disk.file = "saved"
    <3>1. /\ disk.visited \in Seq(AnyNode) /\ visited \in Seq(AnyNode) /\ cur \in AnyNode
          /\ Len(disk.visited) <= Len(visited)
          /\ disk.visited = SubSeq(visited, 1, Len(disk.visited))
      BY <2>5 DEF RunInv, DiskSound, CheckpointConsistent
    <3>2. /\ disk.visited = SubSeq(visited', 1, Len(disk.visited))
          /\ Len(disk.visited) <= Len(visited')
      BY <2>1, <3>1, StillBegins
    <3>3. DiskSound' /\ CheckpointConsistent'
      BY <2>1, <2>5, <3>2 DEF RunInv, DiskSound, CheckpointConsistent
    <3> QED BY <1>1, <2>2, <2>4, <3>3 DEF RunInv
  <2>6. CASE disk.file # "saved"
    BY <1>1, <2>1, <2>2, <2>4, <2>6 DEF RunInv, DiskSound, CheckpointConsistent
  <2> QED BY <2>5, <2>6
<1>3. CASE UNCHANGED <<visited, outcomes>> /\ ~RecordOutcome
  <2>1. visited' \in Seq(AnyNode) /\ VisitedMatchesOutcomes'
    BY <1>3 DEF RunInv, VisitedMatchesOutcomes
  <2>2. VisitedBeforeSave'
    BY <1>1, <1>3 DEF RunInv, VisitedBeforeSave
  <2>3. CASE BeginSave
    <3>1. disk'.file = "torn"
      BY <2>3 DEF BeginSave, Torn
    <3> QED BY <1>1, <2>1, <2>2, <3>1 DEF RunInv, DiskSound, CheckpointConsistent
  <2>4. CASE EndSave
    <3>1. /\ disk'.current = cur /\ disk'.visited = visited /\ disk'.outcomes = outcomes
          /\ cur \in Range(visited)
      BY <2>4 DEF EndSave, Checkpoint, RunInv, VisitedBeforeSave
    <3>2. visited = SubSeq(visited, 1, Len(visited)) /\ Len(visited) <= Len(visited)
      BY BeginsItself DEF RunInv
    <3>3. DiskSound' /\ CheckpointConsistent'
      BY <1>3, <3>1, <3>2 DEF RunInv, DiskSound, CheckpointConsistent, VisitedMatchesOutcomes
    <3> QED BY <1>1, <2>1, <2>2, <3>3 DEF RunInv
  <2>5. CASE UNCHANGED disk
    BY <1>1, <1>3, <2>1, <2>2, <2>5 DEF RunInv, DiskSound, CheckpointConsistent
  <2> QED BY <2>3, <2>4, <2>5, OnlySavesWrite
<1> QED BY <1>2, <1>3, OnlyRecordVisits

\* A new process takes over what is on disk.
LEMMA RunInvResume ==
  ASSUME RunInv, disk.file = "saved", graph' \in Graphs, UNCHANGED disk,
         NEW seed, RunFromCheckpoint(seed)
  PROVE  RunInv'
<1>1. /\ cur' = disk.current /\ visited' = disk.visited /\ outcomes' = disk.outcomes
      /\ pc' = "top"
  BY DEF RunFromCheckpoint, Afresh
<1>2. /\ disk.visited \in Seq(AnyNode) /\ IsInjective(disk.visited)
      /\ disk.current \in Range(disk.visited) /\ DOMAIN disk.outcomes = Range(disk.visited)
  BY DEF RunInv, DiskSound, CheckpointConsistent
<1>3. disk.current \in AnyNode
  BY <1>2 DEF Range
<1>4. disk.visited = SubSeq(disk.visited, 1, Len(disk.visited))
      /\ Len(disk.visited) <= Len(disk.visited)
  BY <1>2, BeginsItself
<1> QED
  BY <1>1, <1>2, <1>3, <1>4
     DEF RunInv, VisitedMatchesOutcomes, VisitedBeforeSave, DiskSound, CheckpointConsistent

\* Every step of the run directory's life preserves the invariant.
LEMMA RunInvStep == RunInv /\ [DurableNext]_durableVars => RunInv'
<1> SUFFICES ASSUME RunInv, [DurableNext]_durableVars PROVE RunInv'
  OBVIOUS
<1>1. CASE Next \/ UNCHANGED vars
  BY <1>1, RunInvEngine
<1>2. CASE Crash
  BY <1>2 DEF Crash, RunInv, VisitedMatchesOutcomes, VisitedBeforeSave, DiskSound,
              CheckpointConsistent, config, loopVars
<1>3. CASE Archive
  BY <1>3, RunInvEngine DEF Archive
<1>4. CASE ResumeRun \/ ResumeCommand
  BY <1>4, RunInvResume, LaunchAssumption DEF ResumeRun, ResumeCommand, NewProcess
<1>5. CASE UNCHANGED durableVars
  BY <1>5, RunInvEngine DEF durableVars
<1> QED BY <1>1, <1>2, <1>3, <1>4, <1>5 DEF DurableNext

\* The disk holds a beginning of the run, through crashes and resumes.
LEMMA RunInductive == DurableSpec => []RunInv
BY RunInvInit, RunInvStep, PTL DEF DurableSpec

\* Across any number of crashes and resumes, with any graph, what is on disk is
\* a moment of the run that goes on (run_from_checkpoint, Checkpoint::save).
THEOREM DiskBelongsToRun == DurableSpec => []CheckpointOfThisRun
<1>1. RunInv => CheckpointOfThisRun
  BY DEF RunInv, CheckpointOfThisRun
<1> QED BY <1>1, RunInductive, PTL
(* ------------------------- announced checkpoints ------------------------ *)

\* The checkpoint announced at place i is the last thing known of any node.
Newest(i) ==
  /\ events[i].ev = "CheckpointCreated"
  /\ \A j \in i + 1 .. Len(events) : ~IsReport(events[j])

\* The announced checkpoint is on disk, and no save is on its way to replace it:
\* the next save comes after the next report.
AnnouncedKept ==
  \A i \in DOMAIN events :
    Newest(i) => /\ pc \notin {"save", "saving"}
                 /\ disk.file = "saved"
                 /\ disk.current = events[i].node
                 /\ disk.outcomes = outcomes
                 /\ disk.visited = visited

AnnounceInv == EventsAreSeq /\ AnnouncedKept

Announces(es) == \E i \in DOMAIN es : es[i].ev = "CheckpointCreated"

\* An event that was newest and still is, is one the step appended nothing
\* about; one that is newly newest was appended.
LEMMA NewestBefore ==
  ASSUME EventsAreSeq, NEW es, Adds(es), NEW i \in DOMAIN events', Newest(i)'
  PROVE  \/ i \in DOMAIN events /\ Newest(i) /\ events'[i] = events[i]
            /\ \A j \in DOMAIN es : ~IsReport(es[j])
         \/ \E k \in DOMAIN es : i = Len(events) + k /\ es[k].ev = "CheckpointCreated"
<1> USE Appended
<1>1. CASE i \in 1 .. Len(events)
  <2>1. events[i].ev = "CheckpointCreated"
    BY <1>1 DEF Newest
  <2>2. ASSUME NEW j \in i + 1 .. Len(events) PROVE ~IsReport(events[j])
    <3>1. j \in i + 1 .. Len(events') /\ events'[j] = events[j]
      BY <1>1
    <3>2. ~IsReport(events'[j])
      BY <3>1 DEF Newest
    <3> QED BY <3>1, <3>2
  <2>3. ASSUME NEW j \in DOMAIN es PROVE ~IsReport(es[j])
    <3>0. j \in 1 .. Len(es) /\ Len(es) \in Nat /\ Len(events) \in Nat
      BY <2>3
    <3>1. Len(events) + j \in i + 1 .. Len(events')
      BY <1>1, <3>0
    <3>3. events'[Len(events) + j] = es[j]
      BY <3>0
    <3>2. ~IsReport(events'[Len(events) + j])
      BY <3>1 DEF Newest
    <3> QED BY <3>2, <3>3
  <2> QED BY <1>1, <2>1, <2>2, <2>3 DEF Newest
<1>2. CASE i \notin 1 .. Len(events)
  <2>1. i - Len(events) \in DOMAIN es /\ i = Len(events) + (i - Len(events))
    BY <1>2
  <2>2. events'[i] = es[i - Len(events)]
    BY <2>1
  <2> QED BY <2>1, <2>2 DEF Newest
<1> QED BY <1>1, <1>2

\* A step that appends no announcement and touches neither file nor outcomes,
\* and does not begin a save, keeps what was announced.
LEMMA KeptWhenQuiet ==
  ASSUME AnnounceInv, NEW es, Adds(es), ~Announces(es),
         UNCHANGED <<visited, outcomes, disk>>,
         pc' \in {"save", "saving"} => pc \in {"save", "saving"}
  PROVE  AnnounceInv'
<1>1. EventsAreSeq'
  BY Appended DEF AnnounceInv
<1>2. ASSUME NEW i \in DOMAIN events', Newest(i)'
      PROVE  /\ pc' \notin {"save", "saving"}
             /\ disk'.file = "saved"
             /\ disk'.current = events'[i].node
             /\ disk'.outcomes = outcomes'
             /\ disk'.visited = visited'
  <2>1. i \in DOMAIN events /\ Newest(i) /\ events'[i] = events[i]
    BY <1>2, NewestBefore DEF AnnounceInv, Announces
  <2> QED BY <2>1 DEF AnnounceInv, AnnouncedKept
<1> QED BY <1>1, <1>2 DEF AnnounceInv, AnnouncedKept

\* Neither announced nor reported.
Passing(es) == ~Announces(es) /\ \A i \in DOMAIN es : ~IsReport(es[i])

PassingKind == EventKind \ {"CheckpointCreated", "NodeCompleted", "NodeFailed"}

\* One event of such a kind, and two.
LEMMA FewPass ==
  ASSUME NEW e, NEW f, e.ev \in PassingKind, f.ev \in PassingKind
  PROVE  Passing(<<e>>) /\ Passing(<<e, f>>)
<1>1. /\ e.ev # "CheckpointCreated" /\ ~IsReport(e)
      /\ f.ev # "CheckpointCreated" /\ ~IsReport(f)
  BY DEF PassingKind, IsReport
<1>2. /\ DOMAIN <<e>> = 1 .. 1 /\ <<e>>[1] = e /\ \A i \in 1 .. 1 : i = 1
      /\ DOMAIN <<e, f>> = 1 .. 2 /\ <<e, f>>[1] = e /\ <<e, f>>[2] = f
      /\ \A i \in 1 .. 2 : i = 1 \/ i = 2
  OBVIOUS
<1>3. /\ \A i \in DOMAIN <<e>> : <<e>>[i] = e
      /\ \A i \in DOMAIN <<e, f>> : <<e, f>>[i] = e \/ <<e, f>>[i] = f
  BY <1>2
<1> QED BY <1>1, <1>3 DEF Passing, Announces

\* The steps of the engine other than recording and saving announce nothing and
\* begin no save.
LEMMA OthersQuiet ==
  ASSUME EventsAreSeq, [Next]_vars, ~RecordOutcome, ~BeginSave, ~EndSave
  PROVE  /\ \E es : Adds(es) /\ Passing(es)
         /\ pc' \in {"save", "saving"} => pc \in {"save", "saving"}
<1> DEFINE Quiet == \E es : Adds(es) /\ Passing(es)
           NoSave == pc' \in {"save", "saving"} => pc \in {"save", "saving"}
<1>0. (\E S : <<>> \in Seq(S)) /\ Passing(<<>>)
  <2>1. <<>> \in Seq({})
    OBVIOUS
  <2> QED BY <2>1 DEF Passing, Announces
<1>1. ASSUME NEW es, Emit(es), \E S : es \in Seq(S), Passing(es) PROVE Quiet
  BY <1>1 DEF Emit, Adds
<1>2. ASSUME NEW e, e.ev \in PassingKind, Emit(<<e>>) PROVE Quiet
  BY <1>1, <1>2, FewAreSeq, FewPass
<1>3. ASSUME UNCHANGED events PROVE Quiet
  <2>1. PICK S : events \in Seq(S)
    BY DEF EventsAreSeq
  <2>2. events' = events \o <<>>
    BY <1>3, <2>1
  <2> QED BY <1>0, <2>2 DEF Adds
<1>4. ASSUME Emit(<<>>) PROVE Quiet
  BY <1>0, <1>1, <1>4
<1>5. ASSUME Emit(Aborted) PROVE Quiet
  BY <1>2, <1>5, KindsWritten DEF Aborted, PassingKind, EventKind
<1> HIDE DEF Quiet
<1>6. CASE HandlerReturns \/ Watchdog \/ UserCancels \/ UNCHANGED vars
  <2>1. UNCHANGED events /\ NoSave
    BY <1>6 DEF HandlerReturns, Watchdog, Tick, WatchdogFires, UserCancels, vars
  <2> QED BY <2>1, <1>3 DEF Quiet
<1>7. CASE RejectGraph \/ AbortCancelled \/ AbortMaxSteps
  <2>1. NoSave /\ (Emit(<<>>) \/ Emit(Aborted))
    BY <1>7 DEF RejectGraph, AbortCancelled, AbortMaxSteps, Return
  <2> QED BY <2>1, <1>4, <1>5 DEF Quiet
<1>8. CASE Launch
  <2>1. NoSave /\ Emit(<<Ev("PipelineStarted", NoNode)>>)
    BY <1>8 DEF Launch
  <2> QED BY <2>1, <1>2, KindsWritten DEF Quiet, PassingKind, EventKind
<1>9. CASE PassChecks
  <2>1. NoSave /\ (UNCHANGED events \/ Emit(<<>>))
    BY <1>9 DEF PassChecks, LookUp, Return
  <2> QED BY <2>1, <1>3, <1>4 DEF Quiet
<1>10. CASE StartNode
  <2>1. NoSave /\ Emit(<<Ev("NodeStarted", cur)>>)
    BY <1>10 DEF StartNode
  <2> QED BY <2>1, <1>2, KindsWritten DEF Quiet, PassingKind, EventKind
<1>11. CASE SaveFails \/ ExitReached \/ EndNoEdge
  <2>1. NoSave /\ UNCHANGED events
    BY <1>11 DEF SaveFails, ExitReached, EndNoEdge
  <2> QED BY <2>1, <1>3 DEF Quiet
<1>12. CASE GoalRetry \/ FailureRoute \/ GoalsFail \/ EdgeError
  <2>1. NoSave /\ (UNCHANGED events \/ Emit(<<>>))
    BY <1>12 DEF GoalRetry, FailureRoute, GoTo, GoalsFail, EdgeError, Return
  <2> QED BY <2>1, <1>3, <1>4 DEF Quiet
<1>13. CASE Unroutable
  <2>1. NoSave /\ Emit(Aborted)
    BY <1>13 DEF Unroutable, Return
  <2> QED BY <2>1, <1>5 DEF Quiet
<1>14. CASE TraverseEdge
  <2>1. PICK e \in Selected :
          Emit(IF e.restart THEN <<EvEdge("EdgeTraversed", e), EvEdge("LoopRestarted", e)>>
                            ELSE <<EvEdge("EdgeTraversed", e)>>)
    BY <1>14 DEF TraverseEdge
  <2>2. NoSave
    BY <1>14 DEF TraverseEdge
  <2>3. /\ EvEdge("EdgeTraversed", e).ev \in PassingKind
        /\ EvEdge("LoopRestarted", e).ev \in PassingKind
    BY KindsWritten DEF PassingKind, EventKind
  <2>4. CASE e.restart
    <3>1. Emit(<<EvEdge("EdgeTraversed", e), EvEdge("LoopRestarted", e)>>)
      BY <2>1, <2>4
    <3> QED BY <3>1, <2>2, <2>3, <1>1, FewAreSeq, FewPass DEF Quiet
  <2>5. CASE ~e.restart
    <3>1. Emit(<<EvEdge("EdgeTraversed", e)>>)
      BY <2>1, <2>5
    <3> QED BY <3>1, <2>2, <2>3, <1>2 DEF Quiet
  <2> QED BY <2>4, <2>5
<1>15. CASE Finish
  <2>1. NoSave /\ (Emit(<<>>) \/ Emit(Completion))
    BY <1>15 DEF Finish, Return
  <2> QED BY <2>1, <1>2, <1>4, KindsWritten DEF Quiet, PassingKind, EventKind, Completion
<1> QED
  BY <1>6, <1>7, <1>8, <1>9, <1>10, <1>11, <1>12, <1>13, <1>14, <1>15 DEF Next, Loop, Quiet

\* The engine keeps what it announced.
LEMMA AnnounceEngine == AnnounceInv /\ [Next]_vars => AnnounceInv'
<1> SUFFICES ASSUME AnnounceInv, [Next]_vars PROVE AnnounceInv'
  OBVIOUS
<1>1. CASE RecordOutcome
  <2>0. PICK es : Adds(es) /\ 1 \in DOMAIN es /\ es[1] = RecordReport /\ OnlyAbortAfter(es)
    BY <1>1, RecordAdds
  <2>1. Adds(es) /\ ~Announces(es) /\ \E k \in DOMAIN es : IsReport(es[k])
    BY <2>0, KindsWritten DEF Announces, OnlyAbortAfter, RecordReport, IsReport
  <2>2. EventsAreSeq'
    BY <2>1, Appended DEF AnnounceInv
  <2>3. ASSUME NEW i \in DOMAIN events', Newest(i)' PROVE FALSE
    BY <2>1, <2>3, NewestBefore DEF AnnounceInv, Announces
  <2> QED BY <2>2, <2>3 DEF AnnounceInv, AnnouncedKept
<1>2. CASE BeginSave
  <2>1. /\ pc = "save" /\ UNCHANGED events
    BY <1>2 DEF BeginSave
  <2>2. ASSUME NEW i \in DOMAIN events PROVE ~Newest(i)
    BY <2>1 DEF AnnounceInv, AnnouncedKept
  <2> QED BY <2>1, <2>2 DEF AnnounceInv, AnnouncedKept, EventsAreSeq, Newest
<1>3. CASE EndSave
  <2> DEFINE created == Ev("CheckpointCreated", cur)
  <2>1. /\ pc = "saving" /\ pc' = "route" /\ disk' = Checkpoint
        /\ UNCHANGED <<visited, outcomes>>
        /\ events' = events \o <<created>>
    BY <1>3 DEF EndSave, loopVars, Emit
  <2>2. created.ev = "CheckpointCreated" /\ created.node = cur
    BY DEF Ev
  <2> HIDE DEF created
  <2>3. Adds(<<created>>)
    BY <2>1, FewAreSeq DEF Adds
  <2>4. EventsAreSeq'
    BY <2>3, Appended DEF AnnounceInv
  <2>5. ASSUME NEW i \in DOMAIN events PROVE ~Newest(i)
    BY <2>1 DEF AnnounceInv, AnnouncedKept
  <2>6. ASSUME NEW i \in DOMAIN events', Newest(i)' PROVE events'[i] = created
    <3>1. \E k \in DOMAIN <<created>> : i = Len(events) + k
      BY <2>3, <2>5, <2>6, NewestBefore DEF AnnounceInv
    <3>2. i = Len(events) + 1
      BY <3>1
    <3>3. 1 \in 1 .. Len(<<created>>)
      OBVIOUS
    <3>4. events'[Len(events) + 1] = <<created>>[1]
      BY <2>3, <3>3, Appended DEF AnnounceInv
    <3> QED BY <3>2, <3>4
  <2> QED BY <2>1, <2>2, <2>4, <2>6 DEF AnnounceInv, AnnouncedKept, Checkpoint
<1>4. CASE ~RecordOutcome /\ ~BeginSave /\ ~EndSave
  <2>1. /\ \E es : Adds(es) /\ ~Announces(es)
        /\ pc' \in {"save", "saving"} => pc \in {"save", "saving"}
    BY <1>4, OthersQuiet DEF AnnounceInv, Passing
  <2>2. UNCHANGED <<visited, outcomes, disk>>
    BY <1>4, OnlyRecordVisits, OnlySavesWrite
  <2> QED BY <2>1, <2>2, KeptWhenQuiet
<1> QED BY <1>1, <1>2, <1>3, <1>4

\* A new process has announced nothing.
LEMMA AnnounceResume ==
  ASSUME NEW seed, RunFromCheckpoint(seed)
  PROVE  AnnounceInv'
<1> DEFINE started == Ev("PipelineStarted", NoNode)
<1>1. events' = <<started>> /\ started.ev = "PipelineStarted"
  BY DEF RunFromCheckpoint, Afresh, Ev
<1> HIDE DEF started
<1>2. EventsAreSeq'
  BY <1>1, FewAreSeq DEF EventsAreSeq
<1>3. ASSUME NEW i \in DOMAIN events' PROVE ~Newest(i)'
  BY <1>1 DEF Newest
<1> QED BY <1>2, <1>3 DEF AnnounceInv, AnnouncedKept

\* Every step keeps the newest announcement on disk until the next report.
LEMMA AnnounceInvStep == AnnounceInv /\ [DurableNext]_durableVars => AnnounceInv'
<1> SUFFICES ASSUME AnnounceInv, [DurableNext]_durableVars PROVE AnnounceInv'
  OBVIOUS
<1>1. CASE Next \/ UNCHANGED vars
  BY <1>1, AnnounceEngine
<1>2. CASE Crash
  <2>1. pc' = "crashed" /\ UNCHANGED <<visited, outcomes, disk, events>>
    BY <1>2 DEF Crash, loopVars
  <2> QED BY <2>1 DEF AnnounceInv, AnnouncedKept, EventsAreSeq, Newest
<1>3. CASE Archive
  BY <1>3, AnnounceEngine DEF Archive
<1>4. CASE ResumeRun \/ ResumeCommand
  BY <1>4, AnnounceResume DEF ResumeRun, ResumeCommand
<1>5. CASE UNCHANGED durableVars
  BY <1>5, AnnounceEngine DEF durableVars
<1> QED BY <1>1, <1>2, <1>3, <1>4, <1>5 DEF DurableNext

\* So it is throughout.
LEMMA AnnounceInductive == DurableSpec => []AnnounceInv
<1>1. DurableInit => AnnounceInv
  <2> SUFFICES ASSUME DurableInit PROVE AnnounceInv
    OBVIOUS
  <2>1. events = <<>>
    BY DEF DurableInit, Init
  <2> QED BY <2>1, FewAreSeq DEF AnnounceInv, EventsAreSeq, AnnouncedKept
<1> QED BY <1>1, AnnounceInvStep, PTL DEF DurableSpec

\* What CheckpointCreated announced stays on disk until the next report, whatever
\* fails or dies (the save in execute_loop, Checkpoint::save).
THEOREM AnnouncedStaysOnDisk == DurableSpec => []AnnouncedCheckpointIsOnDisk
<1>1. AnnounceInv => AnnouncedCheckpointIsOnDisk
  BY DEF AnnounceInv, AnnouncedKept, Newest, AnnouncedCheckpointIsOnDisk
<1> QED BY <1>1, AnnounceInductive, PTL

(* --------------------------- what a crash costs ------------------------- *)

Reports == {i \in DOMAIN events : IsReport(events[i])}

\* The reports of this launch, if any, have a last one.
HasLast ==
  \/ Reports = {}
  \/ \E r \in Reports : \A j \in r + 1 .. Len(events) : ~IsReport(events[j])

\* Before its first report a launch stands where the file says.
FreshAgrees ==
  Reports = {} => /\ pc \notin {"save", "saving"}
                  /\ disk.file = "saved" => disk.outcomes = outcomes

LossInv == HasLast /\ FreshAgrees /\ AtMostOneNodeLost

\* Every report but the last was followed by its checkpoint.
AllSaved == \A i \in Reports : SavedAfter(i) \/ \A k \in Reports : k <= i

Latest == {events[i].node : i \in {j \in Reports : \A k \in Reports : k <= j}}

AgreesBut(nodes) ==
  disk.file = "saved" =>
    \A n \in DOMAIN outcomes \ nodes :
      n \in DOMAIN disk.outcomes /\ disk.outcomes[n] = outcomes[n]

\* The property, in the terms of the invariant.
LEMMA LossAsStated ==
  /\ AtMostOneNodeLost <=> (AllSaved => AgreesBut(Latest))
  /\ AtMostOneNodeLost' <=> (AllSaved' => AgreesBut(Latest)')
BY DEF AtMostOneNodeLost, AllSaved, AgreesBut, Latest, Reports

\* Nothing that is neither a report nor an announcement changes the account.
LEMMA AccountStays ==
  ASSUME EventsAreSeq, NEW es, Adds(es), ~Announces(es), \A i \in DOMAIN es : ~IsReport(es[i])
  PROVE  /\ Reports' = Reports
         /\ HasLast => HasLast'
         /\ AllSaved' <=> AllSaved
         /\ Latest' = Latest
<1>1. /\ DOMAIN events = 1 .. Len(events) /\ Len(events) \in Nat
      /\ DOMAIN es = 1 .. Len(es) /\ Len(es) \in Nat
      /\ DOMAIN events' = 1 .. Len(events) + Len(es) /\ Len(events') = Len(events) + Len(es)
      /\ \A i \in 1 .. Len(events) : events'[i] = events[i]
      /\ \A i \in 1 .. Len(es) : events'[Len(events) + i] = es[i]
  BY Appended
<1>2. ASSUME NEW i \in DOMAIN events', i \notin DOMAIN events
      PROVE  ~IsReport(events'[i]) /\ events'[i].ev # "CheckpointCreated"
  <2>1. i - Len(events) \in 1 .. Len(es) /\ Len(events) + (i - Len(events)) = i
    BY <1>1, <1>2
  <2>2. events'[i] = es[i - Len(events)] /\ i - Len(events) \in DOMAIN es
    BY <1>1, <2>1
  <2> QED BY <2>2 DEF Announces
<1>3. DOMAIN events \subseteq DOMAIN events' /\ \A i \in DOMAIN events : events'[i] = events[i]
  BY <1>1
<1>4. Reports' = Reports
  BY <1>2, <1>3 DEF Reports
<1>5. HasLast => HasLast'
  <2> SUFFICES ASSUME NEW r \in Reports, \A j \in r + 1 .. Len(events) : ~IsReport(events[j]),
                      NEW j \in r + 1 .. Len(events')
               PROVE  ~IsReport(events'[j])
    BY <1>4 DEF HasLast
  <2>1. r \in 1 .. Len(events)
    BY <1>1 DEF Reports
  <2>2. j \in DOMAIN events' /\ (j \in DOMAIN events => j \in r + 1 .. Len(events))
    BY <1>1, <2>1
  <2> QED BY <1>2, <1>3, <2>2
<1>6. ASSUME NEW i \in Reports PROVE SavedAfter(i)' <=> SavedAfter(i)
  <2>1. i \in 1 .. Len(events)
    BY <1>1 DEF Reports
  <2>2. ASSUME NEW k \in i + 1 .. Len(events)
        PROVE  /\ k \in i + 1 .. Len(events') /\ events'[k] = events[k]
               /\ \A j \in i + 1 .. k - 1 : events'[j] = events[j]
    BY <1>1, <2>1
  <2>3. ASSUME NEW k \in i + 1 .. Len(events'), k \notin i + 1 .. Len(events)
        PROVE  events'[k].ev # "CheckpointCreated"
    <3>1. k \in DOMAIN events' /\ k \notin DOMAIN events
      BY <1>1, <2>1, <2>3
    <3> QED BY <1>2, <3>1
  <2> QED BY <2>2, <2>3 DEF SavedAfter
<1>7. (AllSaved' <=> AllSaved) /\ Latest' = Latest
  BY <1>3, <1>4, <1>6 DEF AllSaved, Latest, Reports
<1> QED BY <1>4, <1>5, <1>7

\* When every report but a new one was saved, the file holds all but the new one.
LEMMA SavedBeforeReport ==
  ASSUME AnnounceInv, LossInv, \A i \in Reports : SavedAfter(i), disk.file = "saved"
  PROVE  disk.outcomes = outcomes
<1>1. CASE Reports = {}
  BY <1>1 DEF LossInv, FreshAgrees
<1>2. CASE Reports # {}
  <2>1. PICK r \in Reports : \A j \in r + 1 .. Len(events) : ~IsReport(events[j])
    BY <1>2 DEF LossInv, HasLast
  <2>2. PICK k \in r + 1 .. Len(events) : events[k].ev = "CheckpointCreated"
    BY <2>1 DEF SavedAfter
  <2>3. DOMAIN events = 1 .. Len(events) /\ Len(events) \in Nat
    BY DEF AnnounceInv, EventsAreSeq
  <2>4. k \in DOMAIN events /\ \A j \in k + 1 .. Len(events) : j \in r + 1 .. Len(events)
    BY <2>1, <2>2, <2>3 DEF Reports
  <2>5. Newest(k)
    BY <2>1, <2>2, <2>4 DEF Newest
  <2> QED BY <2>4, <2>5 DEF AnnounceInv, AnnouncedKept
<1> QED BY <1>1, <1>2

\* Recording an outcome makes its node the one that may be lost.
LEMMA LossRecord ==
  ASSUME AnnounceInv, LossInv, RecordOutcome
  PROVE  LossInv'
<1> DEFINE place == Len(events) + 1
<1>0. PICK es : Adds(es) /\ 1 \in DOMAIN es /\ es[1] = RecordReport /\ OnlyAbortAfter(es)
  BY RecordAdds
<1>1. /\ DOMAIN events = 1 .. Len(events) /\ Len(events) \in Nat
      /\ DOMAIN es = 1 .. Len(es) /\ Len(es) \in Nat
      /\ DOMAIN events' = 1 .. Len(events) + Len(es) /\ Len(events') = Len(events) + Len(es)
      /\ \A i \in 1 .. Len(events) : events'[i] = events[i]
      /\ \A i \in 1 .. Len(es) : events'[Len(events) + i] = es[i]
  BY <1>0, Appended DEF AnnounceInv
<1>2. RecordReport.node = cur /\ IsReport(RecordReport) /\ RecordReport.ev # "CheckpointCreated"
  BY DEF RecordReport, EvOutcome, IsReport
<1>3. place \in DOMAIN events' /\ place \notin DOMAIN events /\ events'[place] = RecordReport
  BY <1>0, <1>1
<1>4. ASSUME NEW i \in DOMAIN events', i \notin DOMAIN events
      PROVE  events'[i].ev # "CheckpointCreated" /\ (i # place => ~IsReport(events'[i]))
  <2>1. i - Len(events) \in 1 .. Len(es) /\ Len(events) + (i - Len(events)) = i
    BY <1>1, <1>4
  <2>2. events'[i] = es[i - Len(events)] /\ (i # place => i - Len(events) # 1)
    BY <1>1, <2>1
  <2>3. i # place => es[i - Len(events)].ev = "PipelineAborted"
    BY <1>0, <1>1, <2>1, <2>2 DEF OnlyAbortAfter
  <2> QED BY <1>2, <1>3, <2>2, <2>3 DEF IsReport
<1>5. DOMAIN events \subseteq DOMAIN events' /\ \A i \in DOMAIN events : events'[i] = events[i] /\ i < place
  BY <1>1
<1>6. Reports' = Reports \cup {place}
  BY <1>2, <1>3, <1>4, <1>5 DEF Reports
<1>7. \A k \in Reports' : k <= place
  BY <1>1, <1>6 DEF Reports
<1>8. HasLast' /\ FreshAgrees'
  <2>1. ASSUME NEW j \in place + 1 .. Len(events') PROVE ~IsReport(events'[j])
    <3>1. j \in DOMAIN events' /\ j \notin DOMAIN events /\ j # place
      BY <1>1
    <3> QED BY <1>4, <3>1
  <2> QED BY <1>6, <2>1 DEF HasLast, FreshAgrees
<1>9. cur \in Latest'
  BY <1>2, <1>3, <1>6, <1>7 DEF Latest
<1>10. ASSUME AllSaved' PROVE \A i \in Reports : SavedAfter(i)
  <2> SUFFICES ASSUME NEW i \in Reports PROVE SavedAfter(i)
    OBVIOUS
  <2>1. i \in 1 .. Len(events) /\ i \in Reports' /\ place \in Reports' /\ ~(place <= i)
    BY <1>1, <1>6 DEF Reports
  <2>2. SavedAfter(i)'
    <3> HIDE DEF place
    <3> QED BY <1>10, <2>1 DEF AllSaved
  <2>3. PICK k \in i + 1 .. Len(events') :
          events'[k].ev = "CheckpointCreated" /\ \A j \in i + 1 .. k - 1 : ~IsReport(events'[j])
    BY <2>2 DEF SavedAfter
  <2>4. k \in DOMAIN events
    <3>1. k \in DOMAIN events'
      BY <1>1, <2>1
    <3> QED BY <1>4, <2>3, <3>1
  <2>5. k \in i + 1 .. Len(events) /\ \A j \in i + 1 .. k - 1 : j \in DOMAIN events
    BY <1>1, <2>1, <2>4
  <2> QED BY <1>5, <2>3, <2>4, <2>5 DEF SavedAfter
<1>11. ASSUME AllSaved' PROVE AgreesBut(Latest)'
  <2>1. disk' = disk /\ outcomes' = [n \in DOMAIN outcomes \cup {cur} |-> IF n = cur THEN out ELSE outcomes[n]]
    BY DEF RecordOutcome
  <2>2. disk.file = "saved" => disk.outcomes = outcomes
    BY <1>10, <1>11, SavedBeforeReport
  <2> QED BY <1>9, <2>1, <2>2 DEF AgreesBut
<1>12. AtMostOneNodeLost'
  BY <1>11, LossAsStated
<1> QED BY <1>8, <1>12 DEF LossInv

\* A step that reports nothing either announces a checkpoint it has just written, or
\* changes nothing that counts.
LEMMA LossEngine ==
  ASSUME AnnounceInv, LossInv, [Next]_vars
  PROVE  LossInv'
<1>1. CASE RecordOutcome
  BY <1>1, LossRecord
<1>2. CASE BeginSave
  <2>1. UNCHANGED <<events, outcomes>> /\ pc = "save" /\ disk'.file = "torn"
    BY <1>2 DEF BeginSave, loopVars, Torn
  <2>2. Reports' = Reports /\ Reports # {}
    BY <2>1 DEF Reports, LossInv, FreshAgrees
  <2>3. HasLast'
    BY <2>1, <2>2 DEF HasLast, LossInv
  <2>4. AtMostOneNodeLost'
    BY <2>1, LossAsStated DEF AgreesBut
  <2> QED BY <2>2, <2>3, <2>4 DEF LossInv, FreshAgrees
<1>3. CASE EndSave
  <2> DEFINE created == Ev("CheckpointCreated", cur)
  <2>1. /\ pc = "saving" /\ outcomes' = outcomes /\ disk'.outcomes = outcomes
        /\ events' = events \o <<created>>
    BY <1>3 DEF EndSave, loopVars, Emit, Checkpoint
  <2>2. ~IsReport(created)
    BY KindsWritten DEF IsReport
  <2> HIDE DEF created
  <2>3. Adds(<<created>>) /\ EventsAreSeq
    BY <2>1, FewAreSeq DEF Adds, AnnounceInv
  <2>4. Reports # {}
    BY <2>1 DEF LossInv, FreshAgrees
  <2>5. PICK r \in Reports : \A j \in r + 1 .. Len(events) : ~IsReport(events[j])
    BY <2>4 DEF LossInv, HasLast
  <2>6. /\ DOMAIN events = 1 .. Len(events) /\ Len(events) \in Nat
        /\ DOMAIN events' = 1 .. Len(events) + 1 /\ Len(events') = Len(events) + 1
        /\ \A i \in 1 .. Len(events) : events'[i] = events[i]
        /\ events'[Len(events) + 1] = created
    <3>1. DOMAIN <<created>> = 1 .. 1 /\ Len(<<created>>) = 1 /\ <<created>>[1] = created
      OBVIOUS
    <3> QED BY <2>3, <3>1, Appended
  <2>7. r \in Reports' /\ r \in 1 .. Len(events)
    BY <2>6 DEF Reports
  <2>8. ASSUME NEW j \in r + 1 .. Len(events') PROVE ~IsReport(events'[j])
    <3>1. j \in r + 1 .. Len(events) \/ j = Len(events) + 1
      BY <2>6, <2>7
    <3>2. j \in r + 1 .. Len(events) => events'[j] = events[j]
      BY <2>6, <2>7
    <3> QED BY <2>2, <2>5, <2>6, <3>1, <3>2
  <2>9. HasLast' /\ FreshAgrees'
    BY <2>7, <2>8 DEF HasLast, FreshAgrees
  <2>10. AtMostOneNodeLost'
    BY <2>1, LossAsStated DEF AgreesBut
  <2> QED BY <2>9, <2>10 DEF LossInv
<1>4. CASE ~RecordOutcome /\ ~BeginSave /\ ~EndSave
  <2>1. PICK es : Adds(es) /\ ~Announces(es) /\ \A i \in DOMAIN es : ~IsReport(es[i])
    BY <1>4, OthersQuiet DEF AnnounceInv, Passing
  <2>2. /\ UNCHANGED <<outcomes, disk>>
        /\ pc' \in {"save", "saving"} => pc \in {"save", "saving"}
    BY <1>4, OnlyRecordVisits, OnlySavesWrite, OthersQuiet DEF AnnounceInv
  <2>3. Reports' = Reports /\ (HasLast => HasLast') /\ (AllSaved' <=> AllSaved) /\ Latest' = Latest
    BY <2>1, AccountStays DEF AnnounceInv
  <2>4. AtMostOneNodeLost'
    BY <2>2, <2>3, LossAsStated DEF LossInv, AgreesBut
  <2> QED BY <2>2, <2>3, <2>4 DEF LossInv, FreshAgrees
<1> QED BY <1>1, <1>2, <1>3, <1>4

\* A new process starts with what the file holds.
LEMMA LossResume ==
  ASSUME NEW seed, RunFromCheckpoint(seed), UNCHANGED disk
  PROVE  LossInv'
<1> DEFINE started == Ev("PipelineStarted", NoNode)
<1>1. events' = <<started>> /\ ~IsReport(started)
  BY KindsWritten DEF RunFromCheckpoint, Afresh, IsReport
<1>2. outcomes' = disk.outcomes /\ pc' = "top"
  BY DEF RunFromCheckpoint, Afresh
<1> HIDE DEF started
<1>3. DOMAIN <<started>> = 1 .. 1 /\ <<started>>[1] = started /\ \A i \in 1 .. 1 : i = 1
  OBVIOUS
<1>4. Reports' = {}
  BY <1>1, <1>3 DEF Reports
<1>5. AtMostOneNodeLost'
  BY <1>2, LossAsStated DEF AgreesBut
<1> QED BY <1>2, <1>4, <1>5 DEF LossInv, HasLast, FreshAgrees

\* Every step keeps what may be lost down to the node reported last.
LEMMA LossStep == AnnounceInv /\ LossInv /\ [DurableNext]_durableVars => LossInv'
<1> SUFFICES ASSUME AnnounceInv, LossInv, [DurableNext]_durableVars PROVE LossInv'
  OBVIOUS
<1>1. CASE Next \/ UNCHANGED vars
  BY <1>1, LossEngine
<1>2. CASE Crash
  <2>1. pc' = "crashed" /\ UNCHANGED <<events, outcomes, disk>>
    BY <1>2 DEF Crash, loopVars
  <2>2. HasLast' /\ FreshAgrees'
    BY <2>1 DEF LossInv, HasLast, FreshAgrees, Reports
  <2>3. AtMostOneNodeLost'
    BY <2>1 DEF LossInv, AtMostOneNodeLost, SavedAfter
  <2> QED BY <2>2, <2>3 DEF LossInv
<1>3. CASE Archive
  BY <1>3, LossEngine DEF Archive
<1>4. CASE ResumeRun \/ ResumeCommand
  BY <1>4, LossResume DEF ResumeRun, ResumeCommand
<1>5. CASE UNCHANGED durableVars
  BY <1>5, LossEngine DEF durableVars
<1> QED BY <1>1, <1>2, <1>3, <1>4, <1>5 DEF DurableNext

\* As long as its saves succeed, a launch that dies at any point has lost the outcome
\* of its latest node at most, whatever earlier launches did.
THEOREM LosesOneNode == DurableSpec => []AtMostOneNodeLost
<1>1. DurableInit => LossInv
  <2> SUFFICES ASSUME DurableInit PROVE LossInv
    OBVIOUS
  <2>1. events = <<>> /\ disk.file = "absent" /\ pc = "init"
    BY DEF DurableInit, Init, NoFile
  <2>2. Reports = {}
    BY <2>1 DEF Reports
  <2>3. AtMostOneNodeLost
    BY <2>1, LossAsStated DEF AgreesBut
  <2> QED BY <2>1, <2>2, <2>3 DEF LossInv, HasLast, FreshAgrees
<1>2. LossInv => AtMostOneNodeLost
  BY DEF LossInv
<1> QED BY <1>1, <1>2, AnnounceInductive, LossStep, PTL DEF DurableSpec

(* ------------------------------- types ---------------------------------- *)

\* What the file holds can be taken over by a new process.
DiskTyped ==
  disk.file = "saved" =>
    /\ disk.current \in Names \cup {NoNode}
    /\ disk.visited \in Seq(Names)
    /\ DOMAIN disk.outcomes \subseteq Names
    /\ disk.ctx \in Context

\* Where the loop uses the current node, it is one of the graph in use: the lookup at
\* the top of the loop saw to that.
LookedUp ==
  /\ pc \in Looping \ {"top"} => cur \in graph.nodes
  /\ pc \in {"start", "exec", "record"} => steps < MaxSteps

TypesInv ==
  /\ DurableTypeOK
  /\ visited \in Seq(Names)
  /\ out \in Outcome
  /\ DiskTyped
  /\ LookedUp

\* Names of the graphs are names.
LEMMA NamesInUse ==
  /\ graph \in Graphs => graph.nodes \subseteq Names /\ IsGraph(graph)
  /\ graph' \in Graphs => graph'.nodes \subseteq Names /\ IsGraph(graph')
BY EngineAssumption DEF Names

\* The plain success is an outcome.
LEMMA SucceedTyped == Succeed \in Outcome
<1>1. {} \in SUBSET NodeId
  OBVIOUS
<1> QED BY <1>1, NameAssumption DEF Succeed, Outcome, OutcomeKind

\* The first launch starts with an empty disk.
LEMMA TypesInit == DurableInit => TypesInv
<1> SUFFICES ASSUME DurableInit PROVE TypesInv
  OBVIOUS
<1>1. visited = <<>> /\ DOMAIN outcomes = {} /\ disk.file = "absent"
  BY DEF DurableInit, Init, Empty, NoFile
<1>2. visited \in Seq(Names) /\ Range(visited) \subseteq Names
  BY <1>1 DEF Range
<1>3. out \in Outcome
  BY SucceedTyped DEF DurableInit, Init
<1>4. /\ graph \in Graphs /\ autosave \in BOOLEAN /\ ctx \in Context
      /\ pc = "init" /\ cur = NoNode /\ steps = 0 /\ result = "none"
      /\ archived = FALSE /\ launches = 1
  BY EngineAssumption DEF DurableInit, Init
<1>5. steps \in 0 .. MaxSteps /\ launches \in 1 .. MaxLaunches
  BY <1>4, EngineAssumption, LaunchAssumption
<1> QED
  BY <1>1, <1>2, <1>3, <1>4, <1>5 DEF TypesInv, DurableTypeOK, DiskTyped, LookedUp, Results, Looping

\* The engine keeps its state typed, whatever graph it took over.
LEMMA TypesEngine ==
  ASSUME TypesInv, [Next]_vars, UNCHANGED <<archived, launches>>
  PROVE  TypesInv'
<1> USE EngineAssumption
<1>g. IsGraph(graph) /\ graph.nodes \subseteq Names
  BY NamesInUse DEF TypesInv, DurableTypeOK
<1> USE DEF TypesInv, DurableTypeOK, DiskTyped, LookedUp, Looping, config
<1>r. [ctx EXCEPT !["outcome"] = OutcomeLabel(out)] \in Context
  BY ContextTyped
<1>1. CASE HandlerReturns
  <2>1. PICK b \in graph.behaviours[cur] :
          /\ ctx' = Overlay(ctx, b.writes)
          /\ out' = b.out
          /\ pc' \in {"exec", "record"}
    BY <1>1 DEF HandlerReturns
  <2>2. cur \in graph.nodes
    BY <1>1 DEF HandlerReturns
  <2>3. ctx' \in Context /\ out' \in Outcome
    BY <2>1, <2>2, <1>g, ContextTyped DEF IsGraph
  <2> QED BY <1>1, <2>1, <2>2, <2>3 DEF HandlerReturns
<1>2. CASE RecordOutcome
  <2>1. cur \in graph.nodes /\ cur \in Names
    BY <1>2, <1>g DEF RecordOutcome
  <2>2. visited' \in Seq(Names)
    BY <1>2, <2>1, MarkVisitedTyped DEF RecordOutcome
  <2>3. Range(visited') \subseteq Names
    BY <2>2 DEF Range
  <2>4. DOMAIN outcomes' \subseteq Names
    BY <1>2, <2>1 DEF RecordOutcome
  <2>5. steps' \in 0 .. MaxSteps
    BY <1>2 DEF RecordOutcome
  <2>6. pc' \in {"save", "route", "done"} /\ result' \in Results
    BY <1>2 DEF RecordOutcome, Return, Results
  <2> QED BY <1>2, <2>1, <2>2, <2>3, <2>4, <2>5, <2>6 DEF RecordOutcome
<1>3. CASE BeginSave
  BY <1>3 DEF BeginSave, Torn, loopVars
<1>4. CASE EndSave
  BY <1>4 DEF EndSave, Checkpoint, loopVars
<1>5. CASE SaveFails \/ ExitReached
  BY <1>5 DEF SaveFails, ExitReached, AtExit, loopVars
<1>6. CASE RejectGraph \/ AbortCancelled \/ AbortMaxSteps \/ GoalsFail
  BY <1>6 DEF RejectGraph, AbortCancelled, AbortMaxSteps, GoalsFail, AtExit, Return, Results, loopVars
<1>7. CASE Launch
  <2>1. cur' \in Names
    BY <1>7, <1>g DEF Launch, StartNodes
  <2> QED BY <1>7, <2>1 DEF Launch
<1>8. CASE PassChecks
  BY <1>8 DEF PassChecks, LookUp, Return, Results, loopVars
<1>9. CASE StartNode
  BY <1>9 DEF StartNode
<1>10. CASE GoalRetry
  BY <1>10, <1>g DEF GoalRetry, AtExit, GoTo, Return, Results
<1>11. CASE FailureRoute
  BY <1>11, <1>g, <1>r DEF FailureRoute, NoEdge, AtEdges, RoutingCtx, GoTo, Return, Results
<1>12. CASE EdgeError \/ Unroutable \/ EndNoEdge
  BY <1>12, <1>r DEF EdgeError, Unroutable, EndNoEdge, NoEdge, AtEdges, RoutingCtx, Return, Results, loopVars
<1>13. CASE TraverseEdge
  <2>1. PICK e \in Selected : cur' = e.to /\ ctx' = Carry(e.fid, ClearNode(graph, e, RoutingCtx))
    BY <1>13 DEF TraverseEdge
  <2>2. e \in graph.edges
    BY SelectedLeaves DEF Selected, EdgesFrom
  <2>3. cur' \in Names /\ e.fid \in FidelityMode
    BY <2>1, <2>2, <1>g DEF IsGraph
  <2>4. ClearNode(graph, e, RoutingCtx) \in Context
    BY <1>r, ContextTyped DEF ClearNode, RoutingCtx
  <2>5. ctx' \in Context
    BY <2>1, <2>3, <2>4, ContextTyped
  <2> QED BY <1>13, <2>3, <2>5 DEF TraverseEdge
<1>14. CASE Finish
  BY <1>14 DEF Finish, Return, Results, loopVars
<1>15. CASE Watchdog \/ UserCancels \/ UNCHANGED vars
  BY <1>15 DEF Watchdog, Tick, WatchdogFires, UserCancels, vars, loopVars
<1> QED
  BY <1>1, <1>2, <1>3, <1>4, <1>5, <1>6, <1>7, <1>8, <1>9, <1>10, <1>11, <1>12, <1>13, <1>14, <1>15
     DEF Next, Loop

\* A new process is typed as the file is.
LEMMA TypesResume ==
  ASSUME TypesInv, NewProcess, NEW seed \in Context, RunFromCheckpoint(seed),
         graph' \in Graphs, autosave' \in BOOLEAN, UNCHANGED <<disk, archived>>
  PROVE  TypesInv'
<1>1. /\ disk.current \in Names \cup {NoNode} /\ disk.visited \in Seq(Names)
      /\ DOMAIN disk.outcomes \subseteq Names /\ disk.ctx \in Context
  BY DEF NewProcess, TypesInv, DiskTyped
<1>2. /\ cur' = disk.current /\ visited' = disk.visited /\ outcomes' = disk.outcomes
      /\ ctx' = Restore(seed, disk.ctx) /\ pc' = "top" /\ steps' = 0 /\ out' = Succeed /\ result' = "none"
  BY DEF RunFromCheckpoint, Afresh
<1>3. ctx' \in Context
  BY <1>1, <1>2, ContextTyped
<1>4. Range(visited') \subseteq Names
  BY <1>1, <1>2 DEF Range
<1>5. launches' \in 1 .. MaxLaunches
  BY LaunchAssumption DEF NewProcess, TypesInv, DurableTypeOK
<1>6. out' \in Outcome
  BY <1>2, SucceedTyped
<1> QED
  BY <1>1, <1>2, <1>3, <1>4, <1>5, <1>6, EngineAssumption
     DEF TypesInv, DurableTypeOK, DiskTyped, LookedUp, Looping, Results

\* Every step keeps the types, whatever graph a resume brings.
LEMMA TypesStep == TypesInv /\ [DurableNext]_durableVars => TypesInv'
<1> SUFFICES ASSUME TypesInv, [DurableNext]_durableVars PROVE TypesInv'
  OBVIOUS
<1>1. CASE (Next /\ UNCHANGED <<archived, launches>>) \/ UNCHANGED durableVars
  BY <1>1, TypesEngine DEF durableVars
<1>2. CASE Crash
  BY <1>2 DEF Crash, TypesInv, DurableTypeOK, DiskTyped, LookedUp, config, loopVars, Looping, Results
<1>3. CASE Archive
  BY <1>3 DEF Archive, TypesInv, DurableTypeOK, DiskTyped, LookedUp, vars, config, loopVars
<1>4. CASE ResumeRun
  BY <1>4, TypesResume, EngineAssumption, LaunchAssumption DEF ResumeRun
<1>5. CASE ResumeCommand
  <2>1. [k \in Key |-> Unset] \in Context
    BY DEF Context
  <2> QED BY <1>5, <2>1, TypesResume, LaunchAssumption DEF ResumeCommand
<1> QED BY <1>1, <1>2, <1>3, <1>4, <1>5 DEF DurableNext

\* Positions, visits, outcomes and the context stay typed across crashes and resumes:
\* what a new process takes over from the file, it can run on (run_from_checkpoint).
THEOREM DurableTypeCorrect == DurableSpec => []DurableTypeOK
<1>1. TypesInv => DurableTypeOK
  BY DEF TypesInv
<1> QED BY <1>1, TypesInit, TypesStep, PTL DEF DurableSpec

(***************************************************************************)
(* What a run executes is what its document and stylesheet ask for         *)
(***************************************************************************)

\* What a map says of a key, as a set that is empty when it says nothing.
ValueAt(map, key) == {map[k] : k \in {key} \cap DOMAIN map}

\* What the last of the first n pairs with this key says.
SaidUpTo(pairs, n, key) ==
  {pairs[i][2] : i \in {j \in 1 .. n : /\ pairs[j][1] = key
                                       /\ \A k \in 1 .. n : k > j => pairs[k][1] # key}}

\* A map laid over another says what it said.
LEMMA OverSays ==
  ASSUME NEW f, NEW g, NEW key
  PROVE  ValueAt(Over(f, g), key) = IF key \in DOMAIN f THEN ValueAt(f, key) ELSE ValueAt(g, key)
BY DEF ValueAt, Over

\* The recursion by which pairs are collected.
LEMMA CollectedDef ==
  ASSUME NEW V, NEW pairs \in Seq(V)
  PROVE  \E f : /\ Collected(pairs) = f[1 .. Len(pairs)]
                /\ f[{}] = Empty
                /\ \A n \in 1 .. Len(pairs) :
                     f[1 .. n] = Over([k \in {pairs[n][1]} |-> pairs[n][2]], f[1 .. n - 1])
<1> DEFINE D == 1 .. Len(pairs)
           Def(g, s) == IF s = {} THEN Empty
                        ELSE Over([k \in {pairs[Max(s)][1]} |-> pairs[Max(s)][2]], g[s \ {Max(s)}])
           f[s \in SUBSET D] == IF s = {} THEN Empty
                        ELSE Over([k \in {pairs[Max(s)][1]} |-> pairs[Max(s)][2]], f[s \ {Max(s)}])
<1>1. DOMAIN pairs = D /\ Len(pairs) \in Nat
  OBVIOUS
<1>2. ASSUME NEW n \in D PROVE Max(1 .. n) = n
  <2>1. n \in 1 .. n /\ \A y \in 1 .. n : n >= y
    BY <1>1
  <2>2. ASSUME NEW x \in 1 .. n, \A y \in 1 .. n : x >= y PROVE x = n
    BY <1>1, <2>1, <2>2
  <2> QED
    BY <2>1, <2>2 DEF Max
<1>3. Collected(pairs) = f[D]
  BY <1>1 DEF Collected, FoldLeft, MapThenFoldSet
<1>4. WFDefOn(StrictSubsetOrdering(D), SUBSET D, Def)
  <2> SUFFICES ASSUME NEW g, NEW h, NEW s \in SUBSET D,
                      \A y \in SetLessThan(s, StrictSubsetOrdering(D), SUBSET D) : g[y] = h[y]
               PROVE  Def(g, s) = Def(h, s)
    BY Zenon DEF WFDefOn
  <2>1. CASE s = {}
    BY <2>1
  <2>2. CASE s # {}
    <3>1. Max(s) \in s
      <4>1. PICK m \in s : \A k \in s : m >= k
        <5>1. s \in SUBSET (1 .. Len(pairs))
          OBVIOUS
        <5> QED BY <1>1, <2>2, <5>1, MostNumber
      <4> QED BY <4>1 DEF Max
    <3>2. s \ {Max(s)} \in SetLessThan(s, StrictSubsetOrdering(D), SUBSET D)
      BY <3>1 DEF SetLessThan, StrictSubsetOrdering
    <3> HIDE DEF D
    <3>3. g[s \ {Max(s)}] = h[s \ {Max(s)}]
      BY <3>2
    <3> QED
      BY <2>2, <3>3, Zenon
  <2> QED
    BY <2>1, <2>2
<1>5. OpDefinesFcn(f, SUBSET D, Def)
  BY Zenon DEF OpDefinesFcn
<1>6. WFInductiveDefines(f, SUBSET D, Def)
  <2>1. IsWellFoundedOn(StrictSubsetOrdering(D), SUBSET D)
    <3>1. IsFiniteSet(D)
      BY <1>1, FS_Interval
    <3> HIDE DEF D
    <3> QED
      BY <3>1, FS_StrictSubsetOrderingWellFounded, FS_FiniteSubsetsOfFinite
  <2> HIDE DEF D, f, Def
  <2> QED
    BY <1>4, <1>5, <2>1, WFInductiveDef
<1>7. f = [s \in SUBSET D |-> Def(f, s)]
  <2> HIDE DEF f, D
  <2> QED BY <1>6, Zenon DEF WFInductiveDefines
<1> HIDE DEF f
<1>8. f[{}] = Empty
  BY <1>7
<1>9. ASSUME NEW n \in D
      PROVE  f[1 .. n] = Over([k \in {pairs[n][1]} |-> pairs[n][2]], f[1 .. n - 1])
  <2>1. 1 .. n \in SUBSET D /\ 1 .. n # {} /\ (1 .. n) \ {n} = 1 .. n - 1
    <3>1. n \in Nat /\ n \in 1 .. n /\ n <= Len(pairs)
      BY <1>1
    <3>2. \A i \in 1 .. n : i \in D
      BY <1>1, <3>1
    <3>3. \A i : i \in (1 .. n) \ {n} <=> i \in 1 .. n - 1
      BY <3>1
    <3> QED BY <3>1, <3>2, <3>3
  <2>2. Max(1 .. n) = n
    BY <1>2
  <2> HIDE DEF D
  <2>3. f[1 .. n] = Def(f, 1 .. n)
    BY <1>7, <2>1, Zenon
  <2> QED
    BY <2>1, <2>2, <2>3, Zenon
<1> QED
  BY <1>3, <1>8, <1>9

\* A map filled with pairs says of a key what the last pair with it says.
LEMMA CollectedSays ==
  ASSUME NEW V, NEW pairs \in Seq(V), NEW key
  PROVE  ValueAt(Collected(pairs), key) = LastSaid(pairs, key)
<1>1. PICK f : /\ Collected(pairs) = f[1 .. Len(pairs)]
               /\ f[{}] = Empty
               /\ \A n \in 1 .. Len(pairs) :
                    f[1 .. n] = Over([k \in {pairs[n][1]} |-> pairs[n][2]], f[1 .. n - 1])
  BY CollectedDef
<1> DEFINE P == {n \in 0 .. Len(pairs) : ValueAt(f[1 .. n], key) = SaidUpTo(pairs, n, key)}
<1>2. Len(pairs) \in Nat /\ DOMAIN pairs = 1 .. Len(pairs)
  OBVIOUS
<1>3. 0 \in P
  <2>1. f[1 .. 0] = Empty
    BY <1>1
  <2>2. ValueAt(Empty, key) = {}
    BY DEF ValueAt, Empty
  <2>3. SaidUpTo(pairs, 0, key) = {}
    BY DEF SaidUpTo
  <2>4. ValueAt(f[1 .. 0], key) = SaidUpTo(pairs, 0, key)
    BY <2>1, <2>2, <2>3, Zenon
  <2> QED BY <1>2, <2>4
<1>4. ASSUME NEW n \in 0 .. Len(pairs) - 1, n \in P PROVE n + 1 \in P
  <2> DEFINE said == [k \in {pairs[n + 1][1]} |-> pairs[n + 1][2]]
  <2>1. n \in Nat /\ n + 1 \in 1 .. Len(pairs) /\ (n + 1) - 1 = n
    BY <1>2
  <2>2. f[1 .. n + 1] = Over(said, f[1 .. n])
    BY <1>1, <2>1
  <2>3. DOMAIN said = {pairs[n + 1][1]} /\ said[pairs[n + 1][1]] = pairs[n + 1][2]
    OBVIOUS
  <2> HIDE DEF said
  <2>4. ValueAt(f[1 .. n + 1], key) =
          IF key \in DOMAIN said THEN ValueAt(said, key) ELSE ValueAt(f[1 .. n], key)
    BY <2>2, OverSays
  <2> SUFFICES ValueAt(f[1 .. n + 1], key) = SaidUpTo(pairs, n + 1, key)
    <3>1. n + 1 \in 0 .. Len(pairs)
      BY <2>1
    <3> QED BY <3>1
  <2>7. ValueAt(f[1 .. n], key) = SaidUpTo(pairs, n, key)
    BY <1>4
  <2> HIDE DEF P
  <2>5. CASE pairs[n + 1][1] = key
    <3>1. ValueAt(said, key) = {pairs[n + 1][2]}
      BY <2>3, <2>5 DEF ValueAt
    <3>2. SaidUpTo(pairs, n + 1, key) = {pairs[n + 1][2]}
      <4>1. {j \in 1 .. n + 1 : pairs[j][1] = key /\ \A k \in 1 .. n + 1 : k > j => pairs[k][1] # key}
              = {n + 1}
        BY <2>1, <2>5
      <4> QED BY <4>1 DEF SaidUpTo
    <3> QED BY <2>3, <2>4, <2>5, <3>1, <3>2
  <2>6. CASE pairs[n + 1][1] # key
    <3>1. SaidUpTo(pairs, n + 1, key) = SaidUpTo(pairs, n, key)
      <4>1. {j \in 1 .. n + 1 : pairs[j][1] = key /\ \A k \in 1 .. n + 1 : k > j => pairs[k][1] # key}
              = {j \in 1 .. n : pairs[j][1] = key /\ \A k \in 1 .. n : k > j => pairs[k][1] # key}
        BY <2>1, <2>6
      <4> QED BY <4>1 DEF SaidUpTo
    <3> QED BY <2>3, <2>4, <2>6, <2>7, <3>1
  <2> QED BY <2>5, <2>6
<1>5. Len(pairs) \in P
  <2>1. 0 .. Len(pairs) \subseteq P
    <3> HIDE DEF P
    <3> QED BY <1>2, <1>3, <1>4, NumbersUpTo
  <2> HIDE DEF P
  <2> QED BY <1>2, <2>1
<1>6. SaidUpTo(pairs, Len(pairs), key) = LastSaid(pairs, key)
  BY <1>2 DEF SaidUpTo, LastSaid
<1> QED BY <1>1, <1>5, <1>6

\* The last pair with a key is found when there is one.
LEMMA SomethingSaid ==
  ASSUME NEW V, NEW pairs \in Seq(V), NEW key
  PROVE  LastSaid(pairs, key) = {} <=> \A i \in 1 .. Len(pairs) : pairs[i][1] # key
<1>1. Len(pairs) \in Nat /\ DOMAIN pairs = 1 .. Len(pairs)
  OBVIOUS
<1> DEFINE S == {i \in 1 .. Len(pairs) : pairs[i][1] = key}
<1>2. CASE S = {}
  BY <1>1, <1>2 DEF LastSaid
<1>3. CASE S # {}
  <2>1. PICK m \in S : \A k \in S : m >= k
    <3>1. S \in SUBSET (1 .. Len(pairs))
      OBVIOUS
    <3> HIDE DEF S
    <3> QED BY <1>1, <1>3, <3>1, MostNumber
  <2>2. \A k \in DOMAIN pairs : k > m => pairs[k][1] # key
    BY <1>1, <2>1
  <2>3. pairs[m][2] \in LastSaid(pairs, key)
    BY <1>1, <2>2 DEF LastSaid
  <2> QED BY <2>1, <2>3
<1> QED BY <1>2, <1>3

\* What comes last in two sequences is what the second says, or else the first.
LEMMA ConcatSays ==
  ASSUME NEW V, NEW a \in Seq(V), NEW b \in Seq(V), NEW key
  PROVE  /\ LastSaid(b, key) # {} => LastSaid(a \o b, key) = LastSaid(b, key)
         /\ LastSaid(b, key) = {} => LastSaid(a \o b, key) = LastSaid(a, key)
<1> DEFINE c == a \o b
           m == Len(a)
           SaysLast(s, i) == i \in 1 .. Len(s) /\ s[i][1] = key /\ \A k \in 1 .. Len(s) : k > i => s[k][1] # key
<1>1. /\ m \in Nat /\ Len(b) \in Nat /\ Len(c) = m + Len(b)
      /\ DOMAIN a = 1 .. m /\ DOMAIN b = 1 .. Len(b) /\ DOMAIN c = 1 .. Len(c)
      /\ \A i \in 1 .. m : c[i] = a[i]
      /\ \A i \in 1 .. Len(b) : c[m + i] = b[i]
  OBVIOUS
<1>2. \A s \in Seq(V) : \A x : x \in LastSaid(s, key) <=> \E i : SaysLast(s, i) /\ x = s[i][2]
  BY DEF LastSaid
<1>3. c \in Seq(V)
  OBVIOUS
<1> HIDE DEF c, m
<1>4. CASE LastSaid(b, key) # {}
  <2>1. PICK j : SaysLast(b, j)
    BY <1>2, <1>4
  <2>2. SaysLast(c, m + j)
    <3>1. j \in 1 .. Len(b) /\ m + j \in 1 .. Len(c) /\ c[m + j][1] = key
      BY <1>1, <2>1
    <3>2. ASSUME NEW k \in 1 .. Len(c), k > m + j PROVE c[k][1] # key
      <4>1. k - m \in 1 .. Len(b) /\ k - m > j /\ m + (k - m) = k
        BY <1>1, <3>1, <3>2
      <4>2. b[k - m][1] # key
        BY <2>1, <4>1
      <4>3. c[m + (k - m)] = b[k - m]
        BY <1>1, <4>1
      <4> QED BY <4>1, <4>2, <4>3
    <3> QED BY <3>1, <3>2
  <2>3. \A i : SaysLast(b, i) => i = j
    BY <1>1, <2>1
  <2>4. \A i : SaysLast(c, i) => i = m + j
    BY <1>1, <2>1, <2>2
  <2>5. c[m + j] = b[j]
    BY <1>1, <2>1
  <2> HIDE DEF SaysLast
  <2>6. \A x : x \in LastSaid(c, key) <=> x = b[j][2]
    BY <1>2, <1>3, <2>2, <2>4, <2>5
  <2>7. \A x : x \in LastSaid(b, key) <=> x = b[j][2]
    BY <1>2, <2>1, <2>3
  <2> QED BY <1>4, <2>6, <2>7 DEF c
<1>5. CASE LastSaid(b, key) = {}
  <2>1. \A i \in 1 .. Len(b) : b[i][1] # key
    BY <1>5, SomethingSaid
  <2>2. \A i \in m + 1 .. Len(c) : c[i][1] # key
    <3> TAKE i \in m + 1 .. Len(c)
    <3>1. i - m \in 1 .. Len(b) /\ m + (i - m) = i
      BY <1>1
    <3>2. c[m + (i - m)] = b[i - m]
      BY <1>1, <3>1
    <3> QED BY <2>1, <3>1, <3>2
  <2>3. ASSUME NEW i PROVE SaysLast(c, i) <=> SaysLast(a, i) /\ i \in 1 .. m
    <3>1. ASSUME SaysLast(c, i) PROVE SaysLast(a, i) /\ i \in 1 .. m
      <4>1. i \in 1 .. m
        BY <1>1, <2>2, <3>1
      <4>2. \A k \in 1 .. m : k \in 1 .. Len(c) /\ c[k] = a[k]
        BY <1>1
      <4> QED BY <3>1, <4>1, <4>2 DEF m
    <3>2. ASSUME SaysLast(a, i) PROVE SaysLast(c, i)
      <4>1. i \in 1 .. Len(c) /\ c[i][1] = key
        BY <1>1, <3>2 DEF m
      <4>2. ASSUME NEW k \in 1 .. Len(c), k > i PROVE c[k][1] # key
        <5>1. CASE k \in 1 .. m
          BY <1>1, <3>2, <4>2, <5>1 DEF m
        <5>2. CASE k \notin 1 .. m
          BY <1>1, <2>2, <5>2
        <5> QED BY <5>1, <5>2
      <4> QED BY <4>1, <4>2
    <3> QED BY <3>1, <3>2
  <2>4. \A i \in 1 .. m : c[i][2] = a[i][2]
    BY <1>1
  <2> HIDE DEF SaysLast
  <2>5. \A x : x \in LastSaid(c, key) <=> x \in LastSaid(a, key)
    <3>1. \A i : SaysLast(a, i) => i \in 1 .. m
      BY DEF SaysLast, m
    <3> QED BY <1>2, <1>3, <2>3, <2>4, <3>1
  <2> QED BY <1>5, <2>5 DEF c
<1> QED BY <1>4, <1>5

\* The sequences among the first n of them that say something of a key, and of
\* which no later one does.
LastSpeaking(seqs, n, key) ==
  {i \in 1 .. n : /\ LastSaid(seqs[i], key) # {}
                  /\ \A j \in 1 .. n : j > i => LastSaid(seqs[j], key) = {}}

\* What a flattened sequence says is what the last sequence that speaks says.
LEMMA FlattenSays ==
  ASSUME NEW V, NEW seqs \in Seq(Seq(V)), NEW key
  PROVE  LastSaid(FlattenSeq(seqs), key) =
           UNION {LastSaid(seqs[i], key) : i \in LastSpeaking(seqs, Len(seqs), key)}
<1> DEFINE First(n) == SubSeq(seqs, 1, n)
           Said(n) == UNION {LastSaid(seqs[i], key) : i \in LastSpeaking(seqs, n, key)}
           P == {n \in 0 .. Len(seqs) : LastSaid(FlattenSeq(First(n)), key) = Said(n)}
<1>1. Len(seqs) \in Nat /\ First(0) = <<>> /\ First(Len(seqs)) = seqs
  BY SubSeqFull, SubSeqEmpty
<1>2. 0 \in P
  <2>1. FlattenSeq(First(0)) = <<>>
    BY <1>1, FlattenBasics, Zenon
  <2>2. LastSaid(<<>>, key) = {}
    BY DEF LastSaid
  <2>3. Said(0) = {}
    BY DEF LastSpeaking
  <2>4. LastSaid(FlattenSeq(First(0)), key) = Said(0)
    BY <2>1, <2>2, <2>3, Zenon
  <2> HIDE DEF First, Said
  <2> QED BY <1>1, <2>4
<1>3. ASSUME NEW n \in 0 .. Len(seqs) - 1, n \in P PROVE n + 1 \in P
  <2>1. seqs[n + 1] \in Seq(V) /\ First(n) \in Seq(Seq(V))
    <3>1. n + 1 \in 1 .. Len(seqs) /\ \A i \in 1 .. n : seqs[i] \in Seq(V)
      BY <1>1
    <3> QED BY <3>1, <1>1, SubSeqProperties
  <2>2. First(n + 1) = Append(First(n), seqs[n + 1])
    <3>1. n + 1 \in 1 .. Len(seqs) /\ 1 \in 1 .. Len(seqs) /\ (n + 1) - 1 = n
      BY <1>1
    <3>2. SubSeq(seqs, 1, n + 1) = SubSeq(seqs, 1, n) \o <<seqs[n + 1]>>
      BY <3>1, SubSeqRecursiveSecond, Z3
    <3> QED BY <2>1, <3>2, AppendIsConcat
  <2>3. LastSaid(FlattenSeq(First(n)), key) = Said(n)
    BY <1>3
  <2> HIDE DEF First, P
  <2>4. FlattenSeq(First(n + 1)) = FlattenSeq(First(n)) \o seqs[n + 1] /\ FlattenSeq(First(n)) \in Seq(V)
    BY <2>1, <2>2, FlattenBasics
  <2> HIDE DEF Said
  <2>5. /\ LastSaid(seqs[n + 1], key) # {} =>
             LastSaid(FlattenSeq(First(n + 1)), key) = LastSaid(seqs[n + 1], key)
        /\ LastSaid(seqs[n + 1], key) = {} => LastSaid(FlattenSeq(First(n + 1)), key) = Said(n)
    <3>1. ASSUME NEW a \in Seq(V), NEW b \in Seq(V)
          PROVE /\ LastSaid(b, key) # {} => LastSaid(a \o b, key) = LastSaid(b, key)
                /\ LastSaid(b, key) = {} => LastSaid(a \o b, key) = LastSaid(a, key)
      BY ConcatSays
    <3> DEFINE before == FlattenSeq(First(n))
               next   == seqs[n + 1]
    <3>2. /\ before \in Seq(V) /\ next \in Seq(V) /\ LastSaid(before, key) = Said(n)
          /\ FlattenSeq(First(n + 1)) = before \o next
      BY <2>1, <2>3, <2>4
    <3> HIDE DEF before, next
    <3>3. /\ LastSaid(next, key) # {} => LastSaid(before \o next, key) = LastSaid(next, key)
          /\ LastSaid(next, key) = {} => LastSaid(before \o next, key) = LastSaid(before, key)
      BY <3>1, <3>2, Zenon
    <3>4. /\ LastSaid(next, key) # {} => LastSaid(FlattenSeq(First(n + 1)), key) = LastSaid(next, key)
          /\ LastSaid(next, key) = {} => LastSaid(FlattenSeq(First(n + 1)), key) = Said(n)
      BY <3>2, <3>3, Zenon
    <3> QED BY <3>4 DEF next
  <2>6. CASE LastSaid(seqs[n + 1], key) # {}
    <3>1. LastSpeaking(seqs, n + 1, key) = {n + 1}
      <4>1. n \in Nat /\ \A i \in 1 .. n + 1 : i # n + 1 => n + 1 > i
        BY <1>1
      <4>2. \A j \in 1 .. n + 1 : ~(j > n + 1)
        BY <4>1
      <4>3. n + 1 \in 1 .. n + 1
        BY <4>1
      <4> HIDE DEF Said
      <4> QED BY <2>6, <4>1, <4>2, <4>3 DEF LastSpeaking
    <3>2. Said(n + 1) = LastSaid(seqs[n + 1], key)
      BY <3>1 DEF Said
    <3> HIDE DEF Said
    <3> QED BY <1>1, <2>5, <2>6, <3>2 DEF P
  <2>7. CASE LastSaid(seqs[n + 1], key) = {}
    <3>1. LastSpeaking(seqs, n + 1, key) = LastSpeaking(seqs, n, key)
      <4>1. n \in Nat /\ n + 1 \in 1 .. n + 1
        BY <1>1
      <4>2. \A i : i \in 1 .. n + 1 <=> i \in 1 .. n \/ i = n + 1
        BY <4>1
      <4> QED BY <2>7, <4>2 DEF LastSpeaking
    <3>2. Said(n + 1) = Said(n)
      BY <3>1 DEF Said
    <3> HIDE DEF Said
    <3> QED BY <1>1, <2>5, <2>7, <3>2 DEF P
  <2> QED BY <2>6, <2>7
<1>4. Len(seqs) \in P
  <2>1. 0 .. Len(seqs) \subseteq P
    <3> HIDE DEF P
    <3> QED BY <1>1, <1>2, <1>3, NumbersUpTo
  <2> HIDE DEF P
  <2> QED BY <1>1, <2>1
<1>5. LastSaid(FlattenSeq(First(Len(seqs))), key) = Said(Len(seqs))
  BY <1>4
<1> HIDE DEF First
<1> QED BY <1>1, <1>5

(* ------------------------------- sorting -------------------------------- *)

\* What Sorted chooses.
InOrder(S, order, s) ==
  /\ s \in [1 .. Cardinality(S) -> S]
  /\ Range(s) = S
  /\ \A k, m \in DOMAIN s : k < m => <<s[k], s[m]>> \in order

\* A relation by which any two different members of S are in an order.
Orders(order, S) ==
  /\ \A x, y \in S : x # y => <<x, y>> \in order \/ <<y, x>> \in order
  /\ \A x, y, z \in S : <<x, y>> \in order /\ <<y, z>> \in order => <<x, z>> \in order

\* What a stylesheet's rules are, as far as sorting looks at them.
Kinds == {"all", "type", "class", "id"}

\* Any two rules are in an order, and the order is a strict one.
LEMMA BeforeOrders ==
  ASSUME NEW sheet, NEW rules \in SUBSET Nat, \A i \in rules : sheet[i].kind \in Kinds
  PROVE  /\ \A i \in rules : ~Before(sheet, i, i)
         /\ \A i, j \in rules : i # j => Before(sheet, i, j) \/ Before(sheet, j, i)
         /\ \A i, j \in rules : ~(Before(sheet, i, j) /\ Before(sheet, j, i))
         /\ \A i, j, k \in rules : Before(sheet, i, j) /\ Before(sheet, j, k) => Before(sheet, i, k)
<1>1. \A i \in rules : Specificity(sheet[i]) \in Nat
  BY DEF Specificity, Kinds
<1> QED BY <1>1 DEF Before

\* What is ordered can be sorted.
LEMMA SortedExists ==
  ASSUME NEW S, NEW order, IsFiniteSet(S), Orders(order, S)
  PROVE  InOrder(S, order, Sorted(S, order))
<1> DEFINE F == {T \in SUBSET S : ~\E s : InOrder(T, order, s)}
           R == {p \in S \X S : <<p[2], p[1]>> \in order}
<1>1. F = {}
  <2>0. SUFFICES ASSUME F # {} PROVE FALSE
    OBVIOUS
  <2>1. PICK T \in F : \A U \in F : U \subseteq T => U = T
    <3>1. F \in SUBSET (SUBSET S)
      OBVIOUS
    <3> DEFINE Families(X) == {G \in SUBSET (SUBSET X) : IsFiniteSet(X) /\ G # {}}
               Least(G, T) == T \in G /\ \A U \in G : U \subseteq T => U = T
    <3>2. ASSUME NEW X, NEW G \in Families(X) PROVE \E T : Least(G, T)
      BY MinimalSet
    <3>3. F \in Families(S)
      BY <2>0, <3>1
    <3> HIDE DEF Families, Least, F
    <3>4. \E T : Least(F, T)
      BY <3>2, <3>3
    <3> QED BY <3>4 DEF Least
  <2>2. T \in SUBSET S /\ IsFiniteSet(T)
    BY FS_Subset
  <2>3. CASE T = {}
    <3>1. Cardinality(T) = 0
      BY <2>3, FS_EmptySet
    <3>2. InOrder(T, order, <<>>)
      BY <2>3, <3>1 DEF InOrder, Range
    <3> QED BY <3>2
  <2>4. CASE T # {}
    <3>1. PICK x \in T : \A y \in T \ {x} : <<x, y>> \in R
      <4>1. \A y, z \in T : <<y, z>> \in R <=> <<z, y>> \in order
        BY <2>2
      <4> HIDE DEF R
      <4>2. \A u, v, w \in T : <<u, v>> \in R /\ <<v, w>> \in R => <<u, w>> \in R
        BY <2>2, <4>1 DEF Orders
      <4>3. \A u, v \in T : u # v => <<u, v>> \in R \/ <<v, u>> \in R
        BY <2>2, <4>1 DEF Orders
      <4> QED BY <2>2, <2>4, <4>2, <4>3, FirstExists
    <3>2. \A y \in T \ {x} : <<y, x>> \in order
      BY <3>1
    <3>3. PICK s : InOrder(T \ {x}, order, s)
      <4>1. T \ {x} \notin F
        <5> HIDE DEF F
        <5> QED BY <2>1, <3>1
      <4> QED BY <2>2, <4>1
    <3> DEFINE n == Cardinality(T)
               t == [k \in 1 .. n |-> IF k = n THEN x ELSE s[k]]
    <3>4. n \in Nat /\ n >= 1 /\ Cardinality(T \ {x}) = n - 1
      <4>1. n \in Nat
        BY <2>2, FS_CardinalityType
      <4>2. Cardinality(T \ {x}) = n - 1
        BY <2>2, <3>1, FS_RemoveElement
      <4>3. n # 0
        BY <2>2, <2>4, FS_EmptySet
      <4> QED BY <4>1, <4>2, <4>3
    <3>5. /\ s \in [1 .. n - 1 -> T \ {x}] /\ Range(s) = T \ {x}
          /\ \A k, m \in 1 .. n - 1 : k < m => <<s[k], s[m]>> \in order
      BY <3>3, <3>4 DEF InOrder
    <3> HIDE DEF n
    <3>6. \A k \in 1 .. n : k # n => k \in 1 .. n - 1
      BY <3>4
    <3>7. t \in [1 .. n -> T]
      BY <3>5, <3>6
    <3>8. t[n] = x /\ \A k \in 1 .. n - 1 : t[k] = s[k]
      BY <3>4
    <3> HIDE DEF t
    <3>9. Range(t) = T
      <4>1. \A k \in 1 .. n - 1 : k \in 1 .. n
        BY <3>4
      <4>2. n \in 1 .. n
        BY <3>4
      <4> QED BY <3>5, <3>6, <3>7, <3>8, <4>1, <4>2 DEF Range
    <3>10. ASSUME NEW k \in 1 .. n, NEW m \in 1 .. n, k < m PROVE <<t[k], t[m]>> \in order
      <4>1. k \in 1 .. n - 1
        BY <3>4, <3>10
      <4>2. CASE m = n
        BY <3>2, <3>5, <3>8, <4>1, <4>2
      <4>3. CASE m # n
        BY <3>5, <3>6, <3>8, <3>10, <4>1, <4>3
      <4> QED BY <4>2, <4>3
    <3>11. InOrder(T, order, t)
      BY <3>7, <3>9, <3>10 DEF InOrder, n
    <3> QED BY <3>11
  <2> QED BY <2>3, <2>4
<1>2. PICK s : InOrder(S, order, s)
  BY <1>1
<1> QED BY <1>2 DEF InOrder, Sorted

\* A sequence of anything.
IsSequence(s) == s \in Seq(Range(s))

(* --------------------------- what is prepared --------------------------- *)

\* A node takes from a stylesheet what the deciding rule says.
LEMMA AppliedSays ==
  ASSUME NEW V, NEW sheet, NEW id, NEW node, NEW key, NEW n \in Nat, DOMAIN sheet = 1 .. n,
         \A i \in DOMAIN sheet : sheet[i].kind \in Kinds /\ sheet[i].says \in Seq(V)
  PROVE  ValueAt(Applied(sheet, id, node), key) =
           UNION {LastSaid(sheet[i].says, key) :
                    i \in {j \in DOMAIN sheet : Decides(sheet, node, id, key, j)}}
<1> DEFINE rules == Matching(sheet, id, node)
           order == {p \in rules \X rules : Before(sheet, p[1], p[2])}
           s == Sorted(rules, order)
           seqs == [k \in DOMAIN s |-> sheet[s[k]].says]
<1>1. /\ rules \in SUBSET Nat /\ IsFiniteSet(rules) /\ rules \subseteq DOMAIN sheet
      /\ \A i \in rules : sheet[i].kind \in Kinds /\ sheet[i].says \in Seq(V)
  <2>1. rules \subseteq 1 .. n
    BY DEF Matching
  <2>2. IsFiniteSet(1 .. n)
    BY FS_Interval
  <2>3. 1 .. n \subseteq Nat
    OBVIOUS
  <2> HIDE DEF rules
  <2> QED BY <2>1, <2>2, <2>3, FS_Subset
<1>2. ValueAt(Applied(sheet, id, node), key) = ValueAt(Collected(FlattenSeq(seqs)), key)
  BY DEF Applied
<1>3. InOrder(rules, order, s) /\ \A i, j \in rules : <<i, j>> \in order <=> Before(sheet, i, j)
  <2> HIDE DEF rules
  <2>1. \A i, j \in rules : <<i, j>> \in order <=> Before(sheet, i, j)
    OBVIOUS
  <2> HIDE DEF order
  <2>2. Orders(order, rules)
    BY <1>1, <2>1, BeforeOrders DEF Orders
  <2> QED BY <1>1, <2>1, <2>2, SortedExists
<1> HIDE DEF s, order
<1> DEFINE m == Cardinality(rules)
<1>4. m \in Nat
  BY <1>1, FS_CardinalityType
<1>5. /\ s \in [1 .. m -> rules] /\ DOMAIN s = 1 .. m
      /\ \A i \in rules : \E k \in 1 .. m : i = s[k]
      /\ \A k, l \in 1 .. m : k < l => Before(sheet, s[k], s[l])
  BY <1>3 DEF InOrder, Range
<1> HIDE DEF m, rules
<1>6. seqs \in Seq(Seq(V)) /\ Len(seqs) = m /\ \A k \in 1 .. m : seqs[k] = sheet[s[k]].says
  <2>1. \A k \in 1 .. m : sheet[s[k]].says \in Seq(V)
    BY <1>1, <1>5
  <2> QED BY <1>4, <1>5, <2>1
<1> HIDE DEF seqs
<1>7. ValueAt(Collected(FlattenSeq(seqs)), key) =
        UNION {LastSaid(seqs[k], key) : k \in LastSpeaking(seqs, m, key)}
  <2>1. FlattenSeq(seqs) \in Seq(V)
    BY <1>6, FlattenBasics
  <2>2. ValueAt(Collected(FlattenSeq(seqs)), key) = LastSaid(FlattenSeq(seqs), key)
    BY <2>1, CollectedSays
  <2> QED BY <1>6, <2>2, FlattenSays
<1>8. ASSUME NEW k \in 1 .. m
      PROVE  k \in LastSpeaking(seqs, m, key) <=> Decides(sheet, node, id, key, s[k])
  <2>1. s[k] \in rules
    BY <1>5
  <2>2. Decides(sheet, node, id, key, s[k]) <=>
          /\ LastSaid(sheet[s[k]].says, key) # {}
          /\ \A j \in rules : LastSaid(sheet[j].says, key) # {} => j = s[k] \/ Before(sheet, j, s[k])
    <3>1. \A j \in rules : (\/ Specificity(sheet[j]) < Specificity(sheet[s[k]])
                            \/ Specificity(sheet[j]) = Specificity(sheet[s[k]]) /\ j <= s[k])
                           <=> j = s[k] \/ Before(sheet, j, s[k])
      <4> TAKE j \in rules
      <4>1. j \in Nat /\ s[k] \in Nat
        BY <1>1, <2>1
      <4>2. j <= s[k] <=> j = s[k] \/ j < s[k]
        BY <4>1
      <4>3. j = s[k] => Specificity(sheet[j]) = Specificity(sheet[s[k]])
        OBVIOUS
      <4> QED BY <4>2, <4>3, Zenon DEF Before
    <3> QED BY <2>1, <3>1 DEF Decides, rules
  <2>3. k \in LastSpeaking(seqs, m, key) <=>
          /\ LastSaid(sheet[s[k]].says, key) # {}
          /\ \A l \in 1 .. m : l > k => LastSaid(sheet[s[l]].says, key) = {}
    BY <1>6 DEF LastSpeaking
  <2>4. ASSUME NEW l \in 1 .. m PROVE l > k <=> ~(s[l] = s[k] \/ Before(sheet, s[l], s[k]))
    <3>1. s[l] \in rules
      BY <1>5
    <3>2. CASE l > k
      <4>1. Before(sheet, s[k], s[l])
        BY <1>4, <1>5, <3>2
      <4> QED BY <1>1, <2>1, <3>1, <3>2, <4>1, BeforeOrders
    <3>3. CASE l = k
      BY <1>4, <3>3
    <3>4. CASE l < k
      <4>1. Before(sheet, s[l], s[k])
        BY <1>5, <3>4
      <4> QED BY <1>4, <3>4, <4>1
    <3> QED BY <1>4, <3>2, <3>3, <3>4
  <2> DEFINE Speaks(j) == LastSaid(sheet[j].says, key) # {}
             NotAfter(j) == j = s[k] \/ Before(sheet, j, s[k])
  <2>5. (\A j \in rules : Speaks(j) => NotAfter(j)) <=> (\A l \in 1 .. m : l > k => ~Speaks(s[l]))
    <3>1. \A l \in 1 .. m : s[l] \in rules /\ (l > k <=> ~NotAfter(s[l]))
      BY <1>5, <2>4
    <3>2. \A i \in rules : \E l \in 1 .. m : i = s[l]
      BY <1>5
    <3> HIDE DEF Speaks, NotAfter
    <3> QED BY <3>1, <3>2
  <2> QED BY <2>2, <2>3, <2>5
<1>9. UNION {LastSaid(seqs[k], key) : k \in LastSpeaking(seqs, m, key)} =
        UNION {LastSaid(sheet[i].says, key) :
                 i \in {j \in DOMAIN sheet : Decides(sheet, node, id, key, j)}}
  <2>1. \A j : Decides(sheet, node, id, key, j) => j \in rules
    BY DEF Decides, rules
  <2>2. LastSpeaking(seqs, m, key) \subseteq 1 .. m
    BY DEF LastSpeaking
  <2> DEFINE L == {LastSaid(seqs[k], key) : k \in LastSpeaking(seqs, m, key)}
             D == {LastSaid(sheet[i].says, key) :
                     i \in {j \in DOMAIN sheet : Decides(sheet, node, id, key, j)}}
  <2>3. ASSUME NEW x \in L PROVE x \in D
    <3>1. PICK k \in LastSpeaking(seqs, m, key) : x = LastSaid(seqs[k], key)
      BY <2>3
    <3>2. k \in 1 .. m
      BY <2>2
    <3>3. Decides(sheet, node, id, key, s[k]) /\ s[k] \in DOMAIN sheet
      BY <1>1, <1>5, <1>8, <3>2
    <3>4. x = LastSaid(sheet[s[k]].says, key)
      BY <1>6, <3>1, <3>2
    <3> QED BY <3>3, <3>4
  <2>4. ASSUME NEW x \in D PROVE x \in L
    <3>1. PICK i \in DOMAIN sheet : Decides(sheet, node, id, key, i) /\ x = LastSaid(sheet[i].says, key)
      OBVIOUS
    <3>2. PICK k \in 1 .. m : i = s[k]
      BY <1>5, <2>1, <3>1
    <3>3. k \in LastSpeaking(seqs, m, key)
      BY <1>8, <3>1, <3>2
    <3>4. x = LastSaid(seqs[k], key)
      BY <1>6, <3>1, <3>2
    <3> QED BY <3>3, <3>4
  <2>5. L = D
    <3> HIDE DEF L, D
    <3> QED BY <2>3, <2>4
  <2> QED BY <2>5
<1> QED BY <1>2, <1>7, <1>9

\* Merely mentioned nodes have no attributes, and declared ones those of their
\* only statement.
LEMMA ResolvedSays ==
  ASSUME NEW doc, NEW id \in DOMAIN Resolve(doc).nodes, NEW key, key \notin {"shape", "label"},
         \A i \in At(doc, "node") : IsSequence(doc[i].attrs),
         ~DuplicateNode(doc)
  PROVE  ValueAt(Resolve(doc).nodes[id].attrs, key) = Written(doc, id, key)
<1>1. ASSUME NEW f PROVE ValueAt(Restrict(f, DOMAIN f \ {"shape", "label"}), key) = ValueAt(f, key)
  <2>1. /\ DOMAIN Restrict(f, DOMAIN f \ {"shape", "label"}) = DOMAIN f \ {"shape", "label"}
        /\ \A k \in DOMAIN f \ {"shape", "label"} : Restrict(f, DOMAIN f \ {"shape", "label"})[k] = f[k]
    BY DEF Restrict
  <2>2. {key} \cap (DOMAIN f \ {"shape", "label"}) = {key} \cap DOMAIN f
    OBVIOUS
  <2> QED BY <2>1, <2>2 DEF ValueAt
<1>2. CASE id \in Declared(doc)
  <2>1. PICK i \in At(doc, "node") : doc[i].id = id
    BY <1>2 DEF Declared
  <2>2. \A j \in At(doc, "node") : doc[j].id = id => j = i
    BY <2>1 DEF DuplicateNode
  <2>3. (CHOOSE j \in At(doc, "node") : doc[j].id = id) = i
    BY <2>1, <2>2
  <2>4. Resolve(doc).nodes[id].attrs =
          Restrict(Collected(doc[i].attrs), DOMAIN Collected(doc[i].attrs) \ {"shape", "label"})
    BY <1>2, <2>3 DEF Resolve, NodeOf, Statement
  <2>5. ValueAt(Collected(doc[i].attrs), key) = LastSaid(doc[i].attrs, key)
    BY CollectedSays DEF IsSequence
  <2>6. Written(doc, id, key) = LastSaid(doc[i].attrs, key)
    <3>1. {j \in At(doc, "node") : doc[j].id = id} = {i}
      BY <2>1, <2>2
    <3> QED BY <3>1 DEF Written
  <2> QED BY <1>1, <2>4, <2>5, <2>6
<1>3. CASE id \notin Declared(doc)
  <2>1. Resolve(doc).nodes[id].attrs = Restrict(Empty, DOMAIN Empty \ {"shape", "label"})
    BY <1>3 DEF Resolve, NodeOf
  <2>2. ValueAt(Empty, key) = {}
    BY DEF ValueAt, Empty
  <2>3. Written(doc, id, key) = {}
    BY <1>3 DEF Written, Declared
  <2> QED BY <1>1, <2>1, <2>2, <2>3
<1> QED BY <1>2, <1>3

\* Documents and stylesheets as the parsers return them.
WellFormed(doc, sheet) ==
  /\ IsSequence(doc)
  /\ Resolves(doc)
  /\ \A i \in At(doc, "node") : IsSequence(doc[i].attrs)
  /\ IsSequence(sheet)
  /\ \A i \in DOMAIN sheet : sheet[i].kind \in Kinds /\ IsSequence(sheet[i].says)

\* How the code reads a document, in terms of what its statements and rules say:
\* a node's own statement comes first, and a default of all nodes never.
CodeReading(doc, sheet, values, keys) ==
  LET read == Resolve(doc)
      g    == Prepare(doc, sheet, values)
  IN  /\ g.edges = read.edges
      /\ DOMAIN g.nodes = DOMAIN read.nodes
      /\ \A id \in DOMAIN g.nodes :
           /\ g.nodes[id].type = read.nodes[id].type
           /\ g.nodes[id].pos = read.nodes[id].pos
           /\ \A key \in keys :
                LET written == Written(doc, id, key)
                    said    == IF written # {} THEN written ELSE Styled(doc, sheet, id, key)
                IN  {ExpandValue(v, values) : v \in said} = ValueAt(g.nodes[id].attrs, key)

\* Preparing a document does what that says (graph/mod.rs, stylesheet.rs,
\* transforms.rs), for every key that resolving does not consume.
LEMMA PreparedByCode ==
  ASSUME NEW doc, NEW sheet, NEW values, NEW keys,
         WellFormed(doc, sheet),
         keys \cap {"shape", "label"} = {}
  PROVE  CodeReading(doc, sheet, values, keys)
<1> USE DEF WellFormed
<1> DEFINE read == Resolve(doc)
           styled == ApplyStylesheet(read, sheet)
           g == Prepare(doc, sheet, values)
<1>1. /\ DOMAIN read = {"nodes", "edges", "attrs"}
      /\ DOMAIN read.nodes = Declared(doc) \cup Mentioned(doc)
      /\ \A id \in DOMAIN read.nodes : DOMAIN read.nodes[id] = {"type", "label", "attrs", "pos"}
  BY DEF Resolve, NodeOf
<1> HIDE DEF read
<1>2. /\ styled.edges = read.edges /\ DOMAIN styled = DOMAIN read
      /\ styled.nodes = [id \in DOMAIN read.nodes |->
           [read.nodes[id] EXCEPT !.attrs = Over(@, Applied(sheet, id, read.nodes[id]))]]
  BY <1>1 DEF ApplyStylesheet
<1>3. g = ExpandVariables(styled, values)
  BY DEF Prepare, read
<1> HIDE DEF styled, g
<1>4. /\ g.edges = styled.edges
      /\ g.nodes = [id \in DOMAIN styled.nodes |->
           [styled.nodes[id] EXCEPT
              !.attrs = [k \in DOMAIN @ |-> ExpandValue(@[k], values)],
              !.label = {ExpandString(s, values) : s \in @}]]
  BY <1>1, <1>2, <1>3 DEF ExpandVariables
<1>5. ASSUME NEW id \in DOMAIN read.nodes
      PROVE  /\ g.nodes[id].type = read.nodes[id].type
             /\ g.nodes[id].pos = read.nodes[id].pos
             /\ LET all == Over(read.nodes[id].attrs, Applied(sheet, id, read.nodes[id]))
                IN  g.nodes[id].attrs = [k \in DOMAIN all |-> ExpandValue(all[k], values)]
  <2>1. DOMAIN read.nodes[id] = {"type", "label", "attrs", "pos"}
    BY <1>1
  <2> DEFINE all == Over(read.nodes[id].attrs, Applied(sheet, id, read.nodes[id]))
             node == styled.nodes[id]
  <2>2. node = [read.nodes[id] EXCEPT !.attrs = all]
    BY <1>2
  <2> HIDE DEF all
  <2>3. /\ node.attrs = all /\ node.type = read.nodes[id].type /\ node.pos = read.nodes[id].pos
        /\ DOMAIN node = {"type", "label", "attrs", "pos"}
    BY <2>1, <2>2
  <2>4. id \in DOMAIN styled.nodes
    BY <1>2
  <2>5. g.nodes[id] = [node EXCEPT
              !.attrs = [k \in DOMAIN @ |-> ExpandValue(@[k], values)],
              !.label = {ExpandString(s, values) : s \in @}]
    BY <1>4, <2>4
  <2> HIDE DEF node
  <2>6. /\ g.nodes[id].type = node.type /\ g.nodes[id].pos = node.pos
        /\ g.nodes[id].attrs = [k \in DOMAIN node.attrs |-> ExpandValue(node.attrs[k], values)]
    BY <2>3, <2>5
  <2>7. g.nodes[id].attrs = [k \in DOMAIN all |-> ExpandValue(all[k], values)]
    BY <2>3, <2>6
  <2> QED BY <2>3, <2>6, <2>7 DEF all
<1>6. ASSUME NEW id \in DOMAIN read.nodes, NEW key \in keys
      PROVE  LET written == Written(doc, id, key)
                 said    == IF written # {} THEN written ELSE Styled(doc, sheet, id, key)
             IN  {ExpandValue(v, values) : v \in said} =
                   {g.nodes[id].attrs[k] : k \in {key} \cap DOMAIN g.nodes[id].attrs}
  <2> DEFINE own == read.nodes[id].attrs
             taken == Applied(sheet, id, read.nodes[id])
             all == Over(own, taken)
             written == Written(doc, id, key)
             said == IF written # {} THEN written ELSE Styled(doc, sheet, id, key)
  <2>1. ValueAt(own, key) = written
    <3>1. key \notin {"shape", "label"}
      OBVIOUS
    <3> QED BY <3>1, ResolvedSays DEF Resolves, read
  <2>2. ValueAt(taken, key) = Styled(doc, sheet, id, key)
    <3> DEFINE V == UNION {Range(sheet[i].says) : i \in DOMAIN sheet}
    <3>1. Len(sheet) \in Nat /\ DOMAIN sheet = 1 .. Len(sheet)
      BY DEF IsSequence
    <3>2. ASSUME NEW i \in DOMAIN sheet PROVE sheet[i].says \in Seq(V)
      <4> DEFINE says == sheet[i].says
      <4>1. says \in Seq(Range(says)) /\ Range(says) \subseteq V
        BY DEF IsSequence
      <4> HIDE DEF V, says
      <4>2. says \in Seq(V)
        BY <4>1
      <4> QED BY <4>2 DEF says
    <3> HIDE DEF V
    <3>3. ValueAt(Applied(sheet, id, read.nodes[id]), key) =
            UNION {LastSaid(sheet[i].says, key) :
                     i \in {j \in DOMAIN sheet : Decides(sheet, read.nodes[id], id, key, j)}}
      BY <3>1, <3>2, AppliedSays
    <3> QED BY <3>3 DEF Styled, read
  <2>3. g.nodes[id].attrs = [k \in DOMAIN all |-> ExpandValue(all[k], values)]
    BY <1>5
  <2>4. ValueAt(all, key) = IF key \in DOMAIN own THEN ValueAt(own, key) ELSE ValueAt(taken, key)
    BY OverSays
  <2>5. key \in DOMAIN own <=> ValueAt(own, key) # {}
    BY DEF ValueAt
  <2> HIDE DEF own, taken, all, written
  <2>6. ValueAt(all, key) = said
    BY <2>1, <2>2, <2>4, <2>5
  <2>7. {g.nodes[id].attrs[k] : k \in {key} \cap DOMAIN g.nodes[id].attrs} =
          {ExpandValue(v, values) : v \in ValueAt(all, key)}
    BY <2>3 DEF ValueAt
  <2> HIDE DEF said
  <2>8. {ExpandValue(v, values) : v \in said} =
          {g.nodes[id].attrs[k] : k \in {key} \cap DOMAIN g.nodes[id].attrs}
    BY <2>6, <2>7
  <2> QED BY <2>8 DEF said, written
<1>7. DOMAIN g.nodes = DOMAIN read.nodes
  BY <1>2, <1>4
<1> QED BY <1>2, <1>4, <1>5, <1>6, <1>7 DEF CodeReading, ValueAt, read, g

\* What is settled is in the prepared graph, with placeholders filled, and what
\* nobody asks for is not.
PreparesWhatIsAsked(doc, sheet, values, keys) ==
  LET g == Prepare(doc, sheet, values)
  IN  \A id \in DOMAIN g.nodes : \A key \in keys :
        Settled(doc, sheet, id, key) =>
          ValueAt(g.nodes[id].attrs, key) = {ExpandValue(v, values) : v \in Asked(doc, sheet, id, key)}

\* Whatever the document, the stylesheet and the variables: where it does not
\* matter whether a statement, a rule or a default goes first, a node has the
\* attributes that its statement and the deciding rule ask for, and no others
\* (graph/mod.rs, stylesheet.rs, transforms.rs), for every key that resolving
\* does not consume.
THEOREM EveryDocumentPrepared ==
  ASSUME NEW doc, NEW sheet, NEW values, NEW keys,
         WellFormed(doc, sheet),
         keys \cap {"shape", "label"} = {}
  PROVE  PreparesWhatIsAsked(doc, sheet, values, keys)
<1> DEFINE g == Prepare(doc, sheet, values)
<1>1. CodeReading(doc, sheet, values, keys)
  BY PreparedByCode
<1> SUFFICES ASSUME NEW id \in DOMAIN g.nodes, NEW key \in keys, Settled(doc, sheet, id, key)
             PROVE  ValueAt(g.nodes[id].attrs, key) =
                      {ExpandValue(v, values) : v \in Asked(doc, sheet, id, key)}
  BY DEF PreparesWhatIsAsked
<1> DEFINE written == Written(doc, id, key)
           styled  == Styled(doc, sheet, id, key)
           said    == IF written # {} THEN written ELSE styled
<1>2. {ExpandValue(v, values) : v \in said} = ValueAt(g.nodes[id].attrs, key)
  BY <1>1 DEF CodeReading
<1>3. written = {} \/ styled = {}
  BY DEF Settled
<1> HIDE DEF written, styled
<1>4. said = written \cup styled
  BY <1>3
<1> QED BY <1>2, <1>4 DEF Asked, written, styled

(* ---------------------------- goals and retries ------------------------- *)

\* Where a statement mentions a node, as MentionPos counts.
Mentions(doc, id) ==
  {2 * i : i \in {i \in At(doc, "edge") : doc[i].from = id}}
    \cup {2 * i + 1 : i \in {i \in At(doc, "edge") : doc[i].to = id}}

\* Every node has a place of its own.
LEMMA PlacesDiffer ==
  ASSUME NEW doc, IsSequence(doc), ~DuplicateNode(doc)
  PROVE  LET nodes == Resolve(doc).nodes
         IN  /\ \A id \in DOMAIN nodes : nodes[id].pos \in 1 .. 3 * Len(doc) + 1
             /\ \A a, b \in DOMAIN nodes : nodes[a].pos = nodes[b].pos => a = b
<1> DEFINE nodes == Resolve(doc).nodes
<1>1. Len(doc) \in Nat /\ DOMAIN doc = 1 .. Len(doc)
  BY DEF IsSequence
<1>2. DOMAIN nodes = Declared(doc) \cup Mentioned(doc)
  BY DEF Resolve
<1>0. ASSUME NEW attrs, NEW pos PROVE NodeOf(doc, attrs, pos).pos = pos
  BY ZenonT(10) DEF NodeOf
<1>3. ASSUME NEW id \in Declared(doc)
      PROVE  /\ nodes[id].pos \in At(doc, "node") /\ doc[nodes[id].pos].id = id
             /\ nodes[id].pos \in 1 .. Len(doc)
  <2>1. nodes[id].pos = CHOOSE i \in At(doc, "node") : doc[i].id = id
    BY <1>0 DEF Resolve
  <2>2. \E i \in At(doc, "node") : doc[i].id = id
    BY DEF Declared
  <2>3. nodes[id].pos \in At(doc, "node") /\ doc[nodes[id].pos].id = id
    BY <2>1, <2>2
  <2> QED BY <1>1, <2>3 DEF At
<1>4. ASSUME NEW id \in Mentioned(doc) \ Declared(doc)
      PROVE  \E p \in Mentions(doc, id) : nodes[id].pos = Len(doc) + p
  <2>1. nodes[id].pos = Len(doc) + (CHOOSE p \in Mentions(doc, id) : \A q \in Mentions(doc, id) : p <= q)
    BY <1>0, <1>2 DEF Resolve, MentionPos, Mentions
  <2>2. Mentions(doc, id) # {}
    BY DEF Mentions, Mentioned
  <2>3. Mentions(doc, id) \in SUBSET Nat
    BY <1>1 DEF Mentions, At
  <2>4. \E p \in Mentions(doc, id) : \A q \in Mentions(doc, id) : p <= q
    BY <2>2, <2>3, LeastNumber
  <2> QED BY <2>1, <2>4
<1>5. ASSUME NEW id PROVE \A p \in Mentions(doc, id) : p \in 2 .. 2 * Len(doc) + 1
  BY <1>1 DEF Mentions, At
<1>6. ASSUME NEW a, NEW b, NEW p \in Mentions(doc, a) \cap Mentions(doc, b) PROVE a = b
  BY <1>1 DEF Mentions, At
<1> HIDE DEF nodes
<1>7. \A id \in DOMAIN nodes : nodes[id].pos \in 1 .. 3 * Len(doc) + 1
  BY <1>1, <1>2, <1>3, <1>4, <1>5
<1>8. ASSUME NEW a \in DOMAIN nodes, NEW b \in DOMAIN nodes, nodes[a].pos = nodes[b].pos
      PROVE  a = b
  <2>1. CASE a \in Declared(doc) /\ b \in Declared(doc)
    BY <1>3, <1>8, <2>1
  <2>2. CASE a \in Declared(doc) /\ b \notin Declared(doc)
    <3>1. nodes[a].pos \in 1 .. Len(doc)
      BY <1>3, <2>2
    <3>2. PICK p \in Mentions(doc, b) : nodes[b].pos = Len(doc) + p
      BY <1>2, <1>4, <2>2
    <3>3. p \in 2 .. 2 * Len(doc) + 1
      BY <1>5
    <3> QED BY <1>1, <1>8, <3>1, <3>2, <3>3
  <2>3. CASE a \notin Declared(doc) /\ b \in Declared(doc)
    <3>1. nodes[b].pos \in 1 .. Len(doc)
      BY <1>3, <2>3
    <3>2. PICK p \in Mentions(doc, a) : nodes[a].pos = Len(doc) + p
      BY <1>2, <1>4, <2>3
    <3>3. p \in 2 .. 2 * Len(doc) + 1
      BY <1>5
    <3> QED BY <1>1, <1>8, <3>1, <3>2, <3>3
  <2>4. CASE a \notin Declared(doc) /\ b \notin Declared(doc)
    <3>1. PICK p \in Mentions(doc, a) : nodes[a].pos = Len(doc) + p
      BY <1>2, <1>4, <2>4
    <3>2. PICK q \in Mentions(doc, b) : nodes[b].pos = Len(doc) + q
      BY <1>2, <1>4, <2>4
    <3>3. p \in 2 .. 2 * Len(doc) + 1 /\ q \in 2 .. 2 * Len(doc) + 1
      BY <1>5
    <3>4. Len(doc) + p = Len(doc) + q
      BY <1>8, <3>1, <3>2
    <3>5. p = q
      BY <1>1, <3>3, <3>4
    <3> QED BY <1>6, <3>5
  <2> QED BY <2>1, <2>2, <2>3, <2>4
<1> QED BY <1>7, <1>8 DEF nodes

\* The goals are the nodes whose attributes say so, and no others.
LEMMA GoalsFound ==
  ASSUME NEW g, NEW most \in Nat,
         \A id \in DOMAIN g.nodes : g.nodes[id].pos \in 1 .. most,
         \A a, b \in DOMAIN g.nodes : g.nodes[a].pos = g.nodes[b].pos => a = b
  PROVE  Range(GoalsFromGraph(g)) =
           {id \in DOMAIN g.nodes : Yes \in FirstOf(g.nodes[id].attrs, "goal_gate", "goal")}
<1> DEFINE goals == {id \in DOMAIN g.nodes : Yes \in FirstOf(g.nodes[id].attrs, "goal_gate", "goal")}
           order == {p \in goals \X goals : g.nodes[p[1]].pos < g.nodes[p[2]].pos}
           pos == [id \in goals |-> g.nodes[id].pos]
<1>1. GoalsFromGraph(g) = Sorted(goals, order)
  BY DEF GoalsFromGraph
<1>2. \A id \in goals : id \in DOMAIN g.nodes /\ pos[id] = g.nodes[id].pos
  OBVIOUS
<1>3. \A a, b \in goals : <<a, b>> \in order <=> pos[a] < pos[b]
  OBVIOUS
<1>4. pos \in [goals -> 1 .. most]
  OBVIOUS
<1> HIDE DEF goals, order, pos
<1>5. pos \in Injection(goals, 1 .. most)
  BY <1>2, <1>4 DEF Injection, IsInjective
<1>6. IsFiniteSet(goals)
  <2>1. IsFiniteSet(1 .. most)
    BY FS_Interval
  <2> QED BY <1>5, <2>1, FS_Injection
<1>7. \A a \in goals : pos[a] \in Int
  BY <1>4
<1>8. Orders(order, goals)
  <2>1. \A x, y \in goals : x # y => pos[x] # pos[y]
    BY <1>2
  <2> QED BY <1>3, <1>7, <2>1 DEF Orders
<1>9. Range(Sorted(goals, order)) = goals
  BY <1>6, <1>8, SortedExists DEF InOrder
<1> QED BY <1>1, <1>9 DEF goals

\* The engine has the goals and attempts it is asked for.
HasWhatIsAsked(doc, sheet, values) ==
  LET g == Prepare(doc, sheet, values)
  IN  \A id \in DOMAIN g.nodes :
        /\ GoalAsked(doc, sheet, id) => id \in Range(GoalsFromGraph(g))
        /\ \A n \in AttemptsAsked(doc, sheet, id) : AttemptsFromNode(g.nodes[id]) = n

\* Placeholders are filled in strings only.
LEMMA OnlyStringsFilled ==
  ASSUME NEW v, NEW values, v = Yes \/ v \in [type : {"number"}, n : Nat]
  PROVE  ExpandValue(v, values) = v
<1>1. v.type # "string"
  BY DEF Yes
<1>2. v \notin StringValue
  BY <1>1 DEF StringValue
<1> QED BY <1>2 DEF ExpandValue

\* What is asked first is what is read first.
LEMMA FirstIsAsked ==
  ASSUME NEW doc, NEW sheet, NEW values, NEW id, NEW key, NEW oldKey, NEW attrs,
         ValueAt(attrs, key) = {ExpandValue(v, values) : v \in Asked(doc, sheet, id, key)},
         ValueAt(attrs, oldKey) = {ExpandValue(v, values) : v \in Asked(doc, sheet, id, oldKey)},
         NEW v \in AskedFirst(doc, sheet, id, key, oldKey),
         ExpandValue(v, values) = v
  PROVE  \/ key \in DOMAIN attrs /\ attrs[key] = v
         \/ key \notin DOMAIN attrs /\ oldKey \in DOMAIN attrs /\ attrs[oldKey] = v
<1>1. CASE Asked(doc, sheet, id, key) # {}
  <2>1. v \in Asked(doc, sheet, id, key)
    BY <1>1 DEF AskedFirst
  <2>2. v \in ValueAt(attrs, key)
    BY <2>1
  <2> QED BY <2>2 DEF ValueAt
<1>2. CASE Asked(doc, sheet, id, key) = {}
  <2>1. v \in Asked(doc, sheet, id, oldKey)
    BY <1>2 DEF AskedFirst
  <2>2. v \in ValueAt(attrs, oldKey) /\ ValueAt(attrs, key) = {}
    BY <1>2, <2>1
  <2> QED BY <2>2 DEF ValueAt
<1> QED BY <1>1, <1>2

\* Whatever the document, the stylesheet and the variables: a node that is meant
\* to be a goal is one of the goals the engine enforces, and a node that is meant
\* to have so many attempts gets as many, by the names in use or by those they
\* replaced, wherever the documentation settles it (goals.rs, retry.rs).
THEOREM EngineHasWhatIsAsked ==
  ASSUME NEW doc, NEW sheet, NEW values, WellFormed(doc, sheet)
  PROVE  HasWhatIsAsked(doc, sheet, values)
<1> DEFINE g == Prepare(doc, sheet, values)
           keys == {"goal_gate", "goal", "max_retries", "retries"}
<1>1. PreparesWhatIsAsked(doc, sheet, values, keys)
  <2>1. keys \cap {"shape", "label"} = {}
    OBVIOUS
  <2> QED BY <2>1, EveryDocumentPrepared
<1>2. ASSUME NEW id \in DOMAIN g.nodes, NEW key \in keys, Settled(doc, sheet, id, key)
      PROVE  ValueAt(g.nodes[id].attrs, key) = {ExpandValue(v, values) : v \in Asked(doc, sheet, id, key)}
  BY <1>1, <1>2 DEF PreparesWhatIsAsked
<1>3. Range(GoalsFromGraph(g)) =
        {id \in DOMAIN g.nodes : Yes \in FirstOf(g.nodes[id].attrs, "goal_gate", "goal")}
  <2> DEFINE read == Resolve(doc)
  <2>1. /\ \A id \in DOMAIN read.nodes : read.nodes[id].pos \in 1 .. 3 * Len(doc) + 1
        /\ \A a, b \in DOMAIN read.nodes : read.nodes[a].pos = read.nodes[b].pos => a = b
    BY PlacesDiffer DEF WellFormed, Resolves
  <2>2. /\ DOMAIN g.nodes = DOMAIN read.nodes
        /\ \A id \in DOMAIN g.nodes : g.nodes[id].pos = read.nodes[id].pos
    <3>1. CodeReading(doc, sheet, values, {})
      BY PreparedByCode
    <3> QED BY <3>1 DEF CodeReading
  <2>3. 3 * Len(doc) + 1 \in Nat
    BY DEF WellFormed, IsSequence
  <2> HIDE DEF read, g
  <2> QED BY <2>1, <2>2, <2>3, GoalsFound
<1> HIDE DEF g
<1>4. ASSUME NEW id \in DOMAIN g.nodes, GoalAsked(doc, sheet, id)
      PROVE  id \in Range(GoalsFromGraph(g))
  <2> DEFINE attrs == g.nodes[id].attrs
  <2>1. /\ Settled(doc, sheet, id, "goal_gate") /\ Settled(doc, sheet, id, "goal")
        /\ Yes \in AskedFirst(doc, sheet, id, "goal_gate", "goal")
    BY <1>4 DEF GoalAsked
  <2>2. ExpandValue(Yes, values) = Yes
    BY OnlyStringsFilled
  <2>3. /\ ValueAt(attrs, "goal_gate") = {ExpandValue(v, values) : v \in Asked(doc, sheet, id, "goal_gate")}
        /\ ValueAt(attrs, "goal") = {ExpandValue(v, values) : v \in Asked(doc, sheet, id, "goal")}
    BY <1>2, <2>1
  <2> HIDE DEF attrs
  <2>4. \/ "goal_gate" \in DOMAIN attrs /\ attrs["goal_gate"] = Yes
        \/ "goal_gate" \notin DOMAIN attrs /\ "goal" \in DOMAIN attrs /\ attrs["goal"] = Yes
    BY <2>1, <2>2, <2>3, FirstIsAsked
  <2>5. Yes \in FirstOf(attrs, "goal_gate", "goal")
    BY <2>4 DEF FirstOf
  <2> QED BY <1>3, <2>5 DEF attrs
<1>5. ASSUME NEW id \in DOMAIN g.nodes, NEW n \in AttemptsAsked(doc, sheet, id)
      PROVE  AttemptsFromNode(g.nodes[id]) = n
  <2> DEFINE attrs == g.nodes[id].attrs
  <2>1. /\ Settled(doc, sheet, id, "max_retries") /\ Settled(doc, sheet, id, "retries")
        /\ \E v \in AskedFirst(doc, sheet, id, "max_retries", "retries") \cap [type : {"number"}, n : Nat] :
             n = v.n + 1
    BY <1>5 DEF AttemptsAsked
  <2>2. PICK v \in AskedFirst(doc, sheet, id, "max_retries", "retries") \cap [type : {"number"}, n : Nat] :
             n = v.n + 1
    BY <2>1
  <2>3. ExpandValue(v, values) = v
    BY <2>2, OnlyStringsFilled
  <2>4. /\ ValueAt(attrs, "max_retries") = {ExpandValue(w, values) : w \in Asked(doc, sheet, id, "max_retries")}
        /\ ValueAt(attrs, "retries") = {ExpandValue(w, values) : w \in Asked(doc, sheet, id, "retries")}
    BY <1>2, <2>1
  <2> HIDE DEF attrs
  <2>5. \/ "max_retries" \in DOMAIN attrs /\ attrs["max_retries"] = v
        \/ "max_retries" \notin DOMAIN attrs /\ "retries" \in DOMAIN attrs /\ attrs["retries"] = v
    BY <2>2, <2>3, <2>4, FirstIsAsked
  <2>6. v \in NumberValue /\ AsU32(v.n) = v.n
    BY <2>2 DEF NumberValue, AsU32
  <2> QED BY <2>2, <2>5, <2>6 DEF AttemptsFromNode, Reads, attrs
<1> QED BY <1>4, <1>5 DEF HasWhatIsAsked, g

(* ----------------------- what a run makes of them ----------------------- *)

\* Without a report in this process, a node has the outcome it has on disk.
FromDisk(n) ==
  /\ \A i \in DOMAIN events : ~ReportOf(events[i], n)
  /\ disk.file = "saved" => n \in DOMAIN disk.outcomes /\ disk.outcomes[n] = outcomes[n]

\* Every outcome was reported last in this process or comes from an earlier one.
OutcomesKnown == \A n \in DOMAIN outcomes : LastReport(events, n, outcomes[n]) \/ FromDisk(n)

CompletedMet == result = "Completed" => pc = "done" /\ GoalsMet(graph, outcomes)

\* Within a launch, the attempts are counted as in any run.
LaunchRetries == attempts \in Nat /\ RetryInv

AskedInv == EventsAreSeq /\ OutcomesKnown /\ CompletedMet /\ LaunchRetries

\* Events that are no reports leave the reports as they are.
LEMMA ReportsStay ==
  ASSUME EventsAreSeq, NEW es, Adds(es), \A i \in DOMAIN es : ~IsReport(es[i]), NEW n
  PROVE  /\ \A o : LastReport(events, n, o) => LastReport(events', n, o)
         /\ (\A i \in DOMAIN events : ~ReportOf(events[i], n)) =>
               \A i \in DOMAIN events' : ~ReportOf(events'[i], n)
<1>1. /\ DOMAIN events = 1 .. Len(events) /\ Len(events) \in Nat
      /\ DOMAIN es = 1 .. Len(es) /\ Len(es) \in Nat
      /\ DOMAIN events' = 1 .. Len(events) + Len(es) /\ Len(events') = Len(events) + Len(es)
      /\ \A i \in 1 .. Len(events) : events'[i] = events[i]
      /\ \A i \in 1 .. Len(es) : events'[Len(events) + i] = es[i]
  BY Appended
<1>2. ASSUME NEW i \in DOMAIN events', i \notin DOMAIN events
      PROVE  ~ReportOf(events'[i], n)
  <2>1. i - Len(events) \in 1 .. Len(es) /\ Len(events) + (i - Len(events)) = i
    BY <1>1, <1>2
  <2>2. events'[i] = es[i - Len(events)] /\ i - Len(events) \in DOMAIN es
    BY <1>1, <2>1
  <2> QED BY <2>2 DEF ReportOf
<1>3. DOMAIN events \subseteq DOMAIN events' /\ \A i \in DOMAIN events : events'[i] = events[i]
  BY <1>1
<1>4. ASSUME NEW o, LastReport(events, n, o) PROVE LastReport(events', n, o)
  <2>1. PICK i \in DOMAIN events : /\ ReportOf(events[i], n)
                                   /\ events[i].out = o
                                   /\ \A j \in i + 1 .. Len(events) : ~ReportOf(events[j], n)
    BY <1>4 DEF LastReport
  <2>2. ASSUME NEW j \in i + 1 .. Len(events') PROVE ~ReportOf(events'[j], n)
    <3>1. j \in DOMAIN events' /\ (j \in DOMAIN events => j \in i + 1 .. Len(events))
      BY <1>1, <2>1
    <3> QED BY <1>2, <1>3, <2>1, <3>1
  <2> QED BY <1>3, <2>1, <2>2 DEF LastReport
<1> QED BY <1>2, <1>3, <1>4

\* The outcome that is recorded is the last its node reported, and the others stay.
LEMMA RecordKnown ==
  ASSUME EventsAreSeq, OutcomesKnown, RecordOutcome
  PROVE  OutcomesKnown'
<1> DEFINE place == Len(events) + 1
<1>0. PICK es : Adds(es) /\ 1 \in DOMAIN es /\ es[1] = RecordReport /\ OnlyAbortAfter(es)
  BY RecordAdds
<1>1. /\ DOMAIN events = 1 .. Len(events) /\ Len(events) \in Nat
      /\ DOMAIN es = 1 .. Len(es) /\ Len(es) \in Nat
      /\ DOMAIN events' = 1 .. Len(events) + Len(es) /\ Len(events') = Len(events) + Len(es)
      /\ \A i \in 1 .. Len(events) : events'[i] = events[i]
      /\ \A i \in 1 .. Len(es) : events'[Len(events) + i] = es[i]
  BY <1>0, Appended
<1>2. RecordReport.node = cur /\ IsReport(RecordReport) /\ RecordReport.out = out
  BY DEF RecordReport, EvOutcome, IsReport
<1>3. place \in DOMAIN events' /\ events'[place] = RecordReport
  BY <1>0, <1>1
<1>4. ASSUME NEW i \in DOMAIN events', i \notin DOMAIN events, i # place
      PROVE  ~IsReport(events'[i])
  <2>1. i - Len(events) \in 1 .. Len(es) /\ Len(events) + (i - Len(events)) = i
    BY <1>1, <1>4
  <2>2. events'[i] = es[i - Len(events)] /\ i - Len(events) # 1
    BY <1>1, <1>4, <2>1
  <2>3. es[i - Len(events)].ev = "PipelineAborted"
    BY <1>0, <1>1, <2>1, <2>2 DEF OnlyAbortAfter
  <2> QED BY <2>2, <2>3 DEF IsReport
<1>5. DOMAIN events \subseteq DOMAIN events' /\ \A i \in DOMAIN events : events'[i] = events[i] /\ i < place
  BY <1>1
<1>6. LastReport(events', cur, out)
  <2>1. ASSUME NEW j \in place + 1 .. Len(events') PROVE ~ReportOf(events'[j], cur)
    <3>1. j \in DOMAIN events' /\ j \notin DOMAIN events /\ j # place
      BY <1>1
    <3> QED BY <1>4, <3>1 DEF ReportOf
  <2> HIDE DEF place
  <2> QED BY <1>2, <1>3, <2>1 DEF LastReport, ReportOf
<1>7. ASSUME NEW n, n # cur, NEW i \in DOMAIN events', i \notin DOMAIN events
      PROVE  ~ReportOf(events'[i], n)
  BY <1>2, <1>3, <1>4, <1>7 DEF ReportOf
<1>8. ASSUME NEW n \in DOMAIN outcomes, n # cur, LastReport(events, n, outcomes[n])
      PROVE  LastReport(events', n, outcomes[n])
  <2>1. PICK i \in DOMAIN events : /\ ReportOf(events[i], n)
                                   /\ events[i].out = outcomes[n]
                                   /\ \A j \in i + 1 .. Len(events) : ~ReportOf(events[j], n)
    BY <1>8 DEF LastReport
  <2>2. ASSUME NEW j \in i + 1 .. Len(events') PROVE ~ReportOf(events'[j], n)
    <3>1. j \in DOMAIN events' /\ (j \in DOMAIN events => j \in i + 1 .. Len(events))
      BY <1>1, <2>1
    <3> QED BY <1>5, <1>7, <1>8, <2>1, <3>1
  <2> QED BY <1>5, <2>1, <2>2 DEF LastReport
<1>9. ASSUME NEW n \in DOMAIN outcomes, n # cur, \A i \in DOMAIN events : ~ReportOf(events[i], n)
      PROVE  \A i \in DOMAIN events' : ~ReportOf(events'[i], n)
  BY <1>5, <1>7, <1>9
<1>10. /\ DOMAIN outcomes' = DOMAIN outcomes \cup {cur} /\ disk' = disk
       /\ \A n \in DOMAIN outcomes' : outcomes'[n] = IF n = cur THEN out ELSE outcomes[n]
  BY DEF RecordOutcome
<1> SUFFICES ASSUME NEW n \in DOMAIN outcomes' PROVE LastReport(events', n, outcomes'[n]) \/ FromDisk(n)'
  BY DEF OutcomesKnown
<1>11. CASE n = cur
  BY <1>6, <1>10, <1>11
<1>12. CASE n # cur
  <2>1. n \in DOMAIN outcomes /\ outcomes'[n] = outcomes[n]
    BY <1>10, <1>12
  <2>2. LastReport(events, n, outcomes[n]) \/ FromDisk(n)
    BY <2>1 DEF OutcomesKnown
  <2>3. FromDisk(n) => FromDisk(n)'
    BY <1>9, <1>10, <1>12, <2>1 DEF FromDisk
  <2> QED BY <1>8, <1>12, <2>1, <2>2, <2>3
<1> QED BY <1>11, <1>12

\* Any other step of the engine, a save included, leaves what is known as it is.
LEMMA KnownEngine ==
  ASSUME EventsAreSeq, OutcomesKnown, [Next]_vars
  PROVE  OutcomesKnown' /\ EventsAreSeq'
<1>1. CASE RecordOutcome
  BY <1>1, RecordKnown, RecordAdds, Appended
<1>2. CASE ~RecordOutcome
  <2>1. PICK es : Adds(es) /\ \A i \in DOMAIN es : ~IsReport(es[i])
    <3>1. CASE EndSave
      <4> DEFINE created == Ev("CheckpointCreated", cur)
      <4>1. events' = events \o <<created>>
        BY <3>1 DEF EndSave, Emit
      <4>2. ~IsReport(created)
        BY KindsWritten DEF IsReport
      <4> HIDE DEF created
      <4>3. Adds(<<created>>)
        BY <4>1, FewAreSeq DEF Adds
      <4>4. DOMAIN <<created>> = 1 .. 1 /\ <<created>>[1] = created /\ \A i \in 1 .. 1 : i = 1
        OBVIOUS
      <4> QED BY <4>2, <4>3, <4>4
    <3>2. CASE BeginSave
      <4>1. UNCHANGED events
        BY <3>2 DEF BeginSave
      <4>2. PICK S : events \in Seq(S)
        BY DEF EventsAreSeq
      <4>3. events' = events \o <<>> /\ DOMAIN <<>> = {}
        BY <4>1, <4>2
      <4>4. <<>> \in Seq(S)
        OBVIOUS
      <4> QED BY <4>3, <4>4 DEF Adds
    <3>3. CASE ~EndSave /\ ~BeginSave
      BY <1>2, <3>3, OthersQuiet DEF Passing
    <3> QED BY <3>1, <3>2, <3>3
  <2>2. outcomes' = outcomes
    BY <1>2, OnlyRecordVisits
  <2>3. /\ disk'.file = "saved" => disk' = disk \/ disk'.outcomes = outcomes
    BY OnlySavesWrite DEF BeginSave, EndSave, Torn, Checkpoint
  <2>4. ASSUME NEW n \in DOMAIN outcomes, FromDisk(n) PROVE FromDisk(n)'
    <3>1. \A i \in DOMAIN events' : ~ReportOf(events'[i], n)
      BY <2>1, <2>4, ReportsStay DEF FromDisk
    <3> QED BY <2>2, <2>3, <2>4, <3>1 DEF FromDisk
  <2>5. \A n \in DOMAIN outcomes : LastReport(events, n, outcomes[n]) => LastReport(events', n, outcomes[n])
    BY <2>1, ReportsStay
  <2>6. OutcomesKnown'
    BY <2>2, <2>4, <2>5 DEF OutcomesKnown
  <2> QED BY <2>1, <2>6, Appended
<1> QED BY <1>1, <1>2

\* A run is completed by the check of its goals, and not touched afterwards.
LEMMA CompletedStep == CompletedMet /\ [Next]_vars => CompletedMet'
<1> SUFFICES ASSUME CompletedMet, [Next]_vars PROVE CompletedMet'
  OBVIOUS
<1> USE DEF CompletedMet
<1>1. CASE Finish
  BY <1>1 DEF Finish, Return, loopVars, config
<1>2. CASE HandlerReturns \/ Watchdog \/ UserCancels \/ UNCHANGED vars
  BY <1>2 DEF HandlerReturns, Watchdog, Tick, WatchdogFires, UserCancels, vars, loopVars, config, Looping
<1>3. CASE RejectGraph \/ Launch \/ AbortCancelled \/ AbortMaxSteps \/ PassChecks \/ StartNode
  BY <1>3 DEF RejectGraph, Launch, AbortCancelled, AbortMaxSteps, PassChecks, LookUp, StartNode,
              Return, loopVars, config
<1>4. CASE RecordOutcome \/ BeginSave \/ EndSave \/ SaveFails
  BY <1>4 DEF RecordOutcome, BeginSave, EndSave, SaveFails, Return, loopVars, config
<1>5. CASE ExitReached \/ GoalRetry \/ GoalsFail
  BY <1>5 DEF ExitReached, AtExit, GoalRetry, GoTo, GoalsFail, Return, loopVars, config
<1>6. CASE EdgeError \/ TraverseEdge \/ FailureRoute \/ Unroutable \/ EndNoEdge
  BY <1>6 DEF EdgeError, TraverseEdge, FailureRoute, GoTo, Unroutable, EndNoEdge, NoEdge, AtEdges,
              Return, loopVars, config
<1> QED BY <1>1, <1>2, <1>3, <1>4, <1>5, <1>6 DEF Next, Loop

\* A new process knows of the outcomes what the file says, and begins to count.
LEMMA AskedResume ==
  ASSUME NEW seed, RunFromCheckpoint(seed), UNCHANGED disk
  PROVE  AskedInv'
<1> DEFINE started == Ev("PipelineStarted", NoNode)
<1>1. events' = <<started>> /\ ~IsReport(started)
  BY KindsWritten DEF RunFromCheckpoint, Afresh, IsReport
<1>2. outcomes' = disk.outcomes /\ pc' = "top" /\ attempts' = 0 /\ result' = "none"
  BY DEF RunFromCheckpoint, Afresh
<1> HIDE DEF started
<1>3. <<started>> \in Seq({started}) /\ \A i \in DOMAIN <<started>> : <<started>>[i] = started
  OBVIOUS
<1>4. EventsAreSeq'
  BY <1>1, <1>3 DEF EventsAreSeq
<1>5. OutcomesKnown'
  BY <1>1, <1>2, <1>3 DEF OutcomesKnown, FromDisk, ReportOf
<1>6. CompletedMet' /\ LaunchRetries'
  BY <1>2 DEF CompletedMet, LaunchRetries, RetryInv, RetriesExhausted, AttemptsLeft
<1> QED BY <1>4, <1>5, <1>6 DEF AskedInv

\* Every step keeps all this.
LEMMA AskedStep == TypesInv /\ AskedInv /\ [DurableNext]_durableVars => AskedInv'
<1> SUFFICES ASSUME TypesInv, AskedInv, [DurableNext]_durableVars PROVE AskedInv'
  OBVIOUS
<1>1. CASE [Next]_vars
  <2>1. OutcomesKnown' /\ EventsAreSeq'
    BY <1>1, KnownEngine DEF AskedInv
  <2>2. CompletedMet'
    BY <1>1, CompletedStep DEF AskedInv
  <2>3. IsGraph(graph) /\ (pc = "exec" => cur \in graph.nodes)
    BY NamesInUse DEF TypesInv, DurableTypeOK, LookedUp, Looping
  <2>4. LaunchRetries'
    BY <1>1, <2>3, RetryStep DEF AskedInv, LaunchRetries
  <2> QED BY <2>1, <2>2, <2>4 DEF AskedInv
<1>2. CASE Crash
  <2>1. /\ pc' = "crashed" /\ result' = "none"
        /\ UNCHANGED <<events, outcomes, disk, attempts, out, cur, graph>>
    BY <1>2 DEF Crash, loopVars, config
  <2>2. OutcomesKnown'
    BY <2>1 DEF AskedInv, OutcomesKnown, FromDisk
  <2>3. CompletedMet' /\ LaunchRetries' /\ EventsAreSeq'
    BY <2>1 DEF AskedInv, CompletedMet, LaunchRetries, RetryInv, RetriesExhausted, AttemptsLeft, EventsAreSeq
  <2> QED BY <2>2, <2>3 DEF AskedInv
<1>3. CASE ResumeRun \/ ResumeCommand
  BY <1>3, AskedResume DEF ResumeRun, ResumeCommand
<1> QED BY <1>1, <1>2, <1>3 DEF DurableNext, Archive, durableVars

\* What is asked for, by any document and stylesheet a graph is loaded from, is what
\* the run makes of it.
LEMMA AsDemanded ==
  ASSUME AskedInv, NEW source, WellFormed(source.doc, source.sheet), Demand(source).graph = graph
  PROVE  LET asked == Demand(source)
         IN  /\ result = "Completed" => \A n \in asked.goals : LatestSucceeded(n)
             /\ \A try \in asked.tries :
                  pc = "record" /\ cur = try[1] =>
                    /\ attempts <= try[2]
                    /\ IsRetryable(out) => attempts = try[2]
<1> DEFINE doc == source.doc
           sheet == source.sheet
           g == Prepare(doc, sheet, Empty)
<1>1. graph = Loaded(g, LoopWork)
  BY DEF Demand, Load
<1>2. /\ graph.goals = GoalsFromGraph(g)
      /\ graph.maxAttempts = [n \in DOMAIN g.nodes |-> AttemptsFromNode(g.nodes[n])]
  BY <1>1 DEF Loaded, Pipeline
<1>3. HasWhatIsAsked(doc, sheet, Empty)
  BY EngineHasWhatIsAsked
<1>4. Declared(doc) \subseteq DOMAIN g.nodes
  <2>1. CodeReading(doc, sheet, Empty, {})
    BY PreparedByCode
  <2> QED BY <2>1 DEF CodeReading, Resolve
<1>5. /\ Demand(source).goals = {id \in Declared(doc) : GoalAsked(doc, sheet, id)}
      /\ Demand(source).tries = UNION {{<<id, n>> : n \in AttemptsAsked(doc, sheet, id)} : id \in Declared(doc)}
  BY DEF Demand
<1> HIDE DEF doc, sheet, g
<1>6. ASSUME result = "Completed", NEW n \in Demand(source).goals
      PROVE  LatestSucceeded(n)
  <2>1. n \in Range(graph.goals)
    BY <1>2, <1>3, <1>4, <1>5, <1>6 DEF HasWhatIsAsked, g
  <2>2. n \in DOMAIN outcomes /\ IsSuccess(outcomes[n])
    BY <1>6, <2>1 DEF AskedInv, CompletedMet, GoalsMet, Satisfied
  <2>3. CASE LastReport(events, n, outcomes[n])
    <3>1. PICK i \in DOMAIN events : /\ ReportOf(events[i], n)
                                     /\ events[i].out = outcomes[n]
                                     /\ \A j \in i + 1 .. Len(events) : ~ReportOf(events[j], n)
      BY <2>3 DEF LastReport
    <3>2. DOMAIN events = 1 .. Len(events) /\ Len(events) \in Nat
      BY DEF AskedInv, EventsAreSeq
    <3>3. \A j \in {j \in DOMAIN events : ReportOf(events[j], n)} : j <= i
      BY <3>1, <3>2
    <3> QED BY <2>2, <3>1, <3>3 DEF LatestSucceeded
  <2>4. CASE FromDisk(n)
    BY <2>2, <2>4 DEF FromDisk, LatestSucceeded, Satisfied
  <2> QED BY <2>2, <2>3, <2>4 DEF AskedInv, OutcomesKnown
<1>7. ASSUME NEW try \in Demand(source).tries, pc = "record", cur = try[1]
      PROVE  /\ attempts <= try[2]
             /\ IsRetryable(out) => attempts = try[2]
  <2>1. PICK id \in Declared(doc) : \E n \in AttemptsAsked(doc, sheet, id) : try = <<id, n>>
    BY <1>5, <1>7
  <2> PICK n \in AttemptsAsked(doc, sheet, id) : try = <<id, n>>
    BY <2>1
  <2>2. graph.maxAttempts[cur] = n /\ try[2] = n
    BY <1>2, <1>3, <1>4, <1>7 DEF HasWhatIsAsked, g
  <2>3. n \in Nat \ {0}
    BY DEF AttemptsAsked
  <2>4. /\ attempts \in Nat
        /\ IsRetryable(out) => attempts >= n
        /\ attempts <= 1 \/ attempts <= n
    BY <1>7, <2>2 DEF AskedInv, LaunchRetries, RetryInv, RetriesExhausted
  <2> QED BY <2>2, <2>3, <2>4
<1> QED BY <1>6, <1>7

\* The document of the loop, statement by statement.
LEMMA LoopStatements ==
  /\ IsSequence(LoopDocument)
  /\ DOMAIN LoopDocument = 1 .. 8
  /\ LoopDocument[1] = Node("s", <<Shape("circle")>>)
  /\ LoopDocument[2] = Node("a", <<Class("dev")>>)
  /\ LoopDocument[3] = Node("b", <<>>)
  /\ LoopDocument[4] = Node("x", <<Shape("Msquare")>>)
  /\ LoopDocument[5] = Arrow("s", "a")
  /\ LoopDocument[6] = Arrow("a", "b")
  /\ LoopDocument[7] = Labelled(Arrow("b", "x"), "success")
  /\ LoopDocument[8].kind = "edge"
  /\ LoopDocument[8].attrs =
       Append(<<<<"label", Str(Plainly("failure"))>>>>, <<"loop_restart", Yes>>)
<1> DEFINE one == Node("s", <<Shape("circle")>>)
           two == Node("a", <<Class("dev")>>)
           three == Node("b", <<>>)
           four == Node("x", <<Shape("Msquare")>>)
           five == Arrow("s", "a")
           six == Arrow("a", "b")
           seven == Labelled(Arrow("b", "x"), "success")
           eight == [Labelled(Arrow("b", "a"), "failure") EXCEPT !.attrs = Append(@, <<"loop_restart", Yes>>)]
<1>1. LoopDocument = <<one, two, three, four, five, six, seven, eight>>
  BY DEF LoopDocument
<1>2. /\ eight.kind = "edge"
      /\ eight.attrs = Append(<<<<"label", Str(Plainly("failure"))>>>>, <<"loop_restart", Yes>>)
  BY DEF Labelled, Arrow
<1> HIDE DEF one, two, three, four, five, six, seven, eight
<1>3. LoopDocument \in Seq({one, two, three, four, five, six, seven, eight})
  BY <1>1
<1>4. /\ DOMAIN LoopDocument = 1 .. 8
      /\ LoopDocument[1] = one /\ LoopDocument[2] = two /\ LoopDocument[3] = three
      /\ LoopDocument[4] = four /\ LoopDocument[5] = five /\ LoopDocument[6] = six
      /\ LoopDocument[7] = seven /\ LoopDocument[8] = eight
  BY <1>1
<1>5. LoopDocument \in Seq(Range(LoopDocument))
  BY <1>3 DEF Range
<1> QED BY <1>2, <1>4, <1>5 DEF one, two, three, four, five, six, seven, IsSequence

\* Nothing but pairs with another key says nothing of a key.
LEMMA NoPriority ==
  ASSUME NEW pairs, IsSequence(pairs), \A i \in DOMAIN pairs : pairs[i][1] # "priority"
  PROVE  "priority" \notin DOMAIN Collected(pairs)
<1>1. ValueAt(Collected(pairs), "priority") = LastSaid(pairs, "priority")
  BY CollectedSays DEF IsSequence
<1>2. LastSaid(pairs, "priority") = {}
  BY DEF LastSaid
<1> QED BY <1>1, <1>2 DEF ValueAt

\* Short sequences are sequences: none,
LEMMA EmptySequence == IsSequence(<<>>) /\ DOMAIN <<>> = {}
<1>1. <<>> \in Seq({}) /\ Range(<<>>) = {}
  BY DEF Range
<1> QED BY <1>1 DEF IsSequence

\* one,
LEMMA OneSequence ==
  ASSUME NEW e
  PROVE  IsSequence(<<e>>) /\ DOMAIN <<e>> = {1} /\ <<e>>[1] = e
<1>1. <<e>> \in Seq({e}) /\ DOMAIN <<e>> = {1} /\ <<e>>[1] = e
  OBVIOUS
<1>2. Range(<<e>>) = {e}
  BY <1>1 DEF Range
<1> QED BY <1>1, <1>2 DEF IsSequence

\* and two, however they are put together.
LEMMA TwoSequence ==
  ASSUME NEW e, NEW f, NEW s, s = <<e, f>> \/ s = Append(<<e>>, f)
  PROVE  IsSequence(s) /\ DOMAIN s = {1, 2} /\ s[1] = e /\ s[2] = f
<1>1. s \in Seq({e, f})
  <2>1. <<e, f>> \in Seq({e, f}) /\ <<e>> \in Seq({e, f}) /\ f \in {e, f}
    OBVIOUS
  <2>2. Append(<<e>>, f) \in Seq({e, f})
    BY <2>1, AppendProperties
  <2> QED BY <2>1, <2>2
<1>2. DOMAIN s = {1, 2} /\ s[1] = e /\ s[2] = f
  <2>1. CASE s = <<e, f>>
    BY <2>1
  <2>2. CASE s = Append(<<e>>, f)
    <3>1. <<e>> \in Seq({e, f}) /\ f \in {e, f} /\ Len(<<e>>) = 1 /\ <<e>>[1] = e
      OBVIOUS
    <3>2. Len(s) = 2 /\ s[2] = f /\ s[1] = e
      BY <2>2, <3>1
    <3> QED BY <1>1, <3>2
  <2> QED BY <2>1, <2>2
<1>3. Range(s) = {e, f}
  BY <1>2 DEF Range
<1> QED BY <1>1, <1>2, <1>3 DEF IsSequence

\* A document of declarations with ids of their own, in front of edges without a
\* priority, resolves.
LEMMA PlainResolves ==
  ASSUME NEW doc, NEW n \in Nat, NEW m \in Nat, DOMAIN doc = 1 .. m,
         \A i \in 1 .. m : doc[i].kind = IF i <= n THEN "node" ELSE "edge",
         \A i, j \in 1 .. n : doc[i].id = doc[j].id => i = j,
         \A i \in n + 1 .. m : /\ IsSequence(doc[i].attrs)
                               /\ \A k \in DOMAIN doc[i].attrs : doc[i].attrs[k][1] # "priority"
  PROVE  Resolves(doc)
<1>1. At(doc, "node") \subseteq 1 .. n /\ At(doc, "edge") \subseteq n + 1 .. m
  BY DEF At
<1>2. ~DuplicateNode(doc)
  BY <1>1 DEF DuplicateNode
<1>3. ASSUME NEW i \in At(doc, "edge") PROVE "priority" \notin DOMAIN Collected(doc[i].attrs)
  <2>1. i \in n + 1 .. m
    BY <1>1
  <2> QED BY <2>1, NoPriority
<1> QED BY <1>2, <1>3 DEF Resolves, InvalidAttribute

\* The documents and stylesheets of the runs are such as the parsers return.
LEMMA SourcesWellFormed == \A source \in Sources : WellFormed(source.doc, source.sheet)
<1>1. IsSequence(LoopDocument) /\ Resolves(LoopDocument)
      /\ \A i \in At(LoopDocument, "node") : IsSequence(LoopDocument[i].attrs)
  <2> DEFINE doc == LoopDocument
  <2>1. IsSequence(doc) /\ DOMAIN doc = 1 .. 8
    BY LoopStatements
  <2>2. /\ doc[1].kind = "node" /\ doc[2].kind = "node" /\ doc[3].kind = "node" /\ doc[4].kind = "node"
        /\ doc[5].kind = "edge" /\ doc[6].kind = "edge" /\ doc[7].kind = "edge" /\ doc[8].kind = "edge"
    BY LoopStatements DEF Node, Arrow, Labelled
  <2>3. doc[1].id = "s" /\ doc[2].id = "a" /\ doc[3].id = "b" /\ doc[4].id = "x"
    BY LoopStatements DEF Node
  <2>4. /\ doc[1].attrs = <<Shape("circle")>> /\ doc[2].attrs = <<Class("dev")>>
        /\ doc[3].attrs = <<>> /\ doc[4].attrs = <<Shape("Msquare")>>
        /\ doc[5].attrs = <<>> /\ doc[6].attrs = <<>>
        /\ doc[7].attrs = <<<<"label", Str(Plainly("success"))>>>>
    BY LoopStatements DEF Node, Arrow, Labelled
  <2> DEFINE label == <<"label", Str(Plainly("failure"))>>
             restart == <<"loop_restart", Yes>>
  <2>e. label[1] # "priority" /\ restart[1] # "priority"
    OBVIOUS
  <2>f. doc[8].attrs = Append(<<label>>, restart)
    BY LoopStatements
  <2> HIDE DEF doc, label, restart
  <2>5. \A i \in 1 .. 8 : IsSequence(doc[i].attrs)
    <3>1. /\ IsSequence(doc[1].attrs) /\ IsSequence(doc[2].attrs)
          /\ IsSequence(doc[3].attrs) /\ IsSequence(doc[4].attrs)
      BY <2>4, OneSequence, TwoSequence, EmptySequence
    <3>2. IsSequence(doc[5].attrs) /\ IsSequence(doc[6].attrs)
      BY <2>4, EmptySequence
    <3>3. IsSequence(doc[7].attrs)
      BY <2>4, OneSequence
    <3>4. IsSequence(doc[8].attrs)
      <4>1. IsSequence(Append(<<label>>, restart))
        BY TwoSequence
      <4> QED BY <2>f, <4>1
    <3> QED BY <3>1, <3>2, <3>3, <3>4
  <2>6. \A i \in 4 + 1 .. 8 : \A k \in DOMAIN doc[i].attrs : doc[i].attrs[k][1] # "priority"
    <3>1. \A k \in DOMAIN doc[8].attrs : doc[8].attrs[k][1] # "priority"
      BY <2>e, <2>f, OneSequence, TwoSequence
    <3>2. \A i \in 5 .. 7 : \A k \in DOMAIN doc[i].attrs : doc[i].attrs[k][1] # "priority"
      BY <2>4
    <3> QED BY <3>1, <3>2
  <2>7. \A i \in 1 .. 8 : doc[i].kind = IF i <= 4 THEN "node" ELSE "edge"
    BY <2>2
  <2>8. \A i, j \in 1 .. 4 : doc[i].id = doc[j].id => i = j
    BY <2>3
  <2>9. Resolves(doc)
    <3>1. \A i \in 4 + 1 .. 8 : /\ IsSequence(doc[i].attrs)
                               /\ \A k \in DOMAIN doc[i].attrs : doc[i].attrs[k][1] # "priority"
      BY <2>5, <2>6
    <3>2. 4 \in Nat /\ 8 \in Nat
      OBVIOUS
    <3> QED BY ONLY <2>1, <2>7, <2>8, <3>1, <3>2, PlainResolves
  <2>10. \A i \in At(doc, "node") : i \in 1 .. 8
    BY <2>1 DEF At
  <2> QED BY <2>1, <2>5, <2>9, <2>10 DEF doc
<1>2. IsSequence(EditedDocument) /\ Resolves(EditedDocument)
      /\ \A i \in At(EditedDocument, "node") : IsSequence(EditedDocument[i].attrs)
  <2> DEFINE doc == EditedDocument
             one == Node("s", <<Shape("circle")>>)
             two == Node("a", <<<<"goal", Yes>>, <<"retries", Num(1)>>>>)
             three == Node("x", <<Shape("Msquare")>>)
             four == Arrow("s", "a")
             five == Arrow("a", "x")
  <2>1. doc = <<one, two, three, four, five>>
    BY DEF EditedDocument
  <2>2. /\ one.kind = "node" /\ two.kind = "node" /\ three.kind = "node"
        /\ four.kind = "edge" /\ five.kind = "edge"
        /\ one.id = "s" /\ two.id = "a" /\ three.id = "x"
    BY DEF Node, Arrow
  <2>3. /\ one.attrs = <<Shape("circle")>> /\ two.attrs = <<<<"goal", Yes>>, <<"retries", Num(1)>>>>
        /\ three.attrs = <<Shape("Msquare")>> /\ four.attrs = <<>> /\ five.attrs = <<>>
    BY DEF Node, Arrow
  <2> HIDE DEF one, two, three, four, five, doc
  <2>4. /\ doc \in Seq({one, two, three, four, five}) /\ DOMAIN doc = 1 .. 5
        /\ doc[1] = one /\ doc[2] = two /\ doc[3] = three /\ doc[4] = four /\ doc[5] = five
    BY <2>1
  <2>5. IsSequence(doc)
    BY <2>4 DEF IsSequence, Range
  <2>6. \A i \in 1 .. 5 : IsSequence(doc[i].attrs)
    <3>1. IsSequence(one.attrs) /\ IsSequence(three.attrs)
      BY <2>3, OneSequence
    <3>2. IsSequence(two.attrs)
      <4> DEFINE goal == <<"goal", Yes>>
                 retries == <<"retries", Num(1)>>
      <4>1. two.attrs = <<goal, retries>>
        BY <2>3
      <4> HIDE DEF goal, retries
      <4>2. IsSequence(<<goal, retries>>)
        BY TwoSequence
      <4> QED BY <4>1, <4>2
    <3>3. IsSequence(four.attrs) /\ IsSequence(five.attrs)
      BY <2>3, EmptySequence
    <3> QED BY <2>4, <3>1, <3>2, <3>3
  <2>7. \A i \in 3 + 1 .. 5 : DOMAIN doc[i].attrs = {}
    BY <2>3, <2>4
  <2>8. \A i \in 1 .. 5 : doc[i].kind = IF i <= 3 THEN "node" ELSE "edge"
    BY <2>2, <2>4
  <2>9. \A i, j \in 1 .. 3 : doc[i].id = doc[j].id => i = j
    BY <2>2, <2>4
  <2>10. Resolves(doc)
    <3>1. \A i \in 3 + 1 .. 5 : /\ IsSequence(doc[i].attrs)
                               /\ \A k \in DOMAIN doc[i].attrs : doc[i].attrs[k][1] # "priority"
      BY <2>6, <2>7
    <3>2. 3 \in Nat /\ 5 \in Nat
      OBVIOUS
    <3> QED BY ONLY <2>4, <2>8, <2>9, <3>1, <3>2, PlainResolves
  <2>11. \A i \in At(doc, "node") : i \in 1 .. 5
    BY <2>4 DEF At
  <2> QED BY <2>5, <2>6, <2>10, <2>11 DEF doc
<1>3. ASSUME NEW rule \in LoopRules PROVE rule.kind \in Kinds /\ IsSequence(rule.says)
  <2>1. ASSUME NEW kind \in {"all", "class", "id"}, NEW name, NEW says, IsSequence(says),
               rule = Rule(kind, name, says)
        PROVE  rule.kind \in Kinds /\ IsSequence(rule.says)
    BY <2>1 DEF Rule, Kinds
  <2>2. \E kind \in {"all", "class", "id"} : \E name, e, f :
          \/ rule = Rule(kind, name, <<e>>)
          \/ rule = Rule(kind, name, <<e, f>>)
    BY DEF LoopRules
  <2> QED BY <2>1, <2>2, OneSequence, TwoSequence
<1>4. ASSUME NEW sheet \in LoopSheets
      PROVE  IsSequence(sheet) /\ \A i \in DOMAIN sheet : sheet[i].kind \in Kinds /\ IsSequence(sheet[i].says)
  <2>1. PICK n \in 0 .. 2 : sheet \in [1 .. n -> LoopRules]
    BY DEF LoopSheets
  <2>2. sheet \in Seq(LoopRules)
    BY <2>1
  <2>3. sheet \in Seq(Range(sheet))
    BY <2>2 DEF Range
  <2> QED BY <1>3, <2>1, <2>3 DEF IsSequence
<1>5. ASSUME NEW source \in Sources
      PROVE  /\ source.doc \in {LoopDocument, EditedDocument}
             /\ source.sheet \in LoopSheets \/ source.sheet = <<>>
  BY DEF Sources, RunSources, ResumeSources
<1>6. IsSequence(<<>>) /\ DOMAIN <<>> = {}
  BY EmptySequence
<1> QED BY <1>1, <1>2, <1>4, <1>5, <1>6 DEF WellFormed

\* Across crashes and resumes a run does what the document and the stylesheet it was
\* started with ask for, for any budget of steps, any number of launches, and with
\* the saves and cancellations of any configuration (graph/mod.rs, stylesheet.rs,
\* goals.rs, retry.rs, engine.rs).
THEOREM RunsDoAsAsked == DurableSpec => []RunsAsAsked
<1>1. DurableInit => AskedInv
  <2> SUFFICES ASSUME DurableInit PROVE AskedInv
    OBVIOUS
  <2>1. /\ events = <<>> /\ DOMAIN outcomes = {} /\ attempts = 0 /\ result = "none" /\ pc = "init"
    BY DEF DurableInit, Init, Empty
  <2>2. EventsAreSeq
    BY <2>1, FewAreSeq DEF EventsAreSeq
  <2>3. CompletedMet /\ LaunchRetries
    BY <2>1 DEF CompletedMet, LaunchRetries, RetryInv, RetriesExhausted, AttemptsLeft
  <2>4. OutcomesKnown
    BY <2>1 DEF OutcomesKnown
  <2> QED BY <2>2, <2>3, <2>4 DEF AskedInv
<1>2. AskedInv => RunsAsAsked
  <2> SUFFICES ASSUME AskedInv, NEW asked \in Demands, asked.graph = graph
               PROVE  /\ result = "Completed" => \A n \in asked.goals : LatestSucceeded(n)
                      /\ \A try \in asked.tries :
                           pc = "record" /\ cur = try[1] =>
                             /\ attempts <= try[2]
                             /\ IsRetryable(out) => attempts = try[2]
    BY DEF RunsAsAsked
  <2>1. PICK source \in Sources : asked = Demand(source)
    BY DEF Demands
  <2> QED BY <2>1, AsDemanded, SourcesWellFormed
<1> QED BY <1>1, <1>2, TypesInit, TypesStep, AskedStep, PTL DEF DurableSpec

(***************************************************************************)
(* Every launch descends                                                   *)
(***************************************************************************)

\* A run directory sees so many launches and one archive; within a launch the
\* run's own rank falls, and a crash is below every stage.
DurableRank == <<MaxLaunches - launches, One(~archived), MaxSteps - steps,
                 IF pc = "crashed" THEN 0 ELSE Stage, TriesLeft, EnvironmentLeft>>

DurableDescends == [][Lower(DurableRank', DurableRank)]_durableVars

\* The bounds that every launch keeps, whatever position it resumes at.
LaunchBounded == Bounded /\ archived \in BOOLEAN /\ launches \in 1 .. MaxLaunches

LEMMA LaunchBoundedStep == LaunchBounded /\ [DurableNext]_durableVars => LaunchBounded'
<1> SUFFICES ASSUME LaunchBounded, [DurableNext]_durableVars PROVE LaunchBounded'
  OBVIOUS
<1>1. CASE (Next /\ UNCHANGED <<archived, launches>>) \/ UNCHANGED durableVars
  BY <1>1, BoundedStep DEF LaunchBounded, durableVars
<1>2. CASE Crash
  BY <1>2 DEF Crash, LaunchBounded, Bounded, config, loopVars, envVars
<1>3. CASE Archive
  BY <1>3 DEF Archive, LaunchBounded, Bounded, vars, config, loopVars, envVars
<1>4. CASE ResumeRun \/ ResumeCommand
  <2>1. /\ steps' = 0 /\ attempts' = 0 /\ idle' = 0
        /\ pc' \notin {"start", "exec", "record"}
        /\ launches' = launches + 1 /\ launches < MaxLaunches
    BY <1>4 DEF ResumeRun, ResumeCommand, NewProcess, RunFromCheckpoint, Afresh
  <2>2. cancelled' = FALSE /\ stall' = FALSE
    BY <1>4 DEF ResumeRun, ResumeCommand, RunFromCheckpoint, Afresh
  <2>3. graph' \in Graphs /\ archived' \in BOOLEAN
    BY <1>4, LaunchAssumption DEF ResumeRun, ResumeCommand, LaunchBounded, Bounded
  <2>4. /\ steps' \in 0 .. MaxSteps /\ attempts' \in Nat /\ idle' \in 0 .. StallTimeout + 1
        /\ launches' \in 1 .. MaxLaunches
    BY <2>1, EngineAssumption, LaunchAssumption DEF LaunchBounded
  <2>5. cancelled' \in BOOLEAN /\ stall' \in BOOLEAN
    BY <2>2
  <2> QED BY <2>1, <2>3, <2>4, <2>5 DEF LaunchBounded, Bounded
<1> QED BY <1>1, <1>2, <1>3, <1>4 DEF DurableNext

\* A process that lives does not crash by a step of its own.
LEMMA LiveStays == pc # "crashed" /\ Next => pc' # "crashed"
<1> SUFFICES ASSUME pc # "crashed", Next PROVE pc' # "crashed"
  OBVIOUS
<1>1. CASE Watchdog \/ UserCancels
  BY <1>1 DEF Watchdog, Tick, WatchdogFires, UserCancels, Looping
<1>2. CASE Loop \/ HandlerReturns
  BY <1>2 DEF Loop, RejectGraph, Launch, AbortCancelled, AbortMaxSteps, PassChecks, LookUp,
              StartNode, HandlerReturns, RecordOutcome, BeginSave, EndSave, SaveFails,
              ExitReached, GoalRetry, GoalsFail, AtExit, AtEdges, NoEdge, GoTo, EdgeError,
              TraverseEdge, FailureRoute, Unroutable, EndNoEdge, Finish, Return
<1> QED BY <1>1, <1>2 DEF Next

\* Every step of a process, every crash, archive and resume lowers the rank.
LEMMA LaunchStepDescends ==
  ASSUME LaunchBounded, DurableNext
  PROVE  Lower(DurableRank', DurableRank)
<1> DEFINE Of == IF pc = "crashed" THEN 0 ELSE Stage
<1> USE DEF DurableRank
<1>1. CASE pc # "crashed" /\ Next /\ UNCHANGED <<archived, launches>>
  <2>1. pc # "crashed" /\ pc' # "crashed"
    BY <1>1, LiveStays
  <2>2. Lower(RunRank', RunRank)
    BY <1>1, StepDescends DEF LaunchBounded
  <2>3. /\ RunRank = <<MaxSteps - steps, Of, TriesLeft, EnvironmentLeft>>
        /\ RunRank' = <<MaxSteps - steps', Of', TriesLeft', EnvironmentLeft'>>
    BY <2>1 DEF RunRank
  <2> QED BY <1>1, <2>2, <2>3, LowerOfSix, SMTT(40)
<1>2. CASE Crash
  <2>1. /\ UNCHANGED <<archived, launches, steps>>
        /\ pc # "crashed" /\ pc' = "crashed"
    BY <1>2 DEF Crash, Ended, Archiving, loopVars
  <2>2. Of' < Of
    BY <2>1 DEF Stage
  <2>3. Lower(<<MaxSteps - steps', Of', TriesLeft', EnvironmentLeft'>>,
              <<MaxSteps - steps, Of, TriesLeft, EnvironmentLeft>>)
    BY <2>1, <2>2, LowerOfFour, SMTT(40)
  <2> QED BY <2>1, <2>3, LowerOfSix, SMTT(40)
<1>3. CASE Archive
  <2>1. UNCHANGED launches /\ ~archived /\ archived'
    BY <1>3 DEF Archive, Archiving
  <2>2. One(~archived)' < One(~archived)
    BY <2>1 DEF One
  <2> QED BY <2>1, <2>2, LowerOfSix, ZenonT(40)
<1>4. CASE ResumeRun \/ ResumeCommand
  <2>1. launches' = launches + 1 /\ launches \in Nat
    BY <1>4 DEF ResumeRun, ResumeCommand, NewProcess, LaunchBounded
  <2>2. MaxLaunches - launches' < MaxLaunches - launches
    BY <2>1, LaunchAssumption
  <2> QED BY <2>2, LowerOfSix, ZenonT(40)
<1> QED BY <1>1, <1>2, <1>3, <1>4 DEF DurableNext

\* However often a run is killed, archived and resumed, on whatever graph, each
\* launch takes finitely many steps, and a run directory with a bound on its
\* launches comes to rest (run.rs, resume.rs, engine.rs): no crash and no resume
\* renews a budget other than by using up a launch.
THEOREM LaunchesDescend ==
  DurableSpec => [](DurableRank \in [1 .. 6 -> Nat]) /\ DurableDescends
<1>1. LaunchBounded => DurableRank \in [1 .. 6 -> Nat]
  <2> SUFFICES ASSUME LaunchBounded PROVE DurableRank \in [1 .. 6 -> Nat]
    OBVIOUS
  <2>1. /\ MaxSteps - steps \in Nat /\ Stage \in Nat /\ TriesLeft \in Nat
        /\ EnvironmentLeft \in Nat
    BY RankParts DEF LaunchBounded
  <2>2. MaxLaunches - launches \in Nat /\ One(~archived) \in Nat
    BY LaunchAssumption DEF LaunchBounded, One
  <2> QED BY <2>1, <2>2 DEF DurableRank
<1>2. LaunchBounded /\ [DurableNext]_durableVars => [Lower(DurableRank', DurableRank)]_durableVars
  BY LaunchStepDescends
<1>3. DurableInit => LaunchBounded
  <2> SUFFICES ASSUME DurableInit PROVE LaunchBounded
    OBVIOUS
  <2>1. archived = FALSE /\ launches = 1 /\ Bounded
    BY BoundedInit DEF DurableInit
  <2>2. launches \in 1 .. MaxLaunches
    BY <2>1, LaunchAssumption
  <2>3. archived \in BOOLEAN
    BY <2>1
  <2> QED BY <2>1, <2>2, <2>3 DEF LaunchBounded
<1> QED BY <1>1, <1>2, <1>3, LaunchBoundedStep, PTL DEF DurableSpec, DurableDescends
=============================================================================
