----------------------------- MODULE DurableRun -----------------------------
(***************************************************************************)
(* A pipeline run that survives the death of its process: `smasher run'    *)
(* executes the engine with checkpoints in the run directory and archives  *)
(* a run that completed; an unfinished run is picked up again by           *)
(* `smasher run --resume' (run.rs) or by `smasher resume' (resume.rs).     *)
(* Only the run directory, that is `disk' and `archived', outlives a       *)
(* process.                                                                *)
(***************************************************************************)
EXTENDS Engine

CONSTANTS RunGraphs,    \* what one document gives under the stylesheets of `smasher run'
          FileGraphs,   \* what graph.dot may give when `smasher resume' reads it
          MaxLaunches   \* bound: processes started for this run directory

ASSUME LaunchAssumption ==
  /\ RunGraphs \subseteq Graphs
  /\ FileGraphs \subseteq Graphs
  /\ MaxLaunches \in Nat \ {0}

VARIABLES archived,    \* run.tgz exists in the run directory
          launches     \* processes started so far

durableVars == <<vars, archived, launches>>

DurableInit ==
  /\ Init
  /\ graph \in RunGraphs
  /\ archived = FALSE
  /\ launches = 1

\* No process works on the run directory any more.
Archiving == pc = "done" /\ result = "Completed" /\ autosave /\ ~archived
Ended     == pc \in {"done", "crashed"} /\ ~Archiving

\* The process is killed, at any point before its work is done.
Crash ==
  /\ pc # "init"
  /\ ~Ended
  /\ pc' = "crashed"
  /\ result' = "none"
  /\ UNCHANGED <<config, loopVars, ctx, envVars, disk, events, archived, launches>>

\* `smasher run' packs the artifacts of a run that completed; `smasher resume'
\* does not.
Archive ==
  /\ Archiving
  /\ archived' = TRUE
  /\ UNCHANGED <<vars, launches>>

\* Everything a new process starts without.
Afresh ==
  /\ pc' = "top"
  /\ steps' = 0
  /\ sigs' = Empty
  /\ restarts' = Empty
  /\ out' = Succeed
  /\ attempts' = 0
  /\ cancelled' = FALSE
  /\ stall' = FALSE
  /\ idle' = 0
  /\ late' = 0
  /\ events' = <<Ev("PipelineStarted", NoNode)>>
  /\ result' = "none"

\* Mutant: the outcomes are not restored.
RunFromPosition(seed) ==
  /\ cur' = disk.current
  /\ visited' = disk.visited
  /\ outcomes' = Empty
  /\ ctx' = Restore(seed, disk.ctx)
  /\ Afresh

\* Engine::run_from_checkpoint in a new process: the saved position, visit
\* order and outcomes, the saved context over the variables the caller seeds,
\* and everything else afresh.
RunFromCheckpoint(seed) ==
  /\ cur' = disk.current
  /\ visited' = disk.visited
  /\ outcomes' = disk.outcomes
  /\ ctx' = Restore(seed, disk.ctx)
  /\ Afresh

NewProcess ==
  /\ Ended
  /\ disk.file = "saved"
  /\ launches < MaxLaunches
  /\ launches' = launches + 1

\* `smasher run --resume' takes the latest run of the same document that has a
\* checkpoint and no archive; a run that failed qualifies like one that died. The
\* document is prepared again, with the stylesheet of this command line.
ResumeRun ==
  /\ NewProcess
  /\ ~archived
  /\ graph' \in RunGraphs
  /\ RunFromCheckpoint(InitCtx)
  /\ autosave' = TRUE
  /\ UNCHANGED <<disk, archived>>

\* `smasher resume' re-reads graph.dot, which may not resolve to the graph the
\* run used (it skips the transforms run.rs applies), and saves nothing.
ResumeCommand ==
  /\ NewProcess
  /\ graph' \in FileGraphs
  /\ RunFromCheckpoint([k \in Key |-> Unset])
  /\ autosave' = FALSE
  /\ UNCHANGED <<disk, archived>>

\* A process that died takes no step of its own, and nobody can cancel it.
DurableNext ==
  \/ pc # "crashed" /\ Next /\ UNCHANGED <<archived, launches>>
  \/ Crash \/ Archive \/ ResumeRun \/ ResumeCommand

DurableSpec == DurableInit /\ [][DurableNext]_durableVars

(***************************************************************************)
(* Properties                                                              *)
(***************************************************************************)

Names == UNION {g.nodes : g \in Graphs}

\* Type invariant: after `smasher resume' the position, visit order and
\* outcomes may name nodes of another graph than the one in use.
DurableTypeOK ==
  /\ graph \in Graphs
  /\ autosave \in BOOLEAN
  /\ archived \in BOOLEAN
  /\ launches \in 1 .. MaxLaunches
  /\ pc \in Looping \cup {"init", "finish", "done", "crashed"}
  /\ cur \in Names \cup {NoNode}
  /\ Range(visited) \subseteq Names
  /\ DOMAIN outcomes \subseteq Names
  /\ steps \in 0 .. MaxSteps
  /\ ctx \in Context
  /\ disk.file \in {"absent", "torn", "saved"}
  /\ result \in Results

\* Across crashes, resumes and edited graphs: what is on disk belongs to the
\* run that goes on. Its visit order is a prefix of the run's, its position was
\* visited, and it has an outcome for exactly the visited nodes.
CheckpointOfThisRun == CheckpointConsistent

\* What CheckpointCreated announced is what a crash leaves behind: until the
\* next node has reported, the file holds the run as it stood when the event
\* was emitted, whatever fails or dies in the meantime.
AnnouncedCheckpointIsOnDisk ==
  \A i \in DOMAIN events :
    /\ events[i].ev = "CheckpointCreated"
    /\ \A j \in i + 1 .. Len(events) : ~IsReport(events[j])
    /\ pc \notin {"save", "saving"}
    => /\ disk.file = "saved"
       /\ disk.current = events[i].node
       /\ disk.outcomes = outcomes
       /\ disk.visited = visited

\* The latest a run directory knows of a node is a success: its last report in
\* this process or, without one, the outcome in the checkpoint it went on from.
LatestSucceeded(n) ==
  LET reports == {i \in DOMAIN events : ReportOf(events[i], n)}
  IN  IF reports # {}
      THEN \E i \in reports : (\A j \in reports : j <= i) /\ IsSuccess(events[i].out)
      ELSE disk.file = "saved" => Satisfied(disk.outcomes, n)

\* The report at place i of the event stream was followed by its checkpoint.
SavedAfter(i) ==
  \E k \in i + 1 .. Len(events) :
    /\ events[k].ev = "CheckpointCreated"
    /\ \A j \in i + 1 .. k - 1 : ~IsReport(events[j])

\* As long as the saves of a launch succeed, what a crash, an abort or an end
\* leaves on disk lacks the outcome of the latest node at most: a resume repeats
\* one node execution, not two.
AtMostOneNodeLost ==
  LET reports == {i \in DOMAIN events : IsReport(events[i])}
      latest  == {events[i].node : i \in {j \in reports : \A k \in reports : k <= j}}
  IN  /\ \A i \in reports : SavedAfter(i) \/ \A k \in reports : k <= i
      /\ disk.file = "saved"
      => \A n \in DOMAIN outcomes \ latest :
           n \in DOMAIN disk.outcomes /\ disk.outcomes[n] = outcomes[n]

\* Documented for CheckpointCreated: "a checkpoint was persisted for resume
\* support". Once one was announced, a process that dies leaves one behind.
CheckpointSurvives ==
  pc = "crashed" /\ (\E i \in DOMAIN events : events[i].ev = "CheckpointCreated")
    => disk.file = "saved"
=============================================================================
