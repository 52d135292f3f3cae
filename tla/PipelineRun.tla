---------------------------- MODULE PipelineRun ----------------------------
(***************************************************************************)
(* What a pipeline run promises its caller, with no word about how nodes   *)
(* are chosen: nodes are executed one at a time, at most Budget of them;   *)
(* the run ends exactly once; it may end as completed only when the latest *)
(* execution of every goal node succeeded; and it does end.                *)
(***************************************************************************)
EXTENDS Naturals

CONSTANTS Node,   \* names of the nodes
          Budget  \* node executions a run is allowed

VARIABLES goals,   \* the nodes that must succeed
          good,    \* nodes whose latest execution succeeded
          spent,   \* executions so far
          status   \* "Running", or how the run ended

vars == <<goals, good, spent, status>>

Init ==
  /\ goals \in SUBSET Node
  /\ good = {}
  /\ spent = 0
  /\ status = "Running"

Succeeds(n) == good' = good \cup {n}
Fails(n)    == good' = good \ {n}

\* A node is executed; its outcome may end the run as failed.
Execute ==
  /\ status = "Running"
  /\ spent < Budget
  /\ spent' = spent + 1
  /\ \E n \in Node : Succeeds(n) \/ Fails(n)
  /\ status' \in {"Running", "Failed"}
  /\ UNCHANGED goals

Complete ==
  /\ status = "Running"
  /\ goals \subseteq good
  /\ status' = "Completed"
  /\ UNCHANGED <<goals, good, spent>>

Fail ==
  /\ status = "Running"
  /\ status' = "Failed"
  /\ UNCHANGED <<goals, good, spent>>

Next == Execute \/ Complete \/ Fail

Safe == Init /\ [][Next]_vars

Spec == Safe /\ WF_vars(Next)
=============================================================================
