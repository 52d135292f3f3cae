------------------------------ MODULE MCEngine ------------------------------
(***************************************************************************)
(* The engine on every routing case: loops, goal gates with and without a  *)
(* usable retry target, conditions, dead ends and graphs it refuses.       *)
(***************************************************************************)
EXTENDS Lint, Pipelines

AllGraphs == {ReviewLoop, GoalGate, GoalGhost, FlakyGoal, Conditional} \cup DeadEnds \cup Refused \cup {Stub}

\* For the questions that need one pipeline only.
OneLoop == {ReviewLoop}
=============================================================================
