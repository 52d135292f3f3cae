-------------------------------- MODULE Lint --------------------------------
(***************************************************************************)
(* The structural checks a pipeline passes before it runs (lint.rs), and   *)
(* what they promise of the run.  `smasher run' (without --skip-lint) and  *)
(* the web server refuse a graph with errors; `smasher resume' and the     *)
(* engine itself do not ask.  The rules about conditional nodes without    *)
(* conditions and about labels judge style only and are left out.          *)
(***************************************************************************)
EXTENDS Engine

\* E001, E002, E003.
NoStartNode(g)        == StartNodes(g) = {}
MultipleStartNodes(g) == Cardinality(StartNodes(g)) > 1
NoExitNode(g)         == \A n \in g.nodes : g.type[n] # "Exit"

\* W001: nodes but the start no edge leads to; W002: nodes but the exit no edge leaves.
UnreachableNodes(g) ==
  {n \in g.nodes : g.type[n] # "Start" /\ \A e \in g.edges : e.to # n}
DeadEndNodes(g) ==
  {n \in g.nodes : g.type[n] # "Exit" /\ EdgesFrom(g, n) = {}}

\* Mutant: a second start node passes.
HasErrorsTwoRules(g) == NoStartNode(g) \/ NoExitNode(g)

HasErrors(g) == NoStartNode(g) \/ MultipleStartNodes(g) \/ NoExitNode(g)
IsClean(g)   == ~HasErrors(g) /\ UnreachableNodes(g) = {} /\ DeadEndNodes(g) = {}

(* ------------------------------ properties ------------------------------ *)

\* What the lint does not look at: conditions, and whether targets are nodes.
Unconditional(g) == \A e \in g.edges : ~HasExplicitCondition(e)
TargetsExist(g)  ==
  \A n \in g.nodes : ResolveRetryTarget(g, n) \subseteq g.nodes

\* Lint and engine agree: a graph without errors is never refused by
\* Engine::run, and a clean one that uses no conditions and names no missing
\* target always finds its way, so that it completes at its exit node only.
LintPredicts ==
  /\ ~HasErrors(graph) => result \notin {"NoStartNode", "MultipleStartNodes"}
  /\ IsClean(graph) /\ Unconditional(graph) /\ TargetsExist(graph) =>
       /\ result \notin {"EdgeSelection", "UnroutableFailure", "NodeNotFound"}
       /\ result = "Completed" => graph.type[cur] = "Exit"
=============================================================================
