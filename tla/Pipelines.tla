----------------------------- MODULE Pipelines -----------------------------
(***************************************************************************)
(* Small pipelines for model checking, and the few operators to write them *)
(* with.                                                                   *)
(***************************************************************************)
EXTENDS PipelineGraph, TLC

MCKey       == {"outcome", "_fidelity_mode", "_last", "a_seed"}
MCSystemKey == {"_fidelity_mode", "_last"}
MCVal       == {"success", "fail", "retry", "skip", "marker", "v"}

NoCtx == [k \in MCKey |-> Unset]

\* The caller's variables: one of them is named like an output of node a.
Seeded == [NoCtx EXCEPT !["a_seed"] = "v"]

MCNodeId == {"s", "a", "b", "x", "ghost"}
MCText   == {NoLabel, NoError, "e1", "e2", "success", "failure", "no"}

\* A handler that may return any of these outcomes and writes nothing.
Returns(outs) == {[out |-> o, writes |-> Empty] : o \in outs}

Edge(from, to, pos) ==
  [from |-> from, to |-> to, label |-> NoLabel, decorated |-> FALSE,
   cond |-> NoCond, priority |-> 0, restart |-> FALSE, fid |-> "off", pos |-> pos]

On(e, label)    == [e EXCEPT !.label = label]
If(e, literals) == [e EXCEPT !.cond = When({literals})]
Restart(e)      == [e EXCEPT !.restart = TRUE]
Fidelity(e, f)  == [e EXCEPT !.fid = f]

\* s and x are the start and exit node, the others do the work given by `does'.
Pipeline(works, edges, goals, does) ==
  LET nodes == works \cup {"s", "x"} IN
  [nodes |-> nodes,
   type  |-> [n \in nodes |-> CASE n = "s" -> "Start" [] n = "x" -> "Exit" [] OTHER -> "Work"],
   edges |-> edges,
   goals |-> goals,
   retryTarget    |-> [n \in nodes |-> NoTarget],
   fallbackTarget |-> [n \in nodes |-> NoTarget],
   graphTarget    |-> NoTarget,
   graphFallback  |-> NoTarget,
   maxAttempts    |-> [n \in nodes |-> 1],
   lex   |-> [n \in NodeId |-> CASE n = "a" -> 1 [] n = "b" -> 2 [] n = "ghost" -> 3
                               [] n = "s" -> 4 [] n = "x" -> 5],
   owns  |-> [n \in nodes |-> IF n = "a" THEN {"a_seed"} ELSE {}],
   behaviours |-> [n \in nodes |-> IF n \in works THEN does[n] ELSE Returns({Succeed})]]

\* Two nodes reviewed in a loop: b sends failing work back to a, whose keys are
\* cleared; a may be retried and leaves its result under a system key.
LoopWork ==
  [a |-> {[out |-> Succeed, writes |-> [_last |-> "v"]],
          [out |-> FailRetry("e1"), writes |-> Empty]},
   b |-> Returns({Succeed, FailWith("e1"), FailWith("e2")})]

ReviewLoop ==
  [Pipeline({"a", "b"},
     {Edge("s", "a", 1), Edge("a", "b", 2), On(Edge("b", "x", 3), "success"),
      Restart(On(Edge("b", "a", 4), "failure"))},
     <<"a">>, LoopWork)
   EXCEPT !.maxAttempts["a"] = 2]

\* b is a goal the edges never reach: only its retry target leads there.
GoalGate ==
  [Pipeline({"a", "b"},
     {Edge("s", "a", 1), Edge("a", "x", 2), Edge("b", "x", 3)},
     <<"a", "b">>,
     [a |-> Returns({Succeed, Partial, FailWith("e1")}),
      b |-> Returns({Succeed, FailWith("e1"), Skipped})])
   EXCEPT !.retryTarget["b"] = "b", !.graphTarget = "a"]

\* The same with targets that are missing from the graph, or not given.
GoalGhost  == [GoalGate EXCEPT !.retryTarget["b"] = "ghost", !.graphTarget = NoTarget]

\* One goal, its own retry target: it fails, is skipped and fails again.
FlakyGoal ==
  [Pipeline({"b"}, {Edge("s", "b", 1), Edge("b", "x", 2)}, <<"b">>,
            [b |-> Returns({Succeed, FailWith("e1"), Skipped})])
   EXCEPT !.retryTarget["b"] = "b"]

\* Conditions only: an outcome no condition accepts ends the run at that node;
\* there is no exit on the way, so the goals are enforced after the loop.
Conditional ==
  [Pipeline({"a", "b"},
     {Edge("s", "a", 1),
      Fidelity(If(Edge("a", "b", 2), {Equals("outcome", "fail")}), "result_only"),
      If(Edge("a", "x", 3), {Equals("outcome", "success"), Negated(Equals("_last", "v"))}),
      Fidelity(Edge("b", "a", 4), "marked")},
     <<"a">>,
     [a |-> Returns({Skipped, AskRetry, FailRetry("e1")})
              \cup {[out |-> Succeed, writes |-> [_last |-> "v"]],
                    [out |-> Succeed, writes |-> Empty]},
      b |-> Returns({Succeed, PreferLabel("no")})])
   EXCEPT !.maxAttempts["a"] = 2]

\* A failing node without a route: its retry target is a fallback, absent, or
\* not a node; and a condition that does not parse.
DeadEnds ==
  {[Pipeline({"a", "b"},
      {Edge("s", "a", 1), If(Edge("a", "x", 2), {Equals("outcome", "success")}),
       [Edge("b", "x", 3) EXCEPT !.cond = Malformed]},
      <<>>,
      [a |-> Returns({Succeed, FailWith("e1"), SuggestNext({"x"})}), b |-> Returns({Succeed})])
    EXCEPT !.fallbackTarget["a"] = target] : target \in {"b", "ghost", NoTarget}}

\* An exit no edge leads to, and a node no edge leaves.
Stub == Pipeline({"a"}, {Edge("s", "a", 1)}, <<>>, [a |-> Returns({Succeed, FailWith("e1")})])

\* Graphs with no start node and with two.
Refused ==
  {[GoalGate EXCEPT !.type["s"] = "Work"], [GoalGate EXCEPT !.type["a"] = "Start"]}
=============================================================================
