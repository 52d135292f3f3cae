----------------------------- MODULE Documents -----------------------------
(***************************************************************************)
(* The review loop as a document with stylesheets, and the few operators   *)
(* to write documents with.                                                *)
(***************************************************************************)
EXTENDS Pipelines, Preparation

Plainly(text) == [text |-> text, hole |-> FALSE]
Hole(text)    == [text |-> text, hole |-> TRUE]
Str(word)     == [type |-> "string", words |-> <<word>>]
No            == [type |-> "bool", b |-> FALSE]
Num(n)        == [type |-> "number", n |-> n]

Node(id, attrs)     == [kind |-> "node", id |-> id, attrs |-> attrs]
Arrow(from, to)     == [kind |-> "edge", from |-> from, to |-> to, attrs |-> <<>>]
Labelled(e, label)  == [e EXCEPT !.attrs = <<<<"label", Str(Plainly(label))>>>>]
Rule(kind, name, says) == [kind |-> kind, name |-> name, says |-> says]

Shape(shape) == <<"shape", Str(Plainly(shape))>>
Class(class) == <<"class", Str(Plainly(class))>>

(* ---------------------------- the review loop --------------------------- *)

LoopDocument ==
  <<Node("s", <<Shape("circle")>>), Node("a", <<Class("dev")>>), Node("b", <<>>),
    Node("x", <<Shape("Msquare")>>),
    Arrow("s", "a"), Arrow("a", "b"), Labelled(Arrow("b", "x"), "success"),
    [Labelled(Arrow("b", "a"), "failure") EXCEPT !.attrs = Append(@, <<"loop_restart", Yes>>)]>>

\* A rule for all nodes, which a more specific one contradicts; for a class, with
\* the names in use; and for one node.
LoopRules ==
  {Rule("all", "", <<<<"goal_gate", No>>, <<"retries", Num(2)>>>>),
   Rule("class", "dev", <<<<"goal_gate", Yes>>, <<"max_retries", Num(1)>>>>),
   Rule("id", "b", <<<<"goal_gate", Yes>>>>)}

\* Up to two of them, in any order.
LoopSheets == {sheet \in UNION {[1 .. n -> LoopRules] : n \in 0 .. 2} : IsInjective(sheet)}

\* The loop when somebody has removed b from graph.dot meanwhile and given a the
\* attributes itself, by the names they had before.
EditedDocument ==
  <<Node("s", <<Shape("circle")>>), Node("a", <<<<"goal", Yes>>, <<"retries", Num(1)>>>>),
    Node("x", <<Shape("Msquare")>>), Arrow("s", "a"), Arrow("a", "x")>>

\* The pipeline a document without conditions and retry targets stands for.
Loaded(g, does) ==
  [Pipeline(DOMAIN g.nodes \ {"s", "x"},
     {[Edge(e.from, e.to, e.pos) EXCEPT
         !.label = IF e.label = {} THEN NoLabel ELSE TextOf(CHOOSE s \in e.label : TRUE),
         !.priority = e.priority, !.restart = e.restart] : e \in g.edges},
     GoalsFromGraph(g), does)
   EXCEPT !.type = [n \in DOMAIN g.nodes |->
            CASE g.nodes[n].type \in {"Start", "Exit"} -> g.nodes[n].type [] OTHER -> "Work"],
          !.maxAttempts = [n \in DOMAIN g.nodes |-> AttemptsFromNode(g.nodes[n])]]

\* What a process may be started with: `smasher run' is given the document and a
\* stylesheet, not the same one each time; `smasher resume' reads graph.dot back,
\* as it was or edited, and takes no stylesheet.
RunSources    == {[doc |-> LoopDocument, sheet |-> sheet] : sheet \in LoopSheets}
ResumeSources == {[doc |-> doc, sheet |-> <<>>] : doc \in {LoopDocument, EditedDocument}}
Sources       == RunSources \cup ResumeSources

Load(source) == Loaded(Prepare(source.doc, source.sheet, Empty), LoopWork)
=============================================================================
