---------------------------- MODULE MCReference ----------------------------
(***************************************************************************)
(* The examples of docs/dot-reference.md as one document: subgraphs,       *)
(* defaults for nodes and edges, and a node with a placeholder, one of     *)
(* whose attributes a stylesheet contradicts.  It is parsed                *)
(* (dot/parser.rs), run by `smasher run' with a stylesheet and variables,  *)
(* and read back by `smasher resume'.                                      *)
(***************************************************************************)
EXTENDS Documents

Model(name) == <<"model", Str(Plainly(name))>>

\* The file, construct by construct: a statement, or where a subgraph opens
\* and closes.
Open(name) == [kind |-> "open", name |-> name]
Close      == [kind |-> "close"]

File ==
  <<[kind |-> "node defaults", attrs |-> <<Shape("box"), Model("opus")>>],
    [kind |-> "edge defaults", attrs |-> <<<<"label", Str(Plainly("next"))>>>>],
    Open("cluster_prep"), Arrow("a", "b"), Close,
    Open("cluster_exec"), Arrow("c", "d"), Close,
    Arrow("b", "c"),
    Node("b", <<Class("critical"), <<"retries", Num(1)>>, <<"prompt", Str(Hole("topic"))>>>>)>>

Sheet == <<Rule("class", "critical", <<<<"retries", Num(3)>>, <<"goal_gate", Yes>>>>)>>
Vars  == [topic |-> Plainly("parsers")]

VARIABLES todo,    \* what the parser has not read yet
          lists,   \* the statement lists being parsed, the document's first
          unkept   \* once the document is loaded: the promises that are broken

refVars == <<todo, lists, unkept>>

Top == lists[Len(lists)]
Push(to, stmt) == [to EXCEPT ![Len(to)] = Append(@, stmt)]

Init ==
  /\ todo = File
  /\ lists = <<<<>>>>
  /\ unkept = {}

Parsing(kinds) == todo # <<>> /\ Head(todo).kind \in kinds

\* Any statement but a subgraph.
PlainStatement ==
  /\ Parsing({"node", "edge", "attr", "node defaults", "edge defaults"})
  /\ lists' = Push(lists, Head(todo))
  /\ todo' = Tail(todo)
  /\ UNCHANGED unkept

\* "subgraph name {": parse_stmt_list calls itself.
OpenSubgraph ==
  /\ Parsing({"open"})
  /\ lists' = Append(lists, <<>>)
  /\ todo' = Tail(todo)
  /\ UNCHANGED unkept

\* "}": the subgraph becomes a statement of the list it stands in.
CloseSubgraph ==
  /\ Parsing({"close"})
  /\ lists' = Push(Front(lists), [kind |-> "subgraph", statements |-> Top])
  /\ todo' = Tail(todo)
  /\ UNCHANGED unkept

(* ---------------------- what the reference promises --------------------- *)

\* "Subgraphs are supported for grouping nodes": what they group is there.
SubgraphsKept(doc, g) ==
  \A i \in At(doc, "subgraph") :
    LET group == doc[i].statements
    IN  /\ Declared(group) \cup Mentioned(group) \subseteq DOMAIN g.nodes
        /\ \A k \in At(group, "edge") :
             \E e \in g.edges : e.from = group[k].from /\ e.to = group[k].to

\* "Default attributes for all nodes ... can be set": a node without the
\* attribute has the default.
NodeDefaultsKept(doc, g) ==
  LET defaults == Collected(AttrsOf(doc, "node defaults"))
  IN  \A n \in DOMAIN g.nodes : \A k \in DOMAIN defaults \ {"shape", "label"} :
        Written(doc, n, k) = {} => Reads(g.nodes[n].attrs, k, {defaults[k]})

\* "... or edges": "all edges default to "next" label".
EdgeDefaultsKept(doc, g) ==
  LET defaults == Collected(AttrsOf(doc, "edge defaults"))
  IN  \A i \in At(doc, "edge") : \A e \in {f \in g.edges : f.pos = i} :
        StringAt(Collected(doc[i].attrs), "label") = {} => e.label = StringAt(defaults, "label")

\* "... allowing you to override properties without editing the DOT file".
StylesheetOverrides(doc, g) ==
  \A n \in DOMAIN g.nodes : \A k \in {"retries", "goal_gate"} :
    Styled(doc, Sheet, n, k) # {} => Reads(g.nodes[n].attrs, k, Styled(doc, Sheet, n, k))

\* "Resume a checkpointed pipeline run": with the same goals, attempts and prompts.
ResumeContinues(g, resumed) ==
  /\ GoalsFromGraph(resumed) = GoalsFromGraph(g)
  /\ \A n \in DOMAIN g.nodes :
       /\ AttemptsFromNode(resumed.nodes[n]) = AttemptsFromNode(g.nodes[n])
       /\ StringAt(resumed.nodes[n].attrs, "prompt") = StringAt(g.nodes[n].attrs, "prompt")

\* The promises that a document breaks which is run as g and resumed as another.
Broken(doc, g, resumed) ==
  {p \in {"subgraphs", "node defaults", "edge defaults", "overrides", "resume"} :
     CASE p = "subgraphs"     -> ~SubgraphsKept(doc, g)
       [] p = "node defaults" -> ~NodeDefaultsKept(doc, g)
       [] p = "edge defaults" -> ~EdgeDefaultsKept(doc, g)
       [] p = "overrides"     -> ~StylesheetOverrides(doc, g)
       [] p = "resume"        -> ~ResumeContinues(g, resumed)}

\* `smasher run' prepares the document with the stylesheet; `smasher resume'
\* resolves the copy in the run directory and leaves it at that.
RunAndResume ==
  /\ todo = <<>>
  /\ lists # <<>>
  /\ Resolves(Top)
  /\ unkept' = Broken(Top, Prepare(Top, Sheet, Vars), Resolve(Top))
  /\ lists' = <<>>
  /\ UNCHANGED todo

Next == PlainStatement \/ OpenSubgraph \/ CloseSubgraph \/ RunAndResume

Spec == Init /\ [][Next]_refVars

(***************************************************************************)
(* Property                                                                *)
(***************************************************************************)

\* A document that makes use of what the reference describes is loaded as the
\* reference says (graph/mod.rs, transforms.rs, run.rs, resume.rs).
ReadAsDocumented == unkept = {}
=============================================================================
