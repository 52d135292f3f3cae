---------------------------- MODULE Preparation ----------------------------
(***************************************************************************)
(* From a DOT document to the graph the engine runs: the parsed statements *)
(* are resolved into nodes and edges (graph/mod.rs), a stylesheet adds     *)
(* attributes (stylesheet.rs), placeholders are replaced (transforms.rs),  *)
(* and the engine reads what it needs off the attributes (goals.rs,        *)
(* retry.rs).  The parser returns a sequence of statements, in which a     *)
(* chain of edges has been taken apart:                                    *)
(*   [kind |-> "node", id, attrs]                                          *)
(*   [kind |-> "edge", from, to, attrs]                                    *)
(*   [kind |-> "attr", attrs]        attributes of the graph               *)
(*   [kind |-> "node defaults", attrs], [kind |-> "edge defaults", attrs]  *)
(*   [kind |-> "subgraph", statements]                                     *)
(* with attrs a sequence of <<key, value>>.  A string is a sequence of     *)
(* words, any of which may be a {{placeholder}}; durations are left out.   *)
(***************************************************************************)
EXTENDS PipelineGraph, SequencesExt

Word        == [text : STRING, hole : BOOLEAN]
StringValue == [type : {"string"}, words : Seq(Word)]
NumberValue == [type : {"number"}, n : Int]

\* One map laid over another: where both have a key, the first one's value.
Over(map, under) ==
  [k \in DOMAIN map \cup DOMAIN under |-> IF k \in DOMAIN map THEN map[k] ELSE under[k]]

\* A HashMap filled with one pair after the other.
Collected(pairs) ==
  FoldLeft(LAMBDA map, p : Over([k \in {p[1]} |-> p[2]], map), Empty, pairs)

Reads(map, key, Type) == key \in DOMAIN map /\ map[key] \in Type

\* A string attribute, as a set that is empty when there is none.
StringAt(map, key) == IF Reads(map, key, StringValue) THEN {map[key].words} ELSE {}

\* What a string of one word says.
TextOf(words) == IF Len(words) = 1 /\ ~words[1].hole THEN words[1].text ELSE "other"

(* ------------------------------ resolution ------------------------------ *)

At(doc, kind) == {i \in DOMAIN doc : doc[i].kind = kind}

\* The attributes of all statements of a kind, wherever they stand.
AttrsOf(doc, kind) ==
  FlattenSeq([i \in DOMAIN doc |-> IF doc[i].kind = kind THEN doc[i].attrs ELSE <<>>])

NodeTypeFromShape(shape) ==
  CASE shape \in {"circle", "point", "Mdiamond"} -> "Start"
    [] shape \in {"doublecircle", "Msquare"}     -> "Exit"
    [] shape \in {"box", "rectangle"}            -> "Codergen"
    [] shape \in {"hexagon", "oval", "ellipse"}  -> "Interviewer"
    [] OTHER                                     -> "Other"   \* six more types

NodeType(attrs, defaults) ==
  LET shape == StringAt(Over(attrs, defaults), "shape")
  IN  IF shape = {} THEN "Codergen" ELSE NodeTypeFromShape(TextOf(CHOOSE s \in shape : TRUE))

NodeOf(doc, attrs, pos) ==
  [type  |-> NodeType(attrs, Collected(AttrsOf(doc, "node defaults"))),
   label |-> StringAt(attrs, "label"),
   attrs |-> Restrict(attrs, DOMAIN attrs \ {"shape", "label"}),
   pos   |-> pos]

\* An edge without a condition takes its label for one.
EdgeOf(stmt, pos) ==
  LET attrs == Collected(stmt.attrs)
      label == StringAt(attrs, "label")
      given == StringAt(attrs, "condition")
  IN  [from |-> stmt.from, to |-> stmt.to, label |-> label,
       cond |-> IF given = {} THEN label ELSE given,
       priority |-> IF Reads(attrs, "priority", NumberValue) THEN attrs["priority"].n ELSE 0,
       restart  |-> \/ Reads(attrs, "loop_restart", {[type |-> "bool", b |-> TRUE]})
                    \/ \E s \in StringAt(attrs, "loop_restart") : TextOf(s) = "true",
       pos |-> pos]

\* resolve fails: a node is declared twice, or a priority is not a number.
DuplicateNode(doc) ==
  \E i, j \in At(doc, "node") : i # j /\ doc[i].id = doc[j].id
InvalidAttribute(doc) ==
  \E i \in At(doc, "edge") :
    LET attrs == Collected(doc[i].attrs)
    IN  "priority" \in DOMAIN attrs /\ attrs["priority"] \notin NumberValue
Resolves(doc) == ~DuplicateNode(doc) /\ ~InvalidAttribute(doc)

Declared(doc)  == {doc[i].id : i \in At(doc, "node")}
Mentioned(doc) == UNION {{doc[i].from, doc[i].to} : i \in At(doc, "edge")}

\* Where a node that is only mentioned is appended: after those declared, in
\* the order of the edges.
MentionPos(doc, id) ==
  LET at == {2 * i : i \in {i \in At(doc, "edge") : doc[i].from = id}}
              \cup {2 * i + 1 : i \in {i \in At(doc, "edge") : doc[i].to = id}}
  IN  Len(doc) + (CHOOSE p \in at : \A q \in at : p <= q)

Statement(doc, id) == doc[CHOOSE i \in At(doc, "node") : doc[i].id = id]

Resolve(doc) ==
  [nodes |-> [id \in Declared(doc) \cup Mentioned(doc) |->
      IF id \in Declared(doc)
      THEN NodeOf(doc, Collected(Statement(doc, id).attrs), CHOOSE i \in At(doc, "node") : doc[i].id = id)
      ELSE NodeOf(doc, Empty, MentionPos(doc, id))],
   edges |-> {EdgeOf(doc[i], i) : i \in At(doc, "edge")},
   attrs |-> Collected(AttrsOf(doc, "attr"))]

(* ------------------------------ transforms ------------------------------ *)

(***************************************************************************)
(* A rule of a stylesheet is [kind, name, says]: whom it selects, and a    *)
(* sequence of <<key, value>>.                                             *)
(***************************************************************************)

Specificity(rule) ==
  CASE rule.kind = "all"   -> 0 [] rule.kind = "type" -> 1
    [] rule.kind = "class" -> 2 [] rule.kind = "id"   -> 3

Selects(rule, id, node) ==
  CASE rule.kind = "all"   -> TRUE
    [] rule.kind = "type"  -> node.type = rule.name
    [] rule.kind = "id"    -> id = rule.name
    [] rule.kind = "class" -> \E s \in StringAt(node.attrs, "class") :
                                [text |-> rule.name, hole |-> FALSE] \in Range(s)

Matching(sheet, id, node) == {i \in DOMAIN sheet : Selects(sheet[i], id, node)}

\* Mutant: the rules are applied in the order of the file.
AppliedInOrder(sheet, id, node) ==
  LET sorted == SetToSortSeq(Matching(sheet, id, node), LAMBDA i, j : i < j)
  IN  Collected(FlattenSeq([k \in DOMAIN sorted |-> sheet[sorted[k]].says]))

\* The less specific rule comes first and, of two as specific, the earlier one.
Before(sheet, i, j) ==
  \/ Specificity(sheet[i]) < Specificity(sheet[j])
  \/ Specificity(sheet[i]) = Specificity(sheet[j]) /\ i < j

\* The members of a finite set, in the order of a relation.
Sorted(S, order) ==
  CHOOSE s \in [1 .. Cardinality(S) -> S] :
    Range(s) = S /\ \A k, m \in DOMAIN s : k < m => <<s[k], s[m]>> \in order

\* Stylesheet::apply: the matching rules, sorted by specificity and place, are
\* inserted one after the other.
Applied(sheet, id, node) ==
  LET rules  == Matching(sheet, id, node)
      sorted == Sorted(rules, {p \in rules \X rules : Before(sheet, p[1], p[2])})
  IN  Collected(FlattenSeq([k \in DOMAIN sorted |-> sheet[sorted[k]].says]))

\* An attribute the node has is never overwritten.
ApplyStylesheet(g, sheet) ==
  [g EXCEPT !.nodes = [id \in DOMAIN g.nodes |->
     [g.nodes[id] EXCEPT !.attrs = Over(@, Applied(sheet, id, g.nodes[id]))]]]

\* Each known placeholder is replaced by its variable, once.
ExpandString(words, vars) ==
  [i \in DOMAIN words |->
     IF words[i].hole /\ words[i].text \in DOMAIN vars THEN vars[words[i].text] ELSE words[i]]

ExpandValue(v, vars) ==
  IF v \in StringValue THEN [v EXCEPT !.words = ExpandString(@, vars)] ELSE v

\* Attributes and labels of nodes; edges and graph attributes keep theirs.
ExpandVariables(g, vars) ==
  [g EXCEPT !.nodes = [id \in DOMAIN g.nodes |->
     [g.nodes[id] EXCEPT
        !.attrs = [k \in DOMAIN @ |-> ExpandValue(@[k], vars)],
        !.label = {ExpandString(s, vars) : s \in @}]]]

\* What `smasher run' and the web server run, the latter without a stylesheet;
\* `smasher resume' runs Resolve(doc), neither styled nor filled.
Prepare(doc, sheet, vars) == ExpandVariables(ApplyStylesheet(Resolve(doc), sheet), vars)

(* ------------------------------- reading -------------------------------- *)

Yes == [type |-> "bool", b |-> TRUE]

\* The value of the first of two keys the node has: the name in use before
\* the one it replaced.
FirstOf(attrs, key, oldKey) ==
  {attrs[k] : k \in {j \in {key, oldKey} \cap DOMAIN attrs : j = key \/ key \notin DOMAIN attrs}}

\* GoalGate::from_graph: the goal nodes, in the order of the nodes.
GoalsFromGraph(g) ==
  LET goals == {id \in DOMAIN g.nodes : Yes \in FirstOf(g.nodes[id].attrs, "goal_gate", "goal")}
  IN  Sorted(goals, {p \in goals \X goals : g.nodes[p[1]].pos < g.nodes[p[2]].pos})

\* `n as u32': a negative number is 0; those of 2^32 and more are left out.
AsU32(n) == IF n < 0 THEN 0 ELSE n

\* RetryPolicy::from_node: the attempts allowed.  A `max_retries' that is no
\* number is passed over.
AttemptsFromNode(node) ==
  IF Reads(node.attrs, "max_retries", NumberValue) THEN AsU32(node.attrs["max_retries"].n) + 1
  ELSE IF Reads(node.attrs, "retries", NumberValue) THEN AsU32(node.attrs["retries"].n) + 1
  ELSE 1

(***************************************************************************)
(* Properties                                                              *)
(***************************************************************************)

\* What the last of the pairs with this key says.
LastSaid(pairs, key) ==
  {pairs[i][2] : i \in {j \in DOMAIN pairs : /\ pairs[j][1] = key
                                             /\ \A k \in DOMAIN pairs : k > j => pairs[k][1] # key}}

\* What a node's own statement says.
Written(doc, id, key) ==
  UNION {LastSaid(doc[i].attrs, key) : i \in {j \in At(doc, "node") : doc[j].id = id}}

\* What the document sets as the default of all nodes.
Defaulted(doc, key) == LastSaid(AttrsOf(doc, "node defaults"), key)

\* The rule that decides an attribute: it selects the node, and no rule that
\* does too is more specific, or as specific and further down.
Decides(sheet, node, id, key, i) ==
  LET speaks == {j \in Matching(sheet, id, node) : LastSaid(sheet[j].says, key) # {}}
  IN  /\ i \in speaks
      /\ \A j \in speaks : \/ Specificity(sheet[j]) < Specificity(sheet[i])
                           \/ Specificity(sheet[j]) = Specificity(sheet[i]) /\ j <= i

Styled(doc, sheet, id, key) ==
  LET node == Resolve(doc).nodes[id]
  IN  UNION {LastSaid(sheet[i].says, key) :
               i \in {j \in DOMAIN sheet : Decides(sheet, node, id, key, j)}}

(***************************************************************************)
(* Where a node's statement, a rule and a default contradict each other,   *)
(* the documents do not agree on who wins: dot-reference.md calls a        *)
(* stylesheet an override and a default an attribute of all nodes,         *)
(* parity-matrix.md says that a node's attributes take precedence.  An     *)
(* attribute is settled when that does not matter: only one of statement   *)
(* and rule speaks of it, a default of all nodes is overridden by the      *)
(* node's own statement, and so it is for the class by which rules select. *)
(***************************************************************************)
NotInDefault(doc, id, key) == Defaulted(doc, key) = {} \/ Written(doc, id, key) # {}

Settled(doc, sheet, id, key) ==
  /\ NotInDefault(doc, id, "class")
  /\ NotInDefault(doc, id, key)
  /\ Written(doc, id, key) = {} \/ Styled(doc, sheet, id, key) = {}

\* The settled value, as a set that is empty when nobody gives one.
Asked(doc, sheet, id, key) == Written(doc, id, key) \cup Styled(doc, sheet, id, key)

\* The value of a key or, failing that, of the name it had before.
AskedFirst(doc, sheet, id, key, oldKey) ==
  IF Asked(doc, sheet, id, key) # {} THEN Asked(doc, sheet, id, key)
  ELSE Asked(doc, sheet, id, oldKey)

\* The node is meant to be a goal, whichever document one reads.
GoalAsked(doc, sheet, id) ==
  /\ Settled(doc, sheet, id, "goal_gate") /\ Settled(doc, sheet, id, "goal")
  /\ Yes \in AskedFirst(doc, sheet, id, "goal_gate", "goal")

\* The number of attempts the node is meant to get, as a set that is empty when
\* nobody gives one or the documents do not agree.
AttemptsAsked(doc, sheet, id) ==
  IF Settled(doc, sheet, id, "max_retries") /\ Settled(doc, sheet, id, "retries")
  THEN {v.n + 1 : v \in AskedFirst(doc, sheet, id, "max_retries", "retries")
                          \cap [type : {"number"}, n : Nat]}
  ELSE {}
=============================================================================
