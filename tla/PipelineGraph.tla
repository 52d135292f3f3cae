--------------------------- MODULE PipelineGraph ---------------------------
(***************************************************************************)
(* The resolved pipeline graph and the pure functions the engine applies   *)
(* to it: edge selection (edge.rs), condition evaluation (condition/mod.rs)*)
(* the retry-target chain and the goal gate (engine.rs, goals.rs), the     *)
(* fidelity transformation (fidelity.rs) and the retry policy (retry.rs).  *)
(*                                                                         *)
(* A graph is a record                                                     *)
(*   nodes        the node ids                                             *)
(*   type         node -> "Start" | "Exit" | "Work"  (every other NodeType *)
(*                behaves as "Work" for the engine: only the registry      *)
(*                looks further)                                           *)
(*   edges        set of edge records (below)                              *)
(*   goals        goal nodes, in declaration order                         *)
(*   retryTarget, fallbackTarget    node -> name or NoTarget               *)
(*   graphTarget, graphFallback     name or NoTarget                       *)
(*   maxAttempts  node -> attempts the retry policy allows                 *)
(*   lex          name -> rank in the alphabetical order of the names      *)
(*   owns         node -> context keys that start with "<node>_"           *)
(*   behaviours   node -> what its handler may do: [out, writes] records   *)
(* and an edge is [from, to, label, decorated, cond, priority, restart,    *)
(* fid, pos]: `label' is the normalised label, `decorated' says that the   *)
(* written label carries an accelerator prefix or outer blanks, `pos' is   *)
(* the place of the edge in the file, `fid' the fidelity mode configured   *)
(* for it ("off" when the engine has no FidelityConfig).                   *)
(***************************************************************************)
EXTENDS Integers, Sequences, FiniteSets, Functions

CONSTANTS NodeId,     \* names of nodes
          Text,       \* edge labels and error messages
          Key,        \* context keys of interest, "outcome" among them
          Val,        \* context values
          SystemKey   \* the keys that start with "_"

NoNode   == "no node"
NoTarget == "no target"
NoLabel  == "no label"
NoError  == "no error"
Unset    == "unset"      \* the value of a key that is not in the context
Empty    == [x \in {} |-> 0]

ASSUME NameAssumption ==
  /\ {NoNode, NoTarget} \cap NodeId = {}
  /\ {NoLabel, NoError} \subseteq Text

ASSUME ContextAssumption ==
  /\ {"outcome", "_fidelity_mode"} \subseteq Key
  /\ SystemKey \subseteq Key
  /\ "_fidelity_mode" \in SystemKey
  /\ "outcome" \notin SystemKey
  /\ {"success", "fail", "retry", "skip", "marker"} \subseteq Val
  /\ Unset \notin Val

Context == [Key -> Val \cup {Unset}]

(* ------------------------------ outcomes ------------------------------- *)

OutcomeKind == {"Success", "PartialSuccess", "Failure", "Retry", "Skip"}

Outcome == [kind : OutcomeKind, retryable : BOOLEAN, error : Text,
            pref : Text, suggest : SUBSET NodeId]

IsSuccess(out)   == out.kind \in {"Success", "PartialSuccess"}
IsFailure(out)   == out.kind = "Failure"
IsRetryable(out) == out.kind = "Retry" \/ (IsFailure(out) /\ out.retryable)

Succeed  == [kind |-> "Success", retryable |-> FALSE, error |-> NoError,
             pref |-> NoLabel, suggest |-> {}]
Partial  == [Succeed EXCEPT !.kind = "PartialSuccess"]
Skipped  == [Succeed EXCEPT !.kind = "Skip"]
AskRetry == [Succeed EXCEPT !.kind = "Retry"]
FailWith(error)   == [Succeed EXCEPT !.kind = "Failure", !.error = error]
FailRetry(error)  == [FailWith(error) EXCEPT !.retryable = TRUE]
PreferLabel(label) == [Succeed EXCEPT !.pref = label]
SuggestNext(ids)   == [Succeed EXCEPT !.suggest = ids]

\* What the engine stores under the key "outcome" before it selects an edge.
OutcomeLabel(out) == CASE IsSuccess(out)       -> "success"
                       [] IsFailure(out)       -> "fail"
                       [] out.kind = "Retry"   -> "retry"
                       [] out.kind = "Skip"    -> "skip"

(* ----------------------------- conditions ------------------------------ *)

(***************************************************************************)
(* A condition in disjunctive normal form: a set of clauses, a clause a    *)
(* set of literals.  Parsed expressions are built from comparisons of one  *)
(* key with one constant, so a literal is the key and the set of values    *)
(* that make the comparison true.  A key that is absent makes every        *)
(* comparison false, hence every negated comparison true.                  *)
(***************************************************************************)
Literal == [key : Key, in : SUBSET Val, neg : BOOLEAN]

Holds(literal, ctx) == (ctx[literal.key] \in literal.in) # literal.neg

EvaluateCondition(clauses, ctx) ==
  \E clause \in clauses : \A literal \in clause : Holds(literal, ctx)

NoCond            == [tag |-> "none", clauses |-> {}]
Malformed         == [tag |-> "malformed", clauses |-> {}]
When(clauses)     == [tag |-> "parsed", clauses |-> clauses]
Equals(key, val)  == [key |-> key, in |-> {val}, neg |-> FALSE]
Differs(key, val) == [key |-> key, in |-> Val \ {val}, neg |-> FALSE]
Negated(literal)  == [literal EXCEPT !.neg = ~@]

(* ---------------------------- edge selection --------------------------- *)

EdgesFrom(g, n) == {e \in g.edges : e.from = n}

HasExplicitCondition(e) == e.cond.tag # "none"

LabelWords(out) ==
  CASE IsSuccess(out)     -> {"success", "yes", "true", "partial_success"}
    [] IsFailure(out)     -> {"failure", "error", "no", "false"}
    [] out.kind = "Retry" -> {"retry", "failure", "error"}
    [] out.kind = "Skip"  -> {"skip"}

EdgeMatchesOutcome(e, out) == ~e.decorated /\ e.label \in LabelWords(out)

\* Sort order of the candidates; the sort is stable, so the order of the
\* file settles what priority and name leave open.
Precedes(g, e, f) ==
  \/ e.priority > f.priority
  \/ e.priority = f.priority /\ g.lex[e.to] < g.lex[f.to]
  \/ e.priority = f.priority /\ e.to = f.to /\ e.pos < f.pos

\* The one best edge of the pool, as a set that is empty when the pool is.
PickBest(g, pool) == {e \in pool : \A f \in pool \ {e} : Precedes(g, e, f)}

ParseError(g, n) == \E e \in EdgesFrom(g, n) : e.cond.tag = "malformed"

Plain(g, n) == {e \in EdgesFrom(g, n) : ~HasExplicitCondition(e)}

\* The pools the selection tries in turn; the first that is not empty wins.
Pools(g, n, ctx, out) ==
  << {e \in EdgesFrom(g, n) : /\ HasExplicitCondition(e)
                              /\ EvaluateCondition(e.cond.clauses, ctx)},
     {e \in Plain(g, n) : out.pref # NoLabel /\ e.label = out.pref},
     {e \in Plain(g, n) : e.to \in out.suggest},
     {e \in Plain(g, n) : EdgeMatchesOutcome(e, out)},
     Plain(g, n) >>

\* Defined when no candidate's condition fails to parse: the selected edge,
\* or the empty set when the node has no edge to follow.
SelectEdge(g, n, ctx, out) ==
  LET pool == Pools(g, n, ctx, out)
  IN  UNION {PickBest(g, pool[i]) :
               i \in {j \in DOMAIN pool : \A k \in 1 .. j - 1 : pool[k] = {}}}

(* --------------------- retry targets, goals, retries -------------------- *)

\* The first target that is given, as a set: node level before graph level.
ResolveRetryTarget(g, n) ==
  LET chain == << g.retryTarget[n], g.fallbackTarget[n],
                  g.graphTarget, g.graphFallback >>
  IN  {chain[i] : i \in {j \in DOMAIN chain :
                           /\ chain[j] # NoTarget
                           /\ \A k \in 1 .. j - 1 : chain[k] = NoTarget}}

Satisfied(outcomes, n) == n \in DOMAIN outcomes /\ IsSuccess(outcomes[n])

\* Mutant: a goal counts as met once it has been visited.
GoalsVisited(g, outcomes) == Range(g.goals) \subseteq DOMAIN outcomes

GoalsMet(g, outcomes) == \A n \in Range(g.goals) : Satisfied(outcomes, n)

\* GoalGate::check_outcomes: the first unsatisfied goal in declaration order.
FirstUnsatisfied(g, outcomes) ==
  {g.goals[i] : i \in {j \in DOMAIN g.goals :
                         /\ ~Satisfied(outcomes, g.goals[j])
                         /\ \A k \in 1 .. j - 1 : Satisfied(outcomes, g.goals[k])}}

\* Mutant: off by one, the last attempt is never made.
ShouldRetryBefore(g, n, attempts, out) ==
  IsRetryable(out) /\ attempts + 1 < g.maxAttempts[n]

ShouldRetry(g, n, attempts, out) ==
  IsRetryable(out) /\ attempts < g.maxAttempts[n]

(* -------------------------- context carry-over ------------------------- *)

\* An assignment to some keys, over a context.
Overlay(ctx, writes) ==
  [k \in Key |-> IF k \in DOMAIN writes THEN writes[k] ELSE ctx[k]]

\* Overlay a saved snapshot, from which absent keys are missing, on a context.
Restore(ctx, snapshot) ==
  [k \in Key |-> IF snapshot[k] = Unset THEN ctx[k] ELSE snapshot[k]]

Forget(ctx, keys) == [k \in Key |-> IF k \in keys THEN Unset ELSE ctx[k]]

\* loop_restart drops the keys named after the node the edge leaves.
ClearNode(g, e, ctx) ==
  IF e.restart THEN Forget(ctx, g.owns[e.from]) ELSE ctx

FidelityMode == {"off", "full", "marked", "reset", "result_only"}

Carry(fid, ctx) == CASE fid \in {"off", "full"} -> ctx
                     [] fid = "marked"          -> [ctx EXCEPT !["_fidelity_mode"] = "marker"]
                     [] fid = "reset"           -> Forget(ctx, Key)
                     [] fid = "result_only"     -> Forget(ctx, Key \ SystemKey)

(* --------------------------- well-formedness --------------------------- *)

\* What graph resolution guarantees: a file declares finitely many nodes and
\* edges, each edge at a place of its own; endpoints of edges are nodes (they
\* are created when missing), while retry targets may name anything.
IsGraph(g) ==
  /\ g.nodes \subseteq NodeId
  /\ IsFiniteSet(g.nodes)
  /\ IsFiniteSet(g.edges)
  /\ g.type \in [g.nodes -> {"Start", "Exit", "Work"}]
  /\ \A e \in g.edges : /\ e.from \in g.nodes
                        /\ e.to \in g.nodes
                        /\ e.priority \in Int
                        /\ e.pos \in Nat
                        /\ e.fid \in FidelityMode
                        /\ e.restart \in BOOLEAN
                        /\ e.label \in Text
  /\ \A e, f \in g.edges : e.pos = f.pos => e = f
  /\ \A m, n \in g.nodes : g.lex[m] \in Nat /\ (g.lex[m] = g.lex[n] => m = n)
  /\ g.goals \in Seq(g.nodes)
  /\ g.maxAttempts \in [g.nodes -> Nat]
  /\ g.owns \in [g.nodes -> SUBSET Key]
  /\ \A n \in g.nodes : \A b \in g.behaviours[n] :
       /\ b.out \in Outcome
       /\ DOMAIN b.writes \subseteq Key
       /\ \A k \in DOMAIN b.writes : b.writes[k] \in Val

StartNodes(g) == {n \in g.nodes : g.type[n] = "Start"}
=============================================================================
