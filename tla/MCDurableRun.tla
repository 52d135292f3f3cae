---------------------------- MODULE MCDurableRun ----------------------------
(***************************************************************************)
(* The review loop, loaded from its document under several stylesheets,    *)
(* explored under failing saves, crashes and resumes.                      *)
(***************************************************************************)
EXTENDS DurableRun, Documents

MCRunGraphs  == {Load(source) : source \in RunSources}
MCFileGraphs == {Load(source) : source \in ResumeSources}
MCGraphs     == MCRunGraphs \cup MCFileGraphs

\* What a document and a stylesheet ask of the graph they are loaded to: the
\* goals, and pairs of a node and the number of attempts it is meant to get.
Demand(source) ==
  LET doc   == source.doc
      sheet == source.sheet
  IN  [graph |-> Load(source),
       goals |-> {id \in Declared(doc) : GoalAsked(doc, sheet, id)},
       tries |-> UNION {{<<id, n>> : n \in AttemptsAsked(doc, sheet, id)} : id \in Declared(doc)}]

Demands == {Demand(source) : source \in Sources}

\* A run does what the document and the stylesheet it was started with ask for,
\* wherever the documentation settles what that is (graph/mod.rs, stylesheet.rs,
\* goals.rs, retry.rs, engine.rs): it completes only if the latest outcome of
\* each node asked to be a goal is a success, in this process or before it was
\* resumed, and a node makes no more attempts than asked for, and no fewer
\* before an outcome that wants another one is recorded.
RunsAsAsked ==
  \A asked \in {d \in Demands : d.graph = graph} :
    /\ result = "Completed" => \A n \in asked.goals : LatestSucceeded(n)
    /\ \A try \in asked.tries :
         pc = "record" /\ cur = try[1] =>
           /\ attempts <= try[2]
           /\ IsRetryable(out) => attempts = try[2]
=============================================================================
