# Verification of smasher

TLA+ models, TLC runs and TLAPS proofs for smasher, a Rust workspace that runs
pipelines of LLM work: a pipeline is a DOT graph, the *attractor* engine walks
it node by node, agents and LLM clients do the work of the nodes, and a CLI and
a web server start, watch, cancel and resume runs.

Paths below are relative to `crates/`. `PROJECT.json` maps every definition of
the models to the lines it stands for.

## The system

| component | state | operations | correct when |
|---|---|---|---|
| engine loop (`smasher-attractor/src/engine.rs`, `retry.rs`, `goals.rs`) | current node, steps, visit order, outcomes, failure signatures, loop counters, shared context, event stream | run, resume from a checkpoint; check token, start, execute with retries, record, save, goal gate, route, finish | completion means the goals' last reports succeeded; events, outcomes and result agree; every run ends; a cancelled run starts one node at most |
| graph and edge selection (`edge.rs`, `condition/`, `graph/`, `fidelity.rs`) | none | select an edge, evaluate a condition, resolve a retry target, carry the context over | one edge is best; an unroutable failure is never the end of a pipeline |
| preparation (`graph/mod.rs`, `stylesheet.rs`, `transforms.rs`) | none | resolve statements, apply a stylesheet, fill placeholders | a node asked to be a goal is enforced as one and gets the attempts asked for, wherever the documentation says what is asked |
| lint (`lint.rs`) | none | refuse, warn | a graph it passes is one the engine runs |
| checkpoint and resume (`state.rs`, `smasher-cli/src/run.rs`, `resume.rs`) | `checkpoint.json`, `run.tgz`, run directory | save after every node, resume by two commands, archive | what is on disk belongs to the run that goes on and lacks one node at most |
| web server (`smasher-web`) | run records and their status, one channel, event log and question queue per run | submit, cancel, resume, stream, answer | the stored status agrees with the stream and is final; a resume reads a checkpoint nobody writes; readers lose only what was overwritten |
| human gate (`interviewer.rs`, `http_interviewer.rs`) | pending questions | ask, list, answer, time out | one answer per question; an answer in time is used; a timeout ends the wait |
| dashboard (`smasher-cli/src/tui.rs`, `run.rs`) | what is shown, the prompt, two bridges | forward events and questions, respond, quit, close | an answer goes to the question it was given to; the end of the run closes the dashboard, its closing ends the run |
| agent session (`smasher-agent/src/session.rs`, `loop_detection.rs`) | conversation, turns, steering queue, detector window | process input, steer, cancel; call, execute tools, collect | the model gets complete conversations; turns and attempts are bounded; loops are announced; every input returns |
| LLM client (`smasher-llm/src/client`, `util/retry.rs`) | attempt count | route, attempt, delay, retry | attempts bounded, only retryable errors repeated |
| LLM streaming (`smasher-llm/src/provider/*/stream.rs`, `util/sse.rs`, `api/stream*.rs`) | parser buffer, translator, accumulator, channel of partial objects | parse, translate, accumulate, pass on | what is accumulated is what was sent, in its place, wherever the chunks are cut |
| parallel branches, subagents, patches, composition, providers' data types, rendering, process I/O | - | - | see "Not modelled" |

The engine is the centre: the CLI and the web server construct it with a
resolved graph, a handler registry, a context and a configuration, and await
its result; handlers write to the context the engine reads when it selects an
edge; everything the outside learns while a run lasts comes from the event
stream. Handlers call agents (sessions that call the LLM client) and humans
(interviewers whose questions are answered by the web server's clients or by
the user of the dashboard).

What is hard: the loop, the stall watchdog and the holder of the token share
state; runs may die inside a write and be resumed, from another graph and with
fresh counters; the web server's run task, requests and readers race; answers
race timers, and late ones race the next question; a session is cancelled
during a round and steered between two inputs; a stream may be cut at any byte
and broken at any moment. `hazards` in `PROJECT.json` lists each at its line
with the properties that watch it.

## Modules

| module | what it is |
|---|---|
| `PipelineGraph` | the graph, outcomes, conditions, edge selection, retry targets, goal satisfaction, retry policy and context carry-over, as operators |
| `Preparation` | from the statements of a document to that graph: resolution, stylesheet, placeholders, goals, attempts |
| `Engine` | one run: `execute_loop` phase by phase, the watchdog and the canceller |
| `PipelineRun` | the abstract run the engine implements |
| `Lint` | the lint's verdict and what it promises of a run |
| `DurableRun` | `Engine` in a process that may die, its checkpoint file, and the two resume commands |
| `WebRuns` | the web server's run records, run tasks, requests, event log and event streams |
| `HumanGate` | questions to humans, answers, timeouts, and which handler poses them |
| `TuiRun` | `smasher run` with its dashboard: engine, two bridges, dashboard, user |
| `LlmCall` | one call of the LLM client with its retries |
| `LoopDetector` | the window over tool calls, and what a loop is without an algorithm |
| `AgentSession` | `process_input` over `LlmCall` and `LoopDetector`, its owner and the holder of its token |
| `LlmStream` | a streamed answer from the provider's bytes to the response or the partial objects |
| `Descent` | ranks: tuples of numbers and when one is lower than another |
| `Induction` | induction over numbers, finite sets and ranks; what recursive functions and flattened sequences are |
| `EngineProofs` | theorems about `Engine` and `Lint` |
| `DurableProofs`, `WebProofs`, `GateProofs`, `TuiProofs`, `SessionProofs`, `LlmStreamProofs` | theorems about the modules they are named after |
| `Pipelines`, `Documents` | small pipelines, documents and stylesheets |
| `MCEngine`, `MCDurableRun`, `MCWebRuns`, `MCHumanGate`, `MCTuiRun`, `MCAgentSession`, `MCLlmStream` | the instances TLC checks |
| `MCReference` | the examples of docs/dot-reference.md as the parser reads them, run and resumed, against what the documentation says of them |

`PipelineGraph` <- `Engine` <- `DurableRun`, `Lint`; `LlmCall`, `LoopDetector` <-
`AgentSession`. `WebRuns` and `TuiRun` see the engine from outside and keep of it
what their tasks can observe.

### Preparation

A document is a sequence of statements as the parser returns them, a stylesheet
a sequence of rules. `Resolve` is `graph::resolve`, `Prepare` adds
`apply_transforms`; `GoalsFromGraph` and `AttemptsFromNode` are what the engine
reads off the attributes. A string is a sequence of words, some of them
placeholders: enough to tell that a replaced placeholder is not filled again,
that classes are compared word by word and before placeholders are filled. Maps
are filled one pair after the other with a fold, as the code fills them.

What a document *asks for* is stated apart from that code, and only where the
documentation settles it. It does not agree with itself, or with the code, on who
wins when a node's statement, a stylesheet and a default contradict each other:
docs/dot-reference.md calls stylesheets overrides (321-322) and defaults
attributes of all nodes and edges (169-180), docs/parity-matrix.md gives the
node's attributes precedence (287), and the code applies no default but the shape.
So an attribute is `Settled` when only one of statement and rule speaks of it and a
default is overridden by the node's own statement, which also holds for the class
that rules select by. `Asked`, `GoalAsked` and `AttemptsAsked` are the value, the
goal and the attempts then, without folds and sorting: `LastSaid` of the statement
or of the rule that `Decides`. What is not settled, where the code does one thing
and a passage says another, is in the findings.

`Documents` holds a review loop and ten stylesheets for it: up to two of three
rules, which contradict each other, in either order. `MCDurableRun` loads the loop
under each of them with the operators above. `smasher run --resume` takes any of
them again, `smasher resume` none, so goals and attempts a stylesheet gave are
gone after that command; and somebody may have edited the document meanwhile.
`RunsAsAsked` holds the *run* to what its document and stylesheet ask for: its
goals and its attempts, not the attributes they are read from.

`MCReference` is the parser's recursion over statement lists (`OpenSubgraph`,
`CloseSubgraph`, and `PlainStatement` for everything else) on the reference's own
examples, followed by the preparation of `smasher run` and by that of `smasher
resume`. It compares the result with five promises of the documentation:

| promise | what the code does |
|---|---|
| subgraphs group nodes (dot-reference 155) | `resolve` passes over them: their nodes and edges are missing |
| a default attribute holds for all nodes (171) | only the shape has an effect |
| a default label holds for all edges (171, 176) | it is collected and applied to none |
| a stylesheet overrides attributes (321-322, api-reference 112) | it adds those the node does not have |
| a checkpointed pipeline is restored and resumed (resume.rs 1, cli-reference 15) | `smasher resume` loses what stylesheet and variables gave |

### Engine

`pc` is the place in the loop: `top` (token and budget), `start`, `exec`
(handler and retries), `record`, `save`/`saving` (checkpoint), `route`,
`finish`. The split follows the points where another task can act: the loop
awaits the progress lock before it starts a node, handlers and retry delays
await, and a file write is not atomic for a process that may be killed.
Between two such points a phase is one action, with every event it emits.

A handler is external: executing node `n` yields any of the outcomes (with
context writes) that the pipeline lists for `n`. The executions of one node
may differ, so a retry may succeed.

Abstractions: a condition is a disjunctive normal form of key comparisons; an
edge carries its normalised label and a flag saying that the written label was
decorated; error messages are names; durations are `Tick`s, one unit being the
watchdog's resolution; `failure_signatures` is keyed by the pair that the code
hashes, so hash collisions are not modelled; artifacts, timings and statistics
are left out.

### Lint

The rules with an effect on what runs: errors E001-E003, and the warnings about
unreachable nodes and dead ends. `LintPredicts` relates them to `Engine`: a graph
without errors is never refused, and a clean one without conditions and missing
targets completes at its exit only.

### DurableRun

Only `disk` (checkpoint.json) and `archived` (run.tgz) outlive a process.
`BeginSave` is the truncation `std::fs::write` starts with, `EndSave` the
completed write; `SaveFails` is either failing, which the code only logs.
`ResumeRun` is `smasher run --resume`, which finds the run by its document and
prepares that again with the stylesheet of the new command line (`RunGraphs`);
`ResumeCommand` is `smasher resume`, which re-reads the graph without the
transforms `run` applies (`FileGraphs`), saves no checkpoints and writes no
archive. A process that has crashed does nothing more: its
token, its watchdog and its loop are gone with it. One process at a time works on a run
directory; two concurrent resumes are listed as a hazard and not modelled.

### WebRuns

The engine seen from outside: `Start`, `Stop`, `StartNode`, `NodeReturns`,
`BeginSave`/`EndSave`/`SaveFails` and `Route` are the phases of `Engine` with
the routing left open, `Store` is the task's write of the final status.
`Submit` and `Spawn` are two steps, for the record is visible to other requests
before the task exists. `Cancel` and `Resume` hold the read lock from their
check to their effect and are one step each. `Received` is
`tokio::sync::broadcast::Receiver::recv`: an overwritten event is answered with
a lag, the next call goes on with the oldest event left. The event log in memory
and the JSONL log are drained by equal tasks; one is modelled. `Forward` is the
task that passes an agent's events on, whenever it is polled. Left out: token
counters, graph rendering, the HTML pages (they repeat these operations), the
buffer between an agent's session and its forwarder, the death of the server
(records live in memory and are lost with it).

### HumanGate

One pipeline asks one question after the other, as the engine does. `Ask`
queues it, `Answer` takes it from the queue and sends the answer, `Wake` is the
handler polled with the answer there, `Elapse` the handler polled with its timer
elapsed and no answer, `GiveUp` the drop of the receiver that follows: between
the two another thread may still send. `Handler` is the registry's lookup.

### TuiRun

The engine is reduced to its events, the questions of its gates and its end,
which may come without an announcement. `ForwardEvent` and the
`ForwardQuestion`/`RelayResponse`/`BridgeEnds` loop are the two bridge tasks of
run.rs, `Update` and `Respond` the dashboard's `update` and its keys,
`GateTimesOut` the `TimeoutInterviewer`. Questions are numbered by the step that
asks them, which is how `AnswersBelong` can tell whose answer a gate acts on: a
gate that gave up leaves its prompt on display, and the next question waits
behind it until the user has answered in vain. `Talk` is the task that reads an
agent's output: when the node's time is up the process is killed, but the task
reads on and broadcasts what is left, also after the end of the run. Two things hold of the code that
no property demands: `PipelineDone` is never sent, for the command holds the
emitter itself, so after an end without an announcement the dashboard stays open
until the user quits; and a node executed again is counted again as finished.
Left out: drawing, scrolling, selection, and the log pane.

### AgentSession, LlmCall, LoopDetector

An action of `AgentSession` is what `process_input` does between two awaits. The
conversation is a sequence of messages that carry what tells them apart: whose
response and which call a result belongs to. The provider answers with any round
of calls; `LlmCall` says when an attempt is repeated, with the middleware chain
and the adapter behind an attempt's outcome. Tools run concurrently and return
in any order; their results are taken in the order of the calls. `Steer` needs
the session for itself, so it happens between inputs; `Cancel` may happen at any
moment. Left out: the context-window tracker and `SessionPhase`, which feed
events and tests only; the text of messages; the length of delays.

### LlmStream

A script says which provider answers, with which blocks, and after how many
events it fails. `Chunk` delivers bytes in pieces cut anywhere, `Eof` and
`Breaks` end the connection, `Line` is the SSE parser and the provider's
translator on one line, `Consume` the accumulator, `Finish` the end of the
stream for `smasher complete` (`mode = "complete"`) and for `stream_object`
(`mode = "object"`), whose partial objects go through a bounded channel that
`Receive` drains and `DropReceiver` abandons. A line of an event is sent in two halves and ended by CR and LF, so
it can be cut inside and between the two; pieces are pairs of block and number, so a piece
in the wrong place is seen. Blocks are sent one after another: OpenAI's output
items, which `openai/stream.rs` tells apart by their index, could also come
interleaved. A line the connection ends in is cut between its halves, never inside
the field's name, where the code would pass over the line (`util/sse.rs:106-112`)
instead of refusing its payload. Token counts are left out.

## Runs

| run | question | bounds |
|---|---|---|
| `engine_runs` | do events, outcomes and result agree in every routing case, under cancellation, stalls and failing saves, and does every run end? | eleven pipelines of 3-4 nodes covering each of the five selection rules used at run time, goal gates with good, missing and absent retry targets, malformed conditions, dead ends, refused graphs; 6 steps, failure limit 2, up to 2 attempts, a stall timeout of one tick. Six steps go round each loop and let the goal of `FlakyGoal` fail, be skipped and fail again, which meets the failure limit across an interruption of the series. |
| `durable_run` | does a run do what its document and stylesheet ask for, and what survives failing saves, crashes and resumes? | one loop under ten stylesheets, where every pair of selectors occurs in either order and contradicts itself, without one, or with a node removed and its attributes written by their older names; 4 steps, 3 launches: a crash, a resume that crashes again, and one more. |
| `torn_checkpoint` | does an announced checkpoint survive a crash? It does not: a crash while the file is rewritten leaves it torn. | one launch |
| `hung_handler` | does a stalled run end? It does not while its handler hangs. | one loop, three steps |
| `web_runs` | is a run's stored end true and final, what may a resume read, what do readers lose, and do streams end? | either one run of one node with one client, a buffer of two events for up to six sent, and one agent event that may come last, so that every reader can lag more than once; or two runs, submitted or the second a resume of the first, of up to two nodes: the second save is the one an early resume would miss. `Apart` keeps the two cases apart: the streams of two runs share nothing, and statuses do not depend on readers. What it withholds (a submission, a client's request, an agent's message, the return of the watched run's second node) no fairness condition asks for. |
| `human_gate` | which answer counts, and does a gate end? | two clients, two questions: an answer to the first may arrive while the second is pending. |
| `gate_timeout` | does `human.timeout_secs` limit the wait in the program as deployed? It does not: another handler is found first. | the same |
| `tui_run` | do answers reach their question, does an announced end close the dashboard, does quitting end the run? | one gate and one other node, completed before; three executions, so two questions may be given up before a third, or fewer and events of an agent instead: one execution and two of them are enough to overwrite the announced end; a channel of two events for up to eight, so that events are lost; with and without a timeout. |
| `agent_session` | is the model ever sent a broken conversation, and does every input return? | two things said (two inputs, or one and a steering message), rounds of up to two calls out of three, four turns, one retry; a window of four calls and two repetitions, so that patterns of one and of two calls fit and the window overflows. |
| `llm_streams` | is what is accumulated what was sent? | three providers; answers with thinking, text and two calls of one and two pieces, so that a piece may go to the wrong call; whole, or failing after three events; every cut, every break; a channel of two. |
| `documented_reading` | is a document loaded as the reference describes? It is not, in five respects. | the reference's examples of subgraphs, defaults and stylesheets as one document |
| `stream_error` | does an error inside a stream fail the command? It does not: the events that carry it are passed over. | the same |

Violation runs show where the code does less than its documentation says; the
passages are quoted under `findings` in `PROJECT.json`. `ReadAsDocumented` fails
with the names of the promises that are broken in the state TLC shows: all five.

What the passing runs leave open: the answer of a cancellation is not compared
with the status stored later (it says Aborted, and the run may still complete);
an event stream of the web server whose run ends without a closing event, or whose
client comes after it, stays open; the dashboard stays open when so much is said
after the announced end that this is overwritten, or without an announced end;
`StreamSettles` supposes a receiver that receives or goes away, although
api/stream_object.rs:34-35 speaks of the handle alone.

Fairness. `FairEngine` is weak fairness of the loop's own steps (the runtime
polls a ready task again), of time, and of the watchdog once it is due.
`FairSpec` adds weak fairness of `HandlerReturns`: every handler returns. The
code does not guarantee that (only some handlers have timeouts), which is why
`hung_handler` uses `FairLoopSpec` without it. `WebRuns!FairSpec` polls tasks,
forwarders, log drains and the streams of connected clients, and no handler.
`HumanGate!Spec` polls a handler that was woken and lets its timer elapse; no
human has to answer. `TuiRun!FairSpec` lets handlers return, tasks be scheduled
and timers elapse; nobody has to press a key, so a gate without a timeout may
wait for ever while the dashboard is open. `AgentSession!FairSpec` polls the
session, answers every attempt with something and lets every tool return.
`LlmStream!FairSpec` polls the consumer, ends every connection, and lets a holder
of the receiver receive: a task awaited before its channel is read waits for ever
once the channel is full. `CHECK_DEADLOCK FALSE`: a run, a session, a stream and
a dashboard stop when they are done.

## Proofs

The theorems hold for every value of the constants: every set of well-formed
pipelines, every step budget, failure limit, number of runs, clients, tools,
turns, questions, launches and every capacity. `PROJECT.json` lists them with
what each establishes.

| module | theorems | inductive invariant |
|---|---|---|
| `EngineProofs` | `TypeCorrect`, `VisitsMatch`, `GoalsHold`, `NoFailureSilenced`, `LateStartsBounded`, `ImplementsRunSafely`, `RetriesUsedUp`, `AnnouncementsTrue`, `StreamWellFormed`, `CyclesCaught`, `LintTrue`, `RoutesOneWay`, `RunsDescend` | `IInv`; `RetryInv`; `Truthful`; `Protocol`; `CycleInv`; `Bounded` |
| `DurableProofs` | `DurableTypeCorrect`, `DiskBelongsToRun`, `AnnouncedStaysOnDisk`, `LosesOneNode`, `EveryDocumentPrepared`, `EngineHasWhatIsAsked`, `RunsDoAsAsked`, `LaunchesDescend` | `TypesInv`; `RunInv`; `AnnounceInv`; `LossInv`; `AskedInv`; `LaunchBounded` |
| `WebProofs` | `WebTypeCorrect`, `StatusFollowsStream`, `ResumesFinal`, `EndedStays`, `ReadersLoseOnlyOverwritten`, `RunsWindDown` | `TaskInv`; `ReadersRight` |
| `GateProofs` | `GateTypeCorrect`, `OneAnswerCounts`, `UnansweredIsPending`, `AnswersHold` | `GateInv`; `QuestionPending` |
| `TuiProofs` | `TuiTypeCorrect`, `AnswersReachTheirQuestion`, `WaitingGateIsServed`, `DashboardDescends` | `TuiInv`; `Tracked` |
| `SessionProofs` | `SessionTypeCorrect`, `RequestsAnswered`, `ToolsBounded`, `CancellationStops`, `LoopsAreWarned`, `InputsDescend`, `InputIsServed` | `SessionInv`; `AllAnswered`; `WindowInv`; `CallMatches` |
| `LlmStreamProofs` | `StreamKeepsPieces`, `StreamTyped`, `PartialObjectsGrow`, `StreamsDescend`, `StreamIsServed` | `StreamInv`; `PartialInv`; `BreakTold` |
| `Induction` | `NoEndlessDescent` | |

`EngineProofs`. The type invariant alone is not inductive: the completion event
reads `outcomes[visited[Len(visited)]]`, so typing needs `VisitedMatchesOutcomes`
and the fact that the current node's outcome is recorded once the handler phase
is over (`CurrentRecorded`). `GoalsHold` speaks of the event stream; it needs
`OutcomesReported`, that each recorded outcome is the one in the node's last
report, which holds because reports and outcomes are written by the same action
and by no other (`QuietStep`, `ReportingStep`). `EndsRight` carries what is known
at the end of the loop to the result. `RetriesUsedUp` adds `AttemptsLeft`: while a
handler runs, either no attempt was counted or one is left. `AnnouncementsTrue`
needs only that nothing terminal is in the stream before the end.

The same module, of the event stream. `Protocol` splits the event protocol into parts that are
inductive together: the stream opens once (`Opened`), nothing follows a terminal
event (`Closed`), starts are counted by the steps (`Counted`), and every start but
the one under way has its report before the next start (`Answered`). `CycleInv`
ties the counters of `failure_signatures` to the stream: a counter equals the
number of failures with that node and error the stream shows (`SignaturesTrue`),
and none has reached the limit while the loop goes on (`CutAtLimit`).

`LintTrue` rests on `PickBestExists`: the edge selection of a pool that is not empty
picks an edge of it. The order of edges compares weights, then names of targets,
then positions in the document, so two edges are never equal in it, and a finite
pool has a first one. That is what `IsGraph` assumes beyond shapes: a resolved graph
has finitely many edges, each at a position of its own, and names are compared
by their spelling, which differs.

`Induction`. The theorems of the library that take a predicate as a parameter cannot
be instantiated, so induction is stated over the set of counterexamples: a nonempty
set of natural numbers has a least member, a nonempty set of finite sets a minimal
one, and both follow from the library's theorems about well-founded orders.
`RecursionHolds` turns the definition of a recursive function into its equation;
`FlattenBasics`, `FlattenConcat` and `FlattenSplit` are what `FlattenSeq` computes.

`DurableProofs`. After a resume from an edited graph `IInv` does not hold, so
these proofs have invariants of their own over any names: `TypesInv`, that names
come from some graph; `RunInv`, that the visit order on disk is a prefix of the
run's with an outcome for each (`DiskSound`) and that a node is recorded before it
is saved; `AnnounceInv`, that the newest announcement is on disk until the next
report; `LossInv`, that outcomes in memory and on disk agree but for the node
reported last (`FreshAgrees`), while saves succeed.

The same module, of `Preparation`. `EveryDocumentPrepared` says of every document
that resolves, every stylesheet and all variables that each settled attribute has
exactly the value asked for, for every key but `shape` and `label`, which resolving
consumes. Filling a map leaves what the last pair says (`CollectedSays`, by
induction along the pairs); flattening rules that are in order leaves what the last
rule that speaks says (`FlattenSays`); rules can be sorted (`SortedExists`, by
taking a smallest set that cannot), and the last speaking one of the sorted rules
is the one that decides (`AppliedSays`). `EngineHasWhatIsAsked` goes on to what the
engine reads: the goals in document order (`GoalsFound`, sorted by places that
differ, `PlacesDiffer`) and the attempts. `RunsDoAsAsked` puts this together with
the loop: `AskedInv` says that every recorded outcome is the node's latest report or
came from the checkpoint (`OutcomesKnown`, `FromDisk`), that a completed run has met
its graph's goals (`CompletedMet`), and carries `RetryInv` of `EngineProofs` across
launches (`LaunchRetries`).

`LlmStreamProofs`. `StreamInv` places the whole pipeline at one event of the script:
the bytes still to come and the parser's buffer are the rest of that event's bytes
(`ParserAt`; `LineParsed`, `ChunkParsed` and `EndParsed` carry it over a line, a
chunk cut anywhere and the end of the connection), the translator and the accumulator
have taken the events before it (`Reached`), and the items in the queue make up
the difference (`Owes`, `Handed`). What is gathered at any place of a script is a
prefix of what its provider sends, block by block (`InPlace`), and the partial
objects passed on are prefixes of it in growing order (`Growing`). `AnthropicTurn`,
`OpenAiTurn` and `GeminiTurn` are the three translators, one event each.

`WebProofs`. `TaskInv` says where a run's record, budget and stream must be for
each place of its task (`RecordFollowsTask`, `ResultFollowsStream`, `NodePaid`) and
that parents have ended (`ParentsEnded`). The effect lemmas (`ControlEffect`,
`FileEffect`, `ReaderEffect`, ...) reduce the many actions to the few ways a
variable may change. `GateProofs`: an answer was `Delivered` to the client that
took the question from the queue, and none exists before the question is asked.
`TuiProofs`: at most one prompt, on its way, on display, or answered, exists
(`OnePrompt`), it is the one the bridge relays, and a reply bears the number of
the gate's own question. `SessionProofs`: every response but the last has its
results right behind it (`RoundsAnswered`), the last has those taken so far
(`UnderWay`), and turn numbers do not repeat (`TurnsNumbered`).
`LoopsAreWarned`: the window is always the end of the calls since the last warning
(`WindowInv`, `RecordedAtEnd`), and a pattern that makes up the end of the calls is
counted by the recursion of `TrailingRepetitions` (`RepetitionsFound`, by induction
over the repetitions), so a search over the window finds it (`LoopShows`).

Assumptions: `NameAssumption`, `ContextAssumption`, `EngineAssumption` (the shape
of a resolved graph), `LaunchAssumption`, `WebAssumption`, `GateAssumption`,
`TuiAssumption`, `StreamAssumption`, and those of the session's three modules. TLC evaluates all of
them.

Descent. Liveness needs fairness and `ENABLED`, which the provers do not reach. What
can be proved of it is that nothing goes on for ever and that nobody is left
waiting for a step no one can take.

- Nothing goes on for ever. A rank is a tuple of natural numbers, compared from the left
  (`Lower`): first what is never given back, then what each use of it may renew. For
  the engine it is the steps of the budget, the way to the next node, the attempts
  left and the few things that can happen beside the loop; for a run directory the
  launches come first, for a session the inputs, for a stream and a dashboard each
  place that hands its work on stands before the place that gets it. Every step
  lowers the rank (`RunsDescend`, `LaunchesDescend`, `InputsDescend`,
  `StreamsDescend`, `DashboardDescends`), and by `NoEndlessDescent` no sequence of
  ranks is lowered for ever. So no schedule, no failing node, no retry and no crash
  makes an endless run. The budgets are those of the code (`max_steps`, attempts, turns, retries)
  except for what only the world limits: launches, things said to a session, what a
  provider sends.
  Each rank was checked on the instances of the runs before it was proved. In
  `WebRuns` the readers and agents go on beside the runs, so `RunsWindDown` counts
  the moves of one run.
- Nobody waits in vain. These are the guards of the model, written out as predicates:
  a gate under the dashboard has its question in some place from which it can move
  (`WaitingGateIsServed`, from `Tracked`), a question is pending until it is answered
  and an answer in time is not overtaken (`UnansweredIsPending`, `AnswersHold`),
  a session waits for what is under way (`InputIsServed`), and the reader of a stream
  waits for the network or for room that its receiver can make (`StreamIsServed`).
  They do not say that the waiting ends: that a user answers, a tool returns, a
  provider sends is what fairness assumes.

`RoutesOneWay` says of the engine's routing what the model's `\E` would hide: where it
writes a choice among best edges, unsatisfied goals or retry targets, there is one
to choose, and none only where the code has none.

Model-checked only: liveness as such (`Terminates`, `StallCancels`, `StreamEnds`,
`LogCatchesUp`, `AnswerInTimeIsUsed`, `GateTimesOut`, `QuitEndsRun`, `EndClosesDashboard`,
`InputReturns`, `StreamSettles`, and the fairness half of `ImplementsRun`): that a
system does not stop early under the fairness stated above.

## Not modelled

- `parallel.rs`: `execute_parallel` and `merge_contexts` have no caller; the
  registered handler returns its configuration, and the engine follows one edge
  from it like from any other node. `subagent.rs`, `api/generate.rs` and
  `tools/apply_patch.rs` have no caller in the program either, and no shape yields
  the node type `composition.rs` handles. Modelling them would verify what never
  runs.
- The text of documents, stylesheets and conditions (`dot/`, the parsing half of
  `stylesheet.rs`): functions over characters without state. Their results are
  what `Preparation` and `PipelineGraph` start from.
- Providers' wire formats, model tables, token counts: data no step reads.
- Rendering, wording, HTML pages, the dashboard's drawing, calls to git for
  worktrees, files and processes of the agents' tools: I/O and presentation.
- Log sinks beyond the drain in `WebRuns`, artifacts, statistics: they write what
  they are given.
- Two processes on one run directory: what they do to one file depends on how the
  operating system interleaves their writes.
- A browser that renders the event log and subscribes later: no document promises
  a page without gaps, so there is nothing to hold it to.

## Plan

The order was by how much depends on a part and how hard it is to test: `Engine`
with its abstract run, `DurableRun`, `WebRuns`, `HumanGate`; then `AgentSession`
with `LlmCall`, `LlmStream`, `TuiRun`, `Lint` and `Preparation`; proofs after each
part once TLC agreed. What remains:

1. `WebRuns`'s and `TuiRun`'s outside view of the engine shown to be implemented
   by `Engine`, instead of written beside it.
2. A run page as a client of history and stream, once it is decided what it owes
   its reader.
3. A session inside a node: `AgentSession` as the handler of `Engine`, for what a
   cancelled run leaves of a session.
4. The parallel handler, when something calls it.
