# A formal model of xgen-harness-executor

TLA+ modules that model the engine in `src/xgen_harness/`, the TLC
configurations that check them on small instances, and theorems about them with
proofs for TLAPS. All paths below are relative to `src/xgen_harness/` unless
they name another directory of the repository.

    tlc -workers 2 -config MCPipeline.cfg MCPipeline      # one run
    tlapm Pipeline_proofs.tla                             # the proofs of a module

## 1. The system

xgen-harness runs an LLM agent as a pipeline of stages around one LLM call,
inside one asyncio event loop. Between two `await`s nothing else runs; at an
`await` everything may.

| component | state it keeps | operations | interacts with |
|---|---|---|---|
| event emitter (`events/`) | bounded queue, subscribers, `_closed`, `_last_event`, drop counter | `emit`, `subscribe`, `unsubscribe`, `stream`, `close` | every stage emits; API and DAG orchestrator consume |
| pipeline run (`core/pipeline.py`, `core/state.py`) | `PipelineState`: messages, pending calls, results, decision, counters, scores | phases ingress / loop / egress, four policy hooks, retry and one-shot handling, error handlers | all stages share the one `PipelineState` |
| main LLM call (`core/llm_call.py`) | messages, token usage, cost | provider and key, call, retry, truncation | provider |
| providers (`providers/`) | table of classes; buffers of one stream | register, create, `chat` | LLM servers; main call, judge |
| policy gate (`stages/s05_policy`, `stages/strategies/guard*.py`) | discovered guards, chain; `policy_block_reason` | `pre_main`, `post_response`, `pre_tool`, `loop_boundary` | removes calls before s07, stops the loop, asks a human |
| human approval (`core/state.py`, `HITLGuard`) | table of futures | `request_approval`, `resolve_approval`, time limit | emitter announces it; a user answers from another task |
| context stage (`stages/s06_context`) | messages, `pd_stores` | cascade L3 / L4 / L5 | auxiliary LLM call |
| tool index (`stages/s04_tool`, `stages/strategies/discovery.py`) | definitions and schemas offered, deferred names | materialise, discover, list sources, ToolSearch | sources, capabilities, resources; s07 dispatches |
| capabilities (`capabilities/`) | specifications by name, label and alias | register, match, bind, resolve arguments | s04 binds them, s07 resolves with them |
| resource registry (`adapters/`) | tools, bodies and collections of MCP sessions, nodes and packages | load, publish | capabilities, sources |
| tool execution (`stages/s07_act`) | tool history, results, failure streak, result budget | sequential, parallel_read, strict_no_error | tool sources |
| built-in tools (`tools/`) | stored bodies, working memory | search, fetch, synthesise, keep, check, recall, compact | calls of one turn overlap |
| compiled tools (`tools/frozen_source.py`) | depth of nesting; outputs of canvas nodes | HTTP, rag and MCP with fallbacks, nested pipeline, canvas | each other, nested without a bound of their own |
| decide stage (`stages/s08_decide`) | score, decision | judge, `ThresholdDecide` | drives the loop |
| other stages (s01–s03, s09) | prompt, memories, final output | prepare, finalise | sessions, memory |
| DAG orchestrator (`orchestrator/`) | node results, one emitter per node | read a workflow, levels, parallel nodes, event bridge | one pipeline per node |
| sessions (`core/session.py`, `memory/store.py`) | messages and totals of a conversation, in memory, database and files | run, save, load | runs of one session may overlap |
| memory (`memory/`) | facts by scope, progress log, lessons of the loop | recall, write, note | prompt, prior and later runs |
| forge (`forge/`) | candidate configuration, scores, log | reflect, propose, evaluate, promote or roll back | runs of the pipeline |
| API (`api/router.py`) | one emitter per request | SSE, WebSocket, orchestrate | emitter, pipeline, DAG |
| configuration, compile, sandbox, node engine | tables and files | look-ups, conversions, I/O | — |

What is hard here: callbacks that are awaited while other tasks emit and close;
a queue that is full when the end has to be announced; a protocol that wants
one result for every tool call although calls are denied, fail, run together or
wait for a human; two retry limits with unset values; tables of tools and
capabilities that other tasks change while a run reads them; streams whose
pieces arrive cut anywhere; runs of one session that overlap while it is saved,
loaded and the process dies; nesting that is counted across tasks; an optimiser
whose small losses may add up; failures, recoveries and cancellation at each step.

`PROJECT.json` lists every component with its files and status, and every hazard
with its line in the code and the properties that would catch it.

## 2. Modules

| module | what it is |
|---|---|
| `EventLog` | abstract: an append-only log read in order up to its first terminal entry |
| `EventEmitter` | `events/emitter.py`; implements `EventLog` |
| `RunLifecycle` | abstract: setup, a bounded number of turns, wrap-up, one verdict |
| `ToolExchange` | abstract: the tool protocol of the LLM API; the calls of a message are answered together before the next message |
| `Pipeline` | `Pipeline.run` with the loop, the policy hooks, s07, s08, failures and cancellation; implements `RunLifecycle` and `ToolExchange` |
| `ToolTurn` | what `Pipeline` does in the steps `PreTool` and `Act`, in detail: guard after guard, human approval, call after call or together; implements `ToolExchange` |
| `Policy` | what the guards of s05_policy look at: discovery, the chain, each guard's check, the four hooks |
| `Conversation` | the messages of a session: history, compaction, truncation, retries, replies, output |
| `Sessions` | sessions over several runs: stores, crashes, memories, progress, prompt, lessons |
| `NativeCalls` | the parser of tool calls a model writes into its text, chunk by chunk and at once |
| `LLMCall` | provider registry, keys, retries, the streams of three providers, the judge; uses `NativeCalls` |
| `Capabilities`, `Resources`, `Catalog` | each extends the one before: the capability registry; the resource registry that fills it; the tools a run offers and who runs them |
| `Toolbox` | what the built-in tools keep between calls: stored bodies and the working memory |
| `Frozen` | compiled tools, nested pipelines, canvases; a canvas implements `TaskGraph` |
| `Forge` | the self-tuning loop with its algebra of moves and both runners |
| `TaskGraph` | abstract: tasks that run at most once, after all they wait for; over when all have run |
| `DAGRun` | `orchestrator/dag.py`: the sort into levels, the nodes of a level together, the bridges for their events; who reads them; implements `TaskGraph` |
| `MultiAgent` | the graphs `DAGRun` is given: read from a drawn workflow, or fanned out by the planner |
| `Orchestration` | `DAGRun` on the graphs of `MultiAgent`: what was drawn or configured against what runs |
| `MC<module>` | the instances TLC runs `<module>` with (`EventEmitter` and `Toolbox` need a `.cfg` only) |
| `EventEmitter_LLMCall_proofs`, `Pipeline_proofs`, `ToolTurn_proofs`, `Conversation_proofs`, `DAGRun_proofs`, `Toolbox_Forge_proofs`, `Sessions_Catalog_proofs`, `Policy_Frozen_proofs` | theorems |

Where a module of proofs is about two components, these share no state; their specifications have names of
their own (`Spec` and `FrozenSpec`, say) and the proofs share lemmas.

The definitions marked *Mutant* are variants of the definition they precede, with a
plausible bug; no specification uses them. Each property of each run is
violated when one of them takes the place of its original, which shows that the
property can fail.

### EventEmitter

An action is one stretch of code between two awaits. `emit` is `EmitDropped`
(full queue), or `EmitAccepted` followed by one `Deliver` for each callback of
its snapshot; a no-op on a closed emitter has no action. `stream` is
`StreamNext`; its 60 s time-out only loops. `Close` has the three outcomes of the
code, and the owner of an emitter calls it once (`CloseOnce`). A task emits the
next event only when its previous `emit` has returned. `accepted` and `delivered`
are history variables.

### Pipeline

`pc` is the place in `Pipeline.run`; each action is one stage or hook of it. What the outside
decides is free: which tools the LLM asks for, whether it writes a text, how the
judge scores, which guard blocks, which call fails, which stage raises and
whether its `on_error` recovers, when the run is cancelled, when the budget is
exceeded. What the code decides is not: `Verdict` is `ThresholdDecide.decide`
behind the strict check of `DecideStage`; `Boundary` is the `loop_boundary` hook, `record_iteration`, and the one-shot
and retry handling, which no await separates. Places in the code where a `TypeError` ends the
run are actions or values too (`RetryUnset`; a judge score without a threshold
gives the decision "error"). Data are abstracted to what the code tests: a text
is empty, short or long (the 200 characters of `ThresholdDecide`), a score is
low or high, a call is a tool and the turn that asked for it. s01 to s04 are the
one step `Ingress`.

### ToolTurn

`CheckGuard` is one guard on one call in `GuardChain.invoke_async`; `RequestApproval`,
`Resolve`, `Wake` and `TimeOut` are the human approval, in which anyone who heard
the announcement may answer at any moment, and the announcement may be dropped
by a full emitter queue; `GateEnd` is the end of `_check_pre_tool`; `StartCall`,
`Succeed`, `Fail` and `ActEnd` are `s07_act`. `pending` is a function from
positions in the assistant's message to calls, so that the calls that are left
keep their positions when others are denied; `todo` and `active` are sets of
positions, and `Precedes` is the order in which s07_act starts them. Approved
arguments replace those of the call. On Python 3.12 and later `wait_for` may expire although the future
has its answer; `TimeOut` allows it.

### Conversation

A behaviour is a session that is asked question after question. `Begin` is
`HarnessSession.run` up to the loop: the copied history, s01 and s02 (which
injects the history a second time when it is active). `Context` is s06, which
acts in the first turn only; the pressure that selects a strategy is free. `CallAgain`,
`ReplyText` and `ReplyCalls` are the attempts of the main call, each of which truncates
what the one before has left. `Results` is `flush_tool_results`; `Finish` is
s09 with its fallback and the two entries that the session records, `Fail` and
`Cancel` the other ends. A message is known by its kind, run and turn; a text is
long or not, and both limits count long texts. Which calls and results a message
holds is the matter of `ToolTurn`. `made` and `truncated` are history variables.

### Policy

`Iterate`, `MainCall`, `PreTool`, `Act`, `Decide` and `Boundary` are one turn of the loop as
far as guards see it; `HookAt` runs the chain at one of the four hooks. `Discoveries` and
`Register` say which class a name stands for; which discovery is first depends on the run,
so both are possible. A guard that cannot be built stands in the chain as "unbuilt" and lets everything pass, as one
that raises does; the first that blocks decides (`Deciding`). At the gate a guard looks at the call as it is when its turn
comes (`Seen`): those behind a human see the input the human gave. A text is the set of the classes of content it holds, standing for regular expressions
and PII patterns; the input of a call is a tree of dictionaries, lists and leaves, so that
`Resolve` follows paths with keys, indices and stars as `_resolve_path` does. The retry limit of the loop is
kept, the reason of a retry is free.

### Sessions

A session object, the manager's table, database and files are separate; a run holds on to the object it
started with (`RunStart`, `RunEnd`), while `LoadFromDb` and `LoadFile` put another one in its place.
`SaveBegin`, `SaveWrite`, `SaveReplace` are the three moments of `FileSessionStore.save`, `SaveFails` its
`except`, and `Crash` may come at any of them. `FileOf` is the file name that is left of an id, `None` for an id
that is refused. `Input`, `History` and `Prompt` are what s01, s02 and s03 give a run of its past, whose
relevance to the question is chosen freely; `Iterate` is one iteration with the lessons it reads and leaves.

### LLMCall and NativeCalls

A server's text is a sequence of `Symbols`, two of them for each tag, its halves, so that a tag may be cut and a
half may stand alone; `Content` brings the next piece, cut anywhere, and `Chunk` is what the parser does with it. A call of the server comes in
`su.calls[i]` pieces; each brings arguments, the first one only where `su.early` says so. `Content`, `Delta`, `BlockStart`, `ChunkOfCall`,
`Finish` are the events of a stream by provider; `Cut` is a connection that breaks, `StreamEnds` a stream
that ends without saying why. `Register`, `ListProviders`, `Ensure` and `Key` are the registry and the
search for a class and a key; the `Judge...` actions are the ways an answer is evaluated, `Decide` what follows. `called` is the set of the tool calls of all answers.
The specification is `CallSpec`.

### Capabilities, Resources, Catalog

Every method of the capability registry is one action, as it holds the lock. The loaders of `Resources` run
before the stage; `Enter` to `Index` are s04_tool with an `await` at each `ListSource`, at which `Others`
(other tasks) register, replace and remove sources and capabilities; `ToolSearch` and `Call` follow, with `Runner`
for `_dispatch_tool` and `Resolved` for the parameter resolver. `origin` says where a definition came from: the
resources, a capability, a source or the built-ins; it stays with the first of them. Resources, capabilities and sources may bear the names of built-ins
(`Tools` and `Builtins` overlap): `Index` adds the strategy's tools (`StrategyTools`) without looking at the names, as
`strategies/discovery.py` does, and every other one only under a free name. The specification is `CatalogSpec`. A value has a type and something it
stands for; `Numerals` are the strings that read as numbers.

### Toolbox

`slots` are the read-only calls that run at the same time, each with a start and an end; keep, check, recall and
compact are one action each. A body is its text, which is large or not; ids of bodies are tuples of
their parts, which the code joins into strings.

### Frozen

`frames` is the tree of calls, each with its parent and the task it runs in; `depth` is the context variable as each task sees it.
A call starts by its `Kind`; `Attempt` is one way to its server with its outcome; `Enter` and `Leave` are
the two ends of the guarded section; `Timeout` cancels a call with all below it. `Gather` are the parallel
calls of a nested pipeline, in tasks of their own, `OneTool` those in sequence. `BeginNode` to `NextSweep` are
the sweeps of a canvas; a value is the set of nodes it comes from. The specification is `FrozenSpec`.

### Forge

`Baseline`, `Reflect`, `Try`, `NoProgress`, `StepsOut` and `Audit` are `SelfForge.run`. A configuration is the record of its
knobs, a move a tuple; `Apply` is `EngineAlgebra.apply`, `LegalMoves` its `legal_moves`; `Proposals` are the moves a reflection may come up with.
The specification is `ForgeSpec`. With the runner "engine" the
endings of runs are chosen freely, with "synthetic" they are computed as `runner.py` does. Scores and thresholds are hundredths.

### DAGRun

`SortLevel` and `SortEnd` are `_topological_levels`; nothing is awaited there, but one level
is one step, so that TLC and the proofs can follow it. `StartLevel`, `LevelFails`, `Collect`
and `Finish` are the parts of `run` between two awaits. `NodeStart` to `DrainTimeOut` are
`_run_node`: a node emits on a queue of its own, which may be full when its DoneEvent
comes, so that its bridge would wait for ever but for `DrainTimeOut`. What a node's
pipeline does is the matter of `Pipeline`; here it emits, ends with a text or without, or
cannot be built. Graphs are any that `add_node` and `add_edge` allow: edges given twice, cycles,
edges from or to ids that are no nodes. `host` is who runs the orchestrator: the API, on
an emitter of its own, or the planner stage, on the emitter of the pipeline it belongs to,
which goes on and ends afterwards (`HostEnds`). `log` has the events the emitter of the whole
accepted, `read` how many its stream has yielded; `EventEmitter` has the details of both.
Workflows reach it through `MultiAgent`: `Downstream` follows the edges of a drawing across nodes that are no
agents, `BuildDag` is `MultiAgentExecutor`'s reading, `Signals` and `FanOut` are the planner's. `Orchestration` puts the two together.
It does not ask `Downstream` which agents are connected: `Linked` says, without counting rounds, that an agent is behind another in
every set of nodes that is closed under the edges. `FollowsSource` compares what runs with that.

## 3. Runs

No two runs ask the same question; each property has a mutant of the code that violates it under the same
bounds. Divergences between the code and what its documentation says are listed in section 5.

| run | what it shows | states |
|---|---|---|
| `event_emitter` | whatever subscribes, leaves and closes, callbacks hear accepted events once (`DeliveredOnlyAccepted`); a queued DoneEvent ends the stream; implements `EventLog` | 106 k |
| `pipeline` | five configurations: retries are bounded (`RetryBound`), every run ends, with one verdict and success only after the wrap-up (`ImplementsLifecycle`); calls are answered before the LLM is asked again (`ImplementsExchange`) | 494 k |
| `tool_turn` | five setups of guards and strategies: approved calls run as approved, what ran had passed its guards with what they saw (`GuardsHold`), failures in a row are told (`StreakTold`), every turn ends; implements `ToolExchange` | 788 k |
| `policy` | every order of budget guards, content guards that plug-ins replace or that cannot be read, rules over nested inputs with edits by a human: no call past a used-up budget (`InBudget`), banned content ends the run (`ContentStops`), required calls ran before (`PriorFirst`) | 54 k |
| `conversation` | six setups of history, strategy, limit and retries: the newest message and the first one reach the LLM (`EndsKept`), only truncation parts calls and results, the session only grows | 116 k |
| `sessions` | overlapping runs with saves, loads and crashes: turns are whole and totals agree (`TurnsWhole`), files hold what the last finished save wrote (`Durable`); a run recalls facts of its own user (`RecallOwn`) and sees its newest lessons (`LessonsLatest`) | 987 k |
| `llm_call` | eight texts cut in every way, three providers with interleaved calls, with and without arguments in their first pieces, and every fault, judged runs, registries filled in every order: no text is lost or doubled (`NothingLost`), a stream yields what the whole text would (`StreamAsBatch`), a call whose chunks are put together is yielded once, with its own arguments and no others (`CallsWhole`), and what was shown is what is answered | 191 k |
| `catalog` | thirteen configurations over four sets of resources, five with names of built-ins among the tools, while other tasks change sources and capabilities: what is offered somebody runs (`OfferedRuns`), a name is defined once, up to the three exceptions of `OneDefinition`, arguments arrive (`CallsResolved`) | 390 k |
| `toolbox` | two overlapping calls, a memory of one item for two ids: what is kept can be read (`RecallWhole`), what is evicted is never more important than what stays (`KeepsImportant`) | 99 k |
| `frozen` | every leaf under every outcome, pipelines and canvases nested to the limit and past it, parallel tools and time-outs: nesting is counted exactly (`DepthIsNesting`), each way to a server is tried until one answers (`WaysExhausted`), canvases run their graph (`ImplementsTaskGraph`) | 207 k |
| `forge` | three steps with arbitrary scores of an engine, and with the synthetic runner: held-out quality never falls (`HeldoutNeverFalls`), and the log replays to the configuration that is returned (`LogReplays`) | 240 k |
| `dag` | workflows with cycles, shortcuts and shared nodes, and fan-outs: an agent waits for those with a way to it and is given their outputs only, every collection is searched (`FollowsSource`), events stay between enter and exit of their level, the API's stream ends with the run; implements `TaskGraph` | 484 k |

### Bounds, and why they suffice

* `EventEmitter`: a queue of 2 with 3 events is full, emptied and refilled; two
  tasks overlap inside `emit`; two subscribers come and go between callbacks.
* `Pipeline`: two tools, so that part of a batch is denied or fails; three turns
  (four where the decide stage's own limit counts), so that a retry follows a
  retry and meets each limit. Turns are bounded by the configuration itself, not
  by a bound of the model.
* `ToolTurn`: two turns (a guard sees an earlier turn), two calls in a message
  (identical ones, one denied and one not, two together), one size that fits the budget
  once and not twice (`Sizes`, 2 of 3). `Mark` is the length of the note on a cut result.
* `Policy`: three turns, two calls in a message, rules that ask for one and two calls before; charges that
  meet each limit exactly (95 of 100 tokens), pass it and take something back.
* `Conversation`: two runs, so that there is a history, which is injected twice where s02 is
  active (five messages: each strategy has something to fold); two turns, so that
  calls and results are truncated; a limit of zero or one long text, or one never reached.
* `Sessions`: two runs and two objects of one session (an old one that still runs beside a loaded one), an id
  that is refused, two users, two writes of facts (one before and one after a search), five iterations for a
  buffer of two lessons; saves, failures and crashes are not bounded. Each setup enlarges one of these, as the parts share no state.
* `LLMCall`: texts of up to ten symbols with two calls, tags cut, doubled and left open; two server calls of three and two
  pieces, over LangChain one in a single chunk and one in three; a retry after each fault; four turns, one more than the judge's retries allow.
* `Catalog`: two tools from up to three origins, four more that are called like `discover_tools`, `ToolSearch`, `fetch_pd` and
  `rag_search` (a name of the strategy, one of those always offered, one with a dispatch of its own), one change by other tasks at
  any moment, two calls of ToolSearch or of a tool after it; a tool in two sessions, with and without the service; a parameter with an enumeration and a required number.
* `Toolbox`: `RecallCap` 1, so that each new item evicts; two slots, four calls, one turn's change; a large text, which
  compaction replaces.
* `Frozen`: `MaxDepth` is the code's 4; `MaxFrames` 14 is more calls than a nest of two parallel tools needs to pass it.
* `Forge`: `MaxSteps` 3, so that a promotion follows a roll-back and another promotion; an epsilon of 20 between scores that differ by
  less and by more.
* `DAGRun`: a chain with a shortcut and an edge given twice, a join, a cycle, a cycle next to
  an edge out of the graph (as many ids are sorted as there are nodes, so that it is not
  noticed), fan-outs of two, no node. A node's queue of 1 is full with its only event; the queue of
  2 of the whole drops events of `run` and of nodes, and can just hold the last two.

`CHECK_DEADLOCK FALSE` is used where the system stops: a run is over, a turn bound is
reached, an emitter is closed and drained.

### Fairness

Stated where liveness is checked, and nowhere else:

* `EventEmitter`: the event loop resumes a consumer whose queue has an event and
  a task that awaits a callback; the owner reaches `close()`, which stands in a
  `finally`. No task has to emit.
* `Pipeline`: the run's task keeps being scheduled (`WF(Step)`); providers,
  guards and tools are taken to return or raise, which their time limits see to. Nobody has to cancel.
* `ToolTurn`: the gate and s07_act go on, timers expire, tools end (s07_act
  wraps them in `wait_for`). Nobody has to answer a request for approval, which
  is why `TurnEnds` is only claimed for setups with a time limit.

## 4. Theorems

The proofs hold for every value of the constants that satisfies the named
assumption of the module. Each module of proofs goes from the types to
strengthened invariants; a step of the system is shown to keep each of them,
action by action.

* `EventEmitter_LLMCall_proofs`, for the emitter from `EmitterAssumption` (the queue has room for at
  least one event; the bounds are numbers). `TypeInv` adds to
  the types that a task with callbacks left has an event in hand.
  `StreamInv` adds the two properties of the stream, which are inductive
  together; from it follow `StreamFaithful`, `StreamEndsAtDone`, `NothingAfterClose` and the
  refinement of `EventLog`, where a step that fills or drains the queue is a
  stutter or an append. `CallbackInv` is what `PerTaskOrder` and
  `DeliveredOnlyAccepted` need: an event that a task still delivers has been
  accepted and is the task's newest (`CurrentInv`), and every callback still
  waiting for it has heard only earlier events of that task (`HeardInv`).
  For the LLM call, from `LLMCallAssumption` and `SymbolsAssumption` (setups are well typed, a call has
  a first piece, the halves of tags are symbols): the text of joined lists of events is the joined text
  (`TextsJoin`), and whatever a chunk holds, what the parser has yielded, written out, followed by what it
  holds back grows by this chunk (`Reads`, `ChunkReads`). `ShownIsAnswered` needs that what was shown is the
  text yielded so far (`ShownInv`); `NothingLost` is inductive with the types. `CallsWhole`
  claims, of OpenAI's and Anthropic's streams, all arguments but those that open a call, and of LangChain's the calls that come in one chunk;
  it needs to know how far each call is (`CallsInv`): it is listed once when its first piece has come (`Begins`), the pieces kept
  are those that came (`KeptOK`), and it is yielded once or not yet, when the stream ends or at once,
  as the provider does it (`AtEndOK`, `AtOnceOK`).
  `StreamAsBatch` is about two parsers: one reads the text in pieces and holds back the end of a piece that may be
  the first half of a tag, the other reads it at once. `Reading` relates them: the text read so far is in two parts; the parser
  of whole texts finds in the first what was yielded, and begins anew after it, and the second is what the other holds back. Every step of
  the parser keeps such a place (`Agrees`), as a piece cut anywhere either shows the next tag where the whole text has it (`OpeningAgrees`,
  `ClosingAgrees`) or cannot hide one (`FlushAgrees`); at the end no tag is held back, and both parsers pass on the rest as text.
* `Pipeline_proofs`, from `PipelineAssumption` (configurations are well typed and
  "none" is no tool). The inductive invariant `IInv` adds to the types: at
  which places a blocked or strictly failed run can be and that it will not
  continue from there (`StopInv`); that the calls of the current turn are new
  (`FreshInv`); where each call may be at each place of the loop (`CallInv`: the
  executed and the denied are exactly those answered or about to be, and
  everything is answered outside the tool stages); the counters of the retries
  (`RetryInv`); and that a run has no verdict before it is over (`VerdictInv`).
  `AnsweredBeforeNextCall` is not inductive: that the messages are complete at
  the LLM call depends on where the calls were three stages before. From `IInv`
  follow `AnsweredBeforeNextCall`, `DeniedNeverRun`, `RetryBound` and
  `NothingAfterStop`, and that each step of `Pipeline` is a step or a stutter of
  `ToolExchange` and of `RunLifecycle`.
* `ToolTurn_proofs`, from `ToolTurnAssumption` (setups are well typed, bounds and
  sizes are numbers). `WhereInv` says where the control is: an approval belongs to the
  call and the guard the gate is at, and s07_act runs pending calls only.
  `MessageInv` adds that the ids of pending calls carry the turn and the position
  (`NumberInv`), where an unanswered call is at each place (`OpenInv`), and
  that what ran is neither denied nor still to do (`RanInv`); from it follow
  `DeniedNeverRun` and the refinement of `ToolExchange`. `SequentialBudget` needs
  that what was sent is part of what was counted (`BudgetInv`).
  `ApprovedAsRun` needs `ApprovalInv`: a risky call past a human guard has the answer to its
  newest request, and keeps it until it runs (`PassedInv`); a waiting request
  and the history of answers agree (`AnswerInv`); and the gate rests at the
  first guard of the first call (`RestInv`).
  `StreakTold` needs that a tool's counter is the length of the series of failures that goes
  on (`CountInv`, `Failing`). `GuardsHold` is about calls that ran, long after the guards looked at
  them, while a human may have changed the call in between. `GuardInv` bridges this: a call is as the LLM made it
  until a human guard has seen it (`OriginalInv`), and each guard already past let pass the
  call as it was made if no human stands ahead of it, and the call as it is if none stands behind it (`LetInv`).
* `Conversation_proofs`, from `ConversationAssumption` (setups are well typed, there is at
  least one turn). The lemmas say what joining, slicing, folding and truncating
  a sequence of messages keep of its elements and of its ends (`PartOf`,
  `FoldKeeps`, `TruncatedKeeps`, `TruncatedLoses`). `WhereInv` adds to the types
  that a run has messages, its question among them. `EndsInv` says of the messages
  what `EndsKept` says of the truncated messages; `Fetchable` is inductive as it
  stands. `PairsUntruncated` needs `PairInv`: the session records neither calls nor
  results, so that there is no pair to part in the first turn, the only one in
  which s06 acts; and while tools run, their calls are the last message.
* `DAGRun_proofs`, from `DAGAssumption` (names are finitely many, graphs are well typed,
  queues have room). `DegreeInv`: a degree counts the edges from nodes not sorted yet, so a node
  reaches 0 once, when its predecessors are all in earlier levels (`LevelsInv`). `PlaceInv`,
  `BegunInv` and `BusyInv` say which nodes have been started, and that one that has not ended
  is in the newest level and holds `run` back, with its bridge. From these follow
  `InputsWhole` and the refinement of `TaskGraph`, whose end needs that the sorted ids
  are the nodes: `run` only compares their numbers, but it would have raised at an id
  that is no node. `OrderInv` relates the events to the levels
  (`EventsBracketed`); `DoneInv` says that a DoneEvent comes last (`ApiStreamToTheEnd`).
  `FollowsSource` needs `OrchestrationAssumption` besides (workflows and settings are well typed). A round of `Downstream` finds a new
  node or none, and a new one takes an edge that had not been used, so that as many rounds as there are edges find all there is (`FoundClosed`):
  what `Linked` demands is found (`WayFound`), and nothing else (`FoundWay`). Hence an edge of the graph is a way in the drawing and the other way
  round (`WaysAreEdges`), and the invariant of the run says the rest. That the graphs are ones `DAGRun` takes is `GraphsGiven`.
* `Toolbox_Forge_proofs`, for the toolbox from `ToolboxAssumption` (numbers are numbers, the summary is no text of a tool). Ids of the working memory
  are apart from those of searches and graphs (`IdsApart`). `MemoryInv` has the three parts of `RecallWhole`: an id once, the cap, and
  that each item can be read; it is inductive with the types, as `UpdateKeeps` and `AddKeeps` show for an update through another item's id and for an
  eviction. `PrioritiesRise` follows step by step from what an eviction leaves behind.
  For the forge, from `ForgeAssumption` (scores, ranges, steps and tuned values are numbers, there is some patience): `ScoresInv` says that every scalar
  of a configuration stays a number, so that scores can be compared, and that the history rises and ends with the score in place;
  `LogInv` says that replaying the log gives the configuration in place, whatever was rolled back between the promotions.
* `Sessions_Catalog_proofs`, for the sessions from `SessionsAssumption`: ids that are accepted have file names of their own (the code strips
  characters, so that this is for the caller to see to). `FilesDurable` needs `WriteInv`: while a save has not replaced the file,
  the file is that of the last save that ended. `MemoriesApart` follows from the types, as a run keeps its user and its setup
  and each search stays within the scopes it was given. `TurnsWhole` needs that what is about to be written is whole, too
  (`WholeInv`), since the object may go on while its copy is saved; `LessonsLatest` that the lessons a run holds are the last ones of its own retried
  iterations (`LessonInv`).
  For the catalog, from `CatalogAssumption` and `ResourceAssumption` (a source has the tools it lists, `load_all` takes the sessions first): `LoadInv`,
  `CapsInv` and `SourcesInv` say what the loaders, other tasks and the listing leave behind; a name is loaded twice only over the legacy path, where two
  sessions have it. `OneDefinition` needs that what is offered before the strategy is asked has an origin that is not the stage, and keeps it
  (`ShapeInv`, `OnceInv`); `OfferedRuns` that every origin a definition tells, every schema and every entry of the registry
  has somebody behind it, or one that another task has replaced since (`BackedInv`). `CallsResolved` follows from what resolving and coercing do to an argument.
* `Policy_Frozen_proofs`, for the guards from `PolicyAssumption` (setups are lists, limits are numbers). `RunInv` says how many texts
  there are in each phase, that nothing follows a block and when guards have been discovered; the chain stays the same from then on. `InBudget` needs what
  was used at the last check (`BudgetInv`): the first main call finds nothing used, each later one a boundary that let it pass. `ContentStops` needs that only the newest text
  may be banned, while nobody has looked at it or after it has stopped the run, and that what ran came with earlier ones (`ContentInv`).
  `PriorFirst` needs that calls that have passed the gate wait with their requirements met (`GateInv`).
  For the compiled tools, from `FrozenAssumption` (there is a limit, a pipeline has finitely many tools, a canvas a list of nodes): `NestInv` says that calls form a tree (`TreeInv`), that the calls in
  progress in a task are a chain (`ChainInv`) whose first one may have been started from another task (`FirstInv`), and that the counter is the number of ancestors of the
  innermost call (`LevelInv`), whichever order parallel tools end, fail or time out in. `WaysExhausted` follows case by case from how an attempt may end.
  A canvas implements `TaskGraph` for any drawing (`CanvasRefines`). `Ranks` counts the rounds in which the nodes off all cycles are found. A list of nodes run in order,
  each once, never holds more than those (`OrderedAcyclic`), and when no node is left that could run it holds them all (`StuckAcyclic`). The invariant (`CanvasInv`, `Swept`)
  says that the first call keeps such a list and that no node the present sweep has passed could run since it last did one; hence a sweep without progress has missed none (`AllRan`).

Functions that are recursive over what a run has made (`FlattenSeq`, `Replayed`, `Chosen`, `Total`, `Ups`, `Acyclic`) or over what it is given
(`Batch`, `Downstream`, `BuildDag`) appear in these invariants. The library's induction theorems cannot be used; a fact about such a function is proved by contradiction from the
least number that violates it (as in `LeastNumber` and `AllUpTo`).

The following are proved but checked by no run of their own, as a run's
property implies or includes them, or as TLC had nothing more to show: the types of `EventEmitter`, `LLMCall`, `Pipeline`,
`ToolTurn`, `Conversation`, `DAGRun`, `Toolbox`, `Sessions` and `Policy`; `StreamFaithful`, `StreamEndsAtDone`, `NothingAfterClose` and `PerTaskOrder` of
`EventEmitter`; `AnsweredBeforeNextCall`, `DeniedNeverRun` and `NothingAfterStop` of `Pipeline`; `DeniedNeverRun` and
`SequentialBudget` of `ToolTurn`; `Fetchable` of `Conversation`; `InputsWhole` of `DAGRun`.

Only model-checked: liveness (`QueuedDoneEndsStream`, `RunEnds`, `TurnEnds`), which needs fairness and ENABLED. Every other property of a run
is a theorem.

## 5. Where the code and its documentation differ, and what no property claims

The models have the behaviour of the code. Where it differs from what a comment, a document or a name says, no property
claims the documented behaviour:

* Emitter: `close()` on a full queue leaves a stream without an end (`events/emitter.py:114`). A bridge of `DAGRun` gives up after two seconds for
  that reason.
* Pipeline: with `max_retries` unset the first low score ends the run with a `TypeError` (`core/pipeline.py:264`).
* Tool execution: parallel reads may exceed `result_budget` (`stages/s07_act/stage.py:272`); a disabled tool that is called
  by name still runs (line 502).
* Conversation: truncation may part a tool call from its result; with `keep_tail` unset, or 0, a collapse does not shorten
  (`stages/s06_context/cascade.py:155`); the output of a run without a text may be the answer of an earlier run (`stages/s09_finalize/stage.py:142`);
  a session's history is sent twice when s02 is active (`core/session.py:66`).
* Planner: its orchestrator emits a DoneEvent on the emitter of the pipeline around it, which ends the user's stream early
  (`orchestrator/multi_agent_planner.py:106`, against `CHANGELOG.md:1697`).
* Sessions: ids that differ in stripped characters share a file (`memory/store.py:70`); an object replaced by
  `load_from_db` while it runs takes its last turn with it; a restored session has no stage parameters; what `embedding_search`
  adds to the prompt is overwritten by s03.
* Toolbox: ids of an earlier search index lead to the texts of a later one (`tools/rag_tool.py:332`).
* Catalog: `progressive_3level` defines `fetch_pd`, `discover_tools`, `ToolSearch` or `search_tools` a second time where a resource, a capability or a
  source has brought in the name (`stages/strategies/discovery.py:130`), as the legacy path does with a tool two sessions share
  (`adapters/resource_registry.py:435`); a request then names a tool twice. `OneDefinition` excepts exactly these and what one ToolSearch call repeats.
  A `discover_tools`, `search_tools` or `rag_search` of a resource or source is offered and never run: the stage takes the call itself, and answers the
  last with an error where there are no collections (`stages/s07_act/stage.py:470`). No MissingParamEvent arrives, as the resolver calls `emit` without awaiting it (`capabilities/parameter_resolver.py`).
* Forge: the inverse of a move need not restore the configuration (`forge/algebra.py:224`); the loop rolls back by keeping the old one.
* Main call: an OpenAI stream drops the arguments in the first delta of a call (`providers/openai.py:322`), and Anthropic's ignores those a block starts
  with; the LangChain adapter yields every chunk of a call as a call of its own (`providers/langchain_adapter.py:138`), so that a call cut over
  chunks is doubled, with part of its arguments each time; `CallsWhole` excepts the first and claims nothing of the second. A second written call in the chunk that closes
  the first leaks as text; a stream without a reason to finish loses the buffered tail and its calls; in batch mode the calls are lost; an ERROR event of
  the LangChain adapter is ignored. `NothingLost` and `StreamAsBatch` say where this cannot happen. A provider registered before the first
  listing hides the bundled ones.
* Decide stage: with the judge enabled and no threshold every decision is an error; an LLM judge that fails counts as a pass of 0.7;
  the score of an earlier turn stays when a later evaluation is bypassed.
* Policy: a budget guard with parameter 0 and no value in the configuration raises and passes; one invalid expression disables the whole content
  guard; a rule that cannot be read disables the later rules for its tool; a human's edit is not checked again by guards before the human; identical calls of one message
  pass the diversity guard together; a text blocked after the response is still the run's output.
* Frozen: a tool's error inside a canvas is passed on as content; the station's answer is never an error; a spawn that fails
  after serving makes the station run the tool again.

## 6. Not modelled

`PROJECT.json` gives the reason per component. In short:

* I/O and formats: requests to vendors, schemas and messages converted to their formats, HTTP and WebSocket routes other than
  the stream of `/orchestrate`, embedders, the MCP client. What they answer is chosen freely where a model meets them.
* Text: the wording of prompts, artifacts, what the planner's LLM writes, the reflections of the forge. The relevance of a text is chosen freely.
* Data: the table of stage parameters (`core/stage_config.py`), presets, schema, the fields of events.
* `compile/` generates files in one pass; `core/sandbox*.py` relies on the operating system and on Python's grammar;
  `node-engine/` is a second, smaller implementation.
* `CompactTool` of `tools/builtin.py` is registered nowhere; `state.fetched_pending` is never filled, so that
  the part of `core/pipeline.py` that serves it does nothing.

Left for later: the pipeline of the node engine.
