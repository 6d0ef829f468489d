------------------------------- MODULE DAGRun -------------------------------
(***************************************************************************)
(* DAGOrchestrator.run in orchestrator/dag.py: the nodes of a graph are    *)
(* sorted into levels, the nodes of a level run together, each a pipeline  *)
(* with an emitter of its own, whose events a bridge carries over to the   *)
(* emitter of the whole.  A consumer reads that one: the stream of         *)
(* api/router.py, or the stream of the pipeline in whose first stage       *)
(* (orchestrator/multi_agent_planner.py) the orchestrator runs.            *)
(***************************************************************************)
EXTENDS Integers, Sequences, FiniteSets

CONSTANTS
  Names,          \* identifiers of nodes
  Graphs,         \* the graphs a behaviour may have
  Hosts,          \* who calls the orchestrator: "api" or "planner"
  NodeQueue,      \* queue_size of a node's emitter
  OuterQueue,     \* queue_size of the emitter of the whole
  MaxEvents       \* bound: events of each node but for its DoneEvent

\* add_edge does not ask whether an edge is there already, nor whether its ends are nodes.
GraphType == [nodes : SUBSET Names, edges : Seq([source : Names, target : Names])]

ASSUME DAGAssumption ==
  /\ Graphs \subseteq GraphType
  /\ Hosts \subseteq {"api", "planner"}
  /\ NodeQueue \in Nat \ {0} /\ OuterQueue \in Nat \ {0} /\ MaxEvents \in [Names -> Nat]
  /\ IsFiniteSet(Names)

LevelEvents == [kind : {"enter", "exit"}, level : Nat]
NodeEvents  == [kind : {"node"}, node : Names, number : Nat]
OtherEvents == [kind : {"metrics", "host", "done"}]
Events == LevelEvents \cup NodeEvents \cup OtherEvents

VARIABLES
  graph,      \* self._nodes and self._edges
  host,       \* who called run
  pc,         \* place of run: "sort", "next", "gather"; its end: "over", "raised",
              \* "cancelled"; "closed" when the pipeline of the planner has ended, too
  degree,     \* in_degree
  frontier,   \* queue, as a set
  levels,     \* the levels found so far
  level,      \* levels started so far
  node,       \* the state of each node's task
  input,      \* the predecessors whose output is in a node's input
  output,     \* whether a node has an output
  emitted,    \* events emitted by the pipeline of a node
  queue,      \* the queue of a node's emitter; 0 is its DoneEvent
  bridge,     \* _forward_events of a node is alive
  log,        \* events accepted by the emitter of the whole
  read,       \* how many of them its stream has yielded
  ended       \* that stream has ended

sortVars   == <<degree, frontier, levels>>
nodeVars   == <<node, output, emitted, queue, bridge>>
streamVars == <<read, ended>>
vars == <<graph, host, pc, sortVars, level, input, nodeVars, log, streamVars>>

States == {"idle", "ready", "running", "draining", "returned", "raised", "cancelled"}

TypeOK ==
  /\ graph \in Graphs /\ host \in Hosts
  /\ pc \in {"sort", "next", "gather", "over", "raised", "cancelled", "closed"}
  /\ degree \in [Names -> Int]
  /\ frontier \subseteq Names
  /\ levels \in Seq(SUBSET Names)
  /\ level \in 0..Len(levels)
  /\ node \in [Names -> States]
  /\ input \in [Names -> SUBSET Names]
  /\ output \in [Names -> BOOLEAN]
  /\ emitted \in [Names -> Nat]
  /\ queue \in [Names -> Seq(Nat)]
  /\ \A n \in Names : emitted[n] <= MaxEvents[n] /\ Len(queue[n]) <= NodeQueue
  /\ bridge \in [Names -> BOOLEAN]
  /\ log \in Seq(Events)
  /\ read \in 0..Len(log) /\ Len(log) - read <= OuterQueue
  /\ ended \in BOOLEAN

-----------------------------------------------------------------------------
(* _topological_levels: an iteration of its loop for each level *)

Predecessors(n) ==
  {graph.edges[i].source : i \in {i \in DOMAIN graph.edges : graph.edges[i].target = n}}

EdgesFrom(sources, n) ==
  {i \in DOMAIN graph.edges : graph.edges[i].source \in sources /\ graph.edges[i].target = n}

\* The planner builds nodes without edges, and at least one.
Init ==
  /\ graph \in Graphs /\ host \in Hosts
  /\ host = "planner" => graph.nodes # {} /\ graph.edges = <<>>
  /\ pc = "sort"
  /\ degree = [n \in Names |-> Cardinality(EdgesFrom(Names, n))]
  /\ frontier = {n \in graph.nodes : degree[n] = 0}
  /\ levels = <<>> /\ level = 0
  /\ node = [n \in Names |-> "idle"]
  /\ input = [n \in Names |-> {}]
  /\ output = [n \in Names |-> FALSE]
  /\ emitted = [n \in Names |-> 0]
  /\ queue = [n \in Names |-> <<>>]
  /\ bridge = [n \in Names |-> FALSE]
  /\ log = <<>> /\ read = 0 /\ ended = FALSE

\* Mutant: a node is reached with the first of its predecessors.
SortLevelEarly ==
  /\ pc = "sort" /\ frontier # {}
  /\ levels' = Append(levels, frontier)
  /\ degree' = [n \in Names |-> degree[n] - Cardinality(EdgesFrom(frontier, n))]
  /\ frontier' = {n \in Names : degree[n] > 0 /\ degree'[n] < degree[n]}
  /\ UNCHANGED <<graph, host, pc, level, input, nodeVars, log, streamVars>>

SortLevel ==
  /\ pc = "sort" /\ frontier # {}
  /\ levels' = Append(levels, frontier)
  /\ degree' = [n \in Names |-> degree[n] - Cardinality(EdgesFrom(frontier, n))]
  /\ frontier' = {n \in Names : degree[n] > 0 /\ degree'[n] = 0}
  /\ UNCHANGED <<graph, host, pc, level, input, nodeVars, log, streamVars>>

Sorted == UNION {levels[k] : k \in DOMAIN levels}

\* DAGCycleError unless as many nodes were sorted as there are.
SortEnd ==
  /\ pc = "sort" /\ frontier = {}
  /\ pc' = IF Cardinality(Sorted) = Cardinality(graph.nodes) THEN "next" ELSE "raised"
  /\ UNCHANGED <<graph, host, sortVars, level, input, nodeVars, log, streamVars>>

-----------------------------------------------------------------------------
(* run: level after level.  Nothing is awaited in between but gather, as emit does not *)
(* suspend unless there are subscribers.                                               *)

\* EventEmitter.emit and its queue: what is accepted and not yet read.
Accepted(events, event) ==
  IF Len(events) - read < OuterQueue THEN Append(events, event) ELSE events

Enter == [kind |-> "enter", level |-> level + 1]
Exit  == [kind |-> "exit", level |-> level]
Metrics == [kind |-> "metrics"]
Done  == [kind |-> "done"]

StartLevel ==
  /\ pc = "next" /\ level < Len(levels) /\ levels[level + 1] \subseteq graph.nodes
  /\ level' = level + 1
  /\ node' = [n \in Names |-> IF n \in levels[level + 1] THEN "ready" ELSE node[n]]
  /\ input' = [n \in Names |->
       IF n \in levels[level + 1] THEN {p \in Predecessors(n) : output[p]} ELSE input[n]]
  /\ log' = Accepted(log, Enter)
  /\ pc' = "gather"
  /\ UNCHANGED <<graph, host, sortVars, output, emitted, queue, bridge, streamVars>>

\* A node that was never added, or an input_transformer that raises.
LevelFails ==
  /\ pc = "next" /\ level < Len(levels)
  /\ \E n \in levels[level + 1] : n \notin graph.nodes \/ Predecessors(n) # {}
  /\ log' = Accepted(log, Enter)
  /\ pc' = "raised"
  /\ UNCHANGED <<graph, host, sortVars, level, input, nodeVars, streamVars>>

Collect ==
  /\ pc = "gather"
  /\ \A n \in levels[level] : node[n] \in {"returned", "raised"}
  /\ log' = Accepted(log, Exit)
  /\ pc' = "next"
  /\ UNCHANGED <<graph, host, sortVars, level, input, nodeVars, streamVars>>

Finish ==
  /\ pc = "next" /\ level = Len(levels)
  /\ log' = Accepted(Accepted(log, Metrics), Done)
  /\ pc' = "over"
  /\ UNCHANGED <<graph, host, sortVars, level, input, nodeVars, streamVars>>

\* The planner's pipeline goes on with its other stages, on the same emitter, and ends.
HostEnds ==
  /\ pc = "over" /\ host = "planner"
  /\ log' = Accepted(Accepted(log, [kind |-> "host"]), Done)
  /\ pc' = "closed"
  /\ UNCHANGED <<graph, host, sortVars, level, input, nodeVars, streamVars>>

Main == SortLevel \/ SortEnd \/ StartLevel \/ LevelFails \/ Collect \/ Finish \/ HostEnds

-----------------------------------------------------------------------------
(* _run_node *)

\* Before the pipeline exists, an exception ends the node; Pipeline.run has none.
NodeStart(n) ==
  /\ node[n] = "ready"
  /\ \/ node' = [node EXCEPT ![n] = "running"] /\ bridge' = [bridge EXCEPT ![n] = TRUE]
     \/ node' = [node EXCEPT ![n] = "raised"] /\ UNCHANGED bridge
  /\ UNCHANGED <<graph, host, pc, sortVars, level, input, output, emitted, queue, log, streamVars>>

Put(events, event) == IF Len(events) < NodeQueue THEN Append(events, event) ELSE events

NodeEmit(n) ==
  /\ node[n] = "running" /\ emitted[n] < MaxEvents[n]
  /\ emitted' = [emitted EXCEPT ![n] = @ + 1]
  /\ queue' = [queue EXCEPT ![n] = Put(@, emitted[n] + 1)]
  /\ UNCHANGED <<graph, host, pc, sortVars, level, input, node, output, bridge, log, streamVars>>

\* The pipeline ends with a DoneEvent; if that finds the queue full, close() does, too.
NodeEnd(n) ==
  /\ node[n] = "running"
  /\ node' = [node EXCEPT ![n] = "draining"]
  /\ \E text \in BOOLEAN : output' = [output EXCEPT ![n] = text]
  /\ queue' = [queue EXCEPT ![n] = Put(@, 0)]
  /\ UNCHANGED <<graph, host, pc, sortVars, level, input, emitted, bridge, log, streamVars>>

\* Mutant: the DoneEvent of a node is carried over as well.
ForwardAll(n) ==
  /\ bridge[n] /\ queue[n] # <<>>
  /\ queue' = [queue EXCEPT ![n] = Tail(@)]
  /\ IF Head(queue[n]) = 0
       THEN bridge' = [bridge EXCEPT ![n] = FALSE] /\ log' = Accepted(log, Done)
       ELSE /\ log' = Accepted(log, [kind |-> "node", node |-> n, number |-> Head(queue[n])])
            /\ UNCHANGED bridge
  /\ UNCHANGED <<graph, host, pc, sortVars, level, input, node, output, emitted, streamVars>>

\* _forward_events takes an event; the DoneEvent of the node goes no further.
Forward(n) ==
  /\ bridge[n] /\ queue[n] # <<>>
  /\ queue' = [queue EXCEPT ![n] = Tail(@)]
  /\ IF Head(queue[n]) = 0
       THEN bridge' = [bridge EXCEPT ![n] = FALSE] /\ UNCHANGED log
       ELSE /\ log' = Accepted(log, [kind |-> "node", node |-> n, number |-> Head(queue[n])])
            /\ UNCHANGED bridge
  /\ UNCHANGED <<graph, host, pc, sortVars, level, input, node, output, emitted, streamVars>>

NodeReturn(n) ==
  /\ node[n] = "draining" /\ ~bridge[n]
  /\ node' = [node EXCEPT ![n] = "returned"]
  /\ UNCHANGED <<graph, host, pc, sortVars, level, input, output, emitted, queue, bridge, log,
                 streamVars>>

\* Mutant: the bridge is left alone.
DrainTimeOutLeaving(n) ==
  /\ node[n] = "draining" /\ bridge[n]
  /\ node' = [node EXCEPT ![n] = "returned"]
  /\ UNCHANGED <<graph, host, pc, sortVars, level, input, output, emitted, queue, bridge, log,
                 streamVars>>

\* The bridge is given two seconds, and is cancelled by wait_for then.
DrainTimeOut(n) ==
  /\ node[n] = "draining" /\ bridge[n]
  /\ node' = [node EXCEPT ![n] = "returned"]
  /\ bridge' = [bridge EXCEPT ![n] = FALSE]
  /\ UNCHANGED <<graph, host, pc, sortVars, level, input, output, emitted, queue, log, streamVars>>

Node(n) == NodeStart(n) \/ NodeEnd(n) \/ NodeReturn(n) \/ DrainTimeOut(n)

\* Whoever awaits run is cancelled, and so are the nodes: a pipeline leaves its bridge
\* behind with a last DoneEvent, a wait for a bridge takes it along.
Cancel ==
  /\ pc = "gather"
  /\ pc' = "cancelled"
  /\ node' = [n \in Names |->
       IF node[n] \in {"ready", "running", "draining"} THEN "cancelled" ELSE node[n]]
  /\ queue' = [n \in Names |-> IF node[n] = "running" THEN Put(queue[n], 0) ELSE queue[n]]
  /\ bridge' = [n \in Names |-> bridge[n] /\ node[n] # "draining"]
  /\ UNCHANGED <<graph, host, sortVars, level, input, output, emitted, log, streamVars>>

-----------------------------------------------------------------------------
(* The consumer of the emitter of the whole: EventEmitter.stream *)

StreamNext ==
  /\ ~ended /\ read < Len(log)
  /\ read' = read + 1
  /\ ended' = (log[read + 1].kind = "done")
  /\ UNCHANGED <<graph, host, pc, sortVars, level, input, nodeVars, log>>

Next ==
  \/ Main \/ Cancel \/ StreamNext
  \/ \E n \in Names : Node(n) \/ NodeEmit(n) \/ Forward(n)

Spec == Init /\ [][Next]_vars

-----------------------------------------------------------------------------
(* Properties *)

\* A node gets the outputs of all its predecessors, as they are in the end, although
\* the nodes of a level run together (run, lines 158-176).
InputsWhole ==
  \A n \in Names : node[n] # "idle" => input[n] = {p \in Predecessors(n) : output[p]}

\* Events of a node lie between the events that enter and exit its level, whatever is
\* dropped and however late the bridge is: none comes after the exit or before the enter.
EventsBracketed ==
  \A i, j \in DOMAIN log :
    /\ i < j /\ log[i].kind = "exit" /\ log[j].kind = "node" =>
         \A k \in 1..log[i].level : log[j].node \notin levels[k]
    /\ i < j /\ log[i].kind = "node" /\ log[j].kind = "enter" =>
         \A k \in log[j].level..Len(levels) : log[i].node \notin levels[k]

\* CHANGELOG.md:1697 says that there is one DoneEvent, at the end, so that the outer stream
\* ends cleanly: nothing is emitted for a stream that has ended.
StreamToTheEnd == ended => read = Len(log) /\ pc \in {"over", "closed"}

\* It is so for the stream of api/router.py, whose emitter is the orchestrator's alone
\* (line 263): the bridges of all nodes are gone when run emits its DoneEvent.
ApiStreamToTheEnd == host = "api" => StreamToTheEnd

\* The orchestrator runs every node at most once, after all its predecessors, and is over
\* only when all nodes have run, whatever the graph it was given.
Tasks == INSTANCE TaskGraph WITH
  tasks    <- graph.nodes,
  waitsFor <- [n \in Names |-> Predecessors(n)],
  begun    <- {n \in Names : node[n] # "idle"},
  ended    <- {n \in Names : node[n] \in {"returned", "raised"}},
  over     <- pc \in {"over", "closed"}

ImplementsTaskGraph == Tasks!Spec
=============================================================================
