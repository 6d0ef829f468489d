----------------------------- MODULE MultiAgent -----------------------------
(***************************************************************************)
(* The two graphs the orchestrator of DAGRun is given: what                 *)
(* MultiAgentExecutor reads from a drawn workflow                           *)
(* (orchestrator/multi_agent.py), and the sub-agents MultiAgentPlannerStage *)
(* fans a question out to (orchestrator/multi_agent_planner.py), one for    *)
(* every collection.  What a node says and is configured with is data, but  *)
(* for the collections a sub-agent may search.                              *)
(***************************************************************************)
EXTENDS Naturals, SequencesExt

(* A workflow: [agents : ids of the nodes that are agents, edges : a sequence of
   [source, target], to nodes of any kind, or to none]. *)

DownstreamMutant(workflow, id) ==
  workflow.agents \cap ({id} \cup {e.target : e \in {x \in ToSet(workflow.edges) : x.source = id}})

\* _find_downstream_agents: the agents behind a node, across nodes that are none.
Downstream(workflow, id) ==
  LET edges == ToSet(workflow.edges)
      behind(ids) == ids \cup {e.target : e \in {x \in edges : x.source \in ids \ workflow.agents}}
      reached[k \in 0 .. Cardinality(edges)] == IF k = 0 THEN {id} ELSE behind(reached[k - 1])
  IN reached[Cardinality(edges)] \cap workflow.agents

\* The edges of the graph for one edge of the workflow.
Links(workflow, edge) ==
  IF edge.source \notin workflow.agents THEN <<>>
  ELSE LET behind == SetToSeq(Downstream(workflow, edge.target))
       IN [i \in DOMAIN behind |-> [source |-> edge.source, target |-> behind[i]]]

\* _build_dag, and the one agent run adds when the workflow has none.
BuildDag(workflow, default) ==
  LET edges[k \in 0 .. Len(workflow.edges)] ==
        IF k = 0 THEN <<>> ELSE edges[k - 1] \o Links(workflow, workflow.edges[k])
  IN [nodes |-> IF workflow.agents = {} THEN {default} ELSE workflow.agents,
      edges |-> edges[Len(workflow.edges)]]

-----------------------------------------------------------------------------
(* The settings of a run: the collections of s04_tool, of s06_context and of the metadata
   of the run, and the artifact of s00_harness, which is the planner or not; what the
   detector looks at (whether the question is long and names several intents, how many
   capabilities and tools there are) and the thresholds it compares that with. *)

\* _collect_rag_collections: each name once, in whichever form it is written down.
Collections(config) == ToSet(config.tool \o config.context \o config.metadata)

\* ComplexityDetector.evaluate: what speaks for several agents, with its weight (doubled).
Weights == [long_input |-> 2, multi_intent |-> 3, many_rag |-> 3, many_capabilities |-> 2,
            many_tools |-> 1]
Signals(config) ==
  {s \in DOMAIN Weights :
     CASE s = "long_input" -> config.long
       [] s = "multi_intent" -> config.intents
       [] s = "many_rag" -> Collections(config) # {} /\ Cardinality(Collections(config)) >= config.ragThreshold
       [] s = "many_capabilities" -> config.capabilities > 0 /\ config.capabilities >= config.capabilityThreshold
       [] s = "many_tools" -> config.tools >= config.toolThreshold}
Escalates(config) == MapThenSumSet(LAMBDA s : Weights[s], Signals(config)) >= 2 * config.escalateAt

\* MultiAgentPlannerStage.execute: whether the question is fanned out at all.
Plans(config) == config.planner = "multi_agent" /\ Escalates(config) /\ Collections(config) # {}

\* _clone_config_for_sub: only one collection, and no planner.
ForSub(config, collection) ==
  [config EXCEPT !.tool = <<collection>>, !.context = <<collection>>, !.metadata = <<>>,
                  !.planner = "default"]

\* _per_rag_collection: no edges, so that all run together.
SubAgents(config) == [c \in Collections(config) |-> ForSub(config, c)]
FanOut(config) == [nodes |-> DOMAIN SubAgents(config), edges |-> <<>>]
=============================================================================
