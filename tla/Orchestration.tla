---------------------------- MODULE Orchestration ----------------------------
(***************************************************************************)
(* The orchestrator of DAGRun on the graphs of MultiAgent: those drawn as   *)
(* workflows, which orchestrator/multi_agent.py runs for the API, and the   *)
(* fan-outs of orchestrator/multi_agent_planner.py.                         *)
(***************************************************************************)
EXTENDS DAGRun, MultiAgent

CONSTANTS
  Ids,        \* identifiers of nodes of a workflow, of any kind
  Workflows,  \* the workflows that are drawn
  Default,    \* the agent of a workflow that has none
  Configs     \* the settings the planner may find

WorkflowType == [agents : SUBSET Names, edges : Seq([source : Ids, target : Ids])]
ConfigType ==
  [tool : Seq(Names), context : Seq(Names), metadata : Seq(Names),
   planner : {"multi_agent", "default"}, long : BOOLEAN, intents : BOOLEAN,
   capabilities : Nat, tools : Nat, ragThreshold : Nat, capabilityThreshold : Nat,
   toolThreshold : Nat, escalateAt : Nat]

ASSUME OrchestrationAssumption ==
  /\ Workflows \subseteq WorkflowType
  /\ Default \in Names
  /\ Configs \subseteq ConfigType

-----------------------------------------------------------------------------
(* Properties *)

Behind(w, ids) == {e.target : e \in {x \in ToSet(w.edges) : x.source \in ids}}

\* A way leads from one agent of a workflow to another across nodes that are none: the
\* other is behind the one or behind any set of other nodes that has all of its own kind
\* behind the one and behind itself.
Linked(w, x, y) ==
  LET others == (UNION {{e.source, e.target} : e \in ToSet(w.edges)}) \ w.agents
  IN \A set \in SUBSET others :
       Behind(w, {x} \cup set) \cap others \subseteq set => y \in Behind(w, {x} \cup set)

Drawn == {[graph |-> BuildDag(w, Default),
           before |-> [n \in Names |-> {x \in w.agents : n \in w.agents /\ Linked(w, x, n)}]] :
            w \in Workflows}
FannedOut == {[graph |-> FanOut(s), subs |-> SubAgents(s),
               names |-> ToSet(s.tool \o s.context \o s.metadata)] :
                s \in {config \in Configs : Plans(config)}}

\* What was drawn or configured is what runs.  An agent of a workflow begins after every
\* agent with a way to it, with its output if it has one, and is given no other; and when
\* a fanned-out question is answered, every collection named anywhere was searched by an
\* agent of its own, which searches no other and does not fan out again.
FollowsSource ==
  /\ \A d \in Drawn : host = "api" /\ d.graph = graph =>
       \A n \in {m \in Names : node[m] # "idle"} :
         /\ \A x \in d.before[n] : node[x] \in {"returned", "raised"}
         /\ input[n] = {x \in d.before[n] : output[x]}
  /\ \A f \in FannedOut : host = "planner" /\ pc = "over" /\ f.graph = graph =>
       /\ {n \in Names : node[n] # "idle"} = f.names
       /\ \A n \in DOMAIN f.subs : Collections(f.subs[n]) = {n} /\ f.subs[n].planner = "default"
=============================================================================
