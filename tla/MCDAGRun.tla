------------------------------ MODULE MCDAGRun ------------------------------
(***************************************************************************)
(* Graphs for Orchestration.  From workflows: a chain with a shortcut       *)
(* across a tool and an edge that exists on two ways, a join of two agents  *)
(* that run together, a cycle through a tool that leads back, no agent at   *)
(* all.  From a fan-out: two collections named in several places.  Made by  *)
(* hand: a cycle next to an edge that ends outside the graph, no node.      *)
(***************************************************************************)
EXTENDS Orchestration

CONSTANTS a, b, c

MCIds == Names \cup {"tool", "rag", "loader", "input", "out"}

Edge(from, to) == [source |-> from, target |-> to]

\* The last node of the chain and of the join is silent.
MCMaxEvents == [n \in Names |-> IF n = c THEN 0 ELSE 1]

MCWorkflows ==
  {[agents |-> {a, b, c},
    edges |-> <<Edge(a, b), Edge(a, "tool"), Edge("tool", "rag"), Edge("rag", c),
                Edge("rag", "tool"), Edge(b, c), Edge(a, "loader"), Edge("loader", b),
                Edge("input", a)>>],
   [agents |-> {a, b, c},
    edges |-> <<Edge(a, "tool"), Edge("tool", "rag"), Edge("rag", c), Edge(b, c)>>],
   [agents |-> {a, b}, edges |-> <<Edge(a, "tool"), Edge("tool", b), Edge(b, a), Edge("tool", "out")>>],
   [agents |-> {}, edges |-> <<Edge("input", "out")>>]}

\* One collection or two, long questions or not, and as many tools as it takes for two.
MCConfigs ==
  {[tool |-> <<a>>, context |-> ab, metadata |-> ba, planner |-> "multi_agent",
    long |-> long, intents |-> intents, capabilities |-> 0, tools |-> 8, ragThreshold |-> 2,
    capabilityThreshold |-> 2, toolThreshold |-> 8, escalateAt |-> 2] :
     ab \in {<<>>, <<a>>}, ba \in {<<>>, <<b, a>>}, long \in BOOLEAN, intents \in BOOLEAN}

MCGraphs ==
  {source.graph : source \in Drawn \cup FannedOut}
  \cup {[nodes |-> {a, b}, edges |-> <<Edge(a, c), Edge(b, b)>>], [nodes |-> {}, edges |-> <<>>]}
=============================================================================
