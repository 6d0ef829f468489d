------------------------------- MODULE MCFrozen -------------------------------
EXTENDS Frozen
Rag(d, s) == [kind |-> "rag", direct |-> d, shim |-> s]
Mcp(i, s, e, t) ==
  [kind |-> "mcp_session", session |-> i, spawn |-> s, env |-> e, station |-> t]
Http(a) == [kind |-> "http", allowed |-> a]
Sub(ts) == [kind |-> "subpipeline", given |-> TRUE, tools |-> ts]
Canvas(ns, node, es) ==
  [kind |-> "canvas", given |-> TRUE, nodes |-> ns, node |-> node, edges |-> es]
Edge(a, b, p) == [from |-> a, to |-> b, port |-> p]
Pass == [kind |-> "passthrough"]
Transform == [kind |-> "transform"]
CallOf(t) == [kind |-> "call", tool |-> t]
ForeachOf(t) == [kind |-> "foreach", tool |-> t]

Base == [defs |-> [noop |-> [kind |-> "noop"]], roots |-> {"noop"}, calls |-> 1, turns |-> 1,
         items |-> 2, timeouts |-> FALSE]

Leaves ==
  [noop |-> [kind |-> "noop"], http |-> Http(TRUE), blocked |-> Http(FALSE),
   rag |-> Rag(TRUE, TRUE), ragD |-> Rag(TRUE, FALSE), ragS |-> Rag(FALSE, TRUE),
   rag0 |-> Rag(FALSE, FALSE), mcp |-> Mcp(TRUE, TRUE, TRUE, TRUE),
   mcpS |-> Mcp(TRUE, FALSE, FALSE, TRUE), mcpP |-> Mcp(TRUE, TRUE, TRUE, FALSE),
   mcpE |-> Mcp(TRUE, TRUE, FALSE, TRUE), mcp0 |-> Mcp(FALSE, TRUE, TRUE, TRUE),
   empty |-> [kind |-> "subpipeline", given |-> FALSE]]

MCWorkflows ==
  {[Base EXCEPT !.defs = Leaves, !.roots = DOMAIN Leaves \cup {"missing"}],
   \* a pipeline nested in itself without end, alone and in parallel, called again
   [Base EXCEPT !.defs = [p |-> Sub({"p", "n"}), n |-> [kind |-> "noop"]], !.roots = {"p"},
                !.timeouts = TRUE],
   [Base EXCEPT !.defs = [p |-> Sub({"p"}), n |-> [kind |-> "noop"]], !.roots = {"p", "n"},
                !.calls = 2, !.timeouts = TRUE],
   \* a canvas that repeats a pipeline holding the canvas
   [Base EXCEPT !.defs = [c |-> Canvas(<<"x">>, [x |-> ForeachOf("p")], <<>>), p |-> Sub({"c"})],
                !.roots = {"c"}]
  }
  \cup {[Base EXCEPT !.defs = [c |-> Canvas(ns, [x |-> Transform, y |-> CallOf("h"),
                                               z |-> Pass, w |-> ForeachOf("h")], es),
                               h |-> Http(TRUE)], !.roots = {"c"}] :
        ns \in {<<"x", "y", "z", "w">>, <<"w", "z", "y", "x">>},
        es \in {<<Edge("x", "y", "a"), Edge("x", "z", "a"), Edge("y", "w", "a"), Edge("z", "w", "b")>>,
                <<Edge("x", "y", "a"), Edge("y", "x", "b"), Edge("z", "w", "a"), Edge("x", "w", "b")>>,
                <<Edge("x", "w", "a"), Edge("y", "w", "a"), Edge("gone", "z", "a"), Edge("z", "y", "b")>>}}
================================================================================
