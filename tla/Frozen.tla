-------------------------------- MODULE Frozen --------------------------------
(*********************************************************************************)
(* The tools of a compiled workflow (tools/frozen_source.py): a call is           *)
(* dispatched by its kind, over HTTP with its fallbacks, into a nested pipeline,  *)
(* or into a canvas, a graph of nodes run in the order of their edges.  Calls     *)
(* nest; the nesting is counted in a context variable, which a task started by a  *)
(* nested pipeline inherits as a copy and a sequential call shares.               *)
(*                                                                                *)
(* A value in a canvas is abstracted to the set of nodes it comes from, "user"    *)
(* standing for the input of the canvas; the empty set is None.  What a remote    *)
(* end answers is chosen freely.                                                  *)
(*********************************************************************************)
EXTENDS Naturals, Sequences, FiniteSets, SequencesExt, FiniteSetsExt, TLC

CONSTANTS
  Workflows,     \* [defs, roots, calls, turns, items, timeouts]
  MaxDepth,      \* _MAX_SUBPIPELINE_DEPTH
  MaxFrames      \* bound of the model: calls started altogether

\* No node of a canvas is running.
NoNode == "none"

\* A canvas has its nodes in a list.
ASSUME FrozenAssumption ==
  /\ MaxDepth \in Nat \ {0}
  /\ \A s \in Workflows : \A t \in DOMAIN s.defs :
       s.defs[t].kind = "canvas" =>
         s.defs[t].nodes \in Seq(STRING) /\ NoNode \notin ToSet(s.defs[t].nodes)
  /\ \A s \in Workflows : \A t \in DOMAIN s.defs :
       s.defs[t].kind = "subpipeline" /\ s.defs[t].given => IsFiniteSet(s.defs[t].tools)

VARIABLES
  workflow,      \* the setup
  frames,        \* every call made so far, in the order they began
  depth          \* for each task the value of _SUBPIPELINE_DEPTH in its context

frozenVars == <<workflow, frames, depth>>

Tasks == DOMAIN depth
Frames == DOMAIN frames
Def(f) == workflow.defs[frames[f].tool]
Open(f) == frames[f].phase # "ended"
Kids(f) == {g \in Frames : frames[g].parent = f}
Idle(f) == Open(f) /\ \A g \in Kids(f) : ~Open(g)

\* The outcomes of a request: answered, answered with status 400 or more, not answered.
Outcomes == {"ok", "status", "raised"}

--------------------------------------------------------------------------------
(* Frames *)

Frame(tool, parent, task) ==
  [tool |-> tool, parent |-> parent, task |-> task, saved |-> 0, phase |-> "entered",
   ans |-> "none", tried |-> <<>>, turns |-> 0,
   ran |-> <<>>, out |-> <<>>, at |-> 1, moved |-> FALSE, node |-> NoNode, left |-> 0, in |-> {}]

\* The frames with f over, answering a.
Ended(f, a) == [frames EXCEPT ![f].phase = "ended", ![f].ans = a]

Answer(f, a) ==
  /\ frames' = Ended(f, a)
  /\ UNCHANGED <<workflow, depth>>

Goto(f, phase) ==
  /\ frames' = [frames EXCEPT ![f].phase = phase]
  /\ UNCHANGED <<workflow, depth>>

LeaveMutant(f, a) ==
  /\ frames' = Ended(f, a)
  /\ depth' = IF a = "ok" THEN [depth EXCEPT ![frames[f].task] = frames[f].saved] ELSE depth
  /\ UNCHANGED workflow

\* A subpipeline or a canvas resets the context variable however it ends.
Leave(f, a) ==
  /\ frames' = Ended(f, a)
  /\ depth' = [depth EXCEPT ![frames[f].task] = frames[f].saved]
  /\ UNCHANGED workflow

--------------------------------------------------------------------------------
(* Dispatch *)

FrozenInit ==
  /\ workflow \in Workflows
  /\ frames = <<>>
  /\ depth = <<0>>

\* The tool stage calls a tool, once the one before is over; the name may be unknown.
RootCall ==
  /\ \A f \in Frames : ~Open(f)
  /\ Cardinality({f \in Frames : frames[f].parent = 0}) < workflow.calls
  /\ \E t \in workflow.roots : frames' = Append(frames, Frame(t, 0, 1))
  /\ UNCHANGED <<workflow, depth>>

Unknown(f) ==
  /\ frames[f].phase = "entered" /\ frames[f].tool \notin DOMAIN workflow.defs
  /\ Answer(f, "error")

Kind(f, k) ==
  /\ frames[f].phase = "entered" /\ frames[f].tool \in DOMAIN workflow.defs
  /\ Def(f).kind = k

Noop(f) == Kind(f, "noop") /\ Answer(f, "ok")

\* A missing url, a scheme that is not http, or a host that is blocked.
HttpRefused(f) == Kind(f, "http") /\ ~Def(f).allowed /\ Answer(f, "error")
HttpStarts(f) == Kind(f, "http") /\ Def(f).allowed /\ Goto(f, "request")
HttpRequest(f) ==
  /\ frames[f].phase = "request"
  /\ \E o \in Outcomes : Answer(f, IF o = "ok" THEN "ok" ELSE "error")

\* The ways of a rag or an mcp call, in the order they are tried.
RagWays(d) ==
  (IF d.direct THEN <<"direct">> ELSE <<>>) \o (IF d.shim THEN <<"shim">> ELSE <<>>)
McpWays(d) ==
  (IF d.spawn THEN <<"spawn">> ELSE <<>>) \o (IF d.station THEN <<"station">> ELSE <<>>)

\* No way is configured: the answer names what to set.
RagUnset(f) == Kind(f, "rag") /\ RagWays(Def(f)) = <<>> /\ Answer(f, "unset")
RagStarts(f) ==
  /\ Kind(f, "rag") /\ RagWays(Def(f)) # <<>>
  /\ Goto(f, Head(RagWays(Def(f))))

\* The variables of a spawned server are checked before any way is tried.
McpUnset(f) ==
  /\ Kind(f, "mcp_session")
  /\ \/ ~Def(f).session
     \/ Def(f).spawn /\ ~Def(f).env
     \/ McpWays(Def(f)) = <<>>
  /\ Answer(f, "unset")
McpStarts(f) ==
  /\ Kind(f, "mcp_session") /\ Def(f).session
  /\ Def(f).spawn => Def(f).env
  /\ McpWays(Def(f)) # <<>>
  /\ Goto(f, Head(McpWays(Def(f))))

AttemptMutant(f, way, o, next, configured) ==
  /\ frames[f].phase = way
  /\ frames' =
       LET tried == [frames EXCEPT ![f].tried = Append(@, <<way, o>>)] IN
       IF o = "raised" /\ configured
         THEN [tried EXCEPT ![f].phase = next]
         ELSE [tried EXCEPT ![f].phase = "ended", ![f].ans = IF o = "ok" THEN "ok" ELSE "error"]
  /\ UNCHANGED <<workflow, depth>>

\* The outcome o of one way: an answer is returned, a failure moves on to the next.
Attempt(f, way, o, next, configured) ==
  /\ frames[f].phase = way
  /\ frames' =
       LET tried == [frames EXCEPT ![f].tried = Append(@, <<way, o>>)] IN
       IF o # "ok" /\ configured
         THEN [tried EXCEPT ![f].phase = next]
         ELSE [tried EXCEPT ![f].phase = "ended", ![f].ans = IF o = "ok" THEN "ok" ELSE "error"]
  /\ UNCHANGED <<workflow, depth>>

RagDirect(f) == \E o \in Outcomes : Attempt(f, "direct", o, "shim", Def(f).shim)
RagShim(f) == \E o \in Outcomes : Attempt(f, "shim", o, "none", FALSE)
McpStation(f) == \E o \in Outcomes : Attempt(f, "station", o, "none", FALSE)

\* An error the server itself reports is the answer; only an exception falls back.
McpSpawn(f) ==
  \/ \E o \in {"ok", "raised"} : Attempt(f, "spawn", o, "station", Def(f).station)
  \/ frames[f].phase = "spawn" /\ Answer(f, "told")

--------------------------------------------------------------------------------
(* Subpipelines *)

Nesting(f) == Kind(f, "subpipeline") \/ Kind(f, "canvas")

\* The configuration or the graph is missing or empty.
NothingToRun(f) == Nesting(f) /\ ~Def(f).given /\ Answer(f, "error")

TooDeep(f) ==
  /\ Nesting(f) /\ Def(f).given /\ depth[frames[f].task] >= MaxDepth
  /\ Answer(f, "refused")

Enter(f) ==
  /\ Nesting(f) /\ Def(f).given /\ depth[frames[f].task] < MaxDepth
  /\ frames' = [frames EXCEPT
       ![f].saved = depth[frames[f].task],
       ![f].phase = IF Def(f).kind = "canvas" THEN "sweep" ELSE "turn"]
  /\ depth' = [depth EXCEPT ![frames[f].task] = @ + 1]
  /\ UNCHANGED workflow

\* A turn of the nested pipeline: several tools at once, each in a task of its own
\* that copies the context, or one tool in the task of the pipeline.
Gather(f) ==
  /\ frames[f].phase = "turn" /\ Idle(f) /\ frames[f].turns < workflow.turns
  /\ \E ts \in SUBSET Def(f).tools :
       /\ Cardinality(ts) > 1 /\ Len(frames) + Cardinality(ts) <= MaxFrames
       /\ LET order == SetToSeq(ts)
              new == [i \in DOMAIN order |-> Frame(order[i], f, Len(depth) + i)]
          IN /\ frames' = [frames EXCEPT ![f].turns = @ + 1] \o new
             /\ depth' = depth \o [i \in DOMAIN order |-> depth[frames[f].task]]
  /\ UNCHANGED workflow

OneTool(f) ==
  /\ frames[f].phase = "turn" /\ Idle(f) /\ frames[f].turns < workflow.turns
  /\ Len(frames) < MaxFrames
  /\ \E t \in Def(f).tools :
       frames' = Append([frames EXCEPT ![f].turns = @ + 1], Frame(t, f, frames[f].task))
  /\ UNCHANGED <<workflow, depth>>

\* The nested pipeline returns its output, or building or running it raises.
PipelineEnds(f) ==
  /\ frames[f].phase = "turn" /\ Idle(f)
  /\ \E a \in {"ok", "error"} : Leave(f, a)

--------------------------------------------------------------------------------
(* Canvases *)

NodesOf(d) == ToSet(d.nodes)

\* Edges naming a node that does not exist are left out.
Joins(d, e) == {e.from, e.to} \subseteq NodesOf(d)
EdgesOf(d) == SelectSeq(d.edges, LAMBDA e : Joins(d, e))
Upstream(d, n) == {e.from : e \in {x \in ToSet(d.edges) : Joins(d, x) /\ x.to = n}}

\* The nodes that no edge leaves.
Sinks(d) == {n \in NodesOf(d) : \A e \in ToSet(EdgesOf(d)) : e.from # n}

\* The values at the ports of n: of several edges to one port, the last that has a value.
PortValues(d, n, out) ==
  LET inc == SelectSeq(EdgesOf(d), LAMBDA e : e.to = n /\ out[e.from] # {})
      last(p) == CHOOSE i \in DOMAIN inc :
        inc[i].port = p /\ \A j \in DOMAIN inc : inc[j].port = p => j <= i
  IN {out[inc[last(p)].from] : p \in {inc[i].port : i \in DOMAIN inc}}

Input(d, n, out) ==
  LET vals == PortValues(d, n, out) IN IF vals = {} THEN {"user"} ELSE UNION vals

Ready(f, n) ==
  /\ n \notin ToSet(frames[f].ran)
  /\ Upstream(Def(f), n) \subseteq ToSet(frames[f].ran)

\* The places, from where the sweep is, of nodes that can run.
Reachable(f) == {i \in frames[f].at .. Len(Def(f).nodes) : Ready(f, Def(f).nodes[i])}

Sweeping(f) == frames[f].phase = "sweep" /\ Idle(f) /\ frames[f].node = NoNode

\* The number of calls a node makes: one, or one for each item of the list it is given.
Calls(d, n) ==
  CASE d.node[n].kind = "call" -> {1}
    [] d.node[n].kind = "foreach" -> 0 .. workflow.items
    [] OTHER -> {0}

BeginNode(f) ==
  /\ Sweeping(f) /\ Reachable(f) # {}
  /\ LET i == Min(Reachable(f))
         n == Def(f).nodes[i]
     IN \E k \in Calls(Def(f), n) :
          frames' = [frames EXCEPT ![f].at = i + 1, ![f].node = n, ![f].left = k,
                                   ![f].in = Input(Def(f), n, frames[f].out)]
  /\ UNCHANGED <<workflow, depth>>

\* The calls of a node are made one after the other.
NodeCalls(f) ==
  /\ frames[f].phase = "sweep" /\ Idle(f) /\ frames[f].left > 0 /\ Len(frames) < MaxFrames
  /\ frames' = Append([frames EXCEPT ![f].left = @ - 1],
                      Frame(Def(f).node[frames[f].node].tool, f, frames[f].task))
  /\ UNCHANGED <<workflow, depth>>

\* What a node gives: the contents its calls returned, errors too; the result of a
\* transform, which may be None or what it was given; or what passes through.
NodeValues(d, n, in) ==
  CASE d.node[n].kind \in {"call", "foreach"} -> {{n}}
    [] d.node[n].kind = "transform" -> {{n}, {}, in}
    [] OTHER -> {in}

NodeEndsMutant(f) ==
  /\ frames[f].phase = "sweep" /\ Idle(f) /\ frames[f].node # NoNode /\ frames[f].left = 0
  /\ LET n == frames[f].node IN
       \E v \in NodeValues(Def(f), n, frames[f].in) :
         frames' = [frames EXCEPT ![f].ran = Append(@, n), ![f].node = NoNode,
                                  ![f].out = (n :> v) @@ @]
  /\ UNCHANGED <<workflow, depth>>

NodeEnds(f) ==
  /\ frames[f].phase = "sweep" /\ Idle(f) /\ frames[f].node # NoNode /\ frames[f].left = 0
  /\ LET n == frames[f].node IN
       \E v \in NodeValues(Def(f), n, frames[f].in) :
         frames' = [frames EXCEPT ![f].ran = Append(@, n), ![f].moved = TRUE, ![f].node = NoNode,
                                  ![f].out = (n :> v) @@ @]
  /\ UNCHANGED <<workflow, depth>>

\* Nodes are left that the sweep did not reach in time: it starts over.
NextSweep(f) ==
  /\ Sweeping(f) /\ Reachable(f) = {}
  /\ frames[f].moved /\ Len(frames[f].ran) < Len(Def(f).nodes)
  /\ frames' = [frames EXCEPT ![f].at = 1, ![f].moved = FALSE]
  /\ UNCHANGED <<workflow, depth>>

\* What a canvas answers: the value of its last node without successors, or, when
\* that is None, of the node done last.
Result(d, fr) ==
  LET ends == {i \in DOMAIN d.nodes : d.nodes[i] \in Sinks(d) \cap ToSet(fr.ran)}
      last == IF ends = {} THEN {} ELSE fr.out[d.nodes[Max(ends)]]
  IN IF last # {} THEN last
     ELSE IF fr.ran = <<>> THEN {"user"} ELSE fr.out[Last(fr.ran)]

\* All nodes are done, or a whole sweep did none: the rest wait for each other.
CanvasEnds(f) ==
  /\ Sweeping(f) /\ Reachable(f) = {}
  /\ ~frames[f].moved \/ Len(frames[f].ran) = Len(Def(f).nodes)
  /\ frames' = [frames EXCEPT ![f].phase = "ended", ![f].ans = "ok",
                              ![f].in = Result(Def(f), frames[f])]
  /\ depth' = [depth EXCEPT ![frames[f].task] = frames[f].saved]
  /\ UNCHANGED workflow

--------------------------------------------------------------------------------
(* The time limit of the tool stage, and the whole *)

\* f and the calls it is nested in.
Above(f) ==
  LET up[g \in 0 .. Len(frames)] == IF g = 0 THEN {} ELSE {g} \cup up[frames[g].parent]
  IN up[f]

Nested(f) == frames[f].phase \in {"turn", "sweep"}

\* A call of a tool stage is cancelled with everything under it; every subpipeline
\* and canvas resets the variable as the exception passes it.
Timeout(f) ==
  /\ workflow.timeouts /\ Open(f)
  /\ frames[f].parent # 0 => Def(frames[f].parent).kind = "subpipeline"
  /\ LET gone == {g \in Frames : Open(g) /\ f \in Above(g)}
         left(t) == {g \in gone : Nested(g) /\ frames[g].task = t}
     IN /\ frames' = [g \in Frames |->
             IF g \in gone THEN [frames[g] EXCEPT !.phase = "ended", !.ans = "cancelled"]
             ELSE frames[g]]
        /\ depth' = [t \in Tasks |->
             IF left(t) = {} THEN depth[t] ELSE frames[Min(left(t))].saved]
  /\ UNCHANGED workflow

Step(f) ==
  \/ Unknown(f) \/ Noop(f) \/ HttpRefused(f) \/ HttpStarts(f) \/ HttpRequest(f)
  \/ RagUnset(f) \/ RagStarts(f) \/ RagDirect(f) \/ RagShim(f)
  \/ McpUnset(f) \/ McpStarts(f) \/ McpSpawn(f) \/ McpStation(f)
  \/ NothingToRun(f) \/ TooDeep(f) \/ Enter(f)
  \/ Gather(f) \/ OneTool(f) \/ PipelineEnds(f)
  \/ BeginNode(f) \/ NodeCalls(f) \/ NodeEnds(f) \/ NextSweep(f) \/ CanvasEnds(f)

FrozenNext ==
  \/ RootCall
  \/ \E f \in Frames : Step(f) \/ Timeout(f)

FrozenSpec == FrozenInit /\ [][FrozenNext]_frozenVars

--------------------------------------------------------------------------------
(* Properties *)

\* The counter a task sees is the number of subpipelines and canvases its innermost
\* open call is nested in, across tasks, and 0 when no call is open: neither a failure nor a
\* cancellation leaves a count behind, and nothing nests deeper than the limit.
\* (frozen_source.py:84-89 and the two finally clauses)
Levels(f) == Cardinality({g \in Above(f) : Nested(g)})
Innermost(t) == Max({f \in Frames : Open(f) /\ frames[f].task = t})
DepthIsNesting ==
  /\ \A t \in Tasks :
       IF \E f \in Frames : Open(f) /\ frames[f].task = t
         THEN depth[t] = Levels(Innermost(t)) /\ depth[t] <= MaxDepth
         ELSE t = 1 => depth[t] = 0
  /\ \A f \in Frames : frames[f].ans = "refused" =>
       Cardinality(Above(f) \ {f}) >= MaxDepth

\* A call of a rag or an mcp tool that had its say: it succeeds with the last way it
\* tried and not before, and fails only when it has tried every way there is.
WaysExhausted ==
  \A f \in Frames :
    LET tried == frames[f].tried
        ways == IF Def(f).kind = "rag" THEN RagWays(Def(f)) ELSE McpWays(Def(f))
    IN frames[f].tool \in DOMAIN workflow.defs =>
       /\ \A i \in DOMAIN tried :
            tried[i][2] = "ok" => i = Len(tried) /\ frames[f].ans = "ok"
       /\ (Def(f).kind \in {"rag", "mcp_session"} /\ frames[f].ans = "error") =>
            [i \in DOMAIN tried |-> tried[i][1]] = ways

\* The nodes that neither lie on a cycle nor behind one.
Acyclic(d) ==
  LET rank[k \in 0 .. Len(d.nodes)] ==
        IF k = 0 THEN {} ELSE {n \in NodesOf(d) : Upstream(d, n) \subseteq rank[k - 1]}
  IN rank[Len(d.nodes)]

\* The canvas the tool stage calls, seen as a graph of tasks: each node runs once, when
\* all it hangs on have run; the canvas answers when every node that is not on or
\* behind a cycle has run, and the sweeps miss none.
AllNodes ==
  UNION {UNION {NodesOf(s.defs[t]) : t \in {x \in DOMAIN s.defs : s.defs[x].kind = "canvas"}} :
         s \in Workflows}
IsCanvas == \E t \in DOMAIN workflow.defs : workflow.roots = {t} /\ workflow.defs[t].kind = "canvas"
Outer == workflow.defs[CHOOSE t \in workflow.roots : TRUE]
Running == IsCanvas /\ frames # <<>>
Graph == INSTANCE TaskGraph WITH
  Names <- AllNodes,
  tasks <- IF IsCanvas THEN Acyclic(Outer) ELSE {},
  waitsFor <- [n \in AllNodes |->
                 IF IsCanvas /\ n \in NodesOf(Outer) THEN Upstream(Outer, n) ELSE {}],
  begun <- IF Running THEN ToSet(frames[1].ran) \cup ({frames[1].node} \ {NoNode}) ELSE {},
  ended <- IF Running THEN ToSet(frames[1].ran) ELSE {},
  over <- Running /\ frames[1].ans = "ok"
ImplementsTaskGraph == Graph!Spec

================================================================================
