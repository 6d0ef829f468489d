---------------------------- MODULE DAGRun_proofs ----------------------------
(***************************************************************************)
(* Theorems about module DAGRun, for all graphs, any number of events and  *)
(* any sizes of the queues, and about module Orchestration, for all        *)
(* workflows and settings.                                                 *)
(***************************************************************************)
EXTENDS Orchestration, SequenceTheorems, FiniteSetTheorems, NaturalsInduction, TLAPS

\* The places and the events are those the types name.
LEMMA EventTypes ==
  ASSUME level \in Nat
  PROVE  Enter \in Events /\ Exit \in Events /\ Metrics \in Events /\ Done \in Events
         /\ [kind |-> "host"] \in Events
<1>1. level + 1 \in Nat
  OBVIOUS
<1>2. Enter \in LevelEvents /\ Exit \in LevelEvents
  BY <1>1 DEF Enter, Exit, LevelEvents
<1>3. Metrics \in OtherEvents /\ Done \in OtherEvents /\ [kind |-> "host"] \in OtherEvents
  BY DEF Metrics, Done, OtherEvents
<1>4. QED
  BY <1>2, <1>3 DEF Events

\* An event is appended or dropped.
LEMMA AcceptedCases ==
  ASSUME NEW s \in Seq(Events), NEW e \in Events
  PROVE  /\ Accepted(s, e) \in Seq(Events)
         /\ Accepted(s, e) = s \/ Accepted(s, e) = Append(s, e)
         /\ Len(s) <= Len(Accepted(s, e))
BY DEF Accepted

\* The emitter keeps the bound of its queue.
LEMMA AcceptedBound ==
  ASSUME NEW s \in Seq(Events), NEW e \in Events, read \in Nat, OuterQueue \in Nat,
         read <= Len(s), Len(s) - read <= OuterQueue
  PROVE  /\ Accepted(s, e) \in Seq(Events)
         /\ read <= Len(Accepted(s, e)) /\ Len(Accepted(s, e)) - read <= OuterQueue
BY DEF Accepted

\* A node's queue keeps its bound.
LEMMA PutBound ==
  ASSUME NEW s \in Seq(Nat), NEW e \in Nat, NodeQueue \in Nat, Len(s) <= NodeQueue
  PROVE  Put(s, e) \in Seq(Nat) /\ Len(Put(s, e)) <= NodeQueue
BY DEF Put

-----------------------------------------------------------------------------
(* Types, in four groups: the sort, the place of run, the nodes, the stream *)

SortType ==
  /\ graph \in Graphs /\ host \in Hosts
  /\ degree \in [Names -> Int] /\ frontier \subseteq Names
  /\ levels \in Seq(SUBSET Names) /\ level \in 0..Len(levels)
PlaceType == pc \in {"sort", "next", "gather", "over", "raised", "cancelled", "closed"}
NodeType ==
  /\ node \in [Names -> States] /\ input \in [Names -> SUBSET Names]
  /\ emitted \in [Names -> Nat] /\ queue \in [Names -> Seq(Nat)]
  /\ \A n \in Names : emitted[n] <= MaxEvents[n] /\ Len(queue[n]) <= NodeQueue
FlagType == output \in [Names -> BOOLEAN] /\ bridge \in [Names -> BOOLEAN] /\ ended \in BOOLEAN
StreamType ==
  /\ log \in Seq(Events) /\ read \in Nat
  /\ read <= Len(log) /\ Len(log) - read <= OuterQueue

\* The groups are the types.
LEMMA Grouped == TypeOK <=> SortType /\ PlaceType /\ NodeType /\ FlagType /\ StreamType
<1>1. ASSUME log \in Seq(Events) PROVE read \in 0..Len(log) <=> read \in Nat /\ read <= Len(log)
  <2>1. Len(log) \in Nat
    BY <1>1
  <2>2. QED
    BY <2>1
<1>2. QED
  BY <1>1 DEF TypeOK, SortType, PlaceType, NodeType, FlagType, StreamType

\* The same of the next state.
LEMMA GroupedNext == TypeOK' <=> SortType' /\ PlaceType' /\ NodeType' /\ FlagType' /\ StreamType'
<1>1. ASSUME log' \in Seq(Events)
      PROVE  read' \in 0..Len(log') <=> read' \in Nat /\ read' <= Len(log')
  <2>1. Len(log') \in Nat
    BY <1>1
  <2>2. QED
    BY <2>1
<1>2. QED
  BY <1>1 DEF TypeOK, SortType, PlaceType, NodeType, FlagType, StreamType

\* The edges that reach a node are finitely many, and its predecessors are names.
LEMMA Edges ==
  ASSUME graph \in Graphs, NEW A, NEW n
  PROVE  /\ IsFiniteSet(EdgesFrom(A, n)) /\ Cardinality(EdgesFrom(A, n)) \in Nat
         /\ Predecessors(n) \subseteq Names
<1> USE DAGAssumption DEF GraphType
<1>1. graph.edges \in Seq([source : Names, target : Names])
  OBVIOUS
<1>2. DOMAIN graph.edges = 1..Len(graph.edges) /\ Len(graph.edges) \in Nat
  BY <1>1
<1>3. IsFiniteSet(1..Len(graph.edges))
  BY <1>2, FS_Interval
<1>4. EdgesFrom(A, n) \in SUBSET (1..Len(graph.edges))
  BY <1>2 DEF EdgesFrom
<1>5. IsFiniteSet(EdgesFrom(A, n))
  BY <1>3, <1>4, FS_Subset
<1>6. ASSUME NEW i \in DOMAIN graph.edges PROVE graph.edges[i].source \in Names
  <2>1. graph.edges[i] \in [source : Names, target : Names]
    BY <1>1, <1>2, ElementOfSeq
  <2>2. QED
    BY <2>1
<1>7. QED
  BY <1>5, <1>6, FS_CardinalityType DEF Predecessors

\* The initial values have their types.
LEMMA InitType == Init => TypeOK
<1> SUFFICES ASSUME Init PROVE TypeOK
  OBVIOUS
<1> USE DAGAssumption
<1>1. degree \in [Names -> Int]
  <2>1. graph \in Graphs
    BY DEF Init
  <2>2. \A n \in Names : Cardinality(EdgesFrom(Names, n)) \in Int
    BY <2>1, Edges
  <2>3. QED
    BY <2>2 DEF Init
<1>2. SortType
  <2>1. frontier \subseteq Names
    BY DEF Init, GraphType
  <2>2. levels \in Seq(SUBSET Names) /\ level \in 0..Len(levels)
    BY DEF Init
  <2>3. QED
    BY <1>1, <2>1, <2>2 DEF Init, SortType
<1>3. PlaceType
  BY DEF Init, PlaceType
<1>4. NodeType
  <2>1. node \in [Names -> States]
    BY DEF Init, States
  <2>2. input \in [Names -> SUBSET Names] /\ emitted \in [Names -> Nat] /\ queue \in [Names -> Seq(Nat)]
    BY DEF Init
  <2>3. \A n \in Names : emitted[n] <= MaxEvents[n] /\ Len(queue[n]) <= NodeQueue
    BY DEF Init
  <2>4. QED
    BY <2>1, <2>2, <2>3 DEF NodeType
<1>5. FlagType
  BY Zenon DEF Init, FlagType
<1>6. StreamType
  BY DEF Init, StreamType
<1>7. QED
  BY <1>2, <1>3, <1>4, <1>5, <1>6, Grouped

\* The sort keeps the types.
LEMMA SortStepType == TypeOK /\ (SortLevel \/ SortEnd) => TypeOK'
<1> SUFFICES ASSUME TypeOK, SortLevel \/ SortEnd PROVE TypeOK'
  OBVIOUS
<1>1. SortType /\ PlaceType /\ NodeType /\ FlagType /\ StreamType
  BY Grouped
<1>2. /\ UNCHANGED <<graph, host, level, node, input, output, emitted, queue, bridge>>
      /\ UNCHANGED <<log, read, ended>>
  BY DEF SortLevel, SortEnd, sortVars, nodeVars, streamVars
<1>3. SortType'
  <2>1. CASE SortLevel
    <3>1. levels' \in Seq(SUBSET Names) /\ Len(levels') = Len(levels) + 1 /\ Len(levels) \in Nat
      BY <1>1, <2>1 DEF SortType, SortLevel
    <3>2. level' \in 0..Len(levels')
      BY <1>1, <1>2, <3>1 DEF SortType
    <3>3. \A n \in Names : degree[n] - Cardinality(EdgesFrom(frontier, n)) \in Int
      BY <1>1, Edges DEF SortType
    <3>4. degree' \in [Names -> Int] /\ frontier' \subseteq Names
      BY <2>1, <3>3 DEF SortLevel
    <3>5. QED
      BY <1>1, <1>2, <3>1, <3>2, <3>4 DEF SortType
  <2>2. CASE SortEnd
    BY <1>1, <1>2, <2>2 DEF SortType, SortEnd, sortVars
  <2>3. QED
    BY <2>1, <2>2
<1>4. PlaceType'
  BY <1>1 DEF PlaceType, SortLevel, SortEnd
<1>5. NodeType' /\ StreamType'
  BY <1>1, <1>2 DEF NodeType, StreamType
<1>6. FlagType'
  BY <1>1, <1>2, Zenon DEF FlagType
<1>7. QED
  BY <1>3, <1>4, <1>5, <1>6, GroupedNext

\* run itself keeps the types.
LEMMA RunStepType ==
  TypeOK /\ (StartLevel \/ LevelFails \/ Collect \/ Finish \/ HostEnds) => TypeOK'
<1> SUFFICES ASSUME TypeOK, StartLevel \/ LevelFails \/ Collect \/ Finish \/ HostEnds
             PROVE  TypeOK'
  OBVIOUS
<1>1. SortType /\ PlaceType /\ NodeType /\ FlagType /\ StreamType
  BY Grouped
<1>2. /\ UNCHANGED <<graph, host, degree, frontier, levels>>
      /\ UNCHANGED <<output, emitted, queue, bridge, read, ended>>
  BY DEF StartLevel, LevelFails, Collect, Finish, HostEnds, sortVars, nodeVars, streamVars
<1>3. Len(levels) \in Nat /\ level \in Nat
  BY <1>1 DEF SortType
<1>4. SortType'
  <2>1. CASE StartLevel
    BY <1>1, <1>2, <1>3, <2>1 DEF SortType, StartLevel
  <2>2. CASE LevelFails \/ Collect \/ Finish \/ HostEnds
    <3>1. UNCHANGED level
      BY <2>2, Zenon DEF LevelFails, Collect, Finish, HostEnds
    <3>2. QED
      BY <1>1, <1>2, <3>1 DEF SortType
  <2>3. QED
    BY <2>1, <2>2
<1>5. PlaceType'
  BY <1>1 DEF PlaceType, StartLevel, LevelFails, Collect, Finish, HostEnds
<1>6. NodeType'
  <2>1. CASE StartLevel
    <3>1. \A n \in Names : {p \in Predecessors(n) : output[p]} \subseteq Names
      BY <1>1, Edges DEF SortType
    <3>2. input' \in [Names -> SUBSET Names]
      BY <1>1, <2>1, <3>1 DEF StartLevel, NodeType
    <3>3. node' \in [Names -> States]
      BY <1>1, <2>1 DEF StartLevel, NodeType, States
    <3>4. QED
      BY <1>1, <1>2, <3>2, <3>3 DEF NodeType
  <2>2. CASE UNCHANGED <<node, input>>
    BY <1>1, <1>2, <2>2 DEF NodeType
  <2>3. QED
    BY <2>1, <2>2 DEF LevelFails, Collect, Finish, HostEnds, nodeVars
<1>7. FlagType'
  BY <1>1, <1>2, Zenon DEF FlagType
<1>8. StreamType'
  <2>1. /\ Enter \in Events /\ Exit \in Events /\ Metrics \in Events /\ Done \in Events
        /\ [kind |-> "host"] \in Events
    BY <1>3, EventTypes
  <2>2. read \in Nat /\ OuterQueue \in Nat
    BY <1>1, DAGAssumption DEF StreamType
  <2>3. \/ \E e \in Events : log' = Accepted(log, e)
        \/ \E d, e \in Events : log' = Accepted(Accepted(log, d), e)
    BY <2>1 DEF StartLevel, LevelFails, Collect, Finish, HostEnds
  <2>4. ASSUME NEW s \in Seq(Events), read <= Len(s), Len(s) - read <= OuterQueue, NEW e \in Events
        PROVE  /\ Accepted(s, e) \in Seq(Events)
               /\ read <= Len(Accepted(s, e)) /\ Len(Accepted(s, e)) - read <= OuterQueue
    BY <2>2, <2>4, AcceptedBound
  <2>5. log' \in Seq(Events) /\ read <= Len(log') /\ Len(log') - read <= OuterQueue
    <3>1. log \in Seq(Events) /\ read <= Len(log) /\ Len(log) - read <= OuterQueue
      BY <1>1 DEF StreamType
    <3>2. CASE \E e \in Events : log' = Accepted(log, e)
      BY <2>4, <3>1, <3>2
    <3>3. CASE \E d, e \in Events : log' = Accepted(Accepted(log, d), e)
      <4>1. PICK d \in Events, e \in Events : log' = Accepted(Accepted(log, d), e)
        BY <3>3
      <4> DEFINE once == Accepted(log, d)
      <4>2. once \in Seq(Events) /\ read <= Len(once) /\ Len(once) - read <= OuterQueue
        BY <2>4, <3>1
      <4>3. log' = Accepted(once, e)
        BY <4>1
      <4> HIDE DEF once
      <4>4. QED
        BY <2>4, <4>2, <4>3
    <3>4. QED
      BY <2>3, <3>2, <3>3
  <2>6. QED
    BY <1>1, <1>2, <2>5 DEF StreamType
<1>9. QED
  BY <1>4, <1>5, <1>6, <1>7, <1>8, GroupedNext

\* A node's task and its bridge keep the types.
LEMMA NodeStepType ==
  ASSUME NEW n \in Names, TypeOK, Node(n) \/ NodeEmit(n) \/ Forward(n)
  PROVE  TypeOK'
<1>1. SortType /\ PlaceType /\ NodeType /\ FlagType /\ StreamType
  BY Grouped
<1>2. UNCHANGED <<graph, host, pc, degree, frontier, levels, level, input, read, ended>>
  BY DEF Node, NodeStart, NodeEmit, NodeEnd, NodeReturn, DrainTimeOut, Forward, sortVars,
     streamVars
<1>3. SortType' /\ PlaceType'
  BY <1>1, <1>2 DEF SortType, PlaceType
<1>4. /\ emitted' \in [Names -> Nat] /\ queue' \in [Names -> Seq(Nat)]
      /\ \A m \in Names : emitted'[m] <= MaxEvents[m] /\ Len(queue'[m]) <= NodeQueue
  <2>1. /\ NodeQueue \in Nat /\ queue[n] \in Seq(Nat) /\ Len(queue[n]) <= NodeQueue
        /\ emitted[n] \in Nat /\ MaxEvents[n] \in Nat
    BY <1>1, DAGAssumption DEF NodeType
  <2>2. \A e \in Nat : Put(queue[n], e) \in Seq(Nat) /\ Len(Put(queue[n], e)) <= NodeQueue
    BY <2>1, PutBound
  <2>3. CASE NodeEmit(n)
    <3> DEFINE rest == Put(queue[n], emitted[n] + 1)
    <3>1. rest \in Seq(Nat) /\ Len(rest) <= NodeQueue
      <4>1. emitted[n] + 1 \in Nat
        BY <2>1
      <4>2. QED
        BY <2>2, <4>1
    <3>2. /\ queue' = [queue EXCEPT ![n] = rest]
          /\ emitted' = [emitted EXCEPT ![n] = @ + 1] /\ emitted[n] < MaxEvents[n]
      BY <2>3 DEF NodeEmit
    <3> HIDE DEF rest
    <3>3. queue' \in [Names -> Seq(Nat)] /\ \A m \in Names : Len(queue'[m]) <= NodeQueue
      BY <1>1, <3>1, <3>2 DEF NodeType
    <3>4. emitted' \in [Names -> Nat] /\ \A m \in Names : emitted'[m] <= MaxEvents[m]
      BY <1>1, <2>1, <3>2 DEF NodeType
    <3>5. QED
      BY <3>3, <3>4
  <2>4. CASE NodeEnd(n)
    <3>1. UNCHANGED emitted /\ queue' = [queue EXCEPT ![n] = Put(@, 0)]
      BY <2>4 DEF NodeEnd
    <3>2. QED
      BY <1>1, <2>2, <3>1 DEF NodeType
  <2>5. CASE Forward(n)
    <3>1. UNCHANGED emitted /\ queue' = [queue EXCEPT ![n] = Tail(@)] /\ queue[n] # <<>>
      BY <2>5 DEF Forward
    <3>2. Tail(queue[n]) \in Seq(Nat) /\ Len(Tail(queue[n])) <= NodeQueue
      BY <2>1, <3>1
    <3>3. QED
      BY <1>1, <3>1, <3>2 DEF NodeType
  <2>6. CASE NodeStart(n) \/ NodeReturn(n) \/ DrainTimeOut(n)
    BY <1>1, <2>6 DEF NodeStart, NodeReturn, DrainTimeOut, NodeType
  <2>7. QED
    BY <2>3, <2>4, <2>5, <2>6 DEF Node
<1>5. node' \in [Names -> States]
  <2>1. UNCHANGED node \/ \E state \in States : node' = [node EXCEPT ![n] = state]
    BY DEF Node, NodeStart, NodeEmit, NodeEnd, NodeReturn, DrainTimeOut, Forward, States
  <2>2. QED
    BY <1>1, <2>1 DEF NodeType
<1>6. NodeType'
  BY <1>1, <1>2, <1>4, <1>5 DEF NodeType
<1>7. FlagType'
  <2>1. UNCHANGED output \/ \E text \in BOOLEAN : output' = [output EXCEPT ![n] = text]
    BY Zenon DEF Node, NodeStart, NodeEmit, NodeEnd, NodeReturn, DrainTimeOut, Forward
  <2>2. UNCHANGED bridge \/ \E alive \in BOOLEAN : bridge' = [bridge EXCEPT ![n] = alive]
    BY DEF Node, NodeStart, NodeEmit, NodeEnd, NodeReturn, DrainTimeOut, Forward
  <2>3. output' \in [Names -> BOOLEAN]
    BY <1>1, <2>1, Zenon DEF FlagType
  <2>4. bridge' \in [Names -> BOOLEAN]
    BY <1>1, <2>2, Zenon DEF FlagType
  <2>5. QED
    BY <1>1, <1>2, <2>3, <2>4, Zenon DEF FlagType
<1>8. StreamType'
  <2>1. CASE UNCHANGED log
    BY <1>1, <1>2, <2>1 DEF StreamType
  <2>2. CASE Forward(n) /\ log' = Accepted(log, [kind |-> "node", node |-> n, number |-> Head(queue[n])])
    <3>1. Head(queue[n]) \in Nat
      BY <1>1, <2>2 DEF NodeType, Forward
    <3> DEFINE event == [kind |-> "node", node |-> n, number |-> Head(queue[n])]
    <3>2. event \in Events
      BY <3>1 DEF Events, NodeEvents
    <3>3. log' = Accepted(log, event)
      BY <2>2
    <3> HIDE DEF event
    <3>4. read \in Nat /\ OuterQueue \in Nat
      BY <1>1, DAGAssumption DEF StreamType
    <3>5. log' \in Seq(Events) /\ read <= Len(log') /\ Len(log') - read <= OuterQueue
      BY <1>1, <3>2, <3>3, <3>4, AcceptedBound DEF StreamType
    <3>6. QED
      BY <1>1, <1>2, <3>5 DEF StreamType
  <2>3. QED
    BY <2>1, <2>2 DEF Node, NodeStart, NodeEmit, NodeEnd, NodeReturn, DrainTimeOut, Forward
<1>9. QED
  BY <1>3, <1>6, <1>7, <1>8, GroupedNext

\* What a cancellation does to all but the queues.
LEMMA CancelFacts ==
  ASSUME Cancel
  PROVE  /\ pc = "gather" /\ pc' = "cancelled"
         /\ UNCHANGED <<graph, host, degree, frontier, levels, level, input, output, emitted, log>>
         /\ UNCHANGED <<read, ended>>
         /\ node' = [n \in Names |->
              IF node[n] \in {"ready", "running", "draining"} THEN "cancelled" ELSE node[n]]
         /\ \A n \in Names : bridge'[n] => bridge[n] /\ node[n] # "draining"
<1>1. pc = "gather" /\ pc' = "cancelled"
  BY Zenon DEF Cancel
<1>2. UNCHANGED <<graph, host, sortVars, level, input, output, emitted, log, streamVars>>
  BY Zenon DEF Cancel
<1>3. /\ UNCHANGED <<graph, host, degree, frontier, levels, level, input, output, emitted, log>>
      /\ UNCHANGED <<read, ended>>
  BY <1>2 DEF sortVars, streamVars
<1>4. node' = [n \in Names |->
         IF node[n] \in {"ready", "running", "draining"} THEN "cancelled" ELSE node[n]]
  BY Zenon DEF Cancel
<1>5. bridge' = [n \in Names |-> bridge[n] /\ node[n] # "draining"]
  BY Zenon DEF Cancel
<1>6. \A n \in Names : bridge'[n] => bridge[n] /\ node[n] # "draining"
  BY <1>5, Zenon
<1>7. QED
  BY <1>1, <1>3, <1>4, <1>6

\* Cancellation and the consumer keep the types.
LEMMA OutsideStepType == TypeOK /\ (Cancel \/ StreamNext) => TypeOK'
<1> SUFFICES ASSUME TypeOK, Cancel \/ StreamNext PROVE TypeOK'
  OBVIOUS
<1>1. SortType /\ PlaceType /\ NodeType /\ FlagType /\ StreamType
  BY Grouped
<1>2. UNCHANGED <<graph, host, degree, frontier, levels, level, input, output, emitted, log>>
  BY DEF Cancel, StreamNext, sortVars, nodeVars
<1>3. SortType'
  BY <1>1, <1>2 DEF SortType
<1>4. PlaceType'
  BY <1>1 DEF PlaceType, Cancel, StreamNext
<1>5. NodeType'
  <2>1. CASE Cancel
    <3>1. \A n \in Names : /\ Put(queue[n], 0) \in Seq(Nat) /\ Len(Put(queue[n], 0)) <= NodeQueue
      BY <1>1, PutBound, DAGAssumption DEF NodeType
    <3>2. queue' = [n \in Names |-> IF node[n] = "running" THEN Put(queue[n], 0) ELSE queue[n]]
      BY <2>1 DEF Cancel
    <3>3. queue' \in [Names -> Seq(Nat)] /\ \A n \in Names : Len(queue'[n]) <= NodeQueue
      BY <1>1, <3>1, <3>2 DEF NodeType
    <3>4. node' \in [Names -> States]
      BY <1>1, <2>1 DEF NodeType, Cancel, States
    <3>5. QED
      BY <1>1, <1>2, <3>3, <3>4 DEF NodeType
  <2>2. CASE StreamNext
    BY <1>1, <1>2, <2>2 DEF NodeType, StreamNext, nodeVars
  <2>3. QED
    BY <2>1, <2>2
<1>6. FlagType'
  <2>1. CASE Cancel
    <3>1. /\ UNCHANGED ended
          /\ bridge' = [n \in Names |-> bridge[n] /\ node[n] # "draining"]
      BY <2>1, Zenon DEF Cancel, streamVars
    <3>2. bridge' \in [Names -> BOOLEAN]
      BY <3>1, Zenon
    <3>3. QED
      BY <1>1, <1>2, <3>1, <3>2, Zenon DEF FlagType
  <2>2. CASE StreamNext
    BY <1>1, <1>2, <2>2, Zenon DEF FlagType, StreamNext, nodeVars
  <2>3. QED
    BY <2>1, <2>2
<1>7. StreamType'
  <2>1. read' = read \/ (read' = read + 1 /\ read < Len(log))
    BY CancelFacts DEF StreamNext
  <2>2. Len(log) \in Nat /\ OuterQueue \in Nat
    BY <1>1, DAGAssumption DEF StreamType
  <2>3. QED
    BY <1>1, <1>2, <2>1, <2>2 DEF StreamType
<1>8. QED
  BY <1>3, <1>4, <1>5, <1>6, <1>7, GroupedNext

\* Every step keeps the types.
LEMMA StepType == TypeOK /\ [Next]_vars => TypeOK'
<1> SUFFICES ASSUME TypeOK, [Next]_vars PROVE TypeOK'
  OBVIOUS
<1>1. CASE UNCHANGED vars
  BY <1>1 DEF vars, sortVars, nodeVars, streamVars, TypeOK
<1>2. CASE Main
  BY <1>2, SortStepType, RunStepType DEF Main
<1>3. CASE Cancel \/ StreamNext
  BY <1>3, OutsideStepType
<1>4. ASSUME NEW n \in Names, Node(n) \/ NodeEmit(n) \/ Forward(n) PROVE TypeOK'
  BY <1>4, NodeStepType
<1>5. QED
  BY <1>1, <1>2, <1>3, <1>4 DEF Next

\* Every variable keeps its type, and both queues keep their bounds.
THEOREM TypeCorrect == Spec => []TypeOK
<1>1. QED
  BY InitType, StepType, PTL DEF Spec

-----------------------------------------------------------------------------
(* The sort.  A degree counts the edges from nodes that are not sorted yet, so that a
   node is reached once, when all its predecessors are in earlier levels. *)

DegreeInv ==
  /\ \A n \in Names : degree[n] = Cardinality(EdgesFrom(Names \ Sorted, n))
  /\ frontier \cap Sorted = {}
  /\ \A n \in Sorted \cup frontier : degree[n] = 0
LevelsInv ==
  /\ \A j, k \in DOMAIN levels : j # k => levels[j] \cap levels[k] = {}
  /\ \A k \in DOMAIN levels : \A n \in levels[k] : \A p \in Predecessors(n) :
       \E j \in DOMAIN levels : j < k /\ p \in levels[j]
SortInv == DegreeInv /\ LevelsInv

\* A level more.
LEMMA OneMore ==
  ASSUME TypeOK, SortLevel
  PROVE  /\ Len(levels) \in Nat /\ DOMAIN levels = 1..Len(levels)
         /\ DOMAIN levels' = 1..(Len(levels) + 1)
         /\ \A k \in DOMAIN levels : levels'[k] = levels[k]
         /\ levels'[Len(levels) + 1] = frontier
         /\ Sorted' = Sorted \cup frontier
         /\ Sorted \subseteq Names /\ frontier \subseteq Names /\ UNCHANGED graph
<1>1. levels \in Seq(SUBSET Names) /\ frontier \in SUBSET Names /\ levels' = Append(levels, frontier)
  BY DEF TypeOK, SortLevel
<1>2. /\ Len(levels) \in Nat /\ DOMAIN levels = 1..Len(levels)
      /\ DOMAIN levels' = 1..(Len(levels) + 1)
      /\ \A k \in DOMAIN levels : levels'[k] = levels[k]
      /\ levels'[Len(levels) + 1] = frontier
  BY <1>1
<1>3. Sorted' = Sorted \cup frontier
  <2>1. Sorted' = UNION {levels'[k] : k \in DOMAIN levels'}
    BY DEF Sorted
  <2>2. \A n : n \in Sorted' <=> \E k \in 1..(Len(levels) + 1) : n \in levels'[k]
    BY <1>2, <2>1
  <2>3. \A n : n \in Sorted <=> \E k \in 1..Len(levels) : n \in levels[k]
    BY <1>2 DEF Sorted
  <2>4. 1..(Len(levels) + 1) = (1..Len(levels)) \cup {Len(levels) + 1}
    BY <1>2
  <2>5. \A n : n \in Sorted' <=> n \in Sorted \/ n \in frontier
    BY <1>2, <2>2, <2>3, <2>4
  <2>6. QED
    BY <2>5
<1>4. Sorted \subseteq Names
  BY <1>1, <1>2 DEF Sorted
<1>5. QED
  BY <1>1, <1>2, <1>3, <1>4 DEF SortLevel

\* The predecessors of a node of degree 0 are sorted.
LEMMA Reached ==
  ASSUME TypeOK, DegreeInv, NEW n \in Names, degree[n] = 0
  PROVE  Predecessors(n) \subseteq Sorted
<1> SUFFICES ASSUME NEW p \in Predecessors(n), p \notin Sorted PROVE FALSE
  OBVIOUS
<1>1. graph \in Graphs
  BY DEF TypeOK
<1>2. PICK i \in DOMAIN graph.edges : graph.edges[i].source = p /\ graph.edges[i].target = n
  BY DEF Predecessors
<1>3. p \in Names /\ IsFiniteSet(EdgesFrom(Names \ Sorted, n))
  BY <1>1, Edges
<1>4. i \in EdgesFrom(Names \ Sorted, n)
  BY <1>2, <1>3 DEF EdgesFrom
<1>5. Cardinality(EdgesFrom(Names \ Sorted, n)) = 0
  BY DEF DegreeInv
<1>6. QED
  BY <1>3, <1>4, <1>5, FS_EmptySet

\* Nothing is sorted yet.
LEMMA InitSort == Init => SortInv
<1> SUFFICES ASSUME Init PROVE SortInv
  OBVIOUS
<1>1. levels = <<>> /\ DOMAIN levels = {}
  BY DEF Init
<1>2. Sorted = {} /\ Names \ Sorted = Names
  BY <1>1 DEF Sorted
<1>3. DegreeInv
  BY <1>2, DAGAssumption DEF Init, DegreeInv, GraphType
<1>4. QED
  BY <1>1, <1>3 DEF SortInv, LevelsInv

\* Degrees follow the sorted nodes.
LEMMA StepDegree == TypeOK /\ DegreeInv /\ SortLevel => DegreeInv'
<1> SUFFICES ASSUME TypeOK, DegreeInv, SortLevel PROVE DegreeInv'
  OBVIOUS
<1>1. /\ Sorted' = Sorted \cup frontier /\ UNCHANGED graph
      /\ Sorted \subseteq Names /\ frontier \subseteq Names
  BY OneMore
<1>2. graph \in Graphs /\ degree \in [Names -> Int]
  BY DEF TypeOK
<1>3. ASSUME NEW n \in Names PROVE degree'[n] = Cardinality(EdgesFrom(Names \ Sorted, n)')
  <2> DEFINE old == EdgesFrom(Names \ Sorted, n)
             gone == EdgesFrom(frontier, n)
  <2>1. EdgesFrom(Names \ Sorted, n)' = old \ gone /\ old \cap gone = gone
    BY <1>1 DEF EdgesFrom, DegreeInv
  <2>2. degree'[n] = degree[n] - Cardinality(gone) /\ degree[n] = Cardinality(old)
    BY DEF SortLevel, DegreeInv
  <2>3. IsFiniteSet(old)
    BY <1>2, Edges
  <2> HIDE DEF old, gone
  <2>4. Cardinality(old \ gone) = Cardinality(old) - Cardinality(old \cap gone)
    BY <2>3, FS_Difference
  <2>5. QED
    BY <2>1, <2>2, <2>4
<1>4. frontier' = {n \in Names : degree[n] > 0 /\ degree'[n] = 0}
  BY DEF SortLevel
<1>5. \A n \in Sorted' : degree[n] = 0 /\ n \in Names
  BY <1>1 DEF DegreeInv
<1>6. frontier' \cap Sorted' = {}
  BY <1>4, <1>5
<1>7. ASSUME NEW n \in Sorted' PROVE degree'[n] = 0
  <2>1. n \in Names /\ degree[n] = 0
    BY <1>5
  <2>2. EdgesFrom(Names \ Sorted, n) = {}
    BY <1>2, <2>1, Edges, FS_EmptySet DEF DegreeInv
  <2>3. EdgesFrom(Names \ Sorted, n)' = {}
    BY <1>1, <2>2 DEF EdgesFrom
  <2>4. QED
    BY <1>3, <2>1, <2>3, FS_EmptySet
<1>8. \A n \in frontier' : degree'[n] = 0
  BY <1>4
<1>9. QED
  BY <1>3, <1>6, <1>7, <1>8 DEF DegreeInv

\* A new level holds new nodes, after all their predecessors.
LEMMA StepLevels == TypeOK /\ SortInv /\ SortLevel => LevelsInv'
<1> SUFFICES ASSUME TypeOK, SortInv, SortLevel PROVE LevelsInv'
  OBVIOUS
<1> DEFINE len == Len(levels)
<1>1. /\ len \in Nat /\ DOMAIN levels = 1..len /\ DOMAIN levels' = 1..(len + 1)
      /\ \A k \in 1..len : levels'[k] = levels[k]
      /\ levels'[len + 1] = frontier /\ UNCHANGED graph /\ frontier \subseteq Names
  BY OneMore
<1>2. \A k \in 1..len : levels[k] \cap frontier = {}
  BY <1>1 DEF SortInv, DegreeInv, Sorted
<1>3. \A n : Predecessors(n)' = Predecessors(n)
  BY <1>1 DEF Predecessors
<1>4. ASSUME NEW n \in frontier, NEW p \in Predecessors(n) PROVE \E j \in 1..len : p \in levels[j]
  <2>1. n \in Names /\ degree[n] = 0
    BY <1>1 DEF SortInv, DegreeInv
  <2>2. p \in Sorted
    BY <2>1, Reached DEF SortInv
  <2>3. QED
    BY <1>1, <2>2 DEF Sorted
<1> HIDE DEF len
<1>5. \A k \in 1..(len + 1) : k \in 1..len \/ k = len + 1
  BY <1>1
<1>6. ASSUME NEW j \in DOMAIN levels', NEW k \in DOMAIN levels', j # k
      PROVE  levels'[j] \cap levels'[k] = {}
  <2>1. \A a, b \in 1..len : a # b => levels[a] \cap levels[b] = {}
    BY <1>1 DEF SortInv, LevelsInv
  <2>2. QED
    BY <1>1, <1>2, <1>5, <1>6, <2>1
<1>7. ASSUME NEW k \in DOMAIN levels', NEW n \in levels'[k], NEW p \in Predecessors(n)
      PROVE  \E j \in DOMAIN levels' : j < k /\ p \in levels'[j]
  <2>1. CASE k \in 1..len
    <3>1. PICK j \in 1..len : j < k /\ p \in levels[j]
      BY <1>1, <1>7, <2>1 DEF SortInv, LevelsInv
    <3>2. QED
      BY <1>1, <3>1
  <2>2. CASE k = len + 1
    <3>1. PICK j \in 1..len : p \in levels[j]
      BY <1>1, <1>4, <1>7, <2>2
    <3>2. j \in DOMAIN levels' /\ j < k
      BY <1>1, <2>2
    <3>3. QED
      BY <1>1, <3>1, <3>2
  <2>3. QED
    BY <1>1, <1>5, <2>1, <2>2
<1>8. QED
  BY <1>3, <1>6, <1>7 DEF LevelsInv

\* All but the sort leave the levels alone.
LEMMA StepSort == TypeOK /\ SortInv /\ [Next]_vars => SortInv'
<1> SUFFICES ASSUME TypeOK, SortInv, [Next]_vars PROVE SortInv'
  OBVIOUS
<1>1. CASE SortLevel
  BY <1>1, StepDegree, StepLevels DEF SortInv
<1>2. CASE UNCHANGED <<graph, degree, frontier, levels>>
  BY <1>2 DEF SortInv, DegreeInv, LevelsInv, Sorted, EdgesFrom, Predecessors
<1>3. SortLevel \/ UNCHANGED <<graph, sortVars>>
  BY Zenon DEF Next, vars, Main, SortEnd, StartLevel, LevelFails, Collect, Finish, HostEnds, Cancel,
     StreamNext, Node, NodeStart, NodeEmit, NodeEnd, NodeReturn, DrainTimeOut, Forward
<1>4. QED
  BY <1>1, <1>2, <1>3 DEF sortVars

-----------------------------------------------------------------------------
(* Where the control is.  The nodes that were started are those of the levels so far; one
   that has not ended is in the newest level, and run waits for it or was cancelled. *)

PlaceInv ==
  /\ pc = "sort" => level = 0 /\ log = <<>>
  /\ pc \notin {"sort", "raised"} => Cardinality(Sorted) = Cardinality(graph.nodes)
  /\ pc \in {"over", "closed"} => level = Len(levels)
BegunInv ==
  /\ \A n \in Names : node[n] # "idle" <=> \E k \in 1..level : n \in levels[k]
  /\ \A k \in 1..level : levels[k] \subseteq graph.nodes
BusyInv ==
  \A n \in Names :
    /\ node[n] \notin {"idle", "returned", "raised"} =>
         pc \in {"gather", "cancelled"} /\ n \in levels[level]
    /\ bridge[n] => node[n] \in {"running", "draining", "cancelled"}
RunInv == TypeOK /\ SortInv /\ PlaceInv /\ BegunInv /\ BusyInv

\* Nothing has been started at first.
LEMMA InitRun == Init => RunInv
<1> SUFFICES ASSUME Init PROVE RunInv
  OBVIOUS
<1>1. TypeOK /\ SortInv
  BY InitType, InitSort
<1>2. PlaceInv
  BY DEF Init, PlaceInv
<1>3. BegunInv /\ BusyInv
  BY DEF Init, BegunInv, BusyInv
<1>4. QED
  BY <1>1, <1>2, <1>3 DEF RunInv

\* A bridge carries events over only while run waits for its node, or was cancelled.
LEMMA Carrying ==
  ASSUME BusyInv, NEW n \in Names, Forward(n)
  PROVE  pc \in {"gather", "cancelled"} /\ n \in levels[level]
BY DEF BusyInv, Forward

\* The steps of a node's task leave run alone.
LEMMA NodeAlone ==
  ASSUME NEW n \in Names, Node(n) \/ NodeEmit(n) \/ Forward(n)
  PROVE  /\ UNCHANGED <<graph, host, pc, degree, frontier, levels, level, input, read, ended>>
         /\ log' = log \/ Forward(n)
BY DEF Node, NodeStart, NodeEmit, NodeEnd, NodeReturn, DrainTimeOut, Forward, sortVars, streamVars

\* The place of run changes as the code says.
LEMMA StepPlace == TypeOK /\ PlaceInv /\ BusyInv /\ [Next]_vars => PlaceInv'
<1> SUFFICES ASSUME TypeOK, PlaceInv, BusyInv, [Next]_vars PROVE PlaceInv'
  OBVIOUS
<1>1. CASE SortLevel
  BY <1>1 DEF PlaceInv, SortLevel, streamVars
<1>2. CASE SortEnd
  BY <1>2 DEF PlaceInv, SortEnd, sortVars, streamVars, Sorted
<1>3. CASE StartLevel
  BY <1>3 DEF PlaceInv, StartLevel, sortVars, Sorted
<1>4. CASE LevelFails
  BY <1>4 DEF PlaceInv, LevelFails, sortVars, Sorted
<1>5. CASE Collect \/ Finish \/ HostEnds
  BY <1>5 DEF PlaceInv, Collect, Finish, HostEnds, sortVars, Sorted
<1>6. CASE Cancel
  BY <1>6, CancelFacts DEF PlaceInv, Sorted
<1>7. CASE UNCHANGED vars \/ StreamNext
  BY <1>7 DEF PlaceInv, StreamNext, vars, sortVars, Sorted
<1>8. ASSUME NEW n \in Names, Node(n) \/ NodeEmit(n) \/ Forward(n) PROVE PlaceInv'
  <2>1. /\ UNCHANGED <<graph, pc, levels, level>>
        /\ pc = "sort" => UNCHANGED log
    BY <1>8, NodeAlone, Carrying
  <2>2. QED
    BY <2>1 DEF PlaceInv, Sorted
<1>9. QED
  BY <1>1, <1>2, <1>3, <1>4, <1>5, <1>6, <1>7, <1>8 DEF Next, Main

\* The nodes of the next level are new.
LEMMA NextLevel ==
  ASSUME TypeOK, SortInv, BegunInv, StartLevel
  PROVE  /\ level \in Nat /\ level + 1 \in DOMAIN levels /\ level' = level + 1
         /\ levels[level + 1] \subseteq Names /\ levels[level + 1] \subseteq graph.nodes
         /\ \A n \in levels[level + 1] : node[n] = "idle"
         /\ \A n \in Names : node'[n] = IF n \in levels[level + 1] THEN "ready" ELSE node[n]
         /\ UNCHANGED <<graph, levels, output, bridge>> /\ pc = "next" /\ pc' = "gather"
<1>1. /\ levels \in Seq(SUBSET Names) /\ level \in Nat /\ level < Len(levels)
      /\ Len(levels) \in Nat /\ DOMAIN levels = 1..Len(levels)
  BY DEF TypeOK, StartLevel
<1>2. level + 1 \in DOMAIN levels /\ \A k \in 1..level : k \in DOMAIN levels /\ k # level + 1
  BY <1>1
<1>3. levels[level + 1] \subseteq Names
  BY <1>1, <1>2
<1>4. \A n \in levels[level + 1] : ~ \E k \in 1..level : n \in levels[k]
  BY <1>2 DEF SortInv, LevelsInv
<1>5. \A n \in levels[level + 1] : node[n] = "idle"
  BY <1>3, <1>4 DEF BegunInv
<1>6. QED
  BY <1>1, <1>2, <1>3, <1>5 DEF StartLevel, sortVars

\* What the steps of a node's task do to its state.
LEMMA NodeMoves ==
  ASSUME TypeOK, NEW n \in Names, Node(n) \/ NodeEmit(n) \/ Forward(n)
  PROVE  /\ \A m \in Names : m # n => node'[m] = node[m] /\ bridge'[m] = bridge[m]
         /\ \/ UNCHANGED node /\ (bridge'[n] => bridge[n])
            \/ node[n] = "ready" /\ node'[n] = "running"
            \/ /\ node[n] = "ready" /\ node'[n] = "raised"
               /\ bridge' = bridge
            \/ node[n] = "running" /\ node'[n] = "draining"
            \/ node[n] = "draining" /\ node'[n] = "returned" /\ ~bridge'[n]
<1>1. node \in [Names -> States] /\ bridge \in [Names -> BOOLEAN]
  BY DEF TypeOK
<1>2. CASE NodeEmit(n)
  BY <1>2 DEF NodeEmit
<1>3. CASE Forward(n)
  BY <1>1, <1>3 DEF Forward
<1>4. CASE NodeStart(n)
  BY <1>1, <1>4 DEF NodeStart
<1>5. CASE NodeEnd(n)
  BY <1>1, <1>5 DEF NodeEnd
<1>6. CASE NodeReturn(n)
  BY <1>1, <1>6 DEF NodeReturn
<1>7. CASE DrainTimeOut(n)
  BY <1>1, <1>7 DEF DrainTimeOut
<1>8. QED
  BY <1>2, <1>3, <1>4, <1>5, <1>6, <1>7 DEF Node

\* A node is started with its level.
LEMMA StepBegun == TypeOK /\ SortInv /\ PlaceInv /\ BegunInv /\ [Next]_vars => BegunInv'
<1> SUFFICES ASSUME TypeOK, SortInv, PlaceInv, BegunInv, [Next]_vars PROVE BegunInv'
  OBVIOUS
<1>1. CASE SortLevel
  <2>1. level = 0 /\ UNCHANGED <<level, node, graph>>
    BY <1>1 DEF SortLevel, PlaceInv, nodeVars
  <2>2. 1..level = {}
    BY <2>1
  <2>3. QED
    BY <2>1, <2>2 DEF BegunInv
<1>2. CASE StartLevel
  <2>1. /\ level \in Nat /\ level' = level + 1 /\ UNCHANGED <<graph, levels>>
        /\ levels[level + 1] \subseteq graph.nodes
        /\ \A n \in Names : node'[n] = IF n \in levels[level + 1] THEN "ready" ELSE node[n]
    BY <1>2, NextLevel
  <2>2. 1..level' = (1..level) \cup {level + 1}
    BY <2>1
  <2>3. QED
    BY <2>1, <2>2 DEF BegunInv
<1>3. CASE SortEnd \/ LevelFails \/ Collect \/ Finish \/ HostEnds \/ UNCHANGED vars \/ StreamNext
  BY <1>3 DEF BegunInv, SortEnd, LevelFails, Collect, Finish, HostEnds, StreamNext, vars, sortVars,
     nodeVars
<1>4. CASE Cancel
  <2>1. /\ UNCHANGED <<graph, levels, level>>
        /\ node' = [n \in Names |->
             IF node[n] \in {"ready", "running", "draining"} THEN "cancelled" ELSE node[n]]
    BY <1>4, CancelFacts
  <2>2. \A n \in Names : node'[n] # "idle" <=> node[n] # "idle"
    BY <2>1
  <2>3. QED
    BY <2>1, <2>2 DEF BegunInv
<1>5. ASSUME NEW n \in Names, Node(n) \/ NodeEmit(n) \/ Forward(n) PROVE BegunInv'
  <2>1. UNCHANGED <<graph, levels, level>>
    BY <1>5, NodeAlone
  <2>2. \A m \in Names : node'[m] # "idle" <=> node[m] # "idle"
    BY <1>5, NodeMoves
  <2>3. QED
    BY <2>1, <2>2 DEF BegunInv
<1>6. QED
  BY <1>1, <1>2, <1>3, <1>4, <1>5 DEF Next, Main

\* A node that has not ended holds run back.
LEMMA StepBusy == RunInv /\ [Next]_vars => BusyInv'
<1> SUFFICES ASSUME RunInv, [Next]_vars PROVE BusyInv'
  OBVIOUS
<1> USE DEF RunInv
<1>1. CASE StartLevel
  <2>1. /\ level' = level + 1 /\ UNCHANGED <<levels, bridge>> /\ pc = "next" /\ pc' = "gather"
        /\ \A n \in levels[level + 1] : node[n] = "idle"
        /\ \A n \in Names : node'[n] = IF n \in levels[level + 1] THEN "ready" ELSE node[n]
    BY <1>1, NextLevel
  <2>2. \A n \in Names : node[n] \in {"idle", "returned", "raised"} /\ ~bridge[n]
    BY <2>1 DEF BusyInv
  <2>3. QED
    BY <2>1, <2>2 DEF BusyInv
<1>2. CASE SortLevel \/ SortEnd \/ LevelFails \/ Finish \/ HostEnds
  <2>1. UNCHANGED <<node, bridge>> /\ pc \notin {"gather", "cancelled"}
    BY <1>2 DEF SortLevel, SortEnd, LevelFails, Finish, HostEnds, nodeVars
  <2>2. QED
    BY <2>1 DEF BusyInv
<1>3. CASE Collect
  <2>1. UNCHANGED <<node, bridge>> /\ \A n \in levels[level] : node[n] \in {"returned", "raised"}
    BY <1>3 DEF Collect, nodeVars
  <2>2. QED
    BY <2>1 DEF BusyInv
<1>4. CASE UNCHANGED vars \/ StreamNext
  BY <1>4 DEF BusyInv, StreamNext, vars, sortVars, nodeVars
<1>5. CASE Cancel
  <2>1. /\ pc = "gather" /\ pc' = "cancelled" /\ UNCHANGED <<levels, level>>
        /\ node' = [n \in Names |->
             IF node[n] \in {"ready", "running", "draining"} THEN "cancelled" ELSE node[n]]
        /\ \A n \in Names : bridge'[n] => bridge[n]
    BY <1>5, CancelFacts
  <2>2. QED
    BY <2>1 DEF BusyInv
<1>6. ASSUME NEW n \in Names, Node(n) \/ NodeEmit(n) \/ Forward(n) PROVE BusyInv'
  <2>1. UNCHANGED <<pc, levels, level>>
    BY <1>6, NodeAlone
  <2>2. QED
    BY <1>6, <2>1, NodeMoves DEF BusyInv
<1>7. QED
  BY <1>1, <1>2, <1>3, <1>4, <1>5, <1>6 DEF Next, Main

\* The invariant of the control.
LEMMA StepRun == RunInv /\ [Next]_vars => RunInv'
BY StepType, StepSort, StepPlace, StepBegun, StepBusy DEF RunInv

-----------------------------------------------------------------------------
(* Nodes and their predecessors *)

Over == {"returned", "raised"}

\* The index of a level that was started is one of levels.
LEMMA Started ==
  ASSUME TypeOK
  PROVE  /\ level \in Nat /\ Len(levels) \in Nat /\ level <= Len(levels)
         /\ DOMAIN levels = 1..Len(levels)
         /\ \A k \in 1..level : k \in DOMAIN levels /\ levels[k] \subseteq Names
<1>1. /\ levels \in Seq(SUBSET Names) /\ Len(levels) \in Nat /\ level \in Nat
      /\ level <= Len(levels) /\ DOMAIN levels = 1..Len(levels)
  BY DEF TypeOK
<1>2. \A k \in 1..level : k \in DOMAIN levels
  BY <1>1
<1>3. QED
  BY <1>1, <1>2

\* A node in a level before the newest has ended.
LEMMA Earlier ==
  ASSUME RunInv, NEW j \in 1..level, j # level, NEW p \in levels[j]
  PROVE  p \in Names /\ node[p] \in Over
<1>1. p \in Names /\ j \in DOMAIN levels /\ level \in DOMAIN levels
  <2>1. level \in 1..level
    BY Started DEF RunInv
  <2>2. QED
    BY <2>1, Started DEF RunInv
<1>2. node[p] # "idle"
  BY <1>1 DEF RunInv, BegunInv
<1>3. p \notin levels[level]
  BY <1>1 DEF RunInv, SortInv, LevelsInv
<1>4. QED
  BY <1>1, <1>2, <1>3 DEF RunInv, BusyInv, Over

\* The predecessors of a node that was started have ended.
LEMMA WaitedFor ==
  ASSUME RunInv, NEW n \in Names, node[n] # "idle"
  PROVE  \A p \in Predecessors(n) : p \in Names /\ node[p] \in Over
<1> SUFFICES ASSUME NEW p \in Predecessors(n) PROVE p \in Names /\ node[p] \in Over
  OBVIOUS
<1>1. PICK k \in 1..level : n \in levels[k]
  BY DEF RunInv, BegunInv
<1>2. k \in DOMAIN levels /\ level \in Nat /\ DOMAIN levels = 1..Len(levels)
  BY <1>1, Started DEF RunInv
<1>3. PICK j \in DOMAIN levels : j < k /\ p \in levels[j]
  BY <1>1, <1>2 DEF RunInv, SortInv, LevelsInv
<1>4. j \in 1..level /\ j # level
  BY <1>1, <1>2, <1>3
<1>5. QED
  BY <1>3, <1>4, Earlier

\* Those of a node that is about to be started have ended, too.
LEMMA WaitedForNext ==
  ASSUME RunInv, StartLevel, NEW n \in levels[level + 1]
  PROVE  \A p \in Predecessors(n) : p \in Names /\ node[p] \in Over
<1> SUFFICES ASSUME NEW p \in Predecessors(n) PROVE p \in Names /\ node[p] \in Over
  OBVIOUS
<1>1. level \in Nat /\ level + 1 \in DOMAIN levels /\ pc = "next"
  BY NextLevel DEF RunInv
<1>2. PICK j \in DOMAIN levels : j < level + 1 /\ p \in levels[j]
  BY <1>1 DEF RunInv, SortInv, LevelsInv
<1>3. j \in 1..level
  BY <1>1, <1>2, Started DEF RunInv
<1>4. p \in Names /\ node[p] # "idle"
  BY <1>2, <1>3, Started DEF RunInv, BegunInv
<1>5. QED
  BY <1>1, <1>4 DEF RunInv, BusyInv, Over

\* When run comes to its end, exactly the nodes of the graph have begun and ended.
LEMMA AllEnded ==
  ASSUME RunInv, pc \in {"next", "over", "closed"}, level = Len(levels)
  PROVE  /\ {n \in Names : node[n] \in Over} = graph.nodes
         /\ {n \in Names : node[n] # "idle"} = graph.nodes
<1>1. DOMAIN levels = 1..level
  BY Started DEF RunInv
<1>2. Sorted \subseteq graph.nodes
  BY <1>1 DEF RunInv, BegunInv, Sorted
<1>3. Cardinality(Sorted) = Cardinality(graph.nodes)
  BY DEF RunInv, PlaceInv
<1>4. graph.nodes \in SUBSET Names
  BY DAGAssumption DEF RunInv, TypeOK, GraphType
<1>5. IsFiniteSet(graph.nodes)
  BY <1>4, DAGAssumption, FS_Subset
<1>6. Sorted = graph.nodes
  BY <1>2, <1>3, <1>5, FS_Subset
<1>7. \A n \in Names : n \in Sorted <=> node[n] # "idle"
  BY <1>1 DEF RunInv, BegunInv, Sorted
<1>8. \A n \in Names : node[n] # "idle" <=> node[n] \in Over
  BY DEF RunInv, BusyInv, Over
<1>9. QED
  BY <1>4, <1>6, <1>7, <1>8

-----------------------------------------------------------------------------
(* Inputs *)

\* What a predecessor has put out no longer changes when its successors have started.
LEMMA StepInputs == RunInv /\ InputsWhole /\ [Next]_vars => InputsWhole'
<1> SUFFICES ASSUME RunInv, InputsWhole, [Next]_vars PROVE InputsWhole'
  OBVIOUS
<1>1. UNCHANGED graph => \A n : Predecessors(n)' = Predecessors(n)
  BY DEF Predecessors
<1>2. CASE StartLevel
  <2>1. /\ UNCHANGED <<graph, output>>
        /\ \A n \in Names : node'[n] = IF n \in levels[level + 1] THEN "ready" ELSE node[n]
    BY <1>2, NextLevel DEF RunInv
  <2>2. input' = [n \in Names |->
          IF n \in levels[level + 1] THEN {p \in Predecessors(n) : output[p]} ELSE input[n]]
    BY <1>2 DEF StartLevel
  <2>3. QED
    BY <1>1, <2>1, <2>2 DEF InputsWhole
<1>3. CASE SortLevel \/ SortEnd \/ LevelFails \/ Collect \/ Finish \/ HostEnds
           \/ UNCHANGED vars \/ StreamNext
  <2>1. UNCHANGED <<graph, node, input, output>>
    BY <1>3 DEF SortLevel, SortEnd, LevelFails, Collect, Finish, HostEnds, StreamNext, vars, nodeVars
  <2>2. QED
    BY <1>1, <2>1 DEF InputsWhole
<1>4. CASE Cancel
  <2>1. /\ UNCHANGED <<graph, input, output>>
        /\ node' = [n \in Names |->
             IF node[n] \in {"ready", "running", "draining"} THEN "cancelled" ELSE node[n]]
    BY <1>4, CancelFacts
  <2>2. QED
    BY <1>1, <2>1 DEF InputsWhole
<1>5. ASSUME NEW m \in Names, Node(m) \/ NodeEmit(m) \/ Forward(m) PROVE InputsWhole'
  <2>1. /\ UNCHANGED <<graph, input>>
        /\ \A n \in Names : node'[n] # "idle" => node[n] # "idle"
    BY <1>5, NodeAlone, NodeMoves DEF RunInv
  <2>2. CASE UNCHANGED output
    BY <1>1, <2>1, <2>2 DEF InputsWhole
  <2>3. CASE NodeEnd(m)
    <3>1. node[m] = "running" /\ \E text \in BOOLEAN : output' = [output EXCEPT ![m] = text]
      BY <2>3 DEF NodeEnd
    <3>2. output \in [Names -> BOOLEAN]
      BY DEF RunInv, TypeOK
    <3>3. \A p \in Names : p # m => output'[p] = output[p]
      BY <3>1, <3>2
    <3>4. \A n \in Names : node[n] # "idle" => \A p \in Predecessors(n) : p \in Names /\ p # m
      BY <3>1, WaitedFor DEF Over
    <3>5. QED
      BY <1>1, <2>1, <3>3, <3>4 DEF InputsWhole
  <2>4. QED
    BY <1>5, <2>2, <2>3 DEF Node, NodeStart, NodeEmit, NodeReturn, DrainTimeOut, Forward
<1>6. QED
  BY <1>2, <1>3, <1>4, <1>5 DEF Next, Main

\* Whatever the graph and the order in which nodes end, a node's input holds the outputs
\* of all its predecessors, and what they have put out in the end.
THEOREM Inputs == Spec => []InputsWhole
<1>1. Init => RunInv /\ InputsWhole
  BY InitRun DEF Init, InputsWhole
<1>2. RunInv /\ InputsWhole /\ [Next]_vars => (RunInv /\ InputsWhole)'
  BY StepRun, StepInputs
<1>3. QED
  BY <1>1, <1>2, PTL DEF Spec

-----------------------------------------------------------------------------
(* The orchestrator implements TaskGraph *)

Begun == {n \in Names : node[n] # "idle"}
Ended == {n \in Names : node[n] \in {"returned", "raised"}}
IsOver == pc \in {"over", "closed"}

\* The initial states are those of a graph of tasks.
LEMMA RefinesInit == Init => Tasks!Init
<1> SUFFICES ASSUME Init PROVE Tasks!Init
  OBVIOUS
<1>1. graph \in Graphs /\ graph.nodes \in SUBSET Names
  BY DAGAssumption DEF Init, GraphType
<1>2. [n \in Names |-> Predecessors(n)] \in [Names -> SUBSET Names]
  BY <1>1, Edges
<1>3. Begun = {} /\ Ended = {} /\ IsOver = FALSE
  BY DEF Init, Begun, Ended, IsOver
<1>4. QED
  BY <1>1, <1>2, <1>3 DEF Tasks!Init, Begun, Ended, IsOver

\* A step that leaves these alone is a stutter.
LEMMA Stutter ==
  ASSUME UNCHANGED graph, Begun' = Begun, Ended' = Ended, IsOver' = IsOver
  PROVE  UNCHANGED Tasks!vars
<1>1. [n \in Names |-> Predecessors(n)]' = [n \in Names |-> Predecessors(n)]
  BY DEF Predecessors
<1>2. QED
  BY <1>1 DEF Tasks!vars, Begun, Ended, IsOver

\* A level begins its tasks.
LEMMA StartBegins == RunInv /\ StartLevel => Tasks!Begin
<1> SUFFICES ASSUME RunInv, StartLevel PROVE Tasks!Begin
  OBVIOUS
<1> DEFINE new == levels[level + 1]
<1>1. /\ new \subseteq Names /\ new \subseteq graph.nodes
      /\ \A n \in new : node[n] = "idle"
      /\ \A n \in Names : node'[n] = IF n \in new THEN "ready" ELSE node[n]
      /\ UNCHANGED graph /\ pc = "next" /\ pc' = "gather"
  BY NextLevel DEF RunInv
<1>2. \A n \in new : Predecessors(n) \subseteq Ended
  BY WaitedForNext DEF Over, Ended
<1> HIDE DEF new
<1>3. new \in SUBSET (graph.nodes \ Begun) /\ Begun' = Begun \cup new /\ Ended' = Ended
  BY <1>1 DEF Begun, Ended
<1>4. IsOver' = IsOver
  BY <1>1 DEF IsOver
<1>5. [n \in Names |-> Predecessors(n)]' = [n \in Names |-> Predecessors(n)]
  BY <1>1 DEF Predecessors
<1>6. \A n \in new : [m \in Names |-> Predecessors(m)][n] \subseteq Ended
  BY <1>1, <1>2
<1>7. QED
  BY <1>1, <1>3, <1>4, <1>5, <1>6 DEF Tasks!Begin, Begun, Ended, IsOver

\* A node that returns or raises ends its task; its other steps are stutters.
LEMMA NodeEnds ==
  ASSUME RunInv, NEW n \in Names, Node(n) \/ NodeEmit(n) \/ Forward(n)
  PROVE  Tasks!End \/ UNCHANGED Tasks!vars
<1>1. UNCHANGED <<graph, pc>>
  BY NodeAlone
<1>2. /\ \A m \in Names : m # n => node'[m] = node[m]
      /\ \/ UNCHANGED node
         \/ node[n] = "ready" /\ node'[n] = "running"
         \/ node[n] = "running" /\ node'[n] = "draining"
         \/ node[n] \in {"ready", "draining"} /\ node'[n] \in {"returned", "raised"}
  BY NodeMoves DEF RunInv
<1>3. Begun' = Begun /\ IsOver' = IsOver
  BY <1>1, <1>2 DEF Begun, IsOver
<1>4. CASE node[n] \in {"ready", "draining"} /\ node'[n] \in {"returned", "raised"}
  <2>1. n \in Begun \ Ended /\ Ended' = Ended \cup {n}
    BY <1>2, <1>4 DEF Begun, Ended
  <2>2. [m \in Names |-> Predecessors(m)]' = [m \in Names |-> Predecessors(m)]
    BY <1>1 DEF Predecessors
  <2>3. Tasks!End
    BY <1>1, <1>3, <2>1, <2>2 DEF Tasks!End, Begun, Ended, IsOver
  <2>4. QED
    BY <2>3
<1>5. CASE ~(node[n] \in {"ready", "draining"} /\ node'[n] \in {"returned", "raised"})
  <2>1. Ended' = Ended
    BY <1>2, <1>5 DEF Ended
  <2>2. QED
    BY <1>1, <1>3, <2>1, Stutter
<1>6. QED
  BY <1>4, <1>5

\* The end of run is the end of the whole: all nodes have run.
LEMMA FinishEnds == RunInv /\ Finish => Tasks!Finish
<1> SUFFICES ASSUME RunInv, Finish PROVE Tasks!Finish
  OBVIOUS
<1>1. /\ pc = "next" /\ level = Len(levels) /\ pc' = "over" /\ UNCHANGED <<graph, node>>
  BY DEF Finish, nodeVars
<1>2. Ended = graph.nodes
  BY <1>1, AllEnded DEF Ended, Over
<1>3. Begun' = Begun /\ Ended' = Ended /\ IsOver' = TRUE
  BY <1>1 DEF Begun, Ended, IsOver
<1>4. [n \in Names |-> Predecessors(n)]' = [n \in Names |-> Predecessors(n)]
  BY <1>1 DEF Predecessors
<1>5. QED
  BY <1>1, <1>2, <1>3, <1>4 DEF Tasks!Finish, Begun, Ended, IsOver

\* Each step is one of TaskGraph or a stutter.
LEMMA RefinesNext == RunInv /\ [Next]_vars => [Tasks!Next]_(Tasks!vars)
<1> SUFFICES ASSUME RunInv, [Next]_vars PROVE Tasks!Next \/ UNCHANGED Tasks!vars
  OBVIOUS
<1>1. CASE StartLevel
  BY <1>1, StartBegins DEF Tasks!Next
<1>2. CASE Finish
  BY <1>2, FinishEnds DEF Tasks!Next
<1>3. ASSUME NEW n \in Names, Node(n) \/ NodeEmit(n) \/ Forward(n)
      PROVE  Tasks!Next \/ UNCHANGED Tasks!vars
  BY <1>3, NodeEnds DEF Tasks!Next
<1>4. CASE Cancel
  <2>1. /\ pc = "gather" /\ pc' = "cancelled" /\ UNCHANGED graph
        /\ node' = [n \in Names |->
             IF node[n] \in {"ready", "running", "draining"} THEN "cancelled" ELSE node[n]]
    BY <1>4, CancelFacts
  <2>2. Begun' = Begun /\ Ended' = Ended /\ IsOver' = IsOver
    BY <2>1 DEF Begun, Ended, IsOver
  <2>3. QED
    BY <2>1, <2>2, Stutter
<1>5. CASE SortLevel \/ SortEnd \/ LevelFails \/ Collect \/ HostEnds \/ UNCHANGED vars
           \/ StreamNext
  <2>1. UNCHANGED <<graph, node>>
    BY <1>5 DEF SortLevel, SortEnd, LevelFails, Collect, HostEnds, StreamNext, vars, nodeVars
  <2>2. IsOver' = IsOver
    BY <1>5 DEF SortLevel, SortEnd, LevelFails, Collect, HostEnds, StreamNext, vars, IsOver
  <2>3. Begun' = Begun /\ Ended' = Ended
    BY <2>1 DEF Begun, Ended
  <2>4. QED
    BY <2>1, <2>2, <2>3, Stutter
<1>6. QED
  BY <1>1, <1>2, <1>3, <1>4, <1>5 DEF Next, Main

\* Every node runs at most once and after all its predecessors, and run is over only when
\* all nodes of the graph have run.
THEOREM Refinement == Spec => ImplementsTaskGraph
<1>1. QED
  BY InitRun, StepRun, RefinesInit, RefinesNext, PTL DEF Spec, Tasks!Spec, ImplementsTaskGraph

-----------------------------------------------------------------------------
(* The order of events.  What a sequence of events s, the levels lv and the number k of
   levels started have to do with each other; waiting says that the newest has no exit yet. *)

ExitsIn(s, k, waiting) ==
  \A i \in DOMAIN s : s[i].kind = "exit" =>
    s[i].level \in Nat /\ s[i].level <= k /\ (waiting => s[i].level < k)
NodesIn(s, lv, k) ==
  \A i \in DOMAIN s : s[i].kind = "node" => \E m \in 1..k : s[i].node \in lv[m]
Bracketed(s, lv) ==
  \A i, j \in DOMAIN s :
    /\ i < j /\ s[i].kind = "exit" /\ s[j].kind = "node" =>
         \A m \in 1..s[i].level : s[j].node \notin lv[m]
    /\ i < j /\ s[i].kind = "node" /\ s[j].kind = "enter" =>
         \A m \in s[j].level..Len(lv) : s[i].node \notin lv[m]
Ordered(s, lv, k, waiting) == ExitsIn(s, k, waiting) /\ NodesIn(s, lv, k) /\ Bracketed(s, lv)
Disjoint(lv) == \A j, m \in 1..Len(lv) : j # m => lv[j] \cap lv[m] = {}

\* The positions of a sequence with one event more.
LEMMA LastOne ==
  ASSUME NEW s \in Seq(Events), NEW e \in Events
  PROVE  LET t == Append(s, e)
         IN  /\ Len(s) \in Nat /\ DOMAIN s = 1..Len(s) /\ t[Len(s) + 1] = e
             /\ \A i \in DOMAIN t : i = Len(s) + 1 \/ (i \in DOMAIN s /\ t[i] = s[i])
             /\ \A i, j \in DOMAIN t : i < j => i \in DOMAIN s /\ t[i] = s[i]
OBVIOUS

\* An event that is of no level and no node changes nothing.
LEMMA AddPlain ==
  ASSUME NEW s \in Seq(Events), NEW e \in Events, e.kind \notin {"enter", "exit", "node"},
         NEW lv, NEW k, NEW waiting, Ordered(s, lv, k, waiting)
  PROVE  Ordered(Append(s, e), lv, k, waiting)
<1> DEFINE t == Append(s, e)
<1>1. /\ Len(s) \in Nat /\ t[Len(s) + 1] = e
      /\ \A i \in DOMAIN t : i = Len(s) + 1 \/ (i \in DOMAIN s /\ t[i] = s[i])
  BY LastOne
<1> HIDE DEF t
<1>2. ExitsIn(t, k, waiting)
  BY <1>1 DEF Ordered, ExitsIn
<1>3. NodesIn(t, lv, k)
  BY <1>1 DEF Ordered, NodesIn
<1>4. Bracketed(t, lv)
  BY <1>1 DEF Ordered, Bracketed
<1>5. QED
  BY <1>2, <1>3, <1>4 DEF Ordered, t

\* The exit of the newest level, when its nodes have ended.
LEMMA AddExit ==
  ASSUME NEW s \in Seq(Events), NEW e \in Events, NEW k \in Nat, e.kind = "exit", e.level = k,
         NEW lv, Ordered(s, lv, k, TRUE)
  PROVE  Ordered(Append(s, e), lv, k, FALSE)
<1> DEFINE t == Append(s, e)
<1>1. /\ Len(s) \in Nat /\ t[Len(s) + 1] = e
      /\ \A i \in DOMAIN t : i = Len(s) + 1 \/ (i \in DOMAIN s /\ t[i] = s[i])
      /\ \A i, j \in DOMAIN t : i < j => i \in DOMAIN s /\ t[i] = s[i]
  BY LastOne
<1> HIDE DEF t
<1>2. ExitsIn(t, k, FALSE)
  BY <1>1 DEF Ordered, ExitsIn
<1>3. NodesIn(t, lv, k)
  BY <1>1 DEF Ordered, NodesIn
<1>4. Bracketed(t, lv)
  BY <1>1 DEF Ordered, Bracketed
<1>5. QED
  BY <1>2, <1>3, <1>4 DEF Ordered, t

\* The event that enters the next level.
LEMMA AddEnter ==
  ASSUME NEW s \in Seq(Events), NEW e \in Events, NEW k \in Nat, NEW waiting,
         e.kind = "enter", e.level = k + 1,
         NEW lv, Len(lv) \in Nat, k < Len(lv), Disjoint(lv), Ordered(s, lv, k, waiting)
  PROVE  Ordered(Append(s, e), lv, k, waiting)
<1> DEFINE t == Append(s, e)
<1>1. /\ Len(s) \in Nat /\ t[Len(s) + 1] = e
      /\ \A i \in DOMAIN t : i = Len(s) + 1 \/ (i \in DOMAIN s /\ t[i] = s[i])
      /\ \A i, j \in DOMAIN t : i < j => i \in DOMAIN s /\ t[i] = s[i]
  BY LastOne
<1> HIDE DEF t
<1>2. ExitsIn(t, k, waiting)
  BY <1>1 DEF Ordered, ExitsIn
<1>3. NodesIn(t, lv, k)
  BY <1>1 DEF Ordered, NodesIn
<1>4. ASSUME NEW i \in DOMAIN s, s[i].kind = "node", NEW m \in (k + 1)..Len(lv)
      PROVE  s[i].node \notin lv[m]
  <2>1. PICK j \in 1..k : s[i].node \in lv[j]
    BY <1>4 DEF Ordered, NodesIn
  <2>2. j \in 1..Len(lv) /\ m \in 1..Len(lv) /\ j # m
    OBVIOUS
  <2>3. QED
    BY <2>1, <2>2 DEF Disjoint
<1>5. Bracketed(t, lv)
  BY <1>1, <1>4 DEF Ordered, Bracketed
<1>6. QED
  BY <1>2, <1>3, <1>5 DEF Ordered, t

\* An event of a node of the newest level.
LEMMA AddNode ==
  ASSUME NEW s \in Seq(Events), NEW e \in Events, NEW k \in Nat \ {0}, e.kind = "node",
         NEW lv, Len(lv) \in Nat, k <= Len(lv), e.node \in lv[k], Disjoint(lv),
         Ordered(s, lv, k, TRUE)
  PROVE  Ordered(Append(s, e), lv, k, TRUE)
<1> DEFINE t == Append(s, e)
<1>1. /\ Len(s) \in Nat /\ t[Len(s) + 1] = e
      /\ \A i \in DOMAIN t : i = Len(s) + 1 \/ (i \in DOMAIN s /\ t[i] = s[i])
      /\ \A i, j \in DOMAIN t : i < j => i \in DOMAIN s /\ t[i] = s[i]
  BY LastOne
<1> HIDE DEF t
<1>2. ExitsIn(t, k, TRUE)
  BY <1>1 DEF Ordered, ExitsIn
<1>3. NodesIn(t, lv, k)
  BY <1>1 DEF Ordered, NodesIn
<1>4. ASSUME NEW i \in DOMAIN s, s[i].kind = "exit", NEW m \in 1..s[i].level PROVE e.node \notin lv[m]
  <2>1. s[i].level \in Nat /\ s[i].level < k
    BY <1>4 DEF Ordered, ExitsIn
  <2>2. m \in 1..Len(lv) /\ k \in 1..Len(lv) /\ m # k
    BY <2>1
  <2>3. QED
    BY <2>2 DEF Disjoint
<1>5. Bracketed(t, lv)
  BY <1>1, <1>4 DEF Ordered, Bracketed
<1>6. QED
  BY <1>2, <1>3, <1>5 DEF Ordered, t

\* A level more has neither an exit nor events of its nodes.
LEMMA NewLevel ==
  ASSUME NEW s, NEW lv, NEW k \in Nat, NEW w, Ordered(s, lv, k, w)
  PROVE  Ordered(s, lv, k + 1, TRUE) /\ Ordered(s, lv, k, FALSE)
<1>1. ExitsIn(s, k + 1, TRUE) /\ ExitsIn(s, k, FALSE)
  BY DEF Ordered, ExitsIn
<1>2. NodesIn(s, lv, k + 1)
  BY DEF Ordered, NodesIn
<1>3. QED
  BY <1>1, <1>2 DEF Ordered

Waiting == pc \in {"gather", "cancelled"}
OrderInv == Ordered(log, levels, level, Waiting)

\* run and its nodes add their events in order.
LEMMA StepOrder == RunInv /\ OrderInv /\ [Next]_vars => OrderInv'
<1> SUFFICES ASSUME RunInv, OrderInv, [Next]_vars PROVE OrderInv'
  OBVIOUS
<1>1. /\ log \in Seq(Events) /\ level \in Nat /\ Len(levels) \in Nat /\ level <= Len(levels)
      /\ DOMAIN levels = 1..Len(levels)
  BY Started DEF RunInv, TypeOK
<1>2. Disjoint(levels)
  BY <1>1 DEF Disjoint, RunInv, SortInv, LevelsInv
<1>3. CASE SortLevel \/ SortEnd
  <2>1. log' = <<>> /\ DOMAIN log' = {}
    BY <1>3 DEF RunInv, PlaceInv, SortLevel, SortEnd
  <2>2. QED
    BY <2>1 DEF OrderInv, Ordered, ExitsIn, NodesIn, Bracketed
<1>4. CASE StartLevel \/ LevelFails
  <2>1. /\ log' = log \/ log' = Append(log, Enter)
        /\ UNCHANGED levels /\ level < Len(levels) /\ pc = "next"
        /\ \/ pc' = "gather" /\ level' = level + 1
           \/ pc' = "raised" /\ level' = level
    BY <1>4 DEF StartLevel, LevelFails, Accepted, sortVars
  <2>2. Enter \in Events /\ Enter.kind = "enter" /\ Enter.level = level + 1
    BY <1>1, EventTypes DEF Enter
  <2>3. Waiting = FALSE /\ Waiting' = (pc' = "gather")
    BY <2>1 DEF Waiting
  <2>4. Ordered(log, levels, level, FALSE)
    BY <2>3 DEF OrderInv
  <2>5. Ordered(Append(log, Enter), levels, level, FALSE)
    BY <1>1, <1>2, <2>1, <2>2, <2>4, AddEnter
  <2>6. Ordered(log', levels, level, FALSE)
    BY <2>1, <2>4, <2>5
  <2>7. Ordered(log', levels, level + 1, TRUE)
    BY <1>1, <2>6, NewLevel
  <2>8. CASE pc' = "gather" /\ level' = level + 1
    <3>1. Waiting' = TRUE
      BY <2>3, <2>8
    <3>2. QED
      BY <2>1, <2>7, <2>8, <3>1 DEF OrderInv
  <2>9. CASE pc' = "raised" /\ level' = level
    <3>1. Waiting' = FALSE
      BY <2>3, <2>9
    <3>2. QED
      BY <2>1, <2>6, <2>9, <3>1 DEF OrderInv
  <2>10. QED
    BY <2>1, <2>8, <2>9
<1>5. CASE Collect
  <2>1. /\ log' = log \/ log' = Append(log, Exit)
        /\ UNCHANGED <<levels, level>> /\ pc = "gather" /\ pc' = "next"
    BY <1>5 DEF Collect, Accepted, sortVars
  <2>2. Exit \in Events /\ Exit.kind = "exit" /\ Exit.level = level
    BY <1>1, EventTypes DEF Exit
  <2>3. Waiting = TRUE /\ Waiting' = FALSE
    BY <2>1 DEF Waiting
  <2>4. Ordered(log, levels, level, TRUE)
    BY <2>3 DEF OrderInv
  <2>5. Ordered(Append(log, Exit), levels, level, FALSE)
    BY <1>1, <2>2, <2>4, AddExit
  <2>6. Ordered(log, levels, level, FALSE)
    BY <1>1, <2>4, NewLevel
  <2>7. QED
    BY <2>1, <2>3, <2>5, <2>6 DEF OrderInv
<1>6. CASE Finish \/ HostEnds
  <2>1. /\ UNCHANGED <<levels, level>> /\ Waiting' = Waiting
        /\ \E e \in {Metrics, [kind |-> "host"]} : log' = Accepted(Accepted(log, e), Done)
    BY <1>6 DEF Finish, HostEnds, sortVars, Waiting
  <2>2. PICK e \in {Metrics, [kind |-> "host"]} : log' = Accepted(Accepted(log, e), Done)
    BY <2>1
  <2>3. e \in Events /\ e.kind \notin {"enter", "exit", "node"}
    BY <1>1, EventTypes DEF Metrics
  <2>4. Done \in Events /\ Done.kind \notin {"enter", "exit", "node"}
    BY <1>1, EventTypes DEF Done
  <2> DEFINE once == Accepted(log, e)
  <2>5. once \in Seq(Events) /\ (once = log \/ once = Append(log, e))
    BY <1>1, <2>3, AcceptedCases
  <2>6. log' = once \/ log' = Append(once, Done)
    BY <2>2 DEF Accepted
  <2> HIDE DEF once
  <2>7. Ordered(Append(log, e), levels, level, Waiting)
    BY <1>1, <2>3, AddPlain DEF OrderInv
  <2>8. Ordered(once, levels, level, Waiting)
    BY <2>5, <2>7 DEF OrderInv
  <2>9. Ordered(Append(once, Done), levels, level, Waiting)
    BY <2>4, <2>5, <2>8, AddPlain
  <2>10. Ordered(log', levels, level, Waiting)
    BY <2>6, <2>8, <2>9
  <2>11. QED
    BY <2>1, <2>10 DEF OrderInv
<1>7. CASE Cancel
  <2>1. UNCHANGED <<levels, level, log>> /\ pc = "gather" /\ pc' = "cancelled"
    BY <1>7, CancelFacts
  <2>2. Waiting' = Waiting
    BY <2>1 DEF Waiting
  <2>3. QED
    BY <2>1, <2>2 DEF OrderInv
<1>8. CASE UNCHANGED vars \/ StreamNext
  <2>1. UNCHANGED <<levels, level, log, pc>>
    BY <1>8 DEF StreamNext, vars, sortVars
  <2>2. QED
    BY <2>1 DEF OrderInv, Waiting
<1>9. ASSUME NEW n \in Names, Node(n) \/ NodeEmit(n) \/ Forward(n) PROVE OrderInv'
  <2>1. UNCHANGED <<levels, level, pc>> /\ Waiting' = Waiting
    BY <1>9, NodeAlone DEF Waiting
  <2>2. CASE log' = log
    BY <2>1, <2>2 DEF OrderInv
  <2>3. CASE log' # log
    <3>1. Forward(n) /\ pc \in {"gather", "cancelled"} /\ n \in levels[level]
      BY <1>9, <2>3, NodeAlone, Carrying DEF RunInv
    <3>2. queue[n] \in Seq(Nat) /\ queue[n] # <<>> /\ node[n] # "idle"
      BY <3>1 DEF RunInv, TypeOK, BusyInv, Forward
    <3> DEFINE event == [kind |-> "node", node |-> n, number |-> Head(queue[n])]
    <3>3. event.kind = "node" /\ event.node = n
      OBVIOUS
    <3>4. event \in Events
      <4>1. Head(queue[n]) \in Nat
        BY <3>2
      <4>2. QED
        BY <4>1 DEF Events, NodeEvents
    <3>5. log' = Append(log, event)
      BY <2>3, <3>1 DEF Forward, Accepted
    <3> HIDE DEF event
    <3>6. level \in Nat \ {0}
      BY <1>1, <3>2 DEF RunInv, BegunInv
    <3>7. Waiting = TRUE
      BY <3>1 DEF Waiting
    <3>8. Ordered(log, levels, level, TRUE)
      BY <3>7 DEF OrderInv
    <3>9. Ordered(Append(log, event), levels, level, TRUE)
      BY <1>1, <1>2, <3>1, <3>3, <3>4, <3>6, <3>8, AddNode
    <3>10. QED
      BY <2>1, <3>5, <3>7, <3>9 DEF OrderInv
  <2>4. QED
    BY <2>2, <2>3
<1>10. QED
  BY <1>3, <1>4, <1>5, <1>6, <1>7, <1>8, <1>9 DEF Next, Main

\* Events of a node lie between the events that enter and exit its level, also when run
\* gives a bridge up or is cancelled.
THEOREM Brackets == Spec => []EventsBracketed
<1>1. Init => RunInv /\ OrderInv
  <2>1. Init => OrderInv
    BY DEF Init, OrderInv, Ordered, ExitsIn, NodesIn, Bracketed
  <2>2. QED
    BY <2>1, InitRun
<1>2. RunInv /\ OrderInv /\ [Next]_vars => (RunInv /\ OrderInv)'
  BY StepRun, StepOrder
<1>3. OrderInv => EventsBracketed
  BY DEF OrderInv, Ordered, Bracketed, EventsBracketed
<1>4. QED
  BY <1>1, <1>2, <1>3, PTL DEF Spec

-----------------------------------------------------------------------------
(* The end of the API's stream *)

DoneInv ==
  host = "api" =>
    /\ \A i \in DOMAIN log : log[i].kind = "done" => i = Len(log) /\ pc = "over"
    /\ pc # "closed"
    /\ ended => read \in DOMAIN log /\ log[read].kind = "done"

\* An event of another kind, before run is over.
LEMMA AddOther ==
  ASSUME log \in Seq(Events), NEW e \in Events, e.kind # "done", DoneInv, pc # "over",
         pc' \notin {"over", "closed"}, log' = Accepted(log, e), UNCHANGED <<host, read, ended>>
  PROVE  DoneInv'
<1>1. log' = log \/ log' = Append(log, e)
  BY DEF Accepted
<1>2. /\ DOMAIN log' = 1..Len(log') /\ Len(log') \in Nat
      /\ \A i \in DOMAIN log' : log'[i] = e \/ (i \in DOMAIN log /\ log'[i] = log[i])
  <2>1. CASE log' = log
    BY <2>1
  <2>2. CASE log' = Append(log, e)
    BY <2>2, LastOne
  <2>3. QED
    BY <1>1, <2>1, <2>2
<1>3. host = "api" => (\A i \in DOMAIN log : log[i].kind # "done") /\ ~ended
  BY DEF DoneInv
<1>4. host = "api" => \A i \in DOMAIN log' : log'[i].kind # "done"
  BY <1>2, <1>3
<1>5. QED
  BY <1>3, <1>4 DEF DoneInv

\* There is no DoneEvent before run is over, and nothing after it.
LEMMA StepDone == RunInv /\ DoneInv /\ [Next]_vars => DoneInv'
<1> SUFFICES ASSUME RunInv, DoneInv, [Next]_vars PROVE DoneInv'
  OBVIOUS
<1>1. log \in Seq(Events) /\ level \in Nat
  BY DEF RunInv, TypeOK
<1>2. CASE SortLevel \/ SortEnd
  BY <1>2 DEF DoneInv, SortLevel, SortEnd, streamVars
<1>3. CASE StartLevel \/ LevelFails
  <2>1. /\ pc = "next" /\ pc' \in {"gather", "raised"} /\ log' = Accepted(log, Enter)
        /\ UNCHANGED <<host, read, ended>>
    BY <1>3 DEF StartLevel, LevelFails, streamVars
  <2>2. Enter \in Events /\ Enter.kind # "done"
    BY <1>1, EventTypes DEF Enter
  <2>3. QED
    BY <1>1, <2>1, <2>2, AddOther
<1>4. CASE Collect
  <2>1. /\ pc = "gather" /\ pc' = "next" /\ log' = Accepted(log, Exit)
        /\ UNCHANGED <<host, read, ended>>
    BY <1>4 DEF Collect, streamVars
  <2>2. Exit \in Events /\ Exit.kind # "done"
    BY <1>1, EventTypes DEF Exit
  <2>3. QED
    BY <1>1, <2>1, <2>2, AddOther
<1>5. CASE Finish
  <2>1. /\ pc = "next" /\ pc' = "over" /\ log' = Accepted(Accepted(log, Metrics), Done)
        /\ UNCHANGED <<host, read, ended>>
    BY <1>5 DEF Finish, streamVars
  <2>2. /\ Metrics \in Events /\ Metrics.kind # "done"
        /\ Done \in Events
    BY <1>1, EventTypes DEF Metrics
  <2> DEFINE once == Accepted(log, Metrics)
  <2>3. once \in Seq(Events) /\ (once = log \/ once = Append(log, Metrics))
    BY <1>1, <2>2, AcceptedCases
  <2>4. log' = once \/ log' = Append(once, Done)
    BY <2>1 DEF Accepted
  <2> HIDE DEF once
  <2>5. host = "api" => (\A i \in DOMAIN log : log[i].kind # "done") /\ ~ended
    BY <2>1 DEF DoneInv
  <2>6. \A i \in DOMAIN once : once[i] = Metrics \/ (i \in DOMAIN log /\ once[i] = log[i])
    <3>1. CASE once = log
      BY <3>1
    <3>2. CASE once = Append(log, Metrics)
      BY <1>1, <2>2, <3>2, LastOne
    <3>3. QED
      BY <2>3, <3>1, <3>2
  <2>7. host = "api" => \A i \in DOMAIN once : once[i].kind # "done"
    BY <2>2, <2>5, <2>6
  <2>8. \A i \in DOMAIN log' : i = Len(log') \/ (i \in DOMAIN once /\ log'[i] = once[i])
    <3>1. CASE log' = once
      BY <3>1
    <3>2. CASE log' = Append(once, Done)
      <4>1. Len(log') = Len(once) + 1
        BY <2>3, <3>2
      <4>2. QED
        BY <2>2, <2>3, <3>2, <4>1, LastOne
    <3>3. QED
      BY <2>4, <3>1, <3>2
  <2>9. QED
    BY <2>1, <2>5, <2>7, <2>8 DEF DoneInv
<1>6. CASE HostEnds
  BY <1>6 DEF DoneInv, HostEnds
<1>7. CASE Cancel
  BY <1>7, CancelFacts DEF DoneInv
<1>8. CASE UNCHANGED vars
  BY <1>8 DEF DoneInv, vars, streamVars
<1>9. CASE StreamNext
  <2>1. /\ read' = read + 1 /\ read < Len(log) /\ ended' = (log[read + 1].kind = "done")
        /\ UNCHANGED <<host, log, pc>> /\ read \in 0..Len(log)
    BY <1>9 DEF StreamNext, RunInv, TypeOK
  <2>2. read' \in DOMAIN log
    BY <1>1, <2>1
  <2>3. QED
    BY <2>1, <2>2 DEF DoneInv
<1>10. ASSUME NEW n \in Names, Node(n) \/ NodeEmit(n) \/ Forward(n) PROVE DoneInv'
  <2>1. UNCHANGED <<host, pc, read, ended>>
    BY <1>10, NodeAlone
  <2>2. CASE log' = log
    BY <2>1, <2>2 DEF DoneInv
  <2>3. CASE log' # log
    <3>1. Forward(n) /\ pc \in {"gather", "cancelled"}
      BY <1>10, <2>3, NodeAlone, Carrying DEF RunInv
    <3>2. queue[n] \in Seq(Nat) /\ queue[n] # <<>>
      BY <3>1 DEF RunInv, TypeOK, Forward
    <3> DEFINE event == [kind |-> "node", node |-> n, number |-> Head(queue[n])]
    <3>3. event.kind # "done"
      OBVIOUS
    <3>4. event \in Events
      <4>1. Head(queue[n]) \in Nat
        BY <3>2
      <4>2. QED
        BY <4>1 DEF Events, NodeEvents
    <3>5. log' = Accepted(log, event)
      BY <2>3, <3>1 DEF Forward
    <3> HIDE DEF event
    <3>6. QED
      BY <1>1, <2>1, <3>1, <3>3, <3>4, <3>5, AddOther
  <2>4. QED
    BY <2>2, <2>3
<1>11. QED
  BY <1>2, <1>3, <1>4, <1>5, <1>6, <1>7, <1>8, <1>9, <1>10 DEF Next, Main

\* When the stream of the API ends it has yielded all that was accepted, and the run is over.
THEOREM ApiStream == Spec => []ApiStreamToTheEnd
<1>1. Init => RunInv /\ DoneInv
  <2>1. Init => DoneInv
    BY DEF Init, DoneInv
  <2>2. QED
    BY <2>1, InitRun
<1>2. RunInv /\ DoneInv /\ [Next]_vars => (RunInv /\ DoneInv)'
  BY StepRun, StepDone
<1>3. DoneInv => ApiStreamToTheEnd
  BY DEF DoneInv, ApiStreamToTheEnd, StreamToTheEnd
<1>4. QED
  BY <1>1, <1>2, <1>3, PTL DEF Spec

-----------------------------------------------------------------------------
(* Numbers, functions and lists *)

LEMMA LeastNumber ==
  ASSUME NEW T \in SUBSET Nat, T # {}
  PROVE  \E least \in T : \A n \in T : least <= n
<1>1. IsWellFoundedOn(OpToRel(<, Nat), Nat)
  BY NatLessThanWellFounded
<1>2. PICK least \in T : \A n \in T : <<n, least>> \notin OpToRel(<, Nat)
  BY <1>1, WFMin, Zenon
<1>3. ASSUME NEW n \in T, n < least PROVE FALSE
  BY <1>2, <1>3 DEF OpToRel
<1>4. QED
  BY <1>3

\* A set that has 0 and with each number below m the next one has all up to m.
LEMMA AllUpTo ==
  ASSUME NEW m \in Nat, NEW T, 0 \in T, \A n \in 1..m : n - 1 \in T => n \in T
  PROVE  0..m \subseteq T
<1> DEFINE missing == 0..m \ T
<1> SUFFICES ASSUME missing # {} PROVE FALSE
  OBVIOUS
<1>1. missing \in SUBSET Nat
  OBVIOUS
<1>2. PICK least \in missing : \A n \in missing : least <= n
  <2> HIDE DEF missing
  <2>1. QED
    BY <1>1, LeastNumber
<1>3. least \in 1..m
  OBVIOUS
<1>4. least - 1 \in 0..m /\ least - 1 \notin missing
  BY <1>2, <1>3
<1>5. QED
  BY <1>3, <1>4

\* There is a function with a first value and a step to each next one.
Steps(n, S) == [1..n -> [S -> S]]
Follows(f, n, S, first, step) ==
  f \in [0..n -> S] /\ f[0] = first /\ \A k \in 1..n : f[k] = step[k][f[k - 1]]

LEMMA Recursion ==
  ASSUME NEW n \in Nat, NEW S, NEW first \in S, NEW step \in Steps(n, S)
  PROVE  \E f : Follows(f, n, S, first, step)
<1>0. step \in [1..n -> [S -> S]]
  BY DEF Steps
<1> DEFINE upTo(f, m) == f[0] = first /\ \A k \in 1..m : f[k] = step[k][f[k - 1]]
           T == {m \in 0..n : \E f \in [0..m -> S] : upTo(f, m)}
<1>1. 0 \in T
  <2> DEFINE f == [k \in 0..0 |-> first]
  <2>1. f \in [0..0 -> S] /\ upTo(f, 0) /\ 0 \in 0..n
    OBVIOUS
  <2> HIDE DEF f
  <2>2. QED
    BY <2>1, Zenon
<1>2. ASSUME NEW m \in 1..n, m - 1 \in T PROVE m \in T
  <2>1. PICK f \in [0..(m - 1) -> S] : upTo(f, m - 1)
    BY <1>2
  <2> DEFINE last == step[m][f[m - 1]]
             h == [k \in 0..m |-> IF k = m THEN last ELSE f[k]]
  <2>2. last \in S
    <3>1. m - 1 \in 0..(m - 1)
      OBVIOUS
    <3>2. step[m] \in [S -> S] /\ f[m - 1] \in S
      BY <1>0, <3>1
    <3>3. QED
      BY <3>2
  <2>3. \A k \in 0..m : k # m => k \in 0..(m - 1)
    OBVIOUS
  <2>4. h \in [0..m -> S]
    <3> HIDE DEF last
    <3>1. QED
      BY <2>2, <2>3
  <2>5. h[0] = first
    BY <2>1
  <2>6. ASSUME NEW k \in 1..m PROVE h[k] = step[k][h[k - 1]]
    <3>1. k - 1 \in 0..m /\ k - 1 # m
      OBVIOUS
    <3>2. h[k - 1] = f[k - 1]
      BY <3>1
    <3>3. CASE k = m
      <4>1. h[k] = last
        BY <3>3
      <4>2. QED
        BY <3>2, <3>3, <4>1
    <3>4. CASE k # m
      <4>1. k \in 1..(m - 1)
        BY <3>4
      <4>2. f[k] = step[k][f[k - 1]]
        BY <2>1, <4>1
      <4>3. QED
        BY <3>2, <3>4, <4>2
    <3>5. QED
      BY <3>3, <3>4
  <2>7. m \in 0..n
    OBVIOUS
  <2> HIDE DEF h
  <2>8. QED
    BY <2>4, <2>5, <2>6, <2>7, Zenon
<1>3. 0..n \subseteq T
  <2> HIDE DEF T
  <2>1. QED
    BY <1>1, <1>2, AllUpTo
<1>4. \E f \in [0..n -> S] : upTo(f, n)
  BY <1>3
<1>5. QED
  BY <1>4, Zenon DEF Follows

\* SetToSeq lists the elements of a finite set.
LEMMA Listed ==
  ASSUME NEW S, IsFiniteSet(S)
  PROVE  SetToSeq(S) \in Seq(S) /\ \A x \in S : \E i \in DOMAIN SetToSeq(S) : SetToSeq(S)[i] = x
<1> DEFINE n == Cardinality(S)
           s == SetToSeq(S)
<1>1. n \in Nat /\ ExistsBijection(1..n, S)
  BY FS_CardinalityType
<1>2. PICK f \in Bijection(1..n, S) : TRUE
  BY <1>1 DEF ExistsBijection
<1>3. f \in [1..n -> S] /\ IsInjective(f)
  BY <1>2 DEF Bijection, Injection, IsInjective
<1>4. s \in [1..n -> S] /\ IsInjective(s)
  BY <1>3, Zenon DEF SetToSeq
<1>5. s \in Injection(1..n, S)
  BY <1>4 DEF Injection
<1>6. IsFiniteSet(1..n) /\ Cardinality(1..n) = n
  BY <1>1, FS_Interval
<1> HIDE DEF s
<1>7. s \in Surjection(1..n, S)
  BY <1>5, <1>6, FS_Injection
<1>8. \A x \in S : \E i \in 1..n : s[i] = x
  BY <1>7 DEF Surjection
<1>9. s \in Seq(S) /\ DOMAIN s = 1..n
  BY <1>1, <1>4
<1>10. QED
  BY <1>8, <1>9 DEF s

-----------------------------------------------------------------------------
(* Across nodes that are no agents.  Each round of _find_downstream_agents either finds
   nothing new or follows an edge more than the rounds before, so that after as many rounds
   as there are edges what was found is closed. *)

Onward(w, ids) == {x \in ToSet(w.edges) : x.source \in ids \ w.agents}
Round(w, ids) == ids \cup {x.target : x \in Onward(w, ids)}
Rounds(w) == Cardinality(ToSet(w.edges))
Found(w, id) == CHOOSE f : f = [k \in 0..Rounds(w) |-> IF k = 0 THEN {id} ELSE Round(w, f[k - 1])]

LEMMA DownstreamFound ==
  ASSUME NEW w, NEW id
  PROVE  Downstream(w, id) = Found(w, id)[Rounds(w)] \cap w.agents
BY Zenon DEF Downstream, Found, Round, Onward, Rounds

\* The edges of a workflow.
LEMMA EdgesOf ==
  ASSUME NEW w \in WorkflowType
  PROVE  /\ IsFiniteSet(ToSet(w.edges)) /\ Rounds(w) \in Nat
         /\ \A x \in ToSet(w.edges) : x.source \in Ids /\ x.target \in Ids
<1>1. w.edges \in Seq([source : Ids, target : Ids])
  BY DEF WorkflowType
<1> DEFINE E == w.edges
           Edge == [source : Ids, target : Ids]
<1>2. DOMAIN E = 1..Len(E) /\ Len(E) \in Nat /\ \A i \in 1..Len(E) : E[i] \in Edge
  <2>1. E \in Seq(Edge)
    BY <1>1
  <2> HIDE DEF E, Edge
  <2>2. QED
    BY <2>1, ElementOfSeq
<1> HIDE DEF E
<1>3. IsFiniteSet(1..Len(E))
  BY <1>2, FS_Interval
<1> DEFINE f == [i \in 1..Len(E) |-> E[i]]
<1>4. f \in Surjection(1..Len(E), ToSet(E))
  <2>1. f \in [1..Len(E) -> ToSet(E)]
    BY <1>2 DEF ToSet
  <2>2. \A x \in ToSet(E) : \E i \in 1..Len(E) : f[i] = x
    BY <1>2 DEF ToSet
  <2> HIDE DEF f
  <2>3. QED
    BY <2>1, <2>2 DEF Surjection
<1>5. IsFiniteSet(ToSet(E))
  <2> HIDE DEF f
  <2>1. QED
    BY <1>3, <1>4, FS_Surjection
<1>6. \A x \in ToSet(E) : x.source \in Ids /\ x.target \in Ids
  BY <1>2 DEF ToSet
<1>7. QED
  BY <1>5, <1>6, FS_CardinalityType DEF E, Rounds

\* The rounds, one after the other.
LEMMA FoundRounds ==
  ASSUME NEW w \in WorkflowType, NEW id \in Ids
  PROVE  /\ Found(w, id)[0] = {id}
         /\ \A k \in 1..Rounds(w) : Found(w, id)[k] = Round(w, Found(w, id)[k - 1])
<1> DEFINE n == Rounds(w)
           f == Found(w, id)
           step == [k \in 1..n |-> [ids \in SUBSET Ids |-> Round(w, ids)]]
<1>1. n \in Nat /\ {id} \in SUBSET Ids
  BY EdgesOf
<1>2. \A ids \in SUBSET Ids : Round(w, ids) \in SUBSET Ids
  BY EdgesOf DEF Round, Onward
<1>3. step \in [1..n -> [SUBSET Ids -> SUBSET Ids]]
  BY <1>2
<1>4. \A k \in 1..n : \A ids \in SUBSET Ids : step[k][ids] = Round(w, ids)
  OBVIOUS
<1> HIDE DEF step, n
<1>5. PICK g \in [0..n -> SUBSET Ids] : g[0] = {id} /\ \A k \in 1..n : g[k] = step[k][g[k - 1]]
  <2> DEFINE sets == SUBSET Ids
             first == {id}
  <2>1. first \in sets /\ step \in Steps(n, sets)
    BY <1>1, <1>3 DEF Steps
  <2> HIDE DEF sets, first
  <2>2. PICK g : Follows(g, n, sets, first, step)
    BY <1>1, <2>1, Recursion
  <2>3. QED
    BY <2>2, Zenon DEF Follows, sets, first
<1>6. ASSUME NEW k \in 0..n PROVE g[k] = IF k = 0 THEN {id} ELSE Round(w, g[k - 1])
  <2>1. CASE k = 0
    BY <1>5, <2>1
  <2>2. CASE k # 0
    <3>1. k \in 1..n /\ k - 1 \in 0..n
      BY <1>1, <2>2
    <3>2. g[k - 1] \in SUBSET Ids
      BY <3>1
    <3>3. QED
      BY <1>4, <1>5, <2>2, <3>1, <3>2
  <2>3. QED
    BY <2>1, <2>2
<1>7. g = [k \in 0..n |-> IF k = 0 THEN {id} ELSE Round(w, g[k - 1])]
  <2>1. g = [k \in 0..n |-> g[k]]
    OBVIOUS
  <2>2. QED
    BY <1>6, <2>1, Zenon
<1>8. f = [k \in 0..n |-> IF k = 0 THEN {id} ELSE Round(w, f[k - 1])]
  BY <1>7, Zenon DEF Found, n
<1> HIDE DEF f
<1>9. f[0] = {id}
  <2>1. 0 \in 0..n
    BY <1>1
  <2>2. QED
    BY <1>8, <2>1, Zenon
<1>10. ASSUME NEW k \in 1..n PROVE f[k] = Round(w, f[k - 1])
  <2>1. k \in 0..n /\ k # 0
    BY <1>1
  <2>2. QED
    BY <1>8, <2>1, Zenon
<1>11. QED
  BY <1>9, <1>10, Zenon DEF f, n

\* A round that follows no new edge finds nothing new.
LEMMA NothingNew ==
  ASSUME NEW w, NEW ids, Onward(w, Round(w, ids)) = Onward(w, ids)
  PROVE  Round(w, Round(w, ids)) = Round(w, ids)
BY DEF Round

\* In the end what was found is closed.
LEMMA FoundClosed ==
  ASSUME NEW w \in WorkflowType, NEW id \in Ids
  PROVE  LET found == Found(w, id)[Rounds(w)] IN id \in found /\ Round(w, found) = found
<1> DEFINE n == Rounds(w)
           f == Found(w, id)
           edges == ToSet(w.edges)
           T == {k \in 0..n : id \in f[k] /\ (Round(w, f[k]) = f[k] \/ Cardinality(Onward(w, f[k])) > k)}
<1>1. n \in Nat /\ IsFiniteSet(edges) /\ Cardinality(edges) = n
  BY EdgesOf DEF Rounds
<1>2. f[0] = {id} /\ \A k \in 1..n : f[k] = Round(w, f[k - 1])
  BY FoundRounds
<1>3. \A ids : IsFiniteSet(Onward(w, ids)) /\ Cardinality(Onward(w, ids)) \in 0..n
  <2>1. ASSUME NEW ids PROVE IsFiniteSet(Onward(w, ids)) /\ Cardinality(Onward(w, ids)) \in 0..n
    <3>1. Onward(w, ids) \in SUBSET edges
      BY DEF Onward
    <3>2. /\ IsFiniteSet(Onward(w, ids))
          /\ Cardinality(Onward(w, ids)) \in Nat /\ Cardinality(Onward(w, ids)) <= n
      BY <1>1, <3>1, FS_Subset, FS_CardinalityType
    <3>3. QED
      BY <1>1, <3>2
  <2>2. QED
    BY <2>1
<1> HIDE DEF n, f, edges
<1>4. 0 \in T
  <2>1. CASE Onward(w, f[0]) = {}
    <3>1. Round(w, f[0]) = f[0]
      BY <2>1 DEF Round
    <3>2. QED
      BY <1>1, <1>2, <3>1
  <2>2. CASE Onward(w, f[0]) # {}
    <3>1. Cardinality(Onward(w, f[0])) # 0
      BY <1>3, <2>2, FS_EmptySet
    <3>2. QED
      BY <1>1, <1>2, <1>3, <3>1
  <2>3. QED
    BY <2>1, <2>2
<1>5. ASSUME NEW k \in 1..n, k - 1 \in T PROVE k \in T
  <2> DEFINE old == f[k - 1]
  <2>1. f[k] = Round(w, old) /\ id \in old
    BY <1>2, <1>5
  <2>2. id \in f[k] /\ old \subseteq f[k]
    BY <2>1 DEF Round
  <2>3. Onward(w, old) \subseteq Onward(w, f[k])
    BY <2>2 DEF Onward
  <2>4. CASE Round(w, old) = old
    BY <2>1, <2>2, <2>4
  <2>5. CASE Round(w, old) # old
    <3>1. Cardinality(Onward(w, old)) > k - 1
      BY <1>5, <2>5
    <3>2. CASE Onward(w, f[k]) = Onward(w, old)
      <4>1. Round(w, f[k]) = f[k]
        BY <2>1, <3>2, NothingNew
      <4>2. QED
        BY <2>2, <4>1
    <3>3. CASE Onward(w, f[k]) # Onward(w, old)
      <4>1. Cardinality(Onward(w, old)) < Cardinality(Onward(w, f[k]))
        <5> DEFINE A == Onward(w, old)
                   B == Onward(w, f[k])
        <5>1. IsFiniteSet(B) /\ A \in SUBSET B /\ A # B
          BY <1>3, <2>3, <3>3
        <5>2. Cardinality(A) \in Nat /\ Cardinality(B) \in Nat
          BY <1>1, <1>3
        <5> HIDE DEF A, B
        <5>3. Cardinality(A) <= Cardinality(B) /\ Cardinality(A) # Cardinality(B)
          BY <5>1, FS_Subset
        <5>4. Cardinality(A) < Cardinality(B)
          BY <5>2, <5>3
        <5>5. QED
          BY <5>4 DEF A, B
      <4>2. Cardinality(Onward(w, old)) \in Nat /\ Cardinality(Onward(w, f[k])) \in Nat
        BY <1>1, <1>3
      <4> HIDE DEF old
      <4>3. Cardinality(Onward(w, f[k])) > k
        BY <3>1, <4>1, <4>2
      <4>4. QED
        BY <2>2, <4>3
    <3>4. QED
      BY <3>2, <3>3
  <2>6. QED
    BY <2>4, <2>5
<1>6. 0..n \subseteq T
  <2> HIDE DEF T
  <2>1. QED
    BY <1>1, <1>4, <1>5, AllUpTo
<1>7. n \in T
  <2>1. n \in 0..n
    BY <1>1
  <2> HIDE DEF T
  <2>2. QED
    BY <1>6, <2>1
<1>8. ~(Cardinality(Onward(w, f[n])) > n)
  BY <1>1, <1>3
<1>9. QED
  BY <1>7, <1>8 DEF f, n

\* An agent with a way to it is found behind an edge of the other.
LEMMA WayFound ==
  ASSUME NEW w \in WorkflowType, NEW x, NEW y \in w.agents, Linked(w, x, y)
  PROVE  \E e \in ToSet(w.edges) : e.source = x /\ y \in Downstream(w, e.target)
<1> DEFINE edges == ToSet(w.edges)
           others == (UNION {{e.source, e.target} : e \in edges}) \ w.agents
           found(id) == Found(w, id)[Rounds(w)]
           starts == {e.target : e \in {d \in edges : d.source = x}}
           set == (UNION {found(t) : t \in starts}) \cap others
<1>1. \A e \in edges : e.source \in Ids /\ e.target \in Ids
  BY EdgesOf
<1>2. \A t \in starts : t \in Ids
  BY <1>1
<1>3. \A t \in Ids : t \in found(t) /\ Round(w, found(t)) = found(t)
  BY FoundClosed
<1>4. \A t \in Ids : \A e \in edges : e.source \in found(t) \ w.agents => e.target \in found(t)
  BY <1>3 DEF Round, Onward
<1> HIDE DEF found, starts, others, edges
<1>5. ASSUME NEW z PROVE z \in set <=> z \in others /\ \E t \in starts : z \in found(t)
  BY Zenon
<1>6. ASSUME NEW z
      PROVE  z \in others <=> z \notin w.agents /\ \E e \in edges : z = e.source \/ z = e.target
  BY DEF others
<1>7. \A t : t \in starts <=> \E e \in edges : e.source = x /\ e.target = t
  BY DEF starts
<1> HIDE DEF set
<1>8. ASSUME NEW e \in edges, e.source \in {x} \cup set
      PROVE  \E t \in starts : e.target \in found(t)
  <2>1. CASE e.source = x
    BY <1>1, <1>3, <1>7, <2>1
  <2>2. CASE e.source \in set
    <3>1. PICK t \in starts : e.source \in found(t) \ w.agents
      BY <1>5, <1>6, <2>2
    <3>2. QED
      BY <1>2, <1>4, <3>1
  <2>3. QED
    BY <1>8, <2>1, <2>2
<1>9. \A z \in Behind(w, {x} \cup set) : (\E t \in starts : z \in found(t)) /\ \E e \in edges : z = e.target
  BY <1>8 DEF Behind, edges
<1>10. Behind(w, {x} \cup set) \cap others \subseteq set /\ set \in SUBSET others
  BY <1>9, <1>5, <1>6
<1>11. y \in Behind(w, {x} \cup set)
  BY <1>10, Zenon DEF Linked, others, edges
<1>12. PICK t \in starts : y \in found(t)
  BY <1>9, <1>11
<1>13. PICK e \in edges : e.source = x /\ e.target = t
  BY <1>7
<1>14. y \in Downstream(w, t)
  BY <1>12, DownstreamFound DEF found
<1>15. QED
  BY <1>13, <1>14 DEF edges

\* The edges of a graph.
Drawings == [source : Names, target : Names]

\* What is found behind an edge of an agent has a way from it.
LEMMA FoundWay ==
  ASSUME NEW w \in WorkflowType, NEW e \in ToSet(w.edges), NEW y \in Downstream(w, e.target)
  PROVE  Linked(w, e.source, y)
<1> DEFINE edges == ToSet(w.edges)
           others == (UNION {{d.source, d.target} : d \in edges}) \ w.agents
<1> SUFFICES ASSUME NEW set \in SUBSET others,
                    Behind(w, {e.source} \cup set) \cap others \subseteq set
             PROVE  y \in Behind(w, {e.source} \cup set)
  BY Zenon DEF Linked
<1> DEFINE B == Behind(w, {e.source} \cup set)
           n == Rounds(w)
           f == Found(w, e.target)
           T == {k \in 0..n : f[k] \subseteq B}
<1>1. n \in Nat /\ e.target \in Ids
  BY EdgesOf
<1>2. f[0] = {e.target} /\ \A k \in 1..n : f[k] = Round(w, f[k - 1])
  BY <1>1, FoundRounds
<1>3. \A d \in edges : d.source = e.source \/ d.source \in set => d.target \in B
  BY DEF Behind
<1>4. \A d \in edges : d.source \notin w.agents => d.source \in others
  BY DEF others
<1> HIDE DEF edges, others, B, n, f
<1>5. 0 \in T
  BY <1>1, <1>2, <1>3 DEF edges
<1>6. ASSUME NEW k \in 1..n, k - 1 \in T PROVE k \in T
  <2>1. ASSUME NEW d \in edges, d.source \in f[k - 1], d.source \notin w.agents PROVE d.target \in B
    <3>1. d.source \in B \cap others
      BY <1>4, <1>6, <2>1
    <3>2. QED
      BY <1>3, <3>1 DEF B
  <2>2. Round(w, f[k - 1]) \subseteq B
    BY <1>6, <2>1 DEF Round, Onward, edges
  <2>3. k \in 0..n
    BY <1>1
  <2>4. QED
    BY <1>2, <2>2, <2>3
<1>7. 0..n \subseteq T
  <2> HIDE DEF T
  <2>1. QED
    BY <1>1, <1>5, <1>6, AllUpTo
<1>8. n \in 0..n
  BY <1>1
<1>9. y \in f[n]
  BY DownstreamFound DEF f, n
<1>10. QED
  BY <1>7, <1>8, <1>9 DEF B

\* An edge of a workflow becomes an edge to each agent behind it.
LEMMA LinksFacts ==
  ASSUME NEW w \in WorkflowType, NEW e
  PROVE  /\ Links(w, e) \in Seq(Drawings)
         /\ \A d : d \in ToSet(Links(w, e)) <=>
              e.source \in w.agents
              /\ \E y \in Downstream(w, e.target) : d = [source |-> e.source, target |-> y]
<1>1. CASE e.source \notin w.agents
  BY <1>1 DEF Links, ToSet
<1>2. CASE e.source \in w.agents
  <2> DEFINE D == Downstream(w, e.target)
             behind == SetToSeq(D)
  <2>1. w.agents \subseteq Names
    BY DEF WorkflowType
  <2>2. D \in SUBSET Names
    BY <2>1 DEF Downstream
  <2> HIDE DEF D
  <2>3. IsFiniteSet(D)
    BY <2>2, DAGAssumption, FS_Subset
  <2>4. behind \in Seq(D) /\ \A y \in D : \E i \in DOMAIN behind : behind[i] = y
    BY <2>3, Listed
  <2>5. Links(w, e) = [i \in DOMAIN behind |-> [source |-> e.source, target |-> behind[i]]]
    BY <1>2 DEF Links, D
  <2> HIDE DEF behind
  <2>6. DOMAIN behind = 1..Len(behind) /\ Len(behind) \in Nat /\ \A i \in DOMAIN behind : behind[i] \in D
    BY <2>4, ElementOfSeq
  <2>7. \A i \in DOMAIN behind : [source |-> e.source, target |-> behind[i]] \in Drawings
    BY <1>2, <2>1, <2>2, <2>6 DEF Drawings
  <2>8. Links(w, e) \in Seq(Drawings)
    BY <2>5, <2>6, <2>7
  <2>9. DOMAIN Links(w, e) = DOMAIN behind
    BY <2>5
  <2>10. ASSUME NEW d
         PROVE  d \in ToSet(Links(w, e)) <=> \E y \in D : d = [source |-> e.source, target |-> y]
    <3>1. d \in ToSet(Links(w, e)) <=>
            \E i \in DOMAIN behind : d = [source |-> e.source, target |-> behind[i]]
      BY <2>5, <2>9 DEF ToSet
    <3>2. QED
      BY <2>4, <2>6, <3>1
  <2>11. QED
    BY <1>2, <2>8, <2>10 DEF D
<1>3. QED
  BY <1>1, <1>2

\* The elements of two sequences, joined.
LEMMA JoinedElements ==
  ASSUME NEW S, NEW s \in Seq(S), NEW t \in Seq(S)
  PROVE  s \o t \in Seq(S) /\ ToSet(s \o t) = ToSet(s) \cup ToSet(t)
<1> DEFINE u == s \o t
<1>1. /\ u \in Seq(S) /\ Len(u) = Len(s) + Len(t)
      /\ \A i \in 1..(Len(s) + Len(t)) : u[i] = IF i <= Len(s) THEN s[i] ELSE t[i - Len(s)]
  BY ConcatProperties
<1>2. Len(s) \in Nat /\ Len(t) \in Nat /\ DOMAIN s = 1..Len(s) /\ DOMAIN t = 1..Len(t) /\ DOMAIN u = 1..Len(u)
  BY <1>1
<1> HIDE DEF u
<1>3. ASSUME NEW i \in DOMAIN s PROVE i \in DOMAIN u /\ u[i] = s[i]
  BY <1>1, <1>2
<1>4. ASSUME NEW i \in DOMAIN t PROVE i + Len(s) \in DOMAIN u /\ u[i + Len(s)] = t[i]
  BY <1>1, <1>2
<1>5. ToSet(s) \subseteq ToSet(u)
  BY <1>3 DEF ToSet
<1>6. ToSet(t) \subseteq ToSet(u)
  <2>1. ASSUME NEW x \in ToSet(t) PROVE x \in ToSet(u)
    <3>1. PICK i \in DOMAIN t : t[i] = x
      BY DEF ToSet
    <3>2. i + Len(s) \in DOMAIN u /\ u[i + Len(s)] = x
      BY <1>4, <3>1
    <3>3. QED
      BY <3>2, Zenon DEF ToSet
  <2>2. QED
    BY <2>1
<1>7. ToSet(u) \subseteq ToSet(s) \cup ToSet(t)
  <2>1. ASSUME NEW i \in DOMAIN u PROVE u[i] \in ToSet(s) \cup ToSet(t)
    <3>1. CASE i \in DOMAIN s
      BY <1>3, <3>1 DEF ToSet
    <3>2. CASE i \notin DOMAIN s
      <4>1. i - Len(s) \in DOMAIN t /\ u[i] = t[i - Len(s)]
        BY <1>1, <1>2, <3>2
      <4>2. QED
        BY <4>1, Zenon DEF ToSet
    <3>3. QED
      BY <3>1, <3>2
  <2>2. QED
    BY <2>1 DEF ToSet
<1>8. QED
  BY <1>1, <1>5, <1>6, <1>7 DEF u

\* What _build_dag has added for the first edges of a workflow.
Added(w) == CHOOSE f : f = [k \in 0..Len(w.edges) |->
                              IF k = 0 THEN <<>> ELSE f[k - 1] \o Links(w, w.edges[k])]

LEMMA BuiltEdges ==
  ASSUME NEW w, NEW d
  PROVE  BuildDag(w, d).edges = Added(w)[Len(w.edges)]
BY Zenon DEF BuildDag, Added

\* The graph of a workflow has the edges that were added, and no other.
LEMMA AllAdded ==
  ASSUME NEW w \in WorkflowType, NEW d
  PROVE  /\ BuildDag(w, d).edges \in Seq(Drawings)
         /\ \A z : z \in ToSet(BuildDag(w, d).edges) <=>
              \E e \in ToSet(w.edges) : z \in ToSet(Links(w, e))
<1> DEFINE n == Len(w.edges)
           f == Added(w)
           G == Seq(Drawings)
           link(k) == Links(w, w.edges[k])
           step == [k \in 1..n |-> [s \in G |-> s \o link(k)]]
<1>1. n \in Nat /\ DOMAIN w.edges = 1..n
  BY DEF WorkflowType
<1>2. <<>> \in G
  OBVIOUS
<1>3. \A k \in 1..n : link(k) \in G
  BY LinksFacts
<1>4. ASSUME NEW s \in G, NEW t \in G
      PROVE  s \o t \in G /\ ToSet(s \o t) = ToSet(s) \cup ToSet(t)
  BY JoinedElements
<1> HIDE DEF n, G, link
<1>5. step \in [1..n -> [G -> G]]
  BY <1>3, <1>4
<1>6. \A k \in 1..n : \A s \in G : step[k][s] = s \o link(k)
  OBVIOUS
<1>7. PICK g \in [0..n -> G] : g[0] = <<>> /\ \A k \in 1..n : g[k] = step[k][g[k - 1]]
  <2> DEFINE first == <<>>
  <2>1. first \in G /\ step \in Steps(n, G)
    BY <1>2, <1>5 DEF Steps
  <2> HIDE DEF step, first
  <2>2. PICK g : Follows(g, n, G, first, step)
    BY <1>1, <2>1, Recursion
  <2>3. QED
    BY <2>2, Zenon DEF Follows, first
<1>8. \A k \in 1..n : g[k] = g[k - 1] \o link(k) /\ g[k - 1] \in G
  <2>1. \A k \in 1..n : k - 1 \in 0..n
    BY <1>1
  <2> HIDE DEF step
  <2>2. QED
    BY <1>6, <1>7, <2>1
<1> HIDE DEF step
<1>9. g = [k \in 0..n |-> IF k = 0 THEN <<>> ELSE g[k - 1] \o link(k)]
  <2>1. \A k \in 0..n : g[k] = IF k = 0 THEN <<>> ELSE g[k - 1] \o link(k)
    <3>1. \A k \in 0..n : k = 0 \/ k \in 1..n
      BY <1>1
    <3>2. QED
      BY <1>7, <1>8, <3>1
  <2>2. g = [k \in 0..n |-> g[k]]
    OBVIOUS
  <2>3. QED
    BY <2>1, <2>2, Zenon
<1>10. f = [k \in 0..n |-> IF k = 0 THEN <<>> ELSE f[k - 1] \o link(k)]
  BY <1>9, Zenon DEF Added, n, link
<1> HIDE DEF f
<1>11. f[0] = <<>> /\ \A k \in 1..n : f[k] = f[k - 1] \o link(k)
  <2>1. 0 \in 0..n /\ \A k \in 1..n : k \in 0..n /\ k # 0
    BY <1>1
  <2>2. QED
    BY <1>10, <2>1, Zenon
<1> DEFINE some(k, z) == \E j \in 1..k : z \in ToSet(link(j))
           T == {k \in 0..n : f[k] \in G /\ \A z : z \in ToSet(f[k]) <=> some(k, z)}
<1>12. 0 \in T
  <2>1. ToSet(f[0]) = {} /\ 1..0 = {}
    BY <1>11 DEF ToSet
  <2>2. QED
    BY <1>1, <1>2, <1>11, <2>1
<1>13. ASSUME NEW k \in 1..n, k - 1 \in T PROVE k \in T
  <2>1. f[k - 1] \in G /\ link(k) \in G /\ f[k] = f[k - 1] \o link(k)
    BY <1>3, <1>11, <1>13
  <2>2. f[k] \in G /\ ToSet(f[k]) = ToSet(f[k - 1]) \cup ToSet(link(k))
    BY <1>4, <2>1
  <2>3. \A j : j \in 1..k <=> j = k \/ j \in 1..(k - 1)
    BY <1>1
  <2>4. \A z : z \in ToSet(f[k - 1]) <=> some(k - 1, z)
    BY <1>13
  <2>5. \A z : some(k, z) <=> some(k - 1, z) \/ z \in ToSet(link(k))
    BY <2>3
  <2>6. k \in 0..n
    BY <1>1
  <2> HIDE DEF some
  <2>7. QED
    BY <2>2, <2>4, <2>5, <2>6
<1>14. 0..n \subseteq T
  <2> HIDE DEF T
  <2>1. QED
    BY <1>1, <1>12, <1>13, AllUpTo
<1>15. n \in 0..n
  BY <1>1
<1>16. f[n] \in G /\ \A z : z \in ToSet(f[n]) <=> some(n, z)
  BY <1>14, <1>15
<1>17. BuildDag(w, d).edges = f[n]
  BY BuiltEdges DEF f, n
<1>18. ASSUME NEW z PROVE some(n, z) <=> \E e \in ToSet(w.edges) : z \in ToSet(Links(w, e))
  BY <1>1, Zenon DEF ToSet, link
<1> HIDE DEF some
<1>19. QED
  BY <1>16, <1>17, <1>18 DEF G

\* Two agents are joined by an edge in the graph of the workflow when there is a way from
\* one to the other, and only then.
LEMMA WaysAreEdges ==
  ASSUME NEW w \in WorkflowType, graph = BuildDag(w, Default), NEW x, NEW y
  PROVE  x \in Predecessors(y) <=> x \in w.agents /\ y \in w.agents /\ Linked(w, x, y)
<1> DEFINE link(e) == e.source = x /\ y \in Downstream(w, e.target)
<1>1. x \in Predecessors(y) <=> \E d \in ToSet(graph.edges) : d.source = x /\ d.target = y
  BY DEF Predecessors, ToSet
<1>2. \A d : d \in ToSet(graph.edges) <=> \E e \in ToSet(w.edges) : d \in ToSet(Links(w, e))
  BY AllAdded
<1>3. ASSUME NEW e \in ToSet(w.edges)
      PROVE  (\E d \in ToSet(Links(w, e)) : d.source = x /\ d.target = y) <=> x \in w.agents /\ link(e)
  <2>1. \A d : d \in ToSet(Links(w, e)) <=>
               e.source \in w.agents /\ \E z \in Downstream(w, e.target) : d = [source |-> e.source, target |-> z]
    BY LinksFacts
  <2>2. ASSUME NEW d \in ToSet(Links(w, e)), d.source = x, d.target = y
        PROVE  x \in w.agents /\ link(e)
    <3>1. e.source \in w.agents
      BY <2>1
    <3>2. PICK z \in Downstream(w, e.target) : d = [source |-> e.source, target |-> z]
      BY <2>1
    <3>3. d.source = e.source /\ d.target = z
      BY <3>2
    <3>4. QED
      BY <2>2, <3>1, <3>3
  <2>3. ASSUME x \in w.agents, link(e)
        PROVE  \E d \in ToSet(Links(w, e)) : d.source = x /\ d.target = y
    <3>1. [source |-> e.source, target |-> y] \in ToSet(Links(w, e))
      BY <2>1, <2>3
    <3>2. [source |-> e.source, target |-> y].source = x /\ [source |-> e.source, target |-> y].target = y
      BY <2>3
    <3>3. QED
      BY <3>1, <3>2
  <2>4. QED
    BY <2>2, <2>3
<1>4. x \in Predecessors(y) <=> x \in w.agents /\ \E e \in ToSet(w.edges) : link(e)
  <2> HIDE DEF link
  <2>1. QED
    BY <1>1, <1>2, <1>3
<1>5. \A e : y \in Downstream(w, e.target) => y \in w.agents
  BY DEF Downstream
<1>6. QED
  BY <1>4, <1>5, WayFound, FoundWay

-----------------------------------------------------------------------------
(* What is drawn or configured is what runs *)

\* Collections have names.
LEMMA CollectionNames ==
  ASSUME NEW s \in ConfigType
  PROVE  Collections(s) \subseteq Names
<1> DEFINE t == s.tool \o s.context \o s.metadata
<1>1. s.tool \in Seq(Names) /\ s.context \in Seq(Names) /\ s.metadata \in Seq(Names)
  BY DEF ConfigType
<1>2. t \in Seq(Names)
  BY <1>1
<1> HIDE DEF t
<1>3. DOMAIN t = 1..Len(t) /\ \A i \in 1..Len(t) : t[i] \in Names
  BY <1>2, ElementOfSeq
<1>4. ToSet(t) \subseteq Names
  BY <1>3 DEF ToSet
<1>5. QED
  BY <1>4 DEF Collections, t

\* The graphs of workflows and of fan-outs are what DAGRun takes for graphs, and a fan-out
\* is what it takes for the graph of the planner.
THEOREM GraphsGiven ==
  /\ \A w \in Workflows : BuildDag(w, Default) \in GraphType
  /\ \A s \in Configs : Plans(s) =>
       FanOut(s) \in GraphType /\ FanOut(s).nodes # {} /\ FanOut(s).edges = <<>>
<1>1. ASSUME NEW w \in Workflows PROVE BuildDag(w, Default) \in GraphType
  <2> DEFINE dag == BuildDag(w, Default)
  <2>1. w \in WorkflowType /\ Default \in Names
    BY OrchestrationAssumption
  <2>2. dag.edges \in Seq([source : Names, target : Names])
    BY <2>1, AllAdded DEF Drawings
  <2>3. dag.nodes \in SUBSET Names
    BY <2>1 DEF BuildDag, WorkflowType
  <2>4. dag = [nodes |-> dag.nodes, edges |-> dag.edges]
    BY DEF BuildDag
  <2> HIDE DEF dag
  <2>5. dag \in GraphType
    BY <2>2, <2>3, <2>4 DEF GraphType
  <2>6. QED
    BY <2>5 DEF dag
<1>2. ASSUME NEW s \in Configs, Plans(s)
      PROVE  FanOut(s) \in GraphType /\ FanOut(s).nodes # {} /\ FanOut(s).edges = <<>>
  <2>1. FanOut(s) = [nodes |-> Collections(s), edges |-> <<>>]
    BY DEF FanOut, SubAgents
  <2>2. Collections(s) # {}
    BY <1>2 DEF Plans
  <2>3. Collections(s) \subseteq Names
    BY OrchestrationAssumption, CollectionNames
  <2>4. <<>> \in Seq([source : Names, target : Names])
    OBVIOUS
  <2> HIDE DEF Plans
  <2>5. QED
    BY <2>1, <2>2, <2>3, <2>4 DEF GraphType
<1>3. QED
  BY <1>1, <1>2

\* The agents with a way to an agent of the workflow are those it waits for.
LEMMA AgentsBefore ==
  ASSUME NEW w \in Workflows, BuildDag(w, Default) = graph, NEW n
  PROVE  {x \in w.agents : n \in w.agents /\ Linked(w, x, n)} = Predecessors(n)
<1> DEFINE before == {x \in w.agents : n \in w.agents /\ Linked(w, x, n)}
<1>1. w \in WorkflowType
  BY OrchestrationAssumption
<1>2. ASSUME NEW x PROVE x \in before <=> x \in Predecessors(n)
  BY <1>1, WaysAreEdges
<1> HIDE DEF before
<1>3. before = Predecessors(n)
  BY <1>2
<1>4. QED
  BY <1>3 DEF before

\* A sub-agent searches its own collection and does not fan out.
LEMMA SubAgentFacts ==
  ASSUME NEW s \in ConfigType, NEW n \in Names
  PROVE  Collections(ForSub(s, n)) = {n} /\ ForSub(s, n).planner = "default"
<1> DEFINE sub == ForSub(s, n)
<1>1. /\ sub.tool = <<n>> /\ sub.context = <<n>> /\ sub.metadata = <<>>
      /\ sub.planner = "default"
  BY DEF ForSub, ConfigType
<1>2. Collections(sub) = ToSet(<<n>> \o <<n>> \o <<>>)
  BY <1>1 DEF Collections
<1>3. ToSet(<<n>> \o <<n>> \o <<>>) = {n}
  <2> DEFINE one == <<n>>
  <2>1. one \in Seq(Names) /\ <<>> \in Seq(Names) /\ ToSet(one) = {n} /\ ToSet(<<>>) = {}
    BY DEF ToSet
  <2> HIDE DEF one
  <2>2. one \o one \in Seq(Names) /\ ToSet(one \o one) = {n}
    BY <2>1, JoinedElements
  <2>3. ToSet((one \o one) \o <<>>) = {n}
    BY <2>1, <2>2, JoinedElements
  <2>4. QED
    BY <2>3 DEF one
<1>4. QED
  BY <1>1, <1>2, <1>3

\* All collections have been searched when the question is answered.
LEMMA PlannerFollows ==
  ASSUME RunInv, NEW s \in Configs, FanOut(s) = graph, pc = "over"
  PROVE  /\ {n \in Names : node[n] # "idle"} = Collections(s)
         /\ \A n \in DOMAIN SubAgents(s) :
              Collections(SubAgents(s)[n]) = {n} /\ SubAgents(s)[n].planner = "default"
<1>1. s \in ConfigType
  BY OrchestrationAssumption
<1>2. graph.nodes = Collections(s)
  BY DEF FanOut, SubAgents
<1>3. level = Len(levels)
  BY DEF RunInv, PlaceInv
<1>4. {n \in Names : node[n] # "idle"} = graph.nodes
  BY <1>3, AllEnded
<1>5. ASSUME NEW n \in Collections(s)
      PROVE  Collections(ForSub(s, n)) = {n} /\ ForSub(s, n).planner = "default"
  BY <1>1, CollectionNames, SubAgentFacts
<1>6. DOMAIN SubAgents(s) = Collections(s) /\ \A n \in Collections(s) : SubAgents(s)[n] = ForSub(s, n)
  BY DEF SubAgents
<1>7. QED
  BY <1>2, <1>4, <1>5, <1>6

\* The invariant of the run, with whole inputs, is what FollowsSource needs.
LEMMA RunFollows == RunInv /\ InputsWhole => FollowsSource
<1> SUFFICES ASSUME RunInv, InputsWhole PROVE FollowsSource
  OBVIOUS
<1>1. ASSUME NEW d \in Drawn, d.graph = graph, NEW n \in {m \in Names : node[m] # "idle"}
      PROVE  /\ \A x \in d.before[n] : node[x] \in {"returned", "raised"}
             /\ input[n] = {x \in d.before[n] : output[x]}
  <2>1. PICK w \in Workflows :
          d = [graph |-> BuildDag(w, Default),
               before |-> [m \in Names |-> {x \in w.agents : m \in w.agents /\ Linked(w, x, m)}]]
    BY Zenon DEF Drawn
  <2>2. n \in Names /\ node[n] # "idle"
    BY <1>1
  <2>3. BuildDag(w, Default) = graph
    BY <1>1, <2>1
  <2>4. d.before[n] = {x \in w.agents : n \in w.agents /\ Linked(w, x, n)}
    BY <2>1, <2>2
  <2>5. d.before[n] = Predecessors(n)
    BY <2>3, <2>4, AgentsBefore
  <2>6. \A x \in Predecessors(n) : node[x] \in {"returned", "raised"}
    BY <2>2, WaitedFor DEF Over
  <2>7. input[n] = {p \in Predecessors(n) : output[p]}
    BY <2>2 DEF InputsWhole
  <2>8. QED
    BY <2>5, <2>6, <2>7
<1>2. ASSUME NEW f \in FannedOut, pc = "over", f.graph = graph
      PROVE  /\ {n \in Names : node[n] # "idle"} = f.names
             /\ \A n \in DOMAIN f.subs :
                  Collections(f.subs[n]) = {n} /\ f.subs[n].planner = "default"
  <2>1. PICK s \in Configs :
          f = [graph |-> FanOut(s), subs |-> SubAgents(s),
               names |-> ToSet(s.tool \o s.context \o s.metadata)]
    BY Zenon DEF FannedOut
  <2>2. f.graph = FanOut(s) /\ f.subs = SubAgents(s) /\ f.names = Collections(s)
    BY <2>1 DEF Collections
  <2>3. QED
    BY <1>2, <2>2, PlannerFollows
<1>3. QED
  BY <1>1, <1>2, Zenon DEF FollowsSource

\* What was drawn or configured is what runs: an agent of a workflow, whatever its edges and
\* the nodes between, begins after all agents with a way to it, with their outputs and no
\* other; a question that was fanned out has been put to every collection when it is answered.
THEOREM SourceFollowed == Spec => []FollowsSource
<1>1. Init => RunInv /\ InputsWhole
  BY InitRun DEF Init, InputsWhole
<1>2. RunInv /\ InputsWhole /\ [Next]_vars => (RunInv /\ InputsWhole)'
  BY StepRun, StepInputs
<1>3. QED
  BY <1>1, <1>2, RunFollows, PTL DEF Spec
=============================================================================
