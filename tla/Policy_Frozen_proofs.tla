-------------------------- MODULE Policy_Frozen_proofs --------------------------
(***************************************************************************)
(* Theorems about module Policy, for any guards, rules, budgets, answers    *)
(* and discoveries of guards, and about module Frozen, for any tools a      *)
(* workflow is compiled to.  The two share no state; they share the lemmas  *)
(* about sequences and about the least of a set of numbers.                 *)
(***************************************************************************)
EXTENDS Policy, Frozen, FiniteSetTheorems, NaturalsInduction, SequenceTheorems,
        WellFoundedInduction, TLAPS

-----------------------------------------------------------------------------
(* Sequences, and the first place of a set of places. *)

LEMMA SequenceFacts ==
  ASSUME NEW s, Sequence(s)
  PROVE  Len(s) \in Nat /\ DOMAIN s = 1..Len(s) /\ s \in Seq(ToSet(s))
BY DEF Sequence

LEMMA IsSequence ==
  ASSUME NEW S, NEW s \in Seq(S)
  PROVE  Sequence(s)
<1>1. \A i \in 1..Len(s) : s[i] \in ToSet(s)
  BY DEF ToSet
<1>2. s = [i \in 1..Len(s) |-> s[i]] /\ Len(s) \in Nat
  OBVIOUS
<1>3. [i \in 1..Len(s) |-> s[i]] \in [1..Len(s) -> ToSet(s)]
  BY <1>1
<1>4. QED
  BY <1>1, <1>2, <1>3, SeqDef DEF Sequence

\* A sequence put behind another.
LEMMA Joined ==
  ASSUME NEW s, NEW t, Sequence(s), Sequence(t)
  PROVE  /\ Sequence(s \o t) /\ Len(s \o t) = Len(s) + Len(t)
         /\ \A i \in DOMAIN s : i \in DOMAIN (s \o t) /\ (s \o t)[i] = s[i]
         /\ \A i \in DOMAIN (s \o t) :
              i \in DOMAIN s \/ \E j \in DOMAIN t : (s \o t)[i] = t[j]
<1> DEFINE all == ToSet(s) \cup ToSet(t)
<1>1. /\ Len(s) \in Nat /\ DOMAIN s = 1..Len(s) /\ Len(t) \in Nat /\ DOMAIN t = 1..Len(t)
      /\ s \in Seq(ToSet(s)) /\ t \in Seq(ToSet(t))
  BY SequenceFacts
<1>2. s \in Seq(all) /\ t \in Seq(all)
  <2> HIDE DEF all
  <2>1. ToSet(s) \subseteq all /\ ToSet(t) \subseteq all
    BY DEF all
  <2>2. QED
    BY <1>1, <2>1
<1> HIDE DEF all
<1>3. /\ s \o t \in Seq(all) /\ Len(s \o t) = Len(s) + Len(t)
      /\ \A i \in 1..Len(s) + Len(t) :
           (s \o t)[i] = IF i <= Len(s) THEN s[i] ELSE t[i - Len(s)]
  BY <1>2, ConcatProperties
<1>4. DOMAIN (s \o t) = 1..(Len(s) + Len(t))
  BY <1>3
<1>5. ASSUME NEW i \in DOMAIN (s \o t), i \notin DOMAIN s
      PROVE  \E j \in DOMAIN t : (s \o t)[i] = t[j]
  <2>1. i - Len(s) \in DOMAIN t /\ (s \o t)[i] = t[i - Len(s)]
    BY <1>1, <1>3, <1>4, <1>5
  <2>2. QED
    BY <2>1
<1>6. \A i \in DOMAIN s : i \in DOMAIN (s \o t) /\ (s \o t)[i] = s[i]
  BY <1>1, <1>3, <1>4
<1>7. Sequence(s \o t)
  BY <1>3, IsSequence
<1>8. QED
  BY <1>3, <1>5, <1>6, <1>7

\* A set of places that is not empty has a first one, which is the one that decides.
LEMMA FirstDecides ==
  ASSUME NEW T \in SUBSET Nat, T # {}
  PROVE  Deciding(T) \in T /\ \A n \in T : Deciding(T) <= n
<1>1. IsWellFoundedOn(OpToRel(<, Nat), Nat)
  BY NatLessThanWellFounded
<1>2. PICK least \in T : \A n \in T : <<n, least>> \notin OpToRel(<, Nat)
  BY <1>1, WFMin, Zenon
<1>3. ASSUME NEW n \in T, n < least PROVE FALSE
  BY <1>2, <1>3 DEF OpToRel
<1>4. \A n \in T : least <= n
  BY <1>3
<1>5. QED
  BY <1>4 DEF Deciding

-----------------------------------------------------------------------------
(* The chain.  It has one place per guard of the configuration. *)

LEMMA ChainFacts ==
  ASSUME TypeOK, NEW found
  PROVE  /\ Len(su.guards) \in Nat /\ DOMAIN Chain(found) = 1..Len(su.guards)
         /\ Len(Chain(found)) = Len(su.guards)
         /\ \A c \in DOMAIN Chain(found) :
              LET g == Chain(found)[c]
              IN /\ g.limit \in Int /\ DOMAIN g.rules \subseteq Nat
                 /\ \A r \in DOMAIN g.rules : \A p \in DOMAIN g.rules[r].prior :
                      g.rules[r].prior[p].min \in Int
<1> DEFINE chain == Chain(found)
<1>1. Sequence(su.guards)
  BY PolicyAssumption DEF TypeOK
<1>2. Len(su.guards) \in Nat /\ DOMAIN su.guards = 1..Len(su.guards)
  BY <1>1, SequenceFacts
<1>3. DOMAIN chain = 1..Len(su.guards)
  BY <1>2 DEF Chain
<1>4. Len(chain) = Len(su.guards)
  <2>1. chain \in Seq(ToSet(chain))
    <3>1. chain = [i \in 1..Len(su.guards) |-> chain[i]] /\ \A i \in 1..Len(su.guards) : chain[i] \in ToSet(chain)
      BY <1>2 DEF Chain, ToSet
    <3> HIDE DEF chain
    <3>2. chain \in [1..Len(su.guards) -> ToSet(chain)]
      BY <3>1
    <3>3. QED
      BY <1>2, <3>2, SeqDef
  <2> HIDE DEF chain
  <2>2. QED
    BY <1>2, <1>3, <2>1
<1>5. ASSUME NEW c \in DOMAIN chain
      PROVE  /\ chain[c].limit \in Int /\ DOMAIN chain[c].rules \subseteq Nat
             /\ \A r \in DOMAIN chain[c].rules : \A p \in DOMAIN chain[c].rules[r].prior :
                  chain[c].rules[r].prior[p].min \in Int
  <2> DEFINE g == su.guards[c]
  <2>1. c \in DOMAIN su.guards /\ g \in ToSet(su.guards)
    BY <1>2, <1>3, <1>5 DEF ToSet
  <2>2. /\ DOMAIN g = {"name", "limit", "banned", "target", "rules", "broken"}
        /\ g.limit \in Int /\ Sequence(g.rules)
        /\ \A r \in ToSet(g.rules) :
             /\ DOMAIN r = {"tool", "prior", "when", "broken", "garbled"}
             /\ DOMAIN r.when = {"path", "equals"}
             /\ \A p \in DOMAIN r.prior : r.prior[p].min \in Int
    BY <2>1, PolicyAssumption DEF TypeOK
  <2>3. DOMAIN g.rules \subseteq Nat /\ \A r \in DOMAIN g.rules : g.rules[r] \in ToSet(g.rules)
    BY <2>2, SequenceFacts DEF ToSet
  <2>4. chain[c] = [Configured(g) EXCEPT !.name = Class(found, g)]
    BY <2>1 DEF Chain
  <2> HIDE DEF g, chain
  <2>5. CASE g.broken
    <3>1. Configured(g) = [g EXCEPT !.limit = 0, !.banned = {}, !.target = "both", !.rules = <<>>]
      BY <2>5 DEF Configured
    <3>2. chain[c].limit = 0 /\ chain[c].rules = <<>>
      BY <2>2, <2>4, <3>1
    <3>3. QED
      BY <3>2
  <2>6. CASE ~g.broken
    <3>1. Configured(g) = [g EXCEPT !.rules = Normalized(g.rules)]
      BY <2>2, <2>6 DEF Configured
    <3>2. chain[c].limit = g.limit /\ chain[c].rules = Normalized(g.rules)
      BY <2>2, <2>4, <3>1
    <3>3. DOMAIN Normalized(g.rules) = DOMAIN g.rules
      BY DEF Normalized
    <3>4. ASSUME NEW r \in DOMAIN g.rules
          PROVE  \A p \in DOMAIN Normalized(g.rules)[r].prior :
                   Normalized(g.rules)[r].prior[p].min \in Int
      <4>1. Normalized(g.rules)[r].prior = <<>> \/ Normalized(g.rules)[r].prior = g.rules[r].prior
        BY <2>2, <2>3 DEF Normalized
      <4>2. QED
        BY <2>2, <2>3, <4>1
    <3>5. QED
      BY <2>2, <2>3, <3>2, <3>3, <3>4
  <2>7. QED
    BY <2>5, <2>6
<1>6. QED
  BY <1>2, <1>3, <1>4, <1>5
LEMMA Named ==
  \A name \in {"token_budget", "cost_budget", "iteration", "content", "hitl", "tool_precondition",
               "tool_diversity"} : name # NoGuard
BY Zenon DEF NoGuard

\* A hook that names no guard found none that blocks; when one blocks, a guard is named.
LEMMA InvokeFacts ==
  ASSUME TypeOK, NEW found, NEW hook
  PROVE  Invoke(hook, found) = NoGuard <=>
           \A i \in DOMAIN Chain(found) :
             ~(hook \in HookPoints(Chain(found)[i]) /\ Blocks(Chain(found)[i], hook))
<1> DEFINE chain == Chain(found)
           blocking == {i \in DOMAIN chain :
                          hook \in HookPoints(chain[i]) /\ Blocks(chain[i], hook)}
<1>1. DOMAIN chain \subseteq Nat
  BY ChainFacts
<1>2. Invoke(hook, found) = IF blocking = {} THEN NoGuard ELSE chain[Deciding(blocking)].name
  BY DEF Invoke
<1>3. ASSUME blocking # {} PROVE Invoke(hook, found) # NoGuard
  <2>1. blocking \in SUBSET Nat
    BY <1>1
  <2>2. Deciding(blocking) \in blocking
    <3> HIDE DEF blocking
    <3>1. QED
      BY <1>3, <2>1, FirstDecides
  <2>3. Blocks(chain[Deciding(blocking)], hook)
    BY <2>2
  <2>4. chain[Deciding(blocking)].name # NoGuard
    <3> HIDE DEF blocking, chain
    <3>1. QED
      BY <2>3, Named DEF Blocks
  <2>5. QED
    BY <1>2, <1>3, <2>4
<1> HIDE DEF chain
<1>4. blocking = {} <=> \A i \in DOMAIN chain :
                          ~(hook \in HookPoints(chain[i]) /\ Blocks(chain[i], hook))
  OBVIOUS
<1>5. QED
  BY <1>2, <1>3, <1>4 DEF chain

-----------------------------------------------------------------------------
(* Types *)

LEMMA EmptyFacts == Sequence(<<>>) /\ DOMAIN <<>> = {} /\ Len(<<>>) = 0
BY DEF Sequence

LEMMA InitType == Init => TypeOK
<1> SUFFICES ASSUME Init PROVE TypeOK
  OBVIOUS
<1>1. Sequence(said) /\ Sequence(pending) /\ Sequence(history)
  BY EmptyFacts DEF Init
<1>2. DOMAIN pending = {} /\ DOMAIN history = {}
  BY EmptyFacts DEF Init
<1>3. /\ su \in Setups /\ done = FALSE /\ phase = "setup" /\ decision = "continue"
      /\ iteration = 0 /\ retried = 0 /\ tokens = 0 /\ cost = 0 /\ at = 1 /\ denied = {}
  BY DEF Init
<1>4. /\ \A i \in DOMAIN pending : DOMAIN pending[i] = {"tool", "input"}
      /\ \A i \in DOMAIN history : DOMAIN history[i] = {"tool", "input", "iteration"}
                                   /\ history[i].iteration \in Nat
      /\ denied \subseteq DOMAIN pending
  BY <1>2, <1>3
<1>5. /\ iteration \in Nat /\ retried \in Nat /\ tokens \in Int /\ cost \in Int
      /\ at \in Nat \ {0}
  BY <1>3
<1>6. done \in BOOLEAN
  BY <1>3, Zenon
<1>7. QED
  BY <1>1, <1>3, <1>4, <1>5, <1>6 DEF TypeOK

\* What was discovered stays, but for a guard that is registered.
LEMMA GuardSteps ==
  ASSUME Register \/ PreMain \/ PostResponse \/ PreTool \/ Boundary
  PROVE  done' = TRUE /\ (Register \/ (done => discovered' = discovered))
<1>1. done' = TRUE /\ (discovered' \in Discoveries \/ Register)
  <2>1. CASE Register
    BY <2>1 DEF Register
  <2>2. CASE PreMain
    BY <2>2 DEF PreMain, HookAt
  <2>3. CASE PostResponse
    BY <2>3 DEF PostResponse, HookAt
  <2>4. CASE PreTool
    BY <2>4 DEF PreTool
  <2>5. CASE Boundary
    BY <2>5 DEF Boundary
  <2>6. QED
    BY <2>1, <2>2, <2>3, <2>4, <2>5
<1>2. done /\ discovered' \in Discoveries => discovered' = discovered
  BY DEF Discoveries
<1>3. QED
  BY <1>1, <1>2

\* The hooks before and after the main call.
LEMMA HookType ==
  ASSUME TypeOK, NEW hook, NEW next \in {"main", "decide", "pre_tool"}, HookAt(hook, next)
  PROVE  TypeOK'
<1>1. /\ phase' \in {"loop_boundary", next} /\ done' = TRUE
      /\ decision' \in {"complete", decision}
      /\ UNCHANGED <<su, iteration, retried, usage, user, said, calls, history>>
  BY DEF HookAt
<1>2. QED
  BY <1>1 DEF TypeOK, usage, calls

\* The answer of the LLM.
LEMMA MainType ==
  ASSUME TypeOK, MainCall
  PROVE  /\ TypeOK' /\ Len(said') = Len(said) + 1
         /\ \A i \in DOMAIN said : i \in DOMAIN said' /\ said'[i] = said[i]
         /\ \A i \in DOMAIN said' : i \in DOMAIN said \/ i = Len(said')
<1>1. PICK answer \in su.answers, charge \in su.charges :
        /\ said' = Append(said, answer.text) /\ pending' = answer.calls
        /\ tokens' = tokens + charge.tokens /\ cost' = cost + charge.cost
  BY DEF MainCall
<1>2. /\ Sequence(answer.calls) /\ \A c \in ToSet(answer.calls) : DOMAIN c = {"tool", "input"}
      /\ charge.tokens \in Int /\ charge.cost \in Int
  BY PolicyAssumption DEF TypeOK
<1>3. Sequence(pending') /\ \A i \in DOMAIN pending' : DOMAIN pending'[i] = {"tool", "input"}
  BY <1>1, <1>2 DEF ToSet
<1>4. tokens' \in Int /\ cost' \in Int
  BY <1>1, <1>2 DEF TypeOK
<1>5. Len(said) \in Nat /\ DOMAIN said = 1..Len(said) /\ said \in Seq(ToSet(said))
  BY SequenceFacts DEF TypeOK
<1> DEFINE all == ToSet(said) \cup {answer.text}
<1>6. said \in Seq(all) /\ answer.text \in all
  <2>1. ToSet(said) \subseteq all /\ answer.text \in all
    OBVIOUS
  <2> HIDE DEF all
  <2>2. QED
    BY <1>5, <2>1
<1> HIDE DEF all
<1>7. /\ said' \in Seq(all) /\ Len(said') = Len(said) + 1
      /\ \A i \in 1..Len(said) : said'[i] = said[i]
  BY <1>1, <1>5, <1>6, AppendProperties
<1>8. DOMAIN said' = 1..(Len(said) + 1)
  BY <1>7
<1>9. Sequence(said')
  BY <1>7, IsSequence
<1>10. /\ UNCHANGED <<su, registry, loop, blocked, user, history>>
       /\ at' = 1 /\ denied' = {} /\ phase' = "post_response"
  BY DEF MainCall
<1>11. TypeOK'
  BY <1>3, <1>4, <1>9, <1>10 DEF TypeOK, registry, loop
<1>12. QED
  BY <1>5, <1>7, <1>8, <1>11

\* One call past the gate.
LEMMA PreToolType ==
  ASSUME TypeOK, PreTool
  PROVE  /\ TypeOK' /\ at \in DOMAIN pending /\ DOMAIN pending' = DOMAIN pending
         /\ \A i \in DOMAIN pending : pending'[i].tool = pending[i].tool
         /\ \A i \in DOMAIN pending : i # at => pending'[i] = pending[i]
<1>1. Len(pending) \in Nat /\ DOMAIN pending = 1..Len(pending)
  BY SequenceFacts DEF TypeOK
<1>2. at \in DOMAIN pending /\ at \in Nat
  <2>1. at <= Len(pending)
    BY DEF PreTool
  <2>2. at \in Nat \ {0}
    BY DEF TypeOK
  <2>3. QED
    BY <1>1, <2>1, <2>2
<1>3. PICK input : /\ pending' = [pending EXCEPT ![at].input = input]
                   /\ denied' \in {denied, denied \cup {at}}
  BY DEF PreTool
<1>4. DOMAIN pending[at] = {"tool", "input"}
  BY <1>2 DEF TypeOK
<1>5. /\ DOMAIN pending' = DOMAIN pending
      /\ \A i \in DOMAIN pending : i # at => pending'[i] = pending[i]
      /\ pending'[at] = [pending[at] EXCEPT !.input = input]
  BY <1>2, <1>3
<1>6. pending'[at].tool = pending[at].tool /\ DOMAIN pending'[at] = {"tool", "input"}
  BY <1>4, <1>5
<1>7. Sequence(pending')
  <2>1. \A i \in DOMAIN pending' : pending'[i] \in ToSet(pending')
    BY DEF ToSet
  <2>2. pending' = [i \in 1..Len(pending) |-> pending'[i]]
    BY <1>1, <1>3
  <2>3. pending' \in [1..Len(pending) -> ToSet(pending')]
    BY <1>1, <1>5, <2>1, <2>2
  <2>4. QED
    BY <1>1, <2>3, SeqDef DEF Sequence
<1>8. /\ UNCHANGED <<su, phase, loop, blocked, usage, user, said, history>>
      /\ at' = at + 1 /\ done' = TRUE
  BY DEF PreTool
<1>9. \A i \in DOMAIN pending' : DOMAIN pending'[i] = {"tool", "input"}
  BY <1>5, <1>6 DEF TypeOK
<1>10. denied' \subseteq DOMAIN pending'
  BY <1>2, <1>3, <1>5 DEF TypeOK
<1>11. TypeOK'
  BY <1>2, <1>7, <1>8, <1>9, <1>10 DEF TypeOK, loop, usage
<1>12. QED
  BY <1>2, <1>5, <1>6, <1>11
\* s07_act: the history grows by the calls that were left, as they stand.
LEMMA ActType ==
  ASSUME TypeOK, Act
  PROVE  /\ TypeOK' /\ Len(history') >= Len(history)
         /\ \A i \in DOMAIN history : i \in DOMAIN history' /\ history'[i] = history[i]
         /\ \A i \in DOMAIN history' :
              \/ i \in DOMAIN history
              \/ \E k \in DOMAIN pending \ denied :
                   history'[i] = [tool |-> pending[k].tool, input |-> pending[k].input,
                                  iteration |-> iteration]
<1> DEFINE left == DOMAIN pending \ denied
           Ran(i) == [tool |-> pending[i].tool, input |-> pending[i].input,
                      iteration |-> iteration]
<1>1. PICK run \in [1 .. Cardinality(left) -> left] :
        history' = history \o [k \in DOMAIN run |-> Ran(run[k])]
  BY DEF Act
<1>2. /\ UNCHANGED <<su, registry, loop, blocked, usage, said>>
      /\ phase' = "decide" /\ pending' = <<>> /\ at' = 1 /\ denied' = {}
  BY DEF Act
<1> DEFINE new == [k \in DOMAIN run |-> Ran(run[k])]
<1>3. Cardinality(left) \in Nat
  <2>1. Len(pending) \in Nat /\ DOMAIN pending = 1..Len(pending)
    BY SequenceFacts DEF TypeOK
  <2>2. IsFiniteSet(DOMAIN pending)
    <3>1. IsFiniteSet(1..Len(pending))
      BY <2>1, FS_Interval
    <3>2. QED
      BY <2>1, <3>1
  <2>3. IsFiniteSet(left)
    BY <2>2, FS_Subset
  <2> HIDE DEF left
  <2>4. QED
    BY <2>3, FS_CardinalityType
<1> HIDE DEF left
<1>4. Sequence(new)
  <2>1. \A k \in 1..Cardinality(left) : new[k] \in ToSet(new)
    BY DEF ToSet
  <2>2. new = [k \in 1..Cardinality(left) |-> new[k]]
    OBVIOUS
  <2> HIDE DEF new
  <2>3. new \in [1..Cardinality(left) -> ToSet(new)]
    BY <2>1, <2>2
  <2>4. QED
    BY <1>3, <2>3, SeqDef DEF Sequence
<1>5. \A k \in DOMAIN new : run[k] \in left /\ new[k] = Ran(run[k])
  OBVIOUS
<1> HIDE DEF new, Ran
<1>6. Sequence(history)
  BY DEF TypeOK
<1>7. /\ Sequence(history') /\ Len(history') = Len(history) + Len(new)
      /\ \A i \in DOMAIN history : i \in DOMAIN history' /\ history'[i] = history[i]
      /\ \A i \in DOMAIN history' :
           i \in DOMAIN history \/ \E k \in DOMAIN new : history'[i] = new[k]
  <2>1. history' = history \o new
    BY <1>1 DEF new
  <2>2. QED
    BY <1>4, <1>6, <2>1, Joined
<1>8. \A i \in DOMAIN history' : i \in DOMAIN history \/ \E k \in left : history'[i] = Ran(k)
  BY <1>5, <1>7
<1>9. \A i \in DOMAIN history' : DOMAIN history'[i] = {"tool", "input", "iteration"}
                                 /\ history'[i].iteration \in Nat
  BY <1>7, <1>8 DEF Ran, TypeOK
<1>10. /\ Sequence(pending') /\ DOMAIN pending' = {} /\ at' \in Nat \ {0}
       /\ denied' \subseteq DOMAIN pending'
  BY <1>2, EmptyFacts
<1>11. TypeOK'
  BY <1>2, <1>7, <1>9, <1>10 DEF TypeOK, registry, loop, usage
<1>12. Len(new) \in Nat /\ Len(history) \in Nat
  BY <1>4, <1>6, SequenceFacts
<1>13. QED
  BY <1>7, <1>8, <1>11, <1>12 DEF left, Ran

\* The steps that make no call.
LEMMA RestType ==
  ASSUME TypeOK, Register \/ Iterate \/ Decide \/ Boundary
  PROVE  TypeOK'
<1>1. CASE Register
  <2>1. done' = TRUE
    BY <1>1 DEF Register
  <2>2. done' \in BOOLEAN
    BY <2>1, Zenon
  <2>3. UNCHANGED <<su, phase, loop, blocked, usage, user, said, calls, history>>
    BY <1>1 DEF Register
  <2>4. QED
    BY <2>2, <2>3 DEF TypeOK, loop, usage, calls
<1>2. CASE Iterate
  <2>1. /\ phase' \in {"pre_main", "over"} /\ iteration' \in {iteration, iteration + 1}
        /\ UNCHANGED <<su, registry, decision, retried, blocked, usage, user, said, calls, history>>
    BY <1>2 DEF Iterate
  <2>2. QED
    BY <2>1 DEF TypeOK, registry, usage, calls
<1>3. CASE Decide
  <2>1. /\ phase' = "loop_boundary" /\ decision' \in {"continue", "complete", "retry", "error"}
        /\ UNCHANGED <<su, registry, iteration, retried, blocked, usage, user, said, calls, history>>
    BY <1>3 DEF Decide
  <2>2. QED
    BY <2>1 DEF TypeOK, registry, usage, calls
<1>4. CASE Boundary
  <2>1. /\ phase' = "loop" /\ retried' \in {retried, retried + 1}
        /\ decision' \in {"continue", "complete", decision}
        /\ UNCHANGED <<su, iteration, usage, user, said, calls, history>>
    BY <1>4 DEF Boundary
  <2>2. done' = TRUE
    BY <1>4 DEF Boundary
  <2>3. done' \in BOOLEAN
    BY <2>2, Zenon
  <2>4. QED
    BY <2>1, <2>3 DEF TypeOK, usage, calls
<1>5. QED
  BY <1>1, <1>2, <1>3, <1>4

LEMMA StepType ==
  ASSUME TypeOK, [Next]_vars
  PROVE  TypeOK'
<1>1. CASE UNCHANGED vars
  BY <1>1 DEF vars, TypeOK, registry, loop, usage, calls
<1>2. CASE PreMain
  <2>1. HookAt("pre_main", "main")
    BY <1>2 DEF PreMain
  <2>2. QED
    BY <2>1, HookType
<1>3. CASE PostResponse
  <2>1. HookAt("post_response", "decide") \/ HookAt("post_response", "pre_tool")
    BY <1>3 DEF PostResponse
  <2>2. QED
    BY <2>1, HookType
<1>4. QED
  BY <1>1, <1>2, <1>3, MainType, PreToolType, ActType, RestType DEF Next

\* The types of the state, whatever the guards, their order and the answers of the LLM.
THEOREM TypeCorrect == Spec => []TypeOK
<1>1. TypeOK /\ [Next]_vars => TypeOK'
  BY StepType
<1>2. QED
  BY <1>1, InitType, PTL DEF Spec

-----------------------------------------------------------------------------
(* Where the run is: how many texts there are, whether guards have been discovered,
   and that nothing follows a block. *)

SaidInv ==
  /\ Len(said) <= iteration
  /\ phase \in {"pre_main", "main"} => Len(said) = iteration - 1
  /\ phase \in {"post_response", "pre_tool", "decide"} => Len(said) = iteration
  /\ phase \in {"setup", "loop_boundary", "loop"} /\ blocked = NoGuard => Len(said) = iteration
  /\ phase \notin {"setup", "over"} => iteration > 0
  /\ phase = "setup" => iteration = 0
BlockedInv ==
  /\ phase \notin {"loop_boundary", "loop", "over"} => blocked = NoGuard
  /\ phase = "setup" => decision = "continue"
  /\ phase = "loop" /\ decision = "continue" => blocked = NoGuard
  /\ phase = "loop_boundary" /\ blocked # NoGuard => decision = "complete"
FoundInv ==
  /\ done \/ phase \in {"setup", "pre_main", "over"}
  /\ done \/ said = <<>>
  /\ said = <<>> => user = su.user /\ history = <<>>
RunInv == SaidInv /\ BlockedInv /\ FoundInv

LEMMA InitRun == Init => RunInv
<1> SUFFICES ASSUME Init PROVE RunInv
  OBVIOUS
<1>1. Len(said) = 0 /\ iteration = 0 /\ Len(said) \in Nat /\ iteration \in Nat
  BY EmptyFacts DEF Init
<1>2. phase = "setup" /\ blocked = NoGuard /\ decision = "continue"
  BY DEF Init
<1>3. said = <<>> /\ user = su.user /\ history = <<>>
  BY DEF Init
<1>4. SaidInv
  <2>1. Len(said) <= iteration /\ Len(said) = iteration
    BY <1>1
  <2>2. QED
    BY <1>1, <1>2, <2>1 DEF SaidInv
<1>5. BlockedInv
  BY <1>2 DEF BlockedInv
<1>6. FoundInv
  BY <1>2, <1>3 DEF FoundInv
<1>7. QED
  BY <1>4, <1>5, <1>6 DEF RunInv

\* A hook that blocks is seen in blocked.
LEMMA HookFacts ==
  ASSUME NEW hook, NEW next, HookAt(hook, next)
  PROVE  /\ done' = TRUE /\ phase = hook
         /\ \/ /\ blocked' # NoGuard /\ decision' = "complete" /\ phase' = "loop_boundary"
            \/ /\ blocked' = NoGuard /\ blocked = NoGuard /\ Invoke(hook, discovered') = NoGuard
               /\ phase' = next /\ UNCHANGED decision
         /\ UNCHANGED <<su, iteration, retried, usage, user, said, calls, history>>
BY DEF HookAt

LEMMA BoundaryFacts ==
  ASSUME Boundary
  PROVE  /\ done' = TRUE /\ phase = "loop_boundary" /\ phase' = "loop"
         /\ decision' = "continue"
              => /\ Invoke("loop_boundary", discovered') = NoGuard /\ blocked' = blocked
                 /\ decision # "complete"
         /\ UNCHANGED <<su, iteration, usage, user, said, calls, history>>
<1>1. PICK found \in Discoveries :
        LET by == Invoke("loop_boundary", found)
            so == IF by = NoGuard THEN decision ELSE "complete"
        IN /\ discovered' = found
           /\ blocked' = IF by = NoGuard THEN blocked ELSE by
           /\ IF so # "retry" THEN decision' = so
              ELSE decision' \in {"complete", "continue"}
  BY DEF Boundary
<1>2. QED
  BY <1>1 DEF Boundary

LEMMA StepRun ==
  ASSUME TypeOK, RunInv, [Next]_vars
  PROVE  RunInv'
<1> USE DEF RunInv
<1>1. TypeOK' /\ Sequence(said) /\ Sequence(said') /\ Len(said) \in Nat /\ iteration \in Nat
  <2>1. TypeOK'
    BY StepType
  <2>2. QED
    BY <2>1, SequenceFacts DEF TypeOK
<1>2. CASE UNCHANGED vars
  BY <1>2 DEF vars, SaidInv, BlockedInv, FoundInv, registry, loop, usage
<1>3. CASE Register
  <2>1. done' = TRUE /\ UNCHANGED <<su, phase, loop, blocked, user, said, history>>
    BY <1>3 DEF Register
  <2>2. QED
    BY <2>1 DEF SaidInv, BlockedInv, FoundInv, loop
<1>4. CASE Iterate
  <2>1. /\ phase \in {"setup", "loop"}
        /\ \/ decision = "continue" /\ phase' = "pre_main" /\ iteration' = iteration + 1
           \/ phase' = "over" /\ UNCHANGED iteration
        /\ UNCHANGED <<su, discovered, done, decision, blocked, user, said, history>>
    BY <1>4 DEF Iterate, registry
  <2>2. QED
    <3>1. SaidInv'
      <4>1. phase = "loop" => blocked = NoGuard \/ phase' = "over"
        BY <2>1 DEF BlockedInv
      <4>2. Len(said') = Len(said)
        BY <2>1
      <4>3. Len(said) = iteration \/ phase' = "over"
        BY <2>1, <4>1 DEF SaidInv, BlockedInv
      <4>4. QED
        <5>1. Len(said') <= iteration'
          <6>1. iteration' = iteration \/ iteration' = iteration + 1
            BY <2>1
          <6>2. Len(said) <= iteration
            BY DEF SaidInv
          <6>3. iteration <= iteration + 1 /\ iteration + 1 \in Int
            BY <1>1
          <6>4. Len(said) <= iteration'
            BY <1>1, <6>1, <6>2, <6>3
          <6>5. QED
            BY <4>2, <6>4
        <5>2. iteration' = iteration + 1 => iteration' > 0 /\ iteration' - 1 = iteration
          BY <1>1
        <5>3. QED
          BY <2>1, <4>2, <4>3, <5>1, <5>2 DEF SaidInv
    <3>2. BlockedInv'
      BY <2>1 DEF BlockedInv
    <3>3. FoundInv'
      BY <2>1 DEF FoundInv, BlockedInv
    <3>4. QED
      BY <3>1, <3>2, <3>3
<1>5. ASSUME NEW hook \in {"pre_main", "post_response"}, NEW next \in {"main", "decide", "pre_tool"},
             hook = "pre_main" <=> next = "main", HookAt(hook, next)
      PROVE  RunInv'
  <2>1. /\ done' = TRUE /\ phase = hook
        /\ \/ blocked' # NoGuard /\ decision' = "complete" /\ phase' = "loop_boundary"
           \/ blocked' = NoGuard /\ phase' = next
        /\ UNCHANGED <<su, iteration, user, said, history>>
    BY <1>5, HookFacts
  <2>2. QED
    BY <1>1, <1>5, <2>1 DEF SaidInv, BlockedInv, FoundInv
<1>6. CASE PreMain
  BY <1>5, <1>6 DEF PreMain
<1>7. CASE PostResponse
  <2>1. HookAt("post_response", "decide") \/ HookAt("post_response", "pre_tool")
    BY <1>7 DEF PostResponse
  <2>2. QED
    BY <1>5, <2>1
<1>8. CASE MainCall
  <2>1. Len(said') = Len(said) + 1
    BY <1>8, MainType
  <2>2. said' # <<>>
    BY <1>1, <2>1, EmptyFacts
  <2>3. /\ phase = "main" /\ phase' = "post_response"
        /\ UNCHANGED <<su, discovered, done, decision, iteration, blocked>>
    BY <1>8 DEF MainCall, registry, loop
  <2>4. QED
    <3>1. SaidInv'
      BY <1>1, <2>1, <2>3 DEF SaidInv
    <3>2. BlockedInv'
      BY <2>3 DEF BlockedInv
    <3>3. FoundInv'
      BY <2>2, <2>3 DEF FoundInv
    <3>4. QED
      BY <3>1, <3>2, <3>3
<1>9. CASE PreTool
  <2>1. done' = TRUE /\ UNCHANGED <<su, phase, decision, iteration, blocked, user, said, history>>
    BY <1>9 DEF PreTool, loop
  <2>2. QED
    BY <2>1 DEF SaidInv, BlockedInv, FoundInv
<1>10. CASE Act
  <2>1. /\ phase = "pre_tool" /\ phase' = "decide"
        /\ UNCHANGED <<su, discovered, done, decision, iteration, blocked, said>>
    BY <1>10 DEF Act, registry, loop
  <2>2. said # <<>>
    BY <1>1, <2>1, EmptyFacts DEF SaidInv
  <2>3. QED
    BY <2>1, <2>2 DEF SaidInv, BlockedInv, FoundInv
<1>11. CASE Decide
  <2>1. /\ phase = "decide" /\ phase' = "loop_boundary"
        /\ UNCHANGED <<su, discovered, done, iteration, blocked, user, said, history>>
    BY <1>11 DEF Decide, registry
  <2>2. QED
    BY <2>1 DEF SaidInv, BlockedInv, FoundInv
<1>12. CASE Boundary
  <2>1. /\ done' = TRUE /\ phase = "loop_boundary" /\ phase' = "loop"
        /\ decision' = "continue" => blocked' = blocked /\ decision # "complete"
        /\ UNCHANGED <<su, iteration, user, said, history>>
    BY <1>12, BoundaryFacts
  <2>2. blocked' = NoGuard => blocked = NoGuard
    BY <1>12 DEF Boundary
  <2>3. QED
    BY <2>1, <2>2 DEF SaidInv, BlockedInv, FoundInv
<1>13. QED
  BY <1>2, <1>3, <1>4, <1>6, <1>7, <1>8, <1>9, <1>10, <1>11, <1>12 DEF Next
-----------------------------------------------------------------------------
(* Budgets *)

\* No guard of the chain is against an n-th iteration.
Within(n) ==
  \A c \in DOMAIN Chain(discovered) :
    LET g == Chain(discovered)[c]
    IN /\ g.name = "token_budget" => ~TokenBudget(g)
       /\ g.name = "cost_budget" => ~CostBudget(g)
       /\ g.name = "iteration" /\ su.maxIterations # None => n <= su.maxIterations
\* The first call finds nothing used, each later one a boundary that let it pass.
BudgetInv ==
  /\ phase = "setup" => tokens = 0 /\ cost = 0
  /\ phase \in {"pre_main", "main"} =>
       \/ iteration = 1 /\ tokens = 0 /\ cost = 0
       \/ done /\ Within(iteration)
  /\ phase = "loop" /\ decision = "continue" => Within(iteration + 1)

LEMMA ChainStays == ASSUME su' = su PROVE Chain(discovered)' = Chain(discovered')
BY DEF Chain, Class

LEMMA WithinStays ==
  ASSUME NEW n, UNCHANGED <<su, discovered, tokens, cost>>
  PROVE  Within(n) => Within(n)'
<1>1. Chain(discovered)' = Chain(discovered)
  BY ChainStays
<1>2. QED
  BY <1>1 DEF Within, TokenBudget, CostBudget, Limit

LEMMA WithinNext ==
  ASSUME UNCHANGED <<su, discovered, tokens, cost>>, iteration' = iteration + 1,
         Within(iteration + 1)
  PROVE  Within(iteration)'
<1>1. Chain(discovered)' = Chain(discovered)
  BY ChainStays
<1>2. \A g : TokenBudget(g)' = TokenBudget(g) /\ CostBudget(g)' = CostBudget(g)
  BY DEF TokenBudget, CostBudget, Limit
<1>3. QED
  BY <1>1, <1>2 DEF Within

\* What the last hook of an iteration lets pass.
LEMMA BoundaryWithin ==
  ASSUME TypeOK, Boundary, decision' = "continue"
  PROVE  Within(iteration + 1)'
<1>1. /\ Invoke("loop_boundary", discovered') = NoGuard /\ UNCHANGED <<su, iteration, usage>>
  BY BoundaryFacts
<1>2. Chain(discovered)' = Chain(discovered')
  BY <1>1, ChainStays
<1>3. ASSUME NEW c \in DOMAIN Chain(discovered')
      PROVE  LET g == Chain(discovered')[c]
             IN /\ g.name = "token_budget" => ~TokenBudget(g)
                /\ g.name = "cost_budget" => ~CostBudget(g)
                /\ g.name = "iteration" => ~IterationReached
  <2> DEFINE g == Chain(discovered')[c]
  <2>1. ~("loop_boundary" \in HookPoints(g) /\ Blocks(g, "loop_boundary"))
    BY <1>1, <1>3, InvokeFacts
  <2> HIDE DEF g
  <2>2. g.name \in {"token_budget", "cost_budget", "iteration"}
          => "loop_boundary" \in HookPoints(g)
    BY DEF HookPoints
  <2>3. /\ g.name = "token_budget" => Blocks(g, "loop_boundary") = TokenBudget(g)
        /\ g.name = "cost_budget" => Blocks(g, "loop_boundary") = CostBudget(g)
        /\ g.name = "iteration" => Blocks(g, "loop_boundary") = IterationReached
    BY DEF Blocks
  <2>4. QED
    BY <2>1, <2>2, <2>3 DEF g
<1>4. ~IterationReached => su.maxIterations = None \/ iteration + 1 <= su.maxIterations
  <2>1. iteration \in Nat /\ su.maxIterations \in Int
    BY PolicyAssumption DEF TypeOK
  <2>2. QED
    BY <2>1 DEF IterationReached
<1>5. \A g : TokenBudget(g)' = TokenBudget(g) /\ CostBudget(g)' = CostBudget(g)
  BY <1>1 DEF TokenBudget, CostBudget, Limit, usage
<1>6. QED
  BY <1>1, <1>2, <1>3, <1>4, <1>5 DEF Within

LEMMA StepBudget ==
  ASSUME TypeOK, RunInv, BudgetInv, [Next]_vars
  PROVE  BudgetInv'
<1>1. iteration \in Nat
  BY DEF TypeOK
<1>2. CASE UNCHANGED vars
  <2>1. UNCHANGED <<su, discovered, done, tokens, cost, phase, decision, iteration>>
    BY <1>2 DEF vars, registry, usage, loop
  <2>2. /\ Within(iteration) => Within(iteration)'
        /\ Within(iteration + 1) => Within(iteration + 1)'
    BY <2>1, WithinStays DEF Within
  <2>3. QED
    BY <2>1, <2>2 DEF BudgetInv
<1>3. CASE Register
  <2>1. phase = "setup" /\ UNCHANGED <<phase, loop, usage>>
    BY <1>3 DEF Register
  <2>2. QED
    BY <2>1 DEF BudgetInv, loop, usage
<1>4. CASE Iterate
  <2>1. /\ phase \in {"setup", "loop"}
        /\ \/ decision = "continue" /\ phase' = "pre_main" /\ iteration' = iteration + 1
           \/ phase' = "over" /\ UNCHANGED iteration
        /\ UNCHANGED <<su, discovered, done, decision, tokens, cost>>
    BY <1>4 DEF Iterate, registry, usage
  <2>2. CASE phase' = "over"
    BY <2>2 DEF BudgetInv
  <2>3. CASE phase = "setup" /\ phase' = "pre_main"
    <3>1. iteration = 0 /\ tokens = 0 /\ cost = 0
      BY <2>3 DEF BudgetInv, RunInv, SaidInv
    <3>2. iteration' = 1 /\ tokens' = 0 /\ cost' = 0
      BY <2>1, <2>3, <3>1
    <3>3. QED
      BY <2>3, <3>2 DEF BudgetInv
  <2>4. CASE phase = "loop" /\ phase' = "pre_main"
    <3>1. done /\ Within(iteration + 1)
      BY <2>1, <2>4 DEF BudgetInv, RunInv, FoundInv
    <3>2. Within(iteration)'
      BY <2>1, <2>4, <3>1, WithinNext
    <3>3. QED
      BY <2>1, <2>4, <3>1, <3>2 DEF BudgetInv
  <2>5. QED
    BY <2>1, <2>2, <2>3, <2>4
<1>5. ASSUME NEW hook \in {"pre_main", "post_response"}, NEW next \in {"main", "decide", "pre_tool"},
             hook = "pre_main" <=> next = "main", HookAt(hook, next),
             PreMain \/ PostResponse
      PROVE  BudgetInv'
  <2>1. /\ done' = TRUE /\ phase = hook
        /\ phase' \in {"loop_boundary", next}
        /\ UNCHANGED <<su, iteration, tokens, cost>>
    BY <1>5, HookFacts DEF usage
  <2>2. CASE phase' # "main"
    BY <1>5, <2>1, <2>2 DEF BudgetInv
  <2>3. CASE phase' = "main"
    <3>1. phase = "pre_main"
      BY <1>5, <2>1, <2>3
    <3>2. CASE iteration = 1 /\ tokens = 0 /\ cost = 0
      BY <2>1, <2>3, <3>2 DEF BudgetInv
    <3>3. CASE done /\ Within(iteration)
      <4>1. discovered' = discovered
        BY <1>5, <3>1, <3>3, GuardSteps DEF Register
      <4>2. Within(iteration)'
        BY <2>1, <3>3, <4>1, WithinStays DEF Within
      <4>3. QED
        BY <2>1, <2>3, <4>2 DEF BudgetInv
    <3>4. QED
      BY <3>1, <3>2, <3>3 DEF BudgetInv
  <2>4. QED
    BY <2>2, <2>3
<1>6. CASE PreMain
  BY <1>5, <1>6 DEF PreMain
<1>7. CASE PostResponse
  <2>1. HookAt("post_response", "decide") \/ HookAt("post_response", "pre_tool")
    BY <1>7 DEF PostResponse
  <2>2. QED
    BY <1>5, <1>7, <2>1
<1>8. CASE MainCall
  <2>1. phase' = "post_response"
    BY <1>8 DEF MainCall
  <2>2. QED
    BY <2>1 DEF BudgetInv
<1>9. CASE PreTool
  <2>1. phase' = "pre_tool"
    BY <1>9 DEF PreTool
  <2>2. QED
    BY <2>1 DEF BudgetInv
<1>10. CASE Act
  <2>1. phase' = "decide"
    BY <1>10 DEF Act
  <2>2. QED
    BY <2>1 DEF BudgetInv
<1>11. CASE Decide
  <2>1. phase' = "loop_boundary"
    BY <1>11 DEF Decide
  <2>2. QED
    BY <2>1 DEF BudgetInv
<1>12. CASE Boundary
  <2>1. phase' = "loop" /\ iteration' = iteration
    BY <1>12, BoundaryFacts
  <2>2. decision' = "continue" => Within(iteration + 1)'
    BY <1>12, BoundaryWithin
  <2>3. QED
    BY <2>1, <2>2 DEF BudgetInv
<1>13. QED
  BY <1>2, <1>3, <1>4, <1>6, <1>7, <1>8, <1>9, <1>10, <1>11, <1>12 DEF Next

\* No main call is made with a budget used up: BudgetInv carries what the last boundary
\* saw to the call.
THEOREM BudgetsKept == Spec => []InBudget
<1>1. Init => RunInv /\ BudgetInv
  BY InitRun DEF Init, BudgetInv
<1>2. TypeOK /\ RunInv /\ BudgetInv /\ [Next]_vars => (TypeOK /\ RunInv /\ BudgetInv)'
  BY StepType, StepRun, StepBudget
<1>3. ASSUME TypeOK, BudgetInv PROVE InBudget
  <2> SUFFICES ASSUME phase = "main", NEW c \in DOMAIN Chain(discovered)
               PROVE  LET g == Chain(discovered)[c]
                      IN /\ g.name = "token_budget" /\ g.limit > 0 => 100 * tokens <= 95 * g.limit
                         /\ g.name = "cost_budget" /\ g.limit > 0 => cost < g.limit
                         /\ g.name = "iteration" /\ su.maxIterations # None /\ iteration > 1
                              => iteration <= su.maxIterations
    BY DEF InBudget, ToSet
  <2> DEFINE g == Chain(discovered)[c]
  <2>1. g.limit \in Int /\ tokens \in Int /\ cost \in Int /\ iteration \in Nat
    BY <1>3, ChainFacts DEF TypeOK
  <2>2. \/ iteration = 1 /\ tokens = 0 /\ cost = 0
        \/ /\ g.name = "token_budget" => ~TokenBudget(g)
           /\ g.name = "cost_budget" => ~CostBudget(g)
           /\ g.name = "iteration" /\ su.maxIterations # None => iteration <= su.maxIterations
    BY <1>3 DEF BudgetInv, Within
  <2> HIDE DEF g
  <2>3. g.limit > 0 => Limit(g, su.contextWindow) = g.limit /\ Limit(g, su.costBudget) = g.limit
                       /\ g.limit # None
    BY <2>1 DEF Limit, None
  <2>4. /\ g.limit > 0 /\ ~TokenBudget(g) => 100 * tokens <= 95 * g.limit
        /\ g.limit > 0 /\ ~CostBudget(g) => cost < g.limit
    BY <2>1, <2>3 DEF TokenBudget, CostBudget
  <2>5. QED
    BY <2>1, <2>2, <2>4 DEF g
<1>4. QED
  BY <1>1, <1>2, <1>3, InitType, PTL DEF Spec
-----------------------------------------------------------------------------
(* Content *)

Outputs(g) == g.name = "content" /\ g.target \in {"output", "both"}
Inputs(g) == g.name = "content" /\ g.target \in {"input", "both"}
\* The chain as it stands.
Guards == {Chain(discovered)[c] : c \in DOMAIN Chain(discovered)}
\* What ran came with an earlier text.
HistoryInv ==
  /\ \A j \in DOMAIN history : history[j].iteration <= Len(said)
  /\ phase \in {"post_response", "pre_tool"} =>
       \A j \in DOMAIN history : history[j].iteration < Len(said)
\* Only the newest text may be banned, and only when it has not been looked at or has
\* stopped the run.
OutputInv ==
  \A g \in Guards : Outputs(g) =>
    \A i \in DOMAIN said : said[i] \cap g.banned # {} =>
      /\ i = Len(said)
      /\ phase = "post_response" \/ blocked # NoGuard
      /\ \A j \in DOMAIN history : history[j].iteration < i
InputInv ==
  phase = "main" \/ said # <<>> => \A g \in Guards : Inputs(g) => su.user \cap g.banned = {}
ContentInv == HistoryInv /\ OutputInv /\ InputInv

LEMMA GuardsStay ==
  ASSUME UNCHANGED <<su, discovered>>
  PROVE  Guards' = Guards
<1>1. Chain(discovered)' = Chain(discovered)
  BY ChainStays
<1>2. QED
  BY <1>1 DEF Guards

\* Once discovered, the guards are the same for good.
LEMMA DoneStays ==
  ASSUME TypeOK, RunInv, done, [Next]_vars
  PROVE  Guards' = Guards \/ (Register /\ said = <<>> /\ UNCHANGED <<phase, said>>)
<1>1. su' = su
  BY DEF Next, vars, Register, Iterate, PreMain, PostResponse, HookAt, MainCall, PreTool, Act,
         Decide, Boundary
<1>2. CASE Register \/ PreMain \/ PostResponse \/ PreTool \/ Boundary
  <2>1. CASE Register
    <3>1. phase = "setup" /\ UNCHANGED <<phase, said>>
      BY <2>1 DEF Register
    <3>2. Len(said) = 0
      <4>1. iteration = 0 /\ Len(said) <= iteration
        BY <3>1 DEF RunInv, SaidInv
      <4>2. Len(said) \in Nat
        BY SequenceFacts DEF TypeOK
      <4>3. QED
        BY <4>1, <4>2
    <3>3. said = <<>>
      BY <3>2, SequenceFacts, EmptySeq DEF TypeOK
    <3>4. QED
      BY <2>1, <3>1, <3>3
  <2>2. QED
    BY <1>1, <1>2, <2>1, GuardSteps, GuardsStay
<1>3. CASE ~(Register \/ PreMain \/ PostResponse \/ PreTool \/ Boundary)
  <2>1. discovered' = discovered
    BY <1>3 DEF Next, vars, registry, Iterate, MainCall, Act, Decide
  <2>2. QED
    BY <1>1, <2>1, GuardsStay
<1>4. QED
  BY <1>2, <1>3

LEMMA StepHistory ==
  ASSUME TypeOK, RunInv, HistoryInv, [Next]_vars
  PROVE  HistoryInv'
<1>1. Len(said) \in Nat /\ iteration \in Nat
  BY SequenceFacts DEF TypeOK
<1>2. CASE UNCHANGED <<said, history>> /\ phase' \notin {"post_response", "pre_tool"}
  BY <1>2 DEF HistoryInv
<1>3. CASE UNCHANGED <<said, history>> /\ phase \in {"post_response", "pre_tool"}
  BY <1>3 DEF HistoryInv
<1>4. CASE UNCHANGED vars
  BY <1>4 DEF vars, HistoryInv
<1>5. CASE MainCall
  <2>1. history' = history
    BY <1>5 DEF MainCall
  <2>2. Len(said') = Len(said) + 1
    BY <1>5, MainType
  <2>3. \A j \in DOMAIN history : history[j].iteration \in Nat /\ history[j].iteration <= Len(said)
    BY DEF HistoryInv, TypeOK
  <2>4. \A j \in DOMAIN history' : history'[j].iteration < Len(said')
                                   /\ history'[j].iteration <= Len(said')
    BY <1>1, <2>1, <2>2, <2>3
  <2>5. QED
    BY <2>4 DEF HistoryInv
<1>6. CASE Act
  <2>1. phase = "pre_tool" /\ phase' = "decide" /\ said' = said
    BY <1>6 DEF Act
  <2>2. Len(said) = iteration
    BY <2>1 DEF RunInv, SaidInv
  <2>3. ASSUME NEW j \in DOMAIN history' PROVE history'[j].iteration <= Len(said')
    <3>1. CASE j \in DOMAIN history
      <4>1. history'[j] = history[j]
        BY <1>6, <3>1, ActType
      <4>2. QED
        BY <2>1, <3>1, <4>1 DEF HistoryInv
    <3>2. CASE j \notin DOMAIN history
      <4>1. history'[j].iteration = iteration
        BY <1>6, <3>2, ActType
      <4>2. QED
        BY <1>1, <2>1, <2>2, <4>1
    <3>3. QED
      BY <3>1, <3>2
  <2>4. QED
    BY <2>1, <2>3 DEF HistoryInv
<1>7. CASE Register
  <2>1. phase' = "setup" /\ UNCHANGED <<said, history>>
    BY <1>7 DEF Register
  <2>2. QED
    BY <1>2, <2>1
<1>8. CASE Iterate
  <2>1. phase' \in {"pre_main", "over"} /\ UNCHANGED <<said, history>>
    BY <1>8 DEF Iterate
  <2>2. QED
    BY <1>2, <2>1
<1>9. CASE PreMain
  <2>1. phase' \in {"main", "loop_boundary"} /\ UNCHANGED <<said, history>>
    BY <1>9 DEF PreMain, HookAt
  <2>2. QED
    BY <1>2, <2>1
<1>10. CASE PostResponse
  <2>1. phase = "post_response" /\ UNCHANGED <<said, history>>
    BY <1>10 DEF PostResponse, HookAt
  <2>2. QED
    BY <1>3, <2>1
<1>11. CASE PreTool
  <2>1. phase = "pre_tool" /\ UNCHANGED <<said, history>>
    BY <1>11 DEF PreTool
  <2>2. QED
    BY <1>3, <2>1
<1>12. CASE Decide \/ Boundary
  <2>1. phase' \in {"loop_boundary", "loop"} /\ UNCHANGED <<said, history>>
    BY <1>12 DEF Decide, Boundary
  <2>2. QED
    BY <1>2, <2>1
<1>13. QED
  BY <1>4, <1>5, <1>6, <1>7, <1>8, <1>9, <1>10, <1>11, <1>12 DEF Next

\* What a hook lets pass, it has looked at.
LEMMA PassedContent ==
  ASSUME TypeOK, NEW found, NEW hook \in {"pre_main", "post_response"}, Invoke(hook, found) = NoGuard,
         NEW c \in DOMAIN Chain(found)
  PROVE  LET g == Chain(found)[c]
         IN /\ hook = "pre_main" /\ Inputs(g) => user \cap g.banned = {}
            /\ hook = "post_response" /\ Outputs(g) /\ said # <<>> => Last(said) \cap g.banned = {}
<1> DEFINE g == Chain(found)[c]
<1>1. ~(hook \in HookPoints(g) /\ Blocks(g, hook))
  BY InvokeFacts
<1> HIDE DEF g
<1>2. /\ hook = "pre_main" /\ Inputs(g) => hook \in HookPoints(g)
      /\ hook = "post_response" /\ Outputs(g) => hook \in HookPoints(g)
  BY DEF Inputs, Outputs, HookPoints
<1>3. g.name = "content" => Blocks(g, hook) = Content(g, hook)
  BY DEF Blocks
<1>4. /\ hook = "pre_main" => Content(g, hook) = (user \cap g.banned # {})
      /\ hook = "post_response" /\ said # <<>> => Content(g, hook) = (Last(said) \cap g.banned # {})
  BY DEF Content
<1>5. /\ hook = "pre_main" /\ Inputs(g) => user \cap g.banned = {}
      /\ hook = "post_response" /\ Outputs(g) /\ said # <<>> => Last(said) \cap g.banned = {}
  BY <1>1, <1>2, <1>3, <1>4 DEF Inputs, Outputs
<1>6. QED
  BY <1>5 DEF g
\* Texts that stay as they are, looked at by the same guards.
LEMMA ContentStays ==
  ASSUME OutputInv, InputInv, UNCHANGED <<su, said, history>>, Guards' = Guards \/ said = <<>>,
         phase = "post_response" => phase' = "post_response" \/ blocked' # NoGuard,
         blocked # NoGuard => blocked' # NoGuard,
         phase' = "main" /\ said = <<>> => \A g \in Guards' : Inputs(g) => su.user \cap g.banned = {}
  PROVE  (OutputInv /\ InputInv)'
<1>1. said = <<>> => DOMAIN said = {}
  BY EmptyFacts
<1>2. OutputInv'
  BY <1>1 DEF OutputInv, Outputs
<1>3. InputInv'
  BY DEF InputInv, Inputs
<1>4. QED
  BY <1>2, <1>3

LEMMA HookContent ==
  ASSUME TypeOK, RunInv, OutputInv, InputInv, PreMain \/ PostResponse
  PROVE  (OutputInv /\ InputInv)'
<1>1. PICK hook \in {"pre_main", "post_response"} : 
        \E next \in {"main", "decide", "pre_tool"} :
          HookAt(hook, next) /\ (next = "main" => hook = "pre_main")
  BY DEF PreMain, PostResponse
<1>2. PICK next \in {"main", "decide", "pre_tool"} :
        HookAt(hook, next) /\ (next = "main" => hook = "pre_main")
  BY <1>1
<1>3. /\ phase = hook
      /\ \/ blocked' # NoGuard /\ phase' = "loop_boundary"
         \/ blocked' = NoGuard /\ Invoke(hook, discovered') = NoGuard /\ phase' = next
      /\ UNCHANGED <<su, user, said, history>>
  BY <1>2, HookFacts
<1>4. Guards' = Guards \/ said = <<>>
  <2>1. [Next]_vars
    BY DEF Next
  <2>2. done \/ said = <<>>
    BY DEF RunInv, FoundInv
  <2>3. QED
    BY <1>3, <2>1, <2>2, DoneStays
<1>5. Guards' = {Chain(discovered')[c] : c \in DOMAIN Chain(discovered')}
  BY <1>3, ChainStays DEF Guards
<1>6. blocked = NoGuard
  BY <1>1, <1>3 DEF RunInv, BlockedInv
<1>7. ASSUME phase' = "main", said = <<>>
      PROVE  \A g \in Guards' : Inputs(g) => su.user \cap g.banned = {}
  <2>1. hook = "pre_main" /\ Invoke(hook, discovered') = NoGuard /\ user = su.user
    BY <1>2, <1>3, <1>7 DEF RunInv, FoundInv
  <2>2. QED
    <3>1. \A c \in DOMAIN Chain(discovered') :
            Inputs(Chain(discovered')[c]) => user \cap Chain(discovered')[c].banned = {}
      BY <2>1, PassedContent
    <3>2. QED
      BY <1>5, <2>1, <3>1
<1>8. CASE hook = "pre_main" \/ blocked' # NoGuard
  BY <1>3, <1>4, <1>6, <1>7, <1>8, ContentStays
<1>9. CASE hook = "post_response" /\ blocked' = NoGuard
  <2>1. Len(said) \in Nat /\ DOMAIN said = 1..Len(said) /\ said # <<>>
    <3>1. Len(said) \in Nat /\ DOMAIN said = 1..Len(said)
      BY SequenceFacts DEF TypeOK
    <3>2. Len(said) = iteration /\ iteration > 0
      BY <1>3, <1>9 DEF RunInv, SaidInv
    <3>3. QED
      BY <3>1, <3>2, EmptyFacts
  <2>2. Guards' = Guards /\ Invoke(hook, discovered') = NoGuard /\ phase' = next
    BY <1>3, <1>4, <1>9, <2>1
  <2>3. \A g \in Guards : Outputs(g) => said[Len(said)] \cap g.banned = {}
    BY <1>5, <1>9, <2>1, <2>2, PassedContent DEF Last
  <2>4. \A g \in Guards : Outputs(g) => \A i \in DOMAIN said : said[i] \cap g.banned = {}
    BY <2>3 DEF OutputInv
  <2>5. OutputInv'
    BY <1>3, <2>2, <2>4 DEF OutputInv, Outputs
  <2>6. InputInv'
    BY <1>3, <2>1, <2>2 DEF InputInv, Inputs
  <2>7. QED
    BY <2>5, <2>6
<1>10. QED
  BY <1>8, <1>9

LEMMA StepContent ==
  ASSUME TypeOK, RunInv, HistoryInv, OutputInv, InputInv, [Next]_vars
  PROVE  (OutputInv /\ InputInv)'
<1>1. done => Guards' = Guards \/ (Register /\ said = <<>> /\ UNCHANGED <<phase, said>>)
  BY DoneStays
<1>2. done \/ said = <<>>
  BY DEF RunInv, FoundInv
<1>3. Guards' = Guards \/ said = <<>>
  BY <1>1, <1>2
<1>4. CASE UNCHANGED vars
  <2>1. UNCHANGED <<su, said, history, phase, blocked, discovered>>
    BY <1>4 DEF vars, registry
  <2>2. Guards' = Guards
    BY <2>1, GuardsStay
  <2>3. phase' = "main" /\ said = <<>> => \A g \in Guards' : Inputs(g) => su.user \cap g.banned = {}
    BY <2>1, <2>2 DEF InputInv
  <2>4. QED
    BY <2>1, <2>2, <2>3, ContentStays
<1>5. CASE PreMain \/ PostResponse
  BY <1>5, HookContent
<1>6. CASE Register \/ Iterate \/ Decide \/ Boundary
  <2>1. /\ UNCHANGED <<su, said, history>> /\ phase # "post_response" /\ phase' # "main"
        /\ blocked # NoGuard => blocked' # NoGuard
    BY <1>6 DEF Register, Iterate, Decide, Boundary
  <2>2. QED
    BY <1>3, <2>1, ContentStays
<1>7. CASE PreTool
  <2>1. UNCHANGED <<su, said, history, phase, blocked>> /\ phase = "pre_tool"
    BY <1>7 DEF PreTool
  <2>2. QED
    BY <1>3, <2>1, ContentStays
<1>8. CASE Act
  <2>1. UNCHANGED <<su, said, blocked, discovered>> /\ phase = "pre_tool" /\ phase' = "decide"
    BY <1>8 DEF Act, registry
  <2>2. Guards' = Guards /\ blocked = NoGuard
    BY <2>1, GuardsStay DEF RunInv, BlockedInv
  <2>3. \A g \in Guards : Outputs(g) => \A i \in DOMAIN said : said[i] \cap g.banned = {}
    BY <2>1, <2>2 DEF OutputInv
  <2>4. OutputInv'
    BY <2>1, <2>2, <2>3 DEF OutputInv, Outputs
  <2>5. InputInv'
    BY <2>1, <2>2 DEF InputInv, Inputs
  <2>6. QED
    BY <2>4, <2>5
<1>9. CASE MainCall
  <2>1. /\ UNCHANGED <<su, history, blocked, discovered>>
        /\ phase = "main" /\ phase' = "post_response"
    BY <1>9 DEF MainCall, registry
  <2>2. Guards' = Guards /\ blocked = NoGuard
    BY <2>1, GuardsStay DEF RunInv, BlockedInv
  <2>3. \A g \in Guards : Outputs(g) => \A i \in DOMAIN said : said[i] \cap g.banned = {}
    BY <2>1, <2>2 DEF OutputInv
  <2>4. /\ \A i \in DOMAIN said : i \in DOMAIN said' /\ said'[i] = said[i]
        /\ \A i \in DOMAIN said' : i \in DOMAIN said \/ i = Len(said')
    BY <1>9, MainType
  <2>5. \A j \in DOMAIN history' : history'[j].iteration < Len(said')
    <3>1. HistoryInv'
      BY StepHistory
    <3>2. QED
      BY <2>1, <3>1 DEF HistoryInv
  <2>6. ASSUME NEW g \in Guards', Outputs(g), NEW i \in DOMAIN said', said'[i] \cap g.banned # {}
        PROVE  i = Len(said')
    BY <2>2, <2>3, <2>4, <2>6
  <2>7. OutputInv'
    BY <2>1, <2>5, <2>6 DEF OutputInv, Outputs
  <2>8. InputInv'
    BY <2>1, <2>2 DEF InputInv, Inputs
  <2>9. QED
    BY <2>7, <2>8
<1>10. QED
  BY <1>4, <1>5, <1>6, <1>7, <1>8, <1>9 DEF Next

\* Banned content is the end of a run, for any order and any provider of the guards: what
\* no hook has looked at yet is the newest text, and what one looked at has stopped the run.
THEOREM ContentStopped == Spec => []ContentStops
<1>1. Init => RunInv /\ ContentInv
  <2> SUFFICES ASSUME Init PROVE ContentInv
    BY InitRun
  <2>1. DOMAIN said = {} /\ DOMAIN history = {} /\ said = <<>> /\ phase = "setup"
    BY EmptyFacts DEF Init
  <2>2. QED
    BY <2>1 DEF ContentInv, HistoryInv, OutputInv, InputInv
<1>2. TypeOK /\ RunInv /\ ContentInv /\ [Next]_vars => (TypeOK /\ RunInv /\ ContentInv)'
  BY StepType, StepRun, StepHistory, StepContent DEF ContentInv
<1>3. RunInv /\ ContentInv => ContentStops
  <2> SUFFICES ASSUME ContentInv, NEW g \in ToSet(Chain(discovered)), g.name = "content"
               PROVE  /\ g.target \in {"output", "both"} =>
                           \A i \in DOMAIN said : said[i] \cap g.banned # {} =>
                             i = Len(said) /\ \A j \in DOMAIN history : history[j].iteration < i
                      /\ g.target \in {"input", "both"} /\ su.user \cap g.banned # {} => said = <<>>
    BY DEF ContentStops
  <2>1. g \in Guards
    BY DEF Guards, ToSet
  <2>2. QED
    BY <2>1 DEF ContentInv, OutputInv, InputInv, Outputs, Inputs
<1>4. QED
  BY <1>1, <1>2, <1>3, InitType, PTL DEF Spec
-----------------------------------------------------------------------------
(* Rules *)

\* All the calls that the rules of the chain ask for before this one have run.
Cleared(call) ==
  \A c \in DOMAIN Chain(discovered) : \A r \in Rules(Chain(discovered)[c]) :
    InForce(Chain(discovered), c, r, call) =>
      \A p \in DOMAIN Chain(discovered)[c].rules[r].prior :
        Observed(Chain(discovered)[c].rules[r].prior[p].tool)
          >= Chain(discovered)[c].rules[r].prior[p].min
\* A call the gate let pass waits for s07 with its requirements met.
GateInv ==
  /\ phase = "post_response" => at = 1
  /\ phase = "pre_tool" =>
       \A i \in DOMAIN pending : i < at /\ i \notin denied => Cleared(pending[i])
PriorInv == PriorFirst /\ GateInv

LEMMA HistoryFinite ==
  ASSUME TypeOK, NEW S \in SUBSET DOMAIN history
  PROVE  IsFiniteSet(S) /\ Cardinality(S) \in Nat
<1>1. Len(history) \in Nat /\ DOMAIN history = 1..Len(history)
  BY SequenceFacts DEF TypeOK
<1>2. IsFiniteSet(1..Len(history))
  BY <1>1, FS_Interval
<1>3. IsFiniteSet(S)
  BY <1>1, <1>2, FS_Subset
<1>4. QED
  BY <1>3, FS_CardinalityType

\* A guard that lets a call pass saw the requirements of each rule that is in force met.
LEMMA PreconditionPasses ==
  ASSUME TypeOK, NEW g, NEW call, DOMAIN g.rules \subseteq Nat, ~Precondition(g, call),
         NEW r \in Rules(g), g.rules[r].tool = call.tool, Matches(call.input, g.rules[r].when),
         \A q \in Rules(g) : q <= r => ~(g.rules[q].broken /\ g.rules[q].tool = call.tool),
         NEW p \in DOMAIN g.rules[r].prior, g.rules[r].prior[p].min \in Int
  PROVE  Observed(g.rules[r].prior[p].tool) >= g.rules[r].prior[p].min
<1> DEFINE deciding == {i \in Rules(g) :
                          /\ g.rules[i].tool = call.tool /\ Matches(call.input, g.rules[i].when)
                          /\ g.rules[i].broken \/ Missing(g.rules[i])}
<1>1. ASSUME Missing(g.rules[r]) PROVE FALSE
  <2>1. deciding \in SUBSET Nat /\ r \in deciding /\ deciding # {}
    BY <1>1 DEF Rules
  <2>2. deciding = {} \/ g.rules[Deciding(deciding)].broken
    BY DEF Precondition
  <2>3. \A i \in deciding : i \in Rules(g) /\ g.rules[i].tool = call.tool
    OBVIOUS
  <2> HIDE DEF deciding
  <2>4. Deciding(deciding) \in deciding /\ Deciding(deciding) <= r
    BY <2>1, FirstDecides
  <2>5. QED
    BY <2>1, <2>2, <2>3, <2>4
<1>2. Observed(g.rules[r].prior[p].tool) \in Nat
  <2>1. {i \in DOMAIN history : history[i].tool = g.rules[r].prior[p].tool} \in SUBSET DOMAIN history
    OBVIOUS
  <2>2. QED
    BY <2>1, HistoryFinite DEF Observed
<1>3. ~(Observed(g.rules[r].prior[p].tool) < g.rules[r].prior[p].min)
  BY <1>1 DEF Missing
<1>4. QED
  BY <1>2, <1>3

\* What the gate lets pass, it does with the input that is left in the end.
LEMMA GatePasses ==
  ASSUME TypeOK, NEW found, NEW human, NEW call, DOMAIN call = {"tool", "input"},
         Gate(call, human, found).by = NoGuard, NEW so, so.tool = call.tool,
         so.input = Gate(call, human, found).input,
         NEW chain, chain = Chain(found), NEW c \in DOMAIN chain, NEW g, g = chain[c],
         NEW r \in Rules(g), InForce(chain, c, r, so), NEW p \in DOMAIN g.rules[r].prior
  PROVE  Observed(g.rules[r].prior[p].tool) >= g.rules[r].prior[p].min
<1> DEFINE stopping == {i \in DOMAIN chain : Stops(chain[i], Seen(chain, i, call, human), human)}
           seen == Seen(chain, c, call, human)
           len == Len(chain)
           end == len + 1
<1>1. len \in Nat /\ DOMAIN chain = 1..len
  BY ChainFacts
<1>2. DOMAIN g.rules \subseteq Nat /\ g.rules[r].prior[p].min \in Int
  BY ChainFacts DEF Rules
<1>3. Gate(call, human, found) =
        IF stopping = {} THEN [input |-> Seen(chain, end, call, human).input, by |-> NoGuard]
        ELSE [input |-> Seen(chain, Deciding(stopping), call, human).input,
              by |-> chain[Deciding(stopping)].name]
  BY DEF Gate
<1> HIDE DEF end, len, seen
<1>4. \A i \in stopping : i \in Nat
                         /\ chain[i].name \in {"hitl", "tool_precondition", "tool_diversity"}
  BY <1>1 DEF Stops, Asks
<1>5. c \notin stopping => ~Stops(g, seen, human)
  BY DEF seen
<1> HIDE DEF stopping
<1>6. stopping = {}
  <2> SUFFICES ASSUME stopping # {} PROVE FALSE
    OBVIOUS
  <2>1. stopping \in SUBSET Nat
    BY <1>4
  <2>2. Deciding(stopping) \in stopping
    BY <2>1, FirstDecides
  <2>3. chain[Deciding(stopping)].name # NoGuard
    BY <1>4, <2>2, Named
  <2>4. QED
    BY <1>3, <2>3
<1>7. so.input = Seen(chain, end, call, human).input
  BY <1>3, <1>6
<1>8. ~Stops(g, seen, human)
  BY <1>5, <1>6
<1>9. /\ g.name = "tool_precondition"
      /\ g.rules[r].tool = so.tool /\ Matches(so.input, g.rules[r].when)
      /\ \A q \in Rules(g) : q <= r => ~(g.rules[q].broken /\ g.rules[q].tool = so.tool)
      /\ \A d \in c + 1 .. len : chain[d].name # "hitl"
  BY DEF InForce, len
<1>10. (\E h \in 1 .. end - 1 : Asks(chain[h], call))
         <=> \E h \in 1 .. c - 1 : Asks(chain[h], call)
  <2>1. c \in 1..len
    BY <1>1
  <2>2. ~Asks(chain[c], call) /\ \A h \in c + 1 .. len : ~Asks(chain[h], call)
    BY <1>9 DEF Asks
  <2>3. \A h \in 1 .. len : h \in 1 .. c - 1 \/ h = c \/ h \in c + 1 .. len
    BY <1>1, <2>1
  <2>4. \A h \in 1 .. c - 1 : h \in 1 .. len
    BY <1>1, <2>1
  <2>5. end - 1 = len
    BY <1>1 DEF end
  <2>6. QED
    BY <2>2, <2>3, <2>4, <2>5
<1>11. seen.input = so.input /\ seen.tool = so.tool
  <2>1. seen.input = Seen(chain, end, call, human).input
    <3>1. Seen(chain, end, call, human) =
            IF \E h \in 1 .. end - 1 : Asks(chain[h], call)
            THEN [call EXCEPT !.input = human.input] ELSE call
      BY DEF Seen
    <3>2. seen = IF \E h \in 1 .. c - 1 : Asks(chain[h], call)
                 THEN [call EXCEPT !.input = human.input] ELSE call
      BY DEF Seen, seen
    <3>3. QED
      BY <1>10, <3>1, <3>2
  <2>2. seen = call \/ seen = [call EXCEPT !.input = human.input]
    BY DEF Seen, seen
  <2>3. seen.tool = call.tool
    BY <2>2
  <2>4. QED
    BY <1>7, <2>1, <2>3
<1>12. ~Precondition(g, seen)
  BY <1>8, <1>9 DEF Stops
<1>13. QED
  BY <1>2, <1>9, <1>11, <1>12, PreconditionPasses
\* The properties of the history and the chain are about nothing else.
LEMMA PriorStays ==
  ASSUME UNCHANGED history, PriorFirst, Chain(discovered)' = Chain(discovered) \/ history = <<>>
  PROVE  PriorFirst'
<1>1. CASE history = <<>>
  <2>1. DOMAIN history' = {}
    BY <1>1, EmptyFacts
  <2>2. QED
    BY <2>1 DEF PriorFirst
<1>2. CASE Chain(discovered)' = Chain(discovered)
  <2>1. \A tool, n : RanBefore(tool, n)' = RanBefore(tool, n)
    BY DEF RanBefore
  <2>2. QED
    BY <1>2, <2>1 DEF PriorFirst, InForce, RanBefore
<1>3. QED
  BY <1>1, <1>2

LEMMA ClearedStays ==
  ASSUME UNCHANGED history, Chain(discovered)' = Chain(discovered), NEW call, Cleared(call)
  PROVE  Cleared(call)'
BY DEF Cleared, InForce, Observed

\* The chain is the same once discovered; before that nothing has run.
LEMMA ChainKeeps ==
  ASSUME TypeOK, RunInv, [Next]_vars
  PROVE  /\ Chain(discovered)' = Chain(discovered) \/ history = <<>>
         /\ phase \in {"main", "post_response", "pre_tool"}
              => Chain(discovered)' = Chain(discovered) /\ done
<1>1. su' = su
  BY DEF Next, vars, Register, Iterate, PreMain, PostResponse, HookAt, MainCall, PreTool, Act,
         Decide, Boundary
<1>2. CASE Register
  <2>1. phase = "setup"
    BY <1>2 DEF Register
  <2>2. iteration = 0 /\ Len(said) <= iteration
    BY <2>1 DEF RunInv, SaidInv
  <2>3. Len(said) = 0
    BY <2>2, SequenceFacts DEF TypeOK
  <2>4. said = <<>>
    BY <2>3, SequenceFacts, EmptySeq DEF TypeOK
  <2>5. QED
    BY <2>1, <2>4 DEF RunInv, FoundInv
<1>3. CASE ~Register
  <2>1. done => discovered' = discovered
    <3>1. CASE PreMain \/ PostResponse \/ PreTool \/ Boundary
      BY <1>3, <3>1, GuardSteps
    <3>2. CASE ~(PreMain \/ PostResponse \/ PreTool \/ Boundary)
      BY <1>3, <3>2 DEF Next, vars, registry, Iterate, MainCall, Act, Decide
    <3>3. QED
      BY <3>1, <3>2
  <2>2. /\ done \/ history = <<>>
        /\ phase \in {"main", "post_response", "pre_tool"} => done
    BY DEF RunInv, FoundInv
  <2>3. done => Chain(discovered)' = Chain(discovered)
    BY <1>1, <2>1, ChainStays
  <2>4. QED
    BY <2>2, <2>3
<1>4. QED
  BY <1>2, <1>3

\* A call past the gate has what its rules ask for.
LEMMA PreToolGate ==
  ASSUME TypeOK, RunInv, PriorInv, PreTool
  PROVE  GateInv'
<1>1. /\ UNCHANGED <<su, phase, history>> /\ at' = at + 1 /\ phase = "pre_tool"
  BY DEF PreTool
<1>2. Chain(discovered)' = Chain(discovered) /\ discovered' = discovered
  <2>1. [Next]_vars
    BY DEF Next
  <2>2. Chain(discovered)' = Chain(discovered) /\ done
    BY <1>1, <2>1, ChainKeeps
  <2>3. QED
    BY <1>1, <2>2, GuardSteps DEF Register
<1>3. /\ at \in DOMAIN pending /\ DOMAIN pending' = DOMAIN pending
      /\ \A i \in DOMAIN pending : pending'[i].tool = pending[i].tool
      /\ \A i \in DOMAIN pending : i # at => pending'[i] = pending[i]
  BY PreToolType
<1>4. Len(pending) \in Nat /\ DOMAIN pending = 1..Len(pending)
  BY SequenceFacts DEF TypeOK
<1>5. PICK human : LET gate == Gate(pending[at], human, discovered') IN
        /\ pending' = [pending EXCEPT ![at].input = gate.input]
        /\ denied' = IF gate.by = NoGuard THEN denied ELSE denied \cup {at}
  BY DEF PreTool
<1> DEFINE gate == Gate(pending[at], human, discovered)
<1>6. /\ pending' = [pending EXCEPT ![at].input = gate.input]
      /\ denied' = IF gate.by = NoGuard THEN denied ELSE denied \cup {at}
  BY <1>2, <1>5
<1> HIDE DEF gate
<1>7. DOMAIN pending[at] = {"tool", "input"}
  BY <1>3 DEF TypeOK
<1>8. pending'[at].input = gate.input
  BY <1>3, <1>6, <1>7
<1>9. at \notin denied' => gate.by = NoGuard
  BY <1>6
<1>10. ASSUME NEW i \in DOMAIN pending', i < at', i \notin denied'
       PROVE  Cleared(pending'[i])
  <2>1. CASE i = at
    <3> SUFFICES ASSUME NEW chain, chain = Chain(discovered), NEW c \in DOMAIN chain,
                        NEW g, g = chain[c], NEW r \in Rules(g),
                        InForce(chain, c, r, pending'[at]), NEW p \in DOMAIN g.rules[r].prior
                 PROVE  Observed(g.rules[r].prior[p].tool) >= g.rules[r].prior[p].min
      BY <2>1 DEF Cleared
    <3>1. /\ gate.by = NoGuard /\ pending'[at].tool = pending[at].tool
          /\ pending'[at].input = gate.input
      BY <1>3, <1>8, <1>9, <1>10, <2>1
    <3>2. QED
      BY <1>7, <3>1, GatePasses DEF gate
  <2>2. CASE i # at
    <3>1. i \in DOMAIN pending /\ i < at /\ i \notin denied /\ pending'[i] = pending[i]
      <4>1. at \in Nat /\ i \in Nat
        BY <1>3, <1>4
      <4>2. i < at
        BY <1>1, <1>10, <2>2, <4>1
      <4>3. QED
        BY <1>3, <1>6, <1>10, <2>2, <4>2
    <3>2. QED
      BY <1>1, <3>1 DEF PriorInv, GateInv
  <2>3. QED
    BY <2>1, <2>2
<1>11. ASSUME NEW i \in DOMAIN pending', i < at', i \notin denied'
       PROVE  Cleared(pending[i])'
  <2>1. Cleared(pending'[i])
    BY <1>10, <1>11
  <2>2. QED
    BY <1>1, <1>2, <2>1 DEF Cleared, InForce, Observed
<1>12. QED
  BY <1>1, <1>11 DEF GateInv

\* What runs now ran after everything that was counted.
LEMMA ActPrior ==
  ASSUME TypeOK, RunInv, HistoryInv, PriorInv, Act
  PROVE  PriorFirst'
<1>1. /\ phase = "pre_tool" /\ at > Len(pending) /\ UNCHANGED <<su, discovered, said>>
  BY DEF Act, registry
<1>2. Chain(discovered)' = Chain(discovered)
  BY <1>1, ChainStays
<1>3. /\ TypeOK'
      /\ \A i \in DOMAIN history : i \in DOMAIN history' /\ history'[i] = history[i]
      /\ \A i \in DOMAIN history' :
           \/ i \in DOMAIN history
           \/ \E k \in DOMAIN pending \ denied :
                history'[i] = [tool |-> pending[k].tool, input |-> pending[k].input,
                               iteration |-> iteration]
  BY ActType
<1>4. \A j \in DOMAIN history : history[j].iteration < iteration /\ history[j].iteration \in Nat
  BY <1>1 DEF HistoryInv, RunInv, SaidInv, TypeOK
<1>5. Len(pending) \in Nat /\ DOMAIN pending = 1..Len(pending) /\ at \in Nat
  BY SequenceFacts DEF TypeOK
<1>6. \A k \in DOMAIN pending : k < at
  BY <1>1, <1>5
\* Every run that was counted is counted still.
<1>7. ASSUME NEW S \in SUBSET DOMAIN history, NEW T \in SUBSET DOMAIN history', S \subseteq T
      PROVE  /\ Cardinality(S) \in Nat /\ Cardinality(T) \in Nat
             /\ Cardinality(S) <= Cardinality(T)
  <2>1. Cardinality(S) \in Nat
    BY HistoryFinite
  <2>2. IsFiniteSet(T)
    <3>1. Len(history') \in Nat /\ DOMAIN history' = 1..Len(history')
      BY <1>3, SequenceFacts DEF TypeOK
    <3>2. IsFiniteSet(1..Len(history'))
      BY <3>1, FS_Interval
    <3>3. QED
      BY <3>1, <3>2, FS_Subset
  <2>3. QED
    BY <1>7, <2>1, <2>2, FS_Subset, FS_CardinalityType
<1>8. ASSUME NEW c \in DOMAIN Chain(discovered), NEW r \in Rules(Chain(discovered)[c]),
             NEW i \in DOMAIN history', InForce(Chain(discovered), c, r, history'[i]),
             NEW p \in DOMAIN Chain(discovered)[c].rules[r].prior,
             NEW prior, prior = Chain(discovered)[c].rules[r].prior[p],
             NEW n, n = history'[i].iteration
      PROVE  Cardinality({j \in DOMAIN history' : history'[j].tool = prior.tool
                                                  /\ history'[j].iteration < n}) >= prior.min
  <2> DEFINE T == {j \in DOMAIN history' : history'[j].tool = prior.tool
                                           /\ history'[j].iteration < n}
  <2>1. prior.min \in Int
    <3>1. r \in DOMAIN Chain(discovered)[c].rules
      BY DEF Rules
    <3>2. QED
      BY <1>8, <3>1, ChainFacts
  <2>2. CASE i \in DOMAIN history
    <3> DEFINE S == {j \in DOMAIN history : history[j].tool = prior.tool /\ history[j].iteration < n}
    <3>1. history'[i] = history[i] /\ n = history[i].iteration
      BY <1>3, <1>8, <2>2
    <3>2. RanBefore(prior.tool, history[i].iteration) >= prior.min
      BY <1>8, <2>2, <3>1 DEF PriorInv, PriorFirst
    <3>3. RanBefore(prior.tool, history[i].iteration) = Cardinality(S)
      BY <3>1 DEF RanBefore
    <3>4. S \in SUBSET DOMAIN history /\ T \in SUBSET DOMAIN history' /\ S \subseteq T
      BY <1>3
    <3> HIDE DEF S, T
    <3>5. Cardinality(S) \in Nat /\ Cardinality(T) \in Nat /\ Cardinality(S) <= Cardinality(T)
      BY <1>7, <3>4
    <3>6. Cardinality(T) >= prior.min
      BY <2>1, <3>2, <3>3, <3>5
    <3>7. QED
      BY <3>6 DEF T
  <2>3. CASE i \notin DOMAIN history
    <3> DEFINE S == {j \in DOMAIN history : history[j].tool = prior.tool}
    <3>1. PICK k \in DOMAIN pending \ denied :
            history'[i] = [tool |-> pending[k].tool, input |-> pending[k].input,
                           iteration |-> iteration]
      BY <1>3, <2>3
    <3>2. /\ n = iteration /\ history'[i].tool = pending[k].tool
          /\ history'[i].input = pending[k].input
      BY <1>8, <3>1
    <3>3. Cleared(pending[k])
      BY <1>1, <1>6 DEF PriorInv, GateInv
    <3>4. InForce(Chain(discovered), c, r, pending[k])
      BY <1>8, <3>2 DEF InForce
    <3>5. Cardinality(S) >= prior.min
      BY <1>8, <3>3, <3>4 DEF Cleared, Observed
    <3>6. S \in SUBSET DOMAIN history /\ T \in SUBSET DOMAIN history' /\ S \subseteq T
      BY <1>3, <1>4, <3>2
    <3> HIDE DEF S, T
    <3>7. Cardinality(S) \in Nat /\ Cardinality(T) \in Nat /\ Cardinality(S) <= Cardinality(T)
      BY <1>7, <3>6
    <3>8. Cardinality(T) >= prior.min
      BY <2>1, <3>5, <3>7
    <3>9. QED
      BY <3>8 DEF T
  <2>4. QED
    BY <2>2, <2>3
<1>9. QED
  BY <1>2, <1>8 DEF PriorFirst, RanBefore, InForce

LEMMA StepPrior ==
  ASSUME TypeOK, RunInv, HistoryInv, PriorInv, [Next]_vars
  PROVE  PriorInv'
<1>1. CASE UNCHANGED vars
  <2>1. UNCHANGED <<su, discovered, phase, pending, at, denied, history>>
    BY <1>1 DEF vars, registry, calls
  <2>2. Chain(discovered)' = Chain(discovered)
    BY <2>1, ChainStays
  <2>3. PriorFirst'
    BY <2>1, <2>2, PriorStays DEF PriorInv
  <2>4. \A i \in DOMAIN pending : Cleared(pending[i]) => Cleared(pending[i])'
    BY <2>1, <2>2 DEF Cleared, InForce, Observed
  <2>5. QED
    BY <2>1, <2>3, <2>4 DEF PriorInv, GateInv
<1>2. CASE history' = history /\ phase' \notin {"post_response", "pre_tool"}
  <2>1. PriorFirst'
    BY <1>2, ChainKeeps, PriorStays DEF PriorInv
  <2>2. QED
    BY <1>2, <2>1 DEF PriorInv, GateInv
<1>3. CASE MainCall
  <2>1. history' = history /\ at' = 1 /\ phase' = "post_response"
    BY <1>3 DEF MainCall
  <2>2. PriorFirst'
    BY <2>1, ChainKeeps, PriorStays DEF PriorInv
  <2>3. QED
    BY <2>1, <2>2 DEF PriorInv, GateInv
<1>4. CASE PostResponse
  <2>1. phase = "post_response" /\ phase' # "post_response" /\ UNCHANGED <<pending, at, history>>
    BY <1>4 DEF PostResponse, HookAt, calls
  <2>2. PriorFirst'
    BY <2>1, ChainKeeps, PriorStays DEF PriorInv
  <2>3. at' = 1 /\ \A i \in DOMAIN pending' : ~(i < 1)
    <3>1. Len(pending) \in Nat /\ DOMAIN pending = 1..Len(pending)
      BY SequenceFacts DEF TypeOK
    <3>2. QED
      BY <2>1, <3>1 DEF PriorInv, GateInv
  <2>4. QED
    BY <2>1, <2>2, <2>3 DEF PriorInv, GateInv
<1>5. CASE PreTool
  <2>1. history' = history
    BY <1>5 DEF PreTool
  <2>2. PriorFirst'
    BY <2>1, ChainKeeps, PriorStays DEF PriorInv
  <2>3. QED
    BY <1>5, <2>2, PreToolGate DEF PriorInv
<1>6. CASE Act
  <2>1. phase' = "decide"
    BY <1>6 DEF Act
  <2>2. QED
    BY <1>6, <2>1, ActPrior DEF PriorInv, GateInv
<1>7. CASE Register \/ Iterate \/ PreMain \/ Decide \/ Boundary
  <2>1. history' = history /\ phase' \notin {"post_response", "pre_tool"}
    BY <1>7 DEF Register, Iterate, PreMain, HookAt, Decide, Boundary
  <2>2. QED
    BY <1>2, <2>1
<1>8. QED
  BY <1>1, <1>3, <1>4, <1>5, <1>6, <1>7 DEF Next

\* A call runs after what its rules ask for, whatever the chain, the payloads and the answers
\* of the human: what the gate counted is what ran in earlier iterations.
THEOREM RulesKept == Spec => []PriorFirst
<1>1. Init => RunInv /\ HistoryInv /\ PriorInv
  <2> SUFFICES ASSUME Init PROVE HistoryInv /\ PriorInv
    BY InitRun
  <2>1. DOMAIN history = {} /\ phase = "setup"
    BY EmptyFacts DEF Init
  <2>2. QED
    BY <2>1 DEF HistoryInv, PriorInv, PriorFirst, GateInv
<1>2. TypeOK /\ RunInv /\ HistoryInv /\ PriorInv /\ [Next]_vars
        => (TypeOK /\ RunInv /\ HistoryInv /\ PriorInv)'
  BY StepType, StepRun, StepHistory, StepPrior
<1>3. PriorInv => PriorFirst
  BY DEF PriorInv
<1>4. QED
  BY <1>1, <1>2, <1>3, InitType, PTL DEF Spec

-----------------------------------------------------------------------------
(* The calls above a call. *)

\* Every call of s is nested in an earlier one, or in none.
Rooted(s) == Len(s) \in Nat /\ \A g \in 1..Len(s) : s[g].parent \in 0..(g - 1)

\* The equation of Above's function up to n.
UpTo(up, s, n) == up = [g \in 0..n |-> IF g = 0 THEN {} ELSE {g} \cup up[s[g].parent]]

Ups(s) ==
  CHOOSE up : up = [g \in 0..Len(s) |-> IF g = 0 THEN {} ELSE {g} \cup up[s[g].parent]]

LEMMA UpExists ==
  ASSUME NEW s, Rooted(s)
  PROVE  \A n \in 0..Len(s) : \E up : UpTo(up, s, n)
<1> DEFINE T == {n \in 0..Len(s) : ~\E up : UpTo(up, s, n)}
<1> SUFFICES ASSUME T # {} PROVE FALSE
  OBVIOUS
<1>0. T \in SUBSET Nat /\ Len(s) \in Nat
  BY DEF Rooted
<1>1. PICK n \in T : \A k \in T : n <= k
  <2> HIDE DEF T
  <2>1. Deciding(T) \in T /\ \A k \in T : Deciding(T) <= k
    BY <1>0, FirstDecides
  <2>2. QED
    BY <2>1
<1>2. n \in 0..Len(s) /\ n \in Nat /\ ~\E up : UpTo(up, s, n)
  BY <1>0
<1>3. n # 0
  <2>1. UpTo([g \in 0..0 |-> {}], s, 0)
    BY DEF UpTo
  <2>2. QED
    BY <1>2, <2>1
<1>4. n - 1 \in 0..Len(s) /\ n - 1 \notin T
  BY <1>0, <1>1, <1>2, <1>3
<1>5. PICK up : UpTo(up, s, n - 1)
  BY <1>4
<1> HIDE DEF T
<1> DEFINE next == [g \in 0..n |-> IF g = n THEN {g} \cup up[s[g].parent] ELSE up[g]]
<1>6. ASSUME NEW g \in 0..n
      PROVE  next[g] = IF g = 0 THEN {} ELSE {g} \cup next[s[g].parent]
  <2>1. g # 0 => s[g].parent \in 0..(g - 1)
    BY <1>2 DEF Rooted
  <2>2. g # 0 => next[s[g].parent] = up[s[g].parent]
    BY <1>2, <1>3, <2>1
  <2>3. CASE g = n
    BY <1>3, <2>2, <2>3
  <2>4. CASE g # n
    <3>1. g \in 0..(n - 1)
      BY <1>2, <2>4
    <3>2. up[g] = IF g = 0 THEN {} ELSE {g} \cup up[s[g].parent]
      BY <1>5, <3>1 DEF UpTo
    <3>3. QED
      BY <2>2, <2>4, <3>2
  <2>5. QED
    BY <2>3, <2>4
<1>7. UpTo(next, s, n)
  <2>1. next = [g \in 0..n |-> next[g]]
    OBVIOUS
  <2> HIDE DEF next
  <2>2. QED
    BY <1>6, <2>1 DEF UpTo
<1>8. QED
  BY <1>2, <1>7

LEMMA UpUnfolds ==
  ASSUME NEW s, Rooted(s)
  PROVE  /\ Ups(s)[0] = {}
         /\ \A g \in 1..Len(s) : Ups(s)[g] = {g} \cup Ups(s)[s[g].parent]
<1>1. Len(s) \in Nat
  BY DEF Rooted
<1>2. \E up : UpTo(up, s, Len(s))
  BY <1>1, UpExists
<1>3. Ups(s) = [g \in 0..Len(s) |-> IF g = 0 THEN {} ELSE {g} \cup Ups(s)[s[g].parent]]
  BY <1>2 DEF UpTo, Ups
<1>4. QED
  BY <1>1, <1>3

\* The number of calls that a call is nested in, itself included.
LEMMA UpCounts ==
  ASSUME NEW s, Rooted(s)
  PROVE  \A g \in 1..Len(s) :
           /\ Ups(s)[g] \subseteq 1..g /\ g \in Ups(s)[g] /\ IsFiniteSet(Ups(s)[g])
           /\ Cardinality(Ups(s)[g]) \in Nat
           /\ Cardinality(Ups(s)[g]) =
                IF s[g].parent = 0 THEN 1 ELSE Cardinality(Ups(s)[s[g].parent]) + 1
<1> DEFINE T == {g \in 0..Len(s) : ~(Ups(s)[g] \subseteq 1..g)}
<1>0. T \in SUBSET Nat /\ Len(s) \in Nat
  BY DEF Rooted
<1>1. ASSUME T # {} PROVE FALSE
  <2>1. PICK n \in T : \A k \in T : n <= k
    <3> HIDE DEF T
    <3>1. Deciding(T) \in T /\ \A k \in T : Deciding(T) <= k
      BY <1>0, <1>1, FirstDecides
    <3>2. QED
      BY <3>1
  <2>2. n \in 1..Len(s) /\ n \in Nat
    BY <1>0, UpUnfolds
  <2>3. s[n].parent \in 0..(n - 1) /\ s[n].parent \in 0..Len(s)
    BY <1>0, <2>2 DEF Rooted
  <2>4. Ups(s)[s[n].parent] \subseteq 1..s[n].parent
    <3>1. ~(n <= s[n].parent)
      BY <2>2, <2>3
    <3>2. s[n].parent \notin T
      BY <2>1, <3>1, Zenon
    <3>3. QED
      BY <2>3, <3>2, Zenon
  <2>5. Ups(s)[n] = {n} \cup Ups(s)[s[n].parent]
    BY <2>2, UpUnfolds
  <2>6. Ups(s)[n] \subseteq 1..n
    BY <2>2, <2>3, <2>4, <2>5
  <2>7. QED
    BY <2>1, <2>6
<1>2. \A g \in 0..Len(s) : Ups(s)[g] \subseteq 1..g
  BY <1>1
<1>3. \A g \in 0..Len(s) : IsFiniteSet(Ups(s)[g]) /\ Cardinality(Ups(s)[g]) \in Nat
  <2> TAKE g \in 0..Len(s)
  <2>1. IsFiniteSet(1..g)
    BY <1>0, FS_Interval
  <2>2. IsFiniteSet(Ups(s)[g])
    BY <1>2, <2>1, FS_Subset
  <2>3. QED
    BY <2>2, FS_CardinalityType
<1>4. TAKE g \in 1..Len(s)
<1>5. s[g].parent \in 0..(g - 1) /\ s[g].parent \in 0..Len(s)
  BY <1>0 DEF Rooted
<1>6. Ups(s)[g] = Ups(s)[s[g].parent] \cup {g}
  BY UpUnfolds
<1>7. g \notin Ups(s)[s[g].parent]
  BY <1>0, <1>2, <1>5
<1>8. Cardinality(Ups(s)[g]) = Cardinality(Ups(s)[s[g].parent]) + 1
  BY <1>3, <1>5, <1>6, <1>7, FS_AddElement
<1>9. s[g].parent = 0 => Cardinality(Ups(s)[s[g].parent]) = 0
  BY UpUnfolds, FS_EmptySet
<1>10. g \in 0..Len(s)
  BY <1>0
<1>11. Cardinality(Ups(s)[g]) = IF s[g].parent = 0 THEN 1 ELSE Cardinality(Ups(s)[s[g].parent]) + 1
  BY <1>8, <1>9
<1>12. Ups(s)[g] \subseteq 1..g /\ g \in Ups(s)[g]
  BY <1>2, <1>6, <1>10, Zenon
<1>13. QED
  BY <1>3, <1>10, <1>11, <1>12

\* Calls that are added, and what changes in a call but its parent, are no matter.
LEMMA UpStays ==
  ASSUME NEW s, NEW t, Rooted(s), Rooted(t), Len(s) <= Len(t),
         \A g \in 1..Len(s) : t[g].parent = s[g].parent
  PROVE  \A g \in 0..Len(s) : Ups(t)[g] = Ups(s)[g]
<1> DEFINE T == {g \in 0..Len(s) : Ups(t)[g] # Ups(s)[g]}
<1> SUFFICES ASSUME T # {} PROVE FALSE
  OBVIOUS
<1>0. T \in SUBSET Nat /\ Len(s) \in Nat /\ Len(t) \in Nat
  BY DEF Rooted
<1>1. PICK n \in T : \A k \in T : n <= k
  <2> HIDE DEF T
  <2>1. Deciding(T) \in T /\ \A k \in T : Deciding(T) <= k
    BY <1>0, FirstDecides
  <2>2. QED
    BY <2>1
<1>2. n \in 1..Len(s) /\ n \in 1..Len(t)
  <2>1. Ups(s)[0] = {} /\ Ups(t)[0] = {}
    BY UpUnfolds, Zenon
  <2>2. n # 0
    BY <2>1
  <2>3. QED
    BY <1>0, <2>2
<1>3. s[n].parent \in 0..(n - 1) /\ s[n].parent \notin T
  BY <1>0, <1>1, <1>2 DEF Rooted
<1>4. Ups(t)[s[n].parent] = Ups(s)[s[n].parent]
  BY <1>0, <1>2, <1>3
<1>5. Ups(s)[n] = {n} \cup Ups(s)[s[n].parent] /\ Ups(t)[n] = {n} \cup Ups(t)[t[n].parent]
  BY <1>2, UpUnfolds, Zenon
<1>6. Ups(t)[n] = Ups(s)[n]
  BY <1>2, <1>4, <1>5, Zenon
<1>7. QED
  BY <1>6

-----------------------------------------------------------------------------
(* The tree of calls. *)

Level(f) == Cardinality(Ups(frames)[f])

\* A call in progress is nested in one that runs a pipeline or a canvas.
TreeInv ==
  /\ Rooted(frames)
  /\ \A f \in Frames : frames[f].parent = 0 => frames[f].task = 1
  /\ \A f \in Frames : Open(f) /\ frames[f].parent # 0 => Nested(frames[f].parent)

\* Of two calls in progress in one task, the later one is nested in the earlier one.
ChainInv ==
  \A f, g \in Frames :
    (f < g /\ Open(f) /\ Open(g) /\ frames[g].task = frames[f].task) =>
      frames[g].parent >= f /\ frames[frames[g].parent].task = frames[g].task

\* A call made in a task of its own is the first in this task.
FirstInv ==
  \A f \in Frames :
    (frames[f].parent # 0 /\ frames[frames[f].parent].task # frames[f].task) =>
      frames[f].task # 1 /\ \A g \in Frames : frames[g].task = frames[f].task => f <= g

\* f is the innermost call of its task.
Deepest(f) == Open(f) /\ \A g \in Frames : g > f /\ Open(g) => frames[g].task # frames[f].task

\* What the context variable is, and was when a call that nests began.
LevelInv ==
  /\ \A f \in Frames : Nested(f) => frames[f].saved = Level(f) - 1 /\ Level(f) <= MaxDepth
  /\ \A f \in Frames : Deepest(f) =>
       depth[frames[f].task] = IF Nested(f) THEN Level(f) ELSE Level(f) - 1
  /\ (\A f \in Frames : Open(f) => frames[f].task # 1) => depth[1] = 0
  /\ \A f \in Frames : frames[f].ans = "refused" => Level(f) - 1 >= MaxDepth

NestInv == TreeInv /\ ChainInv /\ FirstInv /\ LevelInv

\* Frames of the types that matter for this.
PlaceInv ==
  /\ Sequence(frames) /\ depth \in Seq(Nat) /\ 1 \in Tasks
  /\ \A f \in Frames : frames[f].task \in Tasks

LEMMA NestedOpen == ASSUME NEW f, Nested(f) PROVE Open(f)
BY DEF Nested, Open

LEMMA LevelFacts ==
  ASSUME TreeInv, PlaceInv, NEW f \in Frames
  PROVE  /\ Frames = 1..Len(frames) /\ f \in Nat /\ Len(frames) \in Nat
         /\ frames[f].parent \in 0..(f - 1) /\ Level(f) \in Nat /\ Level(f) >= 1
         /\ frames[f].parent # 0 => frames[f].parent \in Frames
         /\ Level(f) = IF frames[f].parent = 0 THEN 1 ELSE Level(frames[f].parent) + 1
         /\ frames[f].parent # 0 => Level(frames[f].parent) \in Nat
<1>1. Frames = 1..Len(frames) /\ f \in Nat /\ Len(frames) \in Nat
  BY SequenceFacts DEF PlaceInv, Frames
<1>2. frames[f].parent \in 0..(f - 1)
  BY <1>1 DEF TreeInv, Rooted
<1>3. frames[f].parent # 0 => frames[f].parent \in Frames
  BY <1>1, <1>2
<1>4. \A g \in Frames :
        /\ Level(g) \in Nat
        /\ Level(g) = IF frames[g].parent = 0 THEN 1 ELSE Level(frames[g].parent) + 1
  BY <1>1, UpCounts DEF TreeInv, Level
<1>5. QED
  BY <1>1, <1>2, <1>3, <1>4

\* A call in progress without one below it is the innermost of its task.
LEMMA IdleDeepest ==
  ASSUME TreeInv, ChainInv, PlaceInv, NEW f \in Frames, Open(f),
         \A g \in Frames : frames[g].parent = f => ~Open(g)
  PROVE  Deepest(f)
<1> DEFINE T == {g \in Frames : g > f /\ Open(g) /\ frames[g].task = frames[f].task}
<1> SUFFICES ASSUME T # {} PROVE FALSE
  BY DEF Deepest
<1>0. Frames = 1..Len(frames) /\ f \in Nat /\ Len(frames) \in Nat
  BY LevelFacts
<1>1. PICK n \in T : \A k \in T : n <= k
  <2>1. T \in SUBSET Nat
    BY <1>0
  <2> HIDE DEF T
  <2>2. Deciding(T) \in T /\ \A k \in T : Deciding(T) <= k
    BY <2>1, FirstDecides
  <2>3. QED
    BY <2>2
<1>2. n \in Frames /\ n > f /\ Open(n) /\ frames[n].task = frames[f].task
  OBVIOUS
<1>3. frames[n].parent >= f /\ frames[frames[n].parent].task = frames[n].task
  BY <1>2 DEF ChainInv
<1>4. frames[n].parent \in 0..(n - 1) /\ n \in Nat
      /\ (frames[n].parent # 0 => frames[n].parent \in Frames)
  BY <1>2, LevelFacts
<1>5. frames[n].parent # f
  BY <1>2
<1>6. frames[n].parent \in Frames /\ Open(frames[n].parent)
  BY <1>0, <1>2, <1>3, <1>4, NestedOpen DEF TreeInv
<1>7. frames[n].parent \in T
  BY <1>0, <1>2, <1>3, <1>4, <1>5, <1>6
<1>8. QED
  BY <1>0, <1>1, <1>4, <1>7

\* What a step may keep of the calls there are.
Kept ==
  /\ Len(frames') >= Len(frames)
  /\ \A g \in Frames :
       frames[g].parent' = frames[g].parent /\ frames[g].task' = frames[g].task

LEMMA KeptLevels ==
  ASSUME TreeInv, PlaceInv, PlaceInv', Kept, Rooted(frames')
  PROVE  \A g \in Frames : g \in Frames' /\ Level(g)' = Level(g)
<1>1. /\ Frames = 1..Len(frames) /\ Frames' = 1..Len(frames')
      /\ Len(frames) \in Nat /\ Len(frames') \in Nat
  BY SequenceFacts DEF PlaceInv, Frames
<1>2. \A g \in 0..Len(frames) : Ups(frames')[g] = Ups(frames)[g]
  <2>1. \A g \in 1..Len(frames) : frames'[g].parent = frames[g].parent
    BY <1>1 DEF Kept
  <2>2. Len(frames) <= Len(frames')
    BY <1>1 DEF Kept
  <2>3. Rooted(frames)
    BY DEF TreeInv
  <2>4. QED
    BY <2>1, <2>2, <2>3, UpStays
<1>3. TAKE g \in Frames
<1>4. g \in 0..Len(frames) /\ g \in Frames'
  BY <1>1 DEF Kept
<1>5. QED
  BY <1>2, <1>4 DEF Level

\* In each task where calls in progress are cut off, with all below them, the counter
\* falls to what it was before the first of them; without gone, a step that
\* changes no level.
LEMMA CutNest ==
  ASSUME NestInv, PlaceInv, PlaceInv', Kept, Len(frames') = Len(frames),
         NEW gone \in SUBSET Frames,
         \A g \in gone : Open(g),
         \A g \in Frames : Open(g) /\ frames[g].parent \in gone => g \in gone,
         \A g \in Frames : Open(g)' <=> (Open(g) /\ g \notin gone),
         \A g \in Frames : Nested(g)' <=> (Nested(g) /\ g \notin gone),
         \A g \in Frames : frames[g].saved' = frames[g].saved,
         \A g \in Frames : frames[g].ans' = "refused" =>
           frames[g].ans = "refused" \/ Level(g) - 1 >= MaxDepth,
         \A t \in Tasks : (\A g \in gone : frames[g].task # t) => depth'[t] = depth[t],
         \A g \in gone : (\A h \in gone : frames[h].task = frames[g].task => g <= h) =>
           depth'[frames[g].task] = Level(g) - 1
  PROVE  NestInv'
<1>0. /\ Frames = 1..Len(frames) /\ Frames' = Frames /\ Len(frames) \in Nat
      /\ TreeInv /\ ChainInv /\ FirstInv /\ LevelInv
  BY SequenceFacts DEF PlaceInv, Frames, NestInv
<1>1. Rooted(frames')
  BY <1>0 DEF TreeInv, Rooted, Kept
<1>2. \A g \in Frames : Level(g)' = Level(g)
  BY <1>0, <1>1, KeptLevels
<1>3. \A g \in Frames :
        /\ g \in Nat /\ frames[g].parent \in 0..(g - 1)
        /\ frames[g].parent # 0 => frames[g].parent \in Frames
        /\ Level(g) \in Nat
        /\ Level(g) = IF frames[g].parent = 0 THEN 1 ELSE Level(frames[g].parent) + 1
  BY <1>0, LevelFacts
<1>4. TreeInv'
  <2>1. \A f \in Frames : frames[f].parent' = 0 => frames[f].task' = 1
    BY <1>0 DEF Kept, TreeInv
  <2>2. ASSUME NEW f \in Frames, Open(f)', frames[f].parent' # 0 PROVE Nested(frames[f].parent)'
    <3>1. Open(f) /\ f \notin gone /\ frames[f].parent' = frames[f].parent
      BY <2>2 DEF Kept
    <3>2. frames[f].parent \in Frames /\ Nested(frames[f].parent)
      BY <1>0, <1>3, <2>2, <3>1 DEF TreeInv
    <3>3. frames[f].parent \notin gone
      BY <3>1
    <3>4. PICK p \in Frames : p = frames[f].parent /\ Nested(p) /\ p \notin gone
      BY <3>2, <3>3
    <3>5. Nested(p)'
      BY <3>4
    <3>6. p = frames'[f].parent
      BY <3>1, <3>4
    <3>7. QED
      BY <3>5, <3>6 DEF Nested
  <2>3. QED
    BY <1>0, <1>1, <2>1, <2>2 DEF TreeInv
<1>5. ChainInv'
  <2>1. ASSUME NEW f \in Frames, NEW g \in Frames, f < g, Open(f)', Open(g)',
               frames[g].task' = frames[f].task'
        PROVE  frames[g].parent' >= f /\ frames'[frames'[g].parent].task = frames'[g].task
    <3>1. /\ frames[g].task = frames[f].task /\ frames'[g].parent = frames[g].parent
          /\ frames'[g].task = frames[g].task
      BY <2>1 DEF Kept
    <3>2. frames[g].parent >= f /\ frames[frames[g].parent].task = frames[g].task
      BY <1>0, <2>1, <3>1 DEF ChainInv
    <3>3. frames[g].parent \in Frames
      BY <1>0, <1>3, <3>2
    <3>4. frames'[frames[g].parent].task = frames[frames[g].parent].task
      BY <3>3 DEF Kept
    <3>5. QED
      BY <3>1, <3>2, <3>4
  <2>2. QED
    BY <1>0, <2>1 DEF ChainInv
<1>6. FirstInv'
  <2>1. ASSUME NEW f \in Frames, frames'[f].parent # 0,
               frames'[frames'[f].parent].task # frames'[f].task
        PROVE  frames'[f].task # 1 /\ \A g \in Frames : frames'[g].task = frames'[f].task => f <= g
    <3>1. frames'[f].parent = frames[f].parent /\ frames'[f].task = frames[f].task
      BY DEF Kept
    <3>2. frames[f].parent \in Frames
      BY <1>3, <2>1, <3>1
    <3>3. frames'[frames[f].parent].task = frames[frames[f].parent].task
      BY <3>2 DEF Kept
    <3>4. frames[f].task # 1 /\ \A g \in Frames : frames[g].task = frames[f].task => f <= g
      BY <1>0, <2>1, <3>1, <3>3 DEF FirstInv
    <3>5. QED
      BY <3>1, <3>4 DEF Kept
  <2>2. QED
    BY <1>0, <2>1 DEF FirstInv
\* Whatever is later in the task of a call that is cut off is below it.
<1>7. ASSUME NEW g \in gone, NEW h \in Frames, h >= g, Open(h), frames[h].task = frames[g].task
      PROVE  h \in gone
  <2> DEFINE T == {k \in Frames : k >= g /\ Open(k) /\ frames[k].task = frames[g].task
                                  /\ k \notin gone}
  <2>1. CASE T = {}
    BY <1>7, <2>1
  <2>2. CASE T # {}
    <3>1. T \in SUBSET Nat
      BY <1>0
    <3>2. PICK n \in T : \A k \in T : n <= k
      <4> HIDE DEF T
      <4>1. Deciding(T) \in T /\ \A k \in T : Deciding(T) <= k
        BY <2>2, <3>1, FirstDecides
      <4>2. QED
        BY <4>1
    <3>3. n \in Frames /\ n > g /\ Open(n) /\ frames[n].task = frames[g].task /\ n \notin gone
      BY <1>0
    <3>4. frames[n].parent >= g /\ frames[frames[n].parent].task = frames[n].task
      BY <1>0, <3>3 DEF ChainInv
    <3>5. frames[n].parent \in Frames /\ frames[n].parent < n
      BY <1>0, <1>3, <3>3, <3>4
    <3>6. Open(frames[n].parent)
      BY <1>0, <3>3, <3>5, NestedOpen DEF TreeInv
    <3>7. frames[n].parent \in T
      BY <3>3, <3>4, <3>5, <3>6
    <3>8. QED
      BY <1>0, <3>2, <3>3, <3>5, <3>7
  <2>3. QED
    BY <2>1, <2>2
\* Where calls are cut off, the first of them says what is left of the counter.
<1>8. ASSUME NEW t, \E g \in gone : frames[g].task = t
      PROVE  \E g \in gone : /\ frames[g].task = t /\ depth'[t] = Level(g) - 1
                             /\ \A h \in gone : frames[h].task = t => g <= h
  <2> DEFINE T == {g \in gone : frames[g].task = t}
  <2>1. T \in SUBSET Nat /\ T # {}
    BY <1>0, <1>8
  <2>2. PICK n \in T : \A k \in T : n <= k
    <3> HIDE DEF T
    <3>1. Deciding(T) \in T /\ \A k \in T : Deciding(T) <= k
      BY <2>1, FirstDecides
    <3>2. QED
      BY <3>1
  <2>3. n \in gone /\ frames[n].task = t /\ \A h \in gone : frames[h].task = t => n <= h
    BY <2>2
  <2>4. QED
    BY <2>3
<1>9. \A f \in Frames : Nested(f)' => frames[f].saved' = Level(f)' - 1 /\ Level(f)' <= MaxDepth
  BY <1>0, <1>2 DEF LevelInv
<1>10. ASSUME NEW m \in Frames, Deepest(m)'
       PROVE  depth'[frames'[m].task] = IF Nested(m)' THEN Level(m)' ELSE Level(m)' - 1
  <2>1. /\ Open(m) /\ m \notin gone /\ frames'[m].task = frames[m].task
        /\ \A g \in Frames : g > m /\ Open(g) /\ frames[g].task = frames[m].task => g \in gone
    BY <1>0, <1>10 DEF Deepest, Kept
  <2> DEFINE t == frames[m].task
  <2>2. CASE \A g \in gone : frames[g].task # t
    <3>1. Deepest(m)
      BY <2>1, <2>2 DEF Deepest
    <3>2. depth[t] = IF Nested(m) THEN Level(m) ELSE Level(m) - 1
      BY <1>0, <3>1 DEF LevelInv
    <3>3. depth'[t] = depth[t]
      BY <2>2 DEF PlaceInv
    <3>4. QED
      BY <1>2, <2>1, <3>2, <3>3
  <2>3. CASE \E g \in gone : frames[g].task = t
    <3>1. PICK g \in gone : /\ frames[g].task = t /\ depth'[t] = Level(g) - 1
                            /\ \A h \in gone : frames[h].task = t => g <= h
      BY <1>8, <2>3
    <3>2. m < g
      BY <1>0, <1>7, <2>1, <3>1
    <3>3. frames[g].parent >= m /\ frames[frames[g].parent].task = t
      BY <1>0, <2>1, <3>1, <3>2 DEF ChainInv
    <3>4. frames[g].parent \in Frames /\ frames[g].parent < g /\ frames[g].parent # 0
      BY <1>0, <1>3, <3>1, <3>3
    <3>5. Nested(frames[g].parent) /\ Open(frames[g].parent)
      BY <1>0, <3>4, NestedOpen DEF TreeInv
    <3>6. frames[g].parent \notin gone
      BY <1>0, <3>1, <3>3, <3>4
    <3>7. frames[g].parent = m
      BY <1>0, <2>1, <3>3, <3>4, <3>5, <3>6
    <3>8. Nested(m)' /\ Level(g) = Level(m) + 1 /\ Level(m) \in Nat
      BY <1>3, <2>1, <3>4, <3>5, <3>7
    <3>9. QED
      BY <1>2, <2>1, <3>1, <3>8
  <2>4. QED
    BY <2>2, <2>3
<1>11. ASSUME \A f \in Frames : Open(f)' => frames'[f].task # 1 PROVE depth'[1] = 0
  <2>1. \A f \in Frames : Open(f) /\ frames[f].task = 1 => f \in gone
    BY <1>11 DEF Kept
  <2>2. CASE \A g \in gone : frames[g].task # 1
    <3>1. depth[1] = 0
      BY <1>0, <2>1, <2>2 DEF LevelInv
    <3>2. QED
      BY <2>2, <3>1 DEF PlaceInv
  <2>3. CASE \E g \in gone : frames[g].task = 1
    <3>1. PICK g \in gone : /\ frames[g].task = 1 /\ depth'[1] = Level(g) - 1
                            /\ \A h \in gone : frames[h].task = 1 => g <= h
      BY <1>8, <2>3
    <3>2. CASE frames[g].parent = 0
      BY <1>3, <3>1, <3>2
    <3>3. CASE frames[g].parent # 0
      <4>1. frames[g].parent \in Frames /\ frames[g].parent < g
        BY <1>0, <1>3, <3>3
      <4>2. Open(frames[g].parent)
        BY <1>0, <3>3, NestedOpen DEF TreeInv
      <4>3. frames[frames[g].parent].task = 1
        BY <1>0, <3>1, <3>3 DEF FirstInv
      <4>4. frames[g].parent \in gone
        BY <2>1, <4>1, <4>2, <4>3
      <4>5. QED
        BY <1>0, <3>1, <4>1, <4>3, <4>4
    <3>4. QED
      BY <3>2, <3>3
  <2>4. QED
    BY <2>2, <2>3
<1>12. \A f \in Frames : frames[f].ans' = "refused" => Level(f)' - 1 >= MaxDepth
  BY <1>0, <1>2 DEF LevelInv
<1>13. LevelInv'
  BY <1>0, <1>9, <1>10, <1>11, <1>12 DEF LevelInv
<1>14. QED
  BY <1>4, <1>5, <1>6, <1>13 DEF NestInv

\* A call that nests begins.
LEMMA EnterNest ==
  ASSUME NestInv, PlaceInv, PlaceInv', NEW f \in Frames, Enter(f),
         \A g \in Frames \ {f} : frames'[g] = frames[g],
         Len(frames') = Len(frames), Kept,
         Open(f)', Nested(f)', frames[f].saved' = depth[frames[f].task],
         frames[f].ans' = frames[f].ans
  PROVE  NestInv'
<1>0. /\ Frames = 1..Len(frames) /\ Frames' = Frames /\ Len(frames) \in Nat
      /\ TreeInv /\ ChainInv /\ FirstInv /\ LevelInv
  BY SequenceFacts DEF PlaceInv, Frames, NestInv
<1>1. Rooted(frames')
  BY <1>0 DEF TreeInv, Rooted, Kept
<1>2. \A g \in Frames : Level(g)' = Level(g)
  BY <1>0, <1>1, KeptLevels
<1>3. \A g \in Frames :
        /\ g \in Nat /\ frames[g].parent \in 0..(g - 1)
        /\ frames[g].parent # 0 => frames[g].parent \in Frames
        /\ Level(g) \in Nat
  BY <1>0, LevelFacts
<1>4. Open(f) /\ ~Nested(f) /\ frames[f].phase = "entered"
  BY DEF Enter, Nesting, Kind, Open, Nested
<1>5. \A g \in Frames : (Open(g)' <=> Open(g)) /\ (Nested(g) => Nested(g)')
  BY <1>4 DEF Open, Nested
<1>6. \A g \in Frames \ {f} : (Nested(g)' <=> Nested(g)) /\ frames'[g].saved = frames[g].saved
  BY DEF Nested
<1>7. TreeInv'
  <2>1. \A g \in Frames : frames'[g].parent = 0 => frames'[g].task = 1
    BY <1>0 DEF Kept, TreeInv
  <2>2. ASSUME NEW g \in Frames, Open(g)', frames[g].parent' # 0 PROVE Nested(frames[g].parent)'
    <3>1. Open(g) /\ frames[g].parent' = frames[g].parent
      BY <1>5, <2>2 DEF Kept
    <3>2. frames[g].parent \in Frames /\ Nested(frames[g].parent)
      BY <1>0, <1>3, <2>2, <3>1 DEF TreeInv
    <3>3. PICK p \in Frames : p = frames[g].parent /\ Nested(p)
      BY <3>2
    <3>4. Nested(p)' /\ p = frames'[g].parent
      BY <1>5, <3>1, <3>3
    <3>5. QED
      BY <3>4 DEF Nested
  <2>3. QED
    BY <1>0, <1>1, <2>1, <2>2 DEF TreeInv
<1>8. ChainInv'
  <2>1. ASSUME NEW h \in Frames, NEW g \in Frames, h < g, Open(h)', Open(g)',
               frames'[g].task = frames'[h].task
        PROVE  frames'[g].parent >= h /\ frames'[frames'[g].parent].task = frames'[g].task
    <3>1. /\ frames[g].task = frames[h].task /\ frames'[g].parent = frames[g].parent
          /\ frames'[g].task = frames[g].task
      BY <2>1 DEF Kept
    <3>2. frames[g].parent >= h /\ frames[frames[g].parent].task = frames[g].task
      BY <1>0, <1>5, <2>1, <3>1 DEF ChainInv
    <3>3. frames[g].parent \in Frames
      BY <1>0, <1>3, <3>2
    <3>4. frames'[frames[g].parent].task = frames[frames[g].parent].task
      BY <3>3 DEF Kept
    <3>5. QED
      BY <3>1, <3>2, <3>4
  <2>2. QED
    BY <1>0, <2>1 DEF ChainInv
<1>9. FirstInv'
  <2>1. ASSUME NEW h \in Frames, frames'[h].parent # 0,
               frames'[frames'[h].parent].task # frames'[h].task
        PROVE  frames'[h].task # 1 /\ \A g \in Frames : frames'[g].task = frames'[h].task => h <= g
    <3>1. frames'[h].parent = frames[h].parent /\ frames'[h].task = frames[h].task
      BY DEF Kept
    <3>2. frames[h].parent \in Frames
      BY <1>3, <2>1, <3>1
    <3>3. frames'[frames[h].parent].task = frames[frames[h].parent].task
      BY <3>2 DEF Kept
    <3>4. frames[h].task # 1 /\ \A g \in Frames : frames[g].task = frames[h].task => h <= g
      BY <1>0, <2>1, <3>1, <3>3 DEF FirstInv
    <3>5. QED
      BY <3>1, <3>4 DEF Kept
  <2>2. QED
    BY <1>0, <2>1 DEF FirstInv
<1>10. Deepest(f)
  <2>1. \A g \in Frames : frames[g].parent = f => ~Open(g)
    BY <1>0, <1>3, <1>4 DEF TreeInv
  <2>2. QED
    BY <1>0, <1>4, <2>1, IdleDeepest
<1>11. depth[frames[f].task] = Level(f) - 1 /\ depth[frames[f].task] < MaxDepth
  BY <1>0, <1>4, <1>10 DEF LevelInv, Enter
<1>12. depth' = [depth EXCEPT ![frames[f].task] = depth[frames[f].task] + 1]
  BY DEF Enter
<1>13. MaxDepth \in Nat
  BY FrozenAssumption
<1>14. /\ frames[f].task \in Tasks /\ depth'[frames[f].task] = Level(f)
       /\ \A t \in Tasks : t # frames[f].task => depth'[t] = depth[t]
  <2>1. frames[f].task \in Tasks /\ Level(f) \in Nat
    BY <1>3 DEF PlaceInv
  <2>2. QED
    BY <1>11, <1>12, <2>1 DEF Tasks
<1>15. \A g \in Frames : Nested(g)' => frames'[g].saved = Level(g)' - 1 /\ Level(g)' <= MaxDepth
  <2>1. TAKE g \in Frames
  <2>2. CASE g = f
    BY <1>2, <1>3, <1>11, <1>13, <2>2
  <2>3. CASE g # f
    BY <1>0, <1>2, <1>6, <2>3 DEF LevelInv
  <2>4. QED
    BY <2>2, <2>3
<1>16. ASSUME NEW m \in Frames, Deepest(m)'
       PROVE  depth'[frames'[m].task] = IF Nested(m)' THEN Level(m)' ELSE Level(m)' - 1
  <2>1. Deepest(m) /\ frames'[m].task = frames[m].task
    BY <1>0, <1>5, <1>16 DEF Deepest, Kept
  <2>2. CASE m = f
    BY <1>2, <1>14, <2>1, <2>2
  <2>3. CASE m # f
    <3>1. frames[m].task # frames[f].task
      BY <1>3, <1>10, <2>1, <2>3 DEF Deepest
    <3>2. depth'[frames[m].task] = depth[frames[m].task]
      BY <1>14, <3>1 DEF PlaceInv
    <3>3. QED
      BY <1>0, <1>2, <1>6, <2>1, <2>3, <3>2 DEF LevelInv
  <2>4. QED
    BY <2>2, <2>3
<1>17. ASSUME \A g \in Frames : Open(g)' => frames'[g].task # 1 PROVE depth'[1] = 0
  <2>1. \A g \in Frames : Open(g) => frames[g].task # 1
    BY <1>5, <1>17 DEF Kept
  <2>2. frames[f].task # 1 /\ depth[1] = 0
    BY <1>0, <1>4, <2>1 DEF LevelInv
  <2>3. QED
    BY <1>14, <2>2 DEF PlaceInv
<1>18. \A g \in Frames : frames'[g].ans = "refused" => Level(g)' - 1 >= MaxDepth
  BY <1>0, <1>2 DEF LevelInv
<1>19. LevelInv'
  BY <1>0, <1>15, <1>16, <1>17, <1>18 DEF LevelInv
<1>20. QED
  BY <1>7, <1>8, <1>9, <1>19 DEF NestInv

\* Calls are added below p, or by the tool stage: one in the task of p, or several,
\* each in a new task.
LEMMA AddNest ==
  ASSUME NestInv, PlaceInv, PlaceInv', Kept, NEW p,
         IF p = 0 THEN \A g \in Frames : ~Open(g)
         ELSE p \in Frames /\ Nested(p) /\ \A g \in Frames : frames[g].parent = p => ~Open(g),
         \A g \in Frames :
           /\ (Open(g)' <=> Open(g)) /\ (Nested(g)' <=> Nested(g))
           /\ frames'[g].saved = frames[g].saved /\ frames'[g].ans = frames[g].ans,
         \A g \in Frames' \ Frames :
           /\ frames'[g].parent = p /\ Open(g)' /\ ~Nested(g)' /\ frames'[g].ans # "refused",
         \/ /\ Len(frames') = Len(frames) + 1 /\ depth' = depth
            /\ frames'[Len(frames')].task = IF p = 0 THEN 1 ELSE frames[p].task
         \/ /\ p # 0
            /\ \A t \in Tasks : t \in Tasks' /\ depth'[t] = depth[t]
            /\ \A g, h \in Frames' \ Frames : g # h => frames'[g].task # frames'[h].task
            /\ \A g \in Frames' \ Frames :
                 frames'[g].task \notin Tasks /\ depth'[frames'[g].task] = depth[frames[p].task]
  PROVE  NestInv'
<1>0. /\ Frames = 1..Len(frames) /\ Frames' = 1..Len(frames') /\ Frames \subseteq Frames'
      /\ Len(frames) \in Nat /\ Len(frames') \in Nat
      /\ TreeInv /\ ChainInv /\ FirstInv /\ LevelInv
  <2>1. /\ Frames = 1..Len(frames) /\ Frames' = 1..Len(frames')
        /\ Len(frames) \in Nat /\ Len(frames') \in Nat
    BY SequenceFacts DEF PlaceInv, Frames
  <2>2. QED
    BY <2>1 DEF Kept, NestInv
<1> DEFINE New == Frames' \ Frames
<1>1. /\ \A g \in New : g > Len(frames) /\ g \in Nat /\ g \notin Frames
      /\ \A f \in Frames : f \in Nat /\ f <= Len(frames)
      /\ p = 0 \/ p \in Frames
  BY <1>0
<1>2. Rooted(frames')
  <2>1. \A g \in 1..Len(frames') : frames'[g].parent \in 0..(g - 1)
    <3>1. TAKE g \in 1..Len(frames')
    <3>2. CASE g \in Frames
      BY <1>0, <3>2 DEF TreeInv, Rooted, Kept
    <3>3. CASE g \in New
      <4>1. frames'[g].parent = p
        BY <3>3
      <4>2. QED
        BY <1>0, <1>1, <3>3, <4>1
    <3>4. QED
      BY <1>0, <3>2, <3>3
  <2>2. QED
    BY <1>0, <2>1 DEF Rooted
<1>3. \A g \in Frames : Level(g)' = Level(g) /\ Level(g) \in Nat
  BY <1>0, <1>2, KeptLevels, LevelFacts
<1>4. \A g \in Frames :
        /\ frames[g].parent \in 0..(g - 1)
        /\ frames[g].parent # 0 => frames[g].parent \in Frames
        /\ frames'[g].parent = frames[g].parent /\ frames'[g].task = frames[g].task
        /\ frames[g].task \in Tasks
  BY <1>0, LevelFacts DEF Kept, PlaceInv
<1>5. TreeInv'
  <2>1. ASSUME NEW g \in Frames', frames'[g].parent = 0 PROVE frames'[g].task = 1
    <3>1. CASE g \in Frames
      <4>1. frames[g].parent = 0 /\ frames'[g].task = frames[g].task
        BY <1>4, <2>1, <3>1
      <4>2. QED
        BY <1>0, <3>1, <4>1 DEF TreeInv
    <3>2. CASE g \in New
      <4>1. p = 0
        BY <2>1, <3>2
      <4>2. Len(frames') = Len(frames) + 1 /\ frames'[Len(frames')].task = 1
        BY <4>1
      <4>3. g = Len(frames')
        BY <1>0, <1>1, <3>2, <4>2
      <4>4. QED
        BY <4>2, <4>3
    <3>3. QED
      BY <2>1, <3>1, <3>2
  <2>2. ASSUME NEW g \in Frames', Open(g)', frames[g].parent' # 0 PROVE Nested(frames[g].parent)'
    <3>1. PICK q \in Frames : q = frames'[g].parent /\ Nested(q)
      <4>1. CASE g \in Frames
        <5>1. Open(g)
          BY <2>2, <4>1
        <5>2. frames[g].parent \in Frames /\ Nested(frames[g].parent)
          BY <1>0, <1>4, <2>2, <4>1, <5>1 DEF TreeInv
        <5>3. QED
          BY <1>4, <4>1, <5>2
      <4>2. CASE g \in New
        <5>1. frames'[g].parent = p
          BY <4>2
        <5>2. QED
          BY <2>2, <5>1
      <4>3. QED
        BY <2>2, <4>1, <4>2
    <3>2. Nested(q)'
      BY <3>1
    <3>3. QED
      BY <3>1, <3>2 DEF Nested
  <2>3. QED
    BY <1>2, <2>1, <2>2 DEF TreeInv
<1>6. p # 0 => Deepest(p) /\ depth[frames[p].task] = Level(p)
  <2>1. SUFFICES ASSUME p # 0 PROVE Deepest(p) /\ depth[frames[p].task] = Level(p)
    OBVIOUS
  <2>2. p \in Frames /\ Nested(p) /\ \A g \in Frames : frames[g].parent = p => ~Open(g)
    BY <2>1
  <2>3. Open(p)
    BY <2>2, NestedOpen
  <2>4. Deepest(p)
    BY <1>0, <2>2, <2>3, IdleDeepest
  <2>5. QED
    BY <1>0, <2>2, <2>4 DEF LevelInv
<1>7. ChainInv'
  <2>1. ASSUME NEW f \in Frames', NEW g \in Frames', f < g, Open(f)', Open(g)',
               frames'[g].task = frames'[f].task
        PROVE  frames'[g].parent >= f /\ frames'[frames'[g].parent].task = frames'[g].task
    <3>1. CASE g \in Frames
      <4>1. f \in Frames
        BY <1>0, <2>1, <3>1
      <4>2. Open(f) /\ Open(g) /\ frames[g].task = frames[f].task
        BY <1>4, <2>1, <3>1, <4>1
      <4>3. frames[g].parent >= f /\ frames[frames[g].parent].task = frames[g].task
        BY <1>0, <2>1, <3>1, <4>1, <4>2 DEF ChainInv
      <4>4. frames[g].parent \in Frames
        BY <1>1, <1>4, <3>1, <4>1, <4>3
      <4>5. QED
        BY <1>4, <3>1, <4>3, <4>4
    <3>2. CASE g \in New
      <4>1. frames'[g].parent = p
        BY <3>2
      <4>2. CASE f \in Frames
        <5>1. Open(f) /\ p # 0
          BY <2>1, <4>2
        <5>2. frames'[g].task \in Tasks
          BY <1>4, <2>1, <4>2
        <5>3. Len(frames') = Len(frames) + 1 /\ frames'[Len(frames')].task = frames[p].task
          BY <3>2, <5>1, <5>2
        <5>4. g = Len(frames')
          BY <1>0, <1>1, <3>2, <5>3
        <5>5. frames[f].task = frames[p].task
          BY <1>4, <2>1, <4>2, <5>3, <5>4
        <5>6. f <= p
          BY <1>1, <1>6, <4>2, <5>1, <5>5 DEF Deepest
        <5>7. QED
          BY <1>1, <1>4, <4>1, <5>1, <5>3, <5>4, <5>6
      <4>3. CASE f \in New
        <5>1. Len(frames') # Len(frames) + 1
          BY <1>0, <1>1, <2>1, <3>2, <4>3
        <5>2. FALSE
          BY <1>1, <2>1, <3>2, <4>3, <5>1
        <5>3. QED
          BY <5>2
      <4>4. QED
        BY <4>2, <4>3
    <3>3. QED
      BY <3>1, <3>2
  <2>2. QED
    BY <2>1 DEF ChainInv
<1>8. FirstInv'
  <2>1. ASSUME NEW f \in Frames', frames'[f].parent # 0,
               frames'[frames'[f].parent].task # frames'[f].task
        PROVE  frames'[f].task # 1 /\ \A g \in Frames' : frames'[g].task = frames'[f].task => f <= g
    <3>1. CASE f \in Frames
      <4>1. frames[f].parent \in Frames /\ frames[frames[f].parent].task # frames[f].task
        BY <1>4, <2>1, <3>1
      <4>2. frames[f].task # 1 /\ \A g \in Frames : frames[g].task = frames[f].task => f <= g
        BY <1>0, <1>4, <2>1, <3>1, <4>1 DEF FirstInv
      <4>3. QED
        BY <1>1, <1>4, <3>1, <4>2
    <3>2. CASE f \in New
      <4>1. frames'[f].parent = p /\ p \in Frames /\ frames'[p].task = frames[p].task
        BY <1>1, <1>4, <2>1, <3>2
      <4>2. ~(Len(frames') = Len(frames) + 1 /\ frames'[Len(frames')].task = frames[p].task)
        BY <1>0, <1>1, <2>1, <3>2, <4>1
      <4>3. /\ \A g, h \in New : g # h => frames'[g].task # frames'[h].task
            /\ frames'[f].task \notin Tasks
        BY <1>1, <2>1, <3>2, <4>1, <4>2
      <4>4. frames'[f].task # 1
        BY <4>3 DEF PlaceInv
      <4>5. ASSUME NEW g \in Frames', frames'[g].task = frames'[f].task PROVE f = g
        <5>1. g \in New
          BY <1>4, <4>3, <4>5
        <5>2. QED
          BY <3>2, <4>3, <4>5, <5>1
      <4>6. QED
        BY <1>1, <3>2, <4>4, <4>5
    <3>3. QED
      BY <3>1, <3>2
  <2>2. QED
    BY <2>1 DEF FirstInv
<1>9. \A g \in New : Level(g)' = (IF p = 0 THEN 0 ELSE Level(p)) + 1
  <2>1. TAKE g \in New
  <2>2. TreeInv' /\ PlaceInv' /\ g \in Frames'
    BY <1>5
  <2>3. Level(g)' = IF frames'[g].parent = 0 THEN 1 ELSE Cardinality(Ups(frames')[frames'[g].parent]) + 1
    <3>1. g \in 1..Len(frames')
      BY <1>0
    <3>2. QED
      BY <1>2, <3>1, UpCounts DEF Level
  <2>4. frames'[g].parent = p
    OBVIOUS
  <2>5. CASE p = 0
    BY <2>3, <2>4, <2>5
  <2>6. CASE p # 0
    <3>1. Level(p)' = Cardinality(Ups(frames')[p]) /\ Level(p)' = Level(p)
      BY <1>1, <1>3, <2>6 DEF Level
    <3>2. QED
      BY <2>3, <2>4, <2>6, <3>1
  <2>7. QED
    BY <2>5, <2>6
<1>10. \A g \in Frames' :
         Nested(g)' => frames'[g].saved = Level(g)' - 1 /\ Level(g)' <= MaxDepth
  <2>1. TAKE g \in Frames'
  <2>2. CASE g \in Frames
    BY <1>0, <1>3, <2>2 DEF LevelInv
  <2>3. CASE g \in New
    BY <2>3
  <2>4. QED
    BY <2>2, <2>3
<1>11. \A t \in Tasks : depth'[t] = depth[t]
  OBVIOUS
<1>12. ASSUME NEW m \in Frames', Deepest(m)'
       PROVE  depth'[frames'[m].task] = IF Nested(m)' THEN Level(m)' ELSE Level(m)' - 1
  <2>1. CASE m \in Frames
    <3>1. Deepest(m)
      BY <1>0, <1>4, <1>12, <2>1 DEF Deepest
    <3>2. depth[frames[m].task] = IF Nested(m) THEN Level(m) ELSE Level(m) - 1
      BY <1>0, <2>1, <3>1 DEF LevelInv
    <3>3. QED
      BY <1>3, <1>4, <1>11, <2>1, <3>2
  <2>2. CASE m \in New
    <3>1. ~Nested(m)' /\ Level(m)' = (IF p = 0 THEN 0 ELSE Level(p)) + 1
      BY <1>9, <2>2
    <3>2. CASE p = 0
      <4>1. frames'[m].task = 1 /\ depth' = depth
        BY <1>0, <1>1, <2>2, <3>2
      <4>2. depth[1] = 0
        BY <1>0, <3>2 DEF LevelInv
      <4>3. QED
        BY <3>1, <3>2, <4>1, <4>2
    <3>3. CASE p # 0
      <4>1. depth[frames[p].task] = Level(p) /\ Level(p) \in Nat /\ p \in Frames
        BY <1>1, <1>3, <1>6, <3>3
      <4>2. depth'[frames'[m].task] = depth[frames[p].task]
        <5>1. CASE Len(frames') = Len(frames) + 1 /\ depth' = depth
                   /\ frames'[Len(frames')].task = IF p = 0 THEN 1 ELSE frames[p].task
          <6>1. m = Len(frames')
            BY <1>0, <1>1, <2>2, <5>1
          <6>2. QED
            BY <3>3, <5>1, <6>1
        <5>2. CASE \A g \in New :
                     frames'[g].task \notin Tasks /\ depth'[frames'[g].task] = depth[frames[p].task]
          BY <2>2, <5>2
        <5>3. QED
          BY <5>1, <5>2
      <4>3. QED
        BY <3>1, <3>3, <4>1, <4>2
    <3>4. QED
      BY <3>2, <3>3
  <2>3. QED
    BY <2>1, <2>2
<1>13. ASSUME \A g \in Frames' : Open(g)' => frames'[g].task # 1 PROVE depth'[1] = 0
  <2>1. ASSUME NEW g \in Frames, Open(g) PROVE frames[g].task # 1
    <3>1. g \in Frames' /\ Open(g)'
      BY <1>0, <2>1
    <3>2. QED
      BY <1>4, <1>13, <3>1
  <2>2. depth[1] = 0
    BY <1>0, <2>1 DEF LevelInv
  <2>3. QED
    BY <1>11, <2>2 DEF PlaceInv
<1>14. \A g \in Frames' : frames'[g].ans = "refused" => Level(g)' - 1 >= MaxDepth
  <2>1. TAKE g \in Frames'
  <2>2. CASE g \in Frames
    BY <1>0, <1>3, <2>2 DEF LevelInv
  <2>3. CASE g \in New
    BY <2>3
  <2>4. QED
    BY <2>2, <2>3
<1>15. LevelInv'
  BY <1>10, <1>12, <1>13, <1>14 DEF LevelInv
<1>16. QED
  BY <1>5, <1>7, <1>8, <1>15 DEF NestInv

-----------------------------------------------------------------------------
(* The ways to a server. *)

\* What a call has tried, in the workflow w, is what its place says.
Exhausted(d, r) ==
  /\ \A i \in DOMAIN r.tried : r.tried[i][2] = "ok" => i = Len(r.tried) /\ r.ans = "ok"
  /\ (d.kind \in {"rag", "mcp_session"} /\ r.ans = "error") =>
       [i \in DOMAIN r.tried |-> r.tried[i][1]] =
         IF d.kind = "rag" THEN RagWays(d) ELSE McpWays(d)

\* The first of two ways has failed, or there is none.
Behind(r, first, way) ==
  IF first THEN \E o \in Outcomes \ {"ok"} : r.tried = << <<way, o>> >> ELSE r.tried = <<>>

Told(w, r) ==
  LET d == w.defs[r.tool] IN
  /\ r.phase \in {"entered", "request", "direct", "shim", "spawn", "station", "turn", "sweep", "ended"}
  /\ r.phase \notin {"entered", "ended"} => r.tool \in DOMAIN w.defs
  /\ r.phase # "ended" => r.ans = "none"
  /\ r.phase \in {"entered", "request", "turn", "sweep", "direct", "spawn"} => r.tried = <<>>
  /\ r.phase = "request" => d.kind = "http"
  /\ r.phase = "turn" => d.kind = "subpipeline" /\ d.given
  /\ r.phase = "sweep" => d.kind = "canvas"
  /\ r.phase = "direct" => d.kind = "rag" /\ d.direct
  /\ r.phase = "shim" => d.kind = "rag" /\ d.shim /\ Behind(r, d.direct, "direct")
  /\ r.phase = "spawn" => d.kind = "mcp_session" /\ d.spawn
  /\ r.phase = "station" => d.kind = "mcp_session" /\ d.station /\ Behind(r, d.spawn, "spawn")
  /\ r.phase = "ended" /\ r.tool \in DOMAIN w.defs => Exhausted(d, r)

LEMMA PairOf ==
  ASSUME NEW S, NEW s \in Seq(S), Len(s) = 2
  PROVE  s = <<s[1], s[2]>>
<1>1. s = [i \in 1..2 |-> s[i]]
  OBVIOUS
<1>2. [i \in 1..2 |-> s[i]] = [i \in 1..2 |-> IF i = 1 THEN s[1] ELSE s[2]]
  <2>1. \A i \in 1..2 : s[i] = IF i = 1 THEN s[1] ELSE s[2]
    OBVIOUS
  <2>2. QED
    BY <2>1
<1>3. <<s[1], s[2]>> = [i \in 1..2 |-> IF i = 1 THEN s[1] ELSE s[2]]
  OBVIOUS
<1>4. QED
  BY <1>1, <1>2, <1>3

LEMMA ToldSame ==
  ASSUME NEW w, NEW r, NEW s, Told(w, r), s.tool = r.tool, s.phase = r.phase, s.ans = r.ans,
         s.tried = r.tried
  PROVE  Told(w, s)
<1>1. \A d : Exhausted(d, r) => Exhausted(d, s)
  BY Zenon DEF Exhausted
<1>2. \A first, way : Behind(r, first, way) => Behind(s, first, way)
  BY DEF Behind
<1>3. QED
  BY <1>1, <1>2 DEF Told

LEMMA OneTwo ==
  ASSUME NEW a, NEW b
  PROVE  /\ Append(<<>>, a) = <<a>> /\ Append(<<a>>, b) = <<a, b>>
         /\ <<>> \o <<>> = <<>> /\ <<a>> \o <<>> = <<a>> /\ <<>> \o <<a>> = <<a>>
         /\ <<a>> \o <<b>> = <<a, b>>
<1>1. <<a>> \in Seq({a, b}) /\ <<b>> \in Seq({a, b}) /\ <<>> \in Seq({a, b})
  OBVIOUS
<1>2. Append(<<>>, a) = <<a>>
  <2> DEFINE s == Append(<<>>, a)
  <2>1. s \in Seq({a, b}) /\ Len(s) = 1 /\ s[1] = a
    BY <1>1, AppendProperties
  <2> HIDE DEF s
  <2>2. QED
    BY <2>1
<1>3. Append(<<a>>, b) = <<a, b>>
  <2> DEFINE s == Append(<<a>>, b)
  <2>1. s \in Seq({a, b}) /\ Len(s) = 2 /\ s[1] = a /\ s[2] = b
    BY <1>1, AppendProperties
  <2> HIDE DEF s
  <2>2. s = <<s[1], s[2]>>
    BY <2>1, PairOf
  <2>3. QED
    BY <2>1, <2>2 DEF s
<1>4. <<>> \o <<>> = <<>>
  BY <1>1, ConcatEmptySeq
<1>5. <<a>> \o <<>> = <<a>> /\ <<>> \o <<a>> = <<a>>
  BY <1>1, ConcatEmptySeq
<1>6. <<a>> \o <<b>> = <<a, b>>
  <2> DEFINE s == <<a>> \o <<b>>
  <2>1. s \in Seq({a, b}) /\ Len(s) = 2 /\ s[1] = a /\ s[2] = b
    BY <1>1, ConcatProperties
  <2> HIDE DEF s
  <2>2. s = <<s[1], s[2]>>
    BY <2>1, PairOf
  <2>3. QED
    BY <2>1, <2>2 DEF s
<1>7. QED
  BY <1>2, <1>3, <1>4, <1>5, <1>6

LEMMA NothingTried ==
  ASSUME NEW d, NEW r, r.tried = <<>>, r.ans # "error"
  PROVE  Exhausted(d, r)
<1>1. DOMAIN r.tried = {}
  OBVIOUS
<1>2. QED
  BY <1>1 DEF Exhausted

LEMMA OneTried ==
  ASSUME NEW d, NEW r, NEW way, NEW o, r.tried = << <<way, o>> >>,
         o = "ok" => r.ans = "ok",
         r.ans = "error" /\ d.kind = "rag" => RagWays(d) = <<way>>,
         r.ans = "error" /\ d.kind = "mcp_session" => McpWays(d) = <<way>>
  PROVE  Exhausted(d, r)
<1>1. DOMAIN r.tried = {1} /\ Len(r.tried) = 1 /\ r.tried[1][1] = way /\ r.tried[1][2] = o
  OBVIOUS
<1>2. [i \in DOMAIN r.tried |-> r.tried[i][1]] = <<way>>
  <2>1. [i \in {1} |-> r.tried[i][1]] = [i \in {1} |-> way]
    BY <1>1
  <2>2. <<way>> = [i \in {1} |-> way]
    OBVIOUS
  <2>3. QED
    BY <1>1, <2>1, <2>2
<1>3. QED
  BY <1>1, <1>2 DEF Exhausted

LEMMA TwoTried ==
  ASSUME NEW d, NEW r, NEW first, NEW way, NEW p, NEW o,
         r.tried = << <<first, p>>, <<way, o>> >>, p # "ok",
         o = "ok" => r.ans = "ok",
         r.ans = "error" /\ d.kind = "rag" => RagWays(d) = <<first, way>>,
         r.ans = "error" /\ d.kind = "mcp_session" => McpWays(d) = <<first, way>>
  PROVE  Exhausted(d, r)
<1>1. /\ DOMAIN r.tried = {1, 2} /\ Len(r.tried) = 2
      /\ r.tried[1][1] = first /\ r.tried[1][2] = p /\ r.tried[2][1] = way /\ r.tried[2][2] = o
  OBVIOUS
<1>2. [i \in DOMAIN r.tried |-> r.tried[i][1]] = <<first, way>>
  <2> DEFINE names == [i \in {1, 2} |-> r.tried[i][1]]
  <2>1. names = [i \in {1, 2} |-> IF i = 1 THEN first ELSE way]
    BY <1>1
  <2>2. <<first, way>> = [i \in {1, 2} |-> IF i = 1 THEN first ELSE way]
    OBVIOUS
  <2>3. QED
    BY <1>1, <2>1, <2>2
<1>3. QED
  BY <1>1, <1>2 DEF Exhausted

LEMMA WaysFacts ==
  ASSUME NEW d
  PROVE  /\ RagWays(d) = IF d.direct THEN IF d.shim THEN <<"direct", "shim">> ELSE <<"direct">>
                         ELSE IF d.shim THEN <<"shim">> ELSE <<>>
         /\ McpWays(d) = IF d.spawn THEN IF d.station THEN <<"spawn", "station">> ELSE <<"spawn">>
                         ELSE IF d.station THEN <<"station">> ELSE <<>>
<1>1. ASSUME NEW p, NEW q, NEW a, NEW b
      PROVE  (IF p THEN <<a>> ELSE <<>>) \o (IF q THEN <<b>> ELSE <<>>) =
               IF p THEN IF q THEN <<a, b>> ELSE <<a>> ELSE IF q THEN <<b>> ELSE <<>>
  <2>1. /\ <<a>> \o <<b>> = <<a, b>> /\ <<a>> \o <<>> = <<a>>
        /\ <<>> \o <<b>> = <<b>> /\ <<>> \o <<>> = <<>>
    BY OneTwo
  <2>2. CASE p /\ q
    BY <2>1, <2>2, Zenon
  <2>3. CASE p /\ ~q
    BY <2>1, <2>3, Zenon
  <2>4. CASE ~p /\ q
    BY <2>1, <2>4, Zenon
  <2>5. CASE ~p /\ ~q
    BY <2>1, <2>5, Zenon
  <2>6. QED
    BY <2>2, <2>3, <2>4, <2>5
<1>2. QED
  BY <1>1, Zenon DEF RagWays, McpWays

-----------------------------------------------------------------------------
(* Steps that concern one call. *)

Fields == {"tool", "parent", "task", "saved", "phase", "ans", "tried", "turns", "ran", "out",
           "at", "moved", "node", "left", "in"}

TypeInv ==
  /\ workflow \in Workflows
  /\ PlaceInv
  /\ \A f \in Frames :
       DOMAIN frames[f] = Fields /\ frames[f].saved \in Nat /\ Told(workflow, frames[f])

\* Only f changes; it stays where it is in the tree.
One(f) ==
  /\ DOMAIN frames' = Frames /\ frames' = [g \in Frames |-> frames'[g]]
  /\ \A g \in Frames : g # f => frames'[g] = frames[g]
  /\ DOMAIN frames'[f] = Fields /\ frames'[f].tool = frames[f].tool
  /\ frames'[f].parent = frames[f].parent /\ frames'[f].task = frames[f].task
  /\ workflow' = workflow

LEMMA SameSequence ==
  ASSUME NEW s, NEW t, Sequence(s), DOMAIN t = DOMAIN s, t = [i \in DOMAIN s |-> t[i]]
  PROVE  Sequence(t) /\ Len(t) = Len(s)
<1>1. Len(s) \in Nat /\ DOMAIN s = 1..Len(s)
  BY SequenceFacts
<1>2. t = [i \in 1..Len(s) |-> t[i]]
  BY <1>1
<1>3. \A i \in 1..Len(s) : t[i] \in ToSet(t)
  BY <1>1 DEF ToSet
<1>4. t \in Seq(ToSet(t))
  BY <1>1, <1>2, <1>3, SeqDef
<1>5. QED
  BY <1>1, <1>4 DEF Sequence

LEMMA OneFacts ==
  ASSUME TypeInv, NEW f \in Frames, One(f)
  PROVE  Sequence(frames') /\ Len(frames') = Len(frames) /\ Frames' = Frames /\ Kept
<1>1. Sequence(frames')
  BY SameSequence DEF TypeInv, PlaceInv, One, Frames
<1>2. Len(frames') = Len(frames) /\ Len(frames) \in Nat
  BY SameSequence, SequenceFacts DEF TypeInv, PlaceInv, One, Frames
<1>3. QED
  BY <1>1, <1>2 DEF One, Kept, Frames

LEMMA OneType ==
  ASSUME TypeInv, NEW f \in Frames, One(f), frames'[f].saved \in Nat,
         Told(workflow, frames'[f]), depth' \in Seq(Nat), Len(depth') = Len(depth)
  PROVE  TypeInv'
<1>1. Sequence(frames') /\ Frames' = Frames
  BY OneFacts
<1>2. Tasks' = Tasks
  BY DEF TypeInv, PlaceInv, Tasks
<1>3. PlaceInv'
  <2>1. \A g \in Frames : frames'[g].task \in Tasks
    BY DEF One, TypeInv, PlaceInv
  <2>2. 1 \in Tasks
    BY DEF TypeInv, PlaceInv
  <2>3. QED
    BY <1>1, <1>2, <2>1, <2>2 DEF PlaceInv
<1>4. \A g \in Frames :
        DOMAIN frames'[g] = Fields /\ frames'[g].saved \in Nat /\ Told(workflow, frames'[g])
  BY DEF One, TypeInv
<1>5. workflow' = workflow /\ workflow \in Workflows
  BY DEF One, TypeInv
<1>6. QED
  BY <1>1, <1>3, <1>4, <1>5 DEF TypeInv

IInv == TypeInv /\ NestInv

\* The call goes on: neither over nor nested where it was not.
LEMMA Goes ==
  ASSUME IInv, NEW f \in Frames, One(f), depth' = depth,
         Open(f), frames'[f].phase # "ended", Nested(f)' <=> Nested(f),
         frames'[f].saved = frames[f].saved, frames'[f].ans = frames[f].ans,
         Told(workflow, frames'[f])
  PROVE  IInv'
<1>1. TypeInv'
  BY OneType DEF IInv, TypeInv, PlaceInv
<1>2. /\ Len(frames') = Len(frames) /\ Kept /\ Frames' = Frames
      /\ PlaceInv /\ PlaceInv' /\ NestInv
  BY <1>1, OneFacts DEF IInv, TypeInv
<1>3. \A g \in Frames :
        /\ Open(g)' <=> Open(g)
        /\ Nested(g)' <=> Nested(g)
        /\ frames'[g].saved = frames[g].saved /\ frames'[g].ans = frames[g].ans
  BY DEF One, Open, Nested
<1>4. NestInv'
  <2>1. {} \in SUBSET Frames
    OBVIOUS
  <2>2. QED
    BY <1>2, <1>3, <2>1, CutNest
<1>5. QED
  BY <1>1, <1>4 DEF IInv

\* The call is over; one that nests resets the counter.
LEMMA Ends ==
  ASSUME IInv, NEW f \in Frames, One(f), Open(f), frames'[f].phase = "ended",
         \A g \in Frames : frames[g].parent = f => ~Open(g),
         depth' = IF Nested(f) THEN [depth EXCEPT ![frames[f].task] = frames[f].saved] ELSE depth,
         frames'[f].saved = frames[f].saved,
         frames'[f].ans = "refused" => depth[frames[f].task] >= MaxDepth /\ ~Nested(f),
         Told(workflow, frames'[f])
  PROVE  IInv'
<1>0. TypeInv /\ NestInv /\ TreeInv /\ ChainInv /\ LevelInv /\ PlaceInv
  BY DEF IInv, NestInv, TypeInv
<1>1. /\ frames[f].task \in Tasks /\ frames[f].saved \in Nat /\ depth \in Seq(Nat)
      /\ Tasks = 1..Len(depth)
  BY <1>0 DEF TypeInv, PlaceInv, Tasks
<1>2. /\ depth' \in Seq(Nat) /\ Len(depth') = Len(depth)
      /\ \A t \in Tasks : t # frames[f].task => depth'[t] = depth[t]
      /\ depth'[frames[f].task] =
           IF Nested(f) THEN frames[f].saved ELSE depth[frames[f].task]
  BY <1>1
<1>3. TypeInv'
  BY <1>0, <1>1, <1>2, OneType
<1>4. Len(frames') = Len(frames) /\ Kept /\ Frames' = Frames /\ PlaceInv'
  BY <1>0, <1>3, OneFacts DEF TypeInv
<1>5. Deepest(f)
  BY <1>0, IdleDeepest
<1>6. depth'[frames[f].task] = Level(f) - 1
  BY <1>0, <1>2, <1>5 DEF LevelInv
<1>7. frames'[f].ans = "refused" => Level(f) - 1 >= MaxDepth
  BY <1>2, <1>6
<1>8. \A g \in Frames :
        /\ Open(g)' <=> Open(g) /\ g \notin {f}
        /\ Nested(g)' <=> Nested(g) /\ g \notin {f}
        /\ frames'[g].saved = frames[g].saved
        /\ frames'[g].ans = "refused" => frames[g].ans = "refused" \/ Level(g) - 1 >= MaxDepth
  BY <1>7 DEF One, Open, Nested
<1>9. NestInv'
  <2> DEFINE gone == {f}
  <2>1. gone \in SUBSET Frames /\ (\A g \in gone : Open(g))
        /\ \A g \in Frames : Open(g) /\ frames[g].parent \in gone => g \in gone
    OBVIOUS
  <2>2. \A t \in Tasks : (\A g \in gone : frames[g].task # t) => depth'[t] = depth[t]
    BY <1>2
  <2>3. \A g \in gone : depth'[frames[g].task] = Level(g) - 1
    BY <1>6
  <2>4. \A g \in Frames :
          /\ Open(g)' <=> (Open(g) /\ g \notin gone)
          /\ Nested(g)' <=> (Nested(g) /\ g \notin gone)
          /\ frames'[g].saved = frames[g].saved
          /\ frames'[g].ans = "refused" => frames[g].ans = "refused" \/ Level(g) - 1 >= MaxDepth
    BY <1>8
  <2> HIDE DEF gone
  <2>5. QED
    BY <1>0, <1>4, <2>1, <2>2, <2>3, <2>4, CutNest
<1>10. QED
  BY <1>3, <1>9 DEF IInv

-----------------------------------------------------------------------------
(* The steps of the calls that do not nest. *)

LEMMA FrameFacts ==
  ASSUME TypeInv, NEW f \in Frames
  PROVE  /\ f \in Nat /\ f # 0 /\ DOMAIN frames = Frames /\ DOMAIN frames[f] = Fields
         /\ Told(workflow, frames[f]) /\ frames[f].saved \in Nat
         /\ frames = [g \in Frames |-> frames[g]]
<1>1. DOMAIN frames = 1..Len(frames) /\ Len(frames) \in Nat
  BY SequenceFacts DEF TypeInv, PlaceInv
<1>2. frames = [g \in Frames |-> frames[g]]
  BY SequenceFacts DEF TypeInv, PlaceInv, Frames
<1>3. QED
  BY <1>1, <1>2 DEF TypeInv, Frames

LEMMA NoKids ==
  ASSUME IInv, NEW f \in Frames, ~Nested(f)
  PROVE  \A g \in Frames : frames[g].parent = f => ~Open(g)
BY FrameFacts DEF IInv, NestInv, TreeInv

LEMMA Answers ==
  ASSUME IInv, NEW f \in Frames, NEW a, Answer(f, a), Open(f), ~Nested(f),
         a = "refused" => depth[frames[f].task] >= MaxDepth,
         frames[f].tool \in DOMAIN workflow.defs =>
           frames[f].tried = <<>> /\ (a = "error" => Def(f).kind \notin {"rag", "mcp_session"})
  PROVE  IInv'
<1>1. TypeInv
  BY DEF IInv
<1>2. /\ One(f) /\ frames'[f].phase = "ended" /\ frames'[f].ans = a
      /\ frames'[f].saved = frames[f].saved /\ frames'[f].tried = frames[f].tried
      /\ depth' = depth /\ workflow' = workflow
  BY <1>1, FrameFacts DEF Answer, Ended, One, Fields
<1>3. Told(workflow, frames'[f])
  <2>1. ASSUME frames[f].tool \in DOMAIN workflow.defs
        PROVE  Exhausted(workflow.defs[frames[f].tool], frames'[f])
    <3>1. DOMAIN frames'[f].tried = {}
      BY <1>2, <2>1
    <3>2. QED
      BY <1>2, <2>1, <3>1 DEF Exhausted, Def
  <2>2. QED
    BY <1>2, <2>1 DEF Told, One
<1>4. QED
  BY <1>2, <1>3, NoKids, Ends

LEMMA Starts ==
  ASSUME IInv, NEW f \in Frames, NEW place, Goto(f, place), frames[f].phase = "entered",
         frames[f].tool \in DOMAIN workflow.defs,
         \/ place = "request" /\ Def(f).kind = "http"
         \/ Def(f).kind = "rag" /\ RagWays(Def(f)) # <<>> /\ place = Head(RagWays(Def(f)))
         \/ Def(f).kind = "mcp_session" /\ McpWays(Def(f)) # <<>> /\ place = Head(McpWays(Def(f)))
  PROVE  IInv'
<1>1. TypeInv
  BY DEF IInv
<1>2. /\ One(f) /\ frames'[f].phase = place /\ frames'[f].ans = frames[f].ans
      /\ frames'[f].saved = frames[f].saved /\ frames'[f].tried = frames[f].tried
      /\ depth' = depth /\ workflow' = workflow
  BY <1>1, FrameFacts DEF Goto, One, Fields
<1>3. frames[f].tried = <<>> /\ frames[f].ans = "none"
  BY <1>1, FrameFacts DEF Told
<1> DEFINE d == Def(f)
<1>4. \/ place = "request" /\ d.kind = "http"
      \/ place = "direct" /\ d.kind = "rag" /\ d.direct
      \/ place = "shim" /\ d.kind = "rag" /\ d.shim /\ ~d.direct
      \/ place = "spawn" /\ d.kind = "mcp_session" /\ d.spawn
      \/ place = "station" /\ d.kind = "mcp_session" /\ d.station /\ ~d.spawn
  <2> HIDE DEF d
  <2>1. /\ Head(<<"direct", "shim">>) = "direct" /\ Head(<<"direct">>) = "direct"
        /\ Head(<<"shim">>) = "shim" /\ Head(<<"spawn", "station">>) = "spawn"
        /\ Head(<<"spawn">>) = "spawn" /\ Head(<<"station">>) = "station"
    OBVIOUS
  <2>2. CASE place = "request" /\ d.kind = "http"
    BY <2>2
  <2>3. CASE d.kind = "rag" /\ RagWays(d) # <<>> /\ place = Head(RagWays(d))
    BY <2>1, <2>3, WaysFacts
  <2>4. CASE d.kind = "mcp_session" /\ McpWays(d) # <<>> /\ place = Head(McpWays(d))
    BY <2>1, <2>4, WaysFacts
  <2>5. QED
    BY <2>2, <2>3, <2>4 DEF d
<1>5. place \notin {"entered", "ended", "turn", "sweep"} /\ Open(f) /\ ~Nested(f) /\ ~Nested(f)'
  BY <1>2, <1>4 DEF Open, Nested
<1>6. Told(workflow, frames'[f])
  BY <1>2, <1>3, <1>4, <1>5 DEF Told, One, Def, Behind
<1>7. QED
  BY <1>2, <1>5, <1>6, Goes

\* One way is tried: an answer, or the next way, or the end.
LEMMA Tries ==
  ASSUME IInv, NEW f \in Frames, NEW way, NEW o \in Outcomes, NEW next, NEW configured,
         Attempt(f, way, o, next, configured),
         \/ way = "direct" /\ next = "shim" /\ configured = Def(f).shim
         \/ way = "spawn" /\ next = "station" /\ configured = Def(f).station
         \/ way = "shim" /\ configured = FALSE
         \/ way = "station" /\ configured = FALSE
  PROVE  IInv'
<1>1. TypeInv
  BY DEF IInv
<1> DEFINE d == Def(f)
           goes == o # "ok" /\ configured
<1>2. /\ frames[f].phase = way /\ Told(workflow, frames[f])
      /\ frames[f].tool \in DOMAIN workflow.defs /\ frames[f].ans = "none"
      /\ Open(f) /\ ~Nested(f)
  BY <1>1, FrameFacts DEF Attempt, Told, Open, Nested
<1>3. /\ One(f) /\ frames'[f].phase = IF goes THEN next ELSE "ended"
      /\ frames'[f].ans = IF goes THEN "none" ELSE IF o = "ok" THEN "ok" ELSE "error"
      /\ frames'[f].saved = frames[f].saved
      /\ frames'[f].tried = Append(frames[f].tried, <<way, o>>)
      /\ depth' = depth /\ workflow' = workflow
  <2>1. CASE goes
    BY <1>1, <1>2, <2>1, FrameFacts DEF Attempt, One, Fields
  <2>2. CASE ~goes
    BY <1>1, <1>2, <2>2, FrameFacts DEF Attempt, One, Fields
  <2>3. QED
    BY <2>1, <2>2
\* The ways that have been tried, with the outcome of this one.
<1>4. /\ way = "direct" => d.kind = "rag" /\ d.direct /\ frames'[f].tried = << <<"direct", o>> >>
      /\ way = "spawn" => d.kind = "mcp_session" /\ d.spawn /\ frames'[f].tried = << <<"spawn", o>> >>
  BY <1>2, <1>3, OneTwo DEF Told, Def
<1>5. way = "shim" =>
        /\ d.kind = "rag" /\ d.shim
        /\ IF d.direct
             THEN \E p \in Outcomes \ {"ok"} :
                    frames'[f].tried = << <<"direct", p>>, <<"shim", o>> >>
             ELSE frames'[f].tried = << <<"shim", o>> >>
  <2> SUFFICES ASSUME way = "shim" PROVE <1>5!2
    OBVIOUS
  <2>1. d.kind = "rag" /\ d.shim /\ Behind(frames[f], d.direct, "direct")
    BY <1>2 DEF Told, Def
  <2>2. CASE d.direct
    <3>1. PICK p \in Outcomes \ {"ok"} : frames[f].tried = << <<"direct", p>> >>
      BY <2>1, <2>2 DEF Behind
    <3>2. frames'[f].tried = << <<"direct", p>>, <<"shim", o>> >>
      BY <1>3, <3>1, OneTwo
    <3>3. QED
      BY <2>1, <2>2, <3>1, <3>2
  <2>3. CASE ~d.direct
    <3>1. frames'[f].tried = << <<"shim", o>> >>
      BY <1>3, <2>1, <2>3, OneTwo DEF Behind
    <3>2. QED
      BY <2>1, <2>3, <3>1
  <2>4. QED
    BY <2>2, <2>3
<1>6. way = "station" =>
        /\ d.kind = "mcp_session" /\ d.station
        /\ IF d.spawn
             THEN \E p \in Outcomes \ {"ok"} :
                    frames'[f].tried = << <<"spawn", p>>, <<"station", o>> >>
             ELSE frames'[f].tried = << <<"station", o>> >>
  <2> SUFFICES ASSUME way = "station" PROVE <1>6!2
    OBVIOUS
  <2>1. d.kind = "mcp_session" /\ d.station /\ Behind(frames[f], d.spawn, "spawn")
    BY <1>2 DEF Told, Def
  <2>2. CASE d.spawn
    <3>1. PICK p \in Outcomes \ {"ok"} : frames[f].tried = << <<"spawn", p>> >>
      BY <2>1, <2>2 DEF Behind
    <3>2. frames'[f].tried = << <<"spawn", p>>, <<"station", o>> >>
      BY <1>3, <3>1, OneTwo
    <3>3. QED
      BY <2>1, <2>2, <3>1, <3>2
  <2>3. CASE ~d.spawn
    <3>1. frames'[f].tried = << <<"station", o>> >>
      BY <1>3, <2>1, <2>3, OneTwo DEF Behind
    <3>2. QED
      BY <2>1, <2>3, <3>1
  <2>4. QED
    BY <2>2, <2>3
<1>7. CASE goes
  <2>1. \/ way = "direct" /\ next = "shim" /\ d.shim
        \/ way = "spawn" /\ next = "station" /\ d.station
    BY <1>7
  <2>2. Told(workflow, frames'[f])
    BY <1>2, <1>3, <1>4, <1>7, <2>1 DEF Told, Def, Behind, One
  <2>3. frames'[f].phase # "ended" /\ ~Nested(f)'
    BY <1>3, <1>7, <2>1 DEF Nested
  <2>4. QED
    BY <1>2, <1>3, <1>7, <2>2, <2>3, Goes
<1>8. CASE ~goes
  <2>1. Exhausted(d, frames'[f])
    <3> HIDE DEF d
    <3>1. o = "ok" => frames'[f].ans = "ok"
      BY <1>3, <1>8
    <3>2. frames'[f].ans = "error" => o # "ok" /\ ~configured
      BY <1>3, <1>8
    <3>3. CASE way = "direct"
      <4>1. frames'[f].ans = "error" => RagWays(d) = <<"direct">>
        BY <1>4, <3>2, <3>3, WaysFacts DEF d
      <4>2. QED
        BY <1>4, <3>1, <3>3, <4>1, OneTried
    <3>4. CASE way = "spawn"
      <4>1. frames'[f].ans = "error" => McpWays(d) = <<"spawn">>
        BY <1>4, <3>2, <3>4, WaysFacts DEF d
      <4>2. QED
        BY <1>4, <3>1, <3>4, <4>1, OneTried
    <3>5. CASE way = "shim"
      <4>1. CASE d.direct
        <5>1. RagWays(d) = <<"direct", "shim">>
          BY <1>5, <3>5, <4>1, WaysFacts
        <5>2. QED
          BY <1>5, <3>1, <3>5, <4>1, <5>1, TwoTried
      <4>2. CASE ~d.direct
        <5>1. RagWays(d) = <<"shim">>
          BY <1>5, <3>5, <4>2, WaysFacts
        <5>2. QED
          BY <1>5, <3>1, <3>5, <4>2, <5>1, OneTried
      <4>3. QED
        BY <4>1, <4>2
    <3>6. CASE way = "station"
      <4>1. CASE d.spawn
        <5>1. McpWays(d) = <<"spawn", "station">>
          BY <1>6, <3>6, <4>1, WaysFacts
        <5>2. QED
          BY <1>6, <3>1, <3>6, <4>1, <5>1, TwoTried
      <4>2. CASE ~d.spawn
        <5>1. McpWays(d) = <<"station">>
          BY <1>6, <3>6, <4>2, WaysFacts
        <5>2. QED
          BY <1>6, <3>1, <3>6, <4>2, <5>1, OneTried
      <4>3. QED
        BY <4>1, <4>2
    <3>7. QED
      BY <3>3, <3>4, <3>5, <3>6
  <2>2. Told(workflow, frames'[f])
    BY <1>2, <1>3, <1>8, <2>1 DEF Told, Def, One
  <2>3. frames'[f].phase = "ended" /\ frames'[f].ans # "refused"
    BY <1>3, <1>8
  <2>4. QED
    BY <1>2, <1>3, <2>2, <2>3, NoKids, Ends
<1>9. QED
  BY <1>7, <1>8

-----------------------------------------------------------------------------
(* The steps of the calls that nest. *)

LEMMA FrameIs ==
  ASSUME NEW t, NEW p, NEW k
  PROVE  /\ DOMAIN Frame(t, p, k) = Fields /\ Frame(t, p, k).parent = p
         /\ Frame(t, p, k).task = k /\ Frame(t, p, k).phase = "entered"
         /\ Frame(t, p, k).ans = "none" /\ Frame(t, p, k).tried = <<>>
         /\ Frame(t, p, k).saved = 0
BY DEF Frame, Fields

\* Calls that begin below p.
Fresh(new, p) == \A i \in DOMAIN new : \E t, k : new[i] = Frame(t, p, k)

\* Such calls put behind those there are.
Longer(all, base, new, p) ==
  /\ Sequence(all) /\ Len(all) = Len(base) + Len(new)
  /\ Len(base) \in Nat /\ Len(new) \in Nat
  /\ DOMAIN base = 1..Len(base) /\ DOMAIN new = 1..Len(new)
  /\ DOMAIN all = 1..(Len(base) + Len(new))
  /\ \A g \in DOMAIN base : all[g] = base[g]
  /\ \A g \in DOMAIN all \ DOMAIN base :
       /\ g - Len(base) \in 1..Len(new) /\ all[g].task = new[g - Len(base)].task
       /\ DOMAIN all[g] = Fields /\ all[g].parent = p /\ all[g].phase = "entered"
       /\ all[g].ans = "none" /\ all[g].tried = <<>> /\ all[g].saved = 0

LEMMA Appended ==
  ASSUME NEW p, NEW base, NEW new, Sequence(base), Sequence(new), Fresh(new, p),
         NEW all, all = base \o new
  PROVE  Longer(all, base, new, p)
<1>1. /\ Len(base) \in Nat /\ DOMAIN base = 1..Len(base)
      /\ Len(new) \in Nat /\ DOMAIN new = 1..Len(new)
  BY SequenceFacts
<1>2. Sequence(all) /\ Len(all) = Len(base) + Len(new)
  BY Joined
<1>3. DOMAIN all = 1..(Len(base) + Len(new))
  BY <1>2, SequenceFacts
<1>4. base \in Seq(ToSet(base) \cup ToSet(new)) /\ new \in Seq(ToSet(base) \cup ToSet(new))
  <2>1. base \in Seq(ToSet(base)) /\ new \in Seq(ToSet(new))
    BY DEF Sequence
  <2>2. /\ ToSet(base) \subseteq (ToSet(base) \cup ToSet(new))
        /\ ToSet(new) \subseteq (ToSet(base) \cup ToSet(new))
    OBVIOUS
  <2>3. \A S, T : S \subseteq T => Seq(S) \subseteq Seq(T)
    OBVIOUS
  <2>4. QED
    BY <2>1, <2>2, <2>3, Zenon
<1>5. \A i \in 1..Len(base) + Len(new) :
        all[i] = IF i <= Len(base) THEN base[i] ELSE new[i - Len(base)]
  BY <1>4, ConcatProperties
<1>6. \A i \in 1..Len(new) :
        /\ DOMAIN new[i] = Fields /\ new[i].parent = p /\ new[i].phase = "entered"
        /\ new[i].ans = "none" /\ new[i].tried = <<>> /\ new[i].saved = 0
  <2>1. TAKE i \in 1..Len(new)
  <2>2. PICK t, k : new[i] = Frame(t, p, k)
    BY <1>1 DEF Fresh
  <2>3. /\ DOMAIN Frame(t, p, k) = Fields /\ Frame(t, p, k).parent = p
        /\ Frame(t, p, k).phase = "entered" /\ Frame(t, p, k).ans = "none"
        /\ Frame(t, p, k).tried = <<>> /\ Frame(t, p, k).saved = 0
    BY FrameIs
  <2>4. QED
    BY <2>2, <2>3
<1>7. \A g \in DOMAIN all \ DOMAIN base :
        g - Len(base) \in 1..Len(new) /\ all[g] = new[g - Len(base)]
  BY <1>1, <1>3, <1>5
<1>8. \A g \in DOMAIN base : all[g] = base[g]
  BY <1>1, <1>3, <1>5
<1>9. ASSUME NEW g \in DOMAIN all \ DOMAIN base
      PROVE  /\ g - Len(base) \in 1..Len(new) /\ all[g].task = new[g - Len(base)].task
             /\ DOMAIN all[g] = Fields /\ all[g].parent = p /\ all[g].phase = "entered"
             /\ all[g].ans = "none" /\ all[g].tried = <<>> /\ all[g].saved = 0
  <2>1. PICK i \in 1..Len(new) : i = g - Len(base) /\ all[g] = new[i]
    BY <1>7
  <2>2. QED
    BY <1>6, <2>1
<1>10. QED
  BY <1>1, <1>2, <1>3, <1>8, <1>9 DEF Longer

\* A call that a pipeline or a canvas makes, or the tool stage (p is 0), or several:
\* the calls there are, with p changed, but not its place, and the new ones behind them.
Adding(p, base, new) ==
  /\ frames' = base \o new /\ workflow' = workflow /\ Sequence(new) /\ Fresh(new, p)
  /\ DOMAIN base = Frames /\ base = [g \in Frames |-> base[g]]
  /\ \A g \in Frames : g # p => base[g] = frames[g]
  /\ p \in Frames =>
       /\ DOMAIN base[p] = Fields /\ base[p].tool = frames[p].tool
       /\ base[p].parent = frames[p].parent /\ base[p].task = frames[p].task
       /\ base[p].saved = frames[p].saved /\ base[p].phase = frames[p].phase
       /\ base[p].ans = frames[p].ans /\ base[p].tried = frames[p].tried
  /\ IF p = 0 THEN \A g \in Frames : ~Open(g)
     ELSE p \in Frames /\ Nested(p) /\ \A g \in Frames : frames[g].parent = p => ~Open(g)
  /\ \/ /\ Len(new) = 1 /\ depth' = depth
        /\ new[1].task = IF p = 0 THEN 1 ELSE frames[p].task
     \/ /\ p # 0 /\ depth' \in Seq(Nat) /\ Len(depth') = Len(depth) + Len(new)
        /\ \A t \in Tasks : depth'[t] = depth[t]
        /\ \A i \in DOMAIN new : /\ new[i].task = Len(depth) + i
                                 /\ depth'[Len(depth) + i] = depth[frames[p].task]

LEMMA Adds ==
  ASSUME IInv, NEW p, NEW base, NEW new, Adding(p, base, new)
  PROVE  IInv'
<1>0. TypeInv /\ PlaceInv /\ NestInv /\ Sequence(frames)
  BY DEF IInv, TypeInv, PlaceInv
<1>1. Sequence(base) /\ Len(base) = Len(frames) /\ Frames = DOMAIN base
  BY <1>0, SameSequence DEF Frames, Adding
<1>2. Longer(frames', base, new, p) /\ Len(base) = Len(frames) /\ Frames = DOMAIN base
  BY <1>1, Appended DEF Adding
<1>3. /\ Sequence(frames') /\ Len(frames') = Len(frames) + Len(new)
      /\ Len(frames) \in Nat /\ Len(new) \in Nat /\ Len(frames') \in Nat
      /\ Frames = 1..Len(frames) /\ Frames' = 1..Len(frames') /\ DOMAIN new = 1..Len(new)
      /\ \A g \in Frames : g \in Frames' /\ frames'[g] = base[g]
  BY <1>2 DEF Longer, Frames
<1>5. \A g \in Frames' \ Frames :
        /\ frames'[g].parent = p /\ frames'[g].phase = "entered" /\ frames'[g].ans = "none"
        /\ frames'[g].tried = <<>> /\ frames'[g].saved = 0 /\ DOMAIN frames'[g] = Fields
        /\ g - Len(frames) \in 1..Len(new) /\ frames'[g].task = new[g - Len(frames)].task
  BY <1>2 DEF Longer, Frames
<1>6. \A g \in Frames :
        /\ DOMAIN frames'[g] = Fields /\ frames'[g].tool = frames[g].tool
        /\ frames'[g].parent = frames[g].parent /\ frames'[g].task = frames[g].task
        /\ frames'[g].saved = frames[g].saved /\ frames'[g].phase = frames[g].phase
        /\ frames'[g].ans = frames[g].ans /\ frames'[g].tried = frames[g].tried
  BY <1>0, <1>3, FrameFacts DEF Adding
<1>7. depth \in Seq(Nat) /\ Tasks = 1..Len(depth) /\ Len(depth) \in Nat /\ 1 \in Tasks
      /\ depth' \in Seq(Nat) /\ Tasks' = 1..Len(depth') /\ Len(depth') \in Nat
      /\ Tasks \subseteq Tasks'
  BY <1>0, <1>3 DEF PlaceInv, Tasks, Adding
<1>8. \A g \in Frames' : frames'[g].task \in Tasks'
  <2>1. TAKE g \in Frames'
  <2>2. CASE g \in Frames
    BY <1>0, <1>6, <1>7, <2>2 DEF PlaceInv
  <2>3. CASE g \notin Frames
    <3>1. frames'[g].task = new[g - Len(frames)].task /\ g - Len(frames) \in 1..Len(new)
      BY <1>5, <2>3
    <3>2. CASE Len(new) = 1 /\ depth' = depth
               /\ new[1].task = IF p = 0 THEN 1 ELSE frames[p].task
      <4>1. g - Len(frames) = 1
        BY <3>1, <3>2
      <4>2. QED
        <5>1. p # 0 => p \in Frames
          BY DEF Adding
        <5>2. frames'[g].task = IF p = 0 THEN 1 ELSE frames[p].task
          BY <3>1, <3>2, <4>1
        <5>3. QED
          BY <1>0, <1>7, <5>1, <5>2 DEF PlaceInv
    <3>3. CASE Len(depth') = Len(depth) + Len(new)
               /\ \A i \in DOMAIN new : new[i].task = Len(depth) + i
      <4>1. PICK i \in 1..Len(new) : i = g - Len(frames)
        BY <3>1
      <4>2. frames'[g].task = Len(depth) + i
        BY <1>3, <3>1, <3>3, <4>1
      <4>3. Len(depth) + i \in 1..Len(depth')
        BY <1>3, <1>7, <3>3
      <4>4. QED
        BY <1>7, <4>2, <4>3
    <3>4. QED
      BY <3>2, <3>3 DEF Adding
  <2>4. QED
    BY <2>2, <2>3
<1>9. PlaceInv'
  BY <1>3, <1>7, <1>8 DEF PlaceInv
<1>10. TypeInv'
  <2>1. ASSUME NEW g \in Frames'
        PROVE  DOMAIN frames'[g] = Fields /\ frames'[g].saved \in Nat
               /\ Told(workflow, frames'[g])
    <3>1. CASE g \in Frames
      <4>1. Told(workflow, frames[g])
        BY <1>0, <3>1, FrameFacts
      <4>2. Told(workflow, frames'[g])
        BY <1>6, <3>1, <4>1, ToldSame
      <4>3. QED
        BY <1>0, <1>6, <3>1, <4>2, FrameFacts
    <3>2. CASE g \notin Frames
      BY <1>5, <3>2 DEF Told
    <3>3. QED
      BY <3>1, <3>2
  <2>2. workflow' \in Workflows /\ workflow' = workflow
    BY <1>0 DEF TypeInv, Adding
  <2>3. QED
    BY <1>9, <2>1, <2>2 DEF TypeInv
<1>11. NestInv'
  <2>1. Kept
    BY <1>3, <1>6 DEF Kept
  <2>2. \A g \in Frames :
          /\ (Open(g)' <=> Open(g)) /\ (Nested(g)' <=> Nested(g))
          /\ frames'[g].saved = frames[g].saved /\ frames'[g].ans = frames[g].ans
    BY <1>6 DEF Open, Nested
  <2>3. \A g \in Frames' \ Frames :
          /\ frames'[g].parent = p /\ Open(g)' /\ ~Nested(g)' /\ frames'[g].ans # "refused"
    BY <1>5 DEF Open, Nested
  <2>4. \/ /\ Len(frames') = Len(frames) + 1 /\ depth' = depth
           /\ frames'[Len(frames')].task = IF p = 0 THEN 1 ELSE frames[p].task
        \/ /\ p # 0
           /\ \A t \in Tasks : t \in Tasks' /\ depth'[t] = depth[t]
           /\ \A g, h \in Frames' \ Frames : g # h => frames'[g].task # frames'[h].task
           /\ \A g \in Frames' \ Frames :
                frames'[g].task \notin Tasks /\ depth'[frames'[g].task] = depth[frames[p].task]
    <3>1. CASE Len(new) = 1 /\ depth' = depth
               /\ new[1].task = IF p = 0 THEN 1 ELSE frames[p].task
      <4>1. Len(frames') \in Frames' \ Frames /\ Len(frames') - Len(frames) = 1
        BY <1>3, <3>1
      <4>2. QED
        BY <1>3, <1>5, <3>1, <4>1
    <3>2. CASE /\ p # 0
               /\ \A t \in Tasks : depth'[t] = depth[t]
               /\ \A i \in DOMAIN new : /\ new[i].task = Len(depth) + i
                                        /\ depth'[Len(depth) + i] = depth[frames[p].task]
      <4>1. \A g \in Frames' \ Frames :
              /\ g - Len(frames) \in 1..Len(new)
              /\ frames'[g].task = Len(depth) + (g - Len(frames))
              /\ depth'[frames'[g].task] = depth[frames[p].task]
        <5>1. TAKE g \in Frames' \ Frames
        <5>2. PICK i \in DOMAIN new : i = g - Len(frames) /\ frames'[g].task = new[i].task
          BY <1>3, <1>5
        <5>3. new[i].task = Len(depth) + i /\ depth'[Len(depth) + i] = depth[frames[p].task]
          BY <3>2, Zenon
        <5>4. QED
          BY <1>3, <5>2, <5>3
      <4>2. QED
        <5>1. \A t \in Tasks : t \in Tasks' /\ depth'[t] = depth[t]
          BY <1>7, <3>2
        <5>2. ASSUME NEW g \in Frames' \ Frames, NEW h \in Frames' \ Frames, g # h
              PROVE  frames'[g].task # frames'[h].task
          <6>1. g \in Nat /\ h \in Nat
            BY <1>3
          <6>2. /\ frames'[g].task = Len(depth) + (g - Len(frames))
                /\ frames'[h].task = Len(depth) + (h - Len(frames))
            BY <4>1
          <6>3. QED
            BY <1>3, <1>7, <5>2, <6>1, <6>2
        <5>3. ASSUME NEW g \in Frames' \ Frames PROVE frames'[g].task \notin Tasks
          <6>1. PICK i \in 1..Len(new) : frames'[g].task = Len(depth) + i
            BY <4>1
          <6>2. QED
            BY <1>7, <6>1
        <5>4. QED
          BY <3>2, <4>1, <5>1, <5>2, <5>3
    <3>3. QED
      BY <3>1, <3>2 DEF Adding
  <2>5. IF p = 0 THEN \A g \in Frames : ~Open(g)
        ELSE p \in Frames /\ Nested(p) /\ \A g \in Frames : frames[g].parent = p => ~Open(g)
    BY DEF Adding
  <2>6. QED
    BY <1>0, <1>9, <2>1, <2>2, <2>3, <2>4, <2>5, AddNest
<1>12. QED
  BY <1>10, <1>11 DEF IInv

-----------------------------------------------------------------------------
(* The steps of pipelines and canvases. *)

LEMMA Enters ==
  ASSUME IInv, NEW f \in Frames, Enter(f)
  PROVE  IInv'
<1>1. TypeInv /\ NestInv /\ PlaceInv
  BY DEF IInv, TypeInv
<1>2. /\ frames[f].phase = "entered" /\ frames[f].tool \in DOMAIN workflow.defs
      /\ Def(f).given /\ Def(f).kind \in {"subpipeline", "canvas"}
      /\ frames[f].tried = <<>> /\ frames[f].ans = "none"
  BY <1>1, FrameFacts DEF Enter, Nesting, Kind, Told
<1> DEFINE t == frames[f].task
<1>3. t \in Tasks /\ depth \in Seq(Nat) /\ Tasks = 1..Len(depth) /\ depth[t] \in Nat
  BY <1>1 DEF PlaceInv, Tasks
<1>4. /\ One(f) /\ frames'[f].phase = (IF Def(f).kind = "canvas" THEN "sweep" ELSE "turn")
      /\ frames'[f].saved = depth[t] /\ frames'[f].ans = frames[f].ans
      /\ frames'[f].tried = frames[f].tried /\ workflow' = workflow
      /\ depth' = [depth EXCEPT ![t] = depth[t] + 1]
  BY <1>1, FrameFacts DEF Enter, One, Fields
<1>5. depth' \in Seq(Nat) /\ Len(depth') = Len(depth)
  BY <1>3, <1>4
<1>6. Told(workflow, frames'[f])
  BY <1>2, <1>4 DEF Told, One, Def
<1>7. TypeInv'
  BY <1>1, <1>3, <1>4, <1>5, <1>6, OneType
<1>8. PlaceInv' /\ Kept /\ Len(frames') = Len(frames)
  BY <1>1, <1>4, <1>7, OneFacts DEF TypeInv
<1>9. Open(f)' /\ Nested(f)'
  BY <1>4 DEF Open, Nested
<1>10. \A g \in Frames \ {f} : frames'[g] = frames[g]
  BY <1>4 DEF One
<1>11. NestInv'
  BY <1>1, <1>4, <1>8, <1>9, <1>10, EnterNest
<1>12. QED
  BY <1>7, <1>11 DEF IInv

LEMMA PipelineSteps ==
  ASSUME IInv, NEW f \in Frames, PipelineEnds(f)
  PROVE  IInv'
<1>1. TypeInv
  BY DEF IInv
<1>2. PICK a \in {"ok", "error"} : Leave(f, a)
  BY DEF PipelineEnds
<1>3. /\ frames[f].phase = "turn" /\ Open(f) /\ Nested(f) /\ Def(f).kind = "subpipeline"
      /\ frames[f].tried = <<>>
      /\ \A g \in Frames : frames[g].parent = f => ~Open(g)
  BY <1>1, FrameFacts DEF PipelineEnds, Idle, Kids, Nested, Told, Def
<1>4. /\ One(f) /\ frames'[f].phase = "ended" /\ frames'[f].ans = a
      /\ frames'[f].saved = frames[f].saved /\ frames'[f].tried = frames[f].tried
      /\ depth' = [depth EXCEPT ![frames[f].task] = frames[f].saved]
  BY <1>1, <1>2, FrameFacts DEF Leave, Ended, One, Fields
<1>5. Told(workflow, frames'[f])
  <2>1. Exhausted(Def(f), frames'[f])
    BY <1>3, <1>4 DEF Exhausted
  <2>2. QED
    BY <1>4, <2>1 DEF Told, One, Def
<1>6. QED
  BY <1>3, <1>4, <1>5, Ends

LEMMA CanvasOver ==
  ASSUME IInv, NEW f \in Frames, CanvasEnds(f)
  PROVE  IInv'
<1>1. TypeInv
  BY DEF IInv
<1>2. /\ frames[f].phase = "sweep" /\ Open(f) /\ Nested(f) /\ Def(f).kind = "canvas"
      /\ frames[f].tried = <<>>
      /\ \A g \in Frames : frames[g].parent = f => ~Open(g)
  BY <1>1, FrameFacts DEF CanvasEnds, Sweeping, Idle, Kids, Nested, Told, Def
<1>3. PICK result : frames' = [frames EXCEPT ![f].phase = "ended", ![f].ans = "ok", ![f].in = result]
  BY DEF CanvasEnds
<1>4. /\ One(f) /\ frames'[f].phase = "ended" /\ frames'[f].ans = "ok"
      /\ frames'[f].saved = frames[f].saved /\ frames'[f].tried = frames[f].tried
      /\ depth' = [depth EXCEPT ![frames[f].task] = frames[f].saved]
  <2>1. workflow' = workflow /\ depth' = [depth EXCEPT ![frames[f].task] = frames[f].saved]
    BY DEF CanvasEnds
  <2>2. QED
    BY <1>1, <1>3, <2>1, FrameFacts DEF One, Fields
<1>5. Told(workflow, frames'[f])
  <2>1. Exhausted(Def(f), frames'[f])
    BY <1>2, <1>4 DEF Exhausted
  <2>2. QED
    BY <1>4, <2>1 DEF Told, One, Def
<1>6. QED
  BY <1>2, <1>4, <1>5, Ends

\* A step of a sweep that changes what the canvas knows, and nothing above.
LEMMA Sweeps ==
  ASSUME IInv, NEW f \in Frames, frames[f].phase = "sweep", One(f), depth' = depth,
         frames'[f].phase = frames[f].phase, frames'[f].saved = frames[f].saved,
         frames'[f].ans = frames[f].ans, frames'[f].tried = frames[f].tried
  PROVE  IInv'
<1>1. Told(workflow, frames[f])
  BY FrameFacts DEF IInv
<1>2. Told(workflow, frames'[f])
  BY <1>1 DEF Told, One
<1>3. Open(f) /\ Nested(f) /\ Nested(f)'
  BY DEF Open, Nested
<1>4. QED
  BY <1>2, <1>3, Goes

LEMMA SweepSteps ==
  ASSUME IInv, NEW f \in Frames, BeginNode(f) \/ NodeEnds(f) \/ NextSweep(f)
  PROVE  IInv'
<1>1. TypeInv
  BY DEF IInv
<1>2. CASE BeginNode(f)
  <2>1. frames[f].phase = "sweep" /\ depth' = depth /\ workflow' = workflow
    BY <1>2 DEF BeginNode, Sweeping
  <2>2. PICK a, n, k, v :
          frames' = [frames EXCEPT ![f].at = a, ![f].node = n, ![f].left = k, ![f].in = v]
    <3> DEFINE i == Min(Reachable(f))
               n == Def(f).nodes[i]
               v == Input(Def(f), n, frames[f].out)
    <3>1. PICK k : frames' = [frames EXCEPT ![f].at = i + 1, ![f].node = n, ![f].left = k,
                                            ![f].in = v]
      BY <1>2, Zenon DEF BeginNode
    <3> HIDE DEF i, n, v
    <3>2. QED
      BY <3>1
  <2>3. /\ One(f) /\ frames'[f].phase = frames[f].phase /\ frames'[f].saved = frames[f].saved
        /\ frames'[f].ans = frames[f].ans /\ frames'[f].tried = frames[f].tried
    BY <1>1, <2>1, <2>2, FrameFacts DEF One, Fields
  <2>4. QED
    BY <2>1, <2>3, Sweeps
<1>3. CASE NodeEnds(f)
  <2>1. frames[f].phase = "sweep" /\ depth' = depth /\ workflow' = workflow
    BY <1>3 DEF NodeEnds
  <2>2. PICK r, m, n, v :
          frames' = [frames EXCEPT ![f].ran = r, ![f].moved = m, ![f].node = n, ![f].out = v]
    <3>1. PICK v : frames' = [frames EXCEPT ![f].ran = Append(@, frames[f].node), ![f].moved = TRUE,
                                ![f].node = NoNode, ![f].out = (frames[f].node :> v) @@ @]
      BY <1>3 DEF NodeEnds
    <3>2. frames' = [frames EXCEPT ![f].ran = Append(frames[f].ran, frames[f].node), ![f].moved = TRUE,
                                ![f].node = NoNode, ![f].out = (frames[f].node :> v) @@ frames[f].out]
      BY <1>1, <3>1, FrameFacts DEF Fields
    <3>3. QED
      BY <3>2
  <2>3. /\ One(f) /\ frames'[f].phase = frames[f].phase /\ frames'[f].saved = frames[f].saved
        /\ frames'[f].ans = frames[f].ans /\ frames'[f].tried = frames[f].tried
    BY <1>1, <2>1, <2>2, FrameFacts DEF One, Fields
  <2>4. QED
    BY <2>1, <2>3, Sweeps
<1>4. CASE NextSweep(f)
  <2>1. /\ frames[f].phase = "sweep" /\ depth' = depth /\ workflow' = workflow
        /\ frames' = [frames EXCEPT ![f].at = 1, ![f].moved = FALSE]
    BY <1>4 DEF NextSweep, Sweeping
  <2>2. /\ One(f) /\ frames'[f].phase = frames[f].phase /\ frames'[f].saved = frames[f].saved
        /\ frames'[f].ans = frames[f].ans /\ frames'[f].tried = frames[f].tried
    BY <1>1, <2>1, FrameFacts DEF One, Fields
  <2>3. QED
    BY <2>1, <2>2, Sweeps
<1>5. QED
  BY <1>2, <1>3, <1>4

LEMMA PutLast ==
  ASSUME NEW s, Sequence(s), NEW x
  PROVE  Append(s, x) = s \o <<x>> /\ Sequence(<<x>>) /\ Len(<<x>>) = 1 /\ <<x>>[1] = x
<1>1. s \in Seq(ToSet(s) \cup {x}) /\ x \in ToSet(s) \cup {x}
  <2>1. s \in Seq(ToSet(s)) /\ ToSet(s) \subseteq (ToSet(s) \cup {x})
    BY DEF Sequence
  <2>2. \A S, T : S \subseteq T => Seq(S) \subseteq Seq(T)
    OBVIOUS
  <2>3. QED
    BY <2>1, <2>2, Zenon
<1>2. Append(s, x) = s \o <<x>>
  BY <1>1, AppendIsConcat
<1>3. <<x>> \in Seq({x})
  OBVIOUS
<1>4. QED
  BY <1>2, <1>3, IsSequence

\* A call made in the task of the call it is made from.
LEMMA OneAdded ==
  ASSUME IInv, NEW p, NEW base, NEW tool, NEW task, frames' = Append(base, Frame(tool, p, task)),
         workflow' = workflow, depth' = depth,
         DOMAIN base = Frames, base = [g \in Frames |-> base[g]],
         \A g \in Frames : g # p => base[g] = frames[g],
         p \in Frames =>
           /\ DOMAIN base[p] = Fields /\ base[p].tool = frames[p].tool
           /\ base[p].parent = frames[p].parent /\ base[p].task = frames[p].task
           /\ base[p].saved = frames[p].saved /\ base[p].phase = frames[p].phase
           /\ base[p].ans = frames[p].ans /\ base[p].tried = frames[p].tried,
         IF p = 0 THEN \A g \in Frames : ~Open(g)
         ELSE p \in Frames /\ Nested(p) /\ \A g \in Frames : frames[g].parent = p => ~Open(g),
         task = IF p = 0 THEN 1 ELSE frames[p].task
  PROVE  IInv'
<1>1. Sequence(base)
  BY SameSequence DEF IInv, TypeInv, PlaceInv, Frames
<1> DEFINE new == <<Frame(tool, p, task)>>
<1>2. frames' = base \o new /\ Sequence(new) /\ Len(new) = 1 /\ new[1] = Frame(tool, p, task)
  BY <1>1, PutLast
<1>3. Fresh(new, p) /\ new[1].task = task
  BY <1>2, FrameIs DEF Fresh
<1> HIDE DEF new
<1>4. Adding(p, base, new)
  BY <1>2, <1>3 DEF Adding
<1>5. QED
  BY <1>4, Adds

LEMMA RootCalls ==
  ASSUME IInv, RootCall
  PROVE  IInv'
<1>1. TypeInv
  BY DEF IInv
<1>2. PICK t \in workflow.roots : frames' = Append(frames, Frame(t, 0, 1))
  BY DEF RootCall
<1>3. depth' = depth /\ workflow' = workflow /\ \A g \in Frames : ~Open(g)
  BY DEF RootCall
<1>4. DOMAIN frames = Frames /\ frames = [g \in Frames |-> frames[g]] /\ 0 \notin Frames
  BY <1>1, SequenceFacts DEF TypeInv, PlaceInv, Frames
<1>5. QED
  BY <1>2, <1>3, <1>4, OneAdded

LEMMA CallsBelow ==
  ASSUME IInv, NEW f \in Frames, OneTool(f) \/ NodeCalls(f)
  PROVE  IInv'
<1>1. TypeInv
  BY DEF IInv
<1>2. /\ Nested(f) /\ \A g \in Frames : frames[g].parent = f => ~Open(g)
      /\ depth' = depth /\ workflow' = workflow
  BY DEF OneTool, NodeCalls, Idle, Kids, Nested
<1>3. PICK base, t : /\ frames' = Append(base, Frame(t, f, frames[f].task))
                     /\ \/ base = [frames EXCEPT ![f].turns = @ + 1]
                        \/ base = [frames EXCEPT ![f].left = @ - 1]
  BY DEF OneTool, NodeCalls
<1>4. /\ DOMAIN base = Frames /\ base = [g \in Frames |-> base[g]]
      /\ \A g \in Frames : g # f => base[g] = frames[g]
      /\ DOMAIN base[f] = Fields /\ base[f].tool = frames[f].tool
      /\ base[f].parent = frames[f].parent /\ base[f].task = frames[f].task
      /\ base[f].saved = frames[f].saved /\ base[f].phase = frames[f].phase
      /\ base[f].ans = frames[f].ans /\ base[f].tried = frames[f].tried
      /\ f # 0
  <2>1. /\ f # 0 /\ DOMAIN frames = Frames /\ DOMAIN frames[f] = Fields
        /\ frames = [g \in Frames |-> frames[g]]
    BY <1>1, FrameFacts
  <2>2. CASE base = [frames EXCEPT ![f].turns = @ + 1]
    BY <2>1, <2>2 DEF Fields
  <2>3. CASE base = [frames EXCEPT ![f].left = @ - 1]
    BY <2>1, <2>3 DEF Fields
  <2>4. QED
    BY <1>3, <2>2, <2>3
<1>5. /\ frames[f].task = IF f = 0 THEN 1 ELSE frames[f].task
      /\ IF f = 0 THEN \A g \in Frames : ~Open(g)
         ELSE f \in Frames /\ Nested(f) /\ \A g \in Frames : frames[g].parent = f => ~Open(g)
  BY <1>2, <1>4, Zenon
<1>6. QED
  BY <1>2, <1>3, <1>4, <1>5, OneAdded, Zenon

LEMMA InOrder ==
  ASSUME NEW S, IsFiniteSet(S)
  PROVE  SetToSeq(S) \in [1..Cardinality(S) -> S] /\ Cardinality(S) \in Nat
<1>1. Cardinality(S) \in Nat /\ ExistsBijection(1..Cardinality(S), S)
  BY FS_CardinalityType
<1>2. PICK order : order \in Bijection(1..Cardinality(S), S)
  BY <1>1 DEF ExistsBijection
<1>3. /\ order \in [1..Cardinality(S) -> S]
      /\ \A a, b \in DOMAIN order : order[a] = order[b] => a = b
  BY <1>2 DEF Bijection, Injection, IsInjective
<1>4. \E f \in [1..Cardinality(S) -> S] : IsInjective(f)
  BY <1>3 DEF IsInjective
<1>5. QED
  BY <1>1, <1>4, Zenon DEF SetToSeq

\* Calls made together, each in a task that copies the counter.
LEMMA Gathers ==
  ASSUME IInv, NEW f \in Frames, Gather(f)
  PROVE  IInv'
<1>1. TypeInv /\ PlaceInv
  BY DEF IInv, TypeInv
<1>2. /\ Nested(f) /\ (\A g \in Frames : frames[g].parent = f => ~Open(g))
      /\ workflow' = workflow /\ frames[f].tool \in DOMAIN workflow.defs
      /\ Def(f).kind = "subpipeline" /\ Def(f).given
  BY <1>1, FrameFacts DEF Gather, Idle, Kids, Nested, Told, Def
<1> DEFINE t == frames[f].task
<1>3. PICK ts \in SUBSET Def(f).tools :
        LET order == SetToSeq(ts)
            new == [i \in DOMAIN order |-> Frame(order[i], f, Len(depth) + i)]
        IN /\ frames' = [frames EXCEPT ![f].turns = @ + 1] \o new
           /\ depth' = depth \o [i \in DOMAIN order |-> depth[t]]
  BY DEF Gather
<1>4. IsFiniteSet(ts)
  <2>1. IsFiniteSet(Def(f).tools)
    BY <1>1, <1>2, FrozenAssumption DEF Def, TypeInv
  <2>2. QED
    BY <2>1, FS_Subset
<1> DEFINE order == SetToSeq(ts)
           n == Cardinality(ts)
           new == [i \in 1..n |-> Frame(order[i], f, Len(depth) + i)]
           copies == [i \in 1..n |-> depth[t]]
           base == [frames EXCEPT ![f].turns = @ + 1]
<1>5. n \in Nat /\ DOMAIN order = 1..n
  BY <1>4, InOrder
<1>6. frames' = base \o new /\ depth' = depth \o copies
  BY <1>3, <1>5, Zenon
<1> HIDE DEF order, n
<1>7. DOMAIN new = 1..n /\ \A i \in 1..n : new[i] = Frame(order[i], f, Len(depth) + i)
  OBVIOUS
<1>8. Sequence(new) /\ Len(new) = n
  <2>1. \A i \in 1..n : new[i] \in ToSet(new)
    BY <1>7 DEF ToSet
  <2>2. new = [i \in 1..n |-> new[i]]
    BY <1>7, Zenon
  <2> HIDE DEF new
  <2>3. new \in Seq(ToSet(new)) /\ Len(new) = n
    BY <1>5, <1>7, <2>1, <2>2, SeqDef
  <2>4. QED
    BY <2>3 DEF Sequence
<1>9. Fresh(new, f) /\ \A i \in DOMAIN new : new[i].task = Len(depth) + i
  <2> HIDE DEF new
  <2>1. ASSUME NEW i \in DOMAIN new
        PROVE  (\E a, k : new[i] = Frame(a, f, k)) /\ new[i].task = Len(depth) + i
    <3>1. new[i] = Frame(order[i], f, Len(depth) + i)
      BY <1>7, <2>1
    <3>2. Frame(order[i], f, Len(depth) + i).task = Len(depth) + i
      BY FrameIs
    <3>3. QED
      BY <3>1, <3>2
  <2>2. QED
    BY <2>1 DEF Fresh
<1>10. t \in Tasks /\ depth \in Seq(Nat) /\ Tasks = 1..Len(depth) /\ depth[t] \in Nat
  BY <1>1 DEF PlaceInv, Tasks
<1>11. copies \in Seq(Nat) /\ Len(copies) = n /\ \A i \in 1..n : copies[i] = depth[t]
  <2>1. copies \in [1..n -> Nat]
    BY <1>10
  <2>2. QED
    BY <1>5, <2>1
<1> HIDE DEF new, copies
<1>12. /\ depth' \in Seq(Nat) /\ Len(depth') = Len(depth) + Len(new)
       /\ \A k \in Tasks : depth'[k] = depth[k]
       /\ \A i \in 1..n : depth'[Len(depth) + i] = depth[t]
  <2>1. /\ depth \o copies \in Seq(Nat) /\ Len(depth \o copies) = Len(depth) + n
        /\ \A i \in 1..(Len(depth) + n) :
             (depth \o copies)[i] = IF i <= Len(depth) THEN depth[i] ELSE copies[i - Len(depth)]
    BY <1>10, <1>11, ConcatProperties
  <2>2. \A k \in Tasks : depth'[k] = depth[k]
    BY <1>5, <1>6, <1>10, <2>1
  <2>3. ASSUME NEW i \in 1..n PROVE depth'[Len(depth) + i] = depth[t]
    <3>1. Len(depth) + i \in 1..(Len(depth) + n) /\ ~(Len(depth) + i <= Len(depth))
          /\ (Len(depth) + i) - Len(depth) = i
      BY <1>5, <1>10
    <3>2. QED
      BY <1>6, <1>11, <2>1, <3>1
  <2>4. QED
    BY <1>6, <1>8, <2>1, <2>2, <2>3
<1>13. /\ DOMAIN base = Frames /\ base = [g \in Frames |-> base[g]]
       /\ \A g \in Frames : g # f => base[g] = frames[g]
       /\ DOMAIN base[f] = Fields /\ base[f].tool = frames[f].tool
       /\ base[f].parent = frames[f].parent /\ base[f].task = frames[f].task
       /\ base[f].saved = frames[f].saved /\ base[f].phase = frames[f].phase
       /\ base[f].ans = frames[f].ans /\ base[f].tried = frames[f].tried
       /\ f # 0
  BY <1>1, FrameFacts DEF Fields
<1> HIDE DEF base
<1>14. Adding(f, base, new)
  BY <1>2, <1>6, <1>7, <1>8, <1>9, <1>12, <1>13 DEF Adding
<1>15. QED
  BY <1>14, Adds

\* A call is cancelled with all below it.
LEMMA Timeouts ==
  ASSUME IInv, NEW f \in Frames, Timeout(f)
  PROVE  IInv'
<1>1. TypeInv /\ PlaceInv /\ NestInv /\ TreeInv /\ ChainInv /\ LevelInv
  BY DEF IInv, TypeInv, NestInv
<1> DEFINE gone == {g \in Frames : Open(g) /\ f \in Above(g)}
           left(t) == {g \in gone : Nested(g) /\ frames[g].task = t}
<1>2. /\ frames' = [g \in Frames |->
             IF g \in gone THEN [frames[g] EXCEPT !.phase = "ended", !.ans = "cancelled"]
             ELSE frames[g]]
      /\ depth' = [t \in Tasks |-> IF left(t) = {} THEN depth[t] ELSE frames[Min(left(t))].saved]
      /\ workflow' = workflow
  BY DEF Timeout
<1>3. /\ gone \in SUBSET Frames /\ \A g \in gone : Open(g)
      /\ \A t : \A g \in left(t) : g \in gone /\ Nested(g) /\ frames[g].task = t
      /\ \A g \in gone : Nested(g) => g \in left(frames[g].task)
  OBVIOUS
<1>4. \A g \in Frames : Open(g) /\ frames[g].parent \in gone => g \in gone
  <2>1. Frames = 1..Len(frames)
    BY <1>1, SequenceFacts DEF PlaceInv, Frames
  <2>2. \A g \in Frames : Ups(frames)[g] = {g} \cup Ups(frames)[frames[g].parent]
    BY <1>1, <2>1, UpUnfolds DEF TreeInv
  <2>3. \A g : Above(g) = Ups(frames)[g]
    BY Zenon DEF Above, Ups
  <2>4. QED
    BY <2>2, <2>3
<1> HIDE DEF gone, left
<1>5. /\ Frames = 1..Len(frames) /\ Len(frames) \in Nat /\ DOMAIN frames = Frames
      /\ depth \in Seq(Nat) /\ Tasks = 1..Len(depth) /\ Len(depth) \in Nat
  BY <1>1, SequenceFacts DEF PlaceInv, Frames, Tasks
\* The first call that nests, of those that are cut off in a task.
<1>6. ASSUME NEW t, left(t) # {} PROVE Min(left(t)) \in left(t) /\ \A g \in left(t) : Min(left(t)) <= g
  <2>1. left(t) \in SUBSET Nat
    <3>1. \A g \in left(t) : g \in gone
      BY <1>3, Zenon
    <3>2. \A g \in gone : g \in Nat
      BY <1>3, <1>5
    <3>3. QED
      BY <3>1, <3>2, Zenon
  <2>2. Deciding(left(t)) \in left(t) /\ \A g \in left(t) : Deciding(left(t)) <= g
    BY <1>6, <2>1, FirstDecides
  <2>3. QED
    BY <2>2 DEF Min
<1>7. depth' \in Seq(Nat) /\ Len(depth') = Len(depth) /\ Tasks' = Tasks
  <2>1. ASSUME NEW t \in Tasks, left(t) # {} PROVE frames[Min(left(t))].saved \in Nat
    BY <1>1, <1>3, <1>6, <2>1 DEF TypeInv
  <2>2. \A t \in Tasks : (IF left(t) = {} THEN depth[t] ELSE frames[Min(left(t))].saved) \in Nat
    BY <1>5, <2>1
  <2>3. depth' \in [Tasks -> Nat]
    BY <1>2, <2>2, Zenon
  <2>4. QED
    BY <1>5, <2>3 DEF Tasks
<1>8. /\ Sequence(frames') /\ Len(frames') = Len(frames) /\ Frames' = Frames
      /\ \A g \in Frames :
           frames'[g] = IF g \in gone THEN [frames[g] EXCEPT !.phase = "ended", !.ans = "cancelled"]
                        ELSE frames[g]
  <2>1. DOMAIN frames' = Frames /\ frames' = [g \in Frames |-> frames'[g]]
    BY <1>2
  <2>2. QED
    BY <1>1, <1>2, <1>5, <2>1, SameSequence DEF PlaceInv, Frames
<1>9. \A g \in Frames :
        /\ DOMAIN frames'[g] = Fields /\ frames'[g].tool = frames[g].tool
        /\ frames'[g].parent = frames[g].parent /\ frames'[g].task = frames[g].task
        /\ frames'[g].saved = frames[g].saved /\ frames'[g].tried = frames[g].tried
        /\ frames'[g].phase = IF g \in gone THEN "ended" ELSE frames[g].phase
        /\ frames'[g].ans = IF g \in gone THEN "cancelled" ELSE frames[g].ans
  <2>1. TAKE g \in Frames
  <2>2. DOMAIN frames[g] = Fields
    BY <1>1 DEF TypeInv
  <2>3. QED
    BY <1>8, <2>2 DEF Fields
<1>10. PlaceInv'
  <2>1. \A g \in Frames : frames'[g].task \in Tasks
    BY <1>1, <1>9 DEF PlaceInv
  <2>2. QED
    BY <1>1, <1>7, <1>8, <2>1 DEF PlaceInv
<1>11. ASSUME NEW g \in Frames
       PROVE  DOMAIN frames'[g] = Fields /\ frames'[g].saved \in Nat /\ Told(workflow, frames'[g])
  <2>1. DOMAIN frames[g] = Fields /\ frames[g].saved \in Nat /\ Told(workflow, frames[g])
    BY <1>1 DEF TypeInv
  <2>2. CASE g \notin gone
    BY <1>8, <2>1, <2>2
  <2>3. CASE g \in gone
    <3>1. frames[g].phase # "ended"
      BY <1>3, <2>3 DEF Open
    <3>2. \/ frames[g].tried = <<>>
          \/ \E way : \E o \in Outcomes \ {"ok"} : frames[g].tried = << <<way, o>> >>
      BY <2>1, <3>1 DEF Told, Behind
    <3>3. ASSUME NEW d PROVE Exhausted(d, frames'[g])
      <4>1. CASE frames[g].tried = <<>>
        BY <1>9, <2>3, <4>1, NothingTried
      <4>2. CASE \E way : \E o \in Outcomes \ {"ok"} : frames[g].tried = << <<way, o>> >>
        <5>1. PICK way, o : o # "ok" /\ frames'[g].tried = << <<way, o>> >>
          BY <1>9, <4>2
        <5>2. frames'[g].ans # "error"
          BY <1>9, <2>3
        <5>3. QED
          BY <5>1, <5>2, OneTried
      <4>3. QED
        BY <3>2, <4>1, <4>2
    <3>4. Told(workflow, frames'[g])
      BY <1>9, <2>3, <3>3 DEF Told
    <3>5. QED
      BY <1>9, <2>1, <3>4
  <2>4. QED
    BY <2>2, <2>3
<1>12. TypeInv'
  BY <1>1, <1>2, <1>8, <1>10, <1>11 DEF TypeInv
<1>13. \A t \in Tasks : (\A g \in gone : frames[g].task # t) => depth'[t] = depth[t]
  <2>1. TAKE t \in Tasks
  <2>2. HAVE \A g \in gone : frames[g].task # t
  <2>3. left(t) = {}
    BY <1>3, <2>2
  <2>4. QED
    BY <1>2, <2>3
<1>14. ASSUME NEW g \in gone, \A h \in gone : frames[h].task = frames[g].task => g <= h
       PROVE  depth'[frames[g].task] = Level(g) - 1
  <2> DEFINE t == frames[g].task
  <2>1. t \in Tasks /\ g \in Frames /\ Open(g)
    BY <1>1, <1>3 DEF PlaceInv
  <2>2. depth'[t] = IF left(t) = {} THEN depth[t] ELSE frames[Min(left(t))].saved
    BY <1>2, <2>1
  <2>3. CASE Nested(g)
    <3>1. g \in left(t)
      BY <1>3, <2>3
    <3>2. Min(left(t)) \in left(t) /\ Min(left(t)) <= g
      BY <1>6, <3>1
    <3>3. Min(left(t)) \in gone /\ frames[Min(left(t))].task = t
      BY <1>3, <3>2
    <3>4. g <= Min(left(t)) /\ Min(left(t)) \in Frames
      BY <1>3, <1>14, <3>3
    <3>5. Min(left(t)) = g
      BY <1>5, <2>1, <3>2, <3>4
    <3>6. depth'[t] = frames[g].saved
      BY <2>2, <3>1, <3>5
    <3>7. QED
      BY <1>1, <2>1, <2>3, <3>6 DEF LevelInv
  <2>4. CASE ~Nested(g)
    <3>1. Deepest(g)
      BY <1>1, <2>1, <2>4, NoKids, IdleDeepest
    <3>2. left(t) = {}
      <4>1. SUFFICES ASSUME NEW h \in left(t) PROVE FALSE
        OBVIOUS
      <4>2. h \in gone /\ Nested(h) /\ frames[h].task = t /\ h \in Frames /\ Open(h)
        BY <1>3, <4>1
      <4>3. g <= h /\ h # g
        BY <1>14, <2>4, <4>2
      <4>4. QED
        BY <1>5, <2>1, <3>1, <4>2, <4>3 DEF Deepest
    <3>3. QED
      BY <1>1, <2>1, <2>2, <2>4, <3>1, <3>2 DEF LevelInv
  <2>5. QED
    BY <2>3, <2>4
<1>15. NestInv'
  <2>1. \A g \in Frames :
          /\ (Open(g)' <=> (Open(g) /\ g \notin gone))
          /\ (Nested(g)' <=> (Nested(g) /\ g \notin gone))
          /\ frames[g].saved' = frames[g].saved
          /\ frames[g].ans' = "refused" => frames[g].ans = "refused" \/ Level(g) - 1 >= MaxDepth
    BY <1>9 DEF Open, Nested
  <2>2. Kept
    <3>1. \A g \in Frames : frames'[g].parent = frames[g].parent /\ frames'[g].task = frames[g].task
      BY <1>9
    <3>2. Len(frames') = Len(frames) /\ Len(frames) \in Nat
      BY <1>5, <1>8, Zenon
    <3>3. QED
      BY <3>1, <3>2 DEF Kept
  <2>3. QED
    BY <1>1, <1>3, <1>4, <1>8, <1>10, <1>13, <1>14, <2>1, <2>2, CutNest
<1>16. QED
  BY <1>12, <1>15 DEF IInv

-----------------------------------------------------------------------------
(* The theorems. *)

LEMMA InitNest ==
  ASSUME FrozenInit
  PROVE  IInv
<1>1. Sequence(frames) /\ Frames = {} /\ Len(frames) = 0
  BY EmptyFacts DEF FrozenInit, Frames
<1>2. depth \in Seq(Nat) /\ 1 \in Tasks /\ depth[1] = 0
  BY DEF FrozenInit, Tasks
<1>3. TypeInv
  BY <1>1, <1>2 DEF TypeInv, PlaceInv, FrozenInit
<1>4. NestInv
  BY <1>1, <1>2 DEF NestInv, TreeInv, ChainInv, FirstInv, LevelInv, Rooted, Deepest
<1>5. QED
  BY <1>3, <1>4 DEF IInv

LEMMA EnteredOpen ==
  ASSUME NEW f \in Frames, NEW k, Kind(f, k)
  PROVE  /\ Open(f) /\ ~Nested(f) /\ frames[f].phase = "entered"
         /\ frames[f].tool \in DOMAIN workflow.defs /\ Def(f).kind = k
BY DEF Kind, Open, Nested

\* What is answered before any way is tried.
LEMMA AtOnce ==
  ASSUME IInv, NEW f \in Frames, NEW k, Kind(f, k), NEW a, Answer(f, a),
         a = "refused" => depth[frames[f].task] >= MaxDepth,
         a = "error" => k \notin {"rag", "mcp_session"}
  PROVE  IInv'
<1>1. Open(f) /\ ~Nested(f) /\ frames[f].phase = "entered" /\ Def(f).kind = k
  BY EnteredOpen
<1>2. frames[f].tried = <<>>
  BY <1>1, FrameFacts DEF IInv, Told
<1>3. QED
  BY <1>1, <1>2, Answers

LEMMA StepNest ==
  ASSUME IInv, NEW f \in Frames, Step(f)
  PROVE  IInv'
<1>1. TypeInv /\ Told(workflow, frames[f])
  BY FrameFacts DEF IInv
<1>2. CASE Unknown(f)
  BY <1>2, Answers DEF Unknown, Open, Nested
<1>3. CASE Noop(f)
  BY <1>3, AtOnce DEF Noop
<1>4. CASE HttpRefused(f)
  BY <1>4, AtOnce DEF HttpRefused
<1>5. CASE HttpStarts(f)
  BY <1>5, EnteredOpen, Starts DEF HttpStarts
<1>6. CASE HttpRequest(f)
  <2>1. PICK a : Answer(f, a) /\ a \in {"ok", "error"} /\ frames[f].phase = "request"
    BY <1>6 DEF HttpRequest
  <2>2. frames[f].tried = <<>> /\ Def(f).kind = "http" /\ Open(f) /\ ~Nested(f)
    BY <1>1, <2>1 DEF Told, Def, Open, Nested
  <2>3. QED
    BY <2>1, <2>2, Answers
<1>7. CASE RagUnset(f)
  BY <1>7, AtOnce DEF RagUnset
<1>8. CASE RagStarts(f)
  BY <1>8, EnteredOpen, Starts DEF RagStarts
<1>9. CASE RagDirect(f)
  BY <1>9, Tries DEF RagDirect
<1>10. CASE RagShim(f)
  BY <1>10, Tries DEF RagShim
<1>11. CASE McpUnset(f)
  BY <1>11, AtOnce DEF McpUnset
<1>12. CASE McpStarts(f)
  BY <1>12, EnteredOpen, Starts DEF McpStarts
<1>13. CASE McpSpawn(f)
  <2>1. CASE \E o \in {"ok", "raised"} : Attempt(f, "spawn", o, "station", Def(f).station)
    BY <2>1, Tries DEF Outcomes
  <2>2. CASE frames[f].phase = "spawn" /\ Answer(f, "told")
    <3>1. frames[f].tried = <<>> /\ Open(f) /\ ~Nested(f)
      BY <1>1, <2>2 DEF Told, Open, Nested
    <3>2. QED
      BY <2>2, <3>1, Answers
  <2>3. QED
    BY <1>13, <2>1, <2>2 DEF McpSpawn
<1>14. CASE McpStation(f)
  BY <1>14, Tries DEF McpStation
<1>15. CASE NothingToRun(f)
  <2>1. PICK k \in {"subpipeline", "canvas"} : Kind(f, k)
    BY <1>15 DEF NothingToRun, Nesting
  <2>2. QED
    BY <1>15, <2>1, AtOnce DEF NothingToRun
<1>16. CASE TooDeep(f)
  <2>1. PICK k \in {"subpipeline", "canvas"} : Kind(f, k)
    BY <1>16 DEF TooDeep, Nesting
  <2>2. QED
    BY <1>16, <2>1, AtOnce DEF TooDeep
<1>17. CASE Enter(f)
  BY <1>17, Enters
<1>18. CASE Gather(f)
  BY <1>18, Gathers
<1>19. CASE OneTool(f) \/ NodeCalls(f)
  BY <1>19, CallsBelow
<1>20. CASE PipelineEnds(f)
  BY <1>20, PipelineSteps
<1>21. CASE BeginNode(f) \/ NodeEnds(f) \/ NextSweep(f)
  BY <1>21, SweepSteps
<1>22. CASE CanvasEnds(f)
  BY <1>22, CanvasOver
<1>23. QED
  BY <1>2, <1>3, <1>4, <1>5, <1>6, <1>7, <1>8, <1>9, <1>10, <1>11, <1>12, <1>13, <1>14,
     <1>15, <1>16, <1>17, <1>18, <1>19, <1>20, <1>21, <1>22 DEF Step

LEMMA IdleNest ==
  ASSUME IInv, UNCHANGED frozenVars
  PROVE  IInv'
<1>1. workflow' = workflow /\ frames' = frames /\ depth' = depth
  BY DEF frozenVars
<1>2. TypeInv'
  BY <1>1 DEF IInv, TypeInv, PlaceInv, Frames, Tasks
<1>3. NestInv'
  BY <1>1 DEF IInv, NestInv, TreeInv, ChainInv, FirstInv, LevelInv, Deepest, Open, Nested,
              Frames, Level
<1>4. QED
  BY <1>2, <1>3 DEF IInv

LEMMA AlwaysNest == FrozenSpec => []IInv
<1>1. FrozenInit => IInv
  BY InitNest
<1>2. IInv /\ [FrozenNext]_frozenVars => IInv'
  <2> SUFFICES ASSUME IInv, [FrozenNext]_frozenVars PROVE IInv'
    OBVIOUS
  <2>1. CASE RootCall
    BY <2>1, RootCalls
  <2>2. CASE \E f \in Frames : Step(f) \/ Timeout(f)
    BY <2>2, StepNest, Timeouts
  <2>3. CASE UNCHANGED frozenVars
    BY <2>3, IdleNest
  <2>4. QED
    BY <2>1, <2>2, <2>3 DEF FrozenNext
<1>3. QED
  BY <1>1, <1>2, PTL DEF FrozenSpec

\* All calls that a call in progress is nested in run a pipeline or a canvas.
LEMMA AboveNested ==
  ASSUME TreeInv, PlaceInv, NEW m \in Frames, Open(m)
  PROVE  \A g \in Ups(frames)[m] : g # m => Nested(g)
<1> DEFINE T == {k \in Frames : Open(k) /\ \E g \in Ups(frames)[k] : g # k /\ ~Nested(g)}
<1>0. Frames = 1..Len(frames) /\ Len(frames) \in Nat
  BY SequenceFacts DEF PlaceInv, Frames
<1>1. ASSUME T # {} PROVE FALSE
  <2>1. PICK n \in T : \A k \in T : n <= k
    <3>1. T \in SUBSET Nat
      BY <1>0
    <3> HIDE DEF T
    <3>2. Deciding(T) \in T /\ \A k \in T : Deciding(T) <= k
      BY <1>1, <3>1, FirstDecides
    <3>3. QED
      BY <3>2
  <2>2. PICK g \in Ups(frames)[n] : g # n /\ ~Nested(g)
    OBVIOUS
  <2>3. n \in Frames /\ n \in 1..Len(frames) /\ Open(n)
    BY <1>0
  <2>4. Ups(frames)[n] = {n} \cup Ups(frames)[frames[n].parent] /\ Ups(frames)[0] = {}
    BY <2>3, UpUnfolds DEF TreeInv
  <2>5. frames[n].parent # 0 /\ g \in Ups(frames)[frames[n].parent]
    BY <2>2, <2>4
  <2>6. Nested(frames[n].parent) /\ frames[n].parent \in Frames /\ frames[n].parent < n
    BY <1>0, <2>3, <2>5 DEF TreeInv, Rooted
  <2>7. Open(frames[n].parent)
    BY <2>6, NestedOpen
  <2>8. g # frames[n].parent
    BY <2>2, <2>6
  <2>9. frames[n].parent \in T
    BY <2>2, <2>5, <2>6, <2>7, <2>8
  <2>10. QED
    BY <1>0, <2>1, <2>3, <2>6, <2>9
<1>2. QED
  BY <1>1

LEMMA NestExact == ASSUME IInv PROVE DepthIsNesting
<1>1. TypeInv /\ PlaceInv /\ TreeInv /\ ChainInv /\ LevelInv
  BY DEF IInv, TypeInv, NestInv
<1>2. /\ Frames = 1..Len(frames) /\ Len(frames) \in Nat
      /\ \A f : Above(f) = Ups(frames)[f]
  BY <1>1, SequenceFacts, Zenon DEF PlaceInv, Frames, Above, Ups
<1>3. ASSUME NEW f \in Frames
      PROVE  /\ f \in Above(f) /\ IsFiniteSet(Above(f)) /\ Cardinality(Above(f)) = Level(f)
             /\ Level(f) \in Nat /\ Cardinality(Above(f) \ {f}) = Level(f) - 1
  <2>1. /\ f \in Ups(frames)[f] /\ IsFiniteSet(Ups(frames)[f])
        /\ Cardinality(Ups(frames)[f]) \in Nat
    BY <1>1, <1>2, UpCounts DEF TreeInv
  <2>2. Cardinality(Ups(frames)[f] \ {f}) = Cardinality(Ups(frames)[f]) - 1
    BY <2>1, FS_RemoveElement
  <2>3. QED
    BY <1>2, <2>1, <2>2 DEF Level
<1>4. ASSUME NEW t \in Tasks, \E f \in Frames : Open(f) /\ frames[f].task = t
      PROVE  depth[t] = Levels(Innermost(t)) /\ depth[t] <= MaxDepth
  <2> DEFINE T == {f \in Frames : Open(f) /\ frames[f].task = t}
  <2>1. PICK m \in T : \A f \in T : f <= m
    <3>1. IsFiniteSet(T)
      <4>1. T \subseteq 1..Len(frames) /\ IsFiniteSet(1..Len(frames))
        BY <1>2, FS_Interval
      <4>2. QED
        BY <4>1, FS_Subset
    <3>2. T # {} /\ T \subseteq 1..Len(frames)
      BY <1>2, <1>4
    <3> DEFINE back == {Len(frames) - f : f \in T}
    <3>3. back \in SUBSET Nat /\ back # {}
      BY <1>2, <3>2
    <3>4. Deciding(back) \in back /\ \A n \in back : Deciding(back) <= n
      <4> HIDE DEF back
      <4>1. QED
        BY <3>3, FirstDecides
    <3>5. PICK f \in T : Deciding(back) = Len(frames) - f
      BY <3>4
    <3>6. \A g \in T : Len(frames) - f <= Len(frames) - g
      BY <3>4, <3>5
    <3>7. \A g \in T : g <= f
      BY <1>2, <3>2, <3>6
    <3>8. QED
      BY <3>7
  <2>2. m \in Frames /\ Open(m) /\ frames[m].task = t /\ Deepest(m)
    BY <1>2, <2>1 DEF Deepest
  <2>3. Innermost(t) = m
    <3>1. \A n \in T : (\A f \in T : n >= f) => n = m
      BY <1>2, <2>1
    <3>2. m \in T /\ \A f \in T : m >= f
      BY <1>2, <2>1
    <3>3. Innermost(t) = Max(T)
      BY DEF Innermost
    <3> HIDE DEF T
    <3>4. Max(T) = m
      BY <3>1, <3>2 DEF Max
    <3>5. QED
      BY <3>3, <3>4
  <2>4. depth[t] = IF Nested(m) THEN Level(m) ELSE Level(m) - 1
    BY <1>1, <2>2 DEF LevelInv
  <2>5. \A g \in Above(m) : g # m => Nested(g)
    BY <1>1, <1>2, <2>2, AboveNested
  <2>6. Levels(m) = IF Nested(m) THEN Level(m) ELSE Level(m) - 1
    <3>1. CASE Nested(m)
      <4>1. {g \in Above(m) : Nested(g)} = Above(m)
        BY <2>5, <3>1
      <4>2. QED
        BY <1>3, <2>2, <3>1, <4>1 DEF Levels
    <3>2. CASE ~Nested(m)
      <4>1. {g \in Above(m) : Nested(g)} = Above(m) \ {m}
        BY <2>5, <3>2
      <4>2. QED
        BY <1>3, <2>2, <3>2, <4>1 DEF Levels
    <3>3. QED
      BY <3>1, <3>2
  <2>7. depth[t] <= MaxDepth
    <3>1. MaxDepth \in Nat
      BY FrozenAssumption
    <3>2. CASE Nested(m)
      BY <1>1, <2>2, <2>4, <3>2 DEF LevelInv
    <3>3. CASE ~Nested(m) /\ frames[m].parent = 0
      BY <1>1, <2>2, <2>4, <3>1, <3>3, LevelFacts
    <3>4. CASE ~Nested(m) /\ frames[m].parent # 0
      <4>1. /\ Level(m) = Level(frames[m].parent) + 1 /\ frames[m].parent \in Frames
            /\ Level(frames[m].parent) \in Nat
        BY <1>1, <2>2, <3>4, LevelFacts
      <4>2. Level(frames[m].parent) <= MaxDepth
        BY <1>1, <2>2, <3>4, <4>1 DEF TreeInv, LevelInv
      <4>3. QED
        BY <2>4, <3>4, <4>1, <4>2
    <3>5. QED
      BY <3>2, <3>3, <3>4
  <2>8. QED
    BY <2>3, <2>4, <2>6, <2>7
<1>5. ASSUME NEW t \in Tasks, ~\E f \in Frames : Open(f) /\ frames[f].task = t
      PROVE  t = 1 => depth[t] = 0
  BY <1>1, <1>5 DEF LevelInv
<1>6. ASSUME NEW f \in Frames, frames[f].ans = "refused"
      PROVE  Cardinality(Above(f) \ {f}) >= MaxDepth
  BY <1>1, <1>3, <1>6 DEF LevelInv
<1>7. QED
  BY <1>4, <1>5, <1>6, Zenon DEF DepthIsNesting

\* The counter of nested pipelines and canvases is exact in every task, whatever fails, is
\* cancelled or runs in parallel, and nesting stops at the limit
\* (_SUBPIPELINE_DEPTH, its two finally clauses, and the tasks of a nested pipeline).
THEOREM DepthExact == FrozenSpec => []DepthIsNesting
<1>1. IInv => DepthIsNesting
  BY NestExact
<1>2. QED
  BY <1>1, AlwaysNest, PTL

\* Rag and mcp calls succeed with the last way they tried, and fail only when every way
\* they have was tried (_dispatch_rag, _dispatch_mcp).
THEOREM WaysTried == FrozenSpec => []WaysExhausted
<1>1. ASSUME IInv PROVE WaysExhausted
  <2>1. ASSUME NEW f \in Frames, frames[f].tool \in DOMAIN workflow.defs
        PROVE  Exhausted(Def(f), frames[f])
    <3>1. Told(workflow, frames[f])
      BY <1>1, FrameFacts DEF IInv
    <3>2. CASE frames[f].phase = "ended"
      BY <2>1, <3>1, <3>2 DEF Told, Def
    <3>3. CASE frames[f].phase # "ended"
      <4>1. frames[f].ans = "none"
        BY <3>1, <3>3 DEF Told
      <4>2. \/ frames[f].tried = <<>>
            \/ \E way : \E o \in Outcomes \ {"ok"} : frames[f].tried = << <<way, o>> >>
        BY <3>1, <3>3 DEF Told, Behind
      <4>3. CASE frames[f].tried = <<>>
        BY <4>1, <4>3, NothingTried
      <4>4. CASE \E way : \E o \in Outcomes \ {"ok"} : frames[f].tried = << <<way, o>> >>
        <5>1. PICK way, o : o # "ok" /\ frames[f].tried = << <<way, o>> >>
          BY <4>4
        <5>2. QED
          BY <4>1, <5>1, OneTried
      <4>5. QED
        BY <4>2, <4>3, <4>4
    <3>4. QED
      BY <3>2, <3>3
  <2>2. QED
    BY <2>1, Zenon DEF WaysExhausted, Exhausted
<1>2. QED
  BY <1>1, AlwaysNest, PTL

-----------------------------------------------------------------------------
(* The graph of a canvas.  A node that lies neither on a cycle nor behind one is found
   after as many rounds as there are nodes. *)

\* The equation of Acyclic's function up to n.
RanksTo(rank, d, n) ==
  rank = [k \in 0..n |->
            IF k = 0 THEN {} ELSE {x \in NodesOf(d) : Upstream(d, x) \subseteq rank[k - 1]}]

\* The nodes found after so many rounds.
Ranks(d) ==
  CHOOSE rank : rank = [k \in 0..Len(d.nodes) |->
    IF k = 0 THEN {} ELSE {x \in NodesOf(d) : Upstream(d, x) \subseteq rank[k - 1]}]

\* A canvas has a list of nodes.
Drawing(d) == d.nodes \in Seq(STRING) /\ NoNode \notin NodesOf(d)

\* Rounds can be counted up to any number.
LEMMA RanksExist ==
  ASSUME NEW d, NEW m \in Nat
  PROVE  \E rank : RanksTo(rank, d, m)
<1> DEFINE T == {n \in Nat : ~\E rank : RanksTo(rank, d, n)}
<1> SUFFICES ASSUME T # {} PROVE FALSE
  OBVIOUS
<1>1. PICK n \in T : \A k \in T : n <= k
  <2>1. T \in SUBSET Nat
    OBVIOUS
  <2> HIDE DEF T
  <2>2. Deciding(T) \in T /\ \A k \in T : Deciding(T) <= k
    BY <2>1, FirstDecides
  <2>3. QED
    BY <2>2
<1>2. n \in Nat /\ ~\E rank : RanksTo(rank, d, n)
  OBVIOUS
<1>3. n # 0
  <2>1. RanksTo([k \in 0..0 |-> {}], d, 0)
    BY DEF RanksTo
  <2>2. QED
    BY <1>2, <2>1
<1>4. n - 1 \in Nat /\ n - 1 \notin T
  BY <1>1, <1>2, <1>3
<1>5. PICK rank : RanksTo(rank, d, n - 1)
  BY <1>4
<1> HIDE DEF T
<1> DEFINE next == [k \in 0..n |->
             IF k = n THEN {x \in NodesOf(d) : Upstream(d, x) \subseteq rank[n - 1]} ELSE rank[k]]
<1>6. ASSUME NEW k \in 0..n
      PROVE  next[k] = IF k = 0 THEN {}
                       ELSE {x \in NodesOf(d) : Upstream(d, x) \subseteq next[k - 1]}
  <2>1. k # 0 => k - 1 \in 0..n /\ k - 1 # n /\ next[k - 1] = rank[k - 1]
    BY <1>2
  <2>2. CASE k = n
    BY <1>3, <2>1, <2>2
  <2>3. CASE k # n
    <3>1. k \in 0..(n - 1)
      BY <1>2, <2>3
    <3>2. rank[k] = IF k = 0 THEN {}
                    ELSE {x \in NodesOf(d) : Upstream(d, x) \subseteq rank[k - 1]}
      BY <1>5, <3>1 DEF RanksTo
    <3>3. next[k] = rank[k]
      BY <2>3
    <3> HIDE DEF next
    <3>4. QED
      BY <2>1, <3>2, <3>3
  <2>4. QED
    BY <2>2, <2>3
<1>7. RanksTo(next, d, n)
  <2>1. next = [k \in 0..n |-> next[k]]
    OBVIOUS
  <2> HIDE DEF next
  <2>2. QED
    BY <1>6, <2>1 DEF RanksTo
<1>8. QED
  BY <1>2, <1>7

\* What a round adds.
LEMMA RanksUnfold ==
  ASSUME NEW d, Drawing(d)
  PROVE  /\ Len(d.nodes) \in Nat /\ Ranks(d)[0] = {} /\ Acyclic(d) = Ranks(d)[Len(d.nodes)]
         /\ \A k \in 1..Len(d.nodes) :
              Ranks(d)[k] = {x \in NodesOf(d) : Upstream(d, x) \subseteq Ranks(d)[k - 1]}
<1>1. Len(d.nodes) \in Nat
  BY DEF Drawing
<1>2. \E rank : RanksTo(rank, d, Len(d.nodes))
  BY <1>1, RanksExist
<1>3. Ranks(d) = [k \in 0..Len(d.nodes) |->
        IF k = 0 THEN {} ELSE {x \in NodesOf(d) : Upstream(d, x) \subseteq Ranks(d)[k - 1]}]
  BY <1>2 DEF RanksTo, Ranks
<1>4. Acyclic(d) = Ranks(d)[Len(d.nodes)]
  BY Zenon DEF Acyclic, Ranks
<1>5. Ranks(d)[0] = {}
  BY <1>1, <1>3
<1>6. ASSUME NEW k \in 1..Len(d.nodes)
      PROVE  Ranks(d)[k] = {x \in NodesOf(d) : Upstream(d, x) \subseteq Ranks(d)[k - 1]}
  <2>1. k \in 0..Len(d.nodes) /\ k # 0
    BY <1>1
  <2>2. QED
    BY <1>3, <2>1
<1>7. QED
  BY <1>1, <1>4, <1>5, <1>6

\* No round loses a node.
LEMMA RanksGrow ==
  ASSUME NEW d, Drawing(d), NEW i \in 0..Len(d.nodes), NEW j \in 0..Len(d.nodes), i <= j
  PROVE  Ranks(d)[i] \subseteq Ranks(d)[j]
<1> DEFINE L == Len(d.nodes)
           T == {k \in 1..L : ~(Ranks(d)[k - 1] \subseteq Ranks(d)[k])}
           U == {k \in i..L : ~(Ranks(d)[i] \subseteq Ranks(d)[k])}
<1>0. L \in Nat /\ T \in SUBSET Nat /\ U \in SUBSET Nat
  BY RanksUnfold
<1>1. ASSUME T # {} PROVE FALSE
  <2>1. PICK n \in T : \A k \in T : n <= k
    <3> HIDE DEF T
    <3>1. Deciding(T) \in T /\ \A k \in T : Deciding(T) <= k
      BY <1>0, <1>1, FirstDecides
    <3>2. QED
      BY <3>1
  <2>2. n \in 1..L /\ ~(Ranks(d)[n - 1] \subseteq Ranks(d)[n])
    OBVIOUS
  <2>3. n - 1 \in 1..L
    BY <1>0, <2>2, RanksUnfold
  <2>4. n - 1 \notin T
    <3>1. ~(n <= n - 1)
      BY <1>0, <2>2
    <3> HIDE DEF T
    <3>2. QED
      BY <2>1, <3>1
  <2>5. Ranks(d)[n - 1 - 1] \subseteq Ranks(d)[n - 1]
    BY <2>3, <2>4
  <2>6. /\ Ranks(d)[n - 1] = {x \in NodesOf(d) : Upstream(d, x) \subseteq Ranks(d)[n - 1 - 1]}
        /\ Ranks(d)[n] = {x \in NodesOf(d) : Upstream(d, x) \subseteq Ranks(d)[n - 1]}
    BY <2>2, <2>3, RanksUnfold
  <2>7. QED
    BY <2>2, <2>5, <2>6
<1>2. ASSUME U # {} PROVE FALSE
  <2>1. PICK n \in U : \A k \in U : n <= k
    <3> HIDE DEF U
    <3>1. Deciding(U) \in U /\ \A k \in U : Deciding(U) <= k
      BY <1>0, <1>2, FirstDecides
    <3>2. QED
      BY <3>1
  <2>2. n \in i..L /\ ~(Ranks(d)[i] \subseteq Ranks(d)[n]) /\ n # i
    OBVIOUS
  <2>3. n - 1 \in i..L /\ n - 1 \notin U /\ n \in 1..L
    BY <1>0, <2>1, <2>2
  <2>4. Ranks(d)[i] \subseteq Ranks(d)[n - 1] /\ n \notin T
    BY <1>1, <2>3
  <2>5. QED
    BY <2>2, <2>3, <2>4
<1>3. j \in i..L
  BY <1>0
<1>4. QED
  BY <1>2, <1>3

\* Nodes run one after the other, each once and after all it hangs on.
Ordered(d, s) ==
  \A i \in DOMAIN s : /\ s[i] \in NodesOf(d)
                      /\ \A j \in DOMAIN s : s[j] = s[i] => j = i
                      /\ Upstream(d, s[i]) \subseteq {s[j] : j \in 1..(i - 1)}

\* No two nodes of such a list are the same, so that it is no longer than the drawing's.
LEMMA OrderedLength ==
  ASSUME NEW d, Drawing(d), NEW s \in Seq(STRING), Ordered(d, s)
  PROVE  /\ Len(s) \in Nat /\ Len(s) <= Len(d.nodes)
         /\ Len(s) = Len(d.nodes) => ToSet(s) = NodesOf(d)
<1> DEFINE n == Len(s)
           m == Len(d.nodes)
           N == NodesOf(d)
<1>1. n \in Nat /\ m \in Nat /\ DOMAIN s = 1..n /\ DOMAIN d.nodes = 1..m
  BY DEF Drawing
<1>2. N = {d.nodes[i] : i \in 1..m} /\ ToSet(s) = {s[i] : i \in 1..n}
  BY <1>1 DEF NodesOf, ToSet
<1>3. d.nodes \in Surjection(1..m, N)
  <2>1. d.nodes = [i \in 1..m |-> d.nodes[i]]
    BY <1>1 DEF Drawing
  <2>2. d.nodes \in [1..m -> N]
    BY <1>2, <2>1
  <2>3. QED
    BY <1>2, <2>2 DEF Surjection
<1>4. IsFiniteSet(1..m) /\ Cardinality(1..m) = m /\ IsFiniteSet(1..n) /\ Cardinality(1..n) = n
  <2>1. ASSUME NEW k \in Nat PROVE IsFiniteSet(1..k) /\ Cardinality(1..k) = k
    BY FS_Interval
  <2>2. QED
    BY <1>1, <2>1, Zenon
<1>5. IsFiniteSet(N) /\ Cardinality(N) <= m /\ Cardinality(N) \in Nat
  BY <1>3, <1>4, FS_Surjection, FS_CardinalityType
<1>6. s \in Injection(1..n, N)
  <2>1. s = [i \in 1..n |-> s[i]]
    BY <1>1
  <2>2. \A i \in 1..n : s[i] \in N
    BY <1>1 DEF Ordered
  <2>3. s \in [1..n -> N]
    BY <2>1, <2>2
  <2>4. \A i, j \in 1..n : s[i] = s[j] => i = j
    BY <1>1 DEF Ordered
  <2>5. QED
    BY <2>3, <2>4 DEF Injection, IsInjective
<1>7. n <= Cardinality(N) /\ (n = Cardinality(N) => s \in Surjection(1..n, N))
  BY <1>4, <1>5, <1>6, FS_Injection
<1>8. ASSUME n = m PROVE ToSet(s) = N
  <2>1. s \in Surjection(1..n, N)
    BY <1>1, <1>5, <1>7, <1>8
  <2>2. QED
    BY <1>2, <2>1 DEF Surjection
<1>9. QED
  BY <1>1, <1>5, <1>7, <1>8

\* They lie neither on a cycle nor behind one.
LEMMA OrderedAcyclic ==
  ASSUME NEW d, Drawing(d), NEW s \in Seq(STRING), Ordered(d, s)
  PROVE  ToSet(s) \subseteq Acyclic(d)
<1> DEFINE L == Len(d.nodes)
           T == {i \in 1..Len(s) : s[i] \notin Ranks(d)[i]}
<1>1. /\ Len(s) \in Nat /\ L \in Nat /\ Len(s) <= L /\ DOMAIN s = 1..Len(s)
      /\ T \in SUBSET Nat
  BY OrderedLength, RanksUnfold
<1>2. ASSUME T # {} PROVE FALSE
  <2>1. PICK n \in T : \A k \in T : n <= k
    <3> HIDE DEF T
    <3>1. Deciding(T) \in T /\ \A k \in T : Deciding(T) <= k
      BY <1>1, <1>2, FirstDecides
    <3>2. QED
      BY <3>1
  <2>2. n \in 1..Len(s) /\ n \in 1..L /\ n - 1 \in 0..L /\ s[n] \notin Ranks(d)[n]
    BY <1>1
  <2>3. ASSUME NEW j \in 1..(n - 1) PROVE s[j] \in Ranks(d)[n - 1]
    <3>1. j \in 1..Len(s) /\ j \notin T /\ j \in 0..L /\ j <= n - 1
      BY <1>1, <2>1, <2>2
    <3>2. Ranks(d)[j] \subseteq Ranks(d)[n - 1]
      BY <2>2, <3>1, RanksGrow
    <3>3. QED
      BY <3>1, <3>2
  <2>4. s[n] \in NodesOf(d) /\ Upstream(d, s[n]) \subseteq {s[j] : j \in 1..(n - 1)}
    BY <1>1, <2>2 DEF Ordered
  <2>5. Ranks(d)[n] = {x \in NodesOf(d) : Upstream(d, x) \subseteq Ranks(d)[n - 1]}
    BY <2>2, RanksUnfold
  <2>6. QED
    BY <2>2, <2>3, <2>4, <2>5
<1>3. ASSUME NEW i \in 1..Len(s) PROVE s[i] \in Ranks(d)[L]
  <2>1. i \in 0..L /\ L \in 0..L /\ i <= L
    BY <1>1
  <2>2. Ranks(d)[i] \subseteq Ranks(d)[L]
    BY <2>1, RanksGrow
  <2>3. s[i] \in Ranks(d)[i]
    BY <1>2
  <2>4. QED
    BY <2>2, <2>3
<1>4. ToSet(s) = {s[i] : i \in 1..Len(s)}
  BY <1>1 DEF ToSet
<1>5. QED
  BY <1>3, <1>4, RanksUnfold

\* When every other node waits for one that has not run, all that can run have.
LEMMA StuckAcyclic ==
  ASSUME NEW d, Drawing(d), NEW S,
         \A x \in NodesOf(d) : x \in S \/ ~(Upstream(d, x) \subseteq S)
  PROVE  Acyclic(d) \subseteq S
<1> DEFINE L == Len(d.nodes)
           T == {k \in 0..L : ~(Ranks(d)[k] \subseteq S)}
<1>1. L \in Nat /\ T \in SUBSET Nat
  BY RanksUnfold
<1>2. ASSUME T # {} PROVE FALSE
  <2>1. PICK n \in T : \A k \in T : n <= k
    <3> HIDE DEF T
    <3>1. Deciding(T) \in T /\ \A k \in T : Deciding(T) <= k
      BY <1>1, <1>2, FirstDecides
    <3>2. QED
      BY <3>1
  <2>2. n \in 0..L /\ ~(Ranks(d)[n] \subseteq S) /\ n # 0
    BY RanksUnfold
  <2>3. n \in 1..L /\ n - 1 \in 0..L /\ n - 1 \notin T
    BY <1>1, <2>1, <2>2
  <2>4. Ranks(d)[n - 1] \subseteq S
    BY <2>3
  <2>5. Ranks(d)[n] = {x \in NodesOf(d) : Upstream(d, x) \subseteq Ranks(d)[n - 1]}
    BY <2>3, RanksUnfold
  <2>6. QED
    BY <2>2, <2>4, <2>5
<1>3. L \in 0..L
  BY <1>1
<1>4. QED
  BY <1>2, <1>3, RanksUnfold

\* The nodes of a drawing.
LEMMA DrawingFacts ==
  ASSUME NEW d, Drawing(d)
  PROVE  /\ Acyclic(d) \subseteq NodesOf(d) /\ NodesOf(d) \subseteq STRING
         /\ \A x : Upstream(d, x) \subseteq NodesOf(d)
<1>1. NodesOf(d) \subseteq STRING
  BY DEF Drawing, NodesOf, ToSet
<1>2. \A x : Upstream(d, x) \subseteq NodesOf(d)
  BY DEF Upstream, Joins
<1>3. Acyclic(d) \subseteq NodesOf(d)
  <2>1. \A x \in NodesOf(d) : x \in NodesOf(d) \/ ~(Upstream(d, x) \subseteq NodesOf(d))
    OBVIOUS
  <2>2. QED
    BY <2>1, StuckAcyclic
<1>4. QED
  BY <1>1, <1>2, <1>3

-----------------------------------------------------------------------------
(* A canvas that the tool stage calls is the first call of all.  What a canvas r of the
   drawing d has done, and what a step makes of it. *)

CanRun(d, r, x) == x \notin ToSet(r.ran) /\ Upstream(d, x) \subseteq ToSet(r.ran)

\* What r has done so far: nodes in order, and none passed by that could have run.
Swept(d, r) ==
  /\ r.ran \in Seq(STRING) /\ Ordered(d, r.ran) /\ r.at \in Nat \ {0}
  /\ r.node # NoNode => r.node \in STRING /\ Ordered(d, Append(r.ran, r.node))
  /\ r.phase = "entered" => r.ran = <<>> /\ r.node = NoNode /\ r.at = 1
  /\ r.phase = "sweep" /\ r.node = NoNode /\ ~r.moved =>
       \A i \in 1..Len(d.nodes) : i < r.at => ~CanRun(d, r, d.nodes[i])
  /\ r.ans = "ok" => r.phase = "ended" /\ ToSet(r.ran) = Acyclic(d)

\* Its moves.
Same(r, q) == q.ran = r.ran /\ q.node = r.node
GoesOn(r, q) == r.phase = "sweep" /\ q.phase = "sweep" /\ r.ans = "none" /\ q.ans = "none"

\* A canvas enters, is refused or cancelled, or goes on while its nodes call.
Waits(r, q) ==
  /\ Same(r, q) /\ q.at = r.at /\ q.moved = r.moved
  /\ \/ q.phase = r.phase /\ q.ans = r.ans
     \/ r.phase = "entered" /\ q.phase = "sweep" /\ r.ans # "ok" /\ q.ans = r.ans
     \/ r.phase # "ended" /\ r.ans # "ok" /\ q.phase = "ended" /\ q.ans # "ok"

\* The first node that can run begins; a node is over; the sweep starts anew; no node is left.
NodeBegins(d, r, q) ==
  /\ GoesOn(r, q) /\ r.node = NoNode /\ q.ran = r.ran
  /\ \E i \in 1..Len(d.nodes) :
       /\ q.at = i + 1 /\ q.node = d.nodes[i] /\ CanRun(d, r, d.nodes[i])
NodeOver(r, q) ==
  /\ GoesOn(r, q) /\ r.node # NoNode /\ q.ran = Append(r.ran, r.node) /\ q.node = NoNode
  /\ q.moved /\ q.at = r.at
Restarts(r, q) == GoesOn(r, q) /\ r.node = NoNode /\ Same(r, q) /\ q.at = 1
CanvasAnswers(d, r, q) ==
  /\ r.phase = "sweep" /\ r.ans = "none" /\ r.node = NoNode /\ Same(r, q)
  /\ q.phase = "ended" /\ q.ans = "ok" /\ q.at = r.at
  /\ \A i \in 1..Len(d.nodes) : r.at <= i => ~CanRun(d, r, d.nodes[i])
  /\ ~r.moved \/ Len(r.ran) = Len(d.nodes)

\* A node that can run, behind those that have.
LEMMA OneMore ==
  ASSUME NEW d, Drawing(d), NEW r, r.ran \in Seq(STRING), Ordered(d, r.ran),
         NEW x \in NodesOf(d), CanRun(d, r, x)
  PROVE  Ordered(d, Append(r.ran, x)) /\ x \in STRING /\ x # NoNode
<1> DEFINE s == r.ran
           n == Len(s)
           t == Append(s, x)
<1>1. x \in STRING /\ x # NoNode
  BY DrawingFacts DEF Drawing
<1>2. /\ n \in Nat /\ DOMAIN s = 1..n /\ DOMAIN t = 1..(n + 1) /\ t[n + 1] = x
      /\ \A i \in 1..n : t[i] = s[i]
  BY <1>1
<1>3. ToSet(s) = {s[j] : j \in 1..n}
  BY <1>2 DEF ToSet
<1>4. x \notin ToSet(s) /\ Upstream(d, x) \subseteq ToSet(s)
  BY DEF CanRun
<1> HIDE DEF t, n
<1>5. ASSUME NEW i \in 1..(n + 1)
      PROVE  /\ t[i] \in NodesOf(d) /\ \A j \in 1..(n + 1) : t[j] = t[i] => j = i
             /\ Upstream(d, t[i]) \subseteq {t[j] : j \in 1..(i - 1)}
  <2>1. CASE i = n + 1
    <3>1. \A j \in 1..(n + 1) : t[j] = t[i] => j = i
      BY <1>2, <1>3, <1>4, <2>1
    <3>2. {t[j] : j \in 1..(i - 1)} = ToSet(s)
      BY <1>2, <1>3, <2>1
    <3>3. QED
      BY <1>2, <1>4, <2>1, <3>1, <3>2
  <2>2. CASE i # n + 1
    <3>1. i \in 1..n /\ t[i] = s[i]
      BY <1>2, <2>2
    <3>2. /\ s[i] \in NodesOf(d) /\ \A j \in 1..n : s[j] = s[i] => j = i
          /\ Upstream(d, s[i]) \subseteq {s[j] : j \in 1..(i - 1)}
      BY <1>2, <3>1 DEF Ordered
    <3>3. \A j \in 1..(n + 1) : t[j] = t[i] => j = i
      <4>1. TAKE j \in 1..(n + 1)
      <4>2. CASE j = n + 1
        BY <1>2, <1>3, <1>4, <3>1, <4>2
      <4>3. CASE j # n + 1
        <5>1. j \in 1..n /\ t[j] = s[j]
          BY <1>2, <4>3
        <5>2. QED
          BY <3>1, <3>2, <5>1
      <4>4. QED
        BY <4>2, <4>3
    <3>4. {t[j] : j \in 1..(i - 1)} = {s[j] : j \in 1..(i - 1)}
      BY <1>2, <3>1
    <3>5. QED
      BY <3>1, <3>2, <3>3, <3>4
  <2>3. QED
    BY <2>1, <2>2
<1>6. Ordered(d, t)
  BY <1>2, <1>5 DEF Ordered
<1>7. QED
  BY <1>1, <1>6 DEF t

\* A canvas ends when no node is left that can run.
LEMMA AllRan ==
  ASSUME NEW d, Drawing(d), NEW r, NEW q, Swept(d, r), CanvasAnswers(d, r, q)
  PROVE  ToSet(r.ran) = Acyclic(d)
<1>1. r.ran \in Seq(STRING) /\ Ordered(d, r.ran)
  BY DEF Swept
<1>2. ToSet(r.ran) \subseteq Acyclic(d)
  BY <1>1, OrderedAcyclic
<1>3. CASE Len(r.ran) = Len(d.nodes)
  BY <1>1, <1>2, <1>3, OrderedLength, DrawingFacts
<1>4. CASE ~r.moved
  <2>1. r.at \in Nat /\ Len(d.nodes) \in Nat
    BY RanksUnfold DEF Swept
  <2>2. \A i \in 1..Len(d.nodes) : i < r.at => ~CanRun(d, r, d.nodes[i])
    BY <1>4 DEF Swept, CanvasAnswers
  <2>3. \A i \in 1..Len(d.nodes) : r.at <= i => ~CanRun(d, r, d.nodes[i])
    BY DEF CanvasAnswers
  <2>4. \A i \in 1..Len(d.nodes) : ~CanRun(d, r, d.nodes[i])
    BY <2>1, <2>2, <2>3
  <2>5. NodesOf(d) = {d.nodes[i] : i \in 1..Len(d.nodes)}
    BY DEF Drawing, NodesOf, ToSet
  <2>6. \A x \in NodesOf(d) : x \in ToSet(r.ran) \/ ~(Upstream(d, x) \subseteq ToSet(r.ran))
    BY <2>4, <2>5 DEF CanRun
  <2>7. Acyclic(d) \subseteq ToSet(r.ran)
    BY <2>6, StuckAcyclic
  <2>8. QED
    BY <1>2, <2>7
<1>5. QED
  BY <1>3, <1>4 DEF CanvasAnswers

\* All its moves, and that they keep what it has done.
CanvasMoves(d, r, q) ==
  Waits(r, q) \/ NodeBegins(d, r, q) \/ NodeOver(r, q) \/ Restarts(r, q) \/ CanvasAnswers(d, r, q)

LEMMA SweptMoves ==
  ASSUME NEW d, Drawing(d), NEW r, NEW q, Swept(d, r), CanvasMoves(d, r, q)
  PROVE  Swept(d, q)
<1>1. CASE Waits(r, q)
  <2>1. \A x : CanRun(d, q, x) <=> CanRun(d, r, x)
    BY <1>1 DEF Waits, Same, CanRun
  <2>2. /\ q.ran \in Seq(STRING) /\ Ordered(d, q.ran) /\ q.at \in Nat \ {0}
        /\ q.node # NoNode => q.node \in STRING /\ Ordered(d, Append(q.ran, q.node))
    BY <1>1 DEF Waits, Same, Swept
  <2>3. CASE q.phase = r.phase /\ q.ans = r.ans
    BY <1>1, <2>1, <2>2, <2>3 DEF Waits, Same, Swept
  <2>4. CASE r.phase = "entered" /\ q.phase = "sweep" /\ r.ans # "ok" /\ q.ans = r.ans
    <3>1. q.at = 1
      BY <1>1, <2>4 DEF Waits, Swept
    <3>2. \A i \in 1..Len(d.nodes) : ~(i < q.at)
      BY <3>1, RanksUnfold
    <3>3. QED
      BY <2>2, <2>4, <3>2 DEF Swept
  <2>5. CASE q.phase = "ended" /\ q.ans # "ok"
    BY <2>2, <2>5 DEF Swept
  <2>6. QED
    BY <1>1, <2>3, <2>4, <2>5 DEF Waits
<1>2. CASE NodeBegins(d, r, q)
  <2>1. PICK i \in 1..Len(d.nodes) : q.at = i + 1 /\ q.node = d.nodes[i] /\ CanRun(d, r, d.nodes[i])
    BY <1>2 DEF NodeBegins
  <2>2. d.nodes[i] \in NodesOf(d) /\ i + 1 \in Nat \ {0}
    BY <2>1 DEF Drawing, NodesOf, ToSet
  <2>3. r.ran \in Seq(STRING) /\ Ordered(d, r.ran) /\ q.ran = r.ran
    BY <1>2 DEF Swept, NodeBegins
  <2>4. Ordered(d, Append(r.ran, d.nodes[i])) /\ d.nodes[i] \in STRING /\ d.nodes[i] # NoNode
    BY <2>1, <2>2, <2>3, OneMore
  <2>5. QED
    BY <1>2, <2>1, <2>2, <2>3, <2>4 DEF Swept, NodeBegins, GoesOn
<1>3. CASE NodeOver(r, q)
  <2>1. r.ran \in Seq(STRING) /\ r.node \in STRING /\ Ordered(d, Append(r.ran, r.node))
    BY <1>3 DEF Swept, NodeOver
  <2>2. Append(r.ran, r.node) \in Seq(STRING)
    BY <2>1
  <2>3. QED
    BY <1>3, <2>1, <2>2 DEF Swept, NodeOver, GoesOn
<1>4. CASE Restarts(r, q)
  <2>1. \A i \in 1..Len(d.nodes) : ~(i < q.at)
    BY <1>4, RanksUnfold DEF Restarts
  <2>2. QED
    BY <1>4, <2>1 DEF Swept, Restarts, Same, GoesOn
<1>5. CASE CanvasAnswers(d, r, q)
  <2>1. ToSet(q.ran) = Acyclic(d)
    BY <1>5, AllRan DEF CanvasAnswers, Same
  <2>2. QED
    BY <1>5, <2>1 DEF Swept, CanvasAnswers, Same
<1>6. QED
  BY <1>1, <1>2, <1>3, <1>4, <1>5 DEF CanvasMoves

-----------------------------------------------------------------------------
(* What a step makes of the first call, when it is a canvas. *)

\* The first of a sequence, when others are put behind.
LEMMA HeadKept ==
  ASSUME NEW base, NEW new, Sequence(base), Sequence(new), 1 \in DOMAIN base
  PROVE  1 \in DOMAIN (base \o new) /\ (base \o new)[1] = base[1]
BY Joined

LEMMA HeadKeptOne ==
  ASSUME NEW base, NEW x, Sequence(base), 1 \in DOMAIN base
  PROVE  1 \in DOMAIN Append(base, x) /\ Append(base, x)[1] = base[1]
<1>1. Len(base) \in Nat /\ DOMAIN base = 1..Len(base) /\ base \in Seq(ToSet(base) \cup {x})
  <2>1. base \in Seq(ToSet(base)) /\ ToSet(base) \subseteq (ToSet(base) \cup {x})
    BY DEF Sequence
  <2>2. \A S, T : S \subseteq T => Seq(S) \subseteq Seq(T)
    OBVIOUS
  <2>3. QED
    BY <2>1, <2>2, SequenceFacts, Zenon
<1>2. QED
  BY <1>1

\* A list of calls, one field of one of them changed.
LEMMA StillList ==
  ASSUME TypeInv, NEW base, DOMAIN base = Frames, base = [g \in Frames |-> base[g]]
  PROVE  Sequence(base)
BY SameSequence DEF TypeInv, PlaceInv, Frames

\* A step of another call leaves the first one alone.
LEMMA Elsewhere ==
  ASSUME IInv, 1 \in Frames, NEW f \in Frames, f # 1, Step(f)
  PROVE  1 \in Frames' /\ frames'[1] = frames[1] /\ workflow' = workflow
<1>1. TypeInv /\ DOMAIN frames = Frames /\ frames = [g \in Frames |-> frames[g]]
  BY FrameFacts DEF IInv
<1>2. CASE OneTool(f) \/ NodeCalls(f)
  <2>1. PICK base, t : /\ frames' = Append(base, Frame(t, f, frames[f].task))
                       /\ \/ base = [frames EXCEPT ![f].turns = @ + 1]
                          \/ base = [frames EXCEPT ![f].left = @ - 1]
    BY <1>2 DEF OneTool, NodeCalls
  <2>2. DOMAIN base = Frames /\ base = [g \in Frames |-> base[g]] /\ base[1] = frames[1]
    BY <1>1, <2>1
  <2>3. Sequence(base) /\ 1 \in DOMAIN base
    BY <1>1, <2>2, StillList
  <2>4. workflow' = workflow
    BY <1>2 DEF OneTool, NodeCalls
  <2>5. QED
    BY <2>1, <2>2, <2>3, <2>4, HeadKeptOne DEF Frames
<1>3. CASE Gather(f)
  <2>1. PICK ts \in SUBSET Def(f).tools :
          LET order == SetToSeq(ts)
              new == [i \in DOMAIN order |-> Frame(order[i], f, Len(depth) + i)]
          IN frames' = [frames EXCEPT ![f].turns = @ + 1] \o new
    BY <1>3 DEF Gather
  <2> DEFINE order == SetToSeq(ts)
             n == Cardinality(ts)
             new == [i \in 1..n |-> Frame(order[i], f, Len(depth) + i)]
             base == [frames EXCEPT ![f].turns = @ + 1]
  <2>2. frames[f].tool \in DOMAIN workflow.defs /\ Def(f).kind = "subpipeline" /\ Def(f).given
    BY <1>1, <1>3, FrameFacts DEF Gather, Told, Def
  <2>3. IsFiniteSet(ts)
    <3>1. IsFiniteSet(Def(f).tools)
      BY <1>1, <2>2, FrozenAssumption DEF Def, TypeInv
    <3>2. QED
      BY <3>1, FS_Subset
  <2>4. DOMAIN order = 1..n /\ n \in Nat
    BY <2>3, InOrder
  <2>5. frames' = base \o new
    BY <2>1, <2>4, Zenon
  <2> HIDE DEF order, n
  <2>6. Sequence(new)
    <3>1. DOMAIN new = 1..n /\ new = [i \in 1..n |-> new[i]]
      BY Zenon
    <3>2. \A i \in 1..n : new[i] \in ToSet(new)
      BY <3>1 DEF ToSet
    <3> HIDE DEF new
    <3>3. new \in Seq(ToSet(new))
      BY <2>4, <3>1, <3>2, SeqDef
    <3>4. QED
      BY <2>4, <3>1, <3>3, SeqDef DEF Sequence
  <2>7. DOMAIN base = Frames /\ base = [g \in Frames |-> base[g]] /\ base[1] = frames[1]
    BY <1>1
  <2> HIDE DEF base, new
  <2>8. Sequence(base) /\ 1 \in DOMAIN base
    BY <1>1, <2>7, StillList
  <2>9. 1 \in DOMAIN (base \o new) /\ (base \o new)[1] = base[1]
    BY <2>6, <2>8, HeadKept
  <2>10. workflow' = workflow
    BY <1>3 DEF Gather
  <2>11. QED
    BY <2>5, <2>7, <2>9, <2>10 DEF Frames
\* The other steps change fields of f.
<1>4. CASE ~(OneTool(f) \/ NodeCalls(f) \/ Gather(f))
  <2>1. CASE Unknown(f) \/ Noop(f) \/ HttpRefused(f) \/ HttpRequest(f) \/ RagUnset(f) \/ McpUnset(f)
             \/ NothingToRun(f) \/ TooDeep(f)
    <3>1. \E a : Answer(f, a)
      BY <2>1 DEF Unknown, Noop, HttpRefused, HttpRequest, RagUnset, McpUnset, NothingToRun, TooDeep
    <3>2. QED
      BY <1>1, <3>1 DEF Answer, Ended, Frames
  <2>2. CASE HttpStarts(f) \/ RagStarts(f) \/ McpStarts(f)
    <3>1. \E place : Goto(f, place)
      BY <2>2 DEF HttpStarts, RagStarts, McpStarts
    <3>2. QED
      BY <1>1, <3>1 DEF Goto, Frames
  <2>3. CASE RagDirect(f) \/ RagShim(f) \/ McpSpawn(f) \/ McpStation(f)
    <3>1. \/ \E way, o, next, configured : Attempt(f, way, o, next, configured)
          \/ Answer(f, "told")
      BY <2>3 DEF RagDirect, RagShim, McpSpawn, McpStation
    <3>2. CASE Answer(f, "told")
      BY <1>1, <3>2 DEF Answer, Ended, Frames
    <3>3. CASE \E way, o, next, configured : Attempt(f, way, o, next, configured)
      <4>1. PICK way, o, next, configured : Attempt(f, way, o, next, configured)
        BY <3>3
      <4>2. workflow' = workflow
        BY <4>1 DEF Attempt
      <4>3. CASE o # "ok" /\ configured
        BY <1>1, <4>1, <4>2, <4>3 DEF Attempt, Frames
      <4>4. CASE ~(o # "ok" /\ configured)
        BY <1>1, <4>1, <4>2, <4>4 DEF Attempt, Frames
      <4>5. QED
        BY <4>3, <4>4
    <3>4. QED
      BY <3>1, <3>2, <3>3
  <2>4. CASE Enter(f)
    BY <1>1, <2>4 DEF Enter, Frames
  <2>5. CASE PipelineEnds(f)
    BY <1>1, <2>5 DEF PipelineEnds, Leave, Ended, Frames
  <2>6. CASE BeginNode(f)
    <3>1. PICK a, n, k, v :
            frames' = [frames EXCEPT ![f].at = a, ![f].node = n, ![f].left = k, ![f].in = v]
      <4> DEFINE i == Min(Reachable(f))
                 n == Def(f).nodes[i]
                 v == Input(Def(f), n, frames[f].out)
      <4>1. PICK k : frames' = [frames EXCEPT ![f].at = i + 1, ![f].node = n, ![f].left = k,
                                              ![f].in = v]
        BY <2>6, Zenon DEF BeginNode
      <4> HIDE DEF i, n, v
      <4>2. QED
        BY <4>1
    <3>2. QED
      BY <1>1, <2>6, <3>1 DEF BeginNode, Frames
  <2>7. CASE NodeEnds(f)
    <3>1. PICK a, b : frames' = [frames EXCEPT ![f].ran = a, ![f].moved = TRUE,
                                               ![f].node = NoNode, ![f].out = b]
      BY <2>7 DEF NodeEnds
    <3>2. QED
      BY <1>1, <2>7, <3>1 DEF NodeEnds, Frames
  <2>8. CASE NextSweep(f)
    BY <1>1, <2>8 DEF NextSweep, Frames
  <2>9. CASE CanvasEnds(f)
    <3>1. PICK r : frames' = [frames EXCEPT ![f].phase = "ended", ![f].ans = "ok", ![f].in = r]
      BY <2>9 DEF CanvasEnds
    <3>2. QED
      BY <1>1, <2>9, <3>1 DEF CanvasEnds, Frames
  <2>10. QED
    BY <1>4, <2>1, <2>2, <2>3, <2>4, <2>5, <2>6, <2>7, <2>8, <2>9 DEF Step
<1>5. QED
  BY <1>2, <1>3, <1>4

\* What the drawing is, and when the first call is one of it.
LEMMA CanvasFacts ==
  ASSUME TypeInv, IsCanvas
  PROVE  /\ Outer.kind = "canvas" /\ Drawing(Outer)
         /\ \E t \in DOMAIN workflow.defs : workflow.roots = {t} /\ Outer = workflow.defs[t]
<1>1. PICK t \in DOMAIN workflow.defs : workflow.roots = {t} /\ workflow.defs[t].kind = "canvas"
  BY DEF IsCanvas
<1>2. (CHOOSE x \in workflow.roots : TRUE) = t
  BY <1>1
<1>3. Outer = workflow.defs[t]
  BY <1>2 DEF Outer
<1>4. workflow \in Workflows
  BY DEF TypeInv
<1>5. Drawing(Outer)
  BY <1>1, <1>3, <1>4, FrozenAssumption DEF Drawing, NodesOf
<1>6. QED
  BY <1>1, <1>3, <1>5

LEMMA Started == ASSUME TypeInv PROVE frames # <<>> <=> 1 \in Frames
<1>1. Sequence(frames) /\ Len(frames) \in Nat /\ Frames = 1..Len(frames) /\ frames \in Seq(ToSet(frames))
  BY SequenceFacts DEF TypeInv, PlaceInv, Frames
<1>2. frames = <<>> => 1 \notin Frames
  BY EmptyFacts DEF Frames
<1>3. 1 \notin Frames => frames = <<>>
  BY <1>1
<1>4. QED
  BY <1>2, <1>3

\* The first call runs the drawing.
Drawn == 1 \in Frames /\ frames[1].tool \in DOMAIN workflow.defs /\ Def(1).kind = "canvas"

\* A step of the first call is one of a canvas.
LEMMA CanvasStep ==
  ASSUME IInv, Drawn, frames[1].at \in Nat \ {0}, Drawing(Def(1)), Step(1)
  PROVE  /\ CanvasMoves(Def(1), frames[1], frames'[1]) /\ workflow' = workflow
         /\ 1 \in Frames' /\ frames'[1].tool = frames[1].tool
<1> DEFINE d == Def(1)
           r == frames[1]
<1>1. /\ TypeInv /\ 1 \in Frames /\ DOMAIN frames = Frames /\ DOMAIN r = Fields
      /\ frames = [g \in Frames |-> frames[g]] /\ Told(workflow, r) /\ d.kind = "canvas"
      /\ r.tool \in DOMAIN workflow.defs
  BY FrameFacts DEF IInv, Drawn
<1>2. r.phase \in {"entered", "sweep", "ended"} /\ (r.phase # "ended" => r.ans = "none")
  BY <1>1 DEF Told, Def
<1>3. CASE NothingToRun(1) \/ TooDeep(1)
  <2>1. PICK a \in {"error", "refused"} : Answer(1, a)
    BY <1>3 DEF NothingToRun, TooDeep
  <2>2. r.phase = "entered"
    BY <1>3 DEF NothingToRun, TooDeep, Nesting, Kind
  <2>3. /\ frames'[1] = [r EXCEPT !.phase = "ended", !.ans = a] /\ workflow' = workflow
        /\ 1 \in Frames'
    BY <1>1, <2>1 DEF Answer, Ended, Frames
  <2>4. frames'[1].tool = r.tool /\ Waits(r, frames'[1])
    BY <1>1, <1>2, <2>2, <2>3 DEF Waits, Same, Fields
  <2>5. QED
    BY <2>3, <2>4 DEF CanvasMoves
<1>4. CASE Enter(1)
  <2>1. r.phase = "entered"
    BY <1>4 DEF Enter, Nesting, Kind
  <2>2. \E s : /\ frames'[1] = [r EXCEPT !.saved = s, !.phase = "sweep"] /\ workflow' = workflow
               /\ 1 \in Frames'
    BY <1>1, <1>4 DEF Enter, Frames
  <2>3. frames'[1].tool = r.tool /\ Waits(r, frames'[1])
    BY <1>1, <1>2, <2>1, <2>2 DEF Waits, Same, Fields
  <2>4. QED
    BY <2>2, <2>3 DEF CanvasMoves
<1>5. CASE BeginNode(1)
  <2>1. /\ Sweeping(1) /\ Reachable(1) # {} /\ workflow' = workflow
        /\ r.phase = "sweep" /\ r.node = NoNode
    BY <1>5 DEF BeginNode, Sweeping
  <2>2. Reachable(1) \in SUBSET (1..Len(d.nodes))
    BY <1>1, RanksUnfold DEF Reachable
  <2>3. Min(Reachable(1)) \in Reachable(1)
    <3>1. Reachable(1) \in SUBSET Nat
      BY <2>2
    <3>2. Deciding(Reachable(1)) \in Reachable(1)
          /\ \A i \in Reachable(1) : Deciding(Reachable(1)) <= i
      BY <2>1, <3>1, FirstDecides
    <3>3. QED
      BY <3>2 DEF Min
  <2>4. PICK i \in Reachable(1) : i = Min(Reachable(1))
    BY <2>3
  <2>5. PICK k, v : frames' = [frames EXCEPT ![1].at = i + 1, ![1].node = d.nodes[i],
                                             ![1].left = k, ![1].in = v]
    <3> DEFINE v == Input(Def(1), Def(1).nodes[i], frames[1].out)
    <3>1. PICK k : frames' = [frames EXCEPT ![1].at = i + 1, ![1].node = d.nodes[i],
                                            ![1].left = k, ![1].in = v]
      BY <1>5, <2>4, Zenon DEF BeginNode
    <3> HIDE DEF v
    <3>2. QED
      BY <3>1
  <2>6. i \in 1..Len(d.nodes) /\ CanRun(d, r, d.nodes[i])
    BY <2>2 DEF Reachable, Ready, CanRun
  <2>7. /\ frames'[1].at = i + 1 /\ frames'[1].node = d.nodes[i] /\ frames'[1].ran = r.ran
        /\ frames'[1].phase = r.phase /\ frames'[1].ans = r.ans /\ frames'[1].tool = r.tool
        /\ 1 \in Frames'
    BY <1>1, <2>5 DEF Fields, Frames
  <2>8. NodeBegins(d, r, frames'[1])
    BY <1>2, <2>1, <2>6, <2>7 DEF NodeBegins, GoesOn
  <2>9. QED
    BY <2>1, <2>7, <2>8 DEF CanvasMoves
<1>6. CASE NodeCalls(1)
  <2>1. PICK t : frames' = Append([frames EXCEPT ![1].left = @ - 1], Frame(t, 1, frames[1].task))
    BY <1>6 DEF NodeCalls
  <2> DEFINE base == [frames EXCEPT ![1].left = @ - 1]
  <2>2. /\ DOMAIN base = Frames /\ base = [g \in Frames |-> base[g]]
        /\ base[1].ran = r.ran /\ base[1].node = r.node /\ base[1].at = r.at
        /\ base[1].moved = r.moved /\ base[1].phase = r.phase /\ base[1].ans = r.ans
        /\ base[1].tool = r.tool
    BY <1>1 DEF Fields
  <2>3. frames' = Append(base, Frame(t, 1, frames[1].task))
    BY <2>1
  <2> HIDE DEF base
  <2>4. 1 \in Frames' /\ frames'[1] = base[1]
    BY <1>1, <2>2, <2>3, StillList, HeadKeptOne DEF Frames
  <2>5. Waits(r, frames'[1])
    BY <2>2, <2>4 DEF Waits, Same
  <2>6. workflow' = workflow
    BY <1>6 DEF NodeCalls
  <2>7. QED
    BY <2>2, <2>4, <2>5, <2>6 DEF CanvasMoves
<1>7. CASE NodeEnds(1)
  <2>1. r.phase = "sweep" /\ r.node # NoNode /\ workflow' = workflow
    BY <1>7 DEF NodeEnds
  <2>2. PICK b : frames' = [frames EXCEPT ![1].ran = Append(r.ran, r.node), ![1].moved = TRUE,
                                          ![1].node = NoNode, ![1].out = b]
    <3>1. PICK v : frames' = [frames EXCEPT ![1].ran = Append(@, frames[1].node), ![1].moved = TRUE,
                                ![1].node = NoNode, ![1].out = (frames[1].node :> v) @@ @]
      BY <1>7 DEF NodeEnds
    <3>2. frames' = [frames EXCEPT ![1].ran = Append(r.ran, r.node), ![1].moved = TRUE,
                                ![1].node = NoNode, ![1].out = (r.node :> v) @@ r.out]
      BY <1>1, <3>1 DEF Fields
    <3>3. QED
      BY <3>2
  <2>3. /\ frames'[1].ran = Append(r.ran, r.node) /\ frames'[1].node = NoNode /\ frames'[1].moved
        /\ frames'[1].at = r.at /\ frames'[1].phase = r.phase /\ frames'[1].ans = r.ans
        /\ frames'[1].tool = r.tool /\ 1 \in Frames'
    BY <1>1, <2>2 DEF Fields, Frames
  <2>4. NodeOver(r, frames'[1])
    BY <1>2, <2>1, <2>3 DEF NodeOver, GoesOn
  <2>5. QED
    BY <2>1, <2>3, <2>4 DEF CanvasMoves
<1>8. CASE NextSweep(1)
  <2>1. /\ r.phase = "sweep" /\ r.node = NoNode /\ workflow' = workflow
        /\ frames' = [frames EXCEPT ![1].at = 1, ![1].moved = FALSE]
    BY <1>8 DEF NextSweep, Sweeping
  <2>2. /\ frames'[1].at = 1 /\ frames'[1].ran = r.ran /\ frames'[1].node = r.node
        /\ frames'[1].phase = r.phase /\ frames'[1].ans = r.ans
        /\ frames'[1].tool = r.tool /\ 1 \in Frames'
    BY <1>1, <2>1 DEF Fields, Frames
  <2>3. Restarts(r, frames'[1])
    BY <1>2, <2>1, <2>2 DEF Restarts, Same, GoesOn
  <2>4. QED
    BY <2>1, <2>2, <2>3 DEF CanvasMoves
<1>9. CASE CanvasEnds(1)
  <2>1. PICK v : frames' = [frames EXCEPT ![1].phase = "ended", ![1].ans = "ok", ![1].in = v]
    BY <1>9 DEF CanvasEnds
  <2>2. /\ r.phase = "sweep" /\ r.node = NoNode /\ workflow' = workflow /\ Reachable(1) = {}
        /\ ~r.moved \/ Len(r.ran) = Len(d.nodes)
    BY <1>9 DEF CanvasEnds, Sweeping
  <2>3. /\ frames'[1].at = r.at /\ frames'[1].ran = r.ran /\ frames'[1].node = r.node
        /\ frames'[1].phase = "ended" /\ frames'[1].ans = "ok"
        /\ frames'[1].tool = r.tool /\ 1 \in Frames'
    BY <1>1, <2>1 DEF Fields, Frames
  <2>4. \A i \in 1..Len(d.nodes) : r.at <= i => ~CanRun(d, r, d.nodes[i])
    <3>1. ASSUME NEW i \in 1..Len(d.nodes), r.at <= i PROVE i \in r.at..Len(d.nodes)
      BY <3>1, RanksUnfold
    <3>2. \A i \in r.at..Len(d.nodes) : ~CanRun(d, r, d.nodes[i])
      BY <2>2 DEF Reachable, Ready, CanRun
    <3>3. QED
      BY <3>1, <3>2
  <2>5. CanvasAnswers(d, r, frames'[1])
    BY <1>2, <2>2, <2>3, <2>4 DEF CanvasAnswers, Same
  <2>6. QED
    BY <2>2, <2>3, <2>5 DEF CanvasMoves
\* The other steps are those of tools of other kinds.
<1>10. CASE Unknown(1) \/ Noop(1) \/ HttpRefused(1) \/ HttpStarts(1) \/ HttpRequest(1)
            \/ RagUnset(1) \/ RagStarts(1) \/ RagDirect(1) \/ RagShim(1)
            \/ McpUnset(1) \/ McpStarts(1) \/ McpSpawn(1) \/ McpStation(1)
            \/ Gather(1) \/ OneTool(1) \/ PipelineEnds(1)
  BY <1>1, <1>2, <1>10
     DEF Unknown, Noop, HttpRefused, HttpStarts, HttpRequest, RagUnset, RagStarts, RagDirect,
         RagShim, McpUnset, McpStarts, McpSpawn, McpStation, Gather, OneTool, PipelineEnds,
         Kind, Attempt
<1>11. QED
  BY <1>3, <1>4, <1>5, <1>6, <1>7, <1>8, <1>9, <1>10 DEF Step

\* The first call of all, if a canvas, runs the drawing of the workflow.
CanvasInv ==
  Running => Drawn /\ Def(1) = Outer /\ Swept(Outer, frames[1])

\* What a step makes of it: nothing is called yet, or the canvas is, or it moves.
FirstCalled ==
  /\ frames = <<>> /\ frames' # <<>> /\ 1 \in Frames' /\ frames'[1].tool \in workflow.roots
  /\ frames'[1].ran = <<>> /\ frames'[1].node = NoNode /\ frames'[1].at = 1
  /\ frames'[1].phase = "entered" /\ frames'[1].ans = "none"
FirstMoves ==
  /\ frames # <<>> /\ frames' # <<>> /\ 1 \in Frames' /\ frames'[1].tool = frames[1].tool
  /\ CanvasMoves(Outer, frames[1], frames'[1])

\* There are no other steps.
LEMMA NextFirst ==
  ASSUME IInv, CanvasInv, IsCanvas, [FrozenNext]_frozenVars
  PROVE  workflow' = workflow /\ (frames' = frames \/ FirstCalled \/ FirstMoves)
<1>1. /\ TypeInv /\ DOMAIN frames = Frames /\ (frames # <<>> <=> 1 \in Frames)
      /\ Sequence(frames) /\ Drawing(Outer)
  BY Started, CanvasFacts DEF IInv, TypeInv, PlaceInv, Frames
<1>2. frames # <<>> => Drawn /\ Def(1) = Outer /\ Swept(Outer, frames[1])
  BY DEF CanvasInv, Running
<1>3. \A r : Waits(r, r)
  BY DEF Waits, Same
<1>4. 1 \in Frames' => frames' # <<>>
  BY EmptyFacts DEF Frames
<1>5. CASE RootCall
  <2>1. PICK t \in workflow.roots : frames' = Append(frames, Frame(t, 0, 1))
    BY <1>5 DEF RootCall
  <2>2. workflow' = workflow
    BY <1>5 DEF RootCall
  <2>3. CASE frames = <<>>
    <3>1. 1 \in Frames' /\ frames'[1] = Frame(t, 0, 1)
      <4>1. frames' = <<Frame(t, 0, 1)>>
        BY <2>1, <2>3
      <4>2. QED
        BY <4>1 DEF Frames
    <3>2. QED
      BY <1>4, <2>2, <2>3, <3>1 DEF FirstCalled, Frame
  <2>4. CASE frames # <<>>
    <3>1. 1 \in Frames' /\ frames'[1] = frames[1]
      BY <1>1, <2>1, <2>4, HeadKeptOne DEF Frames
    <3>2. FirstMoves
      BY <1>3, <1>4, <2>4, <3>1 DEF FirstMoves, CanvasMoves
    <3>3. QED
      BY <2>2, <3>2
  <2>5. QED
    BY <2>3, <2>4
<1>6. ASSUME NEW f \in Frames, Step(f)
      PROVE  workflow' = workflow /\ FirstMoves
  <2>1. 1 \in Frames /\ frames # <<>>
    <3>1. Frames = 1..Len(frames) /\ Len(frames) \in Nat
      BY <1>1, SequenceFacts
    <3>2. QED
      BY <1>1, <1>6, <3>1
  <2>2. CASE f = 1
    <3>1. frames[1].at \in Nat \ {0} /\ Drawing(Def(1)) /\ Drawn
      BY <1>1, <1>2, <2>1 DEF Swept
    <3>2. /\ CanvasMoves(Def(1), frames[1], frames'[1]) /\ workflow' = workflow
          /\ 1 \in Frames' /\ frames'[1].tool = frames[1].tool
      BY <1>6, <2>2, <3>1, CanvasStep
    <3>3. QED
      BY <1>2, <1>4, <2>1, <3>2 DEF FirstMoves
  <2>3. CASE f # 1
    <3>1. 1 \in Frames' /\ frames'[1] = frames[1] /\ workflow' = workflow
      BY <1>6, <2>1, <2>3, Elsewhere
    <3>2. QED
      BY <1>3, <1>4, <2>1, <3>1 DEF FirstMoves, CanvasMoves
  <2>4. QED
    BY <2>2, <2>3
<1>7. ASSUME NEW f \in Frames, Timeout(f)
      PROVE  workflow' = workflow /\ FirstMoves
  <2>1. 1 \in Frames /\ frames # <<>>
    <3>1. Frames = 1..Len(frames) /\ Len(frames) \in Nat
      BY <1>1, SequenceFacts
    <3>2. QED
      BY <1>1, <1>7, <3>1
  <2>2. workflow' = workflow
    BY <1>7 DEF Timeout
  <2> DEFINE gone == {g \in Frames : Open(g) /\ f \in Above(g)}
  <2>3. frames' = [g \in Frames |->
             IF g \in gone THEN [frames[g] EXCEPT !.phase = "ended", !.ans = "cancelled"]
             ELSE frames[g]]
    BY <1>7 DEF Timeout
  <2>4. 1 \in gone => frames[1].phase # "ended" /\ frames[1].ans = "none"
    <3>1. Told(workflow, frames[1])
      BY <1>1, <2>1, FrameFacts
    <3>2. QED
      BY <3>1 DEF Open, Told
  <2> HIDE DEF gone
  <2>5. 1 \in Frames'
    BY <2>1, <2>3 DEF Frames
  <2>6. DOMAIN frames[1] = Fields
    BY <1>1, <2>1, FrameFacts
  <2>7. CASE 1 \in gone
    <3>1. frames'[1] = [frames[1] EXCEPT !.phase = "ended", !.ans = "cancelled"]
      BY <2>1, <2>3, <2>7
    <3>2. frames'[1].tool = frames[1].tool /\ Waits(frames[1], frames'[1])
      BY <2>4, <2>6, <2>7, <3>1 DEF Waits, Same, Fields
    <3>3. QED
      BY <1>4, <2>1, <2>2, <2>5, <3>2 DEF FirstMoves, CanvasMoves
  <2>8. CASE 1 \notin gone
    <3>1. frames'[1] = frames[1]
      BY <2>1, <2>3, <2>8
    <3>2. QED
      BY <1>3, <1>4, <2>1, <2>2, <2>5, <3>1 DEF FirstMoves, CanvasMoves
  <2>9. QED
    BY <2>7, <2>8
<1>8. CASE UNCHANGED frozenVars
  BY <1>8 DEF frozenVars
<1>9. QED
  BY <1>5, <1>6, <1>7, <1>8 DEF FrozenNext

\* No step changes the workflow.
LEMMA WorkflowStays ==
  ASSUME [FrozenNext]_frozenVars
  PROVE  workflow' = workflow
<1>1. ASSUME NEW f \in Frames, Step(f) PROVE workflow' = workflow
  <2>1. CASE Unknown(f) \/ Noop(f) \/ HttpRefused(f) \/ HttpStarts(f) \/ HttpRequest(f)
             \/ RagUnset(f) \/ RagStarts(f) \/ McpUnset(f) \/ McpStarts(f)
             \/ NothingToRun(f) \/ TooDeep(f)
    BY <2>1 DEF Unknown, Noop, HttpRefused, HttpStarts, HttpRequest, RagUnset, RagStarts,
                McpUnset, McpStarts, NothingToRun, TooDeep, Answer, Goto
  <2>2. CASE RagDirect(f) \/ RagShim(f) \/ McpSpawn(f) \/ McpStation(f)
    BY <2>2 DEF RagDirect, RagShim, McpSpawn, McpStation, Attempt, Answer
  <2>3. CASE Enter(f) \/ Gather(f) \/ OneTool(f) \/ PipelineEnds(f)
    BY <2>3 DEF Enter, Gather, OneTool, PipelineEnds, Leave
  <2>4. CASE BeginNode(f) \/ NodeCalls(f) \/ NodeEnds(f) \/ NextSweep(f) \/ CanvasEnds(f)
    BY <2>4 DEF BeginNode, NodeCalls, NodeEnds, NextSweep, CanvasEnds
  <2>5. QED
    BY <1>1, <2>1, <2>2, <2>3, <2>4 DEF Step
<1>2. QED
  BY <1>1 DEF FrozenNext, RootCall, Timeout, frozenVars

\* The invariant of the canvas is kept.
LEMMA StepCanvas ==
  ASSUME IInv, CanvasInv, [FrozenNext]_frozenVars
  PROVE  CanvasInv' /\ workflow' = workflow
<1>1. TypeInv
  BY DEF IInv
<1>2. CASE ~IsCanvas
  <2>1. workflow' = workflow
    BY WorkflowStays
  <2>2. QED
    BY <1>2, <2>1 DEF CanvasInv, Running, IsCanvas
<1>3. CASE IsCanvas
  <2>1. workflow' = workflow /\ (frames' = frames \/ FirstCalled \/ FirstMoves)
    BY <1>3, NextFirst
  <2>2. Outer' = Outer /\ IsCanvas' /\ Drawing(Outer) /\ Outer.kind = "canvas"
    BY <1>1, <1>3, <2>1, CanvasFacts DEF Outer, IsCanvas
  <2>3. CASE frames' = frames
    BY <1>3, <2>1, <2>2, <2>3 DEF CanvasInv, Running, Drawn, Def, Frames
  <2>4. CASE FirstCalled
    <3>1. \E t \in DOMAIN workflow.defs : workflow.roots = {t} /\ Outer = workflow.defs[t]
      BY <1>1, <1>3, CanvasFacts
    <3>2. frames'[1].tool \in DOMAIN workflow.defs /\ workflow.defs[frames'[1].tool] = Outer
      BY <2>4, <3>1 DEF FirstCalled
    <3>3. Swept(Outer, frames'[1])
      <4>1. <<>> \in Seq(STRING) /\ Ordered(Outer, <<>>)
        BY DEF Ordered
      <4>2. QED
        BY <2>4, <4>1 DEF FirstCalled, Swept
    <3>4. QED
      BY <2>1, <2>2, <2>4, <3>2, <3>3 DEF CanvasInv, Drawn, Def, FirstCalled
  <2>5. CASE FirstMoves
    <3>1. Drawn /\ Def(1) = Outer /\ Swept(Outer, frames[1])
      BY <1>3, <2>5 DEF CanvasInv, Running, FirstMoves
    <3>2. Swept(Outer, frames'[1])
      BY <2>2, <2>5, <3>1, SweptMoves DEF FirstMoves
    <3>3. QED
      BY <2>1, <2>2, <2>5, <3>1, <3>2 DEF CanvasInv, Drawn, Def, FirstMoves
  <2>6. QED
    BY <2>1, <2>3, <2>4, <2>5
<1>4. QED
  BY <1>2, <1>3

-----------------------------------------------------------------------------
(* A canvas implements TaskGraph. *)

\* The variables of the graph of tasks.
Due == IF IsCanvas THEN Acyclic(Outer) ELSE {}
HangsOn == [n \in AllNodes |-> IF IsCanvas /\ n \in NodesOf(Outer) THEN Upstream(Outer, n) ELSE {}]
NodesBegun == IF Running THEN ToSet(frames[1].ran) \cup ({frames[1].node} \ {NoNode}) ELSE {}
NodesEnded == IF Running THEN ToSet(frames[1].ran) ELSE {}
Answered == Running /\ frames[1].ans = "ok"

\* An element put behind a sequence.
LEMMA PutBehind ==
  ASSUME NEW S, NEW s \in Seq(S), NEW x \in S
  PROVE  ToSet(Append(s, x)) = ToSet(s) \cup {x}
<1>1. /\ Len(s) \in Nat /\ DOMAIN s = 1..Len(s) /\ DOMAIN Append(s, x) = 1..(Len(s) + 1)
      /\ Append(s, x)[Len(s) + 1] = x /\ \A i \in 1..Len(s) : Append(s, x)[i] = s[i]
  OBVIOUS
<1>2. 1..(Len(s) + 1) = 1..Len(s) \cup {Len(s) + 1}
  BY <1>1
<1> DEFINE t == Append(s, x)
<1> HIDE DEF t
<1>3. {t[i] : i \in 1..(Len(s) + 1)} = {s[i] : i \in 1..Len(s)} \cup {x}
  BY <1>1, <1>2 DEF t
<1>4. QED
  BY <1>1, <1>3 DEF ToSet, t

\* The graph of the workflow is one of AllNodes.
LEMMA GraphFacts ==
  ASSUME TypeInv
  PROVE  Due \in SUBSET AllNodes /\ HangsOn \in [AllNodes -> SUBSET AllNodes]
<1>1. CASE ~IsCanvas
  BY <1>1 DEF Due, HangsOn
<1>2. CASE IsCanvas
  <2>1. PICK t \in DOMAIN workflow.defs : Outer = workflow.defs[t] /\ Outer.kind = "canvas"
    BY <1>2, CanvasFacts
  <2>2. NodesOf(Outer) \subseteq AllNodes
    <3>1. workflow \in Workflows /\ t \in {x \in DOMAIN workflow.defs : workflow.defs[x].kind = "canvas"}
      BY <2>1 DEF TypeInv
    <3> DEFINE these == {NodesOf(workflow.defs[x]) :
                         x \in {y \in DOMAIN workflow.defs : workflow.defs[y].kind = "canvas"}}
    <3>2. NodesOf(Outer) \in these
      BY <2>1, <3>1
    <3>3. UNION these \subseteq AllNodes
      BY <3>1 DEF AllNodes
    <3>4. QED
      BY <3>2, <3>3
  <2>3. Acyclic(Outer) \subseteq AllNodes /\ \A x : Upstream(Outer, x) \subseteq AllNodes
    BY <1>2, <2>2, CanvasFacts, DrawingFacts
  <2>4. QED
    BY <1>2, <2>3 DEF Due, HangsOn
<1>3. QED
  BY <1>1, <1>2

\* The initial states are those of a graph of tasks.
LEMMA FirstRefines == FrozenInit => Graph!Init
<1> SUFFICES ASSUME FrozenInit PROVE Graph!Init
  OBVIOUS
<1>1. Due \in SUBSET AllNodes /\ HangsOn \in [AllNodes -> SUBSET AllNodes]
  BY InitNest, GraphFacts DEF IInv
<1>2. NodesBegun = {} /\ NodesEnded = {} /\ Answered = FALSE
  BY DEF FrozenInit, Running, NodesBegun, NodesEnded, Answered
<1>3. QED
  BY <1>1, <1>2 DEF Graph!Init, Due, HangsOn, NodesBegun, NodesEnded, Answered

\* A step that leaves these alone is a stutter.
LEMMA NoTask ==
  ASSUME workflow' = workflow, NodesBegun' = NodesBegun, NodesEnded' = NodesEnded,
         Answered' = Answered
  PROVE  UNCHANGED Graph!vars
<1>1. Due' = Due /\ HangsOn' = HangsOn
  BY DEF Due, HangsOn, IsCanvas, Outer
<1>2. QED
  BY <1>1 DEF Graph!vars, Due, HangsOn, NodesBegun, NodesEnded, Answered

\* Each move of the canvas is a step of the graph of tasks or a stutter.
LEMMA MovesRefine ==
  ASSUME IInv, CanvasInv, IsCanvas, FirstMoves, workflow' = workflow
  PROVE  Graph!Next \/ UNCHANGED Graph!vars
<1> DEFINE d == Outer
           r == frames[1]
           q == frames'[1]
<1>1. TypeInv /\ Drawing(d) /\ Drawn /\ Def(1) = d /\ Swept(d, r)
  BY CanvasFacts DEF IInv, CanvasInv, Running, FirstMoves
<1>2. Running /\ Running' /\ Due' = Due /\ HangsOn' = HangsOn
  BY DEF FirstMoves, Running, IsCanvas, Due, HangsOn, Outer
<1>3. /\ NodesBegun = ToSet(r.ran) \cup ({r.node} \ {NoNode}) /\ NodesEnded = ToSet(r.ran)
      /\ NodesBegun' = ToSet(q.ran) \cup ({q.node} \ {NoNode}) /\ NodesEnded' = ToSet(q.ran)
      /\ (Answered <=> r.ans = "ok") /\ (Answered' <=> q.ans = "ok")
  BY <1>2 DEF NodesBegun, NodesEnded, Answered
<1>4. r.ran \in Seq(STRING) /\ Ordered(d, r.ran)
  BY <1>1 DEF Swept
<1>5. Due = Acyclic(d) /\ Due \in SUBSET AllNodes
      /\ \A n \in Due : HangsOn[n] = Upstream(d, n)
  BY <1>1, GraphFacts, DrawingFacts DEF Due, HangsOn
<1>6. CASE Waits(r, q) \/ Restarts(r, q)
  <2>1. NodesBegun' = NodesBegun /\ NodesEnded' = NodesEnded
    BY <1>3, <1>6 DEF Waits, Restarts, Same
  <2>2. Answered' = Answered
    BY <1>3, <1>6 DEF Waits, Restarts, GoesOn, Answered
  <2>3. QED
    BY <2>1, <2>2, NoTask
<1>7. CASE NodeBegins(d, r, q)
  <2>1. PICK i \in 1..Len(d.nodes) : q.node = d.nodes[i] /\ CanRun(d, r, d.nodes[i])
    BY <1>7 DEF NodeBegins
  <2> DEFINE n == d.nodes[i]
  <2>2. n \in NodesOf(d)
    BY <1>1, <2>1 DEF Drawing, NodesOf, ToSet
  <2>3. Ordered(d, Append(r.ran, n)) /\ n \in STRING /\ n # NoNode
    BY <1>1, <1>4, <2>1, <2>2, OneMore
  <2>4. n \in Due /\ n \notin ToSet(r.ran) /\ Upstream(d, n) \subseteq ToSet(r.ran)
    <3>1. Append(r.ran, n) \in Seq(STRING) /\ n \in ToSet(Append(r.ran, n))
      BY <1>4, <2>3, PutBehind
    <3>2. ToSet(Append(r.ran, n)) \subseteq Acyclic(d)
      BY <1>1, <2>3, <3>1, OrderedAcyclic
    <3>3. QED
      BY <1>5, <2>1, <3>1, <3>2 DEF CanRun
  <2> HIDE DEF n
  <2>5. /\ NodesBegun = NodesEnded /\ NodesBegun' = NodesBegun \cup {n}
        /\ NodesEnded' = NodesEnded /\ Answered' = Answered
    <3>1. r.node = NoNode /\ q.ran = r.ran /\ q.node = n
      BY <1>7, <2>1 DEF NodeBegins, n
    <3>2. Answered' = Answered
      BY <1>3, <1>7 DEF NodeBegins, GoesOn, Answered
    <3>3. QED
      BY <1>3, <2>3, <3>1, <3>2
  <2>6. {n} \in SUBSET (Due \ NodesBegun) /\ \A t \in {n} : HangsOn[t] \subseteq NodesEnded
    BY <1>3, <1>5, <2>4, <2>5
  <2>7. Graph!Begin
    BY <1>2, <2>5, <2>6 DEF Graph!Begin, Due, HangsOn, NodesBegun, NodesEnded, Answered
  <2>8. QED
    BY <2>7 DEF Graph!Next
<1>8. CASE NodeOver(r, q)
  <2>1. /\ r.node # NoNode /\ r.node \in STRING /\ Ordered(d, Append(r.ran, r.node))
        /\ q.ran = Append(r.ran, r.node) /\ q.node = NoNode
    BY <1>1, <1>8 DEF NodeOver, Swept
  <2>2. r.node \notin ToSet(r.ran)
    <3>1. /\ DOMAIN r.ran = 1..Len(r.ran) /\ Len(r.ran) \in Nat
          /\ DOMAIN Append(r.ran, r.node) = 1..(Len(r.ran) + 1)
          /\ Append(r.ran, r.node)[Len(r.ran) + 1] = r.node
          /\ \A i \in 1..Len(r.ran) : Append(r.ran, r.node)[i] = r.ran[i]
      BY <1>4, <2>1
    <3>2. ASSUME NEW i \in 1..Len(r.ran), r.ran[i] = r.node PROVE FALSE
      <4>1. i \in 1..(Len(r.ran) + 1) /\ Len(r.ran) + 1 \in 1..(Len(r.ran) + 1) /\ i # Len(r.ran) + 1
        BY <3>1
      <4>2. Append(r.ran, r.node)[i] = Append(r.ran, r.node)[Len(r.ran) + 1]
        BY <3>1, <3>2
      <4>3. QED
        BY <2>1, <3>1, <4>1, <4>2 DEF Ordered
    <3>3. QED
      BY <3>1, <3>2 DEF ToSet
  <2>3. ToSet(q.ran) = ToSet(r.ran) \cup {r.node}
    BY <1>4, <2>1, PutBehind
  <2>4. /\ r.node \in NodesBegun \ NodesEnded /\ NodesEnded' = NodesEnded \cup {r.node}
        /\ NodesBegun' = NodesBegun
    BY <1>3, <2>1, <2>2, <2>3
  <2>5. Answered' = Answered
    BY <1>3, <1>8 DEF NodeOver, GoesOn, Answered
  <2>6. Graph!End
    BY <1>2, <2>4, <2>5 DEF Graph!End, Due, HangsOn, NodesBegun, NodesEnded, Answered
  <2>7. QED
    BY <2>6 DEF Graph!Next
<1>9. CASE CanvasAnswers(d, r, q)
  <2>1. NodesEnded = Due
    BY <1>1, <1>3, <1>5, <1>9, AllRan
  <2>2. /\ NodesBegun' = NodesBegun /\ NodesEnded' = NodesEnded
    BY <1>3, <1>9 DEF CanvasAnswers, Same
  <2>3. Answered' = TRUE
    BY <1>3, <1>9 DEF CanvasAnswers, Answered
  <2>4. Graph!Finish
    BY <1>2, <2>1, <2>2, <2>3 DEF Graph!Finish, Due, HangsOn, NodesBegun, NodesEnded, Answered
  <2>5. QED
    BY <2>4 DEF Graph!Next
<1>10. QED
  BY <1>6, <1>7, <1>8, <1>9 DEF FirstMoves, CanvasMoves

\* And so is each step of the whole.
LEMMA StepRefines ==
  ASSUME IInv, CanvasInv, [FrozenNext]_frozenVars
  PROVE  Graph!Next \/ UNCHANGED Graph!vars
<1>1. CASE IsCanvas
  <2>1. workflow' = workflow /\ (frames' = frames \/ FirstCalled \/ FirstMoves)
    BY <1>1, NextFirst
  <2>2. CASE frames' = frames
    BY <2>1, <2>2, NoTask DEF NodesBegun, NodesEnded, Answered, Running, IsCanvas
  <2>3. CASE FirstCalled
    <3>1. ~Running /\ Running' /\ ToSet(frames'[1].ran) = {}
      BY <1>1, <2>1, <2>3 DEF FirstCalled, Running, IsCanvas, ToSet
    <3>2. NodesBegun' = NodesBegun /\ NodesEnded' = NodesEnded /\ Answered' = Answered
      BY <2>3, <3>1 DEF FirstCalled, NodesBegun, NodesEnded, Answered
    <3>3. QED
      BY <2>1, <3>2, NoTask
  <2>4. CASE FirstMoves
    BY <1>1, <2>1, <2>4, MovesRefine
  <2>5. QED
    BY <2>1, <2>2, <2>3, <2>4
<1>2. CASE ~IsCanvas
  <2>1. workflow' = workflow /\ ~Running /\ ~Running'
    BY <1>2, WorkflowStays DEF Running, IsCanvas
  <2>2. NodesBegun' = NodesBegun /\ NodesEnded' = NodesEnded /\ Answered' = Answered
    BY <2>1 DEF NodesBegun, NodesEnded, Answered
  <2>3. QED
    BY <2>1, <2>2, NoTask
<1>3. QED
  BY <1>1, <1>2

\* Whatever the drawing of a canvas the tool stage calls, and whatever its nodes call and
\* answer, each node runs at most once and after all it hangs on, none on or behind a
\* cycle runs, and the canvas answers only when all others have (_run_canvas_graph).
THEOREM CanvasRefines == FrozenSpec => ImplementsTaskGraph
<1>1. FrozenInit => CanvasInv
  BY DEF FrozenInit, CanvasInv, Running
<1>2. IInv /\ CanvasInv /\ [FrozenNext]_frozenVars => CanvasInv'
  BY StepCanvas
<1>3. IInv /\ CanvasInv /\ [FrozenNext]_frozenVars => [Graph!Next]_(Graph!vars)
  BY StepRefines
<1>4. QED
  BY <1>1, <1>2, <1>3, AlwaysNest, FirstRefines, PTL DEF FrozenSpec, Graph!Spec, ImplementsTaskGraph

===============================================================================
