-------------------------- MODULE Toolbox_Forge_proofs --------------------------
(***************************************************************************)
(* Theorems about module Toolbox, for any number of overlapping calls, any  *)
(* texts and notes and any cap of the working memory; and about module      *)
(* Forge, for any configurations, runners, scores, moves and patience.      *)
(***************************************************************************)
EXTENDS Toolbox, Forge, FiniteSetTheorems, SequenceTheorems, TLAPS

(***************************************************************************)
(* Toolbox.                                                                 *)
(***************************************************************************)

\* Bodies of the working memory are stored apart from those of searches and graphs,
\* and apart from each other.
LEMMA IdsApart ==
  /\ \A n, c, i : RecallId(n) # RagId(c, i)
  /\ \A n, c, q : RecallId(n) # GraphId(c, q)
  /\ \A n, m : RecallId(n) = RecallId(m) => n = m
BY DEF RecallId, RagId, GraphId

\* The steps that may change the store but not the working memory, and those that
\* change neither.
Searches == \E s \in Slots : SearchEnd(s) \/ GraphEnd(s)
Others ==
  \/ NextTurn
  \/ \E s \in Slots : SearchStart(s) \/ GraphStart(s) \/ SynthStart(s) \/ SubTurn(s) \/ SynthEnd(s)

LEMMA Steps == [Next]_vars => Searches \/ Others \/ Remember \/ Compact \/ UNCHANGED vars
BY DEF Next, Slot, Searches, Others

\* The store after texts were put under ids.
TextsUnder(ids) ==
  /\ DOMAIN pd' = DOMAIN pd \cup ids
  /\ \A x \in ids : pd'[x] \in Texts
  /\ \A x \in DOMAIN pd \ ids : pd'[x] = pd[x]

\* A search and a graph store texts, and under ids of their own kinds.
LEMMA SearchStores ==
  ASSUME TypeOK, Searches
  PROVE  /\ UNCHANGED recall
         /\ \E ids \in SUBSET StoreIds : TextsUnder(ids) /\ \A n : RecallId(n) \notin ids
<1>1. PICK s \in Slots : SearchEnd(s) \/ GraphEnd(s)
  BY DEF Searches
<1>2. CASE UNCHANGED pd
  <2>1. TextsUnder({})
    BY <1>2 DEF TextsUnder
  <2>2. QED
    BY <1>1, <2>1 DEF SearchEnd, GraphEnd
<1>3. CASE SearchEnd(s) /\ pd' # pd
  <2>0. PICK n \in 1..TopK :
           \E results \in [1..n -> Texts] : IndexResults(slots[s].of, results)
    BY <1>3 DEF SearchEnd
  <2>1. PICK results \in [1..n -> Texts] : IndexResults(slots[s].of, results)
    BY <2>0
  <2>2. slots[s].of \in Collections
    BY <1>3 DEF SearchEnd, TypeOK, Calls, Idle
  <2> DEFINE ids == {RagId(slots[s].of, i) : i \in 1..n}
  <2>3. ids \in SUBSET StoreIds
    BY <2>2, ToolboxAssumption DEF StoreIds
  <2>4. TextsUnder(ids)
    <3>1. \A i : RagId(slots[s].of, i)[3] = i
      BY DEF RagId
    <3>2. \A x \in ids : results[x[3]] \in Texts
      BY <2>1, <3>1
    <3>3. pd' = [x \in DOMAIN pd \cup ids |-> IF x \in ids THEN results[x[3]] ELSE pd[x]]
      BY <2>1 DEF IndexResults, Store
    <3>4. QED
      BY <3>2, <3>3 DEF TextsUnder
  <2>5. QED
    BY <1>3, <2>3, <2>4, IdsApart DEF SearchEnd
<1>4. CASE GraphEnd(s) /\ pd' # pd
  <2> DEFINE id == GraphId(slots[s].of, slots[s].question)
  <2>1. PICK t \in Texts : Store([x \in {id} |-> t])
    BY <1>4 DEF GraphEnd
  <2>2. slots[s].of \in Collections /\ slots[s].question \in Questions
    BY <1>4 DEF GraphEnd, TypeOK, Calls, Idle
  <2>3. {id} \in SUBSET StoreIds
    BY <2>2 DEF StoreIds
  <2>4. TextsUnder({id})
    BY <2>1 DEF Store, TextsUnder
  <2>5. QED
    BY <1>4, <2>3, <2>4, IdsApart DEF GraphEnd
<1>5. QED
  BY <1>1, <1>2, <1>3, <1>4

\* The body of one item is replaced, no other.
LEMMA SyncStores ==
  ASSUME NEW n, NEW t \in Texts, Sync(n, t)
  PROVE  TextsUnder({RecallId(n)}) /\ pd'[RecallId(n)] = t
BY DEF Sync, Store, TextsUnder

-----------------------------------------------------------------------------
(* The working memory, as keep() and check() change it. *)

\* An item that is updated keeps its id and loses no priority.
Updates ==
  \E old \in recall, item \in Items :
    /\ item.id = old.id /\ item.rank >= old.rank
    /\ recall' = (recall \ {old}) \cup {item}
    /\ Sync(old.id, item.text)

\* A new item has an id of its own, and goes in when there is room or when an item
\* that no other is below goes out.
Fits(items) ==
  \/ recall' = items /\ (RecallCap = 0 \/ Cardinality(items) <= RecallCap)
  \/ \E gone \in items : recall' = items \ {gone} /\ \A k \in items : ~Below(k, gone)
Adds ==
  \E item \in Items :
    /\ \A i \in recall : i.id # item.id
    /\ Fits(recall \cup {item})
    /\ Sync(item.id, item.text)

LEMMA KeepKnownUpdates ==
  ASSUME TypeOK, KeepKnown PROVE Updates
<1>0. PICK n \in Notes, t \in Texts, r \in Ranks, sc \in Scores :
        \E old \in Existing(n, t) :
          LET item == [old EXCEPT !.text = t, !.rank = Higher(r, old.rank),
                                  !.score = Other(sc, old.score), !.turn = Other(turn, old.turn)]
          IN recall' = (recall \ {old}) \cup {item} /\ Sync(old.id, t)
  BY DEF KeepKnown
<1>1. PICK old \in Existing(n, t) :
        LET item == [old EXCEPT !.text = t, !.rank = Higher(r, old.rank),
                                !.score = Other(sc, old.score), !.turn = Other(turn, old.turn)]
        IN recall' = (recall \ {old}) \cup {item} /\ Sync(old.id, t)
  BY <1>0
<1> DEFINE item == [old EXCEPT !.text = t, !.rank = Higher(r, old.rank),
                               !.score = Other(sc, old.score), !.turn = Other(turn, old.turn)]
<1>2. old \in recall /\ old \in Items
  BY DEF Existing, TypeOK
<1>3. Higher(r, old.rank) \in Ranks /\ Higher(r, old.rank) >= old.rank
  <2>1. old.rank \in Ranks /\ old.rank \in Nat /\ r \in Nat
    BY <1>2, ToolboxAssumption DEF Items
  <2>2. QED
    BY <2>1 DEF Higher
<1>4. Other(sc, old.score) \in Scores
  BY <1>2 DEF Other, Items
<1>5. Other(turn, old.turn) \in 0..MaxTurn
  BY <1>2 DEF Other, Items, TypeOK
<1>6. item \in Items /\ item.id = old.id /\ item.rank = Higher(r, old.rank) /\ item.text = t
  BY <1>2, <1>3, <1>4, <1>5 DEF Items
<1>7. QED
  BY <1>1, <1>2, <1>3, <1>6 DEF Updates

LEMMA CheckUpdates ==
  ASSUME TypeOK, Check PROVE Updates
<1>1. PICK i \in recall, outcome \in {"ok", "failed"} :
        /\ recall' = (recall \ {i}) \cup {[i EXCEPT !.checked = outcome]}
        /\ Sync(i.id, i.text)
  BY DEF Check, Noted
<1>2. i \in Items
  BY DEF TypeOK
<1>3. i.rank \in Nat
  BY <1>2, ToolboxAssumption DEF Items
<1> DEFINE item == [i EXCEPT !.checked = outcome]
<1>4. item \in Items /\ item.id = i.id /\ item.rank = i.rank /\ item.text = i.text
  BY <1>2 DEF Items
<1>5. recall' = (recall \ {i}) \cup {item} /\ Sync(i.id, item.text)
  BY <1>1, <1>4
<1>6. item.rank >= i.rank
  BY <1>3, <1>4
<1> HIDE DEF item
<1>7. QED
  BY <1>4, <1>5, <1>6 DEF Updates

LEMMA KeepNewAdds ==
  ASSUME TypeOK, KeepNew PROVE Adds
<1>1. PICK n \in Notes, t \in Texts, r \in Ranks, sc \in Scores :
        LET item == [id |-> n, text |-> t, rank |-> r, score |-> sc, turn |-> turn,
                     checked |-> "no"]
        IN /\ Existing(n, t) = {}
           /\ \E gone \in Evicted(recall \cup {item}) : recall' = (recall \cup {item}) \ gone
           /\ Sync(n, t)
  BY DEF KeepNew
<1> DEFINE item == [id |-> n, text |-> t, rank |-> r, score |-> sc, turn |-> turn,
                    checked |-> "no"]
<1>2. item \in Items /\ item.id = n /\ item.text = t
  BY DEF Items, TypeOK
<1>3. \A i \in recall : i.id # n
  BY <1>1 DEF Existing
<1>4. PICK gone \in Evicted(recall \cup {item}) : recall' = (recall \cup {item}) \ gone
  BY <1>1
<1> HIDE DEF item
<1>5. Fits(recall \cup {item})
  <2> DEFINE items == recall \cup {item}
  <2>1. CASE RecallCap = 0 \/ Cardinality(items) <= RecallCap
    BY <1>4, <2>1 DEF Evicted, Fits
  <2>2. CASE ~(RecallCap = 0 \/ Cardinality(items) <= RecallCap)
    <3>1. PICK i \in items : gone = {i} /\ \A k \in items : ~Below(k, i)
      BY <1>4, <2>2 DEF Evicted
    <3>2. QED
      BY <1>4, <3>1 DEF Fits
  <2>3. QED
    BY <2>1, <2>2
<1>6. QED
  BY <1>1, <1>2, <1>3, <1>5 DEF Adds

LEMMA RememberChanges ==
  ASSUME TypeOK, Remember PROVE Updates \/ Adds
BY KeepKnownUpdates, CheckUpdates, KeepNewAdds DEF Remember

-----------------------------------------------------------------------------
(* Types *)

LEMMA TypesOfItems ==
  ASSUME TypeOK, Updates \/ Adds
  PROVE  /\ recall' \subseteq Items
         /\ DOMAIN pd' \subseteq StoreIds /\ \A x \in DOMAIN pd' : pd'[x] \in Bodies
<1>1. CASE Updates
  <2>1. PICK old \in recall, item \in Items :
          recall' = (recall \ {old}) \cup {item} /\ Sync(old.id, item.text)
    BY <1>1 DEF Updates
  <2>2. old.id \in Notes /\ item.text \in Texts
    BY DEF TypeOK, Items
  <2>3. TextsUnder({RecallId(old.id)}) /\ RecallId(old.id) \in StoreIds
    BY <2>1, <2>2, SyncStores DEF StoreIds
  <2>4. QED
    BY <2>1, <2>3 DEF TextsUnder, TypeOK, Bodies
<1>2. CASE Adds
  <2>1. PICK item \in Items : Fits(recall \cup {item}) /\ Sync(item.id, item.text)
    BY <1>2 DEF Adds
  <2>2. item.id \in Notes /\ item.text \in Texts
    BY DEF Items
  <2>3. TextsUnder({RecallId(item.id)}) /\ RecallId(item.id) \in StoreIds
    BY <2>1, <2>2, SyncStores DEF StoreIds
  <2>4. recall' \subseteq recall \cup {item}
    BY <2>1 DEF Fits
  <2>5. QED
    BY <2>3, <2>4 DEF TextsUnder, TypeOK, Bodies
<1>3. QED
  BY <1>1, <1>2

LEMMA InitType == Init => TypeOK
BY ToolboxAssumption DEF Init, TypeOK, Calls

\* What the slots hold after a step.
LEMMA TypeOfSlots ==
  ASSUME TypeOK, [Next]_vars
  PROVE  slots' \in [Slots -> Calls] /\ mode' \in Modes /\ turn' \in 0..MaxTurn /\ calls' \in 0..MaxCalls
<1>1. \A s \in Slots, c \in Calls : Begin(s, c) => slots' \in [Slots -> Calls] /\ calls' \in 0..MaxCalls
  BY ToolboxAssumption DEF Begin, TypeOK
<1>2. \A s \in Slots : Finish(s) => slots' \in [Slots -> Calls]
  BY DEF Finish, TypeOK, Calls
<1>3. ASSUME NEW s \in Slots, SearchStart(s) \/ GraphStart(s) \/ SynthStart(s)
      PROVE  \E c \in Calls : Begin(s, c)
  <2>1. CASE SearchStart(s)
    BY <2>1 DEF SearchStart, Calls
  <2>2. CASE GraphStart(s)
    BY <2>2 DEF GraphStart, Calls
  <2>3. CASE SynthStart(s)
    BY <2>3, ToolboxAssumption DEF SynthStart, Calls, TypeOK
  <2>4. QED
    BY <1>3, <2>1, <2>2, <2>3
<1>4. ASSUME NEW s \in Slots, SubTurn(s) PROVE slots' \in [Slots -> Calls]
  <2>1. slots[s] \in [op : {"synth"}, of : StoreIds, body : Bodies, turn : 0..SubTurns]
    BY <1>4 DEF SubTurn, TypeOK, Calls, Idle
  <2>2. [slots[s] EXCEPT !.turn = @ + 1] \in
          [op : {"synth"}, of : StoreIds, body : Bodies, turn : 0..SubTurns]
    BY <1>4, <2>1, ToolboxAssumption DEF SubTurn
  <2>3. slots' = [slots EXCEPT ![s] = [slots[s] EXCEPT !.turn = @ + 1]]
    BY <1>4 DEF SubTurn
  <2>4. QED
    BY <2>2, <2>3 DEF Calls, TypeOK
<1>5. ASSUME NEW s \in Slots, Slot(s)
      PROVE  slots' \in [Slots -> Calls] /\ calls' \in 0..MaxCalls
  <2>1. CASE SearchStart(s) \/ GraphStart(s) \/ SynthStart(s)
    BY <2>1, <1>1, <1>3
  <2>2. CASE SearchEnd(s) \/ GraphEnd(s) \/ SynthEnd(s)
    BY <2>2, <1>2 DEF SearchEnd, GraphEnd, SynthEnd, TypeOK
  <2>3. CASE SubTurn(s)
    BY <2>3, <1>4 DEF SubTurn, TypeOK
  <2>4. QED
    BY <1>5, <2>1, <2>2, <2>3 DEF Slot
<1>6. ASSUME NEW s \in Slots, Slot(s) PROVE UNCHANGED <<mode, turn>>
  BY <1>6 DEF Slot, SearchStart, SearchEnd, GraphStart, GraphEnd, SynthStart, SubTurn, SynthEnd
<1>7. CASE Remember \/ Compact \/ NextTurn \/ UNCHANGED vars
  BY <1>7, ToolboxAssumption DEF Remember, Compact, NextTurn, vars, TypeOK
<1>8. QED
  BY <1>5, <1>6, <1>7 DEF Next, TypeOK

LEMMA StepType == TypeOK /\ [Next]_vars => TypeOK'
<1> SUFFICES ASSUME TypeOK, [Next]_vars PROVE TypeOK'
  OBVIOUS
<1> DEFINE Memory == /\ recall' \subseteq Items
                     /\ DOMAIN pd' \subseteq StoreIds /\ \A x \in DOMAIN pd' : pd'[x] \in Bodies
<1>1. ASSUME Searches PROVE Memory
  <2>1. PICK ids \in SUBSET StoreIds : TextsUnder(ids)
    BY <1>1, SearchStores
  <2>2. DOMAIN pd' \subseteq StoreIds
    BY <2>1 DEF TextsUnder, TypeOK
  <2>3. \A x \in DOMAIN pd' : pd'[x] \in Bodies
    BY <2>1 DEF TextsUnder, TypeOK, Bodies
  <2>4. QED
    BY <1>1, <2>2, <2>3, SearchStores DEF TypeOK
<1>2. ASSUME Others \/ UNCHANGED vars PROVE Memory
  BY <1>2 DEF Others, vars, TypeOK, NextTurn, SearchStart, GraphStart, SynthStart, SubTurn, SynthEnd
<1>3. ASSUME Remember PROVE Memory
  BY <1>3, RememberChanges, TypesOfItems
<1>4. ASSUME Compact PROVE Memory
  BY <1>4 DEF Compact, TypeOK, Bodies
<1>5. Memory
  BY <1>1, <1>2, <1>3, <1>4, Steps
<1>6. QED
  BY <1>5, TypeOfSlots DEF TypeOK

\* Every state of a behaviour has its types.
THEOREM Types == Spec => []TypeOK
<1>1. QED
  BY InitType, StepType, PTL DEF Spec

-----------------------------------------------------------------------------
(* The working memory stays one.  RecallWhole is inductive together with the
   types and with the finiteness of the memory, which Cardinality needs. *)

OneEach == \A i, j \in recall : i.id = j.id => i = j
InCap == IsFiniteSet(recall) /\ (RecallCap > 0 => Cardinality(recall) <= RecallCap)
Readable ==
  \A i \in recall : /\ RecallId(i.id) \in DOMAIN pd
                    /\ pd[RecallId(i.id)] \in {i.text, Summary}
MemoryInv == OneEach /\ InCap /\ Readable

LEMMA MemoryIsWhole == MemoryInv => RecallWhole
BY DEF MemoryInv, OneEach, InCap, Readable, RecallWhole

LEMMA InitMemory == Init => MemoryInv
BY FS_EmptySet, ToolboxAssumption DEF Init, MemoryInv, OneEach, InCap, Readable

\* An update of one item leaves the others and their bodies alone.
LEMMA UpdateKeeps ==
  ASSUME TypeOK, MemoryInv, Updates PROVE MemoryInv'
<1>1. PICK old \in recall, item \in Items :
        /\ item.id = old.id
        /\ recall' = (recall \ {old}) \cup {item}
        /\ Sync(old.id, item.text)
  BY DEF Updates
<1>2. \A j \in recall \ {old} : j.id # item.id
  BY <1>1 DEF MemoryInv, OneEach
<1>3. OneEach'
  BY <1>1, <1>2 DEF MemoryInv, OneEach
<1>4. InCap'
  <2> DEFINE others == recall \ {old}
  <2>1. IsFiniteSet(others) /\ Cardinality(others) = Cardinality(recall) - 1
    BY <1>1, FS_RemoveElement DEF MemoryInv, InCap
  <2>0. item \notin others
    BY <1>2
  <2>2. IsFiniteSet(others \cup {item})
        /\ Cardinality(others \cup {item}) = Cardinality(others) + 1
    BY <2>0, <2>1, FS_AddElement
  <2>3. recall' = others \cup {item}
    BY <1>1
  <2>4. Cardinality(recall) \in Nat /\ Cardinality(others) \in Nat
        /\ Cardinality(others \cup {item}) \in Nat
    BY <2>1, <2>2, FS_CardinalityType DEF MemoryInv, InCap
  <2> HIDE DEF others
  <2>5. QED
    BY <2>1, <2>2, <2>3, <2>4, ToolboxAssumption DEF MemoryInv, InCap
<1>5. item.text \in Texts
  BY DEF Items
<1>6. TextsUnder({RecallId(item.id)}) /\ pd'[RecallId(item.id)] = item.text
  BY <1>1, <1>5, SyncStores
<1>7. Readable'
  <2> SUFFICES ASSUME NEW j \in recall'
               PROVE  /\ RecallId(j.id) \in DOMAIN pd'
                      /\ pd'[RecallId(j.id)] \in {j.text, Summary}
    BY DEF Readable
  <2>1. CASE j = item
    BY <2>1, <1>6 DEF TextsUnder
  <2>2. CASE j \in recall \ {old}
    <3>1. RecallId(j.id) # RecallId(item.id)
      BY <2>2, <1>2, IdsApart
    <3>2. RecallId(j.id) \in DOMAIN pd /\ pd[RecallId(j.id)] \in {j.text, Summary}
      BY <2>2 DEF MemoryInv, Readable
    <3>3. QED
      BY <3>1, <3>2, <1>6 DEF TextsUnder
  <2>3. QED
    BY <1>1, <2>1, <2>2
<1>8. QED
  BY <1>3, <1>4, <1>7 DEF MemoryInv

\* So does a new item; what is evicted makes room for it.
LEMMA AddKeeps ==
  ASSUME TypeOK, MemoryInv, Adds PROVE MemoryInv'
<1>1. PICK item \in Items :
        /\ \A i \in recall : i.id # item.id
        /\ Fits(recall \cup {item})
        /\ Sync(item.id, item.text)
  BY DEF Adds
<1> DEFINE items == recall \cup {item}
<1>2. recall' \subseteq items
  BY <1>1 DEF Fits
<1>3. OneEach'
  BY <1>1, <1>2 DEF MemoryInv, OneEach
<1>4. InCap'
  <2>1. item \notin recall
    BY <1>1
  <2>2. /\ IsFiniteSet(items) /\ Cardinality(items) = Cardinality(recall) + 1
        /\ Cardinality(recall) \in Nat
    BY <2>1, FS_AddElement, FS_CardinalityType DEF MemoryInv, InCap
  <2>3. \/ recall' = items /\ (RecallCap = 0 \/ Cardinality(items) <= RecallCap)
        \/ \E gone \in items : recall' = items \ {gone}
    BY <1>1 DEF Fits
  <2>4. \A gone \in items : IsFiniteSet(items \ {gone})
                            /\ Cardinality(items \ {gone}) = Cardinality(items) - 1
    BY <2>2, FS_RemoveElement
  <2> HIDE DEF items
  <2>5. CASE recall' = items /\ (RecallCap = 0 \/ Cardinality(items) <= RecallCap)
    BY <2>2, <2>5, ToolboxAssumption DEF InCap
  <2>6. CASE \E gone \in items : recall' = items \ {gone}
    BY <2>2, <2>4, <2>6, ToolboxAssumption DEF InCap, MemoryInv
  <2>7. QED
    BY <2>3, <2>5, <2>6
<1>5. item.text \in Texts
  BY DEF Items
<1>6. TextsUnder({RecallId(item.id)}) /\ pd'[RecallId(item.id)] = item.text
  BY <1>1, <1>5, SyncStores
<1>7. Readable'
  <2> SUFFICES ASSUME NEW j \in recall'
               PROVE  /\ RecallId(j.id) \in DOMAIN pd'
                      /\ pd'[RecallId(j.id)] \in {j.text, Summary}
    BY DEF Readable
  <2>1. CASE j = item
    BY <2>1, <1>6 DEF TextsUnder
  <2>2. CASE j \in recall
    <3>1. RecallId(j.id) # RecallId(item.id)
      BY <2>2, <1>1, IdsApart
    <3>2. RecallId(j.id) \in DOMAIN pd /\ pd[RecallId(j.id)] \in {j.text, Summary}
      BY <2>2 DEF MemoryInv, Readable
    <3>3. QED
      BY <3>1, <3>2, <1>6 DEF TextsUnder
  <2>3. QED
    BY <1>2, <2>1, <2>2
<1>8. QED
  BY <1>3, <1>4, <1>7 DEF MemoryInv

LEMMA StepMemory == TypeOK /\ MemoryInv /\ [Next]_vars => MemoryInv'
<1> SUFFICES ASSUME TypeOK, MemoryInv, [Next]_vars PROVE MemoryInv'
  OBVIOUS
<1>1. CASE Searches
  <2>1. PICK ids \in SUBSET StoreIds : TextsUnder(ids) /\ \A n : RecallId(n) \notin ids
    BY <1>1, SearchStores
  <2>2. UNCHANGED recall
    BY <1>1, SearchStores
  <2>3. Readable'
    BY <2>1, <2>2 DEF MemoryInv, Readable, TextsUnder
  <2>4. QED
    BY <2>2, <2>3 DEF MemoryInv, OneEach, InCap
<1>2. CASE Others \/ UNCHANGED vars
  <2>1. UNCHANGED <<pd, recall>>
    BY <1>2 DEF Others, vars, NextTurn, SearchStart, GraphStart, SynthStart, SubTurn, SynthEnd
  <2>2. QED
    BY <2>1 DEF MemoryInv, OneEach, InCap, Readable
<1>3. CASE Remember
  BY <1>3, RememberChanges, UpdateKeeps, AddKeeps
<1>4. CASE Compact
  <2>1. UNCHANGED recall /\ DOMAIN pd' = DOMAIN pd
        /\ \A x \in DOMAIN pd : pd'[x] \in {pd[x], Summary}
    BY <1>4 DEF Compact
  <2>2. Readable'
    BY <2>1 DEF MemoryInv, Readable
  <2>3. QED
    BY <2>1, <2>2 DEF MemoryInv, OneEach, InCap
<1>5. QED
  BY <1>1, <1>2, <1>3, <1>4, Steps

\* The working memory holds every id once, stays within its cap, and every item can be
\* read under its id as it is now or as compact summarised it: in every behaviour, for every cap and every number of
\* notes (RecallSet.keep, _sync_recall_pd).
THEOREM MemoryWhole == Spec => []RecallWhole
<1>1. Init => TypeOK /\ MemoryInv
  BY InitType, InitMemory
<1>2. TypeOK /\ MemoryInv /\ [Next]_vars => (TypeOK /\ MemoryInv)'
  BY StepType, StepMemory
<1>3. QED
  BY <1>1, <1>2, MemoryIsWhole, PTL DEF Spec

-----------------------------------------------------------------------------
(* Priorities *)

Important ==
  \A i \in recall :
    IF \E j \in recall' : j.id = i.id
    THEN \E j \in recall' : j.id = i.id /\ j.rank >= i.rank
    ELSE \A j \in recall' : j.rank >= i.rank

LEMMA StepImportant == TypeOK /\ [Next]_vars => [Important]_vars
<1> SUFFICES ASSUME TypeOK, [Next]_vars PROVE Important
  OBVIOUS
<1>1. \A i \in Items : i.rank \in Nat
  BY ToolboxAssumption DEF Items
<1>2. ASSUME UNCHANGED recall PROVE Important
  BY <1>1, <1>2 DEF Important, TypeOK
<1>3. CASE Updates
  <2>1. PICK old \in recall, item \in Items :
          /\ item.id = old.id /\ item.rank >= old.rank
          /\ recall' = (recall \ {old}) \cup {item}
    BY <1>3 DEF Updates
  <2>2. ASSUME NEW i \in recall PROVE \E j \in recall' : j.id = i.id /\ j.rank >= i.rank
    <3>1. CASE i = old
      BY <2>1, <3>1
    <3>2. CASE i # old
      BY <1>1, <2>1, <3>2 DEF TypeOK
    <3>3. QED
      BY <3>1, <3>2
  <2>3. QED
    BY <2>2 DEF Important
<1>4. CASE Adds
  <2>1. PICK item \in Items : Fits(recall \cup {item})
    BY <1>4 DEF Adds
  <2> DEFINE items == recall \cup {item}
  <2>2. items \subseteq Items
    BY DEF TypeOK
  <2> SUFFICES ASSUME NEW i \in recall
               PROVE  \/ \E j \in recall' : j.id = i.id /\ j.rank >= i.rank
                      \/ \A j \in recall' : j.rank >= i.rank
    BY DEF Important
  <2>3. CASE i \in recall'
    BY <1>1, <2>2, <2>3
  <2>4. CASE i \notin recall'
    <3>1. recall' = items \ {i} /\ \A k \in items : ~Below(k, i)
      BY <2>1, <2>4 DEF Fits
    <3>2. \A k \in items : k.rank >= i.rank
      BY <1>1, <2>2, <3>1 DEF Below
    <3>3. QED
      BY <3>1, <3>2
  <2>5. QED
    BY <2>3, <2>4
<1>5. CASE ~Remember
  <2>1. UNCHANGED recall
    BY <1>5, Steps, SearchStores
    DEF Others, vars, NextTurn, SearchStart, GraphStart, SynthStart, SubTurn, SynthEnd, Compact
  <2>2. QED
    BY <1>2, <2>1
<1>6. QED
  BY <1>3, <1>4, <1>5, RememberChanges

\* What is important stays: no step takes an item out for one of less priority, or
\* lowers the priority of one that stays (RecallSet.keep, _enforce_cap).
THEOREM PrioritiesRise == Spec => KeepsImportant
<1>1. TypeOK /\ [Next]_vars => [Important]_vars
  BY StepImportant
<1>2. KeepsImportant <=> [][Important]_vars
  BY PTL DEF KeepsImportant, Important
<1>3. QED
  BY <1>1, <1>2, Types, PTL DEF Spec

(***************************************************************************)
(* Forge.                                                                   *)
(***************************************************************************)
(* Recursive functions over a list.  Each exists, and its values are what they are
   for a prefix, by the least place where that would fail. *)

\* A set of numbers that is not empty has a least one.
LEMMA Least ==
  ASSUME NEW T \in SUBSET Nat, T # {}
  PROVE  \E least \in T : \A n \in T : least <= n
<1>1. IsWellFoundedOn(OpToRel(<, Nat), Nat)
  BY NatLessThanWellFounded
<1>2. PICK least \in T : \A n \in T : <<n, least>> \notin OpToRel(<, Nat)
  BY <1>1, WFMin, Zenon
<1>3. ASSUME NEW n \in T, n < least PROVE FALSE
  BY <1>2, <1>3 DEF OpToRel
<1>4. QED
  BY <1>3

\* What holds of the start and is handed on holds of all.
LEMMA Throughout ==
  ASSUME NEW n \in Nat, NEW S, 0 \in S, \A k \in 1..n : k - 1 \in S => k \in S
  PROVE  0..n \subseteq S
<1> DEFINE T == {k \in 0..n : k \notin S}
<1> SUFFICES ASSUME T # {} PROVE FALSE
  OBVIOUS
<1>1. T \in SUBSET Nat
  OBVIOUS
<1>2. PICK k \in T : \A j \in T : k <= j
  <2> HIDE DEF T
  <2>1. QED
    BY <1>1, Least, Zenon
<1>3. k \in 1..n /\ k - 1 \notin T /\ k - 1 \in 0..n
  BY <1>2
<1>4. QED
  BY <1>2, <1>3

-----------------------------------------------------------------------------
(* The entries of a list at some places. *)

ChosenTo(upTo, list, places, n) ==
  upTo = [k \in 0..n |->
            IF k = 0 THEN <<>>
            ELSE IF k \in places THEN Append(upTo[k - 1], list[k]) ELSE upTo[k - 1]]

LEMMA ChosenExists ==
  ASSUME NEW list, NEW places, NEW n \in Nat
  PROVE  \E upTo : ChosenTo(upTo, list, places, n)
<1> DEFINE S == {k \in 0..n : \E upTo : ChosenTo(upTo, list, places, k)}
<1>1. 0 \in S
  <2>1. ChosenTo([k \in 0..0 |-> <<>>], list, places, 0)
    BY DEF ChosenTo
  <2>2. QED
    BY <2>1
<1>2. ASSUME NEW m \in 1..n, m - 1 \in S PROVE m \in S
  <2>1. PICK upTo : ChosenTo(upTo, list, places, m - 1)
    BY <1>2
  <2> DEFINE longer ==
        [k \in 0..m |-> IF k = m THEN IF m \in places THEN Append(upTo[m - 1], list[m])
                                      ELSE upTo[m - 1]
                        ELSE upTo[k]]
  <2>2. \A k \in 0..(m - 1) : upTo[k] = IF k = 0 THEN <<>>
                 ELSE IF k \in places THEN Append(upTo[k - 1], list[k]) ELSE upTo[k - 1]
    BY <2>1 DEF ChosenTo
  <2>3. \A k \in 0..m : longer[k] = IF k = 0 THEN <<>>
                 ELSE IF k \in places THEN Append(longer[k - 1], list[k]) ELSE longer[k - 1]
    BY <2>2
  <2>4. ChosenTo(longer, list, places, m)
    BY <2>3 DEF ChosenTo
  <2>5. QED
    BY <2>4
<1> HIDE DEF S
<1>3. 0..n \subseteq S
  BY <1>1, <1>2, Throughout
<1>4. QED
  BY <1>3 DEF S

\* They are entries of the list.
LEMMA ChosenFrom ==
  ASSUME NEW S, NEW list \in Seq(S), NEW places
  PROVE  Chosen(list, places) \in Seq(S)
<1> DEFINE n == Len(list)
           upTo == CHOOSE f : ChosenTo(f, list, places, n)
           T == {k \in 0..n : upTo[k] \in Seq(S)}
<1>1. ChosenTo(upTo, list, places, n)
  BY ChosenExists
<1>2. Chosen(list, places) = upTo[n]
  BY DEF Chosen, ChosenTo
<1>3. \A k \in 0..n : upTo[k] = IF k = 0 THEN <<>>
                 ELSE IF k \in places THEN Append(upTo[k - 1], list[k]) ELSE upTo[k - 1]
  <2> HIDE DEF upTo
  <2>1. QED
    BY <1>1 DEF ChosenTo
<1>4. n \in Nat /\ \A k \in 1..n : list[k] \in S
  OBVIOUS
<1> HIDE DEF upTo, n
<1>5. 0 \in T
  <2>1. 0 \in 0..n /\ upTo[0] = <<>>
    BY <1>3, <1>4
  <2>2. <<>> \in Seq(S)
    OBVIOUS
  <2>3. QED
    BY <2>1, <2>2
<1>6. ASSUME NEW k \in 1..n, k - 1 \in T PROVE k \in T
  <2>1. k \in 0..n /\ k # 0 /\ upTo[k - 1] \in Seq(S) /\ list[k] \in S
    BY <1>4, <1>6
  <2>2. upTo[k] = IF k \in places THEN Append(upTo[k - 1], list[k]) ELSE upTo[k - 1]
    BY <1>3, <2>1
  <2>3. ASSUME NEW s \in Seq(S), NEW e \in S PROVE Append(s, e) \in Seq(S)
    OBVIOUS
  <2>4. QED
    BY <2>1, <2>2, <2>3
<1> HIDE DEF T
<1>7. 0..n \subseteq T
  BY <1>4, <1>5, <1>6, Throughout
<1>8. QED
  BY <1>2, <1>4, <1>7 DEF T

-----------------------------------------------------------------------------
(* The sum of a list of numbers. *)

SumsTo(sum, numbers, n) ==
  sum = [k \in 0..n |-> IF k = 0 THEN 0 ELSE sum[k - 1] + numbers[k]]

LEMMA SumExists ==
  ASSUME NEW numbers, NEW n \in Nat
  PROVE  \E sum : SumsTo(sum, numbers, n)
<1> DEFINE S == {k \in 0..n : \E sum : SumsTo(sum, numbers, k)}
<1>1. 0 \in S
  <2>1. SumsTo([k \in 0..0 |-> 0], numbers, 0)
    BY DEF SumsTo
  <2>2. QED
    BY <2>1
<1>2. ASSUME NEW m \in 1..n, m - 1 \in S PROVE m \in S
  <2>1. PICK sum : SumsTo(sum, numbers, m - 1)
    BY <1>2
  <2> DEFINE more == [k \in 0..m |-> IF k = m THEN sum[m - 1] + numbers[m] ELSE sum[k]]
  <2>2. \A k \in 0..(m - 1) : sum[k] = IF k = 0 THEN 0 ELSE sum[k - 1] + numbers[k]
    BY <2>1 DEF SumsTo
  <2>3. \A k \in 0..m : more[k] = IF k = 0 THEN 0 ELSE more[k - 1] + numbers[k]
    BY <2>2
  <2>4. SumsTo(more, numbers, m)
    BY <2>3 DEF SumsTo
  <2>5. QED
    BY <2>4
<1> HIDE DEF S
<1>3. 0..n \subseteq S
  BY <1>1, <1>2, Throughout
<1>4. QED
  BY <1>3 DEF S

LEMMA TotalType ==
  ASSUME NEW n \in Nat, NEW numbers \in [1..n -> Int]
  PROVE  Total(numbers) \in Int
<1> DEFINE sum == CHOOSE f : SumsTo(f, numbers, n)
           T == {k \in 0..n : sum[k] \in Int}
<1>1. SumsTo(sum, numbers, n)
  BY SumExists
<1>2. Len(numbers) = n
  BY IsASeq, LenProperties
<1>3. Total(numbers) = sum[n]
  BY <1>2 DEF Total, SumsTo
<1>4. \A k \in 0..n : sum[k] = IF k = 0 THEN 0 ELSE sum[k - 1] + numbers[k]
  <2> HIDE DEF sum
  <2>1. QED
    BY <1>1 DEF SumsTo
<1> HIDE DEF sum
<1>5. 0 \in T
  BY <1>4
<1>6. ASSUME NEW k \in 1..n, k - 1 \in T PROVE k \in T
  <2>1. k \in 0..n /\ k # 0 /\ sum[k - 1] \in Int /\ numbers[k] \in Int
    BY <1>6
  <2>2. sum[k] = sum[k - 1] + numbers[k]
    BY <1>4, <2>1
  <2>3. QED
    BY <2>1, <2>2
<1> HIDE DEF T
<1>7. 0..n \subseteq T
  BY <1>5, <1>6, Throughout
<1>8. QED
  BY <1>3, <1>7 DEF T

-----------------------------------------------------------------------------
(* A log replayed. *)

\* The configuration an entry makes of another.
Moved(c, entry) == IF entry.verdict = "promoted" THEN Apply(c, entry.move) ELSE c
ReplaysTo(after, base, entries, n) ==
  after = [k \in 0..n |-> IF k = 0 THEN base ELSE Moved(after[k - 1], entries[k])]

LEMMA ReplayExists ==
  ASSUME NEW base, NEW entries, NEW n \in Nat
  PROVE  \E after : ReplaysTo(after, base, entries, n)
<1> DEFINE S == {k \in 0..n : \E after : ReplaysTo(after, base, entries, k)}
<1>1. 0 \in S
  <2>1. ReplaysTo([k \in 0..0 |-> base], base, entries, 0)
    BY DEF ReplaysTo
  <2>2. QED
    BY <2>1
<1>2. ASSUME NEW m \in 1..n, m - 1 \in S PROVE m \in S
  <2>1. PICK after : ReplaysTo(after, base, entries, m - 1)
    BY <1>2
  <2> DEFINE more == [k \in 0..m |-> IF k = m THEN Moved(after[m - 1], entries[m]) ELSE after[k]]
  <2>2. \A k \in 0..(m - 1) : after[k] = IF k = 0 THEN base ELSE Moved(after[k - 1], entries[k])
    BY <2>1 DEF ReplaysTo
  <2>3. \A k \in 0..m : more[k] = IF k = 0 THEN base ELSE Moved(more[k - 1], entries[k])
    BY <2>2
  <2>4. ReplaysTo(more, base, entries, m)
    BY <2>3 DEF ReplaysTo
  <2>5. QED
    BY <2>4
<1> HIDE DEF S
<1>3. 0..n \subseteq S
  BY <1>1, <1>2, Throughout
<1>4. QED
  BY <1>3 DEF S

\* Replayed is the last value of a function that meets the equation.
LEMMA ReplayedIs ==
  ASSUME NEW base, NEW entries, NEW n \in Nat
  PROVE  \E after : ReplaysTo(after, base, entries, n) /\ Replayed(base, entries, n) = after[n]
<1> DEFINE after == CHOOSE f : ReplaysTo(f, base, entries, n)
<1>1. ReplaysTo(after, base, entries, n)
  BY ReplayExists
<1>2. Replayed(base, entries, n) = after[n]
  BY DEF Replayed, ReplaysTo, Moved
<1>3. QED
  BY <1>1, <1>2

\* One entry more, on what the entries before it made.
LEMMA ReplayedNext ==
  ASSUME NEW base, NEW entries, NEW longer, NEW n \in Nat,
         \A k \in 1..n : longer[k] = entries[k]
  PROVE  Replayed(base, longer, n + 1) = Moved(Replayed(base, entries, n), longer[n + 1])
<1>1. PICK after : /\ ReplaysTo(after, base, entries, n)
                   /\ Replayed(base, entries, n) = after[n]
  BY ReplayedIs
<1>2. PICK more : /\ ReplaysTo(more, base, longer, n + 1)
                  /\ Replayed(base, longer, n + 1) = more[n + 1]
  <2>1. n + 1 \in Nat
    OBVIOUS
  <2>2. QED
    BY <2>1, ReplayedIs
<1>3. /\ \A k \in 0..n : after[k] = IF k = 0 THEN base ELSE Moved(after[k - 1], entries[k])
      /\ \A k \in 0..(n + 1) : more[k] = IF k = 0 THEN base ELSE Moved(more[k - 1], longer[k])
  BY <1>1, <1>2 DEF ReplaysTo
<1> DEFINE T == {k \in 0..n : more[k] = after[k]}
<1>4. 0 \in T
  BY <1>3
<1>5. ASSUME NEW k \in 1..n, k - 1 \in T PROVE k \in T
  BY <1>3, <1>5
<1> HIDE DEF T
<1>6. 0..n \subseteq T
  BY <1>4, <1>5, Throughout
<1>7. more[n] = after[n]
  BY <1>6 DEF T
<1>8. QED
  BY <1>1, <1>2, <1>3, <1>7

LEMMA ReplayedNone ==
  ASSUME NEW base, NEW entries
  PROVE  Replayed(base, entries, 0) = base
BY ReplayedIs DEF ReplaysTo

-----------------------------------------------------------------------------
(* Promotions counted. *)

LEMMA PromotionsType ==
  ASSUME NEW entries, NEW n \in Nat
  PROVE  Promotions(entries, n) \in 0..n
<1> DEFINE P == {i \in 1..n : entries[i].verdict = "promoted"}
<1>1. IsFiniteSet(1..n) /\ Cardinality(1..n) = n
  BY FS_Interval
<1>2. IsFiniteSet(P) /\ Cardinality(P) <= Cardinality(1..n) /\ Cardinality(P) \in Nat
  BY <1>1, FS_Subset, FS_CardinalityType
<1>3. QED
  BY <1>1, <1>2 DEF Promotions

LEMMA PromotionsSame ==
  ASSUME NEW entries, NEW longer, NEW n \in Nat, \A k \in 1..n : longer[k] = entries[k]
  PROVE  Promotions(longer, n) = Promotions(entries, n)
<1>1. {i \in 1..n : longer[i].verdict = "promoted"} = {i \in 1..n : entries[i].verdict = "promoted"}
  OBVIOUS
<1>2. QED
  BY <1>1 DEF Promotions

LEMMA PromotionsNext ==
  ASSUME NEW entries, NEW n \in Nat
  PROVE  Promotions(entries, n + 1) = Promotions(entries, n)
                                      + (IF entries[n + 1].verdict = "promoted" THEN 1 ELSE 0)
<1> DEFINE P == {i \in 1..n : entries[i].verdict = "promoted"}
           Q == {i \in 1..(n + 1) : entries[i].verdict = "promoted"}
<1>1. IsFiniteSet(P) /\ Cardinality(P) \in Nat
  <2>1. IsFiniteSet(1..n)
    BY FS_Interval
  <2>2. QED
    BY <2>1, FS_Subset, FS_CardinalityType
<1>2. CASE entries[n + 1].verdict = "promoted"
  <2>1. Q = P \cup {n + 1} /\ n + 1 \notin P
    BY <1>2
  <2> HIDE DEF P, Q
  <2>2. Cardinality(Q) = Cardinality(P) + 1
    BY <1>1, <2>1, FS_AddElement
  <2>3. QED
    BY <1>2, <2>2 DEF Promotions, P, Q
<1>3. CASE entries[n + 1].verdict # "promoted"
  <2>1. Q = P
    BY <1>3
  <2>2. Cardinality(Q) = Cardinality(P) /\ Cardinality(P) + 0 = Cardinality(P)
    BY <1>1, <2>1
  <2> HIDE DEF P, Q
  <2>3. Cardinality(Q) = Cardinality(P) + (IF entries[n + 1].verdict = "promoted" THEN 1 ELSE 0)
    BY <1>3, <2>2
  <2>4. QED
    BY <2>3 DEF Promotions, P, Q
<1>4. QED
  BY <1>2, <1>3

-----------------------------------------------------------------------------
(* The scalars of a configuration are numbers or not set, so that scores are numbers. *)

Scalars(c) == "scalars" \in DOMAIN c /\ c.scalars \in [ScalarKeys -> Int \cup {Unset}]

LEMMA ApplyScalars ==
  ASSUME NEW c, NEW move, Scalars(c), Numeric(move)
  PROVE  Scalars(Apply(c, move))
<1>1. ASSUME NEW f, NEW value, f \in {"strategy", "guards", "judge", "criteria", "prompt"}
      PROVE  Scalars([c EXCEPT ![f] = value])
  BY <1>1 DEF Scalars
<1>2. CASE Op(move) = "set_strategy"
  BY <1>1, <1>2 DEF Apply
<1>3. CASE Op(move) = "toggle_guard"
  BY <1>1, <1>3 DEF Apply
<1>4. CASE Op(move) = "tune_scalar"
  <2>1. Apply(c, move) = [c EXCEPT !.scalars[Target(move)] = Value(move)]
    BY <1>4 DEF Apply
  <2>2. Value(move) \in Int
    BY <1>4 DEF Numeric
  <2> DEFINE d == [c EXCEPT !.scalars[Target(move)] = Value(move)]
  <2>3. "scalars" \in DOMAIN d /\ d.scalars = [c.scalars EXCEPT ![Target(move)] = Value(move)]
    BY DEF Scalars
  <2>4. [c.scalars EXCEPT ![Target(move)] = Value(move)] \in [ScalarKeys -> Int \cup {Unset}]
    BY <2>2 DEF Scalars
  <2>5. QED
    BY <2>1, <2>3, <2>4 DEF Scalars
<1>5. CASE Op(move) = "set_stage_param"
  BY <1>1, <1>5 DEF Apply
<1>6. CASE Op(move) = "edit_criterion"
  BY <1>1, <1>6 DEF Apply
<1>7. CASE Op(move) = "append_guidance"
  <2>1. Apply(c, move) = [c EXCEPT !.prompt.guidance = Value(move)]
    BY <1>7 DEF Apply
  <2>2. [c EXCEPT !.prompt.guidance = Value(move)]
          = [c EXCEPT !["prompt"] = [c.prompt EXCEPT !.guidance = Value(move)]]
    OBVIOUS
  <2>3. QED
    BY <1>1, <2>1, <2>2
<1>8. CASE Op(move) \notin {"set_strategy", "toggle_guard", "tune_scalar", "set_stage_param",
                             "edit_criterion", "append_guidance"}
  BY <1>1, <1>8 DEF Apply
<1>9. QED
  BY <1>2, <1>3, <1>4, <1>5, <1>6, <1>7, <1>8

LEMMA SyntheticScoreType ==
  ASSUME NEW c, Scalars(c), NEW task, task.noise \in Int
  PROVE  SyntheticScore(c, task) \in Int
<1>1. /\ c.scalars["validation_threshold"] \in Int \cup {Unset}
      /\ c.scalars["max_retries"] \in Int \cup {Unset}
  BY ForgeAssumption DEF Scalars
<1> DEFINE signals == SyntheticSignals(c, task)
<1>2. Threshold(c, 50) \in Int
  BY <1>1 DEF Threshold
<1>3. \A b : Magnitude(b) \in Int
  BY DEF Magnitude
<1>4. /\ signals.ungated_low_quality \in Int /\ signals.accepted_borderline \in Int
      /\ signals.over_strict_stall \in Int /\ signals.regulation_violation \in Int
      /\ signals.missing_criterion \in Int /\ signals.no_recovery \in Int
      /\ signals.retry_waste \in Int
  BY <1>1, <1>2, <1>3 DEF SyntheticSignals
<1> HIDE DEF signals
<1> DEFINE lost == 30 * signals.ungated_low_quality + 18 * signals.accepted_borderline
                   + 25 * signals.over_strict_stall + 25 * signals.regulation_violation
                   + 7 * signals.missing_criterion + 10 * signals.no_recovery
                   + (IF signals.retry_waste > 0 THEN 500 ELSE 0)
           score0 == 100 - lost \div 100 + task.noise
<1>5. lost \in Int
  BY <1>4
<1>6. SyntheticScore(c, task) = IF score0 < 0 THEN 0 ELSE IF score0 > 100 THEN 100 ELSE score0
  BY DEF SyntheticScore, signals
<1> HIDE DEF lost
<1>7. score0 \in Int
  BY <1>5
<1> HIDE DEF score0
<1>8. QED
  BY <1>6, <1>7

\* An evaluation scores the held-out tasks with a number.
LEMMA HeldoutNumber ==
  ASSUME NEW setup \in Setups, NEW c, Scalars(c), NEW sc \in Evaluations(setup, c)
  PROVE  sc.heldout \in Int
<1>1. /\ setup.tasks \in Seq([regulated : BOOLEAN, noise : Int])
      /\ \A run \in RunEndings : run.crash \/ run.judged \in Int \cup {Unset}
  BY ForgeAssumption
<1> DEFINE n == Len(setup.tasks)
<1>2. n \in Nat /\ DOMAIN setup.tasks = 1..n /\ \A i \in 1..n : setup.tasks[i].noise \in Int
  <2>1. \A i \in 1..Len(setup.tasks) : setup.tasks[i] \in [regulated : BOOLEAN, noise : Int]
    BY <1>1, ElementOfSeq
  <2>2. Len(setup.tasks) \in Nat /\ DOMAIN setup.tasks = 1..Len(setup.tasks)
    BY <1>1, LenProperties
  <2>3. QED
    BY <2>1, <2>2
<1>3. ASSUME NEW dev, NEW sec, NEW records, DOMAIN records = 1..n,
             \A i \in 1..n : records[i].score \in Int
      PROVE  Score(dev, records, sec).heldout \in Int
  <2> DEFINE numbers == [i \in DOMAIN records |-> records[i].score]
  <2>1. numbers \in [1..n -> Int]
    BY <1>3
  <2> HIDE DEF numbers
  <2>2. Total(numbers) \in Int
    BY <1>2, <2>1, TotalType
  <2>3. QED
    BY <2>2 DEF Score, numbers
<1>4. CASE setup.runner = "synthetic"
  <2> DEFINE records == [i \in DOMAIN setup.tasks |->
                           Record(SyntheticScore(c, setup.tasks[i]),
                                  SyntheticSignals(c, setup.tasks[i]))]
  <2> DEFINE sum == Total([i \in DOMAIN records |-> records[i].score])
  <2>1. PICK sec \in Secondaries(setup) : sc = Score(sum, records, sec)
    <3>1. Evaluations(setup, c) = {Score(sum, records, sec) : sec \in Secondaries(setup)}
      BY <1>4 DEF Evaluations
    <3> HIDE DEF records, sum
    <3>2. QED
      BY <3>1
  <2>2. DOMAIN records = 1..n /\ \A i \in 1..n : records[i].score \in Int
    BY <1>2, SyntheticScoreType DEF Record
  <2> HIDE DEF records, n
  <2>3. QED
    BY <1>3, <2>1, <2>2
<1>5. CASE setup.runner # "synthetic"
  <2>1. PICK dev \in DevScores, runs \in [DOMAIN setup.tasks -> RunEndings],
             sec \in Secondaries(setup) :
          sc = Score(dev, [i \in DOMAIN setup.tasks |->
                             Record(EngineScore(runs[i]), EngineSignals(runs[i], c))], sec)
    BY <1>5 DEF Evaluations
  <2> DEFINE records == [i \in DOMAIN setup.tasks |->
                           Record(EngineScore(runs[i]), EngineSignals(runs[i], c))]
  <2>2. \A run \in RunEndings : EngineScore(run) \in Int
    BY <1>1 DEF EngineScore
  <2>3. DOMAIN records = 1..n /\ \A i \in 1..n : records[i].score \in Int
    BY <1>2, <2>2 DEF Record
  <2>4. sc = Score(dev, records, sec)
    BY <2>1
  <2> HIDE DEF records, n
  <2>5. QED
    BY <1>3, <2>3, <2>4
<1>6. QED
  BY <1>4, <1>5

-----------------------------------------------------------------------------
(* Candidates tune scalars to numbers. *)

AllNumeric(list) == \E S : list \in Seq(S) /\ \A move \in S : Numeric(move)

LEMMA NumericOf ==
  ASSUME NEW S, NEW list \in Seq(S), \A move \in S : Numeric(move)
  PROVE  AllNumeric(list)
BY Zenon DEF AllNumeric

LEMMA NumericEmpty == AllNumeric(<<>>)
<1> DEFINE S == {}
<1>1. <<>> \in Seq(S) /\ \A move \in S : Numeric(move)
  OBVIOUS
<1> HIDE DEF S
<1>2. QED
  BY <1>1, NumericOf

LEMMA NumericJoined ==
  ASSUME NEW one, NEW two, AllNumeric(one), AllNumeric(two)
  PROVE  AllNumeric(one \o two)
<1>1. PICK S : one \in Seq(S) /\ \A move \in S : Numeric(move)
  BY DEF AllNumeric
<1>2. PICK R : two \in Seq(R) /\ \A move \in R : Numeric(move)
  BY DEF AllNumeric
<1>3. one \in Seq(S \cup R) /\ two \in Seq(S \cup R)
  BY <1>1, <1>2
<1>4. one \o two \in Seq(S \cup R)
  BY <1>3
<1>5. QED
  BY <1>1, <1>2, <1>4 DEF AllNumeric

LEMMA NumericAppended ==
  ASSUME NEW list, NEW move, AllNumeric(list), Numeric(move)
  PROVE  AllNumeric(Append(list, move))
<1>1. PICK S : list \in Seq(S) /\ \A mv \in S : Numeric(mv)
  BY DEF AllNumeric
<1>2. list \in Seq(S \cup {move}) /\ move \in S \cup {move}
  BY <1>1
<1>3. Append(list, move) \in Seq(S \cup {move})
  BY <1>2
<1>4. \A mv \in S \cup {move} : Numeric(mv)
  BY <1>1
<1>5. QED
  BY <1>3, <1>4, NumericOf

LEMMA NumericOne ==
  ASSUME NEW move, Numeric(move)
  PROVE  AllNumeric(<<move>>)
<1> DEFINE S == {move}
<1>1. <<move>> \in Seq(S) /\ \A mv \in S : Numeric(mv)
  OBVIOUS
<1> HIDE DEF S
<1>2. QED
  BY <1>1, NumericOf

LEMMA NumericChosen ==
  ASSUME NEW list, NEW places, AllNumeric(list)
  PROVE  AllNumeric(Chosen(list, places))
BY ChosenFrom DEF AllNumeric

\* Around a number lie numbers.
LEMMA AroundNumeric ==
  ASSUME NEW key \in ScalarKeys, NEW value \in Int \cup {Unset}
  PROVE  Around(key, value) \subseteq Int
<1> DEFINE spec == ScalarSpecs[key]
<1>1. spec.lo \in Int /\ spec.hi \in Int /\ spec.step \in Int
  BY ForgeAssumption
<1>2. \A n \in Int : Half(n) \in Int
  BY DEF Half
<1>3. \A n \in Int : Clamped(spec, n) \in Int
  BY <1>1 DEF Clamped
<1> DEFINE near == IF value = Unset THEN {spec.lo, Half(spec.lo + spec.hi), spec.hi}
                   ELSE {value - spec.step, value + spec.step, 2 * value, Half(value)}
<1>4. near \subseteq Int
  <2>1. spec.lo + spec.hi \in Int /\ \A n \in Int : {n - spec.step, n + spec.step, 2 * n} \subseteq Int
    BY <1>1
  <2> HIDE DEF spec
  <2>2. QED
    BY <1>1, <1>2, <2>1
<1>5. Around(key, value) = {Clamped(spec, n) : n \in near} \ {value}
  BY DEF Around
<1> HIDE DEF near, spec
<1>6. QED
  BY <1>3, <1>4, <1>5

\* Moves of other operations tune nothing.
LEMMA Untuned ==
  /\ \A target, value : Numeric(<<"set_strategy", target, value>>)
  /\ \A target, value : Numeric(<<"toggle_guard", target, value>>)
  /\ \A target, value : Numeric(<<"set_stage_param", target, value>>)
  /\ \A target, value : Numeric(<<"append_guidance", target, value>>)
  /\ \A name, weight, hard : Numeric(Edit(name, weight, hard))
BY DEF Numeric, Edit, Op

LEMMA MovesNumeric ==
  ASSUME NEW c, Scalars(c), NEW move \in LegalMoves(c)
  PROVE  Numeric(move)
<1> DEFINE strategies == {<<"set_strategy", "s08_decide", impl>> : impl \in Impls \ {c.strategy}}
           guards == {<<"toggle_guard", name, ~Has(c.guards, name)>> : name \in GuardNames}
           tuned == UNION {{Tune(key, n) : n \in Around(key, c.scalars[key])} : key \in ScalarKeys}
           judges == {<<"set_stage_param", "s08_decide:judge_enabled", c.judge # TRUE>>}
           edits == {Edit(name, 20, FALSE) : name \in ToSet(Unused(c))}
<1>0. LegalMoves(c) = strategies \cup guards \cup tuned \cup judges \cup edits
  BY DEF LegalMoves
<1>1. CASE move \in strategies
  BY <1>1, Untuned
<1>2. CASE move \in guards
  BY <1>2, Untuned, Zenon
<1>3. CASE move \in tuned
  <2>1. PICK key \in ScalarKeys : move \in {Tune(key, n) : n \in Around(key, c.scalars[key])}
    BY <1>3
  <2>2. PICK n \in Around(key, c.scalars[key]) : move = Tune(key, n)
    BY <2>1
  <2>3. n \in Int
    BY <2>2, AroundNumeric DEF Scalars
  <2>4. QED
    BY <2>2, <2>3 DEF Tune, Numeric, Value
<1>4. CASE move \in judges
  BY <1>4, Untuned, Zenon
<1>5. CASE move \in edits
  BY <1>5, Untuned, Zenon
<1> HIDE DEF strategies, guards, tuned, judges, edits
<1>6. QED
  BY <1>0, <1>1, <1>2, <1>3, <1>4, <1>5

LEMMA FixesNumeric ==
  ASSUME NEW s \in DOMAIN Fixes
  PROVE  AllNumeric(Fixes[s])
<1>1. ASSUME NEW move PROVE Numeric(move) => AllNumeric(<<move>>)
  BY NumericOne
<1>2. ASSUME NEW one, NEW two, Numeric(one), Numeric(two) PROVE AllNumeric(<<one, two>>)
  <2> DEFINE S == {one, two}
  <2>1. <<one, two>> \in Seq(S) /\ \A mv \in S : Numeric(mv)
    BY <1>2
  <2> HIDE DEF S
  <2>2. QED
    BY <2>1, NumericOf
<1>3. \A key : \A n \in Int : Numeric(Tune(key, n))
  BY DEF Numeric, Tune, Value
<1>6. /\ Numeric(Tune("validation_threshold", 90)) /\ Numeric(Tune("validation_threshold", 80))
      /\ Numeric(Tune("max_retries", 2)) /\ Numeric(Tune("max_iterations", 8))
  BY <1>3
<1>7. /\ Fixes["ungated_low_quality"] = <<<<"set_stage_param", "s08_decide:judge_enabled", TRUE>>>>
      /\ Fixes["accepted_borderline"]
           = <<Tune("validation_threshold", 90), Tune("validation_threshold", 80)>>
      /\ Fixes["over_strict_stall"] = <<Tune("validation_threshold", 80)>>
      /\ Fixes["regulation_violation"] = <<<<"toggle_guard", "content", TRUE>>>>
      /\ Fixes["missing_criterion"] = <<Edit("regulation", 30, TRUE)>>
      /\ Fixes["no_recovery"] = <<Tune("max_retries", 2)>>
      /\ Fixes["retry_waste"] = <<Tune("max_retries", 2)>>
      /\ Fixes["low_judge_score"] = <<Tune("max_retries", 2)>>
      /\ Fixes["iteration_pressure"] = <<Tune("max_iterations", 8)>>
  BY DEF Fixes
<1>8. s \in {"ungated_low_quality", "accepted_borderline", "over_strict_stall",
             "regulation_violation", "missing_criterion", "no_recovery", "retry_waste",
             "low_judge_score", "iteration_pressure"}
  BY DEF Fixes
<1>9. /\ AllNumeric(Fixes["accepted_borderline"]) /\ AllNumeric(Fixes["over_strict_stall"])
      /\ AllNumeric(Fixes["no_recovery"]) /\ AllNumeric(Fixes["retry_waste"])
      /\ AllNumeric(Fixes["low_judge_score"]) /\ AllNumeric(Fixes["iteration_pressure"])
  BY <1>1, <1>2, <1>6, <1>7
<1>10. AllNumeric(Fixes["ungated_low_quality"])
  BY <1>1, <1>7, Untuned, Zenon
<1>11. AllNumeric(Fixes["regulation_violation"])
  BY <1>1, <1>7, Untuned, Zenon
<1>12. AllNumeric(Fixes["missing_criterion"])
  BY <1>1, <1>7, Untuned, Zenon
<1>13. QED
  BY <1>8, <1>9, <1>10, <1>11, <1>12

LEMMA PromotableNumeric ==
  ASSUME NEW c
  PROVE  AllNumeric(Promotable(c))
<1> DEFINE edits == {Edit(name, 20, FALSE) : name \in STRING}
<1>1. Unused(c) \in Seq(STRING)
  BY ChosenFrom, ForgeAssumption DEF Unused
<1>2. Promotable(c) = [i \in 1..Len(Unused(c)) |-> Edit(Unused(c)[i], 20, FALSE)]
  BY <1>1 DEF Promotable
<1>3. \A i \in 1..Len(Unused(c)) : Unused(c)[i] \in STRING
  BY <1>1, ElementOfSeq
<1>4. Len(Unused(c)) \in Nat
  BY <1>1, LenProperties
<1>5. Promotable(c) \in Seq(edits)
  <2> DEFINE n == Len(Unused(c))
             list == [i \in 1..n |-> Edit(Unused(c)[i], 20, FALSE)]
  <2>1. \A i \in 1..n : Edit(Unused(c)[i], 20, FALSE) \in edits
    BY <1>3
  <2> HIDE DEF edits, n
  <2>2. list \in [1..n -> edits]
    BY <2>1
  <2>3. n \in Nat /\ Promotable(c) = list
    BY <1>2, <1>4 DEF n
  <2> HIDE DEF list
  <2>4. QED
    BY <2>2, <2>3, IsASeq
<1>6. \A move \in edits : Numeric(move)
  BY DEF Numeric, Edit, Op
<1>7. QED
  BY <1>5, <1>6 DEF AllNumeric

LEMMA CandidatesNumeric ==
  ASSUME NEW setup \in Setups, NEW c, Scalars(c), NEW records,
         NEW found \in Candidates(setup, c, records)
  PROVE  AllNumeric(found)
<1>1. PICK fixes \in Reflections(records), line \in Guidance(setup, records),
           others \in Synthesized(setup, c) :
        found = Fresh(fixes, line \o setup.registered \o others)
  BY DEF Candidates
<1>2. AllNumeric(fixes)
  <2>1. CASE Dominant(records) = {}
    BY <1>1, <2>1, NumericEmpty DEF Reflections
  <2>2. CASE Dominant(records) # {}
    <3>1. PICK s \in DOMAIN Fixes : \E places : fixes = Chosen(Fixes[s], places)
      BY <1>1, <2>2 DEF Reflections, Dominant
    <3>2. QED
      BY <3>1, FixesNumeric, NumericChosen
  <2>3. QED
    BY <2>1, <2>2
<1>3. AllNumeric(line)
  <2>1. line = <<>> \/ \E text : line = <<<<"append_guidance", "system_prompt", text>>>>
    BY <1>1 DEF Guidance
  <2>2. ASSUME NEW text PROVE AllNumeric(<<<<"append_guidance", "system_prompt", text>>>>)
    <3> DEFINE move == <<"append_guidance", "system_prompt", text>>
    <3>1. Numeric(move)
      BY DEF Numeric, Op
    <3> HIDE DEF move
    <3>2. AllNumeric(<<move>>)
      BY <3>1, NumericOne
    <3>3. QED
      BY <3>2 DEF move
  <2>3. QED
    BY <2>1, <2>2, NumericEmpty
<1>4. AllNumeric(setup.registered)
  BY ForgeAssumption, NumericOf
<1>5. AllNumeric(others)
  <2>1. \/ others = <<>> \/ others = Promotable(c)
        \/ \E move \in LegalMoves(c) : others = Append(Promotable(c), move)
    BY <1>1 DEF Synthesized
  <2>2. QED
    BY <2>1, NumericEmpty, PromotableNumeric, NumericAppended, MovesNumeric
<1>6. AllNumeric(fixes \o (line \o setup.registered \o others))
  BY <1>2, <1>3, <1>4, <1>5, NumericJoined
<1>7. QED
  BY <1>1, <1>6, NumericChosen DEF Fresh

-----------------------------------------------------------------------------
(* The held-out score along the promotions. *)

\* Scores that never fall, the last of which is given.
Rising(history, last) ==
  /\ history \in Seq(Int) /\ history # <<>> /\ history[Len(history)] = last
  /\ \A i, j \in DOMAIN history : i < j => ~(history[j] < history[i])

\* A score that is not below the last may follow.
LEMMA RisesOn ==
  ASSUME NEW history, NEW last, Rising(history, last), NEW n \in Int, ~(n < last)
  PROVE  Rising(Append(history, n), n)
<1> DEFINE longer == Append(history, n)
           m == Len(history)
<1>1. /\ history \in Seq(Int) /\ m \in Nat \ {0} /\ history[m] = last
      /\ \A i, j \in 1..m : i < j => ~(history[j] < history[i])
      /\ \A i \in 1..m : history[i] \in Int
  BY DEF Rising
<1>2. /\ longer \in Seq(Int) /\ Len(longer) = m + 1 /\ DOMAIN longer = 1..(m + 1)
      /\ longer[m + 1] = n /\ \A i \in 1..m : longer[i] = history[i]
  BY <1>1
<1> HIDE DEF longer, m
<1>3. \A i \in 1..m : ~(n < history[i])
  BY <1>1
<1>4. ASSUME NEW i \in 1..(m + 1), NEW j \in 1..(m + 1), i < j
      PROVE  ~(longer[j] < longer[i])
  <2>1. i \in 1..m
    BY <1>1, <1>4
  <2>2. CASE j = m + 1
    BY <1>2, <1>3, <2>1, <2>2
  <2>3. CASE j # m + 1
    <3>1. j \in 1..m
      BY <1>1, <2>3
    <3>2. longer[i] = history[i] /\ longer[j] = history[j]
      BY <1>2, <2>1, <3>1
    <3>3. QED
      BY <1>1, <1>4, <2>1, <3>1, <3>2
  <2>4. QED
    BY <2>2, <2>3
<1>5. longer # <<>>
  BY <1>1, <1>2
<1>6. QED
  BY <1>2, <1>4, <1>5 DEF Rising, longer

\* The invariant: scalars and scores are numbers, and the last of the history is the score
\* of the configuration in place.
ScoresInv ==
  /\ su \in Setups /\ Scalars(config) /\ AllNumeric(cands)
  /\ result = [config |-> result.config, history |-> result.history]
  /\ pc = "base" => result.history = <<>>
  /\ pc # "base" => Rising(result.history, score.heldout)

LEMMA InitScores == ForgeInit => ScoresInv
<1> SUFFICES ASSUME ForgeInit PROVE ScoresInv
  OBVIOUS
<1>1. su \in Setups /\ Scalars(config)
  BY ForgeAssumption DEF ForgeInit, Scalars
<1>2. QED
  BY <1>1, NumericEmpty DEF ForgeInit, ScoresInv

LEMMA StepScores == ScoresInv /\ [ForgeNext]_forgeVars => ScoresInv'
<1> SUFFICES ASSUME ScoresInv, [ForgeNext]_forgeVars PROVE ScoresInv'
  OBVIOUS
<1>1. CASE Baseline
  <2>1. PICK sc \in Evaluations(su, config) :
          /\ score' = sc /\ bestSec' = sc.secondary
          /\ result' = [result EXCEPT !.history = <<sc.heldout>>]
    BY <1>1 DEF Baseline
  <2>2. sc.heldout \in Int
    BY <2>1, HeldoutNumber DEF ScoresInv
  <2>3. Rising(<<sc.heldout>>, sc.heldout)
    BY <2>2 DEF Rising
  <2>4. result' = [config |-> result.config, history |-> <<sc.heldout>>]
    BY <2>1 DEF ScoresInv
  <2>5. Rising(result'.history, score'.heldout) /\ result' = [config |-> result'.config, history |-> result'.history]
    BY <2>1, <2>3, <2>4
  <2>6. pc' # "base" /\ UNCHANGED <<su, config, cands>>
    BY <1>1 DEF Baseline
  <2>7. QED
    BY <2>5, <2>6 DEF ScoresInv
<1>2. CASE Reflect
  <2>1. PICK found \in Candidates(su, config, score.records) :
          cands' = found /\ pc' = IF found = <<>> THEN "audit" ELSE "try"
    BY <1>2 DEF Reflect
  <2>2. AllNumeric(found)
    BY <2>1, CandidatesNumeric DEF ScoresInv
  <2>3. pc # "base" /\ pc' # "base" /\ AllNumeric(cands') /\ UNCHANGED <<su, config, score, result>>
    BY <1>2, <2>1, <2>2 DEF Reflect
  <2>4. QED
    BY <2>3 DEF ScoresInv
<1>3. CASE Try
  <2> DEFINE move == Head(cands)
  <2>0. pc = "try" /\ cands # <<>> /\ UNCHANGED su
    BY <1>3 DEF Try
  <2>1. Numeric(move) /\ AllNumeric(Tail(cands))
    <3>1. PICK S : cands \in Seq(S) /\ \A mv \in S : Numeric(mv)
      BY DEF ScoresInv, AllNumeric
    <3>2. move \in S /\ Tail(cands) \in Seq(S)
      BY <2>0, <3>1
    <3>3. QED
      BY <3>1, <3>2, NumericOf
  <2>2. Scalars(Apply(config, move))
    BY <2>1, ApplyScalars DEF ScoresInv
  <2>3. PICK nsc \in Evaluations(su, Apply(config, move)) :
          IF Promote(nsc)
          THEN /\ config' = Apply(config, move)
               /\ score' = nsc
               /\ result' = [config |-> config', history |-> Append(result.history, nsc.heldout)]
               /\ cands' = <<>> /\ pc' = "reflect"
          ELSE /\ config' = RolledBack(move)
               /\ cands' = Tail(cands)
               /\ UNCHANGED <<score, result, pc>>
    BY <1>3 DEF Try
  <2>4. nsc.heldout \in Int
    BY <2>2, <2>3, HeldoutNumber DEF ScoresInv
  <2> HIDE DEF move
  <2>5. CASE Promote(nsc)
    <3>1. ~(nsc.heldout < score.heldout)
      BY <2>5 DEF Promote
    <3>2. Rising(Append(result.history, nsc.heldout), nsc.heldout)
      BY <2>0, <2>4, <3>1, RisesOn DEF ScoresInv
    <3> DEFINE longer == Append(result.history, nsc.heldout)
    <3>3. score' = nsc /\ result' = [config |-> config', history |-> longer]
      BY <2>3, <2>5
    <3> HIDE DEF longer
    <3>4. result'.history = longer /\ result' = [config |-> result'.config, history |-> result'.history]
      BY <3>3
    <3>5. Rising(result'.history, score'.heldout)
      BY <3>2, <3>3, <3>4 DEF longer
    <3>6. Scalars(config') /\ AllNumeric(cands') /\ pc' # "base" /\ su' \in Setups
      BY <2>0, <2>2, <2>3, <2>5, NumericEmpty DEF ScoresInv
    <3>7. QED
      BY <3>4, <3>5, <3>6 DEF ScoresInv
  <2>6. CASE ~Promote(nsc)
    BY <2>0, <2>1, <2>3, <2>6 DEF ScoresInv, RolledBack
  <2>7. QED
    BY <2>5, <2>6
<1>4. CASE StepsOut \/ NoProgress \/ Audit
  <2>1. pc # "base" /\ pc' # "base" /\ UNCHANGED <<su, config, cands, score, result>>
    BY <1>4 DEF StepsOut, NoProgress, Audit
  <2>2. QED
    BY <2>1 DEF ScoresInv
<1>5. CASE UNCHANGED forgeVars
  BY <1>5 DEF ScoresInv, forgeVars
<1>6. QED
  BY <1>1, <1>2, <1>3, <1>4, <1>5 DEF ForgeNext

\* Whatever configurations, runners, scores and moves there are, no promotion lowers the
\* held-out score: neither against the one before nor against any other (forge/loop.py:123-127).
THEOREM HeldoutKept == ForgeSpec => []HeldoutNeverFalls
<1>1. ScoresInv => HeldoutNeverFalls
  BY DEF ScoresInv, Rising, HeldoutNeverFalls
<1>2. QED
  BY <1>1, InitScores, StepScores, PTL DEF ForgeSpec

-----------------------------------------------------------------------------
(* The log. *)

\* Fewer entries have no more promotions.
LEMMA PromotionsBelow ==
  ASSUME NEW entries, NEW n \in Nat, NEW i \in 0..n
  PROVE  Promotions(entries, i) \in Nat /\ Promotions(entries, i) <= Promotions(entries, n)
<1> DEFINE P == {k \in 1..i : entries[k].verdict = "promoted"}
           Q == {k \in 1..n : entries[k].verdict = "promoted"}
<1>1. P \subseteq Q
  OBVIOUS
<1>2. IsFiniteSet(Q)
  <2>1. IsFiniteSet(1..n)
    BY FS_Interval
  <2>2. QED
    BY <2>1, FS_Subset
<1> HIDE DEF P, Q
<1>3. Cardinality(P) <= Cardinality(Q)
  BY <1>1, <1>2, FS_Subset
<1>4. i \in Nat
  OBVIOUS
<1>5. Promotions(entries, i) \in Nat
  BY <1>4, PromotionsType
<1>6. QED
  BY <1>3, <1>5 DEF P, Q, Promotions

\* A log tells how a configuration came out of another, with which scores.
Tells(base, entries, c, history) ==
  /\ c = Replayed(base, entries, Len(entries))
  /\ Len(history) = Promotions(entries, Len(entries)) + 1
  /\ \A i \in 1..Len(entries) :
       /\ entries[i].before = history[Promotions(entries, i - 1) + 1]
       /\ entries[i].verdict = "promoted" =>
            entries[i].after = history[Promotions(entries, i) + 1]

\* It does so with an entry more, when this says the score in place and the next one.
LEMMA TellsOn ==
  ASSUME NEW S, NEW entries \in Seq(S), NEW base, NEW c, NEW history \in Seq(Int),
         Tells(base, entries, c, history),
         NEW entry, entry.before = history[Len(history)],
         NEW longer \in Seq(Int),
         entry.verdict # "promoted" => longer = history,
         entry.verdict = "promoted" => longer = Append(history, entry.after)
  PROVE  Tells(base, Append(entries, entry), Moved(c, entry), longer)
<1> DEFINE n == Len(entries)
           more == Append(entries, entry)
           P(i) == Promotions(entries, i)
<1>1. n \in Nat
  OBVIOUS
<1>2. Len(more) = n + 1 /\ more[n + 1] = entry /\ \A k \in 1..n : more[k] = entries[k]
  <2>1. entries \in Seq(S \cup {entry}) /\ entry \in S \cup {entry}
    OBVIOUS
  <2>2. QED
    BY <2>1
<1>3. /\ c = Replayed(base, entries, n) /\ Len(history) = P(n) + 1
      /\ \A i \in 1..n : /\ entries[i].before = history[P(i - 1) + 1]
                         /\ entries[i].verdict = "promoted" => entries[i].after = history[P(i) + 1]
  BY DEF Tells
<1> HIDE DEF n, more
<1>4. Replayed(base, more, n + 1) = Moved(c, entry)
  <2>1. \A k \in 1..n : more[k] = entries[k]
    BY <1>2
  <2>2. Replayed(base, more, n + 1) = Moved(Replayed(base, entries, n), more[n + 1])
    BY <1>1, <2>1, ReplayedNext
  <2>3. QED
    BY <1>2, <1>3, <2>2
<1>5. \A i \in 0..n : Promotions(more, i) = P(i)
  <2>1. ASSUME NEW i \in 0..n PROVE Promotions(more, i) = P(i)
    <3>1. i \in Nat /\ \A k \in 1..i : more[k] = entries[k]
      BY <1>1, <1>2
    <3>2. QED
      BY <3>1, PromotionsSame
  <2>2. QED
    BY <2>1
<1>6. Promotions(more, n + 1) = P(n) + (IF entry.verdict = "promoted" THEN 1 ELSE 0)
  <2>1. Promotions(more, n) = P(n)
    BY <1>1, <1>5
  <2>2. QED
    BY <1>1, <1>2, <2>1, PromotionsNext
<1>7. \A i \in 0..n : P(i) \in Nat /\ P(i) <= P(n)
  BY <1>1, PromotionsBelow
<1> HIDE DEF P
<1>8. P(n) \in Nat
  BY <1>1, <1>7
<1>9. Len(longer) = Promotions(more, n + 1) + 1
  <2>1. CASE entry.verdict = "promoted"
    <3>1. longer = Append(history, entry.after)
      BY <2>1
    <3>2. Len(longer) = Len(history) + 1
      BY <3>1
    <3>3. QED
      BY <1>3, <1>6, <1>8, <2>1, <3>2
  <2>2. CASE entry.verdict # "promoted"
    BY <1>3, <1>6, <1>8, <2>2
  <2>3. QED
    BY <2>1, <2>2
<1>10. \A k \in 1..Len(history) : longer[k] = history[k]
  <2>1. CASE entry.verdict = "promoted"
    <3>1. longer = Append(history, entry.after)
      BY <2>1
    <3>2. \A x : \A k \in 1..Len(history) : Append(history, x)[k] = history[k]
      BY AppendProperties
    <3>3. QED
      BY <3>1, <3>2
  <2>2. CASE entry.verdict # "promoted"
    BY <2>2
  <2>3. QED
    BY <2>1, <2>2
<1>11. ASSUME NEW i \in 1..(n + 1)
       PROVE  /\ more[i].before = longer[Promotions(more, i - 1) + 1]
              /\ more[i].verdict = "promoted" => more[i].after = longer[Promotions(more, i) + 1]
  <2>1. CASE i \in 1..n
    <3>1. i - 1 \in 0..n /\ i \in 0..n /\ more[i] = entries[i]
      BY <1>1, <1>2, <2>1
    <3>2. /\ Promotions(more, i - 1) = P(i - 1) /\ Promotions(more, i) = P(i)
          /\ P(i - 1) + 1 \in 1..Len(history) /\ P(i) + 1 \in 1..Len(history)
      <4>1. P(i - 1) \in Nat /\ P(i - 1) <= P(n) /\ P(i) \in Nat /\ P(i) <= P(n)
        BY <1>7, <3>1
      <4>2. Promotions(more, i - 1) = P(i - 1) /\ Promotions(more, i) = P(i)
        BY <1>5, <3>1
      <4>3. Len(history) = P(n) + 1
        BY <1>3
      <4>4. \A p, m \in Nat : p <= m => p + 1 \in 1..(m + 1)
        OBVIOUS
      <4>5. P(i - 1) + 1 \in 1..(P(n) + 1) /\ P(i) + 1 \in 1..(P(n) + 1)
        BY <1>8, <4>1, <4>4
      <4>6. QED
        BY <4>2, <4>3, <4>5
    <3>3. QED
      BY <1>3, <1>10, <2>1, <3>1, <3>2
  <2>2. CASE i = n + 1
    <3>1. i - 1 = n /\ more[i] = entry /\ Promotions(more, i - 1) = P(n)
      <4>1. i - 1 = n /\ n \in 0..n
        BY <1>1, <2>2
      <4>2. Promotions(more, n) = P(n)
        BY <1>5, <4>1
      <4>3. QED
        BY <1>2, <2>2, <4>1, <4>2
    <3>2. P(n) + 1 \in 1..Len(history)
      BY <1>3, <1>8
    <3>3. more[i].before = longer[Promotions(more, i - 1) + 1]
      BY <1>3, <1>10, <3>1, <3>2
    <3>4. ASSUME entry.verdict = "promoted" PROVE entry.after = longer[Promotions(more, i) + 1]
      <4>1. longer = Append(history, entry.after) /\ Promotions(more, i) + 1 = Len(history) + 1
        BY <1>3, <1>6, <1>8, <2>2, <3>4
      <4>2. QED
        BY <4>1
    <3>5. QED
      BY <3>1, <3>3, <3>4
  <2>3. QED
    BY <1>1, <2>1, <2>2
<1>12. QED
  BY <1>2, <1>4, <1>9, <1>11 DEF Tells, more, n

\* The invariant: the log is a list, empty at first, and tells the configuration in place.
LogInv ==
  /\ \E S : commits \in Seq(S)
  /\ config = result.config
  /\ pc = "base" => commits = <<>> /\ config = su.base
  /\ pc # "base" => Tells(su.base, commits, config, result.history)

LEMMA InitLog == ForgeInit => LogInv
<1> SUFFICES ASSUME ForgeInit PROVE LogInv
  OBVIOUS
<1>1. commits \in Seq({1})
  BY DEF ForgeInit
<1>2. QED
  BY <1>1 DEF ForgeInit, LogInv

LEMMA StepLog == ScoresInv /\ ScoresInv' /\ LogInv /\ [ForgeNext]_forgeVars => LogInv'
<1> SUFFICES ASSUME ScoresInv, ScoresInv', LogInv, [ForgeNext]_forgeVars PROVE LogInv'
  OBVIOUS
<1>1. CASE Baseline
  <2>1. /\ pc = "base" /\ pc' = "reflect" /\ UNCHANGED <<su, config, commits>>
        /\ \E score1 : result' = [result EXCEPT !.history = <<score1>>]
    BY <1>1 DEF Baseline
  <2>2. /\ result'.config = result.config /\ Len(result'.history) = 1
    <3>1. PICK score1 : result' = [result EXCEPT !.history = <<score1>>]
      BY <2>1
    <3>2. result = [config |-> result.config, history |-> result.history]
      BY DEF ScoresInv
    <3>3. QED
      BY <3>1, <3>2
  <2>3. Promotions(<<>>, 0) = 0 /\ Replayed(su.base, <<>>, 0) = su.base
    BY PromotionsType, ReplayedNone
  <2>4. commits = <<>> /\ config = su.base /\ Len(commits) = 0
    BY <2>1 DEF LogInv
  <2>5. Tells(su.base, commits, config, result'.history)
    BY <2>2, <2>3, <2>4 DEF Tells
  <2>6. QED
    BY <2>1, <2>2, <2>5 DEF LogInv
<1>2. CASE Try
  <2> DEFINE move == Head(cands)
  <2>0. pc = "try" /\ UNCHANGED su
    BY <1>2 DEF Try
  <2>1. PICK nsc \in Evaluations(su, Apply(config, move)) :
          IF Promote(nsc)
          THEN /\ config' = Apply(config, move)
               /\ result' = [config |-> config', history |-> Append(result.history, nsc.heldout)]
               /\ Log(move, nsc, "promoted")
               /\ pc' = "reflect"
          ELSE /\ Log(move, nsc, "rolled_back")
               /\ config' = RolledBack(move)
               /\ UNCHANGED <<result, pc>>
    BY <1>2 DEF Try
  <2> HIDE DEF move
  <2>2. PICK S : commits \in Seq(S)
    BY DEF LogInv
  <2> DEFINE entry == [move |-> move, before |-> score.heldout, after |-> nsc.heldout,
                       verdict |-> IF Promote(nsc) THEN "promoted" ELSE "rolled_back"]
  <2>3. commits' = Append(commits, entry)
    BY <2>1 DEF Log
  <2>4. config' = Moved(config, entry)
    BY <2>1 DEF Moved, RolledBack
  <2>5. /\ result.history \in Seq(Int) /\ result'.history \in Seq(Int)
        /\ entry.before = result.history[Len(result.history)]
    <3>1. pc' # "base" /\ pc # "base"
      BY <2>0, <2>1
    <3>2. QED
      BY <3>1 DEF ScoresInv, Rising
  <2>6. /\ entry.verdict # "promoted" => result'.history = result.history
        /\ entry.verdict = "promoted" => result'.history = Append(result.history, entry.after)
    BY <2>1
  <2>7. Tells(su.base, commits, config, result.history)
    BY <2>0 DEF LogInv
  <2>8. config' = result'.config /\ pc' # "base"
    BY <2>0, <2>1 DEF LogInv, RolledBack
  <2>9. commits' \in Seq(S \cup {entry})
    <3>1. commits \in Seq(S \cup {entry}) /\ entry \in S \cup {entry}
      BY <2>2
    <3> HIDE DEF entry
    <3>2. QED
      BY <2>3, <3>1
  <2> HIDE DEF entry
  <2>10. Tells(su.base, Append(commits, entry), Moved(config, entry), result'.history)
    BY <2>2, <2>5, <2>6, <2>7, TellsOn
  <2>11. QED
    BY <2>0, <2>3, <2>4, <2>8, <2>9, <2>10 DEF LogInv
<1>3. CASE Reflect \/ StepsOut \/ NoProgress \/ Audit
  <2>1. pc # "base" /\ pc' # "base" /\ UNCHANGED <<su, config, result, commits>>
    BY <1>3 DEF Reflect, StepsOut, NoProgress, Audit
  <2>2. QED
    BY <2>1 DEF LogInv
<1>4. CASE UNCHANGED forgeVars
  BY <1>4 DEF LogInv, forgeVars
<1>5. QED
  BY <1>1, <1>2, <1>3, <1>4 DEF ForgeNext

\* The log replays to the configuration returned and tells its scores, however long it is and
\* whatever was rolled back in between (forge/loop.py:119-144).
THEOREM LogTrue == ForgeSpec => []LogReplays
<1>1. LogInv => LogReplays
  <2> SUFFICES ASSUME LogInv PROVE LogReplays
    OBVIOUS
  <2>1. PICK S : commits \in Seq(S)
    BY DEF LogInv
  <2>2. DOMAIN commits = 1..Len(commits)
    BY <2>1
  <2>3. CASE pc = "base"
    <3>1. commits = <<>> /\ config = su.base /\ config = result.config
      BY <2>3 DEF LogInv
    <3>2. Replayed(su.base, commits, Len(commits)) = su.base
      <4>1. Len(commits) = 0
        BY <3>1
      <4>2. QED
        BY <4>1, ReplayedNone
    <3>3. DOMAIN commits = {}
      BY <3>1
    <3>4. QED
      BY <2>3, <3>1, <3>2, <3>3 DEF LogReplays
  <2>4. CASE pc # "base"
    BY <2>2, <2>4 DEF LogInv, LogReplays, Tells
  <2>5. QED
    BY <2>3, <2>4
<1>2. ScoresInv /\ LogInv /\ [ForgeNext]_forgeVars => (ScoresInv /\ LogInv)'
  BY StepScores, StepLog
<1>3. QED
  BY <1>1, <1>2, InitScores, InitLog, PTL DEF ForgeSpec
=============================================================================
