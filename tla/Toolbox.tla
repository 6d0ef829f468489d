------------------------------- MODULE Toolbox -------------------------------
(***************************************************************************)
(* What the built-in tools of a run keep between calls: the bodies stored  *)
(* beside the conversation (PipelineState.pd_store), which rag_search       *)
(* (tools/rag_tool.py) and query_graph (tools/ontology_tool.py) fill and    *)
(* fetch_pd, fetch_synthesize and compact (tools/builtin.py) read, and the  *)
(* working memory of keep, check and recall (memory/recall.py).  The calls  *)
(* that only read run at the same time, in as many slots as the turn has    *)
(* of them; those that change the memory run when no other call does.       *)
(***************************************************************************)
EXTENDS Naturals, Sequences, FiniteSets

CONSTANTS
  Slots,          \* calls of one turn that run at the same time
  Collections,    \* document collections and graphs
  Questions,      \* what query_graph is asked
  Texts,          \* chunks, answers and notes
  Large,          \* those over the thresholds of size
  Summary,        \* what compact leaves of a body
  Notes,          \* ids the model gives to what it keeps
  Ranks,          \* priorities, by rank
  Scores,         \* scores of kept items; 0 is none
  RecallCap,      \* cap of the working memory, 0 for none
  TopK,           \* most results of a search
  SubTurns,       \* turns of a sub-agent (_SUB_MAX_TURNS_DEFAULT)
  MaxCalls,       \* bound: calls of tools
  MaxTurn,        \* bound: turns of the run
  Modes           \* how rag_search answers: "progressive", "eager" or "auto"

ASSUME ToolboxAssumption ==
  /\ Summary \notin Texts /\ Large \subseteq Texts
  /\ Ranks \subseteq Nat /\ Scores \subseteq Nat /\ 0 \in Scores
  /\ {RecallCap, TopK, SubTurns, MaxCalls, MaxTurn} \subseteq Nat /\ SubTurns > 0
  /\ Modes \subseteq {"progressive", "eager", "auto"}

\* The ids bodies are stored under: rank and collection of a search result, graph
\* and question of an answer, the item of the working memory.
RagId(c, i) == <<"rag", c, i>>
GraphId(c, q) == <<"graph", c, q>>
RecallId(n) == <<"recall", n, 0>>
StoreIds == {RagId(c, i) : c \in Collections, i \in 1..TopK}
            \cup {GraphId(c, q) : c \in Collections, q \in Questions}
            \cup {RecallId(n) : n \in Notes}
Bodies == Texts \cup {Summary}

Items == [id : Notes, text : Texts, rank : Ranks, score : Scores, turn : 0..MaxTurn,
          checked : {"no", "ok", "failed"}]

Idle == [op |-> "idle"]
Calls ==
  {Idle}
  \cup [op : {"rag"}, of : Collections]
  \cup [op : {"graph"}, of : Collections, question : Questions]
  \cup [op : {"synth"}, of : StoreIds, body : Bodies, turn : 0..SubTurns]

VARIABLES
  mode,      \* rag_pd_mode of this behaviour
  pd,        \* pd_stores: id -> body
  recall,    \* items of the RecallSet
  turn,      \* loop_iteration
  slots,     \* the calls being awaited
  calls      \* calls made so far
vars == <<mode, pd, recall, turn, slots, calls>>

Init ==
  /\ mode \in Modes
  /\ pd = [x \in {} |-> x] /\ recall = {} /\ turn = 0
  /\ slots = [s \in Slots |-> Idle]
  /\ calls = 0

\* pd_store(): an entry of the same id is replaced.
Store(bodies) ==
  pd' = [x \in DOMAIN pd \cup DOMAIN bodies |-> IF x \in DOMAIN bodies THEN bodies[x] ELSE pd[x]]

Quiet == \A s \in Slots : slots[s] = Idle
Begin(s, c) ==
  /\ slots[s] = Idle /\ calls < MaxCalls
  /\ slots' = [slots EXCEPT ![s] = c]
  /\ calls' = calls + 1
Finish(s) == slots' = [slots EXCEPT ![s] = Idle]

(***************************************************************************)
(* rag_search: one awaited search of the documents service (repeated with   *)
(* fewer arguments for an older service), then the results, in full or as   *)
(* an index of ids with the bodies in the store.  A search that fails is    *)
(* answered with an error, one without results with a text.                 *)
(***************************************************************************)
SearchStart(s) ==
  /\ \E c \in Collections : Begin(s, [op |-> "rag", of |-> c])
  /\ UNCHANGED <<mode, pd, recall, turn>>

Progressive(results) ==
  \/ mode = "progressive"
  \/ mode = "auto" /\ \E i \in DOMAIN results : results[i] \in Large

\* An id is the collection and the rank in this very search.
IndexResults(c, results) ==
  Store([x \in {RagId(c, i) : i \in DOMAIN results} |-> results[x[3]]])

SearchEnd(s) ==
  /\ slots[s].op = "rag"
  /\ Finish(s)
  /\ \/ \E n \in 1..TopK : \E results \in [1..n -> Texts] :
          IF Progressive(results) THEN IndexResults(slots[s].of, results)
          ELSE UNCHANGED pd
     \/ UNCHANGED pd
  /\ UNCHANGED <<mode, recall, turn, calls>>

\* query_graph: one awaited question, and the answer stored under a hash of the
\* question (whose collisions are left out).
GraphStart(s) ==
  /\ \E c \in Collections, q \in Questions :
       Begin(s, [op |-> "graph", of |-> c, question |-> q])
  /\ UNCHANGED <<mode, pd, recall, turn>>

GraphEnd(s) ==
  /\ slots[s].op = "graph"
  /\ Finish(s)
  /\ \/ \E t \in Texts : Store([x \in {GraphId(slots[s].of, slots[s].question)} |-> t])
     \/ UNCHANGED pd
  /\ UNCHANGED <<mode, recall, turn, calls>>

(***************************************************************************)
(* fetch_pd answers at once: with the ids of a kind, with the body, cut to  *)
(* 1500 characters, or with an error for an id that is not there.           *)
(***************************************************************************)
Fetched(x) ==
  IF x \notin DOMAIN pd THEN "error" ELSE IF pd[x] \in Large THEN "capped" ELSE "whole"

(***************************************************************************)
(* fetch_synthesize: the body is read once; a small one is handed on as it  *)
(* is, for a large one a sub-agent reads chunks of it, turn by turn, until   *)
(* it calls done, gives an empty or broken reply, or is out of turns.       *)
(***************************************************************************)
SynthStart(s) ==
  /\ \E x \in DOMAIN pd :
       /\ Fetched(x) = "capped"
       /\ Begin(s, [op |-> "synth", of |-> x, body |-> pd[x], turn |-> 0])
  /\ UNCHANGED <<mode, pd, recall, turn>>

\* One turn of the sub-agent that does not end the call: chunks of the body it was
\* given are read, or the reply was a text without tools or named an unknown tool.
SubTurn(s) ==
  /\ slots[s].op = "synth" /\ slots[s].turn < SubTurns
  /\ slots' = [slots EXCEPT ![s].turn = @ + 1]
  /\ UNCHANGED <<mode, pd, recall, turn, calls>>

\* done, an error or an empty reply ends it in any turn; without turns left it ends.
SynthEnd(s) ==
  /\ slots[s].op = "synth"
  /\ Finish(s)
  /\ UNCHANGED <<mode, pd, recall, turn, calls>>

(***************************************************************************)
(* The working memory.  keep() updates the item of the same id, else one of *)
(* the same text, whose priority only rises; a new item beyond the cap       *)
(* costs the one of lowest priority, then oldest, then lowest score.        *)
(***************************************************************************)
Below(i, j) ==
  \/ i.rank < j.rank
  \/ i.rank = j.rank /\ i.turn < j.turn
  \/ i.rank = j.rank /\ i.turn = j.turn /\ i.score < j.score

EvictedMutant(items) ==
  IF RecallCap = 0 \/ Cardinality(items) <= RecallCap THEN {{}}
  ELSE {{i} : i \in {j \in items : \A k \in items : j.turn <= k.turn}}
Evicted(items) ==
  IF RecallCap = 0 \/ Cardinality(items) <= RecallCap THEN {{}}
  ELSE {{i} : i \in {j \in items : \A k \in items : ~Below(k, j)}}

Existing(n, text) ==
  LET named == {i \in recall : i.id = n}
  IN IF named # {} THEN named ELSE {i \in recall : i.text = text}

Higher(a, b) == IF a > b THEN a ELSE b
Other(new, old) == IF new = 0 THEN old ELSE new

\* _sync_recall_pd: the body of the item that was kept or checked, for fetch_pd.
SyncMutant(n, text) ==
  IF RecallId(n) \in DOMAIN pd THEN UNCHANGED pd
  ELSE Store([x \in {RecallId(n)} |-> text])
Sync(n, text) == Store([x \in {RecallId(n)} |-> text])

KeepKnown ==
  \E n \in Notes, t \in Texts, r \in Ranks, sc \in Scores : \E old \in Existing(n, t) :
    LET item == [old EXCEPT !.text = t, !.rank = Higher(r, old.rank),
                            !.score = Other(sc, old.score), !.turn = Other(turn, old.turn)]
    IN /\ recall' = (recall \ {old}) \cup {item}
       /\ Sync(old.id, t)

KeepNew ==
  \E n \in Notes, t \in Texts, r \in Ranks, sc \in Scores :
    LET item == [id |-> n, text |-> t, rank |-> r, score |-> sc, turn |-> turn,
                 checked |-> "no"]
    IN /\ Existing(n, t) = {}
       /\ \E gone \in Evicted(recall \cup {item}) : recall' = (recall \cup {item}) \ gone
       /\ Sync(n, t)

\* check(): the result is noted at the item, nothing else of it changes.
Noted(i, result) == recall' = (recall \ {i}) \cup {[i EXCEPT !.checked = result]}
Check ==
  \E i \in recall, result \in {"ok", "failed"} : Noted(i, result) /\ Sync(i.id, i.text)

Remember ==
  /\ Quiet /\ calls < MaxCalls /\ calls' = calls + 1
  /\ KeepKnown \/ KeepNew \/ Check
  /\ UNCHANGED <<mode, turn, slots>>

\* compact with pd_store:<kind>: every body of the kind gives way to one summary,
\* which is awaited while nothing else runs.
Compact ==
  /\ Quiet /\ calls < MaxCalls /\ calls' = calls + 1
  /\ \E kind \in {"rag", "graph", "recall"} :
       /\ \E x \in DOMAIN pd : x[1] = kind
       /\ pd' = [x \in DOMAIN pd |-> IF x[1] = kind THEN Summary ELSE pd[x]]
  /\ UNCHANGED <<mode, recall, turn, slots>>

NextTurn ==
  /\ Quiet /\ turn < MaxTurn /\ turn' = turn + 1
  /\ UNCHANGED <<mode, pd, recall, slots, calls>>

Slot(s) == \/ SearchStart(s) \/ SearchEnd(s) \/ GraphStart(s) \/ GraphEnd(s)
           \/ SynthStart(s) \/ SubTurn(s) \/ SynthEnd(s)
Next == (\E s \in Slots : Slot(s)) \/ Remember \/ Compact \/ NextTurn

Spec == Init /\ [][Next]_vars
----------------------------------------------------------------------------
TypeOK ==
  /\ mode \in Modes
  /\ DOMAIN pd \subseteq StoreIds /\ \A x \in DOMAIN pd : pd[x] \in Bodies
  /\ recall \subseteq Items /\ turn \in 0..MaxTurn
  /\ slots \in [Slots -> Calls]
  /\ calls \in 0..MaxCalls

\* The working memory stays one: an id once, within its cap, and under the id of
\* every item lies the text it has now or, once compact has replaced that, a summary,
\* though updates reach it by another item's id and evictions leave bodies behind.
RecallWhole ==
  /\ \A i, j \in recall : i.id = j.id => i = j
  /\ RecallCap > 0 => Cardinality(recall) <= RecallCap
  /\ \A i \in recall : /\ RecallId(i.id) \in DOMAIN pd
                       /\ pd[RecallId(i.id)] \in {i.text, Summary}

\* An item leaves the memory only for items of at least its priority, and the
\* priority of one that stays never falls.
KeepsImportant ==
  [][\A i \in recall :
       IF \E j \in recall' : j.id = i.id
       THEN \E j \in recall' : j.id = i.id /\ j.rank >= i.rank
       ELSE \A j \in recall' : j.rank >= i.rank]_vars

=============================================================================
