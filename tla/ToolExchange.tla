---------------------------- MODULE ToolExchange ----------------------------
(***************************************************************************)
(* The conversation protocol of a tool-calling LLM API: an assistant       *)
(* message may open a set of fresh tool calls; the next message closes all *)
(* of them at once; only then may the assistant open others.               *)
(***************************************************************************)
CONSTANT Call

VARIABLES open, closed

exchangeVars == <<open, closed>>

Init == open = {} /\ closed = {}

Ask ==
  /\ open = {}
  /\ open' \in (SUBSET (Call \ closed)) \ {{}}
  /\ UNCHANGED closed

Answer ==
  /\ open # {}
  /\ closed' = closed \cup open
  /\ open' = {}

Next == Ask \/ Answer

Spec == Init /\ [][Next]_exchangeVars
=============================================================================
