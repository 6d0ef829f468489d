--------------------------- MODULE MCConversation ---------------------------
(* The setups TLC checks Conversation with. *)
EXTENDS Conversation

Base == [direct |-> TRUE, recall |-> FALSE, maxHistory |-> 9, strategy |-> "cascade",
         keep |-> 1, limit |-> 1, retries |-> 1]

MCSetups ==
  { Base,
    [Base EXCEPT !.recall = TRUE, !.maxHistory = 1, !.keep = 2],
    [Base EXCEPT !.direct = FALSE, !.recall = TRUE, !.retries = 0, !.keep = 0],
    [Base EXCEPT !.recall = TRUE, !.retries = 0, !.strategy = "token_budget", !.keep = 0],
    [Base EXCEPT !.retries = 0, !.strategy = "sliding_window", !.keep = 2, !.limit = 0],
    [Base EXCEPT !.retries = 0, !.strategy = "autocompact_llm", !.limit = 9] }
=============================================================================
