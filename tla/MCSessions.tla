------------------------------ MODULE MCSessions ------------------------------
(* Instances of Sessions: overlapping runs of one session with saves and loads,   *)
(* the memory of two users, the lessons of one run, and the prompt of one run.    *)
EXTENDS Sessions

MCFileOf(sid) == IF sid = "unsafe" THEN None ELSE sid
MCFacts == {"likes", "other", "house"}
MCScopeOf(f) ==
  CASE f = "likes" -> <<"user", "u1">> [] f = "other" -> <<"user", "u2">>
    [] OTHER -> <<"org", None>>

MCStart ==
  [strategy |-> "default", maxHistory |-> None, scopes |-> {}, classify |-> FALSE,
   rules |-> TRUE, tools |-> FALSE, resources |-> FALSE, policies |-> FALSE,
   citation |-> "off", thinking |-> "auto"]
Base ==
  [config |-> MCStart, user |-> "u1", runs |-> 1, objects |-> 1, iterations |-> 1, edits |-> 0,
   writes |-> 0, lessons |-> 2]

MCSetups ==
  {\* overlapping runs, loads and saves
   [Base EXCEPT !.runs = 2, !.objects = 2, !.config.strategy = "none"],
   \* a limited history over two turns
   [Base EXCEPT !.runs = 2, !.config.maxHistory = 1],
   \* progress over restarts
   [Base EXCEPT !.runs = 0, !.objects = 2, !.edits = 2],
   \* memories, with and without a user, also searched by embedding
   [Base EXCEPT !.writes = 2, !.config.scopes = {"user", "org"}],
   [Base EXCEPT !.writes = 2, !.config.scopes = {"user"}, !.user = None,
                !.config.strategy = "embedding_search"],
   [Base EXCEPT !.writes = 2, !.config.scopes = {"user"}, !.config.strategy = "embedding_search"],
   \* lessons
   [Base EXCEPT !.iterations = 5],
   \* all sections of the prompt
   [Base EXCEPT !.config = [MCStart EXCEPT !.classify = TRUE, !.tools = TRUE, !.resources = TRUE,
                              !.policies = TRUE, !.citation = "auto"]]}
=============================================================================
