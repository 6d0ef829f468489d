------------------------------- MODULE MCLLMCall -------------------------------
(* Instances of LLMCall: texts with calls, tags split and left open; the streams of
   the three classes with interleaved calls, arguments in their first pieces, and
   every fault; a run of several turns under each strategy of evaluation; providers
   registered in every order. *)
EXTENDS LLMCall

MCSymbols == {"o", "p", "c", "d", "b", "x"}

MCTexts == {
  <<"x", "x">>,
  <<"x", "o", "p", "b", "c", "d", "x">>,
  <<"o", "x", "o", "p", "x", "c", "d", "o">>,
  <<"o", "p", "b", "c", "d", "o", "p", "b", "c", "d">>,
  <<"x", "x", "x", "o", "p", "x", "b">>,
  <<"o", "p", "o", "p", "b", "c", "d", "d">>,
  <<"c", "d", "x", "o", "o", "p", "b", "c", "c", "d">>,
  <<"o", "p">>}

Base == [
  names |-> {"openai", "anthropic"}, plugins |-> <<>>, entry |-> <<>>,
  provider |-> "openai", models |-> {"openai", "anthropic"},
  keys |-> {<<"env", "openai">>}, contextKey |-> FALSE,
  stream |-> TRUE, retries |-> 1, faults |-> {}, texts |-> {<<"x">>}, calls |-> <<>>, early |-> {},
  judging |-> "off", strategy |-> "llm_judge", judge |-> "", judgeModel |-> FALSE,
  useMain |-> FALSE, marks |-> {3, 8}, threshold |-> 7, hard |-> FALSE,
  decideRetries |-> 3, turns |-> 1]

\* One stream with calls in its text.
Natives == {[Base EXCEPT !.texts = MCTexts, !.faults = {"cut", "short"}]}

\* Streams with calls of the server, beside a text that has one.
Faults == {"rate", "overload", "server", "auth", "bad", "cut", "short"}
Streamed == {[Base EXCEPT !.provider = n, !.keys = {<<"file", n>>}, !.stream = st,
                         !.retries = 2, !.faults = Faults, !.calls = <<3, 2>>, !.early = e,
                         !.texts = {<<>>, <<"x", "o", "p", "b", "c", "d">>}] :
              n \in {"openai", "anthropic"}, st \in BOOLEAN, e \in {{}, {2}}}

\* The same over LangChain: a call in one chunk beside one cut over several.
Adapted == {[Base EXCEPT !.keys = {<<"file", "openai">>}, !.plugins = [openai |-> "langchain"],
                        !.stream = st, !.retries = 2, !.faults = Faults, !.calls = <<1, 3>>,
                        !.early = e, !.texts = {<<>>, <<"x", "x">>}] :
             st \in BOOLEAN, e \in {{}, {1}, {1, 2}}}

\* Runs of several turns, judged.
Judged == {[Base EXCEPT !.judging = j, !.strategy = st, !.threshold = t, !.turns = 4,
                       !.texts = {<<>>, <<"x">>, <<"o", "p", "b", "c", "d">>},
                       !.keys = k, !.contextKey = TRUE, !.judge = "anthropic",
                       !.judgeModel = m, !.useMain = u, !.hard = TRUE] :
             j \in {"picked", "enabled"}, st \in {"llm_judge", "rule_based", "none", "other"},
             t \in {None, 0, 7}, m \in BOOLEAN, u \in BOOLEAN,
             k \in {{<<"env", "openai">>}, {<<"env", "openai">>, <<"services", "anthropic">>}}}

\* Providers registered by hand and by entry points, in any order with the first call.
Plugged == {[Base EXCEPT !.names = {"openai", "anthropic", "google", "mine"},
                        !.plugins = ps, !.entry = es, !.provider = p, !.contextKey = ck,
                        !.models = ms, !.judging = "enabled", !.strategy = "other",
                        !.judge = "anthropic", !.turns = 2,
                        !.keys = {<<"services", "anthropic">>, <<"env", "google">>}] :
              ps \in {<<>>, [mine |-> "langchain", google |-> "anthropic"]},
              es \in {<<>>, [mine |-> "openai"]}, p \in {"openai", "google", "mine"},
              ck \in BOOLEAN, ms \in {{"openai", "google", "anthropic"}, {"mine", "anthropic"}}}

MCSetups == Natives \cup Streamed \cup Adapted \cup Judged \cup Plugged
================================================================================
