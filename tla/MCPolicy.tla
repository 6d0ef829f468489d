-------------------------------- MODULE MCPolicy --------------------------------
(* Instances of Policy: every order of the guards of a run next to broken, unknown *)
(* and replaced ones, budgets met exactly and passed, texts with banned content,   *)
(* and rules over payloads whose paths fan out.                                    *)
EXTENDS Policy

Leaf(v) == [kind |-> "leaf", value |-> v, keys |-> <<>>, items |-> <<>>]
List(s) == [kind |-> "list", value |-> "", keys |-> <<>>, items |-> s]
Dict(k, v) == [kind |-> "dict", value |-> "", keys |-> <<k>>, items |-> <<v>>]

\* fileNo: a list of files with their status.
Files(statuses) == Dict("fileNo", List([i \in DOMAIN statuses |-> Dict("status", Leaf(statuses[i]))]))
Passing == Files(<<"02", "01">>)
Failing == Files(<<"02">>)

Key(k) == [kind |-> "key", key |-> k, idx |-> 0]
At(i) == [kind |-> "idx", key |-> "", idx |-> i]
Star == [kind |-> "star", key |-> "", idx |-> 0]

Always == [path |-> <<>>, equals |-> {}]
AnyPasses == [path |-> <<Key("fileNo"), Star, Key("status")>>, equals |-> {"01"}]
FirstPasses == [path |-> <<Key("fileNo"), At(0), Key("status")>>, equals |-> {"01", "03"}]

Rule(tool, prior, when) ==
  [tool |-> tool, prior |-> prior, when |-> when, broken |-> FALSE, garbled |-> {}]
SearchFirst(n) == <<[tool |-> "search", min |-> n]>>
Garbled(rule, parts) == [rule EXCEPT !.garbled = parts]
Unreadable(tool) == [Rule(tool, <<>>, Always) EXCEPT !.broken = TRUE]

Guard(name) ==
  [name |-> name, limit |-> 0, banned |-> {}, target |-> "both", rules |-> <<>>, broken |-> FALSE]
Tokens == [Guard("token_budget") EXCEPT !.limit = 100]
Cost == [Guard("cost_budget") EXCEPT !.limit = 10]
Banning == [Guard("content") EXCEPT !.banned = {"bad", "pii"}]
Ruling(rules) == [Guard("tool_precondition") EXCEPT !.rules = rules]

Call(tool, input) == [tool |-> tool, input |-> input]
Says(text, cs) == [text |-> text, calls |-> cs]
Charge(t, c) == [tokens |-> t, cost |-> c]

Base ==
  [guards |-> <<>>, offers |-> {<<n, n>> : n \in Bundled \cup {"tool_precondition", "hitl"}},
   metadata |-> TRUE, registers |-> [n \in {} |-> n],
   user |-> {"plain"}, answers |-> {Says({"plain"}, <<>>)}, charges |-> {Charge(0, 0)},
   destructive |-> {}, edits |-> {}, contextWindow |-> None, costBudget |-> None,
   maxIterations |-> None, bound |-> 3, retries |-> 2]

Orders(S) == {[i \in 1 .. Cardinality(S) |-> f[i]] : f \in
               {g \in [1 .. Cardinality(S) -> S] : \A a, b \in DOMAIN g : g[a] = g[b] => a = b}}

\* Budgets: 45 and 50 make 95 of 100, which is still allowed; the estimate of a cost may
\* be negative.
Budgeted ==
  {[Base EXCEPT !.guards = o, !.charges = {Charge(45, 5), Charge(50, 4), Charge(1, -3)},
                !.maxIterations = m] :
     o \in Orders({Tokens, Cost, Guard("iteration")}), m \in {2, None}}
  \cup {[Base EXCEPT !.guards = <<Guard("unknown"), [Tokens EXCEPT !.broken = TRUE],
                                  [Tokens EXCEPT !.limit = 0], Tokens>>,
                     !.charges = {Charge(45, 4), Charge(51, 5)}, !.costBudget = 9,
                     !.contextWindow = w] : w \in {None, 200}}

\* Content, and who provides its guard.
Texted ==
  {[Base EXCEPT !.guards = <<[Banning EXCEPT !.broken = TRUE], [Banning EXCEPT !.target = t]>>,
                !.user = u, !.metadata = m,
                !.answers = {Says({"plain"}, <<>>), Says({"pii", "plain"}, <<Call("search", Failing)>>),
                             Says({"plain"}, <<Call("search", Failing)>>)},
                !.registers = [n \in {"content", "mine"} |-> "lenient"],
                !.offers = {<<"content", "content">>, <<"content", "lenient">>,
                            <<"content", "foreign">>, <<"iteration", "unbuilt">>}] :
     t \in {"input", "output", "both"}, u \in {{"plain"}, {"bad"}}, m \in BOOLEAN}

Submitting ==
  {Says({"plain"}, s) : s \in
     {<<Call("submit", Passing)>>, <<Call("submit", Failing)>>,
      <<Call("search", Failing), Call("submit", Passing)>>,
      <<Call("search", Passing), Call("search", Failing)>>}}

Chains ==
  LET rules == <<Unreadable("search"), Rule("submit", SearchFirst(1), AnyPasses),
                 Rule("submit", SearchFirst(2), FirstPasses)>>
      both == <<Rule("submit", <<[tool |-> "search", min |-> 2], [tool |-> "submit", min |-> 0]>>, Always)>>
  IN {<<Ruling(rules), Guard("tool_diversity")>>, <<Guard("hitl"), Ruling(rules)>>,
      <<Ruling(rules), Guard("hitl"), Ruling(both)>>, <<Ruling(both)>>,
      <<Ruling(<<Garbled(Rule("submit", SearchFirst(2), Always), {"rule"}),
                 Garbled(Rule("submit", SearchFirst(2), FirstPasses), {"when"}),
                 Garbled(Rule("search", SearchFirst(2), Always), {"prior"})>>)>>,
      <<Ruling(<<Rule("submit", SearchFirst(2), AnyPasses), Unreadable("submit")>>)>>}

Ruled ==
  {[Base EXCEPT !.guards = c, !.answers = Submitting, !.metadata = m,
                !.destructive = {"submit"}, !.edits = {Passing}] : c \in Chains, m \in {TRUE}}

MCSetups == Budgeted \cup Texted \cup Ruled
================================================================================
