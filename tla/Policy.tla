--------------------------------- MODULE Policy ---------------------------------
(*********************************************************************************)
(* What the guards of s05_policy keep a run from doing: their discovery           *)
(* (_discover_guards_once, register_guard), the chain built from the declarations *)
(* of a configuration (build_guard_chain), each built-in guard's check, and the   *)
(* four hooks at which the loop of Pipeline.run has them checked.  A guard that    *)
(* cannot be built is passed over, one that raises passes.  The order of stages   *)
(* and their failures are in Pipeline, the approval of a call in ToolTurn.        *)
(*********************************************************************************)
EXTENDS Integers, FiniteSets, SequencesExt

None == -1   \* a setting left unset (Python None)
NoGuard == "" \* the name of no guard

CONSTANTS
  Setups     \* [guards, offers, metadata, registers, user, answers, charges, destructive,
             \*  edits, contextWindow, costBudget, maxIterations, bound, retries]

\* s is a sequence, of whatever it holds.
Sequence(s) == s \in Seq(ToSet(s))

\* Setups are what a configuration can hold and a provider can answer: lists are
\* sequences, limits and charges are numbers.
ASSUME PolicyAssumption ==
  \A s \in Setups :
    /\ Sequence(s.guards)
    /\ \A g \in ToSet(s.guards) :
         /\ DOMAIN g = {"name", "limit", "banned", "target", "rules", "broken"}
         /\ g.limit \in Int /\ Sequence(g.rules)
         /\ \A r \in ToSet(g.rules) :
              /\ DOMAIN r = {"tool", "prior", "when", "broken", "garbled"}
              /\ DOMAIN r.when = {"path", "equals"}
              /\ \A p \in DOMAIN r.prior : r.prior[p].min \in Int
    /\ \A a \in s.answers :
         Sequence(a.calls) /\ \A c \in ToSet(a.calls) : DOMAIN c = {"tool", "input"}
    /\ \A c \in s.charges : c.tokens \in Int /\ c.cost \in Int
    /\ s.maxIterations \in Int

VARIABLES
  su,         \* the setup
  discovered, \* _DISCOVERED: guard name -> class
  done,       \* _DISCOVERY_DONE
  phase,      \* the hook or stage the run is at
  decision,   \* state.loop_decision
  iteration,  \* state.loop_iteration
  retried,    \* state.retry_count
  blocked,    \* state.policy_block_guard, NoGuard as long as nothing was blocked
  tokens,     \* state.token_usage.total
  cost,       \* state.cost_usd
  user,       \* what the newest user message says
  said,       \* what the LLM said, one entry per main call
  pending,    \* state.pending_tool_calls
  at,         \* the pending call the gate is at
  denied,     \* positions in pending of the calls it blocked
  history     \* state.tool_call_history

registry == <<discovered, done>>
loop == <<decision, iteration, retried>>
usage == <<tokens, cost>>
calls == <<pending, at, denied>>
vars == <<su, registry, phase, loop, blocked, usage, user, said, calls, history>>

TypeOK ==
  /\ su \in Setups /\ done \in BOOLEAN
  /\ phase \in {"setup", "loop", "pre_main", "main", "post_response", "pre_tool", "decide",
                "loop_boundary", "over"}
  /\ decision \in {"continue", "complete", "retry", "error"}
  /\ iteration \in Nat /\ retried \in Nat /\ tokens \in Int /\ cost \in Int
  /\ Sequence(said) /\ Sequence(pending) /\ Sequence(history)
  /\ \A i \in DOMAIN pending : DOMAIN pending[i] = {"tool", "input"}
  /\ \A i \in DOMAIN history : DOMAIN history[i] = {"tool", "input", "iteration"}
                               /\ history[i].iteration \in Nat
  /\ at \in Nat \ {0} /\ denied \subseteq DOMAIN pending

--------------------------------------------------------------------------------
(* Discovery.  A class is known by the name of the built-in guard it behaves as;
   "lenient" is one of a plug-in that lets everything pass, "unbuilt" one that
   cannot be instantiated without arguments, "foreign" is no Guard at all. *)

Bundled == {"token_budget", "cost_budget", "iteration", "content", "tool_diversity"}

\* What _DISCOVERED may hold after discovery: entry points are read in any order, the
\* first of a name stays, and the bundled guards fill the gaps.  Where packages have no
\* metadata to read only the bundled ones are there.
Discoveries ==
  IF done THEN {discovered}
  ELSE LET names == {o[1] : o \in {x \in su.offers : x[2] # "foreign"}}
           taken == [n \in names |-> {o[2] : o \in {x \in su.offers : x[1] = n}} \ {"foreign"}]
           rest == (Bundled \cup {"tool_precondition"}) \ names
       IN IF ~su.metadata THEN {[n \in Bundled |-> n]}
          ELSE {[n \in names \cup rest |-> IF n \in names THEN f[n] ELSE n] :
                  f \in {g \in [names -> UNION Range(taken)] : \A n \in names : g[n] \in taken[n]}}

\* register_guard replaces whatever has the name.
Register ==
  /\ phase = "setup"
  /\ \E found \in Discoveries, n \in DOMAIN su.registers :
       discovered' = [m \in DOMAIN found \cup {n} |->
                        IF m = n THEN su.registers[n] ELSE found[m]]
  /\ done' = TRUE
  /\ UNCHANGED <<su, phase, loop, blocked, usage, user, said, calls, history>>

--------------------------------------------------------------------------------
(* The chain *)

\* _normalize_rules: requirements and conditions that cannot be parsed are none, and what
\* is no rule is left out, here by not being one of Rules.
Normalized(rules) ==
  [i \in DOMAIN rules |->
     [rules[i] EXCEPT !.prior = IF "prior" \in rules[i].garbled THEN <<>> ELSE @,
                      !.when.path = IF "when" \in rules[i].garbled THEN <<>> ELSE @]]

Rules(g) == {i \in DOMAIN g.rules : "rule" \notin g.rules[i].garbled}

\* A parameter that configure cannot read leaves the guard with its defaults.
Configured(g) ==
  IF g.broken THEN [g EXCEPT !.limit = 0, !.banned = {}, !.target = "both", !.rules = <<>>]
  ELSE [g EXCEPT !.rules = Normalized(@)]

Class(found, g) == IF g.name \in DOMAIN found THEN found[g.name] ELSE "unbuilt"

\* build_guard_chain: unknown names and classes that cannot be built are passed over, which
\* is to stand in the chain as "unbuilt" and let everything pass.
Chain(found) ==
  [i \in DOMAIN su.guards |->
     [Configured(su.guards[i]) EXCEPT !.name = Class(found, su.guards[i])]]

\* The guard of the chain that decides: the first of those that would.
Deciding(places) == CHOOSE i \in places : \A j \in places : i <= j

HookPointsMutant(g) ==
  CASE g.name \in {"token_budget", "cost_budget", "iteration"} -> {"loop_boundary"}
    [] g.name = "content" -> IF g.target = "input" THEN {"pre_main"} ELSE {"post_response"}
    [] OTHER -> {"pre_tool"}

HookPoints(g) ==
  CASE g.name \in {"token_budget", "cost_budget", "iteration"} -> {"loop_boundary"}
    [] g.name = "content" -> (IF g.target \in {"input", "both"} THEN {"pre_main"} ELSE {})
                             \cup (IF g.target \in {"output", "both"} THEN {"post_response"} ELSE {})
    [] OTHER -> {"pre_tool"}

--------------------------------------------------------------------------------
(* Checks.  Each is TRUE when the guard blocks; where the code raises, for a setting
   that is unset, the guard passes. *)

Limit(g, fallback) == IF g.limit > 0 THEN g.limit ELSE fallback

TokenBudgetMutant(g) ==
  LET max == Limit(g, su.contextWindow)
  IN max # None /\ 100 * tokens > 95 * max /\ ~(100 * tokens > 80 * max)

TokenBudget(g) ==
  LET max == Limit(g, su.contextWindow) IN max # None /\ 100 * tokens > 95 * max

CostBudget(g) ==
  LET budget == Limit(g, su.costBudget) IN budget # None /\ cost >= budget

IterationReached == su.maxIterations # None /\ iteration >= su.maxIterations

\* A content guard looks at the newest user message before the main call and at the
\* newest text of the assistant after it.
Content(g, hook) ==
  LET text == IF hook = "pre_main" THEN user ELSE IF said = <<>> THEN {} ELSE Last(said)
  IN text \cap g.banned # {}

\* A payload is a tree: a leaf with its value, a dict with its keys, a list.
\* _resolve_path follows the tokens of a path, of which [*] fans out.
Follow(node, token) ==
  CASE token.kind = "key" /\ node.kind = "dict" ->
         [i \in 1 .. Cardinality(ToSet(node.keys) \cap {token.key}) |->
            node.items[CHOOSE j \in DOMAIN node.keys : node.keys[j] = token.key]]
    [] token.kind = "idx" /\ node.kind = "list" /\ token.idx < Len(node.items) ->
         <<node.items[token.idx + 1]>>
    [] token.kind = "star" /\ node.kind = "list" -> node.items
    [] OTHER -> <<>>

Resolve(input, path) ==
  LET from[k \in 0 .. Len(path)] ==
        IF k = 0 THEN <<input>>
        ELSE FlattenSeq([i \in DOMAIN from[k - 1] |-> Follow(from[k - 1][i], path[k])])
  IN from[Len(path)]

\* A rule without a condition, or with one that has no path, always applies.
Matches(input, when) ==
  when.path = <<>> \/ {v.value : v \in ToSet(Resolve(input, when.path))} \cap when.equals # {}

Observed(tool) == Cardinality({i \in DOMAIN history : history[i].tool = tool})

MissingMutant(rule) == \A i \in DOMAIN rule.prior : Observed(rule.prior[i].tool) < rule.prior[i].min
Missing(rule) == \E i \in DOMAIN rule.prior : Observed(rule.prior[i].tool) < rule.prior[i].min

\* The first rule that applies and either blocks or cannot be read decides.
Precondition(g, call) ==
  LET deciding == {i \in Rules(g) :
                     /\ g.rules[i].tool = call.tool /\ Matches(call.input, g.rules[i].when)
                     /\ g.rules[i].broken \/ Missing(g.rules[i])}
  IN deciding # {} /\ ~g.rules[Deciding(deciding)].broken

\* ToolDiversityGuard, over the whole history.
Repeated(g, call) ==
  Cardinality({i \in DOMAIN history : history[i].tool = call.tool /\ history[i].input = call.input})
    >= Limit(g, 3)

--------------------------------------------------------------------------------
(* The gate *)

Blocks(g, hook) ==
  CASE g.name = "token_budget" -> TokenBudget(g)
    [] g.name = "cost_budget" -> CostBudget(g)
    [] g.name = "iteration" -> IterationReached
    [] g.name = "content" -> Content(g, hook)
    [] OTHER -> FALSE

\* invoke_hook: the first guard of the hook that blocks gives the run its block.
Invoke(hook, found) ==
  LET chain == Chain(found)
      blocking == {i \in DOMAIN chain : hook \in HookPoints(chain[i]) /\ Blocks(chain[i], hook)}
  IN IF blocking = {} THEN NoGuard ELSE chain[Deciding(blocking)].name

\* The chain of pre_tool over one call, as the human answers: with the call's own input,
\* with another, or with a refusal.  Later guards see the input the human gave.
Asks(g, call) == g.name = "hitl" /\ call.tool \in su.destructive

Seen(chain, i, call, human) ==
  IF \E h \in 1 .. i - 1 : Asks(chain[h], call) THEN [call EXCEPT !.input = human.input] ELSE call

Stops(g, call, human) ==
  \/ Asks(g, call) /\ ~human.allows
  \/ g.name = "tool_precondition" /\ Precondition(g, call)
  \/ g.name = "tool_diversity" /\ Repeated(g, call)

Gate(call, human, found) ==
  LET chain == Chain(found)
      stopping == {i \in DOMAIN chain : Stops(chain[i], Seen(chain, i, call, human), human)}
  IN IF stopping = {}
     THEN [input |-> Seen(chain, Len(chain) + 1, call, human).input, by |-> NoGuard]
     ELSE [input |-> Seen(chain, Deciding(stopping), call, human).input,
           by |-> chain[Deciding(stopping)].name]

--------------------------------------------------------------------------------
(* The loop *)

Init ==
  /\ su \in Setups
  /\ discovered = [n \in {} |-> n] /\ done = FALSE
  /\ phase = "setup" /\ decision = "continue" /\ iteration = 0 /\ retried = 0
  /\ blocked = NoGuard /\ tokens = 0 /\ cost = 0
  /\ user = su.user /\ said = <<>> /\ pending = <<>> /\ at = 1 /\ denied = {} /\ history = <<>>

\* The loop is entered, for the first time or again, or left.
Iterate ==
  /\ phase \in {"setup", "loop"}
  /\ IF /\ decision = "continue" /\ iteration < su.bound
        /\ su.costBudget \in {None, 0} \/ cost <= su.costBudget
       THEN phase' = "pre_main" /\ iteration' = iteration + 1
       ELSE phase' = "over" /\ UNCHANGED iteration
  /\ UNCHANGED <<su, registry, decision, retried, blocked, usage, user, said, calls, history>>

\* A hook that blocks before or after the main call goes to the end of the iteration.
HookAt(hook, next) ==
  /\ phase = hook
  /\ \E found \in Discoveries :
       LET by == Invoke(hook, found) IN
       /\ discovered' = found /\ done' = TRUE
       /\ blocked' = IF by = NoGuard THEN blocked ELSE by
       /\ IF blocked' # NoGuard THEN decision' = "complete" /\ phase' = "loop_boundary"
          ELSE phase' = next /\ UNCHANGED decision
  /\ UNCHANGED <<su, iteration, retried, usage, user, said, calls, history>>

PreMain == HookAt("pre_main", "main")
PostResponse == HookAt("post_response", IF pending = <<>> THEN "decide" ELSE "pre_tool")

MainCall ==
  /\ phase = "main"
  /\ \E answer \in su.answers, charge \in su.charges :
       /\ said' = Append(said, answer.text)
       /\ pending' = answer.calls
       /\ tokens' = tokens + charge.tokens /\ cost' = cost + charge.cost
  /\ at' = 1 /\ denied' = {}
  /\ phase' = "post_response"
  /\ UNCHANGED <<su, registry, loop, blocked, user, history>>

\* _check_pre_tool looks at one call after the other.
PreTool ==
  /\ phase = "pre_tool" /\ at <= Len(pending)
  /\ \E found \in Discoveries,
        human \in [allows : BOOLEAN, input : {pending[at].input} \cup su.edits] :
       LET gate == Gate(pending[at], human, found) IN
       /\ discovered' = found /\ done' = TRUE
       /\ pending' = [pending EXCEPT ![at].input = gate.input]
       /\ denied' = IF gate.by = NoGuard THEN denied ELSE denied \cup {at}
  /\ at' = at + 1
  /\ UNCHANGED <<su, phase, loop, blocked, usage, user, said, history>>

\* s07_act runs what is left, in the order of the calls; results, or the errors of the
\* blocked calls, are a user message without text.
Act ==
  /\ phase = "pre_tool" /\ at > Len(pending)
  /\ LET left == DOMAIN pending \ denied IN
     \E run \in [1 .. Cardinality(left) -> left] :
       /\ \A k, l \in DOMAIN run : k < l => run[k] < run[l]
       /\ history' = history \o
            [k \in DOMAIN run |-> [tool |-> pending[run[k]].tool, input |-> pending[run[k]].input,
                                   iteration |-> iteration]]
  /\ user' = {} /\ pending' = <<>> /\ at' = 1 /\ denied' = {}
  /\ phase' = "decide"
  /\ UNCHANGED <<su, registry, loop, blocked, usage, said>>

\* Whatever the decide stage concludes.
Decide ==
  /\ phase = "decide"
  /\ decision' \in {"continue", "complete", "retry", "error"}
  /\ phase' = "loop_boundary"
  /\ UNCHANGED <<su, registry, iteration, retried, blocked, usage, user, said, calls, history>>

\* The end of an iteration: the last hook, whose block completes the run whatever was
\* decided, and the counting of retries.
Boundary ==
  /\ phase = "loop_boundary"
  /\ \E found \in Discoveries :
       LET by == Invoke("loop_boundary", found)
           so == IF by = NoGuard THEN decision ELSE "complete"
       IN /\ discovered' = found /\ done' = TRUE
          /\ blocked' = IF by = NoGuard THEN blocked ELSE by
          /\ IF so # "retry" THEN decision' = so /\ UNCHANGED retried
             ELSE /\ retried' = retried + 1
                  /\ decision' = IF retried + 1 >= su.retries THEN "complete" ELSE "continue"
  /\ phase' = "loop"
  /\ UNCHANGED <<su, iteration, usage, user, said, calls, history>>

Next ==
  \/ Register \/ Iterate \/ PreMain \/ MainCall \/ PostResponse \/ PreTool \/ Act
  \/ Decide \/ Boundary

Spec == Init /\ [][Next]_vars

--------------------------------------------------------------------------------
(* Properties.  They speak of each guard of the chain on its own: whatever stands before
   or behind it, unknown, unbuilt, raising or blocking, it keeps its promise. *)

\* No main call is made with a budget used up: the last check of the run lies behind
\* everything that could have used it, and what it blocks is not tried again.  The first
\* call is made whatever the limit on iterations.
InBudget ==
  phase = "main" =>
    \A g \in ToSet(Chain(discovered)) :
      /\ g.name = "token_budget" /\ g.limit > 0 => 100 * tokens <= 95 * g.limit
      /\ g.name = "cost_budget" /\ g.limit > 0 => cost < g.limit
      /\ g.name = "iteration" /\ su.maxIterations # None /\ iteration > 1
           => iteration <= su.maxIterations

\* A text with banned content is the last one of the run and none of the calls that came
\* with it runs; a run whose user says something banned has no main call.
ContentStops ==
  \A g \in ToSet(Chain(discovered)) :
    g.name = "content" =>
      /\ g.target \in {"output", "both"} =>
           \A i \in DOMAIN said : said[i] \cap g.banned # {} =>
             i = Len(said) /\ \A j \in DOMAIN history : history[j].iteration < i
      /\ g.target \in {"input", "both"} /\ su.user \cap g.banned # {} => said = <<>>

\* The rule r of guard c is in force for a call: no rule for the same tool that cannot be
\* read comes first, and no human may still change the input after the guard has seen it.
InForce(chain, c, r, call) ==
  LET rules == chain[c].rules IN
  /\ chain[c].name = "tool_precondition"
  /\ rules[r].tool = call.tool /\ Matches(call.input, rules[r].when)
  /\ \A q \in Rules(chain[c]) : q <= r => ~(rules[q].broken /\ rules[q].tool = call.tool)
  /\ \A d \in c + 1 .. Len(chain) : chain[d].name # "hitl"

RanBefore(tool, n) ==
  Cardinality({j \in DOMAIN history : history[j].tool = tool /\ history[j].iteration < n})

\* A call whose rule asks for others to come first ran only after they had run, in earlier
\* iterations and as often as the rule says, with the input it ran with.
PriorFirst ==
  LET chain == Chain(discovered) IN
  \A c \in DOMAIN chain : \A r \in Rules(chain[c]) : \A i \in DOMAIN history :
    InForce(chain, c, r, history[i]) =>
      \A p \in DOMAIN chain[c].rules[r].prior :
        LET prior == chain[c].rules[r].prior[p]
        IN RanBefore(prior.tool, history[i].iteration) >= prior.min
================================================================================
