-------------------------------- MODULE Forge --------------------------------
(***************************************************************************)
(* Self-tuning: SelfForge (forge/loop.py) evolves a configuration of the    *)
(* harness, a dictionary, by moves of one knob (forge/algebra.py).  Each    *)
(* step reads the traces of the held-out runs (forge/signals.py,            *)
(* reflect.py), collects moves (reflect.py, gepa.py, synthesis.py), and     *)
(* evaluates them in turn (forge/objective.py, runner.py); the first that   *)
(* improves the proxy and loses nothing on the held-out tasks nor on the    *)
(* second metric is kept.  Scores and thresholds are hundredths.            *)
(***************************************************************************)
EXTENDS Integers, FiniteSets, SequencesExt

CONSTANTS
  Unset,          \* an absent key, or None
  ScalarSpecs,    \* fields a tune_scalar move may set: [lo, hi, step] (_SCALAR_SPECS)
  GuardNames,     \* registered guards
  CriterionNames, \* registered criteria (ALL_CRITERIA), in order
  Impls,          \* registered strategies of the stage s08_decide
  Proposals,      \* moves that registered reflectors propose
  Lines,          \* guidance proposed on the feedback of failed runs
  RunEndings,     \* how a run of the engine may end
  DevScores,      \* means of the engine's runs on the proxy tasks
  SecScores,      \* values of a registered second metric
  Setups,         \* how SelfForge may be set up and called
  MaxSteps        \* max_steps

(* A setup: [base : the configuration given, runner : "engine" or "synthetic",
   tasks : the held-out tasks [regulated, noise], secondary, gepa, synthesis, search :
   whether there are a second metric, the GEPA reflector, synthesizers, and one of
   them that proposes a legal move of the configuration,
   registered : what the registered reflectors propose in a step, patience, epsilon] *)

ScalarKeys == DOMAIN ScalarSpecs

\* A Move: operation, target and value.  A scalar is tuned to a number.
Op(move) == move[1]
Target(move) == move[2]
Value(move) == move[3]
Numeric(move) == Op(move) = "tune_scalar" => Value(move) \in Int

ASSUME ForgeAssumption ==
  /\ MaxSteps \in Nat
  /\ DevScores \subseteq Nat /\ SecScores \subseteq Nat
  /\ Unset \notin Int
  /\ {"validation_threshold", "max_retries", "max_iterations"} \subseteq ScalarKeys
  /\ \A k \in ScalarKeys : {ScalarSpecs[k].lo, ScalarSpecs[k].hi, ScalarSpecs[k].step} \subseteq Nat
  /\ CriterionNames \in Seq(STRING)
  /\ \A move \in Proposals : Numeric(move)
  /\ \A run \in RunEndings : run.crash \/ run.judged \in Int \cup {Unset}
  /\ \A su \in Setups :
       /\ su.patience \in Nat \ {0} /\ su.epsilon \in Nat
       /\ "scalars" \in DOMAIN su.base /\ su.base.scalars \in [ScalarKeys -> Int \cup {Unset}]
       /\ su.tasks \in Seq([regulated : BOOLEAN, noise : Int])
       /\ su.registered \in Seq(Proposals)

\* The entries of a list at the places of a set, in order.
Chosen(list, places) ==
  LET upTo[n \in 0..Len(list)] ==
        IF n = 0 THEN <<>>
        ELSE IF n \in places THEN Append(upTo[n - 1], list[n]) ELSE upTo[n - 1]
  IN upTo[Len(list)]

\* The sum of a list of numbers.
Total(numbers) ==
  LET sum[n \in 0..Len(numbers)] == IF n = 0 THEN 0 ELSE sum[n - 1] + numbers[n]
  IN sum[Len(numbers)]

\* The entries of a list of named things.
Without(list, name) == Chosen(list, {i \in DOMAIN list : list[i].name # name})
Has(list, name) == \E i \in DOMAIN list : list[i].name = name

(***************************************************************************)
(* A configuration, reduced to what moves touch: fields, the guards of      *)
(* s05_policy, the criteria and the judge of s08_decide and its strategy,   *)
(* and the prompt, whose managed block is apart from the user's text.       *)
(***************************************************************************)

IsLegal(move) ==
  CASE Op(move) = "set_strategy" -> Value(move) \in Impls \cup {"judge_then_loop"}
    [] Op(move) = "toggle_guard" -> Target(move) \in GuardNames
    [] Op(move) = "tune_scalar" -> Target(move) \in ScalarKeys
    [] OTHER -> Op(move) \in {"set_stage_param", "edit_criterion", "append_guidance",
                             "set_system_prompt"}

(***************************************************************************)
(* EngineAlgebra.apply, on a deep copy.  A guard is taken out and put at    *)
(* the end without its parameters; a criterion is updated in place or       *)
(* appended; guidance replaces the managed block.                           *)
(***************************************************************************)
Toggle(guards, move) ==
  LET others == Without(guards, Target(move))
  IN IF Value(move) THEN Append(others, [name |-> Target(move), params |-> "default"]) ELSE others

EditCriterion(criteria, move) ==
  LET edited == [name |-> Target(move), rule |-> Value(move)]
  IN IF Has(criteria, Target(move))
     THEN [i \in DOMAIN criteria |->
             IF criteria[i].name = Target(move) THEN edited ELSE criteria[i]]
     ELSE Append(criteria, edited)

Apply(config, move) ==
  CASE Op(move) = "set_strategy" -> [config EXCEPT !.strategy = Value(move)]
    [] Op(move) = "toggle_guard" -> [config EXCEPT !.guards = Toggle(@, move)]
    [] Op(move) = "tune_scalar" -> [config EXCEPT !.scalars[Target(move)] = Value(move)]
    [] Op(move) = "set_stage_param" -> [config EXCEPT !.judge = Value(move)]
    [] Op(move) = "edit_criterion" -> [config EXCEPT !.criteria = EditCriterion(@, move)]
    [] Op(move) = "append_guidance" -> [config EXCEPT !.prompt.guidance = Value(move)]
    [] OTHER -> [config EXCEPT !.prompt = Value(move)]

Tune(key, value) == <<"tune_scalar", key, value>>
Edit(name, weight, hard) ==
  <<"edit_criterion", name, [weight |-> weight, hard |-> hard]>>

\* _gen_candidates: neighbours of a value within its bounds, or a seed when it is not
\* set; halves are rounded to even (those of a fraction in the code to four digits).
Half(n) == IF n % 4 = 3 THEN n \div 2 + 1 ELSE n \div 2
Clamped(spec, n) == IF n < spec.lo THEN spec.lo ELSE IF n > spec.hi THEN spec.hi ELSE n
Around(key, value) ==
  LET spec == ScalarSpecs[key]
      near == IF value = Unset THEN {spec.lo, Half(spec.lo + spec.hi), spec.hi}
              ELSE {value - spec.step, value + spec.step, 2 * value, Half(value)}
  IN {Clamped(spec, n) : n \in near} \ {value}

Unused(config) ==
  Chosen(CriterionNames,
         {i \in DOMAIN CriterionNames : ~Has(config.criteria, CriterionNames[i])})

LegalMoves(config) ==
  {<<"set_strategy", "s08_decide", impl>> : impl \in Impls \ {config.strategy}}
  \cup {<<"toggle_guard", name, ~Has(config.guards, name)>> : name \in GuardNames}
  \cup (UNION {{Tune(key, n) : n \in Around(key, config.scalars[key])} : key \in ScalarKeys})
  \cup {<<"set_stage_param", "s08_decide:judge_enabled", config.judge # TRUE>>}
  \cup {Edit(name, 20, FALSE) : name \in ToSet(Unused(config))}

(***************************************************************************)
(* The runs.  The engine ends a run of any configuration in any of          *)
(* RunEndings: crashed, or with a score of the judge (or none), an output   *)
(* or none, out of iterations or not.  SyntheticRunner computes score and   *)
(* symptoms from the configuration.                                          *)
(***************************************************************************)
Magnitude(b) == IF b THEN 100 ELSE 0
Threshold(config, default) ==
  LET set == config.scalars["validation_threshold"] IN IF set = Unset THEN default ELSE set

EngineSignals(run, config) ==
  IF run.crash THEN [crash |-> 100]
  ELSE [ungated_low_quality |-> Magnitude(run.judged = Unset),
        low_judge_score |->
          IF run.judged # Unset /\ run.judged < Threshold(config, 70)
          THEN Threshold(config, 70) - run.judged ELSE 0,
        iteration_pressure |->
          Magnitude(run.capped /\ config.scalars["max_iterations"] # Unset)]

EngineScore(run) ==
  IF run.crash THEN 0
  ELSE IF run.judged # Unset THEN run.judged
  ELSE IF run.output THEN 50 ELSE 0

SyntheticSignals(config, task) ==
  LET threshold == Threshold(config, 50)
      retries == IF config.scalars["max_retries"] = Unset THEN 1 ELSE config.scalars["max_retries"]
      judged == config.judge = TRUE \/ config.strategy = "judge_then_loop"
  IN [ungated_low_quality |-> Magnitude(~judged),
      accepted_borderline |-> IF threshold < 70 THEN 5 * (70 - threshold) ELSE 0,
      over_strict_stall |-> IF threshold > 85 THEN 20 * (threshold - 85) ELSE 0,
      regulation_violation |-> Magnitude(task.regulated /\ ~Has(config.guards, "content")),
      missing_criterion |-> Magnitude(task.regulated /\ ~Has(config.criteria, "regulation")),
      no_recovery |-> Magnitude(retries = 0),
      retry_waste |-> IF retries > 2 THEN 100 * (retries - 2) ELSE 0]

SyntheticScore(config, task) ==
  LET sig == SyntheticSignals(config, task)
      lost == 30 * sig.ungated_low_quality + 18 * sig.accepted_borderline
              + 25 * sig.over_strict_stall + 25 * sig.regulation_violation
              + 7 * sig.missing_criterion + 10 * sig.no_recovery
              + (IF sig.retry_waste > 0 THEN 500 ELSE 0)
      score == 100 - lost \div 100 + task.noise
  IN IF score < 0 THEN 0 ELSE IF score > 100 THEN 100 ELSE score

Outcome(score) ==
  IF score >= 85 THEN "success" ELSE IF score >= 60 THEN "partial" ELSE "failure"
Record(score, signals) == [score |-> score, outcome |-> Outcome(score), signals |-> signals]

\* Objective.evaluate: both means (here sums, of as many tasks), the second metric,
\* which is None when it fails, and the held-out records.
Score(dev, records, sec) ==
  [dev |-> dev, heldout |-> Total([i \in DOMAIN records |-> records[i].score]),
   secondary |-> sec, records |-> records]
Secondaries(su) == {Unset} \cup (IF su.secondary THEN SecScores ELSE {})

Evaluations(su, config) ==
  IF su.runner = "synthetic"
  THEN LET records == [i \in DOMAIN su.tasks |->
                         Record(SyntheticScore(config, su.tasks[i]),
                                SyntheticSignals(config, su.tasks[i]))]
           sum == Total([i \in DOMAIN records |-> records[i].score])
       IN {Score(sum, records, sec) : sec \in Secondaries(su)}
  ELSE {Score(dev, [i \in DOMAIN su.tasks |->
                      Record(EngineScore(runs[i]), EngineSignals(runs[i], config))], sec) :
          dev \in DevScores, runs \in [DOMAIN su.tasks -> RunEndings], sec \in Secondaries(su)}

(***************************************************************************)
(* The candidates of a step.  reflect() takes the symptom of greatest sum   *)
(* over the runs that did not succeed (ties go to the first seen, here to   *)
(* any) and its fixes, of which _validator_agrees keeps those expected of   *)
(* the symptom.                                                              *)
(***************************************************************************)
Fixes ==
  [ungated_low_quality |->
     <<<<"set_stage_param", "s08_decide:judge_enabled", TRUE>>>>,
   accepted_borderline |-> <<Tune("validation_threshold", 90), Tune("validation_threshold", 80)>>,
   over_strict_stall |-> <<Tune("validation_threshold", 80)>>,
   regulation_violation |-> <<<<"toggle_guard", "content", TRUE>>>>,
   missing_criterion |-> <<Edit("regulation", 30, TRUE)>>,
   no_recovery |-> <<Tune("max_retries", 2)>>,
   retry_waste |-> <<Tune("max_retries", 2)>>,
   low_judge_score |-> <<Tune("max_retries", 2)>>,
   iteration_pressure |-> <<Tune("max_iterations", 8)>>]
Expected ==
  [ungated_low_quality |-> <<"set_stage_param", "s08_decide:judge_enabled">>,
   accepted_borderline |-> <<"tune_scalar", "validation_threshold">>,
   over_strict_stall |-> <<"tune_scalar", "validation_threshold">>,
   regulation_violation |-> <<"toggle_guard", "content">>,
   missing_criterion |-> <<"edit_criterion", "regulation">>,
   no_recovery |-> <<"tune_scalar", "max_retries">>,
   retry_waste |-> <<"tune_scalar", "max_retries">>,
   low_judge_score |-> <<"tune_scalar", "max_retries">>,
   iteration_pressure |-> <<"tune_scalar", "max_iterations">>]

ValidatorAgrees(symptom, move) == IsLegal(move) /\ <<Op(move), Target(move)>> = Expected[symptom]

Weight(records, symptom) ==
  FoldFunction(LAMBDA r, sum : sum + IF r.outcome # "success" /\ symptom \in DOMAIN r.signals
                                     THEN r.signals[symptom] ELSE 0, 0, records)
Dominant(records) ==
  {s \in DOMAIN Fixes : /\ Weight(records, s) > 0
                        /\ \A t \in DOMAIN Fixes : Weight(records, t) <= Weight(records, s)}

Reflections(records) ==
  IF Dominant(records) = {} THEN {<<>>}
  ELSE {Chosen(Fixes[s], {i \in DOMAIN Fixes[s] : ValidatorAgrees(s, Fixes[s][i])}) :
          s \in Dominant(records)}

\* GepaReflector: a line of guidance when a run failed and left feedback or signals.
Guidance(su, records) ==
  {<<>>} \cup
  IF su.gepa /\ \E i \in DOMAIN records : records[i].outcome # "success"
  THEN {<<<<"append_guidance", "system_prompt", line>>>> : line \in Lines}
  ELSE {}

\* promote_registered_criteria: the registered criteria the configuration does not use;
\* then what a registered synthesizer finds among the legal moves.
Promotable(config) ==
  [i \in DOMAIN Unused(config) |-> Edit(Unused(config)[i], 20, FALSE)]
Synthesized(su, config) ==
  IF ~su.synthesis THEN {<<>>}
  ELSE IF ~su.search THEN {Promotable(config)}
  ELSE {Append(Promotable(config), mv) : mv \in LegalMoves(config)}

\* To the fixes come the other moves that are legal, each once.
Fresh(fixes, moves) ==
  LET all == fixes \o moves
  IN Chosen(all, {i \in DOMAIN all :
                    \/ i <= Len(fixes)
                    \/ IsLegal(all[i]) /\ \A j \in 1..(i - 1) : all[j] # all[i]})
Candidates(su, config, records) ==
  {Fresh(fixes, line \o su.registered \o found) :
     fixes \in Reflections(records), line \in Guidance(su, records),
     found \in Synthesized(su, config)}

VARIABLES
  su,        \* the setup of this behaviour
  pc,        \* "base", "reflect", "try", "audit", "done"
  config,    \* the configuration in place
  score,     \* its evaluation
  bestSec,   \* best_sec
  step, noImprove,
  cands,     \* candidates of the step not tried yet
  result,    \* ForgeResult: [config, history]
  commits    \* the Commits: [move, before, after, verdict]
forgeVars == <<su, pc, config, score, bestSec, step, noImprove, cands, result, commits>>

NoScore == [dev |-> 0, heldout |-> 0, secondary |-> Unset, records |-> <<>>]

ForgeInit ==
  /\ su \in Setups /\ pc = "base"
  /\ config = su.base /\ score = NoScore /\ bestSec = Unset
  /\ step = 0 /\ noImprove = 0 /\ cands = <<>>
  /\ result = [config |-> su.base, history |-> <<>>]
  /\ commits = <<>>

\* The evaluation of the configuration given.
Baseline ==
  /\ pc = "base"
  /\ \E sc \in Evaluations(su, config) :
       /\ score' = sc /\ bestSec' = sc.secondary
       /\ result' = [result EXCEPT !.history = <<sc.heldout>>]
  /\ pc' = "reflect"
  /\ UNCHANGED <<su, config, step, noImprove, cands, commits>>

\* The start of a step: candidates, or the end when steps or candidates have run out.
Reflect ==
  /\ pc = "reflect" /\ step < MaxSteps
  /\ \E found \in Candidates(su, config, score.records) :
       /\ cands' = found
       /\ pc' = IF found = <<>> THEN "audit" ELSE "try"
  /\ UNCHANGED <<su, config, score, bestSec, step, noImprove, result, commits>>

StepsOut ==
  /\ pc = "reflect" /\ step = MaxSteps
  /\ pc' = "audit"
  /\ UNCHANGED <<su, config, score, bestSec, step, noImprove, cands, result, commits>>

\* The gate of a promotion.
PromoteMutant(nsc) ==
  /\ nsc.dev > score.dev
  /\ nsc.heldout >= score.heldout - su.epsilon
  /\ nsc.secondary = Unset \/ bestSec = Unset \/ nsc.secondary >= bestSec
Promote(nsc) ==
  /\ nsc.dev > score.dev
  /\ nsc.heldout >= score.heldout - su.epsilon
  /\ nsc.secondary = Unset \/ bestSec = Unset \/ nsc.secondary >= bestSec
  /\ ~(nsc.dev > score.dev /\ nsc.heldout < score.heldout)

BestSec(nsc) == IF nsc.secondary # Unset THEN nsc.secondary ELSE bestSec

Log(move, nsc, verdict) ==
  commits' = Append(commits, [move |-> move, before |-> score.heldout,
                              after |-> nsc.heldout, verdict |-> verdict])

\* The configuration after a candidate that is not kept.
RolledBackMutant(move) == Apply(config, move)
RolledBack(move) == config

\* A candidate is evaluated on a copy; it is kept and ends the step, or is dropped.
Try ==
  /\ pc = "try" /\ cands # <<>>
  /\ LET move == Head(cands) IN
       \E nsc \in Evaluations(su, Apply(config, move)) :
         IF Promote(nsc)
         THEN /\ config' = Apply(config, move)
              /\ score' = nsc /\ bestSec' = BestSec(nsc)
              /\ result' = [config |-> config', history |-> Append(result.history, nsc.heldout)]
              /\ Log(move, nsc, "promoted")
              /\ noImprove' = 0 /\ step' = step + 1
              /\ cands' = <<>> /\ pc' = "reflect"
         ELSE /\ Log(move, nsc, "rolled_back")
              /\ config' = RolledBack(move)
              /\ cands' = Tail(cands)
              /\ UNCHANGED <<score, bestSec, result, noImprove, step, pc>>
  /\ UNCHANGED su

\* A step without a promotion; patience runs out.
NoProgress ==
  /\ pc = "try" /\ cands = <<>>
  /\ noImprove' = noImprove + 1 /\ step' = step + 1
  /\ pc' = IF noImprove' >= su.patience THEN "audit" ELSE "reflect"
  /\ UNCHANGED <<su, config, score, bestSec, cands, result, commits>>

\* The audit log is written once, at the end, and the result returned.
Audit ==
  /\ pc = "audit" /\ pc' = "done"
  /\ UNCHANGED <<su, config, score, bestSec, step, noImprove, cands, result, commits>>

ForgeNext == Baseline \/ Reflect \/ StepsOut \/ Try \/ NoProgress \/ Audit
ForgeSpec == ForgeInit /\ [][ForgeNext]_forgeVars

(***************************************************************************)
(* Properties.                                                              *)
(***************************************************************************)
\* The true objective never falls along the promotions: optimising the proxy cannot
\* trade held-out quality away, whatever epsilon tolerates (forge/loop.py).
HeldoutNeverFalls ==
  \A i, j \in DOMAIN result.history : i < j => ~(result.history[j] < result.history[i])

\* The configuration after the first n entries of a log, and how many of them promoted.
Replayed(base, entries, n) ==
  LET after[k \in 0..n] ==
        IF k = 0 THEN base
        ELSE IF entries[k].verdict = "promoted" THEN Apply(after[k - 1], entries[k].move)
        ELSE after[k - 1]
  IN after[n]
Promotions(entries, n) == Cardinality({i \in 1..n : entries[i].verdict = "promoted"})

\* The audit log tells the whole story: the promoted moves, applied in order to the
\* configuration given, make the one returned, which is the one in place (what was
\* rolled back left nothing behind), and every entry says the held-out score of the
\* configuration then in place and, if promoted, the next one of the history.
LogReplays ==
  /\ config = result.config
  /\ result.config = Replayed(su.base, commits, Len(commits))
  /\ pc # "base" => Len(result.history) = Promotions(commits, Len(commits)) + 1
  /\ \A i \in DOMAIN commits :
       /\ commits[i].before = result.history[Promotions(commits, i - 1) + 1]
       /\ commits[i].verdict = "promoted" =>
            commits[i].after = result.history[Promotions(commits, i) + 1]

=============================================================================
