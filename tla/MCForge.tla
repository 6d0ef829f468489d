------------------------------- MODULE MCForge -------------------------------
(* Instances of Forge: an engine with arbitrary endings of runs, with and        *)
(* without a second metric, and the synthetic runner from a weak configuration.  *)
EXTENDS Forge

MCScalarSpecs ==
  [validation_threshold |-> [lo |-> 0, hi |-> 100, step |-> 10],
   max_retries |-> [lo |-> 0, hi |-> 8, step |-> 1],
   max_iterations |-> [lo |-> 1, hi |-> 20, step |-> 2]]
MCCriterionNames == <<"accuracy", "regulation">>
MCRunEndings ==
  {[crash |-> TRUE],
   [crash |-> FALSE, judged |-> Unset, output |-> TRUE, capped |-> FALSE],
   [crash |-> FALSE, judged |-> 60, output |-> TRUE, capped |-> TRUE],
   [crash |-> FALSE, judged |-> 60, output |-> TRUE, capped |-> FALSE],
   [crash |-> FALSE, judged |-> 90, output |-> TRUE, capped |-> FALSE]}

Weak ==
  [scalars |-> [k \in DOMAIN MCScalarSpecs |->
                  IF k = "validation_threshold" THEN 50
                  ELSE IF k = "max_retries" THEN 0 ELSE 10],
   guards |-> <<[name |-> "content", params |-> "custom"], [name |-> "pii", params |-> "default"]>>,
   criteria |-> <<[name |-> "accuracy", rule |-> [weight |-> 50, hard |-> FALSE]]>>,
   judge |-> Unset, strategy |-> Unset,
   prompt |-> [user |-> "given", guidance |-> Unset]]

Plain == [regulated |-> FALSE, noise |-> 0]
Guarded == <<"toggle_guard", "content", TRUE>>
Unheard == <<"unknown", "content", TRUE>>
Picked == <<"set_strategy", "s08_decide", "threshold">>
MCProposals == {Guarded, Unheard, Picked}
Engine ==
  [base |-> Weak, runner |-> "engine", tasks |-> <<Plain>>, secondary |-> FALSE, gepa |-> FALSE,
   synthesis |-> FALSE, search |-> FALSE, registered |-> <<>>, patience |-> 1, epsilon |-> 20]
Synthetic ==
  [base |-> [Weak EXCEPT !.guards = <<>>], runner |-> "synthetic",
   tasks |-> <<[regulated |-> TRUE, noise |-> 1], [regulated |-> FALSE, noise |-> -2]>>,
   secondary |-> FALSE, gepa |-> TRUE, synthesis |-> TRUE, search |-> FALSE, registered |-> <<>>,
   patience |-> 2, epsilon |-> 0]

MCSetups ==
  {[Engine EXCEPT !.secondary = TRUE, !.gepa = TRUE],
   [Engine EXCEPT !.registered = <<Guarded, Guarded, Unheard>>,
                  !.patience = 2],
   [Engine EXCEPT !.registered = <<Picked>>],
   [Engine EXCEPT !.synthesis = TRUE],
   [Engine EXCEPT !.tasks = <<Plain, Plain>>],
   [Synthetic EXCEPT !.search = TRUE, !.gepa = FALSE],
   [Synthetic EXCEPT !.search = TRUE, !.gepa = FALSE, !.patience = 1,
      !.base.scalars = [k \in DOMAIN MCScalarSpecs |-> Unset]],
   Synthetic, [Synthetic EXCEPT !.secondary = TRUE, !.patience = 1]}
=============================================================================
