----------------------------- MODULE MCPipeline -----------------------------
(***************************************************************************)
(* Configurations on which TLC checks module Pipeline.                     *)
(***************************************************************************)
EXTENDS Pipeline

CONSTANTS search, submit

\* Everything switched on: two retries, three turns, a terminal tool.
FullConfig == [
  maxIterations |-> 3, oneShot |-> FALSE, maxRetries |-> 2,
  decideMaxRetries |-> None, terminalTools |-> {submit}, thresholdSet |-> TRUE,
  judge |-> TRUE, strict |-> TRUE, guarded |-> TRUE, budgeted |-> TRUE,
  recovering |-> {}]

\* The decide stage's own limit is the smaller one, no terminal tool, no guard.
DecideLimited == [FullConfig EXCEPT
  !.maxRetries = 5, !.decideMaxRetries = 1, !.terminalTools = {},
  !.guarded = FALSE, !.budgeted = FALSE, !.strict = FALSE, !.maxIterations = 4]

\* A library user's HarnessConfig with a threshold but no retry limit.
RetriesUnset == [FullConfig EXCEPT !.maxRetries = None, !.maxIterations = 2]

\* The judge without a threshold: the decide stage can only report an error.
ThresholdUnset == [FullConfig EXCEPT
  !.thresholdSet = FALSE, !.guarded = FALSE, !.maxIterations = 2]

\* max_retries = 0 switches retries off; orchestrator "linear"; plug-in stages
\* that recover from their own errors.
Linear == [FullConfig EXCEPT
  !.oneShot = TRUE, !.maxRetries = 0,
  !.recovering = {"ingress", "context", "finalize"}]

MCTools == {search, submit}
MCConfigs == {FullConfig, DecideLimited, RetriesUnset, ThresholdUnset, Linear}

=============================================================================
