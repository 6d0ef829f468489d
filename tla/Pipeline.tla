------------------------------ MODULE Pipeline ------------------------------
(***************************************************************************)
(* One run of the agent pipeline, Pipeline.run in                          *)
(* xgen_harness/core/pipeline.py: the ingress stages, the loop around the  *)
(* main LLM call with the four hooks of the policy gate, tool execution and *)
(* the decide stage, then the egress stage and the final DoneEvent.        *)
(* What the LLM answers, which guard blocks, which tool fails and which     *)
(* stage raises is chosen freely; how the code reacts is not.              *)
(***************************************************************************)
EXTENDS Integers, Sequences, FiniteSets

None == -1   \* a setting left unset (Python None)

CONSTANTS
  Tools,     \* the tools the LLM may call
  Configs    \* the configurations a run may have

\* What a run reads of HarnessConfig and of the stage parameters.
Configurations == [
  maxIterations    : Nat,               \* after resolve_with_default
  oneShot          : BOOLEAN,           \* the orchestrator overrides it with 1
  maxRetries       : Nat \cup {None},   \* config.max_retries
  decideMaxRetries : Nat \cup {None},   \* stage_params.s08_decide.max_retries
  terminalTools    : SUBSET Tools,      \* stage_params.s08_decide.terminal_tools
  thresholdSet     : BOOLEAN,           \* config.validation_threshold is a number
  judge            : BOOLEAN,           \* s08_decide evaluates the response
  strict           : BOOLEAN,           \* s07_act has strategy strict_no_error
  guarded          : BOOLEAN,           \* s05_policy has guards
  budgeted         : BOOLEAN,           \* config.cost_budget_usd is set
  recovering       : SUBSET {"ingress", "context", "finalize"}]
                     \* plug-in stages whose on_error recovers (no built-in one does)

ASSUME PipelineAssumption ==
  /\ Configs \subseteq Configurations
  /\ "none" \notin Tools

\* A tool_use block is known by the turn that asked for it and its tool.
Calls == Nat \X Tools
NoCall == <<0, "none">>

Decisions == {"continue", "complete", "retry", "error"}
Texts     == {"none", "short", "long"}  \* last_assistant_text: empty, < 200, >= 200
Scores    == {"none", "low", "high"}    \* validation_score against the threshold
Running   == {"ingress", "loop", "context", "pre_main", "main_call",
              "post_response", "pre_tool", "act", "decide", "boundary", "finalize"}
Places    == Running \cup {"done", "cancelled"}

VARIABLES
  config,      \* the configuration of this run, fixed at its start
  pc,          \* the stage or hook the run is at
  decision,    \* state.loop_decision
  iteration,   \* state.loop_iteration
  retryCount,  \* state.retry_count
  blocked,     \* state.policy_block_reason is non-empty
  overBudget,  \* state.is_over_budget
  text,        \* state.last_assistant_text
  score,       \* state.validation_score
  pending,     \* state.pending_tool_calls
  results,     \* state.tool.results, not yet in a message
  asked,       \* tool_use blocks put into state.messages
  answered,    \* tool_result blocks put into state.messages
  executed,    \* state.tool_call_history, as a set
  lastCall,    \* the newest entry of state.tool_call_history
  denied,      \* history: calls the gate removed at pre_tool
  strictFailed,\* state.metadata["s07_strict_failed"]
  recorded,    \* decisions handed to record_iteration, one per iteration
  outcome      \* history: the success flags of the DoneEvents emitted

loopVars == <<decision, iteration, retryCount, blocked>>
llmVars  == <<overBudget, text, score>>
toolVars == <<pending, results, asked, answered, executed, lastCall, denied,
              strictFailed>>
vars == <<config, pc, loopVars, llmVars, toolVars, recorded, outcome>>

HistoryOK ==
  /\ recorded \in Seq(Decisions)
  /\ outcome \in Seq({"success", "failure"})

TypeOK ==
  /\ config \in Configs
  /\ pc \in Places
  /\ decision \in Decisions
  /\ iteration \in Nat
  /\ retryCount \in Nat
  /\ blocked \in BOOLEAN
  /\ overBudget \in BOOLEAN
  /\ text \in Texts
  /\ score \in Scores
  /\ pending \in SUBSET Calls
  /\ results \in SUBSET Calls
  /\ asked \in SUBSET Calls
  /\ answered \in SUBSET Calls
  /\ executed \in SUBSET Calls
  /\ lastCall \in Calls \cup {NoCall}
  /\ denied \in SUBSET Calls
  /\ strictFailed \in BOOLEAN
  /\ HistoryOK

Init ==
  /\ config \in Configs
  /\ pc = "ingress"
  /\ decision = "continue" /\ iteration = 0 /\ retryCount = 0 /\ blocked = FALSE
  /\ overBudget = FALSE /\ text = "none" /\ score = "none"
  /\ pending = {} /\ results = {} /\ asked = {} /\ answered = {}
  /\ executed = {} /\ lastCall = NoCall /\ denied = {} /\ strictFailed = FALSE
  /\ recorded = <<>> /\ outcome = <<>>

Goto(place) == pc' = place

\* The run returns after emitting a DoneEvent with that success flag.
Finish(verdict) == Goto("done") /\ outcome' = Append(outcome, verdict)

-----------------------------------------------------------------------------
(* Failures.  An exception of a stage that its on_error does not turn into a
   recovery, or of the main call, ends the run with ErrorEvent and
   DoneEvent(success=False).  Cancelling the task skips both handlers. *)

StagePlaces == {"ingress", "context", "act", "decide", "finalize"}

StageFails ==
  /\ pc \in StagePlaces \ config.recovering
  /\ Finish("failure")
  /\ UNCHANGED <<config, loopVars, llmVars, toolVars, recorded>>

MainCallFails ==
  /\ pc = "main_call"
  /\ Finish("failure")
  /\ UNCHANGED <<config, loopVars, llmVars, toolVars, recorded>>

\* A recovered stage counts as executed; what it was to do is not done.
StageRecovers ==
  /\ pc \in config.recovering
  /\ \/ pc = "ingress"  /\ Goto("loop")     /\ UNCHANGED outcome
     \/ pc = "context"  /\ Goto("pre_main") /\ UNCHANGED outcome
     \/ pc = "finalize" /\ Finish("success")
  /\ UNCHANGED <<config, loopVars, llmVars, toolVars, recorded>>

\* CancelledError is not an Exception: neither handler of run() sees it.
Cancel ==
  /\ pc \in Running
  /\ Goto("cancelled")
  /\ UNCHANGED <<config, loopVars, llmVars, toolVars, recorded, outcome>>

-----------------------------------------------------------------------------
(* Phases A and B *)

Ingress ==
  /\ pc = "ingress"
  /\ Goto("loop")
  /\ UNCHANGED <<config, loopVars, llmVars, toolVars, recorded, outcome>>

\* pipeline.py:170-178: an override of 1 replaces the configured bound.
EffectiveMaxIter == IF config.oneShot THEN 1 ELSE config.maxIterations

\* Mutant: one iteration too many.
MayIterateOnceMore ==
  decision = "continue" /\ iteration <= EffectiveMaxIter /\ ~overBudget

\* The condition of the while loop.
MayIterate ==
  /\ decision = "continue"
  /\ iteration < EffectiveMaxIter
  /\ ~overBudget

EnterIteration ==
  /\ pc = "loop" /\ MayIterate
  /\ iteration' = iteration + 1
  /\ Goto("context")
  /\ UNCHANGED <<config, decision, retryCount, blocked, llmVars, toolVars,
                 recorded, outcome>>

LeaveLoop ==
  /\ pc = "loop" /\ ~MayIterate
  /\ Goto("finalize")
  /\ UNCHANGED <<config, loopVars, llmVars, toolVars, recorded, outcome>>

\* The cost of a call to an LLM is added to state.cost_usd; it is an estimate
\* that may be negative, since cache savings are subtracted.
Bill == overBudget' \in IF config.budgeted THEN BOOLEAN ELSE {FALSE}

\* s05_policy is passed over in the stage order and s06_context runs, which may
\* have the LLM summarise.
Context ==
  /\ pc = "context"
  /\ Bill
  /\ Goto("pre_main")
  /\ UNCHANGED <<config, loopVars, text, score, toolVars, recorded, outcome>>

\* A hook that raises, or has no guard, passes.
MayBlock == IF config.guarded THEN BOOLEAN ELSE {FALSE}

\* pre_main and post_response: a block completes the loop at once, skipping
\* the main call, the tools and the decide stage of this iteration.
Hook(place, next) ==
  /\ pc = place
  /\ \E block \in MayBlock :
       /\ blocked' = (blocked \/ block)
       /\ IF blocked \/ block
            THEN decision' = "complete" /\ Goto("boundary")
            ELSE decision' = decision   /\ Goto(next)
  /\ UNCHANGED <<config, iteration, retryCount, llmVars, toolVars,
                 recorded, outcome>>

PreMain == Hook("pre_main", "main_call")

\* s07_act bypasses itself when no tool call is pending.
PostResponse == Hook("post_response", IF pending = {} THEN "decide" ELSE "pre_tool")

\* The LLM answers with some text and some tool calls, possibly with neither.
MainCall ==
  /\ pc = "main_call"
  /\ \E reply \in Texts, tools \in SUBSET Tools :
       LET calls == {iteration} \X tools IN
       /\ text' = IF reply = "none" THEN text ELSE reply
       /\ pending' = IF calls = {} THEN pending ELSE calls
       /\ asked' = asked \cup calls
  /\ Bill
  /\ Goto("post_response")
  /\ UNCHANGED <<config, loopVars, score, results, answered, executed, lastCall,
                 denied, strictFailed, recorded, outcome>>

\* flush_tool_results: the results become one user message.
Flush(res) ==
  /\ answered' = answered \cup res
  /\ results' = {}
  /\ pending' = {}

\* pre_tool: the denied calls leave pending and get an error result; if none is
\* left s07_act will be bypassed, so the gate flushes the results itself.
PreTool ==
  /\ pc = "pre_tool"
  /\ \E deny \in IF config.guarded THEN SUBSET pending ELSE {{}} :
       /\ denied' = denied \cup deny
       /\ IF deny = pending
            THEN Flush(results \cup deny) /\ Goto("decide")
            ELSE /\ results' = results \cup deny
                 /\ pending' = pending \ deny
                 /\ Goto("act")
                 /\ UNCHANGED answered
  /\ UNCHANGED <<config, loopVars, llmVars, asked, executed, lastCall, strictFailed,
                 recorded, outcome>>

\* Mutant: the flush takes the results of this stage and loses those of the gate.
ActForgetsDenied ==
  /\ pc = "act"
  /\ \E failed \in SUBSET pending :
       strictFailed' = (strictFailed \/ (config.strict /\ failed # {}))
  /\ lastCall' \in pending
  /\ executed' = executed \cup pending
  /\ Flush(pending)
  /\ Goto("decide")
  /\ UNCHANGED <<config, loopVars, llmVars, asked, denied, recorded, outcome>>

\* s07_act: every pending call runs and leaves one result, an error if it
\* failed or timed out; the results are flushed.  The order is the strategy's.
Act ==
  /\ pc = "act"
  /\ \E failed \in SUBSET pending :
       strictFailed' = (strictFailed \/ (config.strict /\ failed # {}))
  /\ lastCall' \in pending
  /\ executed' = executed \cup pending
  /\ Flush(results \cup pending)
  /\ Goto("decide")
  /\ UNCHANGED <<config, loopVars, llmVars, asked, denied, recorded, outcome>>

-----------------------------------------------------------------------------
(* s08_decide *)

\* _DECIDE_DEFAULTS["max_retries"] stands in for an unset stage parameter.
RetryLimit == IF config.decideMaxRetries = None THEN 3 ELSE config.decideMaxRetries

\* The newest tool call is a terminal tool and was made in this iteration.
TerminalReached ==
  /\ lastCall \in Calls
  /\ lastCall[1] = iteration /\ lastCall[2] \in config.terminalTools

\* Tools have run and the last text is short: taken for an introduction.
LooksLikeIntro == executed # {} /\ text # "long"

\* ThresholdDecide.decide, with the strict_no_error check of DecideStage before
\* it.  A score cannot be compared with an unset threshold: that is an error.
Verdict(judged) ==
  IF strictFailed \/ blocked THEN "complete"
  ELSE IF pending # {} THEN "continue"
  ELSE IF judged # "none" /\ ~config.thresholdSet THEN "error"
  ELSE IF judged = "low"
    THEN IF retryCount < RetryLimit THEN "retry" ELSE "complete"
  ELSE IF TerminalReached THEN "complete"
  ELSE IF LooksLikeIntro \/ text = "none" THEN "continue"
  ELSE "complete"

\* The judge scores the last text there is, even one of an earlier turn, and
\* leaves the old score alone when there is no text.
Decide ==
  /\ pc = "decide"
  /\ score' \in IF config.judge /\ text # "none" THEN {"low", "high"} ELSE {score}
  /\ IF config.judge THEN Bill ELSE UNCHANGED overBudget
  /\ decision' = Verdict(score')
  /\ Goto("boundary")
  /\ UNCHANGED <<config, iteration, retryCount, blocked, text, toolVars, recorded, outcome>>

-----------------------------------------------------------------------------
(* The end of an iteration: loop_boundary hook, record_iteration, and what
   becomes of the decision.  No await separates these steps. *)

\* An override of 1 ends the loop here, by break.
StopOneShot(d) ==
  /\ config.oneShot /\ d = "continue"
  /\ decision' = "complete"
  /\ Goto("finalize")
  /\ UNCHANGED <<retryCount, outcome>>

\* Mutant: the limit is only noticed one retry too late.
SpendRetryLate(d) ==
  /\ d = "retry" /\ config.maxRetries # None
  /\ retryCount' = retryCount + 1
  /\ decision' = IF retryCount + 1 > config.maxRetries
                   THEN "complete" ELSE "continue"
  /\ Goto("loop")
  /\ UNCHANGED outcome

\* A retry is counted, then becomes "continue" or, at the limit, "complete".
SpendRetry(d) ==
  /\ d = "retry" /\ config.maxRetries # None
  /\ retryCount' = retryCount + 1
  /\ decision' = IF retryCount + 1 >= config.maxRetries
                   THEN "complete" ELSE "continue"
  /\ Goto("loop")
  /\ UNCHANGED outcome

\* retry_count >= None raises TypeError, which the handler of run() turns
\* into a failed run.
RetryUnset(d) ==
  /\ d = "retry" /\ config.maxRetries = None
  /\ retryCount' = retryCount + 1
  /\ decision' = d
  /\ Finish("failure")

\* Mutant: the loop does not know the decision "error".
KeepKnownDecision(d) ==
  /\ d \in {"continue", "complete"} /\ ~(config.oneShot /\ d = "continue")
  /\ decision' = d
  /\ Goto("loop")
  /\ UNCHANGED <<retryCount, outcome>>

KeepDecision(d) ==
  /\ d # "retry" /\ ~(config.oneShot /\ d = "continue")
  /\ decision' = d
  /\ Goto("loop")
  /\ UNCHANGED <<retryCount, outcome>>

Boundary ==
  /\ pc = "boundary"
  /\ \E block \in MayBlock :
       LET d == IF block THEN "complete" ELSE decision IN
       /\ blocked' = (blocked \/ block)
       /\ recorded' = Append(recorded, d)
       /\ StopOneShot(d) \/ SpendRetry(d) \/ RetryUnset(d) \/ KeepDecision(d)
  /\ UNCHANGED <<config, iteration, llmVars, toolVars>>

\* Phase C: s09_finalize, then the DoneEvent of a normal end.
Finalize ==
  /\ pc = "finalize"
  /\ Finish("success")
  /\ UNCHANGED <<config, loopVars, llmVars, toolVars, recorded>>

-----------------------------------------------------------------------------
Step ==
  \/ Ingress \/ EnterIteration \/ LeaveLoop \/ Context
  \/ PreMain \/ MainCall \/ PostResponse \/ PreTool \/ Act \/ Decide
  \/ Boundary \/ Finalize
  \/ StageFails \/ MainCallFails \/ StageRecovers

Next == Step \/ Cancel

Spec == Init /\ [][Next]_vars

\* The task of the run is scheduled while it can move: provider, guards and
\* tools are taken to return or raise.  Nobody has to cancel it.
FairSpec == Spec /\ WF_vars(Step)
-----------------------------------------------------------------------------
(* Properties *)

\* Before every request to the LLM each tool_use in the messages has its
\* tool_result: nothing is pending and no result waits outside the messages.
BeforeMainCall == {"loop", "context", "pre_main", "main_call"}
AnsweredBeforeNextCall ==
  (pc \in BeforeMainCall /\ ~blocked) =>
    asked = answered /\ results = {} /\ pending = {}

\* A call the gate denied at pre_tool is never run, and a call is run only if
\* the LLM asked for it; every answered call was either run or denied.
DeniedNeverRun ==
  /\ denied \cap executed = {}
  /\ executed \cup denied \subseteq asked
  /\ answered \subseteq executed \cup denied

\* After a policy block or a strict_no_error failure nothing more is asked of
\* the LLM and no tool runs, although the run still finishes its iteration.
Stopped == blocked \/ strictFailed
NothingAfterStop == [][Stopped => asked' = asked /\ executed' = executed]_vars

\* Both retry limits hold: the one of the decide stage bounds the count, and a
\* loop that goes on after a retry has not used up config.max_retries.
RetryBound ==
  /\ retryCount <= RetryLimit
  /\ (pc = "loop" /\ decision = "continue" /\ retryCount > 0)
        => retryCount < config.maxRetries

\* A run whose task keeps being scheduled ends: the iteration bound and the
\* retry limits leave no cycle that does not advance.
RunEnds == <>(pc \in {"done", "cancelled"})

-----------------------------------------------------------------------------
(* Refinement *)

\* The run follows the life cycle its observers see: setup, a bounded number of
\* turns, a wrap-up, and exactly one verdict, which is success only after the
\* wrap-up (module RunLifecycle).
Lifecycle == INSTANCE RunLifecycle WITH
  limit <- EffectiveMaxIter,
  turns <- iteration,
  phase <- CASE pc = "ingress" -> "setup"
             [] pc = "finalize" -> "wrapup"
             [] pc \in {"done", "cancelled"} -> "over"
             [] OTHER -> "turns",
  verdict <- IF pc = "cancelled" THEN <<"cancelled">> ELSE outcome
ImplementsLifecycle == Lifecycle!Spec

\* The messages follow the tool protocol of the LLM API: the calls of one
\* assistant message are answered together, by the next user message, before
\* the assistant speaks again (module ToolExchange).
Exchange == INSTANCE ToolExchange WITH
  Call <- Calls,
  open <- asked \ answered,
  closed <- answered
ImplementsExchange == Exchange!Spec
=============================================================================
