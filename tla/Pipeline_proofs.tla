--------------------------- MODULE Pipeline_proofs ---------------------------
(***************************************************************************)
(* Theorems about module Pipeline, for every set of tools and every set of *)
(* configurations.                                                         *)
(***************************************************************************)
EXTENDS Pipeline, TLAPS

\* The initial values have their types.
LEMMA InitType == Init => TypeOK
<1>1. Init => HistoryOK
  BY DEF Init, HistoryOK
<1>2. Init => blocked \in BOOLEAN /\ overBudget \in BOOLEAN /\ strictFailed \in BOOLEAN
  BY Zenon DEF Init
<1>3. QED
  BY <1>1, <1>2 DEF Init, TypeOK, Places, Running, Decisions, Texts, Scores

\* Every step of the run keeps the types.
LEMMA StepType == TypeOK /\ [Next]_vars => TypeOK'
<1> SUFFICES ASSUME TypeOK, [Next]_vars PROVE TypeOK'
  OBVIOUS
<1> config \in Configurations
  BY PipelineAssumption DEF TypeOK
<1>1. HistoryOK'
  <2> HistoryOK /\ decision \in Decisions
    BY DEF TypeOK
  <2>1. CASE Boundary
    <3>1. PICK block \in MayBlock :
            LET d == IF block THEN "complete" ELSE decision
            IN  /\ recorded' = Append(recorded, d)
                /\ StopOneShot(d) \/ SpendRetry(d) \/ RetryUnset(d) \/ KeepDecision(d)
      BY <2>1 DEF Boundary
    <3>2. recorded' \in Seq(Decisions)
      BY <3>1 DEF HistoryOK, Decisions
    <3>3. outcome' = outcome \/ outcome' = Append(outcome, "failure")
      BY <3>1 DEF Finish, StopOneShot, SpendRetry, RetryUnset, KeepDecision
    <3>4. QED
      BY <3>2, <3>3 DEF HistoryOK
  <2>2. CASE StageFails \/ MainCallFails \/ Finalize \/ StageRecovers
    <3>1. ASSUME NEW verdict \in {"success", "failure"}, Finish(verdict), UNCHANGED recorded
          PROVE  HistoryOK'
      BY <3>1 DEF Finish, HistoryOK
    <3>2. CASE UNCHANGED <<recorded, outcome>>
      BY <3>2 DEF HistoryOK
    <3>3. QED
      BY <2>2, <3>1, <3>2 DEF StageFails, MainCallFails, Finalize, StageRecovers
  <2>4. CASE UNCHANGED <<recorded, outcome>>
    BY <2>4 DEF HistoryOK
  <2>5. CASE Ingress \/ EnterIteration \/ LeaveLoop \/ Context \/ Cancel \/ UNCHANGED vars
    BY <2>4, <2>5 DEF Ingress, EnterIteration, LeaveLoop, Context, Cancel, vars
  <2>6. CASE PreMain \/ PostResponse \/ MainCall
    BY <2>4, <2>6 DEF PreMain, PostResponse, Hook, MainCall
  <2>7. CASE PreTool \/ Act \/ Decide
    BY <2>4, <2>7 DEF PreTool, Act, Decide
  <2>8. QED
    BY <2>1, <2>2, <2>5, <2>6, <2>7 DEF Next, Step
<1> USE <1>1 DEF Places, Running, Decisions, Texts, Scores, Goto, Finish
<1>2. CASE Ingress \/ LeaveLoop \/ Context \/ Cancel
  BY <1>2 DEF TypeOK, Ingress, LeaveLoop, Context, Bill, Cancel, loopVars, llmVars,
     toolVars
<1>3. CASE StageFails \/ MainCallFails \/ Finalize \/ StageRecovers
  BY <1>3 DEF TypeOK, StageFails, MainCallFails, Finalize, StageRecovers,
     loopVars, llmVars, toolVars
<1>4. CASE EnterIteration
  BY <1>4 DEF TypeOK, EnterIteration, llmVars, toolVars
<1>5. CASE PreMain \/ PostResponse
  BY <1>5 DEF TypeOK, PreMain, PostResponse, Hook, MayBlock, llmVars, toolVars
<1>6. CASE MainCall
  <2>1. PICK reply \in Texts, tools \in SUBSET Tools :
          /\ text' = IF reply = "none" THEN text ELSE reply
          /\ pending' = IF {iteration} \X tools = {} THEN pending ELSE {iteration} \X tools
          /\ asked' = asked \cup ({iteration} \X tools)
    BY <1>6 DEF MainCall
  <2>2. {iteration} \X tools \subseteq Calls
    BY DEF Calls, TypeOK
  <2>3. text' \in Texts /\ pending' \in SUBSET Calls /\ asked' \in SUBSET Calls
    BY <2>1, <2>2 DEF TypeOK
  <2>4. overBudget' \in BOOLEAN
    BY <1>6 DEF MainCall, Bill
  <2>5. QED
    BY <1>1, <1>6, <2>3, <2>4 DEF TypeOK, MainCall, loopVars
<1>7. CASE PreTool
  BY <1>7 DEF TypeOK, PreTool, Flush, loopVars, llmVars
<1>8. CASE Act
  BY <1>8 DEF TypeOK, Act, Flush, loopVars, llmVars
<1>9. CASE Decide
  <2>1. Verdict(score') \in Decisions
    BY DEF Verdict
  <2>2. score' \in Scores /\ overBudget' \in BOOLEAN /\ pc' \in Places
    BY <1>9 DEF TypeOK, Decide, Bill
  <2>3. QED
    BY <1>1, <1>9, <2>1, <2>2 DEF TypeOK, Decide, toolVars
<1>10. CASE Boundary
  BY <1>10 DEF TypeOK, Boundary, MayBlock, StopOneShot, SpendRetry, RetryUnset,
     KeepDecision, llmVars, toolVars
<1>11. CASE UNCHANGED vars
  BY <1>11 DEF TypeOK, vars, loopVars, llmVars, toolVars
<1>12. QED
  BY <1>2, <1>3, <1>4, <1>5, <1>6, <1>7, <1>8, <1>9, <1>10, <1>11 DEF Next, Step

\* Every variable keeps its type along a run of Pipeline.run.
THEOREM TypeCorrect == Spec => []TypeOK
BY InitType, StepType, PTL DEF Spec

-----------------------------------------------------------------------------
(* The inductive invariant.  AnsweredBeforeNextCall speaks of four places of
   the loop only; to be inductive it has to say what the sets of calls are at
   every place between the main call and the flush, and that a stopped run is
   on its way out. *)

\* A blocked or strictly failed run only passes the end of its iteration.
LastPlaces == {"boundary", "loop", "finalize", "done", "cancelled"}
StopInv ==
  /\ blocked => pc \in LastPlaces
  /\ strictFailed => pc \in LastPlaces \cup {"decide"}
  /\ Stopped /\ pc \in {"boundary", "loop"} => decision = "complete"

\* The calls of a turn carry its number, so the next turn's calls are fresh.
FreshInv ==
  /\ \A c \in asked : c[1] <= iteration
  /\ pc \in {"context", "pre_main", "main_call"} => \A c \in asked : c[1] < iteration

\* Every call asked for is pending, executed or denied, and never two of these;
\* the results not yet flushed are those of calls just denied.
SettledPlaces == {"ingress", "loop", "context", "pre_main", "main_call", "decide", "boundary"}
CallInv ==
  /\ executed \cap denied = {}
  /\ executed \cup denied = answered \cup results
  /\ answered \cap results = {}
  /\ answered \cup results \cup pending \subseteq asked
  /\ pending \cap (executed \cup denied) = {}
  /\ results \subseteq denied
  /\ pc \in {"post_response", "pre_tool", "act"} => asked = answered \cup results \cup pending
  /\ pc \in {"post_response", "pre_tool"} => results = {}
  /\ pc \in {"pre_tool", "act"} => pending # {}
  /\ pc \in SettledPlaces /\ ~blocked => asked = answered /\ results = {} /\ pending = {}

\* The retries counted stay within the decide stage's limit, and a loop that
\* goes on has one left.
RetryInv ==
  /\ retryCount <= RetryLimit
  /\ pc = "boundary" /\ decision = "retry" => retryCount < RetryLimit
  /\ pc \notin LastPlaces => decision = "continue"
  /\ (pc \in Running /\ decision = "continue" /\ retryCount > 0)
        => retryCount < config.maxRetries

\* No verdict is out while the run is under way.
VerdictInv == pc \in Running => outcome = <<>>

IInv == TypeOK /\ StopInv /\ FreshInv /\ CallInv /\ RetryInv /\ VerdictInv

\* A run starts unblocked and unasked.
LEMMA InitInv == Init => IInv
<1> SUFFICES ASSUME Init PROVE IInv
  OBVIOUS
<1>1. TypeOK
  BY InitType
<1>2. StopInv
  BY Zenon DEF Init, StopInv, Stopped
<1>3. FreshInv /\ CallInv
  BY DEF Init, FreshInv, CallInv
<1>4. RetryInv
  <2> config \in Configurations
    BY PipelineAssumption DEF Init
  <2> QED
    BY DEF Init, RetryInv, RetryLimit, Configurations, None, LastPlaces
<1>5. VerdictInv
  BY DEF Init, VerdictInv
<1>6. QED
  BY <1>1, <1>2, <1>3, <1>4, <1>5 DEF IInv

\* A stopped run stays on its way out.
LEMMA StepStop == IInv /\ [Next]_vars => StopInv'
<1> SUFFICES ASSUME TypeOK, StopInv, RetryInv, [Next]_vars PROVE StopInv'
  BY DEF IInv
<1> USE DEF StopInv, Stopped, LastPlaces, Goto, Finish
<1>1. CASE Ingress \/ LeaveLoop \/ Context \/ Cancel \/ StageFails \/ MainCallFails
           \/ Finalize
  BY <1>1 DEF Ingress, LeaveLoop, Context, Cancel, StageFails, MainCallFails,
     Finalize, loopVars, toolVars
<1>2. CASE StageRecovers
  BY <1>2, PipelineAssumption DEF TypeOK, StageRecovers, Configurations, loopVars, toolVars
<1>3. CASE EnterIteration
  BY <1>3 DEF EnterIteration, MayIterate, toolVars
<1>4. CASE PreMain \/ PostResponse
  <2>1. ~blocked /\ ~strictFailed /\ UNCHANGED strictFailed
    BY <1>4 DEF PreMain, PostResponse, Hook, toolVars
  <2>2. blocked' => pc' = "boundary" /\ decision' = "complete"
    BY <1>4, <2>1 DEF PreMain, PostResponse, Hook
  <2>3. QED
    BY <2>1, <2>2
<1>5. CASE MainCall
  BY <1>5 DEF MainCall, loopVars
<1>6. CASE PreTool \/ Act
  BY <1>6 DEF PreTool, Act, Flush, loopVars
<1>7. CASE Decide
  BY <1>7 DEF Decide, Verdict, toolVars
<1>8. CASE Boundary
  <2>1. /\ pc = "boundary" /\ UNCHANGED strictFailed
        /\ pc' \in {"loop", "finalize", "done"}
    BY <1>8 DEF Boundary, StopOneShot, SpendRetry, RetryUnset, KeepDecision, toolVars
  <2>2. ASSUME Stopped' PROVE decision' = "complete"
    <3>1. PICK block \in MayBlock :
            LET d == IF block THEN "complete" ELSE decision IN
            /\ blocked' = (blocked \/ block)
            /\ StopOneShot(d) \/ SpendRetry(d) \/ RetryUnset(d) \/ KeepDecision(d)
      BY <1>8 DEF Boundary
    <3>2. block \/ decision = "complete"
      BY <2>1, <2>2, <3>1
    <3>3. QED
      BY <3>1, <3>2 DEF StopOneShot, SpendRetry, RetryUnset, KeepDecision
  <2>3. QED
    BY <2>1, <2>2
<1>9. CASE UNCHANGED vars
  BY <1>9 DEF vars, loopVars, toolVars
<1>10. QED
  BY <1>1, <1>2, <1>3, <1>4, <1>5, <1>6, <1>7, <1>8, <1>9 DEF Next, Step

\* Calls asked for before the main call of a turn are of earlier turns.
LEMMA StepFresh == IInv /\ [Next]_vars => FreshInv'
<1> SUFFICES ASSUME TypeOK, FreshInv, [Next]_vars PROVE FreshInv'
  BY DEF IInv
<1> USE DEF FreshInv, Goto, Finish
<1> /\ asked \subseteq Calls
    /\ iteration \in Nat
  BY DEF TypeOK
<1>1. CASE EnterIteration
  BY <1>1 DEF EnterIteration, Calls, toolVars
<1>2. CASE MainCall
  BY <1>2 DEF MainCall, Calls, loopVars
<1>3. CASE StageRecovers
  BY <1>3 DEF StageRecovers, loopVars, toolVars
<1>4. CASE Boundary
  BY <1>4 DEF Boundary, StopOneShot, SpendRetry, RetryUnset, KeepDecision, toolVars
<1>5. CASE PreMain \/ PostResponse
  BY <1>5 DEF PreMain, PostResponse, Hook, toolVars
<1>6. CASE PreTool \/ Act \/ Decide
  BY <1>6 DEF PreTool, Act, Decide, loopVars, toolVars
<1>7. CASE Ingress \/ LeaveLoop \/ Context \/ Cancel \/ StageFails \/ MainCallFails
           \/ Finalize
  BY <1>7 DEF Ingress, LeaveLoop, Context, Cancel, StageFails, MainCallFails,
     Finalize, loopVars, toolVars
<1>8. CASE UNCHANGED vars
  BY <1>8 DEF vars, loopVars, toolVars
<1>9. QED
  BY <1>1, <1>2, <1>3, <1>4, <1>5, <1>6, <1>7, <1>8 DEF Next, Step

\* Every call is settled before the LLM is asked again.
LEMMA StepCall == IInv /\ [Next]_vars => CallInv'
<1> SUFFICES ASSUME TypeOK, StopInv, FreshInv, CallInv, [Next]_vars PROVE CallInv'
  BY DEF IInv
<1> USE DEF CallInv, SettledPlaces, Goto, Finish
<1>1. CASE Ingress \/ LeaveLoop \/ Context \/ Cancel \/ StageFails \/ MainCallFails
           \/ Finalize \/ EnterIteration
  BY <1>1 DEF Ingress, LeaveLoop, Context, Cancel, StageFails, MainCallFails,
     Finalize, EnterIteration, loopVars, toolVars
<1>2. CASE StageRecovers
  BY <1>2, PipelineAssumption DEF TypeOK, StageRecovers, Configurations, loopVars,
     toolVars
<1>3. CASE PreMain \/ PostResponse
  <2> UNCHANGED toolVars
    BY <1>3 DEF PreMain, PostResponse, Hook
  <2>1. CASE PreMain
    <3>1. pc = "pre_main" /\ pc' \in {"main_call", "boundary"} /\ (~blocked' => ~blocked)
      BY <2>1 DEF PreMain, Hook
    <3>2. QED
      BY <3>1 DEF toolVars
  <2>2. CASE PostResponse
    <3>1. /\ pc = "post_response"
          /\ \/ blocked' /\ pc' = "boundary"
             \/ pc' = IF pending = {} THEN "decide" ELSE "pre_tool"
      BY <2>2 DEF PostResponse, Hook
    <3>2. QED
      BY <3>1 DEF toolVars
  <2>3. QED
    BY <1>3, <2>1, <2>2
<1>4. CASE MainCall
  <2>1. PICK tools \in SUBSET Tools :
          LET calls == {iteration} \X tools IN
          /\ pending' = IF calls = {} THEN pending ELSE calls
          /\ asked' = asked \cup calls
    BY <1>4 DEF MainCall
  <2> DEFINE calls == {iteration} \X tools
  <2>2. ~blocked /\ pc = "main_call"
    BY <1>4 DEF MainCall, StopInv, LastPlaces
  <2>3. asked = answered /\ results = {} /\ pending = {}
    BY <2>2
  <2>4. calls \cap asked = {}
    BY <2>2 DEF FreshInv, TypeOK
  <2>5. pending' = calls /\ asked' = asked \cup calls
    BY <2>1, <2>3
  <2> HIDE DEF calls
  <2>6. QED
    BY <1>4, <2>2, <2>3, <2>4, <2>5 DEF MainCall
<1>5. CASE PreTool
  <2>1. PICK deny \in SUBSET pending :
          /\ denied' = denied \cup deny
          /\ IF deny = pending
               THEN Flush(results \cup deny) /\ Goto("decide")
               ELSE /\ results' = results \cup deny
                    /\ pending' = pending \ deny
                    /\ Goto("act")
                    /\ UNCHANGED answered
    BY <1>5 DEF PreTool
  <2>2. QED
    BY <1>5, <2>1 DEF PreTool, Flush, loopVars
<1>6. CASE Act
  BY <1>6 DEF Act, Flush, loopVars
<1>7. CASE Decide
  BY <1>7 DEF Decide, toolVars
<1>8. CASE Boundary
  <2>1. /\ pc = "boundary" /\ pc' \in {"loop", "finalize", "done"}
        /\ UNCHANGED toolVars /\ (~blocked' => ~blocked)
    BY <1>8 DEF Boundary, StopOneShot, SpendRetry, RetryUnset, KeepDecision
  <2>2. QED
    BY <2>1 DEF toolVars
<1>9. CASE UNCHANGED vars
  BY <1>9 DEF vars, loopVars, toolVars
<1>10. QED
  BY <1>1, <1>2, <1>3, <1>4, <1>5, <1>6, <1>7, <1>8, <1>9 DEF Next, Step

\* The count of retries stays within its limits.
LEMMA StepRetry == IInv /\ [Next]_vars => RetryInv'
<1> SUFFICES ASSUME TypeOK, StopInv, RetryInv, [Next]_vars PROVE RetryInv'
  BY DEF IInv
<1> config \in Configurations
  BY PipelineAssumption DEF TypeOK
<1> retryCount \in Nat /\ pc \in Places
  BY DEF TypeOK
<1> USE DEF RetryInv, RetryLimit, LastPlaces, Places, Running, Goto, Finish
<1>1. CASE Ingress \/ LeaveLoop \/ Context \/ Cancel \/ StageFails \/ MainCallFails
           \/ Finalize \/ MainCall \/ PreTool \/ Act
  BY <1>1 DEF Ingress, LeaveLoop, Context, Cancel, StageFails, MainCallFails,
     Finalize, MainCall, PreTool, Act, loopVars
<1>2. CASE StageRecovers
  BY <1>2 DEF StageRecovers, loopVars
<1>3. CASE EnterIteration
  BY <1>3 DEF EnterIteration, MayIterate
<1>4. CASE PreMain \/ PostResponse
  BY <1>4 DEF PreMain, PostResponse, Hook
<1>5. CASE Decide
  <2>1. /\ pc = "decide" /\ pc' = "boundary"
        /\ decision = "continue"
        /\ decision' = Verdict(score')
        /\ UNCHANGED <<config, retryCount>>
    BY <1>5 DEF Decide
  <2>2. decision' = "retry" => retryCount < RetryLimit
    BY <2>1 DEF Verdict
  <2>3. QED
    BY <2>1, <2>2
<1>6. CASE Boundary
  <2>1. PICK block \in MayBlock :
          LET d == IF block THEN "complete" ELSE decision IN
          StopOneShot(d) \/ SpendRetry(d) \/ RetryUnset(d) \/ KeepDecision(d)
    BY <1>6 DEF Boundary
  <2> DEFINE d == IF block THEN "complete" ELSE decision
  <2>2. pc = "boundary" /\ UNCHANGED config
    BY <1>6 DEF Boundary
  <2>3. CASE StopOneShot(d)
    BY <2>2, <2>3 DEF StopOneShot
  <2>4. CASE SpendRetry(d)
    BY <2>2, <2>4 DEF SpendRetry, Configurations, None
  <2>5. CASE RetryUnset(d)
    BY <2>2, <2>5 DEF RetryUnset, Configurations, None
  <2>6. CASE KeepDecision(d)
    BY <2>2, <2>6 DEF KeepDecision
  <2>7. QED
    BY <2>1, <2>3, <2>4, <2>5, <2>6
<1>7. CASE UNCHANGED vars
  BY <1>7 DEF vars, loopVars
<1>8. QED
  BY <1>1, <1>2, <1>3, <1>4, <1>5, <1>6, <1>7 DEF Next, Step

\* A verdict comes with the step that ends the run.
LEMMA StepVerdict == IInv /\ [Next]_vars => VerdictInv'
<1> SUFFICES ASSUME VerdictInv, [Next]_vars PROVE VerdictInv'
  BY DEF IInv
<1> USE DEF VerdictInv, Running, Goto, Finish
<1>1. CASE Boundary
  BY <1>1 DEF Boundary, StopOneShot, SpendRetry, RetryUnset, KeepDecision
<1>2. CASE PreMain \/ PostResponse
  BY <1>2 DEF PreMain, PostResponse, Hook
<1>3. CASE StageRecovers
  BY <1>3 DEF StageRecovers
<1>4. CASE UNCHANGED vars
  BY <1>4 DEF vars
<1>5. QED
  BY <1>1, <1>2, <1>3, <1>4 DEF Next, Step, Ingress, EnterIteration, LeaveLoop,
     Context, MainCall, PreTool, Act, Decide, Finalize, StageFails, MainCallFails,
     Cancel

\* IInv holds throughout a run.
THEOREM Inductive == Spec => []IInv
<1>1. IInv /\ [Next]_vars => IInv'
  BY StepType, StepStop, StepFresh, StepCall, StepRetry,
     StepVerdict DEF IInv
<1>2. QED
  BY <1>1, InitInv, PTL DEF Spec

\* No request goes to the LLM with a tool_use that has no tool_result.
THEOREM Answered == Spec => []AnsweredBeforeNextCall
<1>1. IInv => AnsweredBeforeNextCall
  BY DEF IInv, CallInv, SettledPlaces, AnsweredBeforeNextCall, BeforeMainCall
<1>2. QED
  BY <1>1, Inductive, PTL

\* A call denied by the gate never runs; what runs was asked for.
THEOREM Denied == Spec => []DeniedNeverRun
<1>1. IInv => DeniedNeverRun
  BY DEF IInv, CallInv, DeniedNeverRun
<1>2. QED
  BY <1>1, Inductive, PTL

\* Retries stay within the decide stage's limit and within config.max_retries.
THEOREM RetriesBounded == Spec => []RetryBound
<1>1. IInv => RetryBound
  BY DEF IInv, RetryInv, RetryBound, Running
<1>2. QED
  BY <1>1, Inductive, PTL

\* After a block, or a strict failure, the LLM is asked nothing more and no tool
\* runs.
THEOREM StopsForGood == Spec => NothingAfterStop
<1>1. IInv /\ [Next]_vars => [Stopped => asked' = asked /\ executed' = executed]_vars
  <2> SUFFICES ASSUME IInv, Next, Stopped
               PROVE  asked' = asked /\ executed' = executed
    BY DEF IInv
  <2>1. pc \in LastPlaces \cup {"decide"}
    BY DEF IInv, StopInv, Stopped
  <2>2. ~MainCall /\ ~PreTool /\ ~Act
    BY <2>1 DEF LastPlaces, MainCall, PreTool, Act
  <2>3. QED
    BY <2>2 DEF Next, Step, Ingress, EnterIteration, LeaveLoop, Context, PreMain,
       PostResponse, Hook, Decide, Boundary, Finalize, StageFails, MainCallFails,
       StageRecovers, Cancel, toolVars
<1>2. QED
  BY <1>1, Inductive, PTL DEF Spec, NothingAfterStop

-----------------------------------------------------------------------------
(* Refinement *)

\* A step of the run is a step of the tool exchange or leaves it alone.
LEMMA StepExchange ==
  IInv /\ [Next]_vars => [Exchange!Next]_(Exchange!exchangeVars)
<1> SUFFICES ASSUME TypeOK, StopInv, FreshInv, CallInv, [Next]_vars
             PROVE  [Exchange!Next]_(Exchange!exchangeVars)
  BY DEF IInv
<1> USE DEF Exchange!Next, Exchange!Ask, Exchange!Answer, Exchange!exchangeVars
<1>1. CASE MainCall
  <2>1. PICK tools \in SUBSET Tools : asked' = asked \cup ({iteration} \X tools)
    BY <1>1 DEF MainCall
  <2> DEFINE calls == {iteration} \X tools
  <2>2. asked = answered
    BY <1>1 DEF MainCall, CallInv, SettledPlaces, StopInv, LastPlaces
  <2>3. calls \cap asked = {}
    BY <1>1 DEF FreshInv, TypeOK, MainCall
  <2>4. calls \subseteq Calls
    BY DEF Calls, TypeOK
  <2>5. answered' = answered /\ asked' = asked \cup calls
    BY <1>1, <2>1 DEF MainCall
  <2> HIDE DEF calls
  <2>6. asked' \ answered' = calls /\ asked \ answered = {}
    BY <2>2, <2>3, <2>5
  <2>7. calls \subseteq Calls \ answered
    BY <2>2, <2>3, <2>4
  <2>8. QED
    BY <2>5, <2>6, <2>7
<1>2. CASE PreTool
  <2>1. PICK deny \in SUBSET pending :
          IF deny = pending
            THEN Flush(results \cup deny)
            ELSE UNCHANGED answered
    BY <1>2 DEF PreTool
  <2>2. asked = answered \cup pending /\ results = {} /\ pending # {}
        /\ pending \cap answered = {} /\ asked' = asked
    BY <1>2 DEF PreTool, CallInv
  <2>3. CASE deny = pending
    <3>1. answered' = answered \cup pending
      BY <2>1, <2>2, <2>3 DEF Flush
    <3>2. QED
      BY <2>2, <3>1
  <2>4. CASE deny # pending
    BY <2>1, <2>2, <2>4
  <2>5. QED
    BY <2>3, <2>4
<1>3. CASE Act
  <2>1. asked = answered \cup results \cup pending /\ pending # {}
        /\ answered \cap (results \cup pending) = {} /\ asked' = asked
    BY <1>3 DEF Act, CallInv
  <2>2. answered' = answered \cup results \cup pending
    BY <1>3 DEF Act, Flush
  <2>3. QED
    BY <2>1, <2>2
<1>4. CASE UNCHANGED <<asked, answered>>
  BY <1>4
<1>5. QED
  BY <1>1, <1>2, <1>3, <1>4 DEF Next, Step, Ingress, EnterIteration, LeaveLoop,
     Context, PreMain, PostResponse, Hook, Decide, Boundary, Finalize, StageFails,
     MainCallFails, StageRecovers, Cancel, toolVars, vars

\* Pipeline.run follows the tool protocol of the LLM API.
THEOREM RefinesExchange == Spec => ImplementsExchange
<1>1. Init => Exchange!Init
  BY DEF Init, Exchange!Init
<1>2. QED
  BY <1>1, StepExchange, Inductive, PTL DEF Spec, ImplementsExchange, Exchange!Spec

\* The bound on the turns is fixed with the configuration.
LEMMA LimitType == config \in Configs => EffectiveMaxIter \in Nat
BY PipelineAssumption DEF EffectiveMaxIter, Configurations

\* A step of the run is a step of its life cycle or leaves it alone.
LEMMA StepLifecycle ==
  IInv /\ [Next]_vars => [Lifecycle!Next]_(Lifecycle!lifeVars)
<1> SUFFICES ASSUME TypeOK, VerdictInv, [Next]_vars
             PROVE  [Lifecycle!Next]_(Lifecycle!lifeVars)
  BY DEF IInv
<1> config' = config
  BY DEF Next, Step, Ingress, EnterIteration, LeaveLoop, Context, PreMain, PostResponse,
     Hook, MainCall, PreTool, Act, Decide, Boundary, Finalize, StageFails,
     MainCallFails, StageRecovers, Cancel, vars
<1> EffectiveMaxIter' = EffectiveMaxIter
  BY DEF EffectiveMaxIter
<1> USE DEF Lifecycle!Next, Lifecycle!Ready, Lifecycle!Turn, Lifecycle!WrapUp,
    Lifecycle!End, Lifecycle!lifeVars, Goto, Finish
<1>1. CASE EnterIteration
  BY <1>1 DEF EnterIteration, MayIterate
<1>2. CASE Ingress \/ LeaveLoop
  BY <1>2 DEF Ingress, LeaveLoop, loopVars
<1>3. CASE Cancel
  BY <1>3 DEF Cancel, loopVars, VerdictInv, Running
<1>4. CASE StageFails \/ MainCallFails \/ Finalize
  BY <1>4 DEF StageFails, MainCallFails, Finalize, StagePlaces, loopVars, VerdictInv,
     Running
<1>5. CASE StageRecovers
  BY <1>5 DEF StageRecovers, loopVars, VerdictInv, Running
<1>6. CASE Context \/ MainCall \/ PreTool \/ Act \/ Decide
  BY <1>6 DEF Context, MainCall, PreTool, Act, Decide, loopVars
<1>7. CASE PreMain \/ PostResponse
  BY <1>7 DEF PreMain, PostResponse, Hook
<1>8. CASE Boundary
  BY <1>8 DEF Boundary, StopOneShot, SpendRetry, RetryUnset, KeepDecision, VerdictInv,
     Running
<1>9. CASE UNCHANGED vars
  BY <1>9 DEF vars, loopVars
<1>10. QED
  BY <1>1, <1>2, <1>3, <1>4, <1>5, <1>6, <1>7, <1>8, <1>9 DEF Next, Step

\* Every run ends with one verdict, which is success only after s09_finalize, and
\* takes no more turns than its configuration allows.
THEOREM RefinesLifecycle == Spec => ImplementsLifecycle
<1>1. Init => Lifecycle!Init
  BY LimitType DEF Init, Lifecycle!Init
<1>2. QED
  BY <1>1, StepLifecycle, Inductive, PTL DEF Spec, ImplementsLifecycle, Lifecycle!Spec
=============================================================================
