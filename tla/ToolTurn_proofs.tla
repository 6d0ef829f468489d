--------------------------- MODULE ToolTurn_proofs ---------------------------
(***************************************************************************)
(* Theorems about module ToolTurn, for every set of tools, arguments and   *)
(* setups and any number of turns and calls.                               *)
(***************************************************************************)
EXTENDS ToolTurn, FiniteSetTheorems, TLAPS

\* A call is at the gate while it is checked and while a human is asked.
AtGate == pc \in {"gate", "approval"}

\* Where the control is: a request for approval belongs to the call and the
\* guard the gate is at; s07_act only runs pending calls.
WhereInv ==
  /\ pc = "approval" => at \in DOMAIN pending /\ guardAt <= Len(setup.chain) /\ NeedsApproval
  /\ todo \cup active \subseteq DOMAIN pending
  /\ pc # "act" => todo = {} /\ active = {}
  /\ AtGate => \E n \in 1..MaxBatch : DOMAIN pending = 1..n

-----------------------------------------------------------------------------
(* What a step at the gate may do: pass, perhaps with other arguments, or block. *)

Edit(args) == pending' = [pending EXCEPT ![at].args = args]

GatePass ==
  /\ AtGate /\ pc' \in {"gate", "approval"}
  /\ pending' = pending \/ \E args \in Args : Edit(args)
  /\ UNCHANGED <<results, denied>>

GateBlock ==
  /\ AtGate /\ pc' = "gate" /\ at \in DOMAIN pending
  /\ BlockCall
  /\ UNCHANGED pending

GateStep ==
  /\ GatePass \/ GateBlock
  /\ UNCHANGED <<setup, turn, actVars, asked, answered>>

\* An answer that approves brings arguments.
LEMMA AnswerTypes ==
  /\ Deny \in Answers
  /\ NoAnswer \notin Answers
  /\ \A answer \in Answers : answer.decision = "approve" =>
        /\ answer.args \in Args
        /\ answer = [decision |-> "approve", args |-> answer.args]
BY DEF Answers, Deny, NoAnswer

\* Guards, waiting and time-outs are steps of these two kinds.
LEMMA GateSteps ==
  ASSUME TypeOK, WhereInv,
         \/ CheckGuard \/ PassCall \/ RequestApproval \/ Wake \/ TimeOut
         \/ \E answer \in Answers : Resolve(answer)
  PROVE  GateStep
<1> USE DEF GateStep, GatePass, AtGate
<1>1. CASE CheckGuard
  BY <1>1 DEF CheckGuard, Checking, GateBlock, PassGuard
<1>2. CASE PassCall
  BY <1>2 DEF PassCall, Checking
<1>3. CASE RequestApproval
  BY <1>3 DEF RequestApproval, Checking
<1>4. CASE Wake
  <2>1. pc = "approval" /\ at \in DOMAIN pending /\ future \in Answers
    BY <1>4 DEF Wake, WhereInv, TypeOK
  <2>2. CASE future.decision = "approve"
    BY <1>4, <2>1, <2>2, AnswerTypes DEF Wake, Edit, PassGuard
  <2>3. CASE future.decision # "approve"
    BY <1>4, <2>1, <2>3 DEF Wake, GateBlock
  <2>4. QED
    BY <2>2, <2>3
<1>5. CASE TimeOut
  BY <1>5 DEF TimeOut, GateBlock, WhereInv
<1>6. CASE \E answer \in Answers : Resolve(answer)
  BY <1>6 DEF Resolve
<1>7. QED
  BY <1>1, <1>2, <1>3, <1>4, <1>5, <1>6

-----------------------------------------------------------------------------
(* Types *)

\* What is known of a batch.
LEMMA BatchFacts ==
  /\ <<>> \in Batches
  /\ \A held \in SUBSET Positions : [held -> Calls] \subseteq Batches
  /\ \A batch \in Batches :
       /\ DOMAIN batch \subseteq Positions
       /\ batch \in [DOMAIN batch -> Calls]
       /\ \A i \in DOMAIN batch : batch[i] \in Calls
<1>1. <<>> \in [{} -> Calls]
  OBVIOUS
<1>2. \A held \in SUBSET Positions : [held -> Calls] \subseteq Batches
  BY DEF Batches
<1>3. ASSUME NEW batch \in Batches
      PROVE  DOMAIN batch \subseteq Positions /\ batch \in [DOMAIN batch -> Calls]
  <2>1. PICK held \in SUBSET Positions : batch \in [held -> Calls]
    BY DEF Batches
  <2>2. QED
    BY <2>1
<1>4. QED
  BY <1>1, <1>2, <1>3

\* A batch stays one when a call's arguments change or calls are left out.
LEMMA BatchSteps ==
  ASSUME NEW batch \in Batches
  PROVE  /\ \A i \in DOMAIN batch, args \in Args : [batch EXCEPT ![i].args = args] \in Batches
         /\ \A held \in SUBSET DOMAIN batch : [i \in held |-> batch[i]] \in Batches
<1>1. /\ DOMAIN batch \subseteq Positions /\ batch \in [DOMAIN batch -> Calls]
      /\ [DOMAIN batch -> Calls] \subseteq Batches
  BY BatchFacts
<1>2. ASSUME NEW i \in DOMAIN batch, NEW args \in Args
      PROVE  [batch EXCEPT ![i].args = args] \in Batches
  <2>1. [batch[i] EXCEPT !.args = args] \in Calls
    BY <1>1 DEF Calls
  <2>2. [batch EXCEPT ![i].args = args] \in [DOMAIN batch -> Calls]
    BY <1>1, <2>1
  <2>3. QED
    BY <1>1, <2>2
<1>3. ASSUME NEW held \in SUBSET DOMAIN batch
      PROVE  [i \in held |-> batch[i]] \in Batches
  <2>1. [i \in held |-> batch[i]] \in [held -> Calls] /\ held \in SUBSET Positions
    BY <1>1
  <2>2. QED
    BY <2>1, BatchFacts
<1>4. QED
  BY <1>2, <1>3

\* The variables that only the gate changes.
GateTypes ==
  /\ at \in 1..(MaxBatch + 1) /\ guardAt \in Nat \ {0}
  /\ future \in Answers \cup {NoAnswer} /\ heard \in BOOLEAN
  /\ firstAnswer \in [Ids -> Answers \cup {NoAnswer}]

\* The gate keeps its own variables well typed.
LEMMA StepGateTypes ==
  ASSUME TypeOK, WhereInv,
         \/ CheckGuard \/ PassCall \/ RequestApproval \/ Wake \/ TimeOut
         \/ \E answer \in Answers : Resolve(answer)
  PROVE  GateTypes'
<1> USE ToolTurnAssumption
<1>1. GateTypes /\ MaxBatch \in Nat
  BY DEF TypeOK, GateTypes
<1>2. at \in DOMAIN pending => at + 1 \in 1..(MaxBatch + 1) /\ pending[at].id \in Ids
  BY <1>1, BatchFacts DEF TypeOK, Positions, Calls, GateTypes
<1>3. guardAt + 1 \in Nat \ {0} /\ 1 \in Nat \ {0}
  BY <1>1 DEF GateTypes
<1>4. heard' \in BOOLEAN
  BY <1>1, Zenon DEF CheckGuard, PassCall, RequestApproval, Wake, TimeOut, Resolve, GateTypes
<1>5. CASE CheckGuard
  BY <1>1, <1>2, <1>3, <1>4, <1>5 DEF CheckGuard, Checking, BlockCall, PassGuard, GateTypes
<1>6. CASE PassCall
  BY <1>1, <1>2, <1>3, <1>4, <1>6 DEF PassCall, Checking, GateTypes
<1>7. CASE RequestApproval
  BY <1>1, <1>2, <1>3, <1>4, <1>7 DEF RequestApproval, Checking, GateTypes
<1>8. CASE Wake
  BY <1>1, <1>2, <1>3, <1>4, <1>8 DEF Wake, BlockCall, PassGuard, GateTypes, WhereInv
<1>9. CASE TimeOut
  BY <1>1, <1>2, <1>3, <1>4, <1>9 DEF TimeOut, BlockCall, GateTypes, WhereInv
<1>10. ASSUME NEW answer \in Answers, Resolve(answer) PROVE GateTypes'
  BY <1>1, <1>2, <1>3, <1>4, <1>10 DEF Resolve, GateTypes, WhereInv
<1>11. QED
  BY <1>5, <1>6, <1>7, <1>8, <1>9, <1>10

\* The variables that the gate shares with s07_act.
BatchTypes ==
  /\ setup \in Setups /\ turn \in 0..MaxTurns
  /\ pending \in Batches
  /\ results \subseteq [id : Ids, ok : BOOLEAN]
  /\ todo \subseteq Positions /\ active \subseteq Positions
  /\ asked \subseteq Calls /\ answered \subseteq Ids /\ denied \subseteq Ids

\* The variables that only s07_act changes.
ActTypes ==
  /\ total \in Nat /\ sent \in Nat
  /\ streak \in [Names -> Nat]
  /\ history \in Seq(Calls)
  /\ completed \in Seq([tool : Names, ok : BOOLEAN, guided : BOOLEAN])

\* The three groups and the program counter are all there is.
LEMMA TypeParts ==
  /\ TypeOK <=> /\ pc \in {"ask", "gate", "approval", "act", "stopped"}
                /\ GateTypes /\ BatchTypes /\ ActTypes
  /\ TypeOK' <=> /\ pc' \in {"ask", "gate", "approval", "act", "stopped"}
                 /\ GateTypes' /\ BatchTypes' /\ ActTypes'
BY Zenon DEF TypeOK, GateTypes, BatchTypes, ActTypes

\* A gate step keeps the shared variables well typed.
LEMMA StepGateBatch ==
  ASSUME TypeOK, WhereInv, GateStep
  PROVE  BatchTypes' /\ ActTypes' /\ pc' \in {"gate", "approval"}
<1>1. BatchTypes /\ ActTypes
  BY TypeParts
<1>2. ActTypes' /\ UNCHANGED <<setup, turn, todo, active, asked, answered>>
  BY <1>1 DEF GateStep, ActTypes, actVars
<1>3. CASE GatePass
  <2>1. pending' \in Batches
    <3>1. CASE pending' = pending
      BY <1>1, <3>1 DEF BatchTypes
    <3>2. ASSUME NEW args \in Args, Edit(args) PROVE pending' \in Batches
      <4>1. CASE at \in DOMAIN pending
        BY <1>1, <3>2, <4>1, BatchSteps DEF Edit, BatchTypes
      <4>2. CASE at \notin DOMAIN pending
        BY <1>1, <3>2, <4>2, BatchFacts DEF Edit, BatchTypes
      <4>3. QED
        BY <4>1, <4>2
    <3>3. QED
      BY <1>3, <3>1, <3>2 DEF GatePass
  <2>2. QED
    BY <1>1, <1>2, <1>3, <2>1 DEF GatePass, BatchTypes
<1>4. CASE GateBlock
  <2>1. pending[at].id \in Ids
    BY <1>1, <1>4, BatchFacts DEF GateBlock, BatchTypes, Calls
  <2>2. [id |-> pending[at].id, ok |-> FALSE] \in [id : Ids, ok : BOOLEAN]
    BY <2>1
  <2>3. results' \subseteq [id : Ids, ok : BOOLEAN]
    BY <1>1, <1>4, <2>2 DEF GateBlock, BlockCall, BatchTypes
  <2>4. denied' \subseteq Ids /\ pending' \in Batches /\ pc' = "gate"
    BY <1>1, <1>4, <2>1 DEF GateBlock, BlockCall, BatchTypes
  <2>5. QED
    BY <1>1, <1>2, <2>3, <2>4 DEF BatchTypes
<1>5. QED
  BY <1>3, <1>4 DEF GateStep

\* The initial values have their types.
LEMMA InitType == Init => TypeOK /\ WhereInv
<1> SUFFICES ASSUME Init PROVE TypeOK /\ WhereInv
  OBVIOUS
<1> USE ToolTurnAssumption DEF Init
<1>1. heard \in BOOLEAN
  BY Zenon
<1>2. GateTypes
  BY <1>1 DEF GateTypes
<1>3. BatchTypes /\ ActTypes
  BY BatchFacts DEF BatchTypes, ActTypes
<1>4. TypeOK
  BY <1>2, <1>3, TypeParts
<1>5. WhereInv
  BY DEF WhereInv, AtGate
<1>6. QED
  BY <1>4, <1>5

\* A call that ends has an id, a tool and a place among the pending ones.
LEMMA EndFacts ==
  ASSUME TypeOK, WhereInv, NEW i, NEW ok \in BOOLEAN, NEW guided \in BOOLEAN,
         End(i, ok, guided)
  PROVE  /\ i \in DOMAIN pending /\ pending[i] \in Calls
         /\ BatchTypes' /\ GateTypes'
         /\ completed' \in Seq([tool : Names, ok : BOOLEAN, guided : BOOLEAN])
         /\ history' \in Seq(Calls)
<1>1. GateTypes /\ BatchTypes /\ ActTypes
  BY TypeParts
<1>2. i \in DOMAIN pending /\ pending[i] \in Calls
  BY <1>1, BatchFacts DEF End, WhereInv, BatchTypes
<1>3. pending[i].id \in Ids /\ pending[i].tool \in Names
  BY <1>2 DEF Calls
<1>4. [id |-> pending[i].id, ok |-> ok] \in [id : Ids, ok : BOOLEAN]
  BY <1>3
<1>5. [tool |-> pending[i].tool, ok |-> ok, guided |-> guided]
        \in [tool : Names, ok : BOOLEAN, guided : BOOLEAN]
  BY <1>3
<1>6. results' \subseteq [id : Ids, ok : BOOLEAN] /\ active' \subseteq Positions
  BY <1>1, <1>4 DEF End, BatchTypes
<1>7. BatchTypes'
  BY <1>1, <1>6 DEF End, BatchTypes
<1>8. GateTypes'
  BY <1>1 DEF End, GateTypes, gateVars
<1>9. completed' \in Seq([tool : Names, ok : BOOLEAN, guided : BOOLEAN])
  <2>1. completed' = Append(completed, [tool |-> pending[i].tool, ok |-> ok, guided |-> guided])
    BY DEF End
  <2>2. QED
    BY <1>1, <1>5, <2>1 DEF ActTypes
<1>10. history' \in Seq(Calls)
  BY <1>1 DEF End, ActTypes
<1>11. QED
  BY <1>2, <1>7, <1>8, <1>9, <1>10

\* Every step keeps the types.
LEMMA StepType == TypeOK /\ WhereInv /\ [Next]_vars => TypeOK'
<1> SUFFICES ASSUME TypeOK, WhereInv, [Next]_vars PROVE TypeOK'
  OBVIOUS
<1> USE ToolTurnAssumption
<1>0. GateTypes /\ BatchTypes /\ ActTypes /\ pc \in {"ask", "gate", "approval", "act", "stopped"}
  BY TypeParts
<1>1. CASE \/ CheckGuard \/ PassCall \/ RequestApproval \/ Wake \/ TimeOut
           \/ \E answer \in Answers : Resolve(answer)
  BY <1>1, GateSteps, StepGateTypes, StepGateBatch, TypeParts
<1>2. CASE Ask
  <2>0. PICK n \in 1..MaxBatch : \E batch \in [1..n -> Names \X Args] :
          pending' = [i \in 1..n |->
            [id |-> <<turn + 1, i>>, tool |-> batch[i][1], args |-> batch[i][2]]]
    BY <1>2 DEF Ask
  <2>1. PICK batch \in [1..n -> Names \X Args] :
          pending' = [i \in 1..n |->
            [id |-> <<turn + 1, i>>, tool |-> batch[i][1], args |-> batch[i][2]]]
    BY <2>0
  <2>2. turn + 1 \in 1..MaxTurns /\ n \in Nat /\ MaxBatch \in Nat
    BY <1>0, <1>2 DEF Ask, BatchTypes
  <2>3. ASSUME NEW i \in 1..n
        PROVE  [id |-> <<turn + 1, i>>, tool |-> batch[i][1], args |-> batch[i][2]] \in Calls
    BY <2>2 DEF Calls, Ids, Positions
  <2>4. pending' \in [1..n -> Calls] /\ (1..n) \in SUBSET Positions
    BY <2>1, <2>2, <2>3 DEF Positions
  <2>5. pending' \in Batches
    BY <2>4, BatchFacts
  <2>6. {pending'[i] : i \in DOMAIN pending'} \subseteq Calls
    BY <2>4
  <2>7. BatchTypes'
    BY <1>0, <1>2, <2>2, <2>5, <2>6 DEF Ask, BatchTypes, actVars
  <2>8. GateTypes' /\ ActTypes' /\ pc' = "gate"
    BY <1>0, <1>2 DEF Ask, GateTypes, ActTypes, gateVars, actVars
  <2>9. QED
    BY <2>7, <2>8, TypeParts
<1>3. CASE GateEnd
  <2>1. Left \subseteq DOMAIN pending /\ Left \subseteq Positions
    BY <1>0, BatchFacts DEF Left, BatchTypes
  <2>2. [i \in Left |-> pending[i]] \in Batches /\ <<>> \in Batches
    BY <1>0, <2>1, BatchFacts, BatchSteps DEF BatchTypes
  <2>3. pending' \in Batches /\ todo' \subseteq Positions
    BY <1>3, <2>1, <2>2 DEF GateEnd, FlushResults, Keep
  <2>4. {r.id : r \in results} \subseteq Ids
    BY <1>0 DEF BatchTypes
  <2>5. answered' \subseteq Ids /\ results' \subseteq [id : Ids, ok : BOOLEAN]
    BY <1>0, <1>3, <2>4 DEF GateEnd, FlushResults, BatchTypes
  <2>6. BatchTypes' /\ ActTypes' /\ pc' \in {"ask", "act"}
    BY <1>0, <1>3, <2>3, <2>5 DEF GateEnd, BatchTypes, ActTypes
  <2>7. GateTypes'
    <3>1. 1 \in 1..(MaxBatch + 1)
      OBVIOUS
    <3>2. QED
      BY <1>0, <1>3, <3>1 DEF GateEnd, GateTypes
  <2>8. QED
    BY <2>6, <2>7, TypeParts
<1>4. CASE StartCall
  <2>1. PICK i \in todo : /\ history' = Append(history, pending[i])
                          /\ active' = active \cup {i} /\ todo' = todo \ {i}
    BY <1>4 DEF StartCall
  <2>2. pending[i] \in Calls /\ i \in Positions
    BY <1>0, <2>1, BatchFacts DEF WhereInv, BatchTypes
  <2>3. history' \in Seq(Calls)
    BY <1>0, <2>1, <2>2 DEF ActTypes
  <2>4. BatchTypes'
    BY <1>0, <1>4, <2>1, <2>2 DEF StartCall, BatchTypes
  <2>5. ActTypes' /\ GateTypes' /\ pc' = pc
    BY <1>0, <1>4, <2>3 DEF StartCall, ActTypes, GateTypes, gateVars
  <2>6. QED
    BY <1>0, <2>4, <2>5, TypeParts
<1>5. ASSUME NEW i \in Positions, Succeed(i) PROVE TypeOK'
  <2>1. /\ BatchTypes' /\ GateTypes' /\ pending[i] \in Calls
        /\ completed' \in Seq([tool : Names, ok : BOOLEAN, guided : BOOLEAN])
        /\ history' \in Seq(Calls)
    BY <1>5, EndFacts DEF Succeed
  <2>2. streak' \in [Names -> Nat]
    BY <1>0, <1>5, <2>1 DEF Succeed, ActTypes, Calls
  <2>3. setup.budget \in Nat /\ CurrentChars(pending[i]) \in Nat
    BY <1>0 DEF BatchTypes, ActTypes, SetupType, CurrentChars
  <2>4. total' \in Nat /\ sent' \in Nat
    <3> DEFINE used == CurrentChars(pending[i])
               left == IF used >= setup.budget THEN 0 ELSE setup.budget - used
    <3>1. PICK size \in Sizes :
            LET fits == used + size <= setup.budget
            IN /\ sent' = sent + (IF fits THEN size ELSE left)
               /\ total' = total + (IF fits THEN size ELSE left + Mark)
      BY <1>5 DEF Succeed
    <3>2. left \in Nat /\ size \in Nat /\ total \in Nat /\ sent \in Nat
      BY <1>0, <2>3, ToolTurnAssumption DEF ActTypes
    <3> HIDE DEF used, left
    <3>3. QED
      BY <3>1, <3>2 DEF Mark
  <2>5. pc' = pc
    BY <1>5 DEF Succeed, End
  <2>6. QED
    BY <1>0, <2>1, <2>2, <2>4, <2>5, TypeParts DEF ActTypes
<1>6. ASSUME NEW i \in Positions, Fail(i) PROVE TypeOK'
  <2>1. (streak[pending[i].tool] + 1 >= setup.failureLimit) \in BOOLEAN
    <3>1. pending[i] \in Calls
      BY <1>0, <1>6, BatchFacts DEF Fail, End, WhereInv, BatchTypes
    <3>2. streak[pending[i].tool] + 1 \in Int /\ setup.failureLimit \in Int
      BY <1>0, <3>1 DEF ActTypes, BatchTypes, Calls, SetupType
    <3>3. QED
      BY <3>2
  <2>2. /\ BatchTypes' /\ GateTypes' /\ pending[i] \in Calls
        /\ completed' \in Seq([tool : Names, ok : BOOLEAN, guided : BOOLEAN])
        /\ history' \in Seq(Calls)
    BY <1>6, <2>1, EndFacts DEF Fail
  <2>3. streak' \in [Names -> Nat]
    BY <1>0, <1>6, <2>2 DEF Fail, ActTypes, Calls
  <2>4. UNCHANGED <<pc, total, sent>>
    BY <1>6 DEF Fail, End
  <2>5. QED
    BY <1>0, <2>2, <2>3, <2>4, TypeParts DEF ActTypes
<1>7. CASE ActEnd
  <2>1. {r.id : r \in results} \subseteq Ids
    BY <1>0 DEF BatchTypes
  <2>2. BatchTypes'
    BY <1>0, <1>7, <2>1, BatchFacts DEF ActEnd, FlushResults, BatchTypes
  <2>3. ActTypes' /\ GateTypes' /\ pc' \in {"ask", "stopped"}
    BY <1>0, <1>7 DEF ActEnd, ActTypes, GateTypes, gateVars
  <2>4. QED
    BY <2>2, <2>3, TypeParts
<1>8. CASE UNCHANGED vars
  BY <1>8 DEF TypeOK, vars, gateVars, actVars
<1>9. QED
  BY <1>1, <1>2, <1>3, <1>4, <1>5, <1>6, <1>7, <1>8 DEF Next, Finish

\* Every step leaves the control where the invariant says.
LEMMA StepWhere == TypeOK /\ WhereInv /\ [Next]_vars => WhereInv'
<1> SUFFICES ASSUME TypeOK, WhereInv, [Next]_vars PROVE WhereInv'
  OBVIOUS
<1> USE ToolTurnAssumption DEF AtGate
<1>1. CASE \/ CheckGuard \/ PassCall \/ RequestApproval \/ Wake \/ TimeOut
           \/ \E answer \in Answers : Resolve(answer)
  <2>1. /\ DOMAIN pending' = DOMAIN pending /\ AtGate /\ AtGate'
        /\ UNCHANGED <<setup, todo, active>>
    BY <1>1, GateSteps, BatchFacts DEF GateStep, GatePass, GateBlock, BlockCall, Edit,
       actVars, TypeOK
  <2>2. pc' = "approval" => RequestApproval \/ \E answer \in Answers : Resolve(answer)
    BY <1>1 DEF CheckGuard, Checking, PassCall, Wake, TimeOut
  <2>3. pc' = "approval" =>
          at' \in DOMAIN pending' /\ guardAt' <= Len(setup'.chain) /\ NeedsApproval'
    BY <2>2 DEF RequestApproval, Checking, Resolve, WhereInv, NeedsApproval, Guard
  <2>4. QED
    BY <2>1, <2>3 DEF WhereInv
<1>2. CASE Ask
  BY <1>2 DEF Ask, WhereInv, actVars
<1>3. CASE GateEnd
  BY <1>3 DEF GateEnd, WhereInv, Checked, Left, Keep, FlushResults
<1>4. CASE StartCall
  BY <1>4 DEF StartCall, WhereInv
<1>5. ASSUME NEW i \in Positions, Succeed(i) \/ Fail(i) PROVE WhereInv'
  BY <1>5 DEF Succeed, Fail, End, WhereInv
<1>6. CASE ActEnd
  BY <1>6 DEF ActEnd, FlushResults, WhereInv
<1>7. CASE UNCHANGED vars
  BY <1>7 DEF WhereInv, vars, gateVars, actVars, NeedsApproval, Guard
<1>8. QED
  BY <1>1, <1>2, <1>3, <1>4, <1>5, <1>6, <1>7 DEF Next, Finish

\* Every variable keeps its type.
THEOREM TypeCorrect == Spec => []TypeOK
BY InitType, StepType, StepWhere, PTL DEF Spec

-----------------------------------------------------------------------------
(* The messages.  A call is answered, has a result, or is the gate's or s07's to
   deal with; the calls of this turn are told from all earlier ones by their id. *)

AskedIds  == {c.id : c \in asked}
ResultIds == {r.id : r \in results}

NumberInv ==
  /\ \A i \in DOMAIN pending : /\ pending[i].id = <<turn, i>>
                               /\ \E c \in asked : /\ c.id = pending[i].id
                                                   /\ c.tool = pending[i].tool
  /\ \A id \in AskedIds \cup denied : id[1] <= turn
  /\ ResultIds \cup answered \subseteq AskedIds
  /\ \A id \in ResultIds : id[1] = turn

OpenInv ==
  /\ pc \in {"ask", "stopped"} => AskedIds = answered /\ results = {}
  /\ pc \notin {"ask", "stopped"} => /\ \A id \in answered : id[1] < turn
                                     /\ \E id \in AskedIds : id[1] = turn
  /\ AtGate => /\ \A id \in AskedIds \ answered :
                    id[2] \in DOMAIN pending /\ id = pending[id[2]].id
               /\ \A i \in DOMAIN pending : pending[i].id \in denied => pending[i].id \in ResultIds
  /\ pc = "act" => \A id \in AskedIds \ answered :
                     \/ id[2] \in todo \cup active /\ id = pending[id[2]].id
                     \/ id \in ResultIds

RanInv ==
  /\ \A h \in DOMAIN history :
       /\ history[h].id \notin denied
       /\ history[h].id[1] <= turn
       /\ \E c \in asked : c.id = history[h].id /\ c.tool = history[h].tool
       /\ AtGate => history[h].id[1] < turn
       /\ \A i \in todo : history[h].id # pending[i].id
  /\ \A h, k \in DOMAIN history : history[h].id = history[k].id => h = k
  /\ \A i \in todo : pending[i].id \notin denied

MessageInv == TypeOK /\ WhereInv /\ NumberInv /\ OpenInv /\ RanInv

\* A step at the gate keeps the ids and tools of the pending calls.
LEMMA GateKeeps ==
  ASSUME TypeOK, GateStep
  PROVE  /\ DOMAIN pending' = DOMAIN pending
         /\ \A i \in DOMAIN pending : /\ pending'[i].id = pending[i].id
                                      /\ pending'[i].tool = pending[i].tool
<1>1. pending \in Batches
  BY TypeParts DEF BatchTypes
<1>2. \A i \in DOMAIN pending : pending[i] \in Calls
  BY <1>1, BatchFacts
<1>3. pending \in [DOMAIN pending -> Calls]
  BY <1>1, BatchFacts
<1>4. CASE UNCHANGED pending
  BY <1>4
<1>5. ASSUME NEW args \in Args, Edit(args)
      PROVE  /\ DOMAIN pending' = DOMAIN pending
             /\ \A i \in DOMAIN pending : /\ pending'[i].id = pending[i].id
                                          /\ pending'[i].tool = pending[i].tool
  BY <1>2, <1>3, <1>5 DEF Edit, Calls
<1>6. QED
  BY <1>4, <1>5 DEF GateStep, GatePass, GateBlock

\* Numbers are numbers.
LEMMA IdFacts ==
  ASSUME TypeOK
  PROVE  /\ turn \in Int
         /\ AskedIds \subseteq Ids /\ ResultIds \subseteq Ids
         /\ \A id \in Ids : id[1] \in Int /\ id[2] \in Positions /\ id = <<id[1], id[2]>>
BY ToolTurnAssumption, TypeParts DEF BatchTypes, AskedIds, ResultIds, Calls, Ids, Positions

\* A result adds its id.
LEMMA AddResult ==
  ASSUME NEW id, NEW ok, results' = results \cup {[id |-> id, ok |-> ok]}
  PROVE  ResultIds' = ResultIds \cup {id}
<1> DEFINE res == [id |-> id, ok |-> ok]
<1>1. res.id = id
  OBVIOUS
<1>2. results' = results \cup {res}
  OBVIOUS
<1> HIDE DEF res
<1>3. \A x : x \in ResultIds' <=> x \in ResultIds \/ x = id
  BY <1>1, <1>2 DEF ResultIds
<1>4. QED
  BY <1>3

\* At first nothing is asked.
LEMMA InitMessage == Init => MessageInv
<1> SUFFICES ASSUME Init PROVE MessageInv
  OBVIOUS
<1>1. NumberInv /\ OpenInv /\ RanInv
  BY DEF Init, NumberInv, OpenInv, RanInv, AskedIds, ResultIds, AtGate
<1>2. QED
  BY <1>1, InitType DEF MessageInv

\* Blocking a call answers it with an error; passing it changes no message.
LEMMA GateMessage ==
  ASSUME MessageInv, GateStep, WhereInv'
  PROVE  NumberInv' /\ OpenInv' /\ RanInv'
<1> USE DEF MessageInv
<1>1. /\ DOMAIN pending' = DOMAIN pending
      /\ \A i \in DOMAIN pending : /\ pending'[i].id = pending[i].id
                                   /\ pending'[i].tool = pending[i].tool
      /\ UNCHANGED <<turn, asked, answered, history, todo>>
      /\ AtGate /\ AtGate' /\ pc' \notin {"ask", "stopped", "act"} /\ todo = {}
      /\ pc \notin {"ask", "stopped"}
      /\ AskedIds' = AskedIds
  BY GateKeeps DEF GateStep, GatePass, GateBlock, actVars, AtGate, WhereInv, AskedIds
<1>2. CASE GatePass
  <2>1. UNCHANGED <<denied, results>> /\ ResultIds' = ResultIds
    BY <1>2 DEF GatePass, ResultIds
  <2>2. NumberInv'
    BY <1>1, <2>1 DEF NumberInv
  <2>3. OpenInv'
    BY <1>1, <2>1 DEF OpenInv
  <2>4. RanInv'
    BY <1>1, <2>1 DEF RanInv
  <2>5. QED
    BY <2>2, <2>3, <2>4
<1>3. CASE GateBlock
  <2>1. /\ at \in DOMAIN pending /\ denied' = denied \cup {pending[at].id}
        /\ ResultIds' = ResultIds \cup {pending[at].id}
    BY <1>3, AddResult DEF GateBlock, BlockCall
  <2>2. pending[at].id = <<turn, at>> /\ pending[at].id \in AskedIds /\ turn \in Int
    BY <2>1, IdFacts DEF NumberInv, AskedIds
  <2>3. NumberInv'
    BY <1>1, <2>1, <2>2 DEF NumberInv
  <2>4. OpenInv'
    BY <1>1, <2>1, <2>2 DEF OpenInv
  <2>5. \A h \in DOMAIN history : history[h].id # pending[at].id
    <3>1. pending[at].id[1] = turn
      BY <2>2
    <3>2. \A h \in DOMAIN history : history[h].id[1] < turn
      BY <1>1 DEF RanInv
    <3>3. QED
      BY <2>2, <3>1, <3>2
  <2>6. RanInv'
    BY <1>1, <2>1, <2>5 DEF RanInv
  <2>7. QED
    BY <2>3, <2>4, <2>6
<1>4. QED
  BY <1>2, <1>3 DEF GateStep

\* What Ask adds: at least one call, numbered by turn and position.
LEMMA AskAdds ==
  ASSUME TypeOK, Ask
  PROVE  /\ turn \in Int /\ turn' = turn + 1
         /\ \E n \in 1..MaxBatch : DOMAIN pending' = 1..n
         /\ \A i \in DOMAIN pending' : pending'[i].id = <<turn', i>>
         /\ asked' = asked \cup {pending'[i] : i \in DOMAIN pending'}
         /\ UNCHANGED <<results, answered, denied, history, todo>> /\ pc' = "gate"
<1>1. PICK n \in 1..MaxBatch : \E batch \in [1..n -> Names \X Args] :
        pending' = [i \in 1..n |->
          [id |-> <<turn + 1, i>>, tool |-> batch[i][1], args |-> batch[i][2]]]
  BY DEF Ask
<1>2. PICK batch \in [1..n -> Names \X Args] :
        pending' = [i \in 1..n |->
          [id |-> <<turn + 1, i>>, tool |-> batch[i][1], args |-> batch[i][2]]]
  BY <1>1
<1>3. turn \in Int /\ turn' = turn + 1
  BY IdFacts DEF Ask
<1>4. DOMAIN pending' = 1..n
  BY <1>2
<1>5. \A i \in 1..n : pending'[i].id = <<turn', i>>
  BY <1>2, <1>3
<1>6. QED
  BY <1>3, <1>4, <1>5 DEF Ask, actVars

\* Asking: all earlier calls are answered, and the new ones differ from them.
LEMMA AskMessage == MessageInv /\ TypeOK' /\ Ask => NumberInv' /\ OpenInv' /\ RanInv'
<1> SUFFICES ASSUME MessageInv, TypeOK', Ask PROVE NumberInv' /\ OpenInv' /\ RanInv'
  OBVIOUS
<1> USE ToolTurnAssumption DEF MessageInv
<1>1. /\ turn \in Int /\ turn' = turn + 1
      /\ \A i \in DOMAIN pending' : pending'[i].id = <<turn', i>>
      /\ asked' = asked \cup {pending'[i] : i \in DOMAIN pending'}
      /\ UNCHANGED <<results, answered, denied, history, todo>> /\ pc' = "gate"
  BY AskAdds
<1>2. pc = "ask" /\ AskedIds = answered /\ results = {} /\ todo = {}
  BY DEF Ask, OpenInv, WhereInv
<1>3. 1 \in DOMAIN pending'
  BY AskAdds
<1>4. ResultIds = {} /\ ResultIds' = {}
  BY <1>1, <1>2 DEF ResultIds
<1>5. \A id : id \in AskedIds' <=>
        id \in AskedIds \/ \E i \in DOMAIN pending' : id = <<turn', i>>
  BY <1>1 DEF AskedIds
<1>6. \A id \in AskedIds \cup denied : id \in Ids /\ id[1] \in Int /\ id[1] <= turn /\ id[1] < turn'
  BY <1>1, IdFacts, TypeParts DEF NumberInv, BatchTypes
<1>7. NumberInv'
  <2>1. \A i \in DOMAIN pending' : \E c \in asked' : c.id = pending'[i].id /\ c.tool = pending'[i].tool
    BY <1>1
  <2>2. \A id \in AskedIds' \cup denied' : id[1] <= turn'
    BY <1>1, <1>5, <1>6
  <2>3. ResultIds' \cup answered' \subseteq AskedIds'
    BY <1>1, <1>2, <1>4, <1>5
  <2>4. QED
    BY <1>1, <1>4, <2>1, <2>2, <2>3 DEF NumberInv
<1>8. OpenInv'
  <2>1. \A id \in answered' : id[1] < turn'
    BY <1>1, <1>2, <1>6
  <2>2. \E id \in AskedIds' : id[1] = turn'
    <3>1. <<turn', 1>> \in AskedIds' /\ <<turn', 1>>[1] = turn'
      BY <1>3, <1>5
    <3>2. QED
      BY <3>1
  <2>3. \A id \in AskedIds' \ answered' : id[2] \in DOMAIN pending' /\ id = pending'[id[2]].id
    BY <1>1, <1>2, <1>5
  <2>4. \A i \in DOMAIN pending' : pending'[i].id \notin denied'
    <3>1. \A i \in DOMAIN pending' : pending'[i].id[1] = turn'
      BY <1>1
    <3>2. \A id \in denied' : id[1] < turn' /\ turn' \in Int /\ id[1] \in Int
      BY <1>1, <1>6
    <3>3. QED
      BY <3>1, <3>2
  <2>5. QED
    BY <1>1, <2>1, <2>2, <2>3, <2>4 DEF OpenInv
<1>9. RanInv'
  <2>1. \A h \in DOMAIN history : history[h].id[1] \in Int /\ history[h].id[1] < turn'
    <3>1. \A h \in DOMAIN history : history[h].id \in AskedIds /\ history[h].id[1] <= turn
      BY DEF RanInv, AskedIds
    <3>2. QED
      BY <1>1, <1>6, <3>1
  <2>2. QED
    BY <1>1, <1>2, <2>1 DEF RanInv
<1>10. QED
  BY <1>7, <1>8, <1>9

\* What a flush and the end of the gate do with the ids.
LEMMA Flushed == FlushResults => answered' = answered \cup ResultIds /\ ResultIds' = {}
BY DEF FlushResults, ResultIds

\* The gate is through: the calls left are s07's, or all are answered.
LEMMA GateEndMessage == MessageInv /\ GateEnd => NumberInv' /\ OpenInv' /\ RanInv'
<1> SUFFICES ASSUME MessageInv, GateEnd PROVE NumberInv' /\ OpenInv' /\ RanInv'
  OBVIOUS
<1> USE DEF MessageInv
<1>1. /\ AtGate /\ pc = "gate" /\ todo' = Left /\ Left \subseteq DOMAIN pending /\ ~AtGate'
      /\ UNCHANGED <<turn, asked, denied, history, active>> /\ AskedIds' = AskedIds
      /\ active = {} /\ turn \in Int
  BY IdFacts DEF GateEnd, Checked, AtGate, Left, AskedIds, WhereInv
<1>2. \A id \in AskedIds \ answered :
        \/ id[2] \in Left /\ id = pending[id[2]].id
        \/ id \in ResultIds
  BY <1>1 DEF OpenInv, Left
<1>3. CASE Left = {} /\ pc' = "ask" /\ FlushResults
  <2>1. /\ answered' = answered \cup ResultIds /\ ResultIds' = {}
        /\ pending' = <<>> /\ results' = {}
    BY <1>3, Flushed DEF FlushResults
  <2>2. AskedIds = answered'
    BY <1>2, <1>3, <2>1 DEF NumberInv
  <2>3. NumberInv'
    BY <1>1, <2>1, <2>2 DEF NumberInv
  <2>4. OpenInv'
    BY <1>1, <1>3, <2>1, <2>2 DEF OpenInv
  <2>5. RanInv'
    BY <1>1, <1>3 DEF RanInv
  <2>6. QED
    BY <2>3, <2>4, <2>5
<1>4. CASE Left # {} /\ pc' = "act" /\ Keep(Left) /\ UNCHANGED <<results, answered>>
  <2>1. /\ DOMAIN pending' = Left /\ \A i \in Left : pending'[i] = pending[i]
        /\ ResultIds' = ResultIds /\ pc' = "act" /\ answered' = answered
    BY <1>4 DEF Keep, ResultIds
  <2>2. NumberInv'
    BY <1>1, <2>1 DEF NumberInv
  <2>3. OpenInv'
    BY <1>1, <1>2, <2>1 DEF OpenInv
  <2>4. \A h \in DOMAIN history, i \in Left : history[h].id # pending[i].id
    <3>1. \A i \in Left : pending[i].id[1] = turn
      BY <1>1 DEF NumberInv
    <3>2. \A h \in DOMAIN history : history[h].id[1] < turn
      BY <1>1 DEF RanInv
    <3>3. QED
      BY <1>1, <3>1, <3>2
  <2>5. RanInv'
    BY <1>1, <2>1, <2>4 DEF RanInv, Left
  <2>6. QED
    BY <2>2, <2>3, <2>5
<1>5. QED
  BY <1>3, <1>4 DEF GateEnd

\* A started call is one that has neither run nor been denied.
LEMMA StartMessage == MessageInv /\ StartCall => NumberInv' /\ OpenInv' /\ RanInv'
<1> SUFFICES ASSUME MessageInv, StartCall PROVE NumberInv' /\ OpenInv' /\ RanInv'
  OBVIOUS
<1> USE DEF MessageInv
<1>1. PICK i \in todo : /\ history' = Append(history, pending[i])
                        /\ active' = active \cup {i} /\ todo' = todo \ {i}
  BY DEF StartCall
<1>2. /\ pc = "act" /\ UNCHANGED <<pc, turn, pending, results, asked, answered, denied>>
      /\ AskedIds' = AskedIds /\ ResultIds' = ResultIds /\ ~AtGate /\ ~AtGate'
      /\ i \in DOMAIN pending /\ turn \in Int /\ todo \subseteq DOMAIN pending
  BY IdFacts DEF StartCall, AskedIds, ResultIds, AtGate, WhereInv
<1>3. NumberInv'
  BY <1>2 DEF NumberInv
<1>4. OpenInv'
  BY <1>1, <1>2 DEF OpenInv
<1>5. /\ history \in Seq(Calls) /\ Len(history) \in Nat
      /\ DOMAIN history = 1..Len(history) /\ DOMAIN history' = 1..(Len(history) + 1)
      /\ \A h \in DOMAIN history : history'[h] = history[h]
      /\ history'[Len(history) + 1] = pending[i]
  BY <1>1, TypeParts DEF ActTypes
<1>6. \A j \in DOMAIN pending : pending[j].id = <<turn, j>>
  BY DEF NumberInv
<1>7. RanInv'
  <2>1. /\ pending[i].id \notin denied /\ pending[i].id[1] <= turn
        /\ \E c \in asked : c.id = pending[i].id /\ c.tool = pending[i].tool
        /\ \A j \in todo \ {i} : pending[i].id # pending[j].id
        /\ \A h \in DOMAIN history : history[h].id # pending[i].id
    BY <1>2, <1>6 DEF RanInv, NumberInv
  <2>2. \A h, k \in DOMAIN history' : history'[h].id = history'[k].id => h = k
    BY <1>5, <2>1 DEF RanInv
  <2>3. \A h \in DOMAIN history' :
          /\ history'[h].id \notin denied /\ history'[h].id[1] <= turn
          /\ \E c \in asked : c.id = history'[h].id /\ c.tool = history'[h].tool
          /\ \A j \in todo' : history'[h].id # pending[j].id
    BY <1>1, <1>5, <2>1 DEF RanInv
  <2>4. QED
    BY <1>1, <1>2, <2>2, <2>3 DEF RanInv
<1>8. QED
  BY <1>3, <1>4, <1>7

\* A call that ends gets a result; the last one's end and the flush answer all.
LEMMA EndMessage ==
  ASSUME MessageInv, NEW i, NEW ok, NEW guided, End(i, ok, guided)
  PROVE  NumberInv' /\ OpenInv' /\ RanInv'
<1> USE DEF MessageInv
<1>1. /\ pc = "act" /\ UNCHANGED <<pc, turn, pending, todo, history, asked, answered, denied>>
      /\ AskedIds' = AskedIds /\ ~AtGate /\ ~AtGate' /\ i \in DOMAIN pending
      /\ ResultIds' = ResultIds \cup {pending[i].id} /\ active' = active \ {i}
  BY AddResult DEF End, AskedIds, AtGate, WhereInv
<1>2. pending[i].id = <<turn, i>> /\ pending[i].id \in AskedIds
  BY <1>1 DEF NumberInv, AskedIds
<1>3. NumberInv'
  BY <1>1, <1>2 DEF NumberInv
<1>4. OpenInv'
  BY <1>1, <1>2 DEF OpenInv
<1>5. RanInv'
  BY <1>1 DEF RanInv
<1>6. QED
  BY <1>3, <1>4, <1>5

LEMMA ActEndMessage == MessageInv /\ ActEnd => NumberInv' /\ OpenInv' /\ RanInv'
<1> SUFFICES ASSUME MessageInv, ActEnd PROVE NumberInv' /\ OpenInv' /\ RanInv'
  OBVIOUS
<1> USE DEF MessageInv
<1>1. /\ pc = "act" /\ pc' \in {"ask", "stopped"} /\ todo = {} /\ active = {}
      /\ UNCHANGED <<turn, todo, active, history, asked, denied>>
      /\ AskedIds' = AskedIds /\ ~AtGate' /\ FlushResults
  BY DEF ActEnd, AskedIds, AtGate
<1>2. /\ answered' = answered \cup ResultIds /\ ResultIds' = {}
      /\ pending' = <<>> /\ results' = {}
  BY <1>1, Flushed DEF FlushResults
<1>3. AskedIds = answered'
  BY <1>1, <1>2 DEF NumberInv, OpenInv
<1>4. NumberInv'
  BY <1>1, <1>2, <1>3 DEF NumberInv
<1>5. OpenInv'
  BY <1>1, <1>2, <1>3 DEF OpenInv
<1>6. RanInv'
  BY <1>1 DEF RanInv
<1>7. QED
  BY <1>4, <1>5, <1>6

\* Every step keeps the messages in order.
LEMMA StepMessage == MessageInv /\ [Next]_vars => MessageInv'
<1> SUFFICES ASSUME MessageInv, [Next]_vars PROVE MessageInv'
  OBVIOUS
<1>1. TypeOK /\ WhereInv /\ TypeOK' /\ WhereInv'
  BY StepType, StepWhere DEF MessageInv
<1>2. CASE \/ CheckGuard \/ PassCall \/ RequestApproval \/ Wake \/ TimeOut
           \/ \E answer \in Answers : Resolve(answer)
  BY <1>1, <1>2, GateSteps, GateMessage DEF MessageInv
<1>3. CASE UNCHANGED vars
  <2>1. NumberInv' /\ OpenInv' /\ RanInv'
    BY <1>3 DEF MessageInv, NumberInv, OpenInv, RanInv, AskedIds, ResultIds, AtGate,
       vars, actVars
  <2>2. QED
    BY <1>1, <2>1 DEF MessageInv
<1>4. ASSUME NEW i \in Positions, Succeed(i) \/ Fail(i) PROVE MessageInv'
  BY <1>1, <1>4, EndMessage DEF Succeed, Fail, MessageInv
<1>5. CASE Ask \/ GateEnd \/ StartCall \/ ActEnd
  BY <1>1, <1>5, AskMessage, GateEndMessage, StartMessage, ActEndMessage DEF MessageInv
<1>6. QED
  BY <1>2, <1>3, <1>4, <1>5 DEF Next, Finish

\* No denied call runs, none twice, none that the LLM did not make.
THEOREM Denied == Spec => []DeniedNeverRun
<1>1. MessageInv => DeniedNeverRun
  BY DEF MessageInv, RanInv, DeniedNeverRun
<1>2. Spec => []MessageInv
  BY InitMessage, StepMessage, PTL DEF Spec
<1>3. QED
  BY <1>1, <1>2, PTL

\* The gate and s07_act implement the tool protocol of the LLM API.
THEOREM RefinesExchange == Spec => ImplementsExchange
<1> DEFINE opened == AskedIds \ answered
<1>1. Init => Exchange!Init
  BY DEF Init, Exchange!Init
<1>2. ASSUME MessageInv, MessageInv', [Next]_vars
      PROVE  [Exchange!Next]_(Exchange!exchangeVars)
  <2>1. TypeOK /\ WhereInv /\ NumberInv /\ OpenInv /\ NumberInv' /\ OpenInv'
    BY <1>2 DEF MessageInv
  <2>2. CASE UNCHANGED <<asked, answered>>
    BY <2>2 DEF Exchange!exchangeVars
  <2>3. CASE Ask
    <3>1. /\ AskedIds = answered /\ pc' = "gate" /\ UNCHANGED answered
          /\ asked \subseteq asked'
      BY <2>1, <2>3, AskAdds DEF Ask, OpenInv
    <3>2. AskedIds' \ answered' # {}
      <4>1. PICK id \in AskedIds' : id[1] = turn'
        BY <2>1, <3>1 DEF OpenInv
      <4>2. id \notin answered'
        <5>1. turn' \in Int /\ \A old \in answered' : old[1] < turn'
          BY <2>1, <2>3, <3>1, AskAdds DEF OpenInv
        <5>2. QED
          BY <4>1, <5>1
      <4>3. QED
        BY <4>1, <4>2
    <3>3. AskedIds' \subseteq Ids
      BY <1>2, TypeParts DEF MessageInv, BatchTypes, AskedIds, Calls
    <3>4. Exchange!Ask
      BY <3>1, <3>2, <3>3 DEF Exchange!Ask, AskedIds
    <3>5. QED
      BY <3>4 DEF Exchange!Next
  <2>4. CASE (GateEnd /\ ~UNCHANGED answered) \/ ActEnd
    <3>1. pc \notin {"ask", "stopped"} /\ pc' \in {"ask", "stopped"} /\ AskedIds' = AskedIds
      BY <2>4 DEF GateEnd, Checked, ActEnd, AskedIds
    <3>2. AskedIds \ answered # {}
      <4>1. PICK id \in AskedIds : id[1] = turn
        BY <2>1, <3>1 DEF OpenInv
      <4>2. turn \in Int /\ \A old \in answered : old[1] < turn
        BY <2>1, <3>1, IdFacts DEF OpenInv
      <4>3. QED
        BY <4>1, <4>2
    <3>3. answered' = AskedIds /\ answered \subseteq AskedIds
      BY <2>1, <3>1 DEF OpenInv, NumberInv
    <3>4. Exchange!Answer
      BY <3>1, <3>2, <3>3 DEF Exchange!Answer, AskedIds
    <3>5. QED
      BY <3>4 DEF Exchange!Next
  <2>5. QED
    <3>1. ASSUME \/ CheckGuard \/ PassCall \/ RequestApproval \/ Wake \/ TimeOut
                 \/ \E answer \in Answers : Resolve(answer)
          PROVE  UNCHANGED <<asked, answered>>
      BY <2>1, <3>1, GateSteps DEF GateStep
    <3>2. ASSUME NEW i \in Positions, Succeed(i) \/ Fail(i) PROVE UNCHANGED <<asked, answered>>
      BY <3>2 DEF Succeed, Fail, End
    <3>3. CASE GateEnd \/ StartCall \/ UNCHANGED vars
      BY <2>2, <2>4, <3>3 DEF GateEnd, StartCall, vars
    <3>4. QED
      BY <1>2, <2>2, <2>3, <2>4, <3>1, <3>2, <3>3 DEF Next, Finish
<1>3. Spec => []MessageInv
  BY InitMessage, StepMessage, PTL DEF Spec
<1>4. QED
  BY <1>1, <1>2, <1>3, PTL DEF Spec, ImplementsExchange, Exchange!Spec

-----------------------------------------------------------------------------
(* The result budget *)

\* What was sent is part of what was counted.
BudgetInv == sent <= total /\ SequentialBudget

\* Calls that do not run together leave the budget as it was promised.
THEOREM BudgetKept == Spec => []SequentialBudget
<1>1. Init => BudgetInv
  BY ToolTurnAssumption DEF Init, BudgetInv, SequentialBudget, SetupType
<1>2. TypeOK /\ WhereInv /\ BudgetInv /\ [Next]_vars => BudgetInv'
  <2> SUFFICES ASSUME TypeOK, WhereInv, BudgetInv, [Next]_vars PROVE BudgetInv'
    OBVIOUS
  <2> USE DEF BudgetInv, SequentialBudget
  <2>1. total \in Nat /\ sent \in Nat /\ setup.budget \in Nat /\ Sizes \subseteq Nat
    BY ToolTurnAssumption, TypeParts DEF ActTypes, BatchTypes, SetupType
  <2>2. ASSUME NEW i \in Positions, Succeed(i) PROVE BudgetInv'
    <3>1. setup' = setup
      BY <2>2 DEF Succeed, End
    <3>2. PICK size \in Sizes :
            LET used == CurrentChars(pending[i])
                left == IF used >= setup.budget THEN 0 ELSE setup.budget - used
                fits == used + size <= setup.budget
            IN /\ sent' = sent + (IF fits THEN size ELSE left)
               /\ total' = total + (IF fits THEN size ELSE left + Mark)
      BY <2>2 DEF Succeed
    <3>3. CurrentChars(pending[i]) \in Nat
      BY <2>1 DEF CurrentChars
    <3>4. sent' <= total'
      BY <2>1, <3>2, <3>3 DEF Mark
    <3>5. ASSUME setup.strategy # "parallel_read" PROVE sent' <= setup.budget
      <4>1. CurrentChars(pending[i]) = total
        BY <3>5 DEF CurrentChars, Together
      <4>2. QED
        BY <2>1, <3>2, <3>5, <4>1 DEF Mark
    <3>6. QED
      BY <3>1, <3>4, <3>5
  <2>3. ASSUME NEW i \in Positions, Fail(i) PROVE BudgetInv'
    BY <2>3 DEF Fail, End
  <2>4. CASE ActEnd
    BY <2>1, <2>4 DEF ActEnd
  <2>5. CASE Ask \/ GateEnd \/ StartCall \/ UNCHANGED vars
    BY <2>5 DEF Ask, GateEnd, StartCall, vars, actVars
  <2>6. CASE \/ CheckGuard \/ PassCall \/ RequestApproval \/ Wake \/ TimeOut
             \/ \E answer \in Answers : Resolve(answer)
    BY <2>6, GateSteps DEF GateStep, actVars
  <2>7. QED
    BY <2>2, <2>3, <2>4, <2>5, <2>6 DEF Next, Finish
<1>3. BudgetInv => SequentialBudget
  BY DEF BudgetInv
<1>4. QED
  BY <1>1, <1>2, <1>3, InitType, StepType, StepWhere, PTL DEF Spec

-----------------------------------------------------------------------------
(* Human approval.  A risky call that is past a human guard carries the answer
   to its newest request; the answer of a call does not change once the gate
   has gone on to the next one. *)

HumanGuards == {k \in DOMAIN setup.chain : setup.chain[k] = "hitl"}
Approved(call) == /\ firstAnswer[call.id].decision = "approve"
                  /\ call.args = firstAnswer[call.id].args

Ready(i) ==
  \/ AtGate /\ i < at /\ pending[i].id \notin denied
  \/ pc = "act" /\ i \in todo
PastGuard(i, k) == pc = "gate" /\ i = at /\ k < guardAt

PassedInv ==
  \A i \in DOMAIN pending, k \in HumanGuards :
    pending[i].tool \in setup.risky /\ (Ready(i) \/ PastGuard(i, k)) => Approved(pending[i])

AnswerInv ==
  pc = "approval" => /\ future \in Answers \cup {NoAnswer}
                     /\ firstAnswer[pending[at].id] = future

RestInv == /\ ~AtGate => at = 1 /\ guardAt = 1
           /\ AtGate /\ at \notin DOMAIN pending => guardAt = 1

ApprovalInv == PassedInv /\ AnswerInv /\ RestInv /\ ApprovedAsRun
AllInv == MessageInv /\ ApprovalInv

\* The ids of pending calls differ from each other and from those that ran.
LEMMA OtherIds ==
  ASSUME MessageInv, NEW i \in DOMAIN pending
  PROVE  /\ pending[i].id \in Ids
         /\ \A j \in DOMAIN pending : j # i => pending[j].id # pending[i].id
         /\ AtGate => \A h \in DOMAIN history : history[h].id # pending[i].id
<1> USE DEF MessageInv
<1>1. pending[i].id = <<turn, i>> /\ turn \in Int
  BY IdFacts DEF NumberInv
<1>2. \A j \in DOMAIN pending : pending[j].id = <<turn, j>>
  BY DEF NumberInv
<1>3. AtGate => \A h \in DOMAIN history : history[h].id # pending[i].id
  <2>1. pending[i].id[1] = turn
    BY <1>1
  <2>2. AtGate => \A h \in DOMAIN history : history[h].id[1] < turn
    BY DEF RanInv
  <2>3. QED
    BY <1>1, <2>1, <2>2
<1>4. pending[i].id \in Ids
  BY BatchFacts, TypeParts DEF BatchTypes, Calls
<1>5. QED
  BY <1>1, <1>2, <1>3, <1>4

\* What has run keeps its approval while the answers of other calls come in.
LEMMA RanKeeps ==
  ASSUME ApprovedAsRun, UNCHANGED <<setup, history>>,
         \A h \in DOMAIN history : firstAnswer'[history[h].id] = firstAnswer[history[h].id]
  PROVE  ApprovedAsRun'
BY DEF ApprovedAsRun

\* The same for the calls the gate has dealt with before this one.
LEMMA PassedKeeps ==
  ASSUME AllInv, AtGate, AtGate', at \in DOMAIN pending,
         UNCHANGED <<setup, todo>>,
         denied \subseteq denied', DOMAIN pending' = DOMAIN pending,
         \A i \in DOMAIN pending : i # at => /\ pending'[i] = pending[i]
                                             /\ firstAnswer'[pending[i].id] = firstAnswer[pending[i].id]
  PROVE  \A i \in DOMAIN pending, k \in HumanGuards :
           i < at /\ pending'[i].id \notin denied' /\ pending'[i].tool \in setup'.risky
             => Approved(pending[i])' 
<1> SUFFICES ASSUME NEW i \in DOMAIN pending, NEW k \in HumanGuards,
                    i < at, pending'[i].id \notin denied', pending'[i].tool \in setup.risky
             PROVE  Approved(pending[i])'
  OBVIOUS
<1>1. at \in Int
  BY TypeParts DEF AllInv, MessageInv, GateTypes
<1>2. i # at
  BY <1>1
<1>3. pending'[i] = pending[i] /\ pending[i].id \notin denied
  BY <1>2
<1>4. Approved(pending[i])
  BY <1>3 DEF AllInv, ApprovalInv, PassedInv, Ready
<1>5. QED
  BY <1>2, <1>3, <1>4 DEF Approved

\* The chain and the position in it.
LEMMA ChainFacts ==
  ASSUME TypeOK
  PROVE  /\ setup.chain \in Seq(Guards) /\ Len(setup.chain) \in Nat
         /\ DOMAIN setup.chain = 1..Len(setup.chain)
         /\ guardAt \in Nat \ {0} /\ at \in Int
         /\ firstAnswer \in [Ids -> Answers \cup {NoAnswer}]
BY ToolTurnAssumption, TypeParts DEF GateTypes, BatchTypes, SetupType

\* A blocked call is not among those that passed.
LEMMA BlockPassed ==
  ASSUME AllInv, AtGate, pc' = "gate", at \in DOMAIN pending, BlockCall,
         UNCHANGED <<setup, pending, todo, firstAnswer, history>>
  PROVE  ApprovalInv'
<1>1. at' = at + 1 /\ guardAt' = 1 /\ pending[at].id \in denied' /\ denied \subseteq denied'
  BY DEF BlockCall
<1>2. AtGate' /\ at \in Int /\ DOMAIN setup.chain \subseteq Nat \ {0}
  BY ChainFacts DEF AtGate, AllInv, MessageInv
<1>3. DOMAIN pending \subseteq Int
  BY TypeParts, BatchFacts DEF AllInv, MessageInv, BatchTypes, Positions
<1>4. \A i \in DOMAIN pending, k \in HumanGuards :
        i < at /\ pending'[i].id \notin denied' /\ pending'[i].tool \in setup'.risky
          => Approved(pending[i])'
  BY <1>1, <1>2, PassedKeeps
<1>5. PassedInv'
  <2> SUFFICES ASSUME NEW i \in DOMAIN pending, NEW k \in HumanGuards,
                      pending[i].tool \in setup.risky, Ready(i)' \/ PastGuard(i, k)'
               PROVE  Approved(pending[i])'
    BY DEF PassedInv, HumanGuards
  <2>1. ~PastGuard(i, k)'
    BY <1>1, <1>2 DEF PastGuard, HumanGuards
  <2>2. i < at + 1 /\ pending[i].id \notin denied'
    BY <1>1, <2>1 DEF Ready
  <2>3. i # at /\ i \in Int
    BY <1>1, <1>3, <2>2
  <2>4. i < at
    BY <1>2, <2>2, <2>3
  <2>5. QED
    BY <1>4, <2>2, <2>4
<1>6. ApprovedAsRun'
  BY RanKeeps DEF AllInv, ApprovalInv
<1>7. AnswerInv' /\ RestInv'
  BY <1>1 DEF AnswerInv, RestInv, AtGate
<1>8. QED
  BY <1>5, <1>6, <1>7 DEF ApprovalInv

\* Guards that are not a human's.
LEMMA GuardApproval ==
  AllInv /\ (CheckGuard \/ PassCall \/ TimeOut) => ApprovalInv'
<1> SUFFICES ASSUME AllInv, CheckGuard \/ PassCall \/ TimeOut PROVE ApprovalInv'
  OBVIOUS
<1> USE DEF AllInv
<1>1. /\ AtGate /\ AtGate' /\ pc' = "gate" /\ at \in DOMAIN pending /\ todo' = todo
      /\ UNCHANGED <<setup, pending, firstAnswer, history>>
  BY DEF CheckGuard, PassCall, TimeOut, Checking, AtGate, MessageInv, WhereInv, actVars
<1>2. CASE BlockCall
  BY <1>1, <1>2, BlockPassed
<1>3. CASE ~BlockCall
  <2>1. ~TimeOut /\ pc = "gate"
    BY <1>3 DEF TimeOut, CheckGuard, PassCall, Checking
  <2>2. denied' = denied
    BY <1>3, <2>1 DEF CheckGuard, PassCall, PassGuard
  <2>3. /\ at \in Int /\ guardAt \in Int /\ Len(setup.chain) \in Nat
        /\ DOMAIN setup.chain = 1..Len(setup.chain)
    BY ChainFacts DEF MessageInv
  <2>4. DOMAIN pending \subseteq Int
    BY TypeParts, BatchFacts DEF MessageInv, BatchTypes, Positions
  <2>5. \A i \in DOMAIN pending, k \in HumanGuards :
          i < at /\ pending'[i].id \notin denied' /\ pending'[i].tool \in setup'.risky
            => Approved(pending[i])'
    BY <1>1, <2>2, PassedKeeps
  <2>6. \A i \in DOMAIN pending, k \in HumanGuards :
          i = at /\ pending[i].tool \in setup.risky /\ k < guardAt => Approved(pending[i])'
    BY <1>1, <2>1 DEF ApprovalInv, PassedInv, PastGuard, Approved
  <2>7. CASE CheckGuard
    <3>1. at' = at /\ guardAt' = guardAt + 1 /\ ~NeedsApproval
      BY <1>3, <2>7 DEF CheckGuard, PassGuard
    <3>2. PassedInv'
      <4> SUFFICES ASSUME NEW i \in DOMAIN pending, NEW k \in HumanGuards,
                          pending[i].tool \in setup.risky, Ready(i)' \/ PastGuard(i, k)'
                   PROVE  Approved(pending[i])'
        BY <1>1 DEF PassedInv, HumanGuards
      <4>1. CASE Ready(i)'
        BY <1>1, <2>5, <3>1, <4>1 DEF Ready
      <4>2. CASE PastGuard(i, k)'
        <5>1. i = at /\ k < guardAt + 1 /\ k \in Int
          BY <2>3, <3>1, <4>2 DEF PastGuard, HumanGuards
        <5>2. k # guardAt
          BY <3>1, <5>1 DEF NeedsApproval, Guard, HumanGuards
        <5>3. QED
          BY <2>3, <2>6, <5>1, <5>2
      <4>3. QED
        BY <4>1, <4>2
    <3>3. QED
      BY <1>1, <3>1, <3>2, RanKeeps DEF ApprovalInv, AnswerInv, RestInv
  <2>8. CASE PassCall
    <3>1. at' = at + 1 /\ guardAt' = 1 /\ guardAt > Len(setup.chain)
      BY <2>8 DEF PassCall
    <3>2. PassedInv'
      <4> SUFFICES ASSUME NEW i \in DOMAIN pending, NEW k \in HumanGuards,
                          pending[i].tool \in setup.risky, Ready(i)' \/ PastGuard(i, k)'
                   PROVE  Approved(pending[i])'
        BY <1>1 DEF PassedInv, HumanGuards
      <4>1. k \in 1..Len(setup.chain)
        BY <2>3 DEF HumanGuards
      <4>2. ~PastGuard(i, k)'
        BY <3>1, <4>1 DEF PastGuard
      <4>3. i < at + 1 /\ i \in Int /\ pending'[i].id \notin denied'
        BY <1>1, <2>4, <3>1, <4>2 DEF Ready
      <4>4. CASE i = at
        BY <2>3, <2>6, <3>1, <4>1, <4>4
      <4>5. CASE i < at
        BY <1>1, <2>5, <4>3, <4>5
      <4>6. QED
        BY <2>3, <4>3, <4>4, <4>5
    <3>3. QED
      BY <1>1, <3>1, <3>2, RanKeeps DEF ApprovalInv, AnswerInv, RestInv
  <2>9. QED
    BY <2>1, <2>7, <2>8
<1>4. QED
  BY <1>2, <1>3

\* A new request forgets the answer to an older one, and waits for its own.
LEMMA AskApproval ==
  AllInv /\ (RequestApproval \/ \E answer \in Answers : Resolve(answer)) => ApprovalInv'
<1> SUFFICES ASSUME AllInv,
                    RequestApproval \/ \E answer \in Answers : Resolve(answer)
             PROVE  ApprovalInv'
  OBVIOUS
<1> USE DEF AllInv
<1>1. /\ AtGate /\ AtGate' /\ pc' = "approval" /\ at \in DOMAIN pending /\ at' = at
      /\ UNCHANGED <<setup, pending, history, todo, denied>>
  BY DEF RequestApproval, Resolve, Checking, AtGate, MessageInv, WhereInv, actVars
<1>2. \E answer \in Answers \cup {NoAnswer} :
        future' = answer /\ firstAnswer' = [firstAnswer EXCEPT ![pending[at].id] = answer]
  <2>1. CASE RequestApproval
    BY <2>1 DEF RequestApproval
  <2>2. ASSUME NEW answer \in Answers, Resolve(answer)
        PROVE  /\ future' = answer
               /\ firstAnswer' = [firstAnswer EXCEPT ![pending[at].id] = answer]
    <3>1. pc = "approval" /\ future = NoAnswer /\ future' = answer
      BY <2>2 DEF Resolve
    <3>2. firstAnswer[pending[at].id] = NoAnswer
      BY <3>1 DEF ApprovalInv, AnswerInv
    <3>3. QED
      BY <2>2, <3>1, <3>2 DEF Resolve
  <2>3. QED
    BY <2>1, <2>2
<1>3. /\ pending[at].id \in Ids
      /\ \A j \in DOMAIN pending : j # at => pending[j].id # pending[at].id
      /\ \A h \in DOMAIN history : history[h].id # pending[at].id
  BY <1>1, OtherIds
<1>4. /\ firstAnswer'[pending[at].id] = future' /\ future' \in Answers \cup {NoAnswer}
      /\ \A j \in DOMAIN pending :
           j # at => firstAnswer'[pending[j].id] = firstAnswer[pending[j].id]
      /\ \A h \in DOMAIN history : firstAnswer'[history[h].id] = firstAnswer[history[h].id]
  BY <1>2, <1>3, ChainFacts DEF MessageInv
<1>5. \A i \in DOMAIN pending, k \in HumanGuards :
        i < at /\ pending'[i].id \notin denied' /\ pending'[i].tool \in setup'.risky
          => Approved(pending[i])'
  BY <1>1, <1>4, PassedKeeps
<1>6. PassedInv'
  BY <1>1, <1>5 DEF PassedInv, Ready, PastGuard, HumanGuards
<1>7. ApprovedAsRun'
  BY <1>1, <1>4, RanKeeps DEF ApprovalInv
<1>8. AnswerInv' /\ RestInv'
  BY <1>1, <1>4 DEF AnswerInv, RestInv
<1>9. QED
  BY <1>6, <1>7, <1>8 DEF ApprovalInv

\* The answer decides, and an approved call has the arguments of the answer.
LEMMA WakeApproval == AllInv /\ Wake => ApprovalInv'
<1> SUFFICES ASSUME AllInv, Wake PROVE ApprovalInv'
  OBVIOUS
<1> USE DEF AllInv
<1>1. /\ AtGate /\ AtGate' /\ pc' = "gate" /\ at \in DOMAIN pending
      /\ UNCHANGED <<setup, history, todo, firstAnswer>>
  BY DEF Wake, AtGate, MessageInv, WhereInv, actVars
<1>2. CASE future.decision # "approve"
  BY <1>1, <1>2, BlockPassed DEF Wake
<1>3. CASE future.decision = "approve"
  <2>1. /\ pending' = [pending EXCEPT ![at].args = future.args]
        /\ guardAt' = guardAt + 1 /\ at' = at /\ denied' = denied
    BY <1>3 DEF Wake, PassGuard
  <2>2. firstAnswer[pending[at].id] = future
    BY DEF Wake, ApprovalInv, AnswerInv
  <2>3. /\ pending \in [DOMAIN pending -> Calls]
        /\ DOMAIN pending \subseteq Int
    BY TypeParts, BatchFacts DEF MessageInv, BatchTypes, Positions
  <2>4. /\ DOMAIN pending' = DOMAIN pending
        /\ \A i \in DOMAIN pending : i # at => pending'[i] = pending[i]
        /\ pending'[at] = [pending[at] EXCEPT !.args = future.args]
    BY <1>1, <2>1, <2>3
  <2>5. pending'[at].id = pending[at].id /\ pending'[at].args = future.args
    BY <1>1, <2>3, <2>4 DEF Calls
  <2>6. \A i \in DOMAIN pending, k \in HumanGuards :
          i < at /\ pending'[i].id \notin denied' /\ pending'[i].tool \in setup'.risky
            => Approved(pending[i])'
    BY <1>1, <2>1, <2>4, PassedKeeps
  <2>7. PassedInv'
    <3> SUFFICES ASSUME NEW i \in DOMAIN pending, NEW k \in HumanGuards,
                        pending'[i].tool \in setup.risky, Ready(i)' \/ PastGuard(i, k)'
                 PROVE  Approved(pending[i])'
      BY <1>1, <2>4 DEF PassedInv, HumanGuards
    <3>1. CASE i = at
      BY <1>1, <1>3, <2>1, <2>2, <2>5, <3>1 DEF Approved
    <3>2. CASE i # at
      <4>1. i < at /\ pending'[i].id \notin denied'
        BY <1>1, <2>1, <3>2 DEF Ready, PastGuard
      <4>2. QED
        BY <1>1, <2>6, <4>1
    <3>3. QED
      BY <3>1, <3>2
  <2>8. ApprovedAsRun'
    BY <1>1, RanKeeps DEF ApprovalInv
  <2>9. AnswerInv' /\ RestInv'
    BY <1>1, <2>1, <2>4 DEF AnswerInv, RestInv
  <2>10. QED
    BY <2>7, <2>8, <2>9 DEF ApprovalInv
<1>4. QED
  BY <1>2, <1>3

\* What the gate leaves has passed it, and what runs is what it left.
LEMMA ActApproval ==
  AllInv /\ (Ask \/ GateEnd \/ StartCall \/ Finish \/ ActEnd) => ApprovalInv'
<1> SUFFICES ASSUME AllInv, Ask \/ GateEnd \/ StartCall \/ Finish \/ ActEnd
             PROVE  ApprovalInv'
  OBVIOUS
<1> USE DEF AllInv
<1>1. /\ firstAnswer' = firstAnswer /\ setup' = setup
      /\ ~StartCall => history' = history
      /\ pc' # "approval"
  BY DEF Ask, GateEnd, StartCall, Finish, Succeed, Fail, End, ActEnd, gateVars, actVars
<1>2. ~StartCall => ApprovedAsRun'
  BY <1>1, RanKeeps DEF ApprovalInv
<1>3. AnswerInv'
  BY <1>1 DEF AnswerInv
<1>4. CASE Ask
  <2>1. /\ pc' = "gate" /\ at' = 1 /\ guardAt' = 1 /\ todo' = todo
        /\ \A i \in DOMAIN pending' : i \in Int /\ ~(i < 1)
    BY <1>4 DEF Ask, ApprovalInv, RestInv, AtGate, gateVars, actVars
  <2>2. \A k \in HumanGuards' : k \in Int /\ ~(k < 1)
    BY <1>1, ChainFacts DEF HumanGuards, MessageInv
  <2>3. PassedInv'
    BY <2>1, <2>2 DEF PassedInv, Ready, PastGuard, AtGate
  <2>4. QED
    BY <1>2, <1>3, <1>4, <2>1, <2>3 DEF ApprovalInv, RestInv, AtGate, Ask, StartCall
<1>5. CASE GateEnd
  <2>1. /\ pc = "gate" /\ at \notin DOMAIN pending /\ at' = 1 /\ guardAt' = guardAt
        /\ pc' \in {"ask", "act"} /\ todo' = Left
        /\ pc' = "act" => Keep(Left)
    BY <1>5 DEF GateEnd, Checked
  <2>2. guardAt = 1
    BY <2>1 DEF ApprovalInv, RestInv, AtGate
  <2>3. \A i \in DOMAIN pending : i < at
    <3>1. PICK n \in 1..MaxBatch : DOMAIN pending = 1..n
      BY <2>1 DEF MessageInv, WhereInv, AtGate
    <3>2. at \in Nat \ {0} /\ n \in Int
      BY ToolTurnAssumption, TypeParts DEF MessageInv, GateTypes
    <3>3. QED
      BY <2>1, <3>1, <3>2
  <2>4. PassedInv'
    <3> SUFFICES ASSUME NEW i \in DOMAIN pending', NEW k \in HumanGuards,
                        pending'[i].tool \in setup.risky, Ready(i)' \/ PastGuard(i, k)'
                 PROVE  Approved(pending[i])'
      BY <1>1 DEF PassedInv, HumanGuards
    <3>1. pc' = "act" /\ i \in Left
      BY <2>1 DEF Ready, PastGuard, AtGate
    <3>2. pending'[i] = pending[i] /\ i \in DOMAIN pending /\ pending[i].id \notin denied
      BY <2>1, <3>1 DEF Keep, Left
    <3>3. Approved(pending[i])
      BY <2>1, <2>3, <3>2 DEF ApprovalInv, PassedInv, Ready, AtGate
    <3>4. QED
      BY <1>1, <3>2, <3>3 DEF Approved
  <2>5. QED
    BY <1>2, <1>3, <1>5, <2>1, <2>2, <2>4 DEF ApprovalInv, RestInv, AtGate, GateEnd, Checked, StartCall
<1>6. CASE StartCall \/ Finish \/ ActEnd
  <2>1. /\ pc = "act" /\ pc' \notin {"gate", "approval"}
        /\ at' = at /\ guardAt' = guardAt /\ todo' \subseteq todo
        /\ pc' = "act" => pending' = pending
    BY <1>6 DEF StartCall, Finish, Succeed, Fail, End, ActEnd, gateVars
  <2>2. PassedInv'
    BY <1>1, <2>1 DEF ApprovalInv, PassedInv, Ready, PastGuard, AtGate, HumanGuards, Approved
  <2>3. ASSUME StartCall PROVE ApprovedAsRun'
    <3>1. PICK i \in todo : history' = Append(history, pending[i])
      BY <2>3 DEF StartCall
    <3>2. history \in Seq(Calls) /\ i \in DOMAIN pending
      BY TypeParts DEF MessageInv, ActTypes, WhereInv
    <3>3. \A h \in DOMAIN history' :
            \/ h \in DOMAIN history /\ history'[h] = history[h]
            \/ history'[h] = pending[i]
      BY <3>1, <3>2
    <3>4. HumanGuards # {} /\ pending[i].tool \in setup.risky => Approved(pending[i])
      BY <2>1, <3>2 DEF ApprovalInv, PassedInv, Ready
    <3>5. \A call : Approved(call) <=> /\ firstAnswer[call.id].decision = "approve"
                                       /\ call.args = firstAnswer[call.id].args
      BY DEF Approved
    <3>6. "hitl" \in {setup.chain[k] : k \in DOMAIN setup.chain} <=> HumanGuards # {}
      BY DEF HumanGuards
    <3>7. QED
      BY <1>1, <3>3, <3>4, <3>5, <3>6 DEF ApprovalInv, ApprovedAsRun
  <2>4. RestInv'
    BY <2>1 DEF ApprovalInv, RestInv, AtGate
  <2>5. QED
    BY <1>2, <1>3, <2>2, <2>3, <2>4 DEF ApprovalInv
<1>7. QED
  BY <1>4, <1>5, <1>6

\* At first nothing is asked, answered or run.
LEMMA InitApproval == Init => AllInv
<1> SUFFICES ASSUME Init PROVE ApprovalInv
  BY InitMessage DEF AllInv
<1>1. QED
  BY DEF Init, ApprovalInv, PassedInv, AnswerInv, RestInv, ApprovedAsRun, AtGate

\* Every step keeps the approvals right.
LEMMA StepApproval == AllInv /\ [Next]_vars => AllInv'
<1> SUFFICES ASSUME AllInv, [Next]_vars PROVE ApprovalInv'
  BY StepMessage DEF AllInv
<1>1. CASE UNCHANGED vars
  BY <1>1 DEF vars, gateVars, actVars, AllInv, ApprovalInv, PassedInv, AnswerInv, RestInv,
              ApprovedAsRun, Ready, PastGuard, Approved, HumanGuards, AtGate
<1>2. QED
  BY <1>1, GuardApproval, AskApproval, WakeApproval, ActApproval DEF Next

\* A tool that needs a human's consent runs as the human said, whatever the
\* interleaving of answers, time-outs and guards (ApprovedAsRun).
THEOREM ApprovedRun == Spec => []ApprovedAsRun
<1>1. AllInv => ApprovedAsRun
  BY DEF AllInv, ApprovalInv
<1>2. QED
  BY <1>1, InitApproval, StepApproval, PTL DEF Spec

-----------------------------------------------------------------------------
(* Series of failures *)

\* The failures of a tool that end the first i entries of a log of endings.
Failing(log, tool, i) ==
  {j \in 1..i : /\ log[j].tool = tool
                /\ \A k \in j..i : log[k].tool = tool => ~log[k].ok}
Endings == [tool : Names, ok : BOOLEAN, guided : BOOLEAN]

\* A series is finite.
LEMMA FailingFinite ==
  ASSUME NEW log, NEW tool, NEW i \in Nat
  PROVE  /\ IsFiniteSet(Failing(log, tool, i))
         /\ Cardinality(Failing(log, tool, i)) \in Nat
<1>1. Failing(log, tool, i) \in SUBSET (1..i) /\ IsFiniteSet(1..i)
  BY FS_Interval DEF Failing
<1>2. QED
  BY <1>1, FS_Subset, FS_CardinalityType

\* An ending leaves the series before it and those of other tools; a failure makes the
\* series of its tool longer by one, a success ends it.
LEMMA FailingAppend ==
  ASSUME NEW log \in Seq(Endings), NEW e \in Endings, NEW tool \in Names
  PROVE  LET n == Len(log)
             longer == Append(log, e)
         IN /\ \A i \in 1..n : Failing(longer, tool, i) = Failing(log, tool, i)
            /\ e.tool # tool => Failing(longer, tool, n + 1) = Failing(log, tool, n)
            /\ e.tool = tool /\ e.ok => Failing(longer, tool, n + 1) = {}
            /\ e.tool = tool /\ ~e.ok =>
                 /\ Failing(longer, tool, n + 1) = Failing(log, tool, n) \cup {n + 1}
                 /\ n + 1 \notin Failing(log, tool, n)
<1> DEFINE n == Len(log)
           longer == Append(log, e)
<1>1. /\ n \in Nat /\ longer[n + 1] = e
      /\ \A i \in 1..n : longer[i] = log[i]
  OBVIOUS
<1> HIDE DEF n, longer
<1>2. ASSUME NEW i \in 1..n PROVE Failing(longer, tool, i) = Failing(log, tool, i)
  BY <1>1 DEF Failing
<1>3. ASSUME e.tool # tool PROVE Failing(longer, tool, n + 1) = Failing(log, tool, n)
  BY <1>1, <1>3 DEF Failing
<1>4. ASSUME e.tool = tool, e.ok PROVE Failing(longer, tool, n + 1) = {}
  BY <1>1, <1>4 DEF Failing
<1>5. ASSUME e.tool = tool, ~e.ok
      PROVE  /\ Failing(longer, tool, n + 1) = Failing(log, tool, n) \cup {n + 1}
             /\ n + 1 \notin Failing(log, tool, n)
  BY <1>1, <1>5 DEF Failing
<1>6. QED
  BY <1>2, <1>3, <1>4, <1>5 DEF n, longer

\* The counter of a tool is the length of the series that goes on.
CountInv ==
  \A tool \in Names : streak[tool] = Cardinality(Failing(completed, tool, Len(completed)))

\* A call that ends keeps counters and guidance right.
LEMMA EndCounts ==
  ASSUME TypeOK, CountInv, StreakTold,
         NEW tool \in Names, NEW ok \in BOOLEAN, NEW guided \in BOOLEAN,
         setup' = setup,
         completed' = Append(completed, [tool |-> tool, ok |-> ok, guided |-> guided]),
         streak' = [streak EXCEPT ![tool] = IF ok THEN 0 ELSE @ + 1],
         guided <=> ~ok /\ streak[tool] + 1 >= setup.failureLimit
  PROVE  CountInv' /\ StreakTold'
<1> DEFINE e == [tool |-> tool, ok |-> ok, guided |-> guided]
           n == Len(completed)
<1>1. /\ completed \in Seq(Endings) /\ e \in Endings /\ n \in Nat
      /\ streak \in [Names -> Nat] /\ setup.failureLimit \in Nat \ {0}
  BY ToolTurnAssumption, TypeParts DEF ActTypes, BatchTypes, SetupType, Endings
<1>2. /\ Len(completed') = n + 1 /\ DOMAIN completed' = 1..(n + 1) /\ DOMAIN completed = 1..n
      /\ \A i \in 1..n : completed'[i] = completed[i]
      /\ completed'[n + 1] = e
  BY <1>1
<1>3. /\ e.tool = tool /\ e.ok = ok /\ e.guided = guided
      /\ completed' = Append(completed, e)
  OBVIOUS
<1> HIDE DEF e, n
<1>4. ASSUME NEW t \in Names
      PROVE  streak'[t] = Cardinality(Failing(completed', t, n + 1))
  <2>1. streak[t] = Cardinality(Failing(completed, t, n))
    BY DEF CountInv, n
  <2>2. CASE t # tool
    <3>1. Failing(completed', t, n + 1) = Failing(completed, t, n)
      BY <1>1, <1>3, <2>2, FailingAppend DEF n
    <3>2. QED
      BY <1>1, <2>1, <2>2, <3>1
  <2>3. CASE t = tool /\ ok
    <3>1. Failing(completed', t, n + 1) = {}
      BY <1>1, <1>3, <2>3, FailingAppend DEF n
    <3>2. QED
      BY <1>1, <2>3, <3>1, FS_EmptySet
  <2>4. CASE t = tool /\ ~ok
    <3>1. /\ Failing(completed', t, n + 1) = Failing(completed, t, n) \cup {n + 1}
          /\ n + 1 \notin Failing(completed, t, n)
      BY <1>1, <1>3, <2>4, FailingAppend DEF n
    <3>2. Cardinality(Failing(completed', t, n + 1)) = Cardinality(Failing(completed, t, n)) + 1
      BY <1>1, <3>1, FailingFinite, FS_AddElement
    <3>3. QED
      BY <1>1, <2>1, <2>4, <3>2
  <2>5. QED
    BY <2>2, <2>3, <2>4
<1>5. CountInv'
  BY <1>2, <1>4 DEF CountInv
<1>6. ASSUME NEW i \in 1..(n + 1)
      PROVE  completed'[i].guided <=> Cardinality(Since(i)') >= setup'.failureLimit
  <2>1. Since(i)' = Failing(completed', completed'[i].tool, i)
    BY DEF Since, Failing
  <2>2. CASE i \in 1..n
    <3>0. completed[i] \in Endings
      BY <1>1, <1>2, <2>2
    <3>1. completed[i].tool \in Names
      BY <3>0 DEF Endings
    <3>2. Failing(completed', completed[i].tool, i) = Failing(completed, completed[i].tool, i)
      BY <1>1, <1>3, <2>2, <3>1, FailingAppend DEF n
    <3>3. Since(i) = Failing(completed, completed[i].tool, i)
      BY DEF Since, Failing
    <3>4. completed[i].guided <=> Cardinality(Since(i)) >= setup.failureLimit
      BY <1>2, <2>2 DEF StreakTold
    <3>5. QED
      BY <1>2, <2>1, <2>2, <3>2, <3>3, <3>4
  <2>3. CASE i = n + 1
    <3>1. Since(i)' = Failing(completed', tool, n + 1)
      BY <1>2, <1>3, <2>1, <2>3
    <3>2. Cardinality(Since(i)') = IF ok THEN 0 ELSE streak[tool] + 1
      BY <1>1, <1>4, <3>1
    <3>3. QED
      BY <1>1, <1>2, <1>3, <2>3, <3>2
  <2>4. n \in Nat
    BY <1>1
  <2>5. i \in 1..n \/ i = n + 1
    BY <2>4
  <2>6. QED
    BY <2>2, <2>3, <2>5
<1>7. StreakTold'
  BY <1>2, <1>6 DEF StreakTold
<1>8. QED
  BY <1>5, <1>7

\* The error text says to stop exactly after failureLimit failures of the tool in a row, in
\* whatever order the calls of several messages end (StreakTold).
THEOREM StreakCounted == Spec => []StreakTold
<1> DEFINE Inv == CountInv /\ StreakTold
<1>1. Init => Inv
  <2> SUFFICES ASSUME Init PROVE Inv
    OBVIOUS
  <2>1. completed = <<>> /\ Len(completed) = 0 /\ \A tool \in Names : streak[tool] = 0
    BY DEF Init
  <2>2. \A tool \in Names : Failing(completed, tool, Len(completed)) = {}
    BY <2>1 DEF Failing
  <2>3. CountInv
    BY <2>1, <2>2, FS_EmptySet DEF CountInv
  <2>4. StreakTold
    BY <2>1 DEF StreakTold
  <2>5. QED
    BY <2>3, <2>4
<1>2. TypeOK /\ WhereInv /\ Inv /\ [Next]_vars => Inv'
  <2> SUFFICES ASSUME TypeOK, WhereInv, Inv, [Next]_vars PROVE Inv'
    OBVIOUS
  <2>1. ASSUME UNCHANGED <<setup, completed, streak>> PROVE Inv'
    BY <2>1 DEF CountInv, StreakTold, Since
  <2>2. ASSUME NEW i \in Positions, Succeed(i) \/ Fail(i) PROVE Inv'
    <3>1. i \in DOMAIN pending /\ pending[i].tool \in Names
      <4>1. i \in active /\ pending \in Batches
        BY <2>2, TypeParts DEF Succeed, Fail, End, BatchTypes
      <4>2. QED
        BY <4>1, BatchFacts DEF WhereInv, Calls
    <3>2. /\ setup.failureLimit \in Nat /\ streak \in [Names -> Nat]
      BY ToolTurnAssumption, TypeParts DEF ActTypes, BatchTypes, SetupType
    <3>3. CASE Succeed(i)
      BY <3>1, <3>2, <3>3, EndCounts DEF Succeed, End
    <3>4. CASE Fail(i)
      <4> DEFINE tool == pending[i].tool
                 told == streak[tool] + 1 >= setup.failureLimit
      <4>1. /\ setup' = setup
            /\ completed' = Append(completed, [tool |-> tool, ok |-> FALSE, guided |-> told])
            /\ streak' = [streak EXCEPT ![tool] = IF FALSE THEN 0 ELSE @ + 1]
        BY <3>4 DEF Fail, End
      <4>2. tool \in Names /\ told \in BOOLEAN /\ (told <=> ~FALSE /\ streak[tool] + 1 >= setup.failureLimit)
        BY <3>1, <3>2
      <4> HIDE DEF tool, told
      <4>3. QED
        BY <4>1, <4>2, EndCounts
    <3>5. QED
      BY <2>2, <3>3, <3>4
  <2>3. CASE Ask \/ GateEnd \/ StartCall \/ ActEnd \/ UNCHANGED vars
    BY <2>1, <2>3 DEF Ask, GateEnd, StartCall, ActEnd, vars, actVars
  <2>4. CASE \/ CheckGuard \/ PassCall \/ RequestApproval \/ Wake \/ TimeOut
             \/ \E answer \in Answers : Resolve(answer)
    BY <2>1, <2>4, GateSteps DEF GateStep, actVars
  <2>5. QED
    BY <2>2, <2>3, <2>4 DEF Next, Finish
<1>3. QED
  BY <1>1, <1>2, InitType, StepType, StepWhere, PTL DEF Spec

-----------------------------------------------------------------------------
(* The guards.  What a guard let pass is kept as two facts: it passed the call as
   the LLM made it when no reviewer is ahead of the guard, and the call as it is
   when none is behind it.  At the gate all of the history is of earlier turns. *)

Ahead(g)  == Reviewed(1..(g - 1))
Behind(g) == Reviewed((g + 1)..Len(setup.chain))

\* Call i is past guard g.
Past(i, g) == Ready(i) \/ (AtGate /\ i = at /\ g < guardAt)

\* Guard g has let call i pass.
Let(i, g) ==
  /\ ~Ahead(g) => \A c \in asked :
       c.id = pending[i].id => ~Blocks(setup.chain[g], c, Before(turn))
  /\ ~Behind(g) => ~Blocks(setup.chain[g], pending[i], Before(turn))

OriginalInv ==
  /\ \A c, d \in asked : c.id = d.id => c = d
  /\ AtGate => \A i \in DOMAIN pending :
       i > at \/ (i = at /\ ~Ahead(guardAt)) => pending[i] \in asked
LetInv == \A i \in DOMAIN pending, g \in DOMAIN setup.chain : Past(i, g) => Let(i, g)

GuardInv == OriginalInv /\ LetInv /\ GuardsHold

\* A guard's answer depends on the setup, the tool, the arguments and the history.
LEMMA BlocksKeeps ==
  ASSUME setup' = setup, NEW guard, NEW call, NEW hist
  PROVE  Blocks(guard, call, hist)' <=> Blocks(guard, call, hist)
BY DEF Blocks, Recent, Repeats

LEMMA BlocksAlike ==
  ASSUME NEW guard, NEW c, NEW d, NEW hist, c.tool = d.tool, c.args = d.args
  PROVE  Blocks(guard, c, hist) <=> Blocks(guard, d, hist)
<1> DEFINE alike(hs, x) == {i \in DOMAIN hs : hs[i].tool = x.tool /\ hs[i].args = x.args}
<1>1. \A hs : alike(hs, c) = alike(hs, d)
  OBVIOUS
<1>2. Repeats(c, Recent(hist)) = Repeats(d, Recent(hist))
  BY <1>1 DEF Repeats
<1>3. QED
  BY <1>2 DEF Blocks

\* An interval from 1 on is as long as its last number.
LEMMA Interval == \A n \in Nat : IsFiniteSet(1..n) /\ Cardinality(1..n) = n
<1> TAKE n \in Nat
<1>1. CASE n = 0
  BY <1>1, FS_Interval
<1>2. CASE n # 0
  BY <1>2, FS_Interval
<1>3. QED
  BY <1>1, <1>2

\* What a turn's guards look at stays as it is while calls of this turn start.
LEMMA BeforeKeeps ==
  ASSUME history \in Seq(Calls), NEW call \in Calls, history' = Append(history, call)
  PROVE  \A t \in Int : t <= call.id[1] => Before(t)' = Before(t)
<1> SUFFICES ASSUME NEW t \in Int, t <= call.id[1] PROVE Before(t)' = Before(t)
  OBVIOUS
<1> DEFINE n == Len(history)
           old == {i \in DOMAIN history : history[i].id[1] < t}
<1>1. n \in Nat /\ DOMAIN history = 1..n /\ call.id[1] \in Int
  BY ToolTurnAssumption DEF Calls, Ids
<1>2. /\ DOMAIN history' = 1..(n + 1) /\ Len(history') = n + 1
      /\ history'[n + 1] = call /\ \A i \in 1..n : history'[i] = history[i]
  BY <1>1
<1>3. {i \in DOMAIN history' : history'[i].id[1] < t} = old
  BY <1>1, <1>2
<1>4. Cardinality(old) \in 0..n
  <2>1. old \subseteq 1..n /\ IsFiniteSet(1..n) /\ Cardinality(1..n) = n
    BY <1>1, Interval
  <2>2. QED
    BY <1>1, <2>1, FS_Subset, FS_CardinalityType
<1> HIDE DEF old
<1>5. \A k \in 0..n : SubSeq(history', 1, k) = SubSeq(history, 1, k)
  <2> TAKE k \in 0..n
  <2>1. history' \in Seq(Calls)
    OBVIOUS
  <2>2. SubSeq(history', 1, k) = [i \in 1..k |-> history'[i]]
    BY <1>1, <1>2, <2>1
  <2>3. SubSeq(history, 1, k) = [i \in 1..k |-> history[i]]
    BY <1>1
  <2>4. QED
    BY <1>1, <1>2, <2>2, <2>3
<1>6. QED
  BY <1>3, <1>4, <1>5 DEF Before, old

\* At the gate it is the whole history.
LEMMA BeforeAtGate == TypeOK /\ RanInv /\ AtGate => Before(turn) = history
<1> SUFFICES ASSUME TypeOK, RanInv, AtGate PROVE Before(turn) = history
  OBVIOUS
<1>1. history \in Seq(Calls) /\ Len(history) \in Nat /\ DOMAIN history = 1..Len(history)
  BY TypeParts DEF ActTypes
<1>2. {i \in DOMAIN history : history[i].id[1] < turn} = 1..Len(history)
  BY <1>1 DEF RanInv
<1>3. Cardinality(1..Len(history)) = Len(history)
  BY <1>1, Interval
<1>4. SubSeq(history, 1, Len(history)) = history
  BY <1>1
<1>5. QED
  BY <1>2, <1>3, <1>4 DEF Before

\* What has run keeps what the guards said of it.
LEMMA HeldKeeps ==
  ASSUME GuardsHold, UNCHANGED <<setup, history>>,
         \A h \in DOMAIN history : Edited(history[h])' <=> Edited(history[h])
  PROVE  GuardsHold'
<1> SUFFICES ASSUME NEW i \in DOMAIN history, NEW g \in DOMAIN setup.chain,
                    Behind(g) => ~Edited(history[i]) /\ ~Ahead(g)
             PROVE  ~Blocks(setup.chain[g], history[i], Before(history[i].id[1]))'
  BY DEF GuardsHold, Ahead, Behind, Reviewed
<1>1. ~Blocks(setup.chain[g], history[i], Before(history[i].id[1]))
  BY DEF GuardsHold, Ahead, Behind
<1>2. Before(history[i].id[1])' = Before(history[i].id[1])
  BY DEF Before
<1>3. QED
  BY <1>1, <1>2, BlocksKeeps

\* What a guard let pass stays so while its call does, or a reviewer behind it edits.
LEMMA LetKeeps ==
  ASSUME UNCHANGED <<setup, turn, asked>>, Before(turn)' = Before(turn),
         NEW i, NEW g, Let(i, g),
         pending'[i].id = pending[i].id, pending'[i] = pending[i] \/ Behind(g)
  PROVE  Let(i, g)'
<1>1. (Ahead(g)' <=> Ahead(g)) /\ (Behind(g)' <=> Behind(g))
  BY DEF Ahead, Behind, Reviewed
<1>2. \A guard, call : Blocks(guard, call, Before(turn))' <=> Blocks(guard, call, Before(turn))
  BY BlocksKeeps
<1>3. QED
  BY <1>1, <1>2 DEF Let

\* A step at the gate keeps GuardInv when it adds no guard that is passed
\* except one that let the call pass.
LEMMA GateLets ==
  ASSUME AllInv, AllInv', GuardInv, GateStep,
         \A i \in DOMAIN pending, g \in DOMAIN setup.chain :
           Past(i, g)' => \/ Past(i, g) /\ (pending'[i] = pending[i] \/ Behind(g))
                         \/ Let(i, g)',
         \A i \in DOMAIN pending :
           i > at' \/ (i = at' /\ ~Ahead(guardAt)') =>
             /\ i > at \/ (i = at /\ ~Ahead(guardAt))
             /\ pending'[i] = pending[i]
  PROVE  GuardInv'
<1> USE DEF AllInv, MessageInv
<1>1. /\ DOMAIN pending' = DOMAIN pending
      /\ \A i \in DOMAIN pending : pending'[i].id = pending[i].id
      /\ UNCHANGED <<setup, turn, asked, history>> /\ AtGate
      /\ Before(turn)' = Before(turn)
  BY GateKeeps DEF GateStep, GatePass, GateBlock, actVars, Before
<1>2. OriginalInv'
  BY <1>1 DEF GuardInv, OriginalInv
<1>3. LetInv'
  <2> SUFFICES ASSUME NEW i \in DOMAIN pending, NEW g \in DOMAIN setup.chain, Past(i, g)'
               PROVE  Let(i, g)'
    BY <1>1 DEF LetInv
  <2>1. CASE Past(i, g) /\ (pending'[i] = pending[i] \/ Behind(g))
    BY <1>1, <2>1, LetKeeps DEF GuardInv, LetInv
  <2>2. QED
    BY <2>1
<1>4. GuardsHold'
  BY <1>1, HeldKeeps DEF GuardInv, Edited
<1>5. QED
  BY <1>2, <1>3, <1>4 DEF GuardInv

\* A guard that blocks leaves the other calls; the chain starts anew.
LEMMA BlockLets ==
  ASSUME AllInv, AllInv', GuardInv, GateBlock,
         UNCHANGED <<setup, turn, actVars, asked, answered>>
  PROVE  GuardInv'
<1> USE DEF AllInv, MessageInv
<1>1. /\ GateStep /\ AtGate /\ at \in DOMAIN pending /\ pending' = pending /\ setup' = setup
      /\ at' = at + 1 /\ guardAt' = 1 /\ denied' = denied \cup {pending[at].id}
      /\ todo' = todo /\ pc' = "gate"
  BY DEF GateStep, GateBlock, BlockCall, actVars
<1>2. at \in Int /\ DOMAIN pending \subseteq Int /\ DOMAIN setup.chain \subseteq Nat \ {0}
  BY ChainFacts, TypeParts, BatchFacts DEF BatchTypes, Positions
<1>3. \A i \in DOMAIN pending, g \in DOMAIN setup.chain : Past(i, g)' => Past(i, g)
  <2> SUFFICES ASSUME NEW i \in DOMAIN pending, NEW g \in DOMAIN setup.chain, Past(i, g)'
               PROVE  Past(i, g)
    OBVIOUS
  <2>1. i < at + 1 /\ pending[i].id \notin denied' 
    BY <1>1, <1>2 DEF Past, Ready, AtGate
  <2>2. i # at /\ i < at
    BY <1>1, <1>2, <2>1
  <2>3. QED
    BY <1>1, <2>1, <2>2 DEF Past, Ready
<1>4. \A i \in DOMAIN pending : i > at' \/ i = at' => i > at
  BY <1>1, <1>2
<1>5. QED
  BY <1>1, <1>3, <1>4, GateLets

\* A guard that checks the call sees it as it is, and as it was made when no
\* reviewer came first.
LEMMA CheckLets == AllInv /\ AllInv' /\ GuardInv /\ CheckGuard => GuardInv'
<1> SUFFICES ASSUME AllInv, AllInv', GuardInv, CheckGuard PROVE GuardInv'
  OBVIOUS
<1> USE DEF AllInv, MessageInv
<1>1. /\ AtGate /\ AtGate' /\ pc = "gate" /\ pc' = "gate" /\ at \in DOMAIN pending
      /\ guardAt <= Len(setup.chain)
      /\ UNCHANGED <<setup, turn, pending, history, asked, actVars, answered>> /\ todo' = todo
  BY DEF CheckGuard, Checking, AtGate, actVars
<1>2. CASE Blocks(Guard, pending[at], history)
  BY <1>1, <1>2, BlockLets DEF CheckGuard, GateBlock
<1>3. CASE ~Blocks(Guard, pending[at], history)
  <2>1. at' = at /\ guardAt' = guardAt + 1 /\ denied' = denied
    BY <1>3 DEF CheckGuard, PassGuard
  <2>2. GateStep
    BY GateSteps
  <2>3. /\ guardAt \in Nat \ {0} /\ at \in Int /\ Len(setup.chain) \in Nat
        /\ DOMAIN setup.chain = 1..Len(setup.chain)
        /\ Before(turn) = history /\ Before(turn)' = history
    BY <1>1, ChainFacts, BeforeAtGate DEF Before
  <2>4. Let(at, guardAt)
    <3>1. ~Ahead(guardAt) => \A c \in asked : c.id = pending[at].id => c = pending[at]
      BY <1>1 DEF GuardInv, OriginalInv
    <3>2. QED
      BY <1>3, <2>3, <3>1 DEF Let, Guard
  <2>5. ASSUME NEW i, i = at, NEW g, g = guardAt PROVE Let(i, g)'
    BY <1>1, <2>3, <2>4, <2>5, LetKeeps
  <2>6. ASSUME NEW i \in DOMAIN pending, NEW g \in DOMAIN setup.chain, Past(i, g)', ~Past(i, g)
        PROVE  i = at /\ g = guardAt
    BY <1>1, <2>1, <2>3, <2>6 DEF Past, Ready
  <2>7. \A i \in DOMAIN pending : i = at /\ ~Ahead(guardAt)' => ~Ahead(guardAt)
    BY <1>1, <2>1, <2>3 DEF Ahead, Reviewed
  <2>8. \A i \in DOMAIN pending, g \in DOMAIN setup.chain :
          Past(i, g)' => Past(i, g) \/ Let(i, g)'
    BY <2>5, <2>6
  <2>9. \A i \in DOMAIN pending : i > at' \/ (i = at' /\ ~Ahead(guardAt)') =>
          i > at \/ (i = at /\ ~Ahead(guardAt))
    BY <2>1, <2>7
  <2>10. QED
    BY <1>1, <2>2, <2>8, <2>9, GateLets
<1>4. QED
  BY <1>2, <1>3

\* A call that is through the chain is past each guard.
LEMMA PassLets == AllInv /\ AllInv' /\ GuardInv /\ PassCall => GuardInv'
<1> SUFFICES ASSUME AllInv, AllInv', GuardInv, PassCall PROVE GuardInv'
  OBVIOUS
<1> USE DEF AllInv, MessageInv
<1>1. /\ AtGate /\ AtGate' /\ at \in DOMAIN pending /\ guardAt > Len(setup.chain)
      /\ at' = at + 1 /\ guardAt' = 1
      /\ UNCHANGED <<setup, turn, pending, history, asked, denied>> /\ todo' = todo
      /\ pc = "gate" /\ pc' = "gate"
  BY DEF PassCall, Checking, AtGate, actVars
<1>2. GateStep
  BY GateSteps
<1>3. /\ at \in Int /\ guardAt \in Nat /\ DOMAIN pending \subseteq Int
      /\ Len(setup.chain) \in Nat /\ DOMAIN setup.chain = 1..Len(setup.chain)
  BY ChainFacts, TypeParts, BatchFacts DEF BatchTypes, Positions
<1>4. \A i \in DOMAIN pending, g \in DOMAIN setup.chain : Past(i, g)' => Past(i, g)
  <2> SUFFICES ASSUME NEW i \in DOMAIN pending, NEW g \in DOMAIN setup.chain, Past(i, g)'
               PROVE  Past(i, g)
    OBVIOUS
  <2>1. i < at + 1 /\ pending[i].id \notin denied
    BY <1>1, <1>3 DEF Past, Ready
  <2>2. i = at \/ i < at
    BY <1>3, <2>1
  <2>3. g < guardAt
    BY <1>1, <1>3
  <2>4. QED
    BY <1>1, <2>1, <2>2, <2>3 DEF Past, Ready
<1>5. \A i \in DOMAIN pending : i > at' \/ i = at' => i > at
  BY <1>1, <1>3
<1>6. QED
  BY <1>1, <1>2, <1>4, <1>5, GateLets

\* Asking a human, and a human's answer, let no call pass.
LEMMA WaitLets ==
  /\ AllInv /\ AllInv' /\ GuardInv
  /\ RequestApproval \/ \E answer \in Answers : Resolve(answer)
  => GuardInv'
<1> SUFFICES ASSUME AllInv, AllInv', GuardInv,
                    RequestApproval \/ \E answer \in Answers : Resolve(answer)
             PROVE  GuardInv'
  OBVIOUS
<1> USE DEF AllInv, MessageInv
<1>1. /\ AtGate /\ AtGate' /\ pc' # "act"
      /\ UNCHANGED <<setup, at, guardAt, pending, denied>>
  BY DEF RequestApproval, Resolve, Checking, AtGate
<1>2. GateStep
  BY GateSteps
<1>3. \A i \in DOMAIN pending, g \in DOMAIN setup.chain : Past(i, g)' => Past(i, g)
  BY <1>1 DEF Past, Ready
<1>4. Ahead(guardAt)' <=> Ahead(guardAt)
  BY <1>1 DEF Ahead, Reviewed
<1>5. QED
  BY <1>1, <1>2, <1>3, <1>4, GateLets

\* A reviewer who approves edits behind the guards that the call is past.
LEMMA WakeLets == AllInv /\ AllInv' /\ GuardInv /\ Wake => GuardInv'
<1> SUFFICES ASSUME AllInv, AllInv', GuardInv, Wake PROVE GuardInv'
  OBVIOUS
<1> USE DEF AllInv, MessageInv
<1>1. /\ pc = "approval" /\ AtGate /\ AtGate' /\ pc' = "gate" /\ at \in DOMAIN pending
      /\ guardAt <= Len(setup.chain) /\ setup.chain[guardAt] = "hitl"
      /\ setup' = setup
  BY DEF Wake, AtGate, WhereInv, NeedsApproval, Guard
<1>2. GateStep
  BY GateSteps
<1>3. CASE future.decision # "approve"
  BY <1>1, <1>3, BlockLets DEF Wake, GateBlock
<1>4. CASE future.decision = "approve"
  <2>1. /\ pending' = [pending EXCEPT ![at].args = future.args]
        /\ guardAt' = guardAt + 1 /\ at' = at /\ denied' = denied
        /\ UNCHANGED <<turn, history, asked>>
    BY <1>4 DEF Wake, PassGuard, actVars
  <2>2. \A i \in DOMAIN pending : i # at => pending'[i] = pending[i]
    BY <2>1, TypeParts, BatchFacts DEF BatchTypes
  <2>3. /\ guardAt \in Nat \ {0} /\ at \in Int /\ Len(setup.chain) \in Nat
        /\ DOMAIN setup.chain = 1..Len(setup.chain)
    BY ChainFacts
  <2>4. ASSUME NEW i \in DOMAIN pending, NEW g \in DOMAIN setup.chain, Past(i, g)'
        PROVE  (Past(i, g) /\ (pending'[i] = pending[i] \/ Behind(g))) \/ Let(i, g)'
    <3>1. DOMAIN pending' = DOMAIN pending /\ pending'[i].id = pending[i].id
      BY <1>2, GateKeeps
    <3>2. CASE i # at
      <4>1. Past(i, g)
        BY <1>1, <2>1, <2>4, <3>1, <3>2 DEF Past, Ready
      <4>2. QED
        BY <2>2, <3>2, <4>1
    <3>3. CASE i = at /\ g < guardAt
      <4>1. Behind(g)
        BY <1>1, <2>3, <3>3 DEF Behind, Reviewed
      <4>2. Past(i, g)
        BY <1>1, <3>3 DEF Past
      <4>3. QED
        BY <4>1, <4>2
    <3>4. CASE i = at /\ g = guardAt
      BY <1>1, <3>4 DEF Let, Blocks
    <3>5. CASE i = at /\ g > guardAt
      BY <1>1, <2>1, <2>3, <2>4, <3>5 DEF Past, Ready
    <3>6. QED
      BY <2>3, <3>2, <3>3, <3>4, <3>5
  <2>5. Ahead(guardAt)'
    <3>1. guardAt \in 1..(guardAt' - 1)
      BY <2>1, <2>3
    <3>2. QED
      BY <1>1, <3>1 DEF Ahead, Reviewed
  <2>6. \A i \in DOMAIN pending : i > at' \/ (i = at' /\ ~Ahead(guardAt)') =>
          i > at /\ pending'[i] = pending[i]
    <3>1. \A i \in DOMAIN pending : i > at => i # at
      BY <2>3
    <3>2. QED
      BY <2>1, <2>2, <2>5, <3>1
  <2>7. QED
    BY <1>2, <2>4, <2>6, GateLets
<1>5. QED
  BY <1>3, <1>4

\* The calls of a new message have passed no guard, and are told from all others.
LEMMA AskLets == AllInv /\ AllInv' /\ GuardInv /\ Ask => GuardInv'
<1> SUFFICES ASSUME AllInv, AllInv', GuardInv, Ask PROVE GuardInv'
  OBVIOUS
<1> USE DEF AllInv, MessageInv
<1>1. /\ turn \in Int /\ turn' = turn + 1 /\ setup' = setup
      /\ \A i \in DOMAIN pending' : pending'[i].id = <<turn', i>>
      /\ asked' = asked \cup {pending'[i] : i \in DOMAIN pending'}
      /\ UNCHANGED <<history, todo>> /\ pc = "ask" /\ pc' = "gate"
  BY AskAdds DEF Ask
<1>2. at' = 1 /\ guardAt' = 1
  BY <1>1 DEF Ask, gateVars, ApprovalInv, RestInv, AtGate
<1>3. \A c \in asked : c.id[1] \in Int /\ c.id[1] <= turn
  BY IdFacts DEF NumberInv, AskedIds
<1>4. \A c \in asked, i \in DOMAIN pending' : c.id # pending'[i].id
  <2>1. \A i \in DOMAIN pending' : pending'[i].id[1] = turn + 1
    BY <1>1
  <2>2. QED
    BY <1>1, <1>3, <2>1
<1>5. OriginalInv'
  <2>1. ASSUME NEW c \in asked', NEW d \in asked', c.id = d.id PROVE c = d
    <3>1. CASE c \in asked /\ d \in asked
      BY <2>1, <3>1 DEF GuardInv, OriginalInv
    <3>2. CASE c \notin asked
      <4>1. PICK i \in DOMAIN pending' : c = pending'[i]
        BY <1>1, <3>2
      <4>2. PICK j \in DOMAIN pending' : d = pending'[j]
        BY <1>1, <1>4, <2>1, <4>1
      <4>3. i = j
        BY <1>1, <2>1, <4>1, <4>2
      <4>4. QED
        BY <4>1, <4>2, <4>3
    <3>3. CASE d \notin asked
      <4>1. PICK i \in DOMAIN pending' : d = pending'[i]
        BY <1>1, <3>3
      <4>2. PICK j \in DOMAIN pending' : c = pending'[j]
        BY <1>1, <1>4, <2>1, <4>1
      <4>3. i = j
        BY <1>1, <2>1, <4>1, <4>2
      <4>4. QED
        BY <4>1, <4>2, <4>3
    <3>4. QED
      BY <3>1, <3>2, <3>3
  <2>2. \A i \in DOMAIN pending' : pending'[i] \in asked'
    BY <1>1
  <2>3. QED
    BY <2>1, <2>2 DEF OriginalInv
<1>6. LetInv'
  <2>1. DOMAIN pending' \subseteq Nat \ {0} /\ DOMAIN setup'.chain \subseteq Nat \ {0}
    BY ChainFacts, TypeParts, BatchFacts, <1>1 DEF BatchTypes, Positions
  <2>2. QED
    BY <1>1, <1>2, <2>1 DEF LetInv, Past, Ready, AtGate
<1>7. GuardsHold'
  <2>1. ASSUME NEW h \in DOMAIN history
        PROVE  Edited(history[h])' <=> Edited(history[h])
    <3>1. PICK c \in asked : c.id = history[h].id
      BY DEF RanInv
    <3>2. \A i \in DOMAIN pending' : pending'[i].id # history[h].id
      BY <1>4, <3>1
    <3>3. QED
      BY <1>1, <3>2 DEF Edited
  <2>2. QED
    BY <1>1, <2>1, HeldKeeps DEF GuardInv
<1>8. QED
  BY <1>5, <1>6, <1>7 DEF GuardInv

\* The calls that s07_act gets are past every guard.
LEMMA GateEndLets == AllInv /\ GuardInv /\ GateEnd => GuardInv'
<1> SUFFICES ASSUME AllInv, GuardInv, GateEnd PROVE GuardInv'
  OBVIOUS
<1> USE DEF AllInv, MessageInv
<1>1. /\ pc = "gate" /\ AtGate /\ ~AtGate' /\ at \notin DOMAIN pending /\ todo' = Left
      /\ pc' \in {"ask", "act"} /\ pc' = "act" => Keep(Left)
      /\ UNCHANGED <<setup, turn, history, asked>>
  BY DEF GateEnd, Checked, AtGate
<1>2. \A i \in DOMAIN pending : i < at
  <2>1. PICK n \in 1..MaxBatch : DOMAIN pending = 1..n
    BY <1>1 DEF WhereInv
  <2>2. at \in Nat \ {0} /\ n \in Int
    BY ToolTurnAssumption, TypeParts DEF GateTypes
  <2>3. QED
    BY <1>1, <2>1, <2>2
<1>3. OriginalInv'
  BY <1>1 DEF GuardInv, OriginalInv
<1>4. LetInv'
  <2> SUFFICES ASSUME NEW i \in DOMAIN pending', NEW g \in DOMAIN setup.chain, Past(i, g)'
               PROVE  Let(i, g)'
    BY <1>1 DEF LetInv
  <2>1. pc' = "act" /\ i \in Left
    BY <1>1 DEF Past, Ready
  <2>2. pending'[i] = pending[i] /\ i \in DOMAIN pending /\ pending[i].id \notin denied
    BY <1>1, <2>1 DEF Keep, Left
  <2>3. Past(i, g)
    BY <1>1, <1>2, <2>2 DEF Past, Ready
  <2>4. Let(i, g) /\ Before(turn)' = Before(turn)
    BY <1>1, <2>2, <2>3 DEF GuardInv, LetInv, Before
  <2>5. QED
    BY <1>1, <2>2, <2>4, LetKeeps
<1>5. GuardsHold'
  BY <1>1, HeldKeeps DEF GuardInv, Edited
<1>6. QED
  BY <1>3, <1>4, <1>5 DEF GuardInv

\* A call that no guard stands against as it is, or as it was made, is one that
\* GuardsHold asks for.
LEMMA StartLets == AllInv /\ AllInv' /\ GuardInv /\ StartCall => GuardInv'
<1> SUFFICES ASSUME AllInv, AllInv', GuardInv, StartCall PROVE GuardInv'
  OBVIOUS
<1> USE DEF AllInv, MessageInv
<1>1. PICK i \in todo : history' = Append(history, pending[i]) /\ todo' = todo \ {i}
  BY DEF StartCall
<1>2. /\ pc = "act" /\ ~AtGate /\ ~AtGate' /\ pc' = "act"
      /\ UNCHANGED <<setup, turn, pending, asked>> /\ i \in DOMAIN pending
  BY DEF StartCall, AtGate, WhereInv
<1>3. /\ history \in Seq(Calls) /\ pending[i] \in Calls /\ pending[i].id = <<turn, i>>
      /\ turn \in Int /\ pending[i].id[1] = turn
  BY <1>2, IdFacts, TypeParts, BatchFacts DEF ActTypes, BatchTypes, NumberInv
<1>4. \A t \in Int : t <= turn => Before(t)' = Before(t)
  BY <1>1, <1>3, BeforeKeeps
<1>5. Before(turn)' = Before(turn)
  <2>1. Before(turn') = Before(turn)
    BY <1>2
  <2>2. ASSUME NEW t, t = turn PROVE Before(t)' = Before(t)
    BY <1>3, <1>4, <2>2
  <2>3. QED
    BY <1>2, <2>2 DEF Before
<1>6. OriginalInv'
  BY <1>2 DEF GuardInv, OriginalInv
<1>7. LetInv'
  <2> SUFFICES ASSUME NEW j \in DOMAIN pending, NEW g \in DOMAIN setup.chain, Past(j, g)'
               PROVE  Let(j, g)'
    BY <1>2 DEF LetInv
  <2>1. Past(j, g)
    BY <1>1, <1>2 DEF Past, Ready
  <2>2. QED
    BY <1>2, <1>5, <2>1, LetKeeps DEF GuardInv, LetInv
<1>8. GuardsHold'
  <2> SUFFICES ASSUME NEW h \in DOMAIN history', NEW g \in DOMAIN setup.chain,
                      NEW call, call = history'[h],
                      Behind(g) => ~Edited(call)' /\ ~Ahead(g)
               PROVE  ~Blocks(setup.chain[g], call, Before(call.id[1]))'
    BY <1>2 DEF GuardsHold, Ahead, Behind, Reviewed
  <2>1. Edited(call)' <=> Edited(call)
    BY <1>2 DEF Edited
  <2>2. call.id[1] \in Int /\ call.id[1] <= turn
    <3>1. call \in Calls /\ call.id \in Ids
      <4>1. history' \in Seq(Calls)
        BY <1>1, <1>3
      <4>2. call \in Calls
        BY <4>1
      <4>3. QED
        BY <4>2 DEF Calls
    <3>2. call.id[1] <= turn
      BY <1>2 DEF RanInv
    <3>3. QED
      BY <3>1, <3>2, IdFacts
  <2>3. Before(call.id[1])' = Before(call.id[1])
    BY <1>4, <2>2
  <2>4. ~Blocks(setup.chain[g], call, Before(call.id[1]))
    <3>1. CASE h \in DOMAIN history /\ history'[h] = history[h]
      BY <2>1, <3>1 DEF GuardInv, GuardsHold, Ahead, Behind
    <3>2. CASE call = pending[i]
      <4>1. Let(i, g)
        BY <1>2, <1>1 DEF GuardInv, LetInv, Past, Ready
      <4>2. CASE ~Behind(g)
        BY <1>3, <3>2, <4>1, <4>2 DEF Let
      <4>3. CASE Behind(g)
        <5>1. PICK c \in asked : c.id = call.id /\ c.args = call.args
          BY <2>1, <4>3 DEF Edited
        <5>2. PICK d \in asked : d.id = call.id /\ d.tool = call.tool
          BY <1>2, <3>2 DEF NumberInv
        <5>3. c.tool = call.tool
          BY <5>1, <5>2 DEF GuardInv, OriginalInv
        <5>4. ~Blocks(setup.chain[g], c, Before(turn))
          BY <3>2, <4>1, <4>3, <5>1 DEF Let
        <5>5. QED
          BY <1>3, <3>2, <5>1, <5>3, <5>4, BlocksAlike
      <4>4. QED
        BY <4>2, <4>3
    <3>3. QED
      BY <1>1, <1>3, <3>1, <3>2
  <2>5. QED
    BY <1>2, <2>3, <2>4, BlocksKeeps
<1>9. QED
  BY <1>6, <1>7, <1>8 DEF GuardInv

\* The other steps let nothing pass and start nothing.
LEMMA RestLets ==
  AllInv /\ GuardInv /\ (Finish \/ ActEnd \/ UNCHANGED vars) => GuardInv'
<1> SUFFICES ASSUME AllInv, GuardInv, Finish \/ ActEnd \/ UNCHANGED vars PROVE GuardInv'
  OBVIOUS
<1>1. /\ UNCHANGED <<setup, turn, history, asked>>
      /\ \/ pc = "act" /\ pc' # "act" /\ ~AtGate'
         \/ UNCHANGED <<pc, pending, at, guardAt, todo, denied>>
  BY DEF Finish, Succeed, Fail, End, ActEnd, vars, gateVars, actVars, AtGate
<1>2. GuardsHold'
  BY <1>1, HeldKeeps DEF GuardInv, Edited
<1>3. OriginalInv'
  BY <1>1 DEF GuardInv, OriginalInv, AtGate, Ahead, Reviewed
<1>4. LetInv'
  <2> SUFFICES ASSUME NEW i \in DOMAIN pending', NEW g \in DOMAIN setup.chain, Past(i, g)'
               PROVE  Let(i, g)'
    BY <1>1 DEF LetInv
  <2>1. UNCHANGED <<pending, turn>> /\ Past(i, g) /\ Before(turn)' = Before(turn)
    BY <1>1 DEF Past, Ready, AtGate, Before
  <2>2. QED
    BY <1>1, <2>1, LetKeeps DEF GuardInv, LetInv
<1>5. QED
  BY <1>2, <1>3, <1>4 DEF GuardInv

\* What has run was let pass by every guard, on the arguments it ran with unless
\* a reviewer edited it behind that guard (GuardsHold).
THEOREM GuardsObeyed == Spec => []GuardsHold
<1>1. Init => GuardInv
  BY DEF Init, GuardInv, OriginalInv, LetInv, GuardsHold, AtGate, Past
<1>2. AllInv /\ AllInv' /\ GuardInv /\ [Next]_vars => GuardInv'
  <2> SUFFICES ASSUME AllInv, AllInv', GuardInv, [Next]_vars PROVE GuardInv'
    OBVIOUS
  <2>1. CASE TimeOut
    BY <2>1, BlockLets DEF TimeOut, GateBlock, AtGate, AllInv, MessageInv, WhereInv
  <2>2. QED
    BY <2>1, CheckLets, PassLets, WaitLets, WakeLets, AskLets, GateEndLets, StartLets,
       RestLets DEF Next
<1>3. GuardInv => GuardsHold
  BY DEF GuardInv
<1>4. QED
  BY <1>1, <1>2, <1>3, InitApproval, StepApproval, PTL DEF Spec
=============================================================================
