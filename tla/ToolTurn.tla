------------------------------ MODULE ToolTurn ------------------------------
(***************************************************************************)
(* What becomes of the tool calls of one assistant message, turn after     *)
(* turn: the pre_tool hook of the policy gate (stages/s05_policy) runs a   *)
(* chain of guards on each call, one of which may wait for a human         *)
(* (core/state.py: request_approval, resolve_approval); s07_act runs what  *)
(* is left, one call after the other or the read-only ones together; all   *)
(* results go into one message.  Module Pipeline does this in two steps.   *)
(*                                                                         *)
(* Left to the data: the preview kept in pd_stores and the guide text that  *)
(* s07_act appends only change the size of a result, chosen freely here.   *)
(***************************************************************************)
EXTENDS Integers, Sequences, FiniteSets

CONSTANTS
  Names,      \* tools
  Args,       \* what a call may be given
  Setups,     \* the setups a behaviour may have
  MaxTurns,   \* bound: assistant messages with tool calls
  MaxBatch,   \* bound: tool calls of one message
  Sizes       \* bound: the sizes a tool's result may have

Guards == {"diversity", "precondition", "hitl"}

\* The parameters of s05_policy's guards and of s07_act.
SetupType == [
  chain      : Seq(Guards),
  maxRepeats : Nat \ {0},
  window     : Nat,                          \* 0: the whole history
  prior      : [Names \X Args -> SUBSET Names], \* require_prior of the rules that match
  risky      : SUBSET Names,                 \* tools whose annotations trigger HITL
  timed      : BOOLEAN,                      \* timeout_sec > 0
  strategy   : {"default", "parallel_read", "strict_no_error"},
  readOnly   : SUBSET Names,
  budget     : Nat,                          \* result_budget
  failureLimit : Nat \ {0}]                  \* tool_consecutive_failure_limit

ASSUME ToolTurnAssumption ==
  /\ Setups \subseteq SetupType
  /\ MaxTurns \in Nat /\ MaxBatch \in Nat /\ Sizes \subseteq Nat

Mark == 1   \* length of the note that a result was cut

\* A call is known by its turn and its position in the assistant's message;
\* positions keep their calls when the gate removes others.
Positions == 1..MaxBatch
Ids   == (1..MaxTurns) \X Positions
Calls == [id : Ids, tool : Names, args : Args]
Batches == UNION {[held -> Calls] : held \in SUBSET Positions}

\* What a reviewer can say: no, or yes with arguments (edited or not).
Deny     == [decision |-> "deny"]
Answers  == {Deny} \cup [decision : {"approve"}, args : Args]
NoAnswer == [decision |-> "none"]

VARIABLES
  setup,       \* the setup of this behaviour
  pc,          \* "ask", "gate", "approval", "act" or "stopped"
  turn,        \* state.loop_iteration
  pending,     \* state.pending_tool_calls: position -> call
  at,          \* the gate: position of the call it checks
  guardAt,     \* the gate: position in the chain
  future,      \* state._approval_futures[id of the call]: its result, if any
  heard,       \* the request now waiting has reached the users
  firstAnswer, \* history: call -> first answer accepted to its newest request
  results,     \* state.tool.results
  todo,        \* s07_act: calls not started
  active,      \* s07_act: calls being executed
  total,       \* s07_act: total_chars
  sent,        \* history: characters of results sent in this turn, notes excluded
  streak,      \* state.metadata["tool_failure_streak"]
  history,     \* state.tool_call_history
  asked,       \* history: the calls as the LLM made them
  answered,    \* history: the ids whose tool_result is in the messages
  denied,      \* the ids the gate blocked: blocked_ids, of all turns
  completed    \* history: how executed calls ended, in order

gateVars   == <<at, guardAt, future, heard, firstAnswer>>
actVars    == <<todo, active, total, sent, streak, history, completed>>
vars == <<setup, pc, turn, pending, gateVars, results, actVars, asked, answered, denied>>

TypeOK ==
  /\ setup \in Setups
  /\ pc \in {"ask", "gate", "approval", "act", "stopped"}
  /\ turn \in 0..MaxTurns
  /\ pending \in Batches
  /\ at \in 1..(MaxBatch + 1)
  /\ guardAt \in Nat \ {0}
  /\ future \in Answers \cup {NoAnswer}
  /\ heard \in BOOLEAN
  /\ firstAnswer \in [Ids -> Answers \cup {NoAnswer}]
  /\ results \subseteq [id : Ids, ok : BOOLEAN]
  /\ todo \subseteq Positions /\ active \subseteq Positions
  /\ total \in Nat /\ sent \in Nat
  /\ streak \in [Names -> Nat]
  /\ history \in Seq(Calls)
  /\ asked \subseteq Calls
  /\ answered \subseteq Ids
  /\ denied \subseteq Ids
  /\ completed \in Seq([tool : Names, ok : BOOLEAN, guided : BOOLEAN])

Init ==
  /\ setup \in Setups
  /\ pc = "ask" /\ turn = 0 /\ pending = <<>>
  /\ at = 1 /\ guardAt = 1 /\ future = NoAnswer
  /\ heard = FALSE /\ firstAnswer = [i \in Ids |-> NoAnswer]
  /\ results = {} /\ todo = {} /\ active = {} /\ total = 0 /\ sent = 0
  /\ streak = [n \in Names |-> 0]
  /\ history = <<>> /\ asked = {} /\ answered = {} /\ denied = {} /\ completed = <<>>

\* The main call: the assistant asks for one or more calls, some maybe alike.
Ask ==
  /\ pc = "ask" /\ turn < MaxTurns
  /\ turn' = turn + 1
  /\ \E n \in 1..MaxBatch : \E batch \in [1..n -> Names \X Args] :
       pending' = [i \in 1..n |->
         [id |-> <<turn + 1, i>>, tool |-> batch[i][1], args |-> batch[i][2]]]
  /\ asked' = asked \cup {pending'[i] : i \in DOMAIN pending'}
  /\ pc' = "gate"
  /\ UNCHANGED <<setup, gateVars, results, actVars, answered, denied>>

-----------------------------------------------------------------------------
(* The gate: _check_pre_tool, GuardChain.invoke_async *)

\* The entries a ToolDiversityGuard looks at.
Recent(hist) ==
  IF setup.window = 0 \/ Len(hist) <= setup.window THEN hist
  ELSE SubSeq(hist, Len(hist) - setup.window + 1, Len(hist))

Repeats(call, hist) ==
  Cardinality({i \in DOMAIN hist : hist[i].tool = call.tool /\ hist[i].args = call.args})

\* ToolDiversityGuard.check and ToolPreconditionGuard.check.
Blocks(guard, call, hist) ==
  CASE guard = "diversity" -> Repeats(call, Recent(hist)) >= setup.maxRepeats
    [] guard = "precondition" ->
         \E tool \in setup.prior[<<call.tool, call.args>>] :
           \A i \in DOMAIN hist : hist[i].tool # tool
    [] guard = "hitl" -> FALSE

Checking == pc = "gate" /\ at \in DOMAIN pending
Checked  == pc = "gate" /\ at \notin DOMAIN pending
Guard    == setup.chain[guardAt]
NeedsApproval == Guard = "hitl" /\ pending[at].tool \in setup.risky

\* The call has passed this guard: on to the next.
PassGuard == guardAt' = guardAt + 1 /\ UNCHANGED <<at, results, denied>>

\* A block ends the chain: the call gets an error result at once.
BlockCall ==
  /\ results' = results \cup {[id |-> pending[at].id, ok |-> FALSE]}
  /\ denied' = denied \cup {pending[at].id}
  /\ at' = at + 1 /\ guardAt' = 1

CheckGuard ==
  /\ Checking /\ guardAt <= Len(setup.chain) /\ ~NeedsApproval
  /\ IF Blocks(Guard, pending[at], history) THEN BlockCall ELSE PassGuard
  /\ UNCHANGED <<setup, pc, turn, pending, future, heard, firstAnswer, actVars, asked,
                 answered>>

\* The chain is over for this call.
PassCall ==
  /\ Checking /\ guardAt > Len(setup.chain)
  /\ at' = at + 1 /\ guardAt' = 1
  /\ UNCHANGED <<setup, pc, turn, pending, future, heard, firstAnswer, results,
                 actVars, asked, answered, denied>>

\* request_approval: register the future, announce it, wait.  The emitter drops
\* the announcement when its queue is full.
RequestApproval ==
  /\ Checking /\ guardAt <= Len(setup.chain) /\ NeedsApproval
  /\ pc' = "approval"
  /\ future' = NoAnswer
  /\ heard' \in BOOLEAN
  /\ firstAnswer' = [firstAnswer EXCEPT ![pending[at].id] = NoAnswer]
  /\ UNCHANGED <<setup, turn, pending, at, guardAt, results, actVars, asked,
                 answered, denied>>

\* resolve_approval, called by a user who heard of the request; it changes
\* nothing when the request is over or has its answer.
Resolve(answer) ==
  /\ pc = "approval" /\ heard
  /\ future = NoAnswer
  /\ future' = answer
  /\ firstAnswer' = [firstAnswer EXCEPT ![pending[at].id] = IF @ = NoAnswer THEN answer ELSE @]
  /\ UNCHANGED <<setup, pc, turn, pending, at, guardAt, heard, results, actVars,
                 asked, answered, denied>>

\* Mutant: an approval settles the whole chain.
WakeAndPass ==
  /\ pc = "approval" /\ future # NoAnswer
  /\ pc' = "gate"
  /\ future' = NoAnswer
  /\ IF future.decision = "approve"
       THEN /\ pending' = [pending EXCEPT ![at].args = future.args]
            /\ at' = at + 1 /\ guardAt' = 1
            /\ UNCHANGED <<results, denied>>
       ELSE pending' = pending /\ BlockCall
  /\ heard' = FALSE
  /\ UNCHANGED <<setup, turn, firstAnswer, actVars, asked, answered>>

\* The waiting guard wakes up with the answer; an approval may edit the
\* arguments of the pending call, for the guards behind this one and the tool.
Wake ==
  /\ pc = "approval" /\ future # NoAnswer
  /\ pc' = "gate"
  /\ future' = NoAnswer
  /\ IF future.decision = "approve"
       THEN pending' = [pending EXCEPT ![at].args = future.args] /\ PassGuard
       ELSE pending' = pending /\ BlockCall
  /\ heard' = FALSE
  /\ UNCHANGED <<setup, turn, firstAnswer, actVars, asked, answered>>

\* Mutant: silence is consent.
TimeOutApproves ==
  /\ pc = "approval" /\ setup.timed
  /\ pc' = "gate"
  /\ future' = NoAnswer
  /\ heard' = FALSE
  /\ PassGuard
  /\ UNCHANGED <<setup, turn, pending, firstAnswer, actVars, asked, answered>>

\* Mutant: the clock starts when a user has heard of the request.
TimeOutOnceHeard ==
  /\ pc = "approval" /\ setup.timed /\ heard
  /\ pc' = "gate"
  /\ future' = NoAnswer
  /\ heard' = FALSE
  /\ BlockCall
  /\ UNCHANGED <<setup, turn, pending, firstAnswer, actVars, asked, answered>>

\* wait_for expires.  From Python 3.12 on this may still happen between the
\* answer and the wake-up.
TimeOut ==
  /\ pc = "approval" /\ setup.timed
  /\ pc' = "gate"
  /\ future' = NoAnswer
  /\ heard' = FALSE
  /\ BlockCall
  /\ UNCHANGED <<setup, turn, pending, firstAnswer, actVars, asked, answered>>

FlushResults ==
  /\ answered' = answered \cup {r.id : r \in results}
  /\ results' = {}
  /\ pending' = <<>>

\* The calls that are left when the gate has blocked some.
Left == {i \in DOMAIN pending : pending[i].id \notin denied}
Keep(held) == pending' = [i \in held |-> pending[i]]

\* Mutant: s07_act is left to flush, even when it has nothing to run.
GateEndUnflushed ==
  /\ Checked
  /\ pc' = IF Left = {} THEN "ask" ELSE "act"
  /\ Keep(Left)
  /\ todo' = Left
  /\ at' = 1
  /\ UNCHANGED <<setup, turn, guardAt, future, heard, firstAnswer, results, total, sent,
                 active, streak, history, completed, asked, answered, denied>>

\* All calls are checked: the blocked ones leave pending; when none is left
\* s07_act will be bypassed, so the gate flushes.
GateEnd ==
  /\ Checked
  /\ \/ Left = {} /\ pc' = "ask" /\ FlushResults
     \/ Left # {} /\ pc' = "act" /\ Keep(Left) /\ UNCHANGED <<results, answered>>
  /\ todo' = Left
  /\ at' = 1
  /\ UNCHANGED <<setup, turn, guardAt, future, heard, firstAnswer, total, sent, active, streak,
                 history, completed, asked, denied>>

-----------------------------------------------------------------------------
(* s07_act *)

\* The order in which the calls start: that of the message, but parallel_read
\* takes the read-only ones first.
Together(call) == setup.strategy = "parallel_read" /\ call.tool \in setup.readOnly
Precedes(i, j) ==
  \/ Together(pending[i]) /\ ~Together(pending[j])
  \/ i < j /\ (Together(pending[j]) => Together(pending[i]))

\* A call starts when nothing else runs, or together with other reads.
StartCall ==
  /\ pc = "act"
  /\ \E i \in todo :
       /\ \A j \in todo \ {i} : Precedes(i, j)
       /\ active = {} \/ Together(pending[i])
       /\ history' = Append(history, pending[i])
       /\ active' = active \cup {i}
       /\ todo' = todo \ {i}
  /\ UNCHANGED <<setup, pc, turn, pending, gateVars, results, total, sent, streak, completed,
                 asked, answered, denied>>

\* What _execute_single is told of the characters already used.
CurrentChars(call) == IF Together(call) THEN 0 ELSE total

\* Call i leaves with a result.
End(i, ok, guided) ==
  /\ pc = "act" /\ i \in active
  /\ results' = results \cup {[id |-> pending[i].id, ok |-> ok]}
  /\ completed' = Append(completed, [tool |-> pending[i].tool, ok |-> ok, guided |-> guided])
  /\ active' = active \ {i}
  /\ UNCHANGED <<setup, pc, turn, pending, gateVars, todo, history, asked, answered, denied>>

\* Mutant: a success does not end a series of failures.
SucceedKeepingStreak(i) ==
  /\ End(i, TRUE, FALSE)
  /\ \E size \in Sizes : sent' = sent + size /\ total' = total + size
  /\ UNCHANGED streak

\* The tool returned a text, which is cut at what the budget leaves.
Succeed(i) ==
  /\ End(i, TRUE, FALSE)
  /\ \E size \in Sizes :
       LET used == CurrentChars(pending[i])
           left == IF used >= setup.budget THEN 0 ELSE setup.budget - used
           fits == used + size <= setup.budget
       IN /\ sent' = sent + (IF fits THEN size ELSE left)
          /\ total' = total + (IF fits THEN size ELSE left + Mark)
  /\ streak' = [streak EXCEPT ![pending[i].tool] = 0]

\* The tool raised or timed out; after failureLimit failures in a row the error
\* text tells the LLM to stop calling it.
Fail(i) ==
  /\ End(i, FALSE, streak[pending[i].tool] + 1 >= setup.failureLimit)
  /\ streak' = [streak EXCEPT ![pending[i].tool] = @ + 1]
  /\ UNCHANGED <<total, sent>>

\* The results are flushed; under strict_no_error a failed call (one that was
\* denied does not count) makes this turn the last.
ActEnd ==
  /\ pc = "act" /\ todo = {} /\ active = {}
  /\ pc' = IF /\ setup.strategy = "strict_no_error"
              /\ \E r \in results : ~r.ok /\ r.id \notin denied
             THEN "stopped" ELSE "ask"
  /\ FlushResults
  /\ total' = 0 /\ sent' = 0
  /\ UNCHANGED <<setup, turn, gateVars, todo, active, streak, history, completed, asked,
                 denied>>

-----------------------------------------------------------------------------
Gate   == CheckGuard \/ PassCall \/ RequestApproval \/ GateEnd
Finish == \E i \in Positions : Succeed(i) \/ Fail(i)

Next ==
  \/ Ask
  \/ CheckGuard \/ PassCall \/ RequestApproval \/ GateEnd
  \/ \E answer \in Answers : Resolve(answer)
  \/ Wake \/ TimeOut
  \/ StartCall \/ Finish \/ ActEnd

Spec == Init /\ [][Next]_vars

\* The event loop runs what can run, timers expire, and wait_for ends every
\* tool; nobody has to answer a request for approval.
FairSpec ==
  /\ Spec
  /\ WF_vars(Gate) /\ WF_vars(Wake) /\ WF_vars(TimeOut)
  /\ WF_vars(StartCall) /\ WF_vars(Finish) /\ WF_vars(ActEnd)
-----------------------------------------------------------------------------
(* Properties *)

\* A denied call never runs, no call runs twice, and none runs that the LLM did
\* not make (with these arguments or, after an approval, with others).
DeniedNeverRun ==
  /\ \A i \in DOMAIN history : history[i].id \notin denied
  /\ \A i, j \in DOMAIN history : history[i].id = history[j].id => i = j
  /\ \A i \in DOMAIN history :
       \E c \in asked : c.id = history[i].id /\ c.tool = history[i].tool

\* A call that needs a human runs only if the first answer given to its request
\* was yes, and with the arguments of that answer: no later answer, time-out or
\* lost announcement lets it pass.
ApprovedAsRun ==
  \A i \in DOMAIN history :
    ("hitl" \in {setup.chain[k] : k \in DOMAIN setup.chain}
       /\ history[i].tool \in setup.risky) =>
      /\ firstAnswer[history[i].id].decision = "approve"
      /\ history[i].args = firstAnswer[history[i].id].args

\* Every call that ran, with the arguments it ran with, satisfies each guard of
\* the chain on the history before its turn, unless a reviewer behind that guard
\* has edited it, or reviewers on both sides of the guard may have.
Before(t) == SubSeq(history, 1, Cardinality({i \in DOMAIN history : history[i].id[1] < t}))
Edited(call) == \A c \in asked : c.id = call.id => c.args # call.args
Reviewed(places) == \E h \in places : setup.chain[h] = "hitl"
GuardsHold ==
  \A i \in DOMAIN history, g \in DOMAIN setup.chain :
    LET call   == history[i]
        ahead  == Reviewed(1..(g - 1))
        behind == Reviewed((g + 1)..Len(setup.chain))
    IN (behind => ~Edited(call) /\ ~ahead) =>
         ~Blocks(setup.chain[g], call, Before(call.id[1]))

\* The results of one turn stay within result_budget where the calls run one
\* after the other.
SequentialBudget == setup.strategy # "parallel_read" => sent <= setup.budget

\* The LLM is told to stop calling a tool exactly when this failure of it is at
\* least the failureLimit-th since its last success, over all turns and in the
\* order in which the calls end.
Since(i) == {j \in 1..i : /\ completed[j].tool = completed[i].tool
                          /\ \A k \in j..i :
                               completed[k].tool = completed[i].tool => ~completed[k].ok}
StreakTold ==
  \A i \in DOMAIN completed :
    completed[i].guided <=> Cardinality(Since(i)) >= setup.failureLimit

\* A gate with a time limit lets every turn end, heard or not, answered or not.
TurnEnds == (pc = "gate" /\ setup.timed) ~> pc \in {"ask", "stopped"}

\* The calls of a message are answered together before the LLM is asked again,
\* whatever the guards, the reviewers and the tools do (module ToolExchange).
Exchange == INSTANCE ToolExchange WITH
  Call <- Ids,
  open <- {c.id : c \in asked} \ answered,
  closed <- answered
ImplementsExchange == Exchange!Spec
=============================================================================
