----------------------------- MODULE MCToolTurn -----------------------------
(***************************************************************************)
(* Setups on which TLC checks module ToolTurn.                             *)
(***************************************************************************)
EXTENDS ToolTurn

CONSTANTS read, write, a, b

MCNames == {read, write}
MCArgs  == {a, b}

\* Nothing is required but that write with b comes after some read.
Prior == [c \in MCNames \X MCArgs |-> IF c = <<write, b>> THEN {read} ELSE {}]

\* The gate with all guards, the reviewer last: what he edits is not looked at again.
ReviewLast == [
  chain |-> <<"diversity", "precondition", "hitl">>, maxRepeats |-> 1, window |-> 0,
  prior |-> Prior, risky |-> {write}, timed |-> TRUE,
  strategy |-> "default", readOnly |-> {read}, budget |-> 3, failureLimit |-> 2]

\* The reviewer first: the other guards see what he made of the call.
ReviewFirst == [ReviewLast EXCEPT
  !.chain = <<"hitl", "diversity", "precondition">>, !.timed = FALSE,
  !.strategy = "parallel_read", !.window = 1]

\* A reviewer on both sides of a guard.
ReviewTwice == [ReviewLast EXCEPT
  !.chain = <<"hitl", "precondition", "hitl">>, !.timed = FALSE]

\* Strict mode behind the preconditions.
Strict == [ReviewLast EXCEPT !.chain = <<"precondition">>, !.strategy = "strict_no_error"]

\* No guards; read-only calls together.
Parallel == [ReviewLast EXCEPT !.chain = <<>>, !.strategy = "parallel_read"]

MCSetups == {ReviewLast, ReviewFirst, ReviewTwice, Strict, Parallel}
=============================================================================
