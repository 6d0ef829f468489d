---------------------------- MODULE RunLifecycle ----------------------------
(***************************************************************************)
(* What an observer of a run may rely on: it is set up, takes a number of  *)
(* turns fixed beforehand at most, wraps up and gives one verdict.  Success *)
(* is only given after the wrap-up; failure and cancellation may come at    *)
(* any time before.                                                        *)
(***************************************************************************)
EXTENDS Integers

VARIABLES
  limit,    \* the most turns this run may take
  phase,
  turns,
  verdict   \* the empty sequence until the verdict is given

lifeVars == <<limit, phase, turns, verdict>>

Init == limit \in Nat /\ phase = "setup" /\ turns = 0 /\ verdict = <<>>

Ready == phase = "setup" /\ phase' = "turns" /\ UNCHANGED <<turns, verdict>>

Turn ==
  /\ phase = "turns" /\ turns < limit
  /\ turns' = turns + 1
  /\ UNCHANGED <<phase, verdict>>

WrapUp == phase = "turns" /\ phase' = "wrapup" /\ UNCHANGED <<turns, verdict>>

End(result) ==
  /\ phase # "over" /\ verdict = <<>>
  /\ result = "success" => phase = "wrapup"
  /\ phase' = "over"
  /\ verdict' = <<result>>
  /\ UNCHANGED turns

Next ==
  /\ \/ Ready \/ Turn \/ WrapUp
     \/ \E result \in {"success", "failure", "cancelled"} : End(result)
  /\ UNCHANGED limit

Spec == Init /\ [][Next]_lifeVars
=============================================================================
