----------------------------- MODULE TaskGraph -----------------------------
(***************************************************************************)
(* What an orchestrator promises: every task runs at most once, and only   *)
(* when all tasks it waits for have ended; the whole is over when all have *)
(* ended.                                                                  *)
(***************************************************************************)
CONSTANT Names

VARIABLES
  tasks,     \* the tasks of this graph
  waitsFor,  \* for each task the tasks whose results it needs
  begun,
  ended,
  over

vars == <<tasks, waitsFor, begun, ended, over>>

Init ==
  /\ tasks \in SUBSET Names
  /\ waitsFor \in [Names -> SUBSET Names]
  /\ begun = {} /\ ended = {} /\ over = FALSE

Begin ==
  \E new \in SUBSET (tasks \ begun) :
    /\ \A t \in new : waitsFor[t] \subseteq ended
    /\ begun' = begun \cup new
    /\ UNCHANGED <<tasks, waitsFor, ended, over>>

End ==
  \E t \in begun \ ended :
    /\ ended' = ended \cup {t}
    /\ UNCHANGED <<tasks, waitsFor, begun, over>>

Finish ==
  /\ ended = tasks
  /\ over' = TRUE
  /\ UNCHANGED <<tasks, waitsFor, begun, ended>>

Next == Begin \/ End \/ Finish

Spec == Init /\ [][Next]_vars
=============================================================================
