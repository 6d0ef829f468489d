------------------------------ MODULE EventLog ------------------------------
(***************************************************************************)
(* What the consumer of a run's events may rely on: an append-only log, a  *)
(* cursor that moves over it one entry at a time, and an end that is       *)
(* reached exactly when the cursor passes a terminal entry.  Events may be *)
(* missing from the log (the emitter drops under back-pressure), but never *)
(* from the middle of what is in it.                                       *)
(***************************************************************************)
EXTENDS Integers, Sequences

CONSTANTS Entry, Terminal(_)

VARIABLES log, cursor, open

logVars == <<log, cursor, open>>

Init == log = <<>> /\ cursor = 0 /\ open = TRUE

Publish(e) ==
  /\ log' = Append(log, e)
  /\ UNCHANGED <<cursor, open>>

Read ==
  /\ open /\ cursor < Len(log)
  /\ cursor' = cursor + 1
  /\ open' = ~Terminal(log[cursor + 1])
  /\ UNCHANGED log

Next == (\E e \in Entry : Publish(e)) \/ Read

Spec == Init /\ [][Next]_logVars
=============================================================================
