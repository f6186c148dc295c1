------------------------------ MODULE Ranging ------------------------------
(***************************************************************************)
(* What a ranging initiator promises, without radio, clocks or responder:  *)
(* it measures again and again, and a measurement yields the true distance *)
(* or nothing, in which case the last result stands.  Only a reset forgets *)
(* it.                                                                     *)
(***************************************************************************)
CONSTANTS Distance,   \* what a measurement has to yield
          Unknown     \* nothing has been measured since the reset

VARIABLES result,     \* the last measurement
          measuring

Init == result = Unknown /\ measuring = FALSE

Begin == ~measuring /\ measuring' = TRUE /\ UNCHANGED result

Finish == measuring /\ measuring' = FALSE /\ result' \in {result, Distance}

Reset == measuring' = FALSE /\ result' = Unknown

Spec == Init /\ [][Begin \/ Finish \/ Reset]_<<result, measuring>>
=============================================================================
