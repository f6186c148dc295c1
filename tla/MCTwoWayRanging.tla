--------------------------- MODULE MCTwoWayRanging ---------------------------
EXTENDS TwoWayRanging

(* A reset at any moment brings the clocks to every offset.                *)
OnePhase == {0}
=============================================================================
