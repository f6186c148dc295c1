--------------------------- MODULE MCIRRemoteCar ---------------------------
(* The car with the limits of the sketch.                                  *)
EXTENDS IRRemoteCar
=============================================================================
