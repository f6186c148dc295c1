---------------------------- MODULE MCServoTimer ----------------------------
(* As many servos as the timer takes; two long pulses take more than the   *)
(* refresh interval, two short ones less.                                  *)
EXTENDS ServoTimer

TwoPins == {"p", "q"}
TwoWidths == {2, 3}
=============================================================================
