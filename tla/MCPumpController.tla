-------------------------- MODULE MCPumpController --------------------------
(* Values for the runs of PumpController.                                  *)
EXTENDS PumpController

(* All contacts but one: the high contact of channel 2 stays open.         *)
FivePins == ((1..NumChannels) \X {"low", "high", "kill"}) \ {<<2, "high">>}
KillPins == (1..NumChannels) \X {"kill"}
=============================================================================
