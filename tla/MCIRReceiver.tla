---------------------------- MODULE MCIRReceiver ----------------------------
(* IRReceiver with a four-entry buffer for TLC.                            *)
EXTENDS IRReceiver
=============================================================================
