---------------------------- MODULE MCEspClient ----------------------------
(* Two sockets, and requests of two pieces.                                *)
EXTENDS EspClient
=============================================================================
