--------------------------- MODULE MCUartCapture ---------------------------
(* Buffers of three bytes, and messages of any length.                     *)
EXTENDS UartCapture
=============================================================================
