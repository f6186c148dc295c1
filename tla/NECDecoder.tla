----------------------------- MODULE NECDecoder -----------------------------
(***************************************************************************)
(* What IrReceiver.decode() makes of a frame of a NEC remote control.  A   *)
(* key sends its code once; while it is held only short repeat frames      *)
(* follow, which carry no code: the decoder completes them from what it    *)
(* decoded before.  The gap before a frame, which only sets a flag, and    *)
(* the address, handled as the command is, are left out.                   *)
(***************************************************************************)
CONSTANT Codes  \* the codes a key can send

Zero == "zero"  \* no command, no raw data
Hash == "hash"  \* what decodeHash makes of a frame no decoder knows

(* A code, a repeat, a garbled frame, or more marks than the buffer holds. *)
Frames == Codes \cup {"repeat", "noise", "overflow"}

VARIABLES
    decoded,     \* decodedIRData: the command, and decodedRawData
    lastCommand, \* lastDecodedCommand
    heard        \* history: the code of the last frame but repeats, or Zero

DecoderTypeOK ==
    /\ decoded \in [command : Codes \cup {Zero}, raw : Codes \cup {Zero, Hash}]
    /\ lastCommand \in Codes \cup {Zero}
    /\ heard \in Codes \cup {Zero}

InitDecoder ==
    /\ decoded = [command |-> Zero, raw |-> Zero]
    /\ lastCommand = Zero /\ heard = Zero

(* initDecodedIRData: an overflow leaves lastDecodedCommand alone.         *)
SavedCommand(f) == IF f = "overflow" THEN lastCommand ELSE decoded.command

(* Mutant: initDecodedIRData forgets to clear decodedRawData.              *)
DecodedKeepsRaw(f) ==
    CASE f \in Codes -> [command |-> f, raw |-> f]
      [] f = "repeat" -> [command |-> SavedCommand(f), raw |-> decoded.raw]
      [] f = "noise" -> [command |-> Zero, raw |-> Hash]
      [] f = "overflow" -> [command |-> Zero, raw |-> decoded.raw]

(* Mutant: a repeat reports the saved command before this call saves it.   *)
DecodedBeforeSaving(f) ==
    CASE f \in Codes -> [command |-> f, raw |-> f]
      [] f = "repeat" -> [command |-> lastCommand, raw |-> Zero]
      [] f = "noise" -> [command |-> Zero, raw |-> Hash]
      [] f = "overflow" -> [command |-> Zero, raw |-> Zero]

(* decodedIRData after initDecodedIRData and the decoders.                 *)
Decoded(f) ==
    CASE f \in Codes -> [command |-> f, raw |-> f]
      [] f = "repeat" -> [command |-> SavedCommand(f), raw |-> Zero]
      [] f = "noise" -> [command |-> Zero, raw |-> Hash]
      [] f = "overflow" -> [command |-> Zero, raw |-> Zero]

(* decode() finds frame f complete.                                        *)
DecodeFrame(f) ==
    /\ decoded' = Decoded(f)
    /\ lastCommand' = SavedCommand(f)
    /\ heard' = CASE f \in Codes -> f
                  [] f = "repeat" -> heard
                  [] OTHER -> Zero
=============================================================================
