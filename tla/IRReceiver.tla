----------------------------- MODULE IRReceiver -----------------------------
(***************************************************************************)
(* IRremote's receiver: the timer interrupt that measures marks and spaces *)
(* and the sketch that polls decode() and calls resume().  They share      *)
(* irparams without a lock.  An interrupt can fall between any two steps   *)
(* of the sketch; the air may carry any signal at all.                     *)
(***************************************************************************)
EXTENDS Integers, Sequences

CONSTANTS
    GapTicks,   \* RECORD_GAP_TICKS: a longer space ends a frame
    BufLen,     \* RAW_BUFFER_LENGTH
    EntryMod,   \* an entry of rawbuf is unsigned, modulo this (2^8)
    TickMax     \* UINT16_MAX, where the tick counter stays

ASSUME GapAssumption ==
    GapTicks \in Nat \ {0} /\ TickMax \in Nat /\ GapTicks < TickMax
(* The #error of IRremoteInt.h.                                            *)
ASSUME BufLenAssumption == BufLen \in Nat \ {0} /\ BufLen % 2 = 0
ASSUME EntryAssumption == EntryMod \in Nat \ {0}

VARIABLES
    StateForISR, TickCounterForISR, OverflowFlag,
    rawlen, initialGapTicks,
    rawbuf,       \* entry 0 is unused
    resultLen,    \* IrReceiver.decodedIRData.rawlen, written by the interrupt
    pc,           \* what the sketch does next
    flags,        \* decodedIRData.flags
    got,          \* the entries the decoders have read so far
    level, run,   \* history: the level on the air, for how many ticks
    heard,        \* history: the durations on the air since recording began
    silence       \* history: the silence before recording began

irparams == <<StateForISR, TickCounterForISR, OverflowFlag, rawlen,
              initialGapTicks, rawbuf>>
sketch == <<pc, flags, got>>
air == <<level, run, heard, silence>>
vars == <<irparams, resultLen, sketch, air>>

Levels == {"mark", "space"}
Entries == 0..EntryMod-1

(* The types of irparams and of the sketch's variables.                    *)
TypeOK ==
    /\ StateForISR \in {"IDLE", "MARK", "SPACE", "STOP"}
    /\ TickCounterForISR \in 0..TickMax
    /\ OverflowFlag \in BOOLEAN
    /\ rawlen \in 0..BufLen
    /\ initialGapTicks \in 0..TickMax
    /\ rawbuf \in [0..BufLen-1 -> Entries]
    /\ resultLen \in 0..BufLen
    /\ pc \in {"poll", "init", "read", "use"}
    /\ flags \in {"empty", "overflow"}

-----------------------------------------------------------------------------
Init ==
    /\ StateForISR = "IDLE" /\ TickCounterForISR = 0 /\ OverflowFlag = FALSE
    /\ rawlen = 0 /\ initialGapTicks = 0 /\ rawbuf = [i \in 0..BufLen-1 |-> 0]
    /\ resultLen = 0
    /\ pc = "poll" /\ flags = "empty" /\ got = <<>>
    /\ level = "space" /\ run = 0 /\ heard = <<>> /\ silence = 0

(* Mutant: the counter is not clipped.                                     *)
ClipNever(n) == n + 1

Clip(n) == IF n < TickMax THEN n + 1 ELSE n

(* The counter after the increment every interrupt begins with.            *)
Tick == Clip(TickCounterForISR)

Hear(in) ==
    /\ level' = in
    /\ run' = IF in = level THEN Clip(run) ELSE 1

(* Mutant: the first entry of rawbuf is used.                              *)
IdleTickFromZero(in) ==
    /\ StateForISR = "IDLE"
    /\ \/ /\ in = "mark" /\ Tick > GapTicks
          /\ OverflowFlag' = FALSE /\ initialGapTicks' = Tick /\ rawlen' = 0
          /\ StateForISR' = "MARK" /\ TickCounterForISR' = 0
          /\ heard' = <<>> /\ silence' = IF level = "space" THEN run ELSE 0
       \/ /\ ~(in = "mark" /\ Tick > GapTicks)
          /\ TickCounterForISR' = IF in = "mark" THEN 0 ELSE Tick
          /\ UNCHANGED <<StateForISR, OverflowFlag, initialGapTicks, rawlen,
                         heard, silence>>
    /\ UNCHANGED <<rawbuf, resultLen>>

IdleTick(in) ==
    /\ StateForISR = "IDLE"
    /\ \/ /\ in = "mark" /\ Tick > GapTicks
          /\ OverflowFlag' = FALSE /\ initialGapTicks' = Tick /\ rawlen' = 1
          /\ StateForISR' = "MARK" /\ TickCounterForISR' = 0
          /\ heard' = <<>> /\ silence' = IF level = "space" THEN run ELSE 0
       \/ /\ ~(in = "mark" /\ Tick > GapTicks)
          /\ TickCounterForISR' = IF in = "mark" THEN 0 ELSE Tick
          /\ UNCHANGED <<StateForISR, OverflowFlag, initialGapTicks, rawlen,
                         heard, silence>>
    /\ UNCHANGED <<rawbuf, resultLen>>

(* Mutant: the counter runs on through the frame.                          *)
RecordRunOn ==
    /\ rawbuf' = [rawbuf EXCEPT ![rawlen] = Tick % EntryMod]
    /\ rawlen' = rawlen + 1
    /\ TickCounterForISR' = Tick
    /\ heard' = Append(heard, run)

(* rawbuf[rawlen++] = counter, and the counter starts over.                *)
Record ==
    /\ rawbuf' = [rawbuf EXCEPT ![rawlen] = Tick % EntryMod]
    /\ rawlen' = rawlen + 1
    /\ TickCounterForISR' = 0
    /\ heard' = Append(heard, run)

MarkTick(in) ==
    /\ StateForISR = "MARK"
    /\ \/ in = "space" /\ Record /\ StateForISR' = "SPACE"
       \/ /\ in = "mark" /\ TickCounterForISR' = Tick
          /\ UNCHANGED <<StateForISR, rawbuf, rawlen, heard>>
    /\ UNCHANGED <<OverflowFlag, initialGapTicks, resultLen, silence>>

SpaceTick(in) ==
    /\ StateForISR = "SPACE"
    /\ \/ /\ in = "mark" /\ rawlen >= BufLen
          /\ OverflowFlag' = TRUE /\ StateForISR' = "STOP"
          /\ TickCounterForISR' = 0
          /\ UNCHANGED <<rawbuf, rawlen, resultLen, heard>>
       \/ /\ in = "mark" /\ rawlen < BufLen
          /\ Record /\ StateForISR' = "MARK"
          /\ UNCHANGED <<OverflowFlag, resultLen>>
       \/ /\ in = "space" /\ TickCounterForISR' = Tick
          /\ IF Tick > GapTicks THEN StateForISR' = "STOP" /\ resultLen' = rawlen
                                ELSE UNCHANGED <<StateForISR, resultLen>>
          /\ UNCHANGED <<OverflowFlag, rawbuf, rawlen, heard>>
    /\ UNCHANGED <<initialGapTicks, silence>>

(* Mutants: a mark heard while stopped does not clear the counter; a new   *)
(* transmission replaces the frame nobody has fetched.                     *)
StopTickDeaf(in) ==
    /\ StateForISR = "STOP"
    /\ TickCounterForISR' = Tick
    /\ UNCHANGED <<StateForISR, OverflowFlag, initialGapTicks, rawlen, rawbuf,
                   resultLen, heard, silence>>
StopTickRestarts(in) ==
    /\ StateForISR = "STOP"
    /\ TickCounterForISR' = IF in = "mark" THEN 0 ELSE Tick
    /\ IF in = "mark" THEN StateForISR' = "MARK" /\ rawlen' = 1
                      ELSE UNCHANGED <<StateForISR, rawlen>>
    /\ UNCHANGED <<OverflowFlag, initialGapTicks, rawbuf, resultLen, heard,
                   silence>>

(* The gap before the next frame is counted while the sketch is busy.      *)
StopTick(in) ==
    /\ StateForISR = "STOP"
    /\ TickCounterForISR' = IF in = "mark" THEN 0 ELSE Tick
    /\ UNCHANGED <<StateForISR, OverflowFlag, initialGapTicks, rawlen, rawbuf,
                   resultLen, heard, silence>>

Interrupt(in) ==
    /\ IdleTick(in) \/ MarkTick(in) \/ SpaceTick(in) \/ StopTick(in)
    /\ Hear(in)
    /\ UNCHANGED sketch

-----------------------------------------------------------------------------
(* decode(): nothing happens unless a frame is there.                      *)
Poll ==
    /\ pc = "poll" /\ StateForISR = "STOP"
    /\ pc' = "init"
    /\ UNCHANGED <<irparams, resultLen, flags, got, air>>

(* Mutant: decode() reports an overflow as nothing received.               *)
InitDecodedIRDataFalse ==
    /\ pc = "init"
    /\ flags' = IF OverflowFlag THEN "overflow" ELSE "empty"
    /\ pc' = IF OverflowFlag THEN "poll" ELSE "read"
    /\ got' = <<>>
    /\ UNCHANGED <<irparams, resultLen, air>>

(* initDecodedIRData(); after an overflow decode() returns at once.        *)
InitDecodedIRData ==
    /\ pc = "init"
    /\ flags' = IF OverflowFlag THEN "overflow" ELSE "empty"
    /\ pc' = IF OverflowFlag THEN "use" ELSE "read"
    /\ got' = <<>>
    /\ UNCHANGED <<irparams, resultLen, air>>

(* A decoder looks at the next entry of the frame.                         *)
ReadEntry ==
    /\ pc = "read"
    /\ IF Len(got) + 1 < resultLen
       THEN got' = Append(got, rawbuf[Len(got) + 1]) /\ pc' = pc
       ELSE got' = got /\ pc' = "use"
    /\ UNCHANGED <<irparams, resultLen, flags, air>>

(* Mutant: resume() looks for the wrong state.                             *)
ResumeIdle ==
    /\ pc = "use"
    /\ StateForISR' = IF StateForISR = "IDLE" THEN "STOP" ELSE StateForISR
    /\ pc' = "poll"
    /\ UNCHANGED <<TickCounterForISR, OverflowFlag, rawlen, initialGapTicks,
                   rawbuf, resultLen, flags, got, air>>

(* The sketch has acted on the frame and calls resume().                   *)
Resume ==
    /\ pc = "use"
    /\ StateForISR' = IF StateForISR = "STOP" THEN "IDLE" ELSE StateForISR
    /\ pc' = "poll"
    /\ UNCHANGED <<TickCounterForISR, OverflowFlag, rawlen, initialGapTicks,
                   rawbuf, resultLen, flags, got, air>>

Sketch == Poll \/ InitDecodedIRData \/ ReadEntry \/ Resume

Next == Sketch \/ \E in \in Levels : Interrupt(in)

Spec == Init /\ [][Next]_vars

(* loop() runs for ever between the interrupts, and the timer never stops: *)
(* an air that stays as it is goes on being sampled.  (Fairness of any     *)
(* interrupt at all would force the air to change.)                        *)
FairSpec == Spec /\ WF_vars(Sketch) /\ WF_vars(Interrupt(level))

-----------------------------------------------------------------------------
(* The interrupt never writes an entry beyond rawbuf, although the MARK    *)
(* branch does not look at RAW_BUFFER_LENGTH at all.                       *)
NoOverrun == StateForISR = "MARK" => rawlen < BufLen

(* What the decoders read is what was on the air, entry by entry: no tick  *)
(* lost or counted twice, no entry of another frame.  A mark may be longer *)
(* than an entry can hold, and is then kept modulo its width.              *)
DecodedIsHeard ==
    pc = "use" /\ flags = "empty" =>
        /\ Len(got) = Len(heard)
        /\ \A i \in DOMAIN got :
              got[i] = IF i % 2 = 1 THEN heard[i] % EntryMod ELSE heard[i]

(* Recording never begins in the middle of a transmission, whenever        *)
(* resume() is called, and the gap on record is the silence there was (one *)
(* more if the counter was last cleared by a mark heard while stopped).    *)
StartsAfterGap ==
    StateForISR # "IDLE" =>
        /\ silence >= GapTicks
        /\ initialGapTicks \in {silence, Clip(silence)}

(* A complete frame, or an overflow, is always taken: the receiver does    *)
(* not stay stopped.                                                       *)
NeverStuckStopped == StateForISR = "STOP" ~> StateForISR = "IDLE"

(* Once the air falls silent the receiver ends up ready for a new frame,   *)
(* whatever it was in the middle of.                                       *)
SettlesWhenQuiet == <>[](level = "space") => <>[](StateForISR = "IDLE")

(* The comment of IRremoteInt.h on the 8-bit buffer: every duration that   *)
(* is recorded fits an entry.                                              *)
EntriesAreDurations == pc = "use" /\ flags = "empty" => got = heard

FrameData == UNION {[1..n -> Entries] : n \in {k \in 1..BufLen-1 : k % 2 = 1}}

(* The receiver seen as a mailbox.                                         *)
Mailbox == INSTANCE FrameMailbox WITH
    Frames <- [overflow : BOOLEAN, data : FrameData],
    NoFrame <- <<>>,
    slot <- IF StateForISR = "STOP"
            THEN [overflow |-> OverflowFlag,
                  data |-> [i \in 1..rawlen-1 |-> rawbuf[i]]]
            ELSE <<>>,
    reading <- pc # "poll"

(* The receiver implements the mailbox: a frame begins and ends with a     *)
(* mark, and stays put from the interrupt that completes it until the      *)
(* sketch calls resume(), which it always does.                            *)
ImplementsMailbox == Mailbox!Spec
=============================================================================
