------------------------- MODULE IRReceiver_proofs -------------------------
(***************************************************************************)
(* Proofs about IRReceiver, for any even buffer, any gap and any widths.   *)
(***************************************************************************)
EXTENDS IRReceiver, TLAPS

(* The clipped counter stays within its type.                              *)
LEMMA ClipRange == ASSUME NEW n \in 0..TickMax PROVE Clip(n) \in 0..TickMax
BY GapAssumption DEF Clip

(* Whatever is written to rawbuf fits an entry.                            *)
LEMMA EntryRange == ASSUME NEW n \in Nat PROVE n % EntryMod \in Entries
BY EntryAssumption DEF Entries

(* Why an entry is never written past the end: the MARK branch writes only *)
(* at odd places, and the buffer has an even number of them.               *)
Parity ==
    /\ StateForISR = "MARK" => rawlen % 2 = 1
    /\ StateForISR \in {"SPACE", "STOP"} => rawlen % 2 = 0 /\ rawlen > 0

ParityInv == TypeOK /\ Parity

(* The parities hold when the receiver is started.                         *)
LEMMA ParityInit == Init => ParityInv
<1> SUFFICES ASSUME Init PROVE ParityInv
  OBVIOUS
<1>1. rawbuf \in [0..BufLen-1 -> Entries]
  BY EntryAssumption DEF Init, Entries
<1>2. OverflowFlag \in BOOLEAN
  BY Zenon DEF Init
<1> QED
  BY <1>1, <1>2, GapAssumption, BufLenAssumption DEF Init, ParityInv, Parity, TypeOK

(* Writing an entry within the buffer.                                     *)
LEMMA RecordTyped ==
    ASSUME TypeOK, Record, rawlen < BufLen
    PROVE  /\ rawbuf' \in [0..BufLen-1 -> Entries]
           /\ rawlen' = rawlen + 1 /\ rawlen' \in 0..BufLen
           /\ TickCounterForISR' \in 0..TickMax
<1>1. Tick % EntryMod \in Entries
  BY ClipRange, EntryRange, GapAssumption DEF TypeOK, Tick
<1> QED
  BY <1>1, GapAssumption, BufLenAssumption DEF TypeOK, Record

(* Every interrupt and every step of the sketch keeps the parities.        *)
LEMMA ParityStep == ParityInv /\ [Next]_vars => ParityInv'
<1> SUFFICES ASSUME ParityInv, [Next]_vars PROVE ParityInv'
  OBVIOUS
<1> USE GapAssumption, BufLenAssumption
<1>0. TypeOK /\ Parity /\ Tick \in 0..TickMax
  BY ClipRange DEF ParityInv, TypeOK, Tick
<1>1. ASSUME NEW in \in Levels, Interrupt(in) PROVE ParityInv'
  <2>0. pc' = pc /\ flags' = flags
    BY <1>1 DEF Interrupt, sketch
  <2>1. CASE IdleTick(in)
    <3>1. OverflowFlag' \in BOOLEAN
      BY <1>0, <2>1, Zenon DEF IdleTick, TypeOK
    <3> QED
      BY <1>0, <2>0, <2>1, <3>1 DEF IdleTick, TypeOK, Parity, ParityInv
  <2>2. CASE MarkTick(in)
    <3>1. rawlen < BufLen
      BY <1>0, <2>2 DEF MarkTick, Parity, TypeOK
    <3>2. /\ rawbuf' \in [0..BufLen-1 -> Entries]
          /\ rawlen' \in 0..BufLen
          /\ TickCounterForISR' \in 0..TickMax
      BY <1>0, <2>2, <3>1, RecordTyped DEF MarkTick, TypeOK
    <3>3. Parity'
      BY SMTT(30), <1>0, <2>2 DEF MarkTick, Record, Parity, TypeOK
    <3> QED
      BY <1>0, <2>0, <2>2, <3>2, <3>3 DEF MarkTick, TypeOK, ParityInv
  <2>3. CASE SpaceTick(in)
    <3>1. /\ rawbuf' \in [0..BufLen-1 -> Entries]
          /\ rawlen' \in 0..BufLen
          /\ TickCounterForISR' \in 0..TickMax
      BY <1>0, <2>3, RecordTyped DEF SpaceTick, TypeOK
    <3>2. Parity'
      BY <1>0, <2>3 DEF SpaceTick, Record, Parity, TypeOK
    <3>3. OverflowFlag' \in BOOLEAN
      BY <1>0, <2>3, Zenon DEF SpaceTick, TypeOK
    <3>4. StateForISR' \in {"MARK", "SPACE", "STOP"} /\ resultLen' \in 0..BufLen
      BY <1>0, <2>3 DEF SpaceTick, TypeOK
    <3> QED
      BY <1>0, <2>0, <2>3, <3>1, <3>2, <3>3, <3>4
      DEF SpaceTick, TypeOK, ParityInv
  <2>4. CASE StopTick(in)
    BY <1>0, <2>0, <2>4 DEF StopTick, TypeOK, Parity, ParityInv
  <2> QED
    BY <1>1, <2>1, <2>2, <2>3, <2>4 DEF Interrupt
<1>2. CASE Sketch
  <2>1. CASE Poll
    BY <1>0, <2>1 DEF Poll, irparams, air, TypeOK, Parity, ParityInv
  <2>2. CASE InitDecodedIRData
    BY <1>0, <2>2
    DEF InitDecodedIRData, irparams, air, TypeOK, Parity, ParityInv
  <2>3. CASE ReadEntry
    BY <1>0, <2>3 DEF ReadEntry, irparams, air, TypeOK, Parity, ParityInv
  <2>4. CASE Resume
    BY <1>0, <2>4 DEF Resume, TypeOK, Parity, ParityInv
  <2> QED
    BY <1>2, <2>1, <2>2, <2>3, <2>4 DEF Sketch
<1>3. CASE UNCHANGED vars
  BY <1>0, <1>3 DEF vars, irparams, sketch, air, TypeOK, Parity, ParityInv
<1> QED
  BY <1>1, <1>2, <1>3 DEF Next

(* Types and parities hold in every reachable state.                       *)
LEMMA ParityInvariant == Spec => []ParityInv
BY ParityInit, ParityStep, PTL DEF Spec

(* The variables hold values of their types in every reachable state.      *)
THEOREM ReceiverTypeCorrect == Spec => []TypeOK
<1>1. ParityInv => TypeOK
  BY DEF ParityInv
<1> QED
  BY <1>1, ParityInvariant, PTL

(* No interrupt writes past rawbuf, whatever is on the air.                *)
THEOREM ReceiverNoOverrun == Spec => []NoOverrun
<1>1. ParityInv => NoOverrun
  BY BufLenAssumption DEF ParityInv, Parity, TypeOK, NoOverrun
<1> QED
  BY <1>1, ParityInvariant, PTL

-----------------------------------------------------------------------------
(* The counter against the clock: while a frame is recorded the counter is *)
(* one behind the current run; while the receiver is idle or stopped it    *)
(* counts from the last mark, or one short of that when it came from the   *)
(* space that ended a frame.                                               *)
AirTyped == level \in Levels /\ run \in 0..TickMax /\ silence \in 0..TickMax

CounterFollowsAir ==
    /\ StateForISR \in {"IDLE", "STOP"} =>
          /\ level = "mark" => TickCounterForISR = 0
          /\ level = "space" => \/ TickCounterForISR = run
                                \/ TickCounterForISR + 1 = run
    /\ StateForISR = "MARK" => level = "mark" /\ run = Clip(TickCounterForISR)
    /\ StateForISR = "SPACE" =>
          /\ level = "space" /\ run = Clip(TickCounterForISR)
          /\ TickCounterForISR =< GapTicks

GapInv == ParityInv /\ AirTyped /\ CounterFollowsAir /\ StartsAfterGap

(* The counter agrees with the air when the receiver is started.           *)
LEMMA GapInit == Init => GapInv
<1> SUFFICES ASSUME Init PROVE GapInv
  OBVIOUS
<1>1. ParityInv
  BY ParityInit
<1> QED
  BY <1>1, GapAssumption
  DEF Init, GapInv, AirTyped, CounterFollowsAir, StartsAfterGap, Levels

(* Every step keeps counter and air in agreement.                          *)
LEMMA GapStep == GapInv /\ [Next]_vars => GapInv'
<1> SUFFICES ASSUME GapInv, [Next]_vars PROVE GapInv'
  OBVIOUS
<1> USE GapAssumption
<1>0. /\ ParityInv' /\ TypeOK
      /\ AirTyped /\ CounterFollowsAir /\ StartsAfterGap
  BY ParityStep DEF GapInv, ParityInv
<1>1. ASSUME NEW in \in Levels, Interrupt(in) PROVE GapInv'
  <2> USE DEF TypeOK, AirTyped, CounterFollowsAir, StartsAfterGap, Clip, Tick
  <2>0. level' = in /\ run' = IF in = level THEN Clip(run) ELSE 1
    BY <1>1 DEF Interrupt, Hear
  <2>1. CASE IdleTick(in)
    <3>1. AirTyped'
      BY <1>0, <2>0, <2>1 DEF IdleTick
    <3>2. CounterFollowsAir'
      <4>1. CASE in = "mark" /\ Tick > GapTicks
        <5>1. level = "space"
          BY <1>0, <4>1, <2>1 DEF IdleTick, Levels
        <5> QED
          BY <1>0, <2>0, <2>1, <4>1, <5>1 DEF IdleTick
      <4>2. CASE ~(in = "mark" /\ Tick > GapTicks)
        BY <1>0, <2>0, <2>1, <4>2 DEF IdleTick, Levels
      <4> QED
        BY <4>1, <4>2
    <3>3. StartsAfterGap'
      BY <1>0, <2>0, <2>1 DEF IdleTick, Levels
    <3> QED
      BY <1>0, <3>1, <3>2, <3>3 DEF GapInv
  <2>2. CASE MarkTick(in)
    <3>1. AirTyped' /\ CounterFollowsAir' /\ StartsAfterGap'
      BY <1>0, <2>0, <2>2 DEF MarkTick, Record
    <3> QED
      BY <1>0, <3>1 DEF GapInv
  <2>3. CASE SpaceTick(in)
    <3>1. AirTyped' /\ CounterFollowsAir' /\ StartsAfterGap'
      BY <1>0, <2>0, <2>3 DEF SpaceTick, Record
    <3> QED
      BY <1>0, <3>1 DEF GapInv
  <2>4. CASE StopTick(in)
    <3>1. AirTyped' /\ StartsAfterGap'
      BY <1>0, <2>0, <2>4 DEF StopTick
    <3>2. in = "mark" \/ in = "space"
      BY DEF Levels
    <3>3. CounterFollowsAir'
      BY <1>0, <2>0, <2>4, <3>2 DEF StopTick, Levels
    <3> QED
      BY <1>0, <3>1, <3>3 DEF GapInv
  <2> QED
    BY <1>1, <2>1, <2>2, <2>3, <2>4 DEF Interrupt
<1>2. CASE Sketch
  <2>1. /\ UNCHANGED <<level, run, silence, TickCounterForISR, initialGapTicks>>
        /\ StateForISR' = StateForISR \/ (StateForISR = "STOP" /\ StateForISR' = "IDLE")
    BY <1>2 DEF Sketch, Poll, InitDecodedIRData, ReadEntry, Resume, irparams, air
  <2> QED
    BY <1>0, <2>1 DEF GapInv, AirTyped, CounterFollowsAir, StartsAfterGap
<1>3. CASE UNCHANGED vars
  BY <1>0, <1>3
  DEF vars, irparams, air, GapInv, AirTyped, CounterFollowsAir, StartsAfterGap
<1> QED
  BY <1>1, <1>2, <1>3 DEF Next

(* Counter and air agree in every reachable state.                         *)
LEMMA GapInvariant == Spec => []GapInv
BY GapInit, GapStep, PTL DEF Spec

(* Recording starts only after a silence of GapTicks, for any time at      *)
(* which the sketch resumes the receiver.                                  *)
THEOREM ReceiverStartsAfterGap == Spec => []StartsAfterGap
<1>1. GapInv => StartsAfterGap
  BY DEF GapInv
<1> QED
  BY <1>1, GapInvariant, PTL

-----------------------------------------------------------------------------
(* What has been recorded is what was heard, and a space that is part of a *)
(* frame is at most one tick longer than the gap.                          *)
RecordedIsHeard ==
    /\ heard \in Seq(0..TickMax)
    /\ StateForISR # "IDLE" =>
          /\ Len(heard) = rawlen - 1
          /\ \A i \in 1..rawlen-1 :
                /\ rawbuf[i] = heard[i] % EntryMod
                /\ i % 2 = 0 => heard[i] =< GapTicks + 1

(* Why the sketch may read without a lock: it only reads while the         *)
(* receiver is stopped.                                                    *)
ReadsWhileStopped ==
    /\ StateForISR \in {"MARK", "SPACE"} => OverflowFlag = FALSE
    /\ StateForISR = "STOP" /\ OverflowFlag = FALSE => resultLen = rawlen
    /\ pc # "poll" => StateForISR = "STOP"
    /\ pc = "read" \/ (pc = "use" /\ flags = "empty") => OverflowFlag = FALSE

GotIsPrefix ==
    /\ got \in Seq(Entries)
    /\ pc = "read" \/ (pc = "use" /\ flags = "empty") =>
          /\ Len(got) =< rawlen - 1
          /\ \A i \in 1..Len(got) : got[i] = rawbuf[i]
    /\ pc = "use" /\ flags = "empty" => Len(got) = rawlen - 1

HeardInv == GapInv /\ RecordedIsHeard /\ ReadsWhileStopped /\ GotIsPrefix

(* Nothing is recorded when the receiver is started.                       *)
LEMMA HeardInit == Init => HeardInv
<1> SUFFICES ASSUME Init PROVE HeardInv
  OBVIOUS
<1>1. GapInv
  BY GapInit
<1> QED
  BY <1>1 DEF Init, HeardInv, RecordedIsHeard, ReadsWhileStopped, GotIsPrefix

(* One more entry: a mark of any length, or a space no longer than the gap.*)
LEMMA RecordHears ==
    ASSUME GapInv, RecordedIsHeard, Record, StateForISR \in {"MARK", "SPACE"},
           rawlen < BufLen
    PROVE  /\ heard' \in Seq(0..TickMax)
           /\ Len(heard') = rawlen' - 1
           /\ \A i \in 1..rawlen'-1 :
                 /\ rawbuf'[i] = heard'[i] % EntryMod
                 /\ i % 2 = 0 => heard'[i] =< GapTicks + 1
<1> USE GapAssumption, BufLenAssumption
<1>0. TypeOK /\ Parity /\ AirTyped /\ CounterFollowsAir
  BY DEF GapInv, ParityInv
<1>1. /\ heard \in Seq(0..TickMax) /\ run \in 0..TickMax
      /\ rawlen \in 1..BufLen-1 /\ Len(heard) = rawlen - 1
  BY <1>0 DEF RecordedIsHeard, AirTyped, TypeOK, Parity
<1>2. Tick = run
  BY <1>0 DEF CounterFollowsAir, Tick
<1>3. /\ heard' = Append(heard, run) /\ rawlen' = rawlen + 1
      /\ rawbuf' = [rawbuf EXCEPT ![rawlen] = run % EntryMod]
  BY <1>2 DEF Record
<1>4. heard' \in Seq(0..TickMax) /\ Len(heard') = rawlen' - 1
  BY <1>1, <1>3
<1>5. rawlen % 2 = 0 => run =< GapTicks + 1
  BY <1>0 DEF Parity, CounterFollowsAir, Clip, TypeOK
<1>6. ASSUME NEW i \in 1..rawlen
      PROVE  /\ rawbuf'[i] = heard'[i] % EntryMod
             /\ i % 2 = 0 => heard'[i] =< GapTicks + 1
  <2>1. CASE i = rawlen
    BY <1>0, <1>1, <1>3, <1>5, <2>1 DEF TypeOK
  <2>2. CASE i # rawlen
    BY <1>0, <1>1, <1>3, <2>2 DEF TypeOK, RecordedIsHeard
  <2> QED
    BY <2>1, <2>2
<1>7. rawlen' - 1 = rawlen
  BY <1>1, <1>3
<1> QED
  BY <1>4, <1>6, <1>7

(* Every step keeps the record equal to what was heard.                    *)
LEMMA HeardStep == HeardInv /\ [Next]_vars => HeardInv'
<1> SUFFICES ASSUME HeardInv, [Next]_vars PROVE HeardInv'
  OBVIOUS
<1> USE GapAssumption, BufLenAssumption
<1>0. /\ GapInv' /\ GapInv /\ TypeOK /\ Parity
      /\ RecordedIsHeard /\ ReadsWhileStopped /\ GotIsPrefix
  BY GapStep DEF HeardInv, GapInv, ParityInv
<1>1. ASSUME NEW in \in Levels, Interrupt(in) PROVE HeardInv'
  <2>0. UNCHANGED <<pc, flags, got>>
    BY <1>1 DEF Interrupt, sketch
  <2>1. CASE IdleTick(in)
    <3>1. RecordedIsHeard'
      <4>1. CASE in = "mark" /\ Tick > GapTicks
        <5>1. heard' = <<>> /\ rawlen' = 1
          BY <2>1, <4>1 DEF IdleTick
        <5> QED
          BY <5>1 DEF RecordedIsHeard
      <4>2. CASE ~(in = "mark" /\ Tick > GapTicks)
        BY <1>0, <2>1, <4>2 DEF IdleTick, RecordedIsHeard
      <4> QED
        BY <4>1, <4>2
    <3>2. pc = "poll"
      BY <1>0, <2>1 DEF IdleTick, ReadsWhileStopped
    <3>3. ReadsWhileStopped' /\ GotIsPrefix'
      BY <1>0, <2>0, <2>1, <3>2 DEF IdleTick, ReadsWhileStopped, GotIsPrefix
    <3> QED
      BY <1>0, <3>1, <3>3 DEF HeardInv
  <2>2. CASE MarkTick(in)
    <3>1. rawlen < BufLen
      BY <1>0, <2>2 DEF MarkTick, Parity, TypeOK
    <3>2. RecordedIsHeard'
      BY <1>0, <2>2, <3>1, RecordHears DEF MarkTick, RecordedIsHeard
    <3>3. pc = "poll"
      BY <1>0, <2>2 DEF MarkTick, ReadsWhileStopped
    <3>4. ReadsWhileStopped' /\ GotIsPrefix'
      BY <1>0, <2>0, <2>2, <3>3 DEF MarkTick, ReadsWhileStopped, GotIsPrefix
    <3> QED
      BY <1>0, <3>2, <3>4 DEF HeardInv
  <2>3. CASE SpaceTick(in)
    <3>1. RecordedIsHeard'
      BY <1>0, <2>3, RecordHears DEF SpaceTick, RecordedIsHeard
    <3>2. pc = "poll"
      BY <1>0, <2>3 DEF SpaceTick, ReadsWhileStopped
    <3>3. ReadsWhileStopped' /\ GotIsPrefix'
      BY <1>0, <2>0, <2>3, <3>2 DEF SpaceTick, ReadsWhileStopped, GotIsPrefix
    <3> QED
      BY <1>0, <3>1, <3>3 DEF HeardInv
  <2>4. CASE StopTick(in)
    BY <1>0, <2>0, <2>4
    DEF StopTick, HeardInv, RecordedIsHeard, ReadsWhileStopped, GotIsPrefix
  <2> QED
    BY <1>1, <2>1, <2>2, <2>3, <2>4 DEF Interrupt
<1>2. CASE Poll
  BY <1>0, <1>2 DEF Poll, irparams, air, HeardInv, RecordedIsHeard,
                    ReadsWhileStopped, GotIsPrefix
<1>3. CASE InitDecodedIRData
  <2>1. RecordedIsHeard' /\ ReadsWhileStopped'
    BY <1>0, <1>3 DEF InitDecodedIRData, irparams, air, RecordedIsHeard,
                      ReadsWhileStopped, TypeOK
  <2>2. GotIsPrefix'
    BY <1>0, <1>3 DEF InitDecodedIRData, irparams, GotIsPrefix, TypeOK, Parity,
                      ReadsWhileStopped
  <2> QED
    BY <1>0, <2>1, <2>2 DEF HeardInv
<1>4. CASE ReadEntry
  <2>1. RecordedIsHeard' /\ ReadsWhileStopped'
    BY <1>0, <1>4 DEF ReadEntry, irparams, air, RecordedIsHeard, ReadsWhileStopped
  <2>2. resultLen = rawlen /\ StateForISR = "STOP"
    BY <1>0, <1>4 DEF ReadEntry, ReadsWhileStopped
  <2>3. CASE Len(got) + 1 < resultLen
    <3>1. Len(got) + 1 \in 1..BufLen-1 /\ Len(got) + 1 =< rawlen - 1
      BY <1>0, <2>2, <2>3 DEF GotIsPrefix, TypeOK
    <3>2. rawbuf[Len(got) + 1] \in Entries
      BY <1>0, <3>1 DEF TypeOK
    <3>3. got' = Append(got, rawbuf[Len(got) + 1]) /\ UNCHANGED <<pc, rawlen, rawbuf>>
      BY <1>4, <2>3 DEF ReadEntry, irparams
    <3> QED
      BY <1>0, <1>4, <2>1, <3>1, <3>2, <3>3 DEF ReadEntry, HeardInv, GotIsPrefix
  <2>4. CASE ~(Len(got) + 1 < resultLen)
    <3>1. Len(got) = rawlen - 1
      BY <1>0, <1>4, <2>2, <2>4 DEF ReadEntry, GotIsPrefix, TypeOK
    <3> QED
      BY <1>0, <1>4, <2>1, <2>4, <3>1 DEF ReadEntry, irparams, HeardInv, GotIsPrefix
  <2> QED
    BY <2>3, <2>4
<1>5. CASE Resume
  BY <1>0, <1>5 DEF Resume, air, HeardInv, RecordedIsHeard, ReadsWhileStopped,
                    GotIsPrefix
<1>6. CASE UNCHANGED vars
  BY <1>0, <1>6 DEF vars, irparams, sketch, air, HeardInv, RecordedIsHeard,
                    ReadsWhileStopped, GotIsPrefix
<1> QED
  BY <1>1, <1>2, <1>3, <1>4, <1>5, <1>6 DEF Next, Sketch

(* The record equals what was heard in every reachable state.              *)
LEMMA HeardInvariant == Spec => []HeardInv
BY HeardInit, HeardStep, PTL DEF Spec

(* A decoded frame is the signal that was on the air, for every signal and *)
(* every interleaving, provided an entry can hold the gap.                 *)
THEOREM ReceiverDecodesWhatWasHeard ==
    ASSUME GapTicks + 1 < EntryMod
    PROVE  Spec => []DecodedIsHeard
<1>1. HeardInv => DecodedIsHeard
  <2> SUFFICES ASSUME HeardInv, pc = "use", flags = "empty"
               PROVE  /\ Len(got) = Len(heard)
                      /\ \A i \in DOMAIN got :
                            got[i] = IF i % 2 = 1 THEN heard[i] % EntryMod
                                                  ELSE heard[i]
    BY DEF DecodedIsHeard
  <2>1. /\ TypeOK /\ got \in Seq(Entries) /\ heard \in Seq(0..TickMax)
        /\ Len(got) = rawlen - 1 /\ Len(heard) = rawlen - 1
        /\ \A i \in 1..rawlen-1 : got[i] = rawbuf[i]
        /\ \A i \in 1..rawlen-1 : /\ rawbuf[i] = heard[i] % EntryMod
                                  /\ i % 2 = 0 => heard[i] =< GapTicks + 1
    BY DEF HeardInv, GapInv, ParityInv, RecordedIsHeard, ReadsWhileStopped,
           GotIsPrefix
  <2>2. ASSUME NEW i \in 1..rawlen-1, i % 2 # 1 PROVE got[i] = heard[i]
    <3>1. heard[i] \in 0..EntryMod-1
      BY SMTT(30), <2>1, <2>2, GapAssumption, EntryAssumption DEF TypeOK
    <3> QED
      BY <2>1, <3>1, EntryAssumption
  <2> QED
    BY <2>1, <2>2
<1> QED
  BY <1>1, HeardInvariant, PTL

-----------------------------------------------------------------------------
(* The receiver seen as a mailbox: the frame in irparams while stopped.    *)
FrameThere == [overflow |-> OverflowFlag,
               data |-> [i \in 1..rawlen-1 |-> rawbuf[i]]]

(* A stopped receiver holds a frame: it begins and ends with a mark.       *)
LEMMA StoppedHoldsFrame ==
    ParityInv /\ StateForISR = "STOP" =>
        FrameThere \in [overflow : BOOLEAN, data : FrameData]
<1> SUFFICES ASSUME ParityInv, StateForISR = "STOP"
             PROVE  FrameThere \in [overflow : BOOLEAN, data : FrameData]
  OBVIOUS
<1> USE BufLenAssumption
<1>1. rawlen - 1 \in {k \in 1..BufLen-1 : k % 2 = 1}
  BY DEF ParityInv, TypeOK, Parity
<1>2. [i \in 1..rawlen-1 |-> rawbuf[i]] \in [1..rawlen-1 -> Entries]
  BY <1>1 DEF ParityInv, TypeOK
<1>3. [i \in 1..rawlen-1 |-> rawbuf[i]] \in FrameData
  <2>1. \A n \in {k \in 1..BufLen-1 : k % 2 = 1} :
           \A d \in [1..n -> Entries] : d \in FrameData
    BY DEF FrameData
  <2> QED
    BY <1>1, <1>2, <2>1, Zenon
<1>4. OverflowFlag \in BOOLEAN
  BY Zenon DEF ParityInv, TypeOK
<1> QED
  BY <1>3, <1>4, Zenon DEF FrameThere

LEMMA StoppingHoldsFrame ==
    (ParityInv /\ StateForISR = "STOP" =>
        FrameThere \in [overflow : BOOLEAN, data : FrameData])'
BY StoppedHoldsFrame, PTL

(* A frame is not the empty slot.                                          *)
LEMMA FrameIsThere == FrameThere # <<>>
<1>1. DOMAIN FrameThere = {"overflow", "data"} /\ DOMAIN <<>> = 1..0
  BY DEF FrameThere
<1>2. "data" \in {"overflow", "data"} /\ "data" \notin 1..0
  OBVIOUS
<1> QED
  BY <1>1, <1>2

(* The interrupt that completes a frame delivers it, poll takes it,        *)
(* resume() gives it back; nothing else touches the mailbox, although the  *)
(* interrupt goes on counting and the sketch goes on reading.              *)
THEOREM ReceiverIsMailbox == Spec => Mailbox!SafeSpec
<1>1. Init => Mailbox!Init
  BY DEF Init, Mailbox!Init
<1>2. HeardInv /\ [Next]_vars => [Mailbox!Next]_Mailbox!vars
  <2> SUFFICES ASSUME HeardInv, [Next]_vars
               PROVE  Mailbox!Next \/ UNCHANGED Mailbox!vars
    OBVIOUS
  <2>0. ParityInv' /\ ReadsWhileStopped
    BY HeardStep DEF HeardInv, GapInv
  <2>1. ASSUME NEW in \in Levels, Interrupt(in)
        PROVE  Mailbox!Next \/ UNCHANGED Mailbox!vars
    <3>0. pc' = pc
      BY <2>1 DEF Interrupt, sketch
    <3>1. CASE StateForISR # "STOP" /\ StateForISR' # "STOP"
      BY <3>0, <3>1 DEF Mailbox!vars
    <3>2. CASE StateForISR # "STOP" /\ StateForISR' = "STOP"
      <4>1. FrameThere' \in [overflow : BOOLEAN, data : FrameData]
        BY <2>0, <3>2, StoppingHoldsFrame, Zenon
      <4>2. Mailbox!Deliver
        BY <3>0, <3>2, <4>1 DEF Mailbox!Deliver, FrameThere
      <4> QED
        BY <4>2 DEF Mailbox!Next
    <3>3. CASE StateForISR = "STOP"
      <4>1. UNCHANGED <<StateForISR, OverflowFlag, rawlen, rawbuf>>
        BY <2>1, <3>3 DEF Interrupt, IdleTick, MarkTick, SpaceTick, StopTick
      <4> QED
        BY <3>0, <4>1 DEF Mailbox!vars
    <3> QED
      BY <3>1, <3>2, <3>3
  <2>2. CASE Poll
    <3>1. StateForISR = "STOP" /\ UNCHANGED <<StateForISR, OverflowFlag, rawlen, rawbuf>>
      BY <2>2 DEF Poll, irparams
    <3>2. pc = "poll" /\ pc' = "init"
      BY <2>2 DEF Poll
    <3>3. Mailbox!Take
      BY <3>1, <3>2, FrameIsThere DEF Mailbox!Take, FrameThere
    <3> QED
      BY <3>3 DEF Mailbox!Next
  <2>3. CASE InitDecodedIRData \/ ReadEntry
    <3>1. UNCHANGED <<StateForISR, OverflowFlag, rawlen, rawbuf>>
      BY <2>3 DEF InitDecodedIRData, ReadEntry, irparams
    <3>2. pc # "poll" /\ pc' # "poll"
      BY <2>3 DEF InitDecodedIRData, ReadEntry
    <3> QED
      BY <3>1, <3>2 DEF Mailbox!vars
  <2>4. CASE Resume
    <3>1. StateForISR' # "STOP" /\ pc = "use" /\ pc' = "poll"
      BY <2>4 DEF Resume
    <3> QED
      BY <3>1 DEF Mailbox!Next, Mailbox!Release
  <2>5. CASE UNCHANGED vars
    BY <2>5 DEF vars, irparams, sketch, Mailbox!vars
  <2> QED
    BY <2>1, <2>2, <2>3, <2>4, <2>5 DEF Next, Sketch
<1> QED
  BY <1>1, <1>2, HeardInvariant, PTL DEF Spec, Mailbox!SafeSpec
=============================================================================
