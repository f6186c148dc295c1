----------------------- MODULE PumpController_proofs -----------------------
(***************************************************************************)
(* Proofs about PumpController, for any number of channels, any set of     *)
(* wired contacts and any clock width.                                     *)
(***************************************************************************)
EXTENDS PumpController, TLAPS

(* Everything a step of the clock writes stays a reading of millis().      *)
LEMMA ReadingInRange ==
    ASSUME NEW a \in Int
    PROVE  a % MillisMod \in 0..MillisMod-1
BY ClockAssumption

(* The types hold when setup() returns.                                    *)
LEMMA TypeInit == Init => TypeOK
<1> USE NumChannelsAssumption, BoundsAssumption, ClockAssumption
<1> SUFFICES ASSUME Init PROVE TypeOK
  OBVIOUS
<1>1. closed \subseteq Pins /\ 1 \in Channels
  BY WiredAssumption DEF Init, Channels
<1>2. ledPin \in BOOLEAN
  BY Zenon DEF Init
<1> QED
  BY <1>1, <1>2 DEF Init, TypeOK, Sensors

(* Every step of loop() and of the contacts keeps the types.               *)
LEMMA TypeStep == TypeOK /\ [Next]_vars => TypeOK'
<1> USE NumChannelsAssumption, BoundsAssumption, ClockAssumption
<1> SUFFICES ASSUME TypeOK, [Next]_vars PROVE TypeOK'
  OBVIOUS
<1> USE DEF TypeOK
<1>1. CASE ReadLow
  BY <1>1 DEF ReadLow, ReadPin, env, clock, Pins, Sensors
<1>2. CASE ReadHigh
  BY <1>2 DEF ReadHigh, ReadPin, env, clock, Pins, Sensors
<1>3. CASE ReadKill
  BY <1>3 DEF ReadKill, ReadPin, env, clock, Pins, Sensors, Channels
<1>4. CASE Decide
  BY <1>4 DEF Decide, env, clock, LedState
<1>5. ASSUME NEW d \in 0..MaxLag, HandleBlink(d) PROVE TypeOK'
  <2>1. millis' \in 0..MillisMod-1
    BY <1>5, ReadingInRange DEF HandleBlink, Elapse
  <2>2. blinkT' \in 0..MillisMod-1
    BY <1>5, <2>1 DEF HandleBlink
  <2>3. blinkStep' \in 0..2
    BY <1>5 DEF HandleBlink
  <2>4. ledPin' \in BOOLEAN
    BY <1>5, Zenon DEF HandleBlink, LedState
  <2> QED
    BY <1>5, <2>1, <2>2, <2>3, <2>4 DEF HandleBlink, env
<1>6. ASSUME NEW d \in 0..MaxLag, HandleDisplay(d) PROVE TypeOK'
  <2>1. millis' \in 0..MillisMod-1
    BY <1>6, ReadingInRange DEF HandleDisplay, Elapse
  <2> QED
    BY <1>6, <2>1 DEF HandleDisplay, Channels, Sensors
<1>7. ASSUME NEW p \in Wired, Flip(p) PROVE TypeOK'
  BY <1>7, WiredAssumption DEF Flip, clock
<1>8. CASE Reset
  <2>1. ledPin' \in BOOLEAN
    BY <1>8, Zenon DEF Reset
  <2> QED
    BY <1>8, <2>1 DEF Reset, Channels, Sensors
<1>9. CASE UNCHANGED vars
  BY <1>9 DEF vars
<1> HIDE DEF TypeOK
<1> QED
  BY <1>1, <1>2, <1>3, <1>4, <1>5, <1>6, <1>7, <1>8, <1>9
  DEF Next, Loop, Blink, Display

(* The variables hold values of their types in every reachable state.      *)
THEOREM TypeCorrect == Spec => []TypeOK
BY TypeInit, TypeStep, PTL DEF Spec

-----------------------------------------------------------------------------
(* HeldStops is not inductive: a decision uses readings, the history       *)
(* variables record contacts.  The missing link is that a reading taken in *)
(* this iteration is a value its contact had in this iteration.            *)

(* The pin of sensor s of channel c was read in this iteration.            *)
WasRead(c, s) ==
    \/ pc \in {"decide", "blink", "display"}
    \/ c < ch
    \/ c = ch /\ pc = "high" /\ s = "low"
    \/ c = ch /\ pc = "kill" /\ s \in {"low", "high"}

(* A contact not seen open is closed, and one not seen closed is open.     *)
HistoryIsExact ==
    /\ Pins \ openSeen \subseteq closed
    /\ closed \subseteq closedSeen

(* The reading of a pin that was read is a value its contact had.          *)
ReadingsAreFresh ==
    \A c \in Channels, s \in Sensors :
        WasRead(c, s) => /\ <<c, s>> \in openSeen \/ <<c, s>> \in last
                         /\ <<c, s>> \in closedSeen \/ <<c, s>> \notin last

HeldNeverOpen == held \cap openSeen = {}

PumpInv ==
    /\ TypeOK
    /\ HistoryIsExact
    /\ ReadingsAreFresh
    /\ HeldNeverOpen
    /\ HeldStops

(* The invariant holds when setup() returns.                               *)
LEMMA PumpInvInit == Init => PumpInv
<1> SUFFICES ASSUME Init PROVE PumpInv
  OBVIOUS
<1>1. TypeOK
  BY TypeInit
<1>2. HistoryIsExact
  BY DEF Init, HistoryIsExact
<1>3. ReadingsAreFresh
  BY NumChannelsAssumption DEF Init, ReadingsAreFresh, WasRead, Channels
<1>4. HeldNeverOpen /\ HeldStops
  BY DEF Init, HeldNeverOpen, HeldStops
<1> QED
  BY <1>1, <1>2, <1>3, <1>4 DEF PumpInv

(* Reading one more pin keeps the readings fresh.                          *)
LEMMA OneMoreReading ==
    ASSUME PumpInv, NEW s \in Sensors, ReadPin(s),
           \A c \in Channels, t \in Sensors :
               WasRead(c, t)' => WasRead(c, t) \/ (c = ch /\ t = s)
    PROVE  HistoryIsExact' /\ ReadingsAreFresh' /\ HeldNeverOpen' /\ HeldStops'
<1> USE DEF ReadPin, env, PumpInv
<1>1. HistoryIsExact'
  BY DEF HistoryIsExact, Pins
<1>2. ReadingsAreFresh'
  <2> SUFFICES ASSUME NEW c \in Channels, NEW t \in Sensors, WasRead(c, t)'
               PROVE  /\ <<c, t>> \in openSeen \/ <<c, t>> \in last'
                      /\ <<c, t>> \in closedSeen \/ <<c, t>> \notin last'
    BY DEF ReadingsAreFresh
  <2>1. CASE c = ch /\ t = s
    BY <2>1 DEF HistoryIsExact, Pins
  <2>2. CASE ~(c = ch /\ t = s)
    <3>1. WasRead(c, t)
      BY <2>2
    <3>2. <<c, t>> \in last' <=> <<c, t>> \in last
      BY <2>2
    <3> QED
      BY <3>1, <3>2 DEF ReadingsAreFresh
  <2> QED
    BY <2>1, <2>2
<1>3. HeldNeverOpen' /\ HeldStops'
  BY DEF HeldNeverOpen, HeldStops
<1> QED
  BY <1>1, <1>2, <1>3

(* Every step keeps it; reads by OneMoreReading, the rest one by one.      *)
LEMMA PumpInvStep == PumpInv /\ [Next]_vars => PumpInv'
<1> SUFFICES ASSUME PumpInv, [Next]_vars PROVE PumpInv'
  OBVIOUS
<1> USE NumChannelsAssumption
<1>0. /\ TypeOK' /\ TypeOK
      /\ HistoryIsExact /\ ReadingsAreFresh /\ HeldNeverOpen /\ HeldStops
  BY TypeStep DEF PumpInv
<1>1. CASE ReadLow
  <2>1. \A c \in Channels, t \in Sensors :
          WasRead(c, t)' => WasRead(c, t) \/ (c = ch /\ t = "low")
    BY <1>1 DEF ReadLow, ReadPin, WasRead
  <2> QED
    BY <1>0, <1>1, <2>1, OneMoreReading DEF PumpInv, ReadLow, Sensors
<1>2. CASE ReadHigh
  <2>1. \A c \in Channels, t \in Sensors :
          WasRead(c, t)' => WasRead(c, t) \/ (c = ch /\ t = "high")
    BY <1>2 DEF ReadHigh, ReadPin, WasRead
  <2> QED
    BY <1>0, <1>2, <2>1, OneMoreReading DEF PumpInv, ReadHigh, Sensors
<1>3. CASE ReadKill
  <2>1. ASSUME NEW c \in Channels, NEW t \in Sensors, WasRead(c, t)'
        PROVE  WasRead(c, t) \/ (c = ch /\ t = "kill")
    <3>1. c =< ch
      BY <1>0, <1>3, <2>1 DEF ReadKill, ReadPin, WasRead, Channels, TypeOK
    <3> QED
      BY <1>0, <1>3, <3>1
      DEF ReadKill, ReadPin, WasRead, Channels, Sensors, TypeOK
  <2> QED
    BY <1>0, <1>3, <2>1, OneMoreReading DEF PumpInv, ReadKill, Sensors
<1>4. CASE Decide
  <2>1. HistoryIsExact' /\ ReadingsAreFresh'
    BY <1>0, <1>4 DEF HistoryIsExact, ReadingsAreFresh, WasRead, Decide, env
  <2>2. HeldStops'
    BY <1>0, <1>4
    DEF HeldStops, ReadingsAreFresh, WasRead, Decide, Decision, Pins, Sensors
  <2> QED
    BY <1>0, <1>4, <2>1, <2>2 DEF PumpInv, HeldNeverOpen, Decide, env
<1>5. ASSUME NEW d \in 0..MaxLag, HandleBlink(d) PROVE PumpInv'
  <2>1. HistoryIsExact' /\ ReadingsAreFresh'
    BY <1>0, <1>5 DEF HistoryIsExact, ReadingsAreFresh, WasRead, HandleBlink, env
  <2> QED
    BY <1>0, <1>5, <2>1 DEF PumpInv, HeldNeverOpen, HeldStops, HandleBlink, env
<1>6. ASSUME NEW d \in 0..MaxLag, HandleDisplay(d) PROVE PumpInv'
  <2>1. \A c \in Channels, s \in Sensors : ~WasRead(c, s)'
    BY <1>6 DEF WasRead, HandleDisplay, Channels
  <2>2. HistoryIsExact' /\ ReadingsAreFresh'
    BY <1>6, <2>1 DEF HistoryIsExact, ReadingsAreFresh, HandleDisplay
  <2>3. HeldNeverOpen'
    BY <1>0, <1>6 DEF HeldNeverOpen, HistoryIsExact, HandleDisplay, TypeOK
  <2> QED
    BY <1>0, <1>6, <2>2, <2>3 DEF PumpInv, HeldStops, HandleDisplay
<1>7. ASSUME NEW p \in Wired, Flip(p) PROVE PumpInv'
  <2>1. HistoryIsExact' /\ ReadingsAreFresh'
    BY <1>0, <1>7, WiredAssumption
    DEF HistoryIsExact, ReadingsAreFresh, WasRead, Flip
  <2> QED
    BY <1>0, <1>7, <2>1 DEF PumpInv, HeldNeverOpen, HeldStops, Flip
<1>8. CASE Reset
  <2>1. \A c \in Channels, s \in Sensors : ~WasRead(c, s)'
    BY <1>8 DEF WasRead, Reset, Channels
  <2>2. HistoryIsExact' /\ ReadingsAreFresh'
    BY <1>8, <2>1 DEF HistoryIsExact, ReadingsAreFresh, Reset
  <2>3. HeldNeverOpen'
    BY <1>0, <1>8 DEF HeldNeverOpen, HistoryIsExact, Reset, TypeOK
  <2> QED
    BY <1>0, <1>8, <2>2, <2>3 DEF PumpInv, HeldStops, Reset
<1>9. CASE UNCHANGED vars
  <2>1. HistoryIsExact' /\ ReadingsAreFresh'
    BY <1>0, <1>9 DEF HistoryIsExact, ReadingsAreFresh, WasRead, vars
  <2> QED
    BY <1>0, <1>9, <2>1 DEF PumpInv, HeldNeverOpen, HeldStops, vars
<1> QED
  BY <1>1, <1>2, <1>3, <1>4, <1>5, <1>6, <1>7, <1>8, <1>9
  DEF Next, Loop, Blink, Display

(* The inductive invariant of the pump controller.                         *)
LEMMA PumpInvariant == Spec => []PumpInv
BY PumpInvInit, PumpInvStep, PTL DEF Spec

(* A contact held closed through a scan keeps its pump off.                *)
THEOREM HeldContactStopsPump == Spec => []HeldStops
<1>1. PumpInv => HeldStops
  BY DEF PumpInv
<1> QED
  BY <1>1, PumpInvariant, PTL

(* No pump starts on a reading older than the iteration.                   *)
THEOREM PumpStartsFresh == Spec => StartsOnFreshReadings
<1>1. PumpInv /\ [Next]_vars =>
        [\A c \in pump' \ pump : \A s \in Sensors : <<c, s>> \in openSeen]_vars
  <2> SUFFICES ASSUME PumpInv, Next,
                      NEW c \in pump', c \notin pump, NEW s \in Sensors
               PROVE  <<c, s>> \in openSeen
    OBVIOUS
  <2>1. CASE Decide
    <3>1. Decision(c) /\ c \in Channels
      BY <2>1 DEF Decide
    <3>2. <<c, s>> \notin last
      BY <3>1 DEF Decision, Sensors
    <3> QED
      BY <2>1, <3>1, <3>2 DEF Decide, PumpInv, ReadingsAreFresh, WasRead
  <2>2. CASE ~Decide
    <3>1. pump' = pump \/ pump' = {}
      BY <2>2 DEF Next, Loop, ReadLow, ReadHigh, ReadKill, ReadPin, Blink,
                  HandleBlink, Display, HandleDisplay, Flip, Reset
    <3> QED
      BY <3>1
  <2> QED
    BY <2>1, <2>2
<1> QED
  BY <1>1, PumpInvariant, PTL DEF Spec, StartsOnFreshReadings

(* Only the high contact, the kill contact or a power loss stops a pump.   *)
THEOREM PumpStopsForCause == Spec => StopsOnlyForCause
<1>1. PumpInv /\ [Next]_vars =>
        [\A c \in pump \ pump' :
            \/ <<c, "high">> \in closedSeen
            \/ <<c, "kill">> \in closedSeen
            \/ resets' # resets]_vars
  <2> SUFFICES ASSUME PumpInv, Next, NEW c \in pump, c \notin pump',
                      resets' = resets
               PROVE  \/ <<c, "high">> \in closedSeen
                      \/ <<c, "kill">> \in closedSeen
    OBVIOUS
  <2>1. CASE Decide
    <3>1. c \in Channels /\ ~Decision(c)
      BY <2>1 DEF Decide, PumpInv, TypeOK
    <3>2. <<c, "high">> \in last \/ <<c, "kill">> \in last
      BY <3>1 DEF Decision
    <3> QED
      BY <2>1, <3>1, <3>2
      DEF Decide, PumpInv, ReadingsAreFresh, WasRead, Sensors
  <2>2. CASE Reset
    BY <2>2 DEF Reset, PumpInv, TypeOK
  <2>3. CASE ~Decide /\ ~Reset
    BY <2>3 DEF Next, Loop, ReadLow, ReadHigh, ReadKill, ReadPin, Blink,
                HandleBlink, Display, HandleDisplay, Flip
  <2> QED
    BY <2>1, <2>2, <2>3
<1> QED
  BY <1>1, PumpInvariant, PTL DEF Spec, StopsOnlyForCause

-----------------------------------------------------------------------------
(* Two writers share the LED pin: read_sensors writes it when the state    *)
(* changes, handle_blink when the pattern moves.  What each step leaves.   *)
LEMMA LedStep == LedShowsPumps /\ [Next]_vars => LedShowsPumps'
<1> SUFFICES ASSUME LedShowsPumps, [Next]_vars, blinkStep' = 2
             PROVE  ledPin' = LedState(pump')
  BY DEF LedShowsPumps
<1>1. CASE Decide
  <2>1. blinkStep = 2
    BY <1>1 DEF Decide, clock
  <2>2. ledPin = LedState(pump)
    BY <2>1, Zenon DEF LedShowsPumps
  <2>3. CASE LedState(pump') # LedState(pump)
    BY <1>1, <2>3, Zenon DEF Decide
  <2>4. CASE LedState(pump') = LedState(pump)
    <3>1. ledPin' = ledPin
      BY <1>1, <2>4, Zenon DEF Decide
    <3> QED
      BY <2>2, <2>4, <3>1, Zenon
  <2> QED
    BY <2>3, <2>4, Zenon
<1>2. ASSUME NEW d \in 0..MaxLag, HandleBlink(d)
      PROVE  ledPin' = LedState(pump')
  <2>1. pump' = pump
    BY <1>2 DEF HandleBlink
  <2>2. \/ ledPin' = LedState(pump)
        \/ blinkStep = 2 /\ ledPin' = ledPin
    BY <1>2 DEF HandleBlink
  <2>3. blinkStep = 2 => ledPin = LedState(pump)
    BY Zenon DEF LedShowsPumps
  <2> QED
    BY <2>1, <2>2, <2>3, Zenon
<1>3. CASE Reset
  BY <1>3 DEF Reset
<1>4. CASE UNCHANGED <<pump, ledPin, blinkStep>>
  <2>1. blinkStep = 2
    BY <1>4
  <2> QED
    BY <1>4, <2>1, Zenon DEF LedShowsPumps
<1>5. CASE \/ ReadLow \/ ReadHigh \/ ReadKill \/ Display \/ UNCHANGED vars
           \/ \E p \in Wired : Flip(p)
  BY <1>4, <1>5 DEF ReadLow, ReadHigh, ReadKill, ReadPin, Display,
                    HandleDisplay, Flip, clock, vars
<1> QED
  BY <1>1, <1>2, <1>3, <1>5 DEF Next, Loop, Blink

(* After the pattern the LED shows whether all pumps run, whichever of the *)
(* two writers wrote it last.                                              *)
THEOREM LedIsRight == Spec => []LedShowsPumps
<1>1. Init => LedShowsPumps
  BY DEF Init, LedShowsPumps
<1> QED
  BY <1>1, LedStep, PTL DEF Spec
=============================================================================
