--------------------------- MODULE PumpController ---------------------------
(***************************************************************************)
(* The irrigation controller of arduino/esp32/pump-controller: every       *)
(* iteration of loop() reads the three float contacts of each channel one  *)
(* after the other, decides each pump, drives the relays and the LED,      *)
(* advances the LED's blink pattern and prints a status line.              *)
(*                                                                         *)
(* The contacts belong to the tank, not to the program: any of them may    *)
(* change between any two reads.  The board may lose power at any moment.  *)
(***************************************************************************)
EXTENDS Integers, FiniteSets

CONSTANTS
    NumChannels,     \* pumps with their sensors (2 in the sketch)
    Wired,           \* the contacts that may change (all of them, or some)
    MaxChanging,     \* bound: contacts that change during one iteration
    MaxResets,       \* bound: power losses
    MillisMod,       \* millis() counts modulo this (2^32 on the board)
    MaxLag,          \* bound: milliseconds between two readings of millis()
    BlinkInterval,   \* blink_interval
    DisplayInterval  \* the 4000 of handle_display

Channels == 1..NumChannels
Sensors == {"low", "high", "kill"}
Pins == Channels \X Sensors

ASSUME NumChannelsAssumption == NumChannels \in Nat \ {0}
ASSUME WiredAssumption == Wired \subseteq Pins
ASSUME BoundsAssumption ==
    MaxChanging \in Nat /\ MaxResets \in Nat /\ MaxLag \in Nat
ASSUME ClockAssumption ==
    /\ MillisMod \in Nat \ {0}
    /\ BlinkInterval \in Nat
    /\ DisplayInterval \in Nat

VARIABLES
    closed,     \* contacts closed now: a closed contact pulls its pin LOW
    pc,         \* the read, or the part of loop(), that comes next
    ch,         \* the channel whose pins are being read
    last,       \* pins whose last_* variable is 1
    pump,       \* channels whose pump_state, and so whose relay, is 1
    ledPin,     \* level of the LED pin
    blinkStep, blinkT, displayT, millis,
    resets,     \* power losses so far
    openSeen,   \* history: pins open at some time in this iteration
    closedSeen, \* history: pins closed at some time in this iteration
    held        \* history: pins closed all through the last complete scan,
                \* and ever since

env == <<closed, openSeen, closedSeen>>
clock == <<blinkStep, blinkT, displayT, millis>>
vars == <<closed, pc, ch, last, pump, ledPin, blinkStep, blinkT, displayT,
          millis, resets, openSeen, closedSeen, held>>

(* The types of the globals, the readings of millis() below its modulus.   *)
TypeOK ==
    /\ closed \subseteq Pins
    /\ pc \in Sensors \cup {"decide", "blink", "display"}
    /\ ch \in Channels
    /\ last \subseteq Pins
    /\ pump \subseteq Channels
    /\ ledPin \in BOOLEAN
    /\ blinkStep \in 0..2
    /\ blinkT \in 0..MillisMod-1
    /\ displayT \in 0..MillisMod-1
    /\ millis \in 0..MillisMod-1
    /\ resets \in 0..MaxResets
    /\ openSeen \subseteq Pins
    /\ closedSeen \subseteq Pins
    /\ held \subseteq Pins

-----------------------------------------------------------------------------
Init ==
    /\ closed \in SUBSET Wired
    /\ openSeen = Pins \ closed /\ closedSeen = closed /\ held = {}
    /\ pc = "low" /\ ch = 1
    /\ last = {} /\ pump = {} /\ ledPin = FALSE
    /\ blinkStep = 0 /\ blinkT = 0 /\ displayT = 0 /\ millis = 0
    /\ resets = 0

(* Mutant: a 64-bit time_t holds the unsigned millis().                    *)
SinceWide(t, t0) == t - t0

(* Both time_t and int are 32 bits wide on this board, so the difference   *)
(* of two readings of millis() is a signed residue.                        *)
Since(t, t0) ==
    LET d == (t - t0) % MillisMod
    IN  IF 2 * d < MillisMod THEN d ELSE d - MillisMod

(* The contact of pin p opens or closes.                                   *)
Flip(p) ==
    /\ \/ p \in openSeen \cap closedSeen
       \/ Cardinality(openSeen \cap closedSeen) < MaxChanging
    /\ closed' = IF p \in closed THEN closed \ {p} ELSE closed \cup {p}
    /\ openSeen' = openSeen \cup {p}
    /\ closedSeen' = closedSeen \cup {p}
    /\ held' = held \ {p}
    /\ UNCHANGED <<pc, ch, last, pump, ledPin, clock, resets>>

-----------------------------------------------------------------------------
(* Mutant: read_pin returns a closing, and keeps it when the contact opens. *)
ReadPinLatched(s) ==
    /\ pc = s
    /\ last' = IF <<ch, s>> \in closed THEN last \cup {<<ch, s>>} ELSE last
    /\ UNCHANGED <<env, held, pump, ledPin, clock, resets>>

(* read_pin on one pin of channel ch; the result is the negated level.     *)
ReadPin(s) ==
    /\ pc = s
    /\ last' = IF <<ch, s>> \in closed THEN last \cup {<<ch, s>>}
                                       ELSE last \ {<<ch, s>>}
    /\ UNCHANGED <<env, held, pump, ledPin, clock, resets>>

ReadLow == ReadPin("low") /\ pc' = "high" /\ ch' = ch
ReadHigh == ReadPin("high") /\ pc' = "kill" /\ ch' = ch

(* Mutant: the scan goes one channel too far.                              *)
ReadKillOneMore ==
    /\ ReadPin("kill")
    /\ IF ch =< NumChannels THEN pc' = "low" /\ ch' = ch + 1
                            ELSE pc' = "decide" /\ ch' = ch

ReadKill ==
    /\ ReadPin("kill")
    /\ IF ch < NumChannels THEN pc' = "low" /\ ch' = ch + 1
                           ELSE pc' = "decide" /\ ch' = ch

(* Mutants: a dry tank is looked at before the kill contact; the second    *)
(* block still names the low, or the kill, contact of channel 1.           *)
DecisionDryFirst(c) ==
    /\ <<c, "high">> \notin last
    /\ <<c, "low">> \in last => c \in pump /\ <<c, "kill">> \notin last
DecisionFirstLow(c) ==
    /\ {<<c, "kill">>, <<c, "high">>} \cap last = {}
    /\ <<1, "low">> \in last => c \in pump
DecisionFirstKill(c) ==
    /\ <<1, "kill">> \notin last
    /\ <<c, "high">> \notin last
    /\ <<c, "low">> \in last => c \in pump

(* The pump of channel c after the if-chain on its last_* variables.       *)
Decision(c) ==
    /\ <<c, "kill">> \notin last
    /\ <<c, "high">> \notin last
    /\ <<c, "low">> \in last => c \in pump

LedState(running) == running = Channels

(* Mutant: the LED is left to handle_blink.                                *)
DecideNoLed ==
    /\ pc = "decide"
    /\ pump' = {c \in Channels : Decision(c)}
    /\ held' = Pins \ openSeen
    /\ pc' = "blink"
    /\ UNCHANGED <<env, ch, last, ledPin, clock, resets>>

(* The rest of read_sensors: pumps, LED on a change of led_state, relays.  *)
Decide ==
    /\ pc = "decide"
    /\ pump' = {c \in Channels : Decision(c)}
    /\ ledPin' = IF LedState(pump') # LedState(pump) THEN LedState(pump')
                                                     ELSE ledPin
    /\ held' = Pins \ openSeen
    /\ pc' = "blink"
    /\ UNCHANGED <<env, ch, last, clock, resets>>

(* millis() read d milliseconds after its last reading.                    *)
Elapse(d) == millis' = (millis + d) % MillisMod

HandleBlink(d) ==
    /\ pc = "blink"
    /\ Elapse(d)
    /\ LET e == Since(millis', blinkT) IN
         \/ /\ e > BlinkInterval
            /\ blinkT' = millis' /\ blinkStep' = 0 /\ ledPin' = TRUE
         \/ /\ e =< BlinkInterval
            /\ blinkStep = 0 /\ e > BlinkInterval \div 10
            /\ blinkStep' = 1 /\ ledPin' = FALSE /\ blinkT' = blinkT
         \/ /\ e =< BlinkInterval
            /\ blinkStep = 1 /\ e > BlinkInterval \div 5
            /\ blinkStep' = 2 /\ ledPin' = LedState(pump) /\ blinkT' = blinkT
         \/ /\ e =< BlinkInterval
            /\ ~(blinkStep = 0 /\ e > BlinkInterval \div 10)
            /\ ~(blinkStep = 1 /\ e > BlinkInterval \div 5)
            /\ UNCHANGED <<blinkT, blinkStep, ledPin>>
    /\ pc' = "display"
    /\ UNCHANGED <<env, held, ch, last, pump, displayT, resets>>

(* The status line is due when more than DisplayInterval has passed; the   *)
(* next iteration of loop() starts here.                                   *)
HandleDisplay(d) ==
    /\ pc = "display"
    /\ Elapse(d)
    /\ displayT' = IF Since(millis', displayT) > DisplayInterval
                   THEN millis' ELSE displayT
    /\ pc' = "low" /\ ch' = 1
    /\ openSeen' = Pins \ closed
    /\ closedSeen' = closed
    /\ UNCHANGED <<closed, held, last, pump, ledPin, blinkStep, blinkT, resets>>

(* Power is lost and returns: the pins float, the globals start over.      *)
Reset ==
    /\ resets < MaxResets
    /\ resets' = resets + 1
    /\ pc' = "low" /\ ch' = 1
    /\ last' = {} /\ pump' = {} /\ ledPin' = FALSE
    /\ blinkStep' = 0 /\ blinkT' = 0 /\ displayT' = 0 /\ millis' = 0
    /\ openSeen' = Pins \ closed
    /\ closedSeen' = closed
    /\ UNCHANGED <<closed, held>>

Blink == \E d \in 0..MaxLag : HandleBlink(d)
Display == \E d \in 0..MaxLag : HandleDisplay(d)
Loop == ReadLow \/ ReadHigh \/ ReadKill \/ Decide \/ Blink \/ Display

Next == Loop \/ (\E p \in Wired : Flip(p)) \/ Reset

(* The Arduino core calls loop() for ever, and time passes while it does.  *)
TimePasses == \E d \in 1..MaxLag : HandleBlink(d)

Spec == Init /\ [][Next]_vars
FairSpec == Spec /\ WF_vars(Loop)
TimedSpec == FairSpec /\ SF_vars(TimePasses)

-----------------------------------------------------------------------------
(* A kill or high contact that stayed closed through a whole scan has its  *)
(* pump off from then on, however the other contacts moved between their   *)
(* reads, until the contact opens (read_sensors decides on six readings    *)
(* taken at different times).                                              *)
HeldStops ==
    \A c \in Channels :
        <<c, "kill">> \in held \/ <<c, "high">> \in held => c \notin pump

(* A pump starts only if each of its three contacts was open at some time  *)
(* of the iteration that starts it: no reading of an earlier iteration, or *)
(* of the other channel, starts a pump.                                    *)
StartsOnFreshReadings ==
    [][\A c \in pump' \ pump : \A s \in Sensors : <<c, s>> \in openSeen]_vars

(* While the board has power a pump that runs is stopped only in an        *)
(* iteration that saw its high or its kill contact closed: the low contact *)
(* closing half way up the tank never stops the filling.                   *)
StopsOnlyForCause ==
    [][\A c \in pump \ pump' :
          \/ <<c, "high">> \in closedSeen
          \/ <<c, "kill">> \in closedSeen
          \/ resets' # resets]_vars

(* After the second LOW phase of the blink pattern the LED shows whether   *)
(* all pumps run, even when the pumps change while the pattern is there:   *)
(* read_sensors and handle_blink both write the LED pin.                   *)
LedShowsPumps == blinkStep = 2 => (ledPin = LedState(pump))

(* A channel whose contacts all stay open ends with its pump on, also      *)
(* after a power loss.                                                     *)
DryTankIsFilled ==
    \A c \in Channels :
        <>[]({<<c, s>> : s \in Sensors} \cap closed = {}) => <>[](c \in pump)

(* The blink pattern never stops: the LED is lit for a pulse and handed    *)
(* back to the pump state again and again, across the wrap of millis().    *)
Heartbeat == []<>(blinkStep = 0) /\ []<>(blinkStep = 2)

(* The status line is printed again and again, across the wrap of millis() *)
(* (display_t is an int, millis() an unsigned long).                       *)
KeepsReporting == []<><<displayT' # displayT>>_vars
=============================================================================
