# Specifications of the maker-space sketches

TLA+ models of the programs in this repository, the TLC configurations that
check them on small instances, and theorems about them checked by TLAPS.

    tlc -config PumpContacts.cfg MCPumpController.tla       # one run
    tlapm PumpController_proofs.tla                         # one set of proofs

## 1. Inventory

The repository is a workshop: the author's Arduino sketches, the Arduino
libraries they are built with (third-party code, kept in `arduino/libraries`),
and designs for printed and etched parts. Each sketch is a program of its own
on its own board: `setup()` once, then `loop()` for ever, one thread, at most
one interrupt handler, no operating system. What makes them hard is not their
size but what they share a moment with: water that moves between two reads of
a float switch, an interrupt that fills the buffer being decoded, a radio frame
that is answered at a fixed instant or not at all, a clock that wraps.

| component | state | operations | interacts with | hard part |
|---|---|---|---|---|
| Pump controller `esp32/pump-controller` | last readings, pump states, blink phase, two time stamps | `read_sensors`, `handle_blink`, `handle_display`, `loop` | float contacts, relays, LED, `millis()` | contacts move between reads; LED has two writers; clock wrap; power loss |
| Level sensor test `low_high_sensor` | `pumping` | `loop` | two contacts, LED | hysteresis on two readings |
| IR receiver `libraries/IRremote/src/IRReceive.hpp` | `irparams` (state, counter, buffer), `decodedIRData` | timer interrupt, `decode`, `initDecodedIRData`, `resume`, `start`/`stop` | infrared signal, sketch | interrupt against sketch without a lock; buffer limit; partial frames |
| IR protocol decoders `IRremote/src/ir_*.hpp` | last protocol, address, command | `decodeNEC`, ... | receiver buffer | repeats refer to the frame before |
| Remote controlled car `robot_car/Tutorial/Projects` | `speed`, `turn`, motor pins | `IR_Control`, `updateSpeeds` | receiver, motor driver | lost frames; key sequences; sign of the inner wheel |
| Tutorial lessons 5-10 `robot_car/Tutorial/Code` | motor pins, servo angle, distances | obstacle avoidance, servo sweep, sonar, IR car | motors, servo, sonar | blocking sensor reads, stale distance |
| Ranging initiator and responder `positioning/range_rx`, `range_tx` | device registers, time stamps, sequence number | poll, response, delayed transmission | each other by radio, DW3000 chip | lost frames, late transmissions, wrapping time stamps |
| DW3000 driver `libraries/Dw3000` | device state | `dwt_*` | SPI | external to the models of the two sketches |
| UART capture `positioning/base_listen` | byte buffer, time of last byte | `loop` | UART, `millis()` | framing by time-out, full buffer |
| AT command sketches `positioning/command_demo`, `passthru`, `small_at`, `terminal_config` | command line, blink time | `loop` | UART | line assembly, clock wrap |
| Servo library `libraries/Servo/src/avr` | channel table, timer | timer interrupt, `attach`, `detach`, `write` | servos, sketch | interrupt against sketch |
| Blink sketches `blink`, `esp32/Blink`, `esp32/Blink2` | blink phase | `loop` | LED | clock wrap |
| Display and temperature sketches `spi/*` | none between iterations | `loop` | I2C devices | none: read and show |
| WiFi sketches `esp32/WiFiScan`, `WiFiFun`, `hello-serial` | none | `loop` | WiFi stack | none of their own |
| WiFiEsp client `libraries/WiFiEsp` | sockets, announced payload, serial buffer | `connect`, `write`, `available`, `read`, `stop` | sketch, ESP8266 module, server | one line for answers, prompts and payload; every wait times out; state that outlives a connection |
| Other libraries (WiFi and its firmware, Bme280, Adafruit_*) | - | - | - | third-party; no sketch with logic of its own uses them |
| Designs (openscad, kicad, freecad, express-pcb), `home-assistant` notes | - | - | - | not programs |

What makes each of them correct:

* **Pump controller** - a closed kill or high contact stops its pump and keeps
  it stopped; a pump starts only in a dry tank and stops only for a cause; the
  tank is filled again after a power loss; LED and status line never fall
  silent.
* **IR receiver** - no write outside the buffer; what is decoded is what was
  sent, whole; a frame, once complete, does not change until `resume()`; the
  receiver always gets ready again.
* **Remote controlled car** - no wheel is reversed at speed; Stop stops;
  steering agrees with the keys.
* **Ranging** - the distance computed belongs to one exchange; a lost frame or
  a late transmission ends in the next attempt; time stamps survive their wrap.
* **UART capture** - no byte outside the buffer; a line is one message, whole;
  nothing is kept back for ever.
* **Servo library** - every attached servo gets a pulse of its own width in
  every period, and no period is skipped or shortened.
* **WiFiEsp client** - what is read is what the server sent on this connection;
  no socket is lost; after any fault whole requests get through again.

The hazards of this code, each at its line, are listed in `PROJECT.json`.

## 2. Plan

In this order, the most consequential behaviour first. All modules are written,
and every safety property, action property and refinement of the passing runs is
proved as far as it is not about fairness (section 6). What is left is in
section 7.

| # | module | what it is | composes / implements | theorems |
|---|---|---|---|---|
| 1 | `PumpController` | the irrigation controller | contacts + loop + clock | types; held contacts stop pumps; starts and stops have a cause; LED shows the pumps |
| 2 | `FrameMailbox` | abstract: what a receiver promises its sketch | - | - |
| 3 | `IRReceiver` | sampling interrupt against `decode`/`resume` | implements `FrameMailbox` | types; no overrun; recording starts after a gap; what is decoded was heard; each step is a step of the mailbox |
| 4 | `NECDecoder` | what a frame means, given the frames before it | used by `IRRemoteCar` | through the car |
| 5 | `IRRemoteCar` | keys to wheels | uses `FrameMailbox`, contains `NECDecoder` | types; repeats; only keys count; no sudden reversal; steering; each step is a step of the mailbox |
| 6 | `Ranging` | abstract: measurements that yield the true distance or nothing | - | - |
| 7 | `TwoWayRanging` | initiator, responder, radio, two clocks | both sketches + chips + air; implements `Ranging` | types; the answer finds the receiver on; it implements `Ranging` |
| 8 | `ServoTimer` | the Servo library's interrupt against attach, detach, write | interrupt + sketch + timer | types; pulse lengths; shortest and longest pass |
| 9 | `UartCapture` | `base_listen`: framing by a pause | sender + serial driver + sketch | types; a line is one message |
| 10 | `EspClient` | a client connection through an ESP8266 | sketch and driver + module + server | types; sockets come back; what is read was sent |
| 11 | `Residues` | counters that wrap: lemmas for 7, 8 and 9 | - | - |

Runs keep to one question each: a safety run and, where fairness matters and
needs other bounds, a second one; a run of its own for each text of the
repository that the code contradicts.

## 3. The modules

### PumpController

One iteration of `loop()` is a sequence of steps: `ReadLow`, `ReadHigh`,
`ReadKill` for each channel (a `read_pin` each), `Decide` (the two if-chains,
the relays and the LED), `Blink` (`handle_blink`), `Display`
(`handle_display`). Between any two of them `Flip` may open or close a contact
and `Reset` may cut the power.

| state | code |
|---|---|
| `closed` | the contacts; a closed one pulls its pin LOW (external) |
| `last` | the pins whose `last_low1` ... `last_kill2` is 1 |
| `pump` | the channels whose `pump_state`, and so whose relay, is 1 |
| `ledPin`, `blinkStep`, `blinkT`, `displayT` | the LED, `blink_step`, `blink_t`, `display_t` |
| `millis` | what `millis()` returned last, modulo `MillisMod` |
| `pc`, `ch` | the place in `loop()`, the channel being read |
| `openSeen`, `closedSeen`, `held` | history: what each contact was in this iteration, and which were closed through a whole scan |

`Since` is the subtraction of two readings of `millis()` in 32 bits, signed.

### IRReceiver, FrameMailbox

`Interrupt(l)` is one call of `IRReceiveTimerInterruptHandler` that samples
level `l`: `IdleTick`, `MarkTick`, `SpaceTick` and `StopTick` are its four
states, `Clip` the limit of the tick counter, `Record` the store into
`rawbuf`. The sketch is `Poll` (the test of `decode`), `InitDecodedIRData`,
`ReadEntry` (the decoders reading `rawbuf` one entry at a time) and `Resume`.
The variables have the names of `irparams_struct`; `level`, `run`, `silence`
and `heard` are the signal and its history (external). The interrupt may come
between any two steps of the sketch.

`FrameMailbox` is the abstract specification: one slot, filled only when it is
empty, unchanged until it is released. `IRReceiver!Mailbox` is the refinement
mapping: the slot holds the frame exactly while `StateForISR` is `STOP`.

### IRRemoteCar, NECDecoder

`Send` puts a frame into the mailbox's slot when it is free (a frame sent
while it is not is lost); `Decode`, `SwitchKey` (the switch of `IR_Control`),
`WriteDirections`, `WriteDuties` (the two parts of `updateSpeeds`) and
`Resume` are the steps of the sketch. `Motors` is `updateSpeeds2`, with
`Clamped`, `Duty`, `Slower`, `Outer` and `Inner` for its expressions. `settled`
remembers the wheels as they were when the last frame was done.

`NECDecoder` is `decode()` for the protocol of the car's remote control, with
the fields it keeps from one frame to the next: a repeat frame carries no code
and is given the one saved by `initDecodedIRData`, a garbled frame and an
overflow decode to no protocol. `IRRemoteCar` instantiates it with its keys.

### TwoWayRanging, Ranging

Two sketches, two DW3000 chips, the air. The initiator's steps are `SendPoll`,
`GotFrame`, `GiveUp` and `Wake`; the responder's are `Listen`, `Answer`,
`Ignore`, `Recover`, `StartTx` and `Sent`. `StartTx` includes what
`dwt_starttx` does with a delayed transmission: `TooLate` is its `HPDWARN` and
`TXERR` check. What the chips do by themselves is external: frames arrive and
are received, garbled or lost (`PollArrives`, `RespArrives`), receivers go on
and time out, the delayed answer departs, other devices are heard, time ticks.
Both boards may be reset. `RespTxTime`, `RespTxTs`, `Lo` and `RoundTrip` are
the arithmetic: a 40-bit clock (`TsMod`), 32-bit time stamps (`LoMod`), the
granule of a delayed transmission.

`range_rx.ino` returns at the head of its `loop()`, before the exchange. The
constant `EarlyReturn` is TRUE for it and FALSE for the library's example
`ex_06a_ss_twr_initiator`, of which the rest of `range_rx.ino` is a copy.

Left out of the model: sequence numbers (both sides write 0 over them before
they compare), and the correction for different clock rates. The initiator
looks at an event within the tick it comes in: it reads no clock, so its own
delays change nothing but the moment of the next poll, which is open anyway.
The responder may take up to `MaxLag` ticks to answer. Registers that nothing
can read before they are written again are set to 0.

`Ranging` is the abstract specification: measurements begin and finish, and one
that finishes yields the distance or leaves the last result alone. The
refinement mapping takes `tof` for the result once it has been computed, and
the wait for an answer for the measurement.

### ServoTimer

`HandleInterrupts` is the compare interrupt: it lowers the pin of the pulse
that ends, then raises the next (`NextPulse`) or waits out the refresh interval
(`WaitRefresh`). `attach()` is the steps `Attach`, `CheckTimer`, `InitCount`,
`InitEnable`, `Activate`, with interrupts in between; `Detach` and `Write` are
one step each, the code of `writeMicroseconds` disabling interrupts. `Tick` is
the timer: it counts modulo `TcntMod` and sets the flag when it equals `ocr`.
An interrupt is taken at most `MaxLag` ticks late, and writes `OCR` at most
`MaxWork` ticks after it read `TCNT`.

### UartCapture

`ReadByte`, `Stamp`, `NothingAvailable`, `Check`, `PrintByte` and `PrintEnd`
are the places of `loop()`; `fifo` is the receive buffer of the serial driver,
into which the sender's bytes come (`Arrive`) at any moment. A byte knows its
place in its message, and whether it had to wait while a line was printed:
messages that gather during printing are merged, whatever their pauses were.
`DriverAssumption` says that the driver holds what comes between two looks at
it while no line is printed: its 256 bytes take over 20 ms at 115200 baud.

### EspClient

`pc` is the place in `loop()` and `httpRequest()` of the sketch
WebClientRepeating, or in the driver it has called; `closing`, `starting`,
`prompt`, `sending` and `abandoning` are waits in `readUntil`, which drops
(`Skip`) whatever is not awaited and may time out (`Timeout`). `sock`,
`allocated` and `bufPos` are `_sock`, the table `_state` and `_bufPos`. The
module (`doing`, `need`) takes one command at a time, ignores what comes while
it is busy, and takes everything for payload between its prompt and the last
byte it announced; the server answers whole requests and may close. Both are
external. A wait that ends although its answer is on its way is a fault and is
counted, as are refused and broken connections and lost bytes. Lateness is the
module's: what it has sent is in the buffer. So `SendCmd` drops all it has sent,
where `espEmptyBuf` leaves what is still in the wire; an answer that is in the
wire while the next command is heard is not explored.

The sketch has one client, so one link is in use; `SocketsComeBack` is what
keeps it so. Joining the network, servers, UDP, SSL and `connected()` are left
out.

## 4. The runs

| run | question | bounds | why they are enough |
|---|---|---|---|
| `pump_contacts` | are decisions right about the contacts, not only the readings, do the pumps end up where the contacts want them, and does a channel ever act on the other's contacts? | 2 channels, five of the six contacts moving, three changes in an iteration, 1 power loss, clock stopped | a decision looks at three contacts, and each can change between its reading and the decision; the clock plays no part in decisions |
| `pump_clock` | LED, blink pattern and status line across the wrap of `millis()` | `MillisMod` 32, intervals 10 and 8, steps 0 and 1 | several wraps; both intervals are below half the modulus, as 5000 and 4000 are below 2^31 |
| `ir_receiver` | is the buffer safe, is what is decoded what was heard, is every frame handed over, does the receiver recover, does it implement the mailbox? | 4 entries of values below 3, gap 1, counter limit 4 | order of the limits as in the code: gap + 1 < entry width < counter limit; marks can wrap, frames can fill and overflow the buffer, every branch of the interrupt is reached |
| `ir_remote_car` | keys, repeats, noise and overflows in any order, with frames lost while the sketch is busy: what do they do to the wheels? | the sketch's own limits, speed 6, turn 2 | nothing is scaled |
| `ranging` | does the initiator implement `Ranging`, does an answer find the receiver on, and is there always a next attempt? | clock modulo 24, 12 in a message, granule 2, answer after 2, window 3 to 6, one reset of a board | keeps the order of the code's delays: receiver on before the earliest answer, off after the latest, sleep longer than any answer is under way, the responder late enough to miss its instant; a reset sets one clock to 0 at any moment, so every offset of the clocks comes up, and both wrap at every step of an exchange |
| `servo_timer` | are pulses as wide as written, is no interval missed or cut short, and does no servo starve, whenever the sketch attaches, detaches and writes? | 2 servos, pulses of 2 and 3 ticks, interval 7, count modulo 12, interrupt one tick late | two pulses fill the interval or leave room, the compare value wraps, and a late interrupt uses up the margin |
| `uart_capture` | is a line one whole message, and is everything shown in the end? | buffer 3, driver 4, time-out 3, pauses up to 2 within a message and from 6 between, clock modulo 8 | messages exceed both buffers; the pauses are the tightest for which framing can work (`TimesAssumption`) |
| `esp_client` | is what is read what was sent, are sockets freed, and do requests get through again after faults? | 2 sockets, requests of 2 pieces, answers up to 3 bytes in packets up to 2, 4 faults | two pieces have a first and a last; two faults make the two sides lose each other, two more hit the recovery |

The time bounds of `TwoWayRanging` are ticks. On the boards the receiver goes
on about 275 uus after the poll's marker (240 after its end), the answer's
marker comes at 450, the window closes after 675, `MaxLag` stands for a program
held up for less than half a period of the clock (8.6 s), and `Sleep` and
`setup` take 2 ms or more, longer than any answer is under way; the values keep
that order.

Violations, each a text the code contradicts, each a finding in
`PROJECT.json`:

* `ir_receiver_entries` - a mark longer than 255 ticks loses its high bits in
  the 8-bit buffer, which a comment calls safe.
* `esp_early_stop` - a client that stops with unread data reads the header of
  the next connection's first packet as payload, where `read()` is documented
  to return what the server it is connected to sent.
* `ir_car_backing` - when the car backs up with a turn, the comments of
  `updateSpeeds2` name one wheel as the slower one and the code slows down the
  other. The code may well be what is meant - the car then backs up as one with
  a steering wheel does - so `SteeringFollowsKeys` takes no side: it says which
  wheel is faster only for going forward, where comments and code agree.
* `range_rx` - the ranging initiator of the repository never sends a poll.

Properties, by module (each is stated in words above its definition):

* `PumpController` - `HeldStops`, `StartsOnFreshReadings`, `StopsOnlyForCause`,
  `DryTankIsFilled`, `LedShowsPumps`, `Heartbeat`, `KeepsReporting`
* `IRReceiver` - `NoOverrun`, `DecodedIsHeard`, `StartsAfterGap`,
  `NeverStuckStopped`, `SettlesWhenQuiet`, `ImplementsMailbox`
* `IRRemoteCar` - `SteeringFollowsKeys`, `RepeatNamesHeardKey`,
  `OnlyKeysCount`, `NoSuddenReversal`, `StopHalts`, `UsesMailbox`;
  `BackingSlowsSideNamed` (violated)
* `TwoWayRanging` - `ImplementsRanging`, `AnswerFindsReceiverOn`, `PollIsSent`,
  `WaitEnds`, `ListensAgain`
* `ServoTimer` - `FrameInTime`, `PulseIsAsWritten`, `RefreshNotTooSoon`,
  `KeepsPulsing`
* `UartCapture` - `MessageIsWhole`, `SilenceShowsAll`
* `EspClient` - `ReadsAreSent`, `SocketsComeBack`, `Recovers`

Seen while modelling, without a run: `base_listen` prints messages that come
while it prints as one line, where its comments speak of one message per line;
`Servo::detach()` leaves the timer running (`finISR` does nothing on the AVR)
where `docs/api.md` says the PWM pins are free again, and leaves the pin HIGH
when it falls into a pulse; the inner wheel of the car's tightest turn runs
backward where a comment says it goes slightly slower; `command_demo` compares
a signed sum of times, which goes wrong near the wrap of `millis()`.

## 5. Fairness

* `WF(Loop)`, `WF(Sketch)`, `WF(IR_Control)`, `WF(Initiator)`,
  `WF(Responder)`: a sketch is one thread that never sleeps for ever; its next
  step is taken.
* `WF(Interrupt(level))` in `IRReceiver`: the timer interrupt runs for ever and
  samples the signal as it is. No fairness is put on the signal changing;
  `SettlesWhenQuiet` asks what happens if it stops changing.
* `WF(Loop)` in `UartCapture` and `WF(Sketch)`, `WF(Module)` in `EspClient`: as
  above, and the ESP8266 carries out the command it has taken. Nothing is
  assumed of the server.
* `SF(Tick)` in `UartCapture`, `SF(Due)` in `EspClient`: time passes, so that
  the pause, or the posting interval, is over at some time however often it is
  looked at.
* `WF(Hardware)` in `ServoTimer`: the timer counts and its interrupt is taken.
  Nothing is assumed of the sketch.
* `SF(TimePasses)` in `PumpController`: `millis()` advances; it cannot be read
  without advancing for ever.
* `WF(Physics)` in `TwoWayRanging`: time passes and what is due happens. No
  fairness is put on frames being received: the radio may lose every one.

Nothing is assumed about contacts, keys, power or resets.

## 6. What is proved

For every value of the constants that satisfies their assumptions (named
`...Assumption` where the constants are declared), so for every number of
channels, sockets or servos, every buffer length and every clock. Each proof
goes the same way: an inductive invariant, checked by TLC on the runs'
instances first; a lemma that `Init` implies it; one that every action keeps
it, by cases on the action and on the conjunct; and theorems that read their
property off it.

| module | theorem | states | assumes besides the constants' types |
|---|---|---|---|
| `PumpController_proofs` | `TypeCorrect` | `TypeOK` | |
| | `HeldContactStopsPump` | `HeldStops` | |
| | `PumpStartsFresh` | `StartsOnFreshReadings` | |
| | `PumpStopsForCause` | `StopsOnlyForCause` | |
| | `LedIsRight` | `LedShowsPumps` | |
| `IRReceiver_proofs` | `ReceiverTypeCorrect` | `TypeOK` | even buffer, gap below the counter's limit |
| | `ReceiverNoOverrun` | `NoOverrun` | same |
| | `ReceiverStartsAfterGap` | `StartsAfterGap` | same |
| | `ReceiverDecodesWhatWasHeard` | `DecodedIsHeard` | an entry can hold the gap |
| | `ReceiverIsMailbox` | safety half of `ImplementsMailbox` | even buffer, gap below the counter's limit |
| `IRRemoteCar_proofs` | `CarTypeCorrect` | `TypeOK` | `maxTurn` at most `maxSpeed + 1` |
| | `RepeatNamesKey` | `RepeatNamesHeardKey` | same |
| | `KeysCount` | `OnlyKeysCount` | same |
| | `NoReversal` | `NoSuddenReversal` | same |
| | `SteersAsTold` | `SteeringFollowsKeys` | `maxSpeed` at most 155 |
| | `CarUsesMailbox` | safety half of `UsesMailbox` | `maxTurn` at most `maxSpeed + 1` |
| `TwoWayRanging_proofs` | `RangingTypeCorrect` | `TypeOK` | `TimingAssumption` |
| | `ReceiverOnForAnswer` | `AnswerFindsReceiverOn` | `TimingAssumption` |
| | `RangingIsTrue` | `ImplementsRanging` | `TimingAssumption` |
| `ServoTimer_proofs` | `ServoTypeCorrect` | `TypeOK` | `TicksAssumption` |
| | `PulseLength` | `PulseIsAsWritten` | `TicksAssumption` |
| | `RefreshMinimum` | `RefreshNotTooSoon` | `TicksAssumption` |
| | `FrameBound` | `FrameInTime` | `TicksAssumption` |
| `UartCapture_proofs` | `UartTypeCorrect` | `TypeOK` | `TimesAssumption`, `DriverAssumption` |
| | `MessagesWhole` | `MessageIsWhole` | `TimesAssumption`, `DriverAssumption` |
| `EspClient_proofs` | `ClientTypeCorrect` | `TypeOK` | |
| | `ClientFindsSocket` | `SocketsComeBack` | |
| | `ReadsInOrder` | `ReadsAreSent` | `EarlyStop = FALSE` |

**Pump.** `HeldStops` is not inductive: a decision looks at `last`, the
property at contacts. `PumpInv` adds the link: a reading taken in this
iteration (`WasRead`) is a value its contact had in this iteration
(`ReadingsAreFresh`), the history variables are exact, and a held contact has
not been open. The three properties of decisions then follow from the readings
the decision is made on. `LedShowsPumps` is inductive with nothing added: each
of the LED's two writers leaves it right for the pumps as they are then.

**Receiver.** A chain of three invariants. `ParityInv`: while a mark is
recorded `rawlen` is odd, so below the even length of the buffer - the reason
the MARK branch needs no bound check. `GapInv` relates the tick counter to the
signal: one behind the current run while recording, at most one short of it
when idle or stopped. `HeardInv` says that the entries are the runs heard, that
the sketch reads only while the receiver is stopped - the reason it needs no
lock - and that what it has read is a prefix. The theorem about what is decoded
assumes that an entry can hold the gap, as the comment in `IRremoteInt.h` does.
The mailbox's slot is a frame exactly when the receiver is stopped, and by
`ParityInv` what it then holds begins and ends with a mark.

**Car.** `CarInv` is about what lies between a key and a wheel: the frame the
sketch works on stays in the slot, the decoder's saved code is the one heard
last, the pins follow the target of the speed and the turn, directions first
(`WheelsInv`), and the wheels as they stood and their new target never have
opposite signs (`SteadyInv`). For steering the duty has to grow with the speed:
it does when each of `maxSpeed` steps is worth a step of the 155 between the
smallest duty and the largest; the sketch has 6. Which wheel is the faster one
is stated for going forward; backing up, that they differ. With 160 TLC finds two speeds
that share a duty, and a turn that steers nowhere.

**Ranging.** That a measurement is true depends on everything under way coming
from the poll the initiator waits on. `FreshInv` says so: whatever may still
become an answer - a poll on the air, one in the responder's chip, an answer
being sent or on the air - is as old as that poll (`Age`), and nothing is left
of it when the initiator sends the next. `ResponderInv` says that what the
responder writes into its answer is the time the answer takes, within a
granule, and `InitiatorInv` that the initiator's clock has moved on by the
poll's age. Clocks wrap and boards are reset, so these are congruences modulo
the clock; the low 32 bits suffice because a round trip is less than half a
turn of them. `TimingAssumption` says how the delays of the two sketches fit
together: the receiver is on when the earliest answer comes and off after the
latest, and `Sleep` and `setup` outlast what is under way. It is what `FreshInv`
needs to be kept by every step. The second half of `AnswerFindsReceiverOn`, that
the receiver's time-out never cuts off an answer under way, comes from the same
invariant.

**Servos.** `PulseInv` says where the compare value lies while a pulse lasts:
at its end, less the time the interrupt took to write it, as a congruence, the
count having wrapped or not. `RefreshInv` bounds the start of a pass from
below, `FrameInv` the compare value of each channel from above (`Limit`);
`PinsInv` says that no two servos share a pin and that the timer is set up only
while no servo is attached; the other three rest on it. `TicksAssumption` asks that a pulse is longer than the
interrupt's work and that the longest pass fits the timer: 12 servos of 2.4 ms
take 28.8 of its 32.7 ms.

**UART.** `MessageIsWhole` speaks of what is printed; `UartInv` of how it came
to be. While only prompt bytes are held, the buffer is the beginning of a
message, the driver's bytes go on from it (`FifoContinues`) or begin a message,
and the pause on the line, the time since the last byte and the sketch's
lateness bound each other (`LookedInTime`, `SilenceInv`, `SinceInv`), so that a
time-out is seen after each message and never within one. `SlipInv` is the step
a test would miss: a byte that comes between the empty driver and the look at
the clock has come early enough, or begins the next message.
Without `DriverAssumption` the driver itself drops a byte from the middle of a
message.

**Client.** `SocketInv` says why sockets come back, with and without early
stops: the only socket the table can hold is the client's own, and `_sock` is a
real number before the table is written; so each of the ways a connection ends
empties the table before the next one is opened. `LineInv` says what is on the
serial line: packets are whole, the bytes announced come next, those of the
open link are in order after what was read, and none of an earlier link is
there once the client has its socket. The `OK` that opens a connection is what
separates the two: nothing of an earlier link comes after it (`OKIsFresh`).
The hypothesis `EarlyStop = FALSE` (the sketch stops when nothing is left to
read) is needed, as the run `esp_early_stop` shows.

`Residues` has the lemmas about wrapping counters: congruence, the uniqueness
of the residue, what a tick does to a difference.

## 7. What is only model-checked, and what is not modelled

Checked by TLC and not proved: liveness (`DryTankIsFilled`, `Heartbeat`,
`KeepsReporting`, `NeverStuckStopped`, `SettlesWhenQuiet`, `StopHalts`,
`PollIsSent`, `WaitEnds`, `ListensAgain`, `KeepsPulsing`, `SilenceShowsAll`,
`Recovers`), and of `ImplementsMailbox` and `UsesMailbox` the fairness of the
mailbox's `Take` and `Release` - the provers do not handle fairness and
ENABLED. `ImplementsRanging` promises no fairness and is proved in full.

Abstracted everywhere: serial output and its wording, pin numbers, set-up of
peripherals that cannot fail, the brightness, speed and rates of real devices.

Not modelled, with the reason, in `PROJECT.json` under `components`: the
third-party libraries no sketch with logic of its own uses, sketches that only
read and show, designs and notes, and small sketches whose decisions are a
single test or a part of one modelled here: the level sensor test (the pump
controller's low and high contacts), `command_demo` (one comparison of times),
the tutorial's obstacle car (an if-chain over distances the world chooses).
Most lines of the repository are register headers, firmware images, fonts and
drivers of third parties, with no behaviour of their own to check.
