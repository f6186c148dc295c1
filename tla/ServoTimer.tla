----------------------------- MODULE ServoTimer -----------------------------
(***************************************************************************)
(* The AVR part of the Servo library: the compare interrupt of a 16 bit    *)
(* timer gives every servo of the timer its pulse, one after the other,    *)
(* waits for the rest of the refresh interval and starts over, while the   *)
(* sketch attaches, detaches and writes.  One timer is modelled; servos    *)
(* are numbered by their channel.  The interrupt may fall between any two  *)
(* steps of attach(), and comes late when other code has interrupts off.   *)
(***************************************************************************)
EXTENDS Integers

CONSTANTS
    ServoCount,       \* Servo objects, constructed before setup()
    SERVOS_PER_TIMER,
    Pins,
    Widths,           \* values of servo_t.ticks (1088 to 4800)
    REFRESH,          \* usToTicks(REFRESH_INTERVAL) (40000)
    Margin,           \* the 4 ticks kept between TCNT and OCR
    TcntMod,          \* TCNT counts modulo this (2^16)
    MaxWork,          \* ticks from reading TCNT to writing OCR
    MaxLag            \* bound: ticks from a compare match to its interrupt

Channels == 0..ServoCount-1
NoPin == "none"
NoPulse == -1

(* A pass of the longest pulses fits into the count of the timer.          *)
LongestPulse == CHOOSE w \in Widths : \A v \in Widths : v =< w
LongestPass == SERVOS_PER_TIMER * (LongestPulse + MaxLag) + Margin
LongestFrame ==
    MaxLag + (IF LongestPass > REFRESH THEN LongestPass ELSE REFRESH)

ASSUME ServosAssumption ==
    /\ SERVOS_PER_TIMER \in Nat \ {0}
    /\ ServoCount \in 1..SERVOS_PER_TIMER
    /\ NoPin \notin Pins
ASSUME TicksAssumption ==
    /\ Widths \subseteq Nat /\ \E w \in Widths : \A v \in Widths : v =< w
    /\ REFRESH \in Nat
    /\ Margin \in Nat /\ MaxLag \in Nat /\ TcntMod \in Nat
    /\ MaxWork \in 0..Margin-1
    /\ \A w \in Widths : w > MaxWork
    /\ LongestFrame < TcntMod

VARIABLES
    pc, cur,          \* the step of attach() that is next, its servo
    active,           \* servos with Pin.isActive
    nbr, ticks,       \* Pin.nbr and ticks of every servo
    Channel,          \* the channel being pulsed, -1 in the refresh interval
    tcnt, ocr,        \* the registers TCNT and OCRA
    matched,          \* the flag OCFA: the interrupt is pending
    enabled,          \* OCIEA
    high,             \* pins that are HIGH
    late,             \* ticks the interrupt has been pending
    pulse,            \* history: the servo whose pulse is under way, the
    width, age,       \*   ticks it had at its start, its length so far
    frame,            \* history: ticks since the last pass began
    steady            \* history: no initISR since the last pass began

program == <<pc, cur>>
servos == <<active, nbr, ticks>>
timer == <<Channel, tcnt, ocr, matched, enabled, late>>
pulsing == <<pulse, width, age>>
vars == <<program, servos, timer, high, pulsing, frame, steady>>

TypeOK ==
    /\ pc \in {"idle", "check", "count", "enable", "activate"}
    /\ cur \in Channels /\ active \subseteq Channels
    /\ nbr \in [Channels -> Pins \cup {NoPin}]
    /\ ticks \in [Channels -> Widths]
    /\ Channel \in -1..ServoCount-1
    /\ tcnt \in 0..TcntMod-1 /\ ocr \in 0..TcntMod-1
    /\ matched \in BOOLEAN /\ enabled \in BOOLEAN /\ steady \in BOOLEAN
    /\ high \subseteq Pins
    /\ late \in 0..MaxLag
    /\ pulse \in Channels \cup {NoPulse} /\ width \in Widths \cup {0}
    /\ age \in Nat /\ frame \in Nat

(* Channel[] starts as 0 and OCRA as it was reset.                         *)
Init ==
    /\ pc = "idle" /\ cur = 0
    /\ active = {} /\ nbr = [s \in Channels |-> NoPin]
    /\ ticks \in [Channels -> Widths]
    /\ Channel = 0 /\ tcnt = 0 /\ ocr = 0
    /\ matched = FALSE /\ enabled = FALSE /\ late = 0
    /\ high = {}
    /\ pulse = NoPulse /\ width = 0 /\ age = 0
    /\ frame = REFRESH /\ steady = FALSE

-----------------------------------------------------------------------------
(* The sketch.                                                             *)

(* Nothing is said of a pulse that attach() or detach() meddles with.      *)
Meddle(s) ==
    IF pulse = s THEN pulse' = NoPulse /\ width' = 0 /\ age' = 0
                 ELSE UNCHANGED pulsing

(* attach() on a pin no other servo has: pinMode, Pin.nbr, min and max.    *)
Attach(s, p) ==
    /\ pc = "idle" /\ \A t \in Channels \ {s} : nbr[t] # p
    /\ nbr' = [nbr EXCEPT ![s] = p]
    /\ pc' = "check" /\ cur' = s
    /\ Meddle(s)
    /\ UNCHANGED <<active, ticks, timer, high, frame, steady>>

(* Mutants: the timer is set up by every attach(), or, isActive being set  *)
(* before the check, by none.                                              *)
CheckTimerAlways ==
    /\ pc = "check" /\ pc' = "count"
    /\ UNCHANGED <<cur, servos, timer, high, pulsing, frame, steady>>
CheckTimerNever ==
    /\ pc = "check" /\ pc' = "activate"
    /\ UNCHANGED <<cur, servos, timer, high, pulsing, frame, steady>>

(* isTimerActive().                                                        *)
CheckTimer ==
    /\ pc = "check"
    /\ pc' = IF active = {} THEN "count" ELSE "activate"
    /\ UNCHANGED <<cur, servos, timer, high, pulsing, frame, steady>>

(* initISR(): normal mode, prescaler, TCNT = 0; the timer may be counting, *)
(* and its interrupt be on, since an earlier attach().                     *)
InitCount ==
    /\ pc = "count"
    /\ tcnt' = 0 /\ steady' = FALSE
    /\ pc' = "enable"
    /\ UNCHANGED <<cur, servos, Channel, ocr, matched, enabled, late, high,
                   pulsing, frame>>

(* initISR(): a pending interrupt is cleared, the interrupt enabled.       *)
InitEnable ==
    /\ pc = "enable"
    /\ matched' = FALSE /\ late' = 0 /\ enabled' = TRUE
    /\ steady' = FALSE
    /\ pc' = "activate"
    /\ UNCHANGED <<cur, servos, Channel, tcnt, ocr, high, pulsing, frame>>

Activate ==
    /\ pc = "activate"
    /\ active' = active \cup {cur}
    /\ pc' = "idle" /\ cur' = 0
    /\ UNCHANGED <<nbr, ticks, timer, high, pulsing, frame, steady>>

(* detach(); finISR() does nothing on an Arduino.                          *)
Detach(s) ==
    /\ pc = "idle" /\ s \in active
    /\ active' = active \ {s}
    /\ Meddle(s)
    /\ UNCHANGED <<program, nbr, ticks, timer, high, frame, steady>>

(* writeMicroseconds() stores ticks with interrupts off.                   *)
Write(s, w) ==
    /\ pc = "idle"
    /\ ticks' = [ticks EXCEPT ![s] = w]
    /\ UNCHANGED <<program, active, nbr, timer, high, pulsing, frame, steady>>

Sketch ==
    \/ \E s \in Channels, p \in Pins : Attach(s, p)
    \/ CheckTimer \/ InitCount \/ InitEnable \/ Activate
    \/ \E s \in Channels : Detach(s)
    \/ \E s \in Channels, w \in Widths : Write(s, w)

-----------------------------------------------------------------------------
(* handle_interrupts: the pulse of the current channel ends, and that of   *)
(* the next begins or the rest of the interval is waited for.  now is what *)
(* TCNT reads; work ticks later the next compare value is in OCR, too late *)
(* for a match before.                                                     *)
Lowered == IF Channel \in active THEN {nbr[Channel]} ELSE {}
Raised(c) == IF c \in active THEN {nbr[c]} ELSE {}

(* Mutants: no margin is kept; the interval is not waited for.             *)
RefreshAtNoMargin(now) == IF now + 1 < REFRESH THEN REFRESH ELSE now + 1
RefreshAtOnce(now) == now + Margin

RefreshAt(now) ==
    IF (now + Margin) % TcntMod < REFRESH THEN REFRESH ELSE now + Margin

NextPulse(now) ==
    /\ Channel + 1 < ServoCount /\ Channel + 1 < SERVOS_PER_TIMER
    /\ Channel' = Channel + 1
    /\ ocr' = (now + ticks[Channel']) % TcntMod
    /\ high' = (high \ Lowered) \cup Raised(Channel')
    /\ IF Channel' \in active
       THEN pulse' = Channel' /\ width' = ticks[Channel'] /\ age' = 0
       ELSE pulse' = NoPulse /\ width' = 0 /\ age' = 0

(* Mutant: the channel is not set back after the last one.                *)
WaitRefreshNoReset(now) ==
    /\ ~(Channel + 1 < ServoCount /\ Channel + 1 < SERVOS_PER_TIMER)
    /\ Channel' = Channel + 1
    /\ ocr' = RefreshAt(now) % TcntMod
    /\ high' = high \ Lowered
    /\ pulse' = NoPulse /\ width' = 0 /\ age' = 0

WaitRefresh(now) ==
    /\ ~(Channel + 1 < ServoCount /\ Channel + 1 < SERVOS_PER_TIMER)
    /\ Channel' = -1
    /\ ocr' = RefreshAt(now) % TcntMod
    /\ high' = high \ Lowered
    /\ pulse' = NoPulse /\ width' = 0 /\ age' = 0

(* Histories stop counting past what the properties tell apart.            *)
Longer(n, d) == IF n > LongestFrame THEN n ELSE n + d

HandleInterrupts(work) ==
    /\ matched /\ enabled
    /\ matched' = FALSE /\ late' = 0
    /\ LET now == IF Channel < 0 THEN 0 ELSE tcnt
       IN  /\ tcnt' = (now + work) % TcntMod
           /\ NextPulse(now) \/ WaitRefresh(now)
    /\ IF Channel < 0 THEN frame' = work /\ steady' = TRUE
                      ELSE frame' = Longer(frame, work) /\ steady' = steady
    /\ UNCHANGED <<program, servos, enabled>>

(* The timer counts, once it was set up.                                   *)
Tick ==
    /\ enabled \/ pc = "enable"
    /\ matched /\ enabled => late < MaxLag
    /\ tcnt' = (tcnt + 1) % TcntMod
    /\ matched' = (matched \/ tcnt' = ocr)
    /\ late' = IF matched /\ enabled THEN late + 1 ELSE 0
    /\ age' = IF pulse = NoPulse THEN 0 ELSE Longer(age, 1)
    /\ frame' = Longer(frame, 1)
    /\ UNCHANGED <<program, servos, Channel, ocr, enabled, high, pulse, width, steady>>

Interrupt == \E work \in 0..MaxWork : HandleInterrupts(work)
Hardware == Interrupt \/ Tick

Next == Sketch \/ Hardware

Spec == Init /\ [][Next]_vars

(* The timer does not stand still.                                         *)
FairSpec == Spec /\ WF_vars(Hardware)

-----------------------------------------------------------------------------
(* A pulse that attach() and detach() leave alone ends by the interrupt,   *)
(* and is as long as the value written when it began, whatever is attached,*)
(* detached or written meanwhile.                                          *)
PulseIsAsWritten ==
    [][pulse # NoPulse /\ Channel' # Channel =>
          /\ nbr[pulse] \in high \ high'
          /\ age \in width - MaxWork .. width + MaxLag]_vars

(* The comment at REFRESH_INTERVAL, "minimum time to refresh servos": two  *)
(* passes over the servos never begin closer together.                     *)
RefreshNotTooSoon == [][Channel = -1 /\ Channel' # -1 => frame >= REFRESH]_vars

(* No compare value is ever missed: a pass follows the last one in time,   *)
(* also when the pulses take longer than the refresh interval.             *)
FrameInTime == steady => frame =< LongestFrame

(* A servo that stays attached gets pulses for ever, each of which ends,   *)
(* whatever the sketch does with the others.                               *)
KeepsPulsing ==
    \A s \in Channels :
        <>[](s \in active) => []<>(pulse = s) /\ []<>(pulse # s)
=============================================================================
