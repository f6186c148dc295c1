--------------------------- MODULE ServoTimer_proofs ---------------------------
(***************************************************************************)
(* Proofs about ServoTimer, for any number of servos and pins, any set of  *)
(* pulse lengths, any refresh interval and any timer they fit into.        *)
(***************************************************************************)
EXTENDS ServoTimer, Residues

-----------------------------------------------------------------------------
(* The lengths a pass is made of, and how they fit the timer.              *)
Slot == LongestPulse + MaxLag

LEMMA Lengths ==
    /\ LongestPulse \in Nat /\ LongestPulse \in Widths
    /\ \A w \in Widths : w \in Nat /\ w =< LongestPulse /\ w > MaxWork
    /\ Slot \in Nat /\ Slot = LongestPulse + MaxLag
    /\ SERVOS_PER_TIMER \in Nat \ {0} /\ SERVOS_PER_TIMER * Slot \in Nat
    /\ Slot =< SERVOS_PER_TIMER * Slot
    /\ LongestPass \in Nat /\ LongestPass = SERVOS_PER_TIMER * Slot + Margin
    /\ LongestFrame \in Nat /\ LongestFrame >= MaxLag + LongestPass
    /\ LongestFrame >= MaxLag + REFRESH /\ LongestFrame < TcntMod
    /\ LongestFrame = MaxLag + LongestPass \/ LongestFrame = MaxLag + REFRESH
    /\ TcntMod \in Nat \ {0} /\ REFRESH \in Nat /\ Margin \in Nat
    /\ MaxLag \in Nat /\ MaxWork \in Nat /\ MaxWork < Margin
<1>1. /\ LongestPulse \in Widths /\ \A v \in Widths : v =< LongestPulse
  BY TicksAssumption, Zenon DEF LongestPulse
<1>2. /\ LongestPulse \in Nat /\ MaxLag \in Nat /\ Margin \in Nat /\ REFRESH \in Nat
      /\ MaxWork \in Nat /\ MaxWork < Margin /\ TcntMod \in Nat
      /\ \A w \in Widths : w \in Nat /\ w =< LongestPulse /\ w > MaxWork
  BY <1>1, TicksAssumption
<1>3. Slot \in Nat /\ Slot = LongestPulse + MaxLag
  BY <1>2 DEF Slot
<1>4. SERVOS_PER_TIMER \in Nat \ {0}
  BY ServosAssumption
<1>5. SERVOS_PER_TIMER * Slot \in Nat /\ Slot =< SERVOS_PER_TIMER * Slot
  <2>1. \A n \in Nat \ {0}, k \in Nat : n * k \in Nat /\ k =< n * k
    <3> TAKE n \in Nat \ {0}, k \in Nat
    <3>1. n * k = (n - 1) * k + k /\ (n - 1) * k >= 0 /\ (n - 1) * k \in Int
      OBVIOUS
    <3> QED
      BY <3>1
  <2> QED
    BY <1>3, <1>4, <2>1
<1>6. LongestPass = SERVOS_PER_TIMER * Slot + Margin /\ LongestPass \in Nat
  BY <1>2, <1>5 DEF LongestPass, Slot
<1>7. /\ LongestFrame \in Nat /\ LongestFrame >= MaxLag + LongestPass
      /\ LongestFrame >= MaxLag + REFRESH
      /\ LongestFrame = MaxLag + LongestPass \/ LongestFrame = MaxLag + REFRESH
  BY <1>2, <1>6 DEF LongestFrame
<1> QED
  BY <1>1, <1>2, <1>3, <1>4, <1>5, <1>6, <1>7, TicksAssumption

(* Channels are counted from 0.                                            *)
LEMMA ChannelsAre ==
    /\ ServoCount \in Nat \ {0} /\ ServoCount =< SERVOS_PER_TIMER
    /\ 0 \in Channels /\ NoPulse \notin Channels /\ NoPulse = -1
    /\ \A c : c \in Channels <=> c \in Nat /\ c < ServoCount
BY ServosAssumption DEF Channels, NoPulse

-----------------------------------------------------------------------------
(* The compare value the interrupt writes lies within the timer.           *)
LEMMA RefreshRange == ASSUME NEW now \in 0..TcntMod-1 PROVE RefreshAt(now) \in Nat
BY Lengths DEF RefreshAt

(* A history that counts stays a number.                                   *)
LEMMA LongerIs ==
    ASSUME NEW n \in Nat, NEW d \in Nat
    PROVE  Longer(n, d) \in Nat /\ (n =< LongestFrame => Longer(n, d) = n + d)
BY Lengths DEF Longer

(* The types hold before setup().                                          *)
LEMMA TypeInit == Init => TypeOK
<1> SUFFICES ASSUME Init PROVE TypeOK
  OBVIOUS
<1>1. matched \in BOOLEAN /\ enabled \in BOOLEAN /\ steady \in BOOLEAN
  BY Zenon DEF Init
<1> QED
  BY <1>1, Lengths, ChannelsAre DEF Init, TypeOK

(* What the sketch does keeps the types.                                   *)
LEMMA TypeSketch == TypeOK /\ Sketch => TypeOK'
<1> SUFFICES ASSUME TypeOK, Sketch PROVE TypeOK'
  OBVIOUS
<1> USE Lengths, ChannelsAre DEF TypeOK, program, servos, timer, pulsing
<1>1. matched' \in BOOLEAN /\ enabled' \in BOOLEAN /\ steady' \in BOOLEAN
  BY Zenon DEF Sketch, Attach, CheckTimer, InitCount, InitEnable, Activate, Detach,
               Write, Meddle
<1>2. ASSUME NEW s \in Channels, NEW p \in Pins, Attach(s, p) PROVE TypeOK'
  BY <1>1, <1>2 DEF Attach, Meddle
<1>3. CASE CheckTimer
  BY <1>1, <1>3 DEF CheckTimer
<1>4. CASE InitCount
  BY <1>1, <1>4 DEF InitCount
<1>5. CASE InitEnable
  BY <1>1, <1>5 DEF InitEnable
<1>6. CASE Activate
  BY <1>1, <1>6 DEF Activate
<1>7. ASSUME NEW s \in Channels, Detach(s) PROVE TypeOK'
  BY <1>1, <1>7 DEF Detach, Meddle
<1>8. ASSUME NEW s \in Channels, NEW w \in Widths, Write(s, w) PROVE TypeOK'
  BY <1>1, <1>8 DEF Write
<1> QED
  BY <1>2, <1>3, <1>4, <1>5, <1>6, <1>7, <1>8 DEF Sketch

-----------------------------------------------------------------------------
(* No two servos have a pin in common, an attached one has one, and the    *)
(* timer is set up only while no servo is attached.                        *)
PinsInv ==
    /\ \A s \in active : nbr[s] \in Pins
    /\ pc # "idle" => nbr[cur] \in Pins
    /\ \A s, t \in Channels : s # t /\ nbr[s] \in Pins => nbr[s] # nbr[t]
    /\ pc \in {"count", "enable"} => active = {}

(* The pulse under way is that of the current channel, and the compare     *)
(* value lies where it is to end: its length less the time the interrupt   *)
(* took from reading TCNT to writing OCR.                                  *)
PulseInv ==
    pulse # NoPulse =>
        /\ pulse = Channel /\ pulse \in active /\ nbr[pulse] \in high
        /\ enabled /\ width \in Widths
        /\ \E work \in 0..MaxWork :
              /\ matched => age = (width - work) + late
              /\ ~matched => /\ age < width - work
                             /\ Cong(ocr - tcnt, (width - work) - age, TcntMod)

(* The timer counts from the start of a pass, unless it was set up since.  *)
RefreshInv ==
    /\ frame >= tcnt \/ frame > LongestFrame
    /\ Channel = -1 => ocr >= REFRESH /\ (matched => frame >= REFRESH)

(* Where in a pass the compare value of a channel can lie at most.         *)
Limit(c) == IF c = -1 THEN LongestFrame - MaxLag ELSE c * Slot + LongestPulse

(* In a steady pass the timer does not wrap, and has not passed OCR.       *)
FrameInv ==
    steady =>
        /\ enabled /\ frame = tcnt
        /\ IF matched THEN tcnt = ocr + late ELSE tcnt < ocr
        /\ ocr =< Limit(Channel)

ServoInv == TypeOK /\ PinsInv /\ PulseInv /\ RefreshInv /\ FrameInv

-----------------------------------------------------------------------------
(* The interrupt ends one pulse and begins the next, or a refresh interval.*)
LEMMA HandleCases ==
    ASSUME TypeOK, PinsInv, NEW work \in 0..MaxWork, HandleInterrupts(work),
           NEW now, now = IF Channel < 0 THEN 0 ELSE tcnt
    PROVE  /\ now \in 0..TcntMod-1 /\ tcnt' = (now + work) % TcntMod
           /\ Lowered \subseteq Pins
           /\ \/ /\ Channel + 1 \in Channels /\ Channel' = Channel + 1
                 /\ ticks[Channel'] \in Widths
                 /\ ocr' = (now + ticks[Channel']) % TcntMod
                 /\ high' = (high \ Lowered) \cup Raised(Channel')
                 /\ \/ /\ Channel' \in active /\ pulse' = Channel'
                       /\ width' = ticks[Channel'] /\ age' = 0
                    \/ /\ Channel' \notin active /\ pulse' = NoPulse
                       /\ width' = 0 /\ age' = 0
              \/ /\ Channel >= 0 /\ Channel + 1 >= ServoCount /\ Channel' = -1
                 /\ ocr' = RefreshAt(now) % TcntMod
                 /\ high' = high \ Lowered
                 /\ pulse' = NoPulse /\ width' = 0 /\ age' = 0
<1> USE Lengths, ChannelsAre
<1>1. Channel \in -1..ServoCount-1 /\ tcnt \in 0..TcntMod-1
      /\ ticks \in [Channels -> Widths]
  BY DEF TypeOK
<1>2. now \in 0..TcntMod-1
  BY <1>1
<1>3. tcnt' = (now + work) % TcntMod /\ (NextPulse(now) \/ WaitRefresh(now))
  BY Zenon DEF HandleInterrupts
<1>4. Lowered \subseteq Pins
  BY DEF Lowered, PinsInv
<1>5. CASE NextPulse(now)
  <2>1. Channel + 1 \in Channels /\ Channel' = Channel + 1
    BY <1>1, <1>5 DEF NextPulse
  <2>2. ticks[Channel'] \in Widths
    BY <1>1, <2>1
  <2> QED
    BY <1>2, <1>3, <1>4, <1>5, <2>1, <2>2 DEF NextPulse
<1>6. CASE WaitRefresh(now)
  <2>1. Channel >= 0 /\ Channel + 1 >= ServoCount
    BY <1>1, <1>6 DEF WaitRefresh
  <2> QED
    BY <1>2, <1>3, <1>4, <1>6, <2>1 DEF WaitRefresh
<1> QED
  BY <1>3, <1>5, <1>6

(* The timer and its interrupt keep the types.                             *)
LEMMA TypeHardware == TypeOK /\ PinsInv /\ Hardware => TypeOK'
<1> SUFFICES ASSUME TypeOK, PinsInv, Hardware PROVE TypeOK'
  OBVIOUS
<1> USE Lengths, ChannelsAre
<1>1. matched' \in BOOLEAN /\ enabled' \in BOOLEAN /\ steady' \in BOOLEAN
  <2>1. matched \in BOOLEAN /\ enabled \in BOOLEAN /\ steady \in BOOLEAN
    BY Zenon DEF TypeOK
  <2>2. /\ enabled' = enabled /\ steady' \in {steady, TRUE}
        /\ matched' = FALSE \/ matched' = (matched \/ tcnt' = ocr)
    BY Zenon DEF Hardware, Interrupt, HandleInterrupts, Tick
  <2> QED
    BY <2>1, <2>2, Zenon
<1>2. ASSUME NEW work \in 0..MaxWork, HandleInterrupts(work) PROVE TypeOK'
  <2> DEFINE now == IF Channel < 0 THEN 0 ELSE tcnt
  <2> HIDE DEF now
  <2>1. UNCHANGED <<program, servos, enabled>> /\ late' = 0
    BY <1>2 DEF HandleInterrupts
  <2>2. frame' \in Nat
    <3>1. frame \in Nat /\ work \in Nat
      BY DEF TypeOK
    <3>2. frame' = work \/ frame' = Longer(frame, work)
      BY <1>2, Zenon DEF HandleInterrupts
    <3> QED
      BY ZenonT(40), <3>1, <3>2, LongerIs
  <2>3. now \in 0..TcntMod-1 /\ tcnt' \in 0..TcntMod-1
    <3>1. now \in 0..TcntMod-1 /\ tcnt' = (now + work) % TcntMod
      BY <1>2, HandleCases DEF now
    <3> QED
      BY <3>1
  <2>4. /\ Channel' \in -1..ServoCount-1 /\ ocr' \in 0..TcntMod-1
        /\ high' \subseteq Pins /\ pulse' \in Channels \cup {NoPulse}
        /\ width' \in Widths \cup {0} /\ age' \in Nat
    <3>1. high \subseteq Pins /\ Lowered \subseteq Pins
      BY <1>2, HandleCases DEF TypeOK
    <3>2. CASE /\ Channel + 1 \in Channels /\ Channel' = Channel + 1
               /\ ticks[Channel'] \in Widths
               /\ ocr' = (now + ticks[Channel']) % TcntMod
               /\ high' = (high \ Lowered) \cup Raised(Channel')
               /\ \/ /\ Channel' \in active /\ pulse' = Channel'
                     /\ width' = ticks[Channel'] /\ age' = 0
                  \/ /\ Channel' \notin active /\ pulse' = NoPulse
                     /\ width' = 0 /\ age' = 0
      <4>1. Raised(Channel') \subseteq Pins
        BY DEF Raised, PinsInv
      <4>2. ocr' \in 0..TcntMod-1
        <5>1. ticks[Channel'] \in Nat
          BY <3>2, Zenon
        <5> QED
          BY <2>3, <3>2, <5>1
      <4> QED
        BY <3>1, <3>2, <4>1, <4>2
    <3>3. CASE /\ Channel' = -1 /\ ocr' = RefreshAt(now) % TcntMod
               /\ high' = high \ Lowered
               /\ pulse' = NoPulse /\ width' = 0 /\ age' = 0
      <4>1. RefreshAt(now) \in Nat
        BY <2>3, RefreshRange
      <4>2. ocr' \in 0..TcntMod-1
        BY <3>3, <4>1
      <4> QED
        BY <3>1, <3>3, <4>2
    <3> QED
      BY <1>2, <3>2, <3>3, HandleCases DEF now
  <2> QED
    BY <1>1, <2>1, <2>2, <2>3, <2>4 DEF TypeOK, program, servos
<1>3. CASE Tick
  <2>1. /\ UNCHANGED <<program, servos, Channel, ocr, high, pulse, width>>
        /\ tcnt' = (tcnt + 1) % TcntMod
        /\ late' = (IF matched /\ enabled THEN late + 1 ELSE 0)
        /\ matched /\ enabled => late < MaxLag
    BY <1>3 DEF Tick
  <2>2. age' \in Nat /\ frame' \in Nat
    <3>1. age \in Nat /\ frame \in Nat
      BY DEF TypeOK
    <3>2. age' \in {0, Longer(age, 1)} /\ frame' = Longer(frame, 1)
      BY <1>3 DEF Tick
    <3> QED
      BY ZenonT(40), <3>1, <3>2, LongerIs
  <2>3. tcnt' \in 0..TcntMod-1 /\ late' \in 0..MaxLag
    BY <2>1 DEF TypeOK
  <2> QED
    BY <1>1, <2>1, <2>2, <2>3 DEF TypeOK, program, servos
<1> QED
  BY <1>2, <1>3 DEF Hardware, Interrupt

(* Attaching and detaching keep the pins apart, and setting the timer up   *)
(* falls before the first servo is attached.                               *)
LEMMA PinsStep == TypeOK /\ PinsInv /\ [Next]_vars => PinsInv'
<1> SUFFICES ASSUME TypeOK, PinsInv, [Next]_vars PROVE PinsInv'
  OBVIOUS
<1> USE DEF PinsInv, program, servos
<1>0. /\ cur \in Channels /\ nbr \in [Channels -> Pins \cup {NoPin}]
      /\ active \subseteq Channels /\ NoPin \notin Pins
  BY ServosAssumption DEF TypeOK
<1>1. ASSUME NEW s \in Channels, NEW p \in Pins, Attach(s, p) PROVE PinsInv'
  <2>1. /\ nbr' = [nbr EXCEPT ![s] = p] /\ active' = active /\ pc' = "check"
        /\ cur' = s /\ \A t \in Channels \ {s} : nbr[t] # p
    BY <1>1 DEF Attach
  <2>2. /\ nbr'[s] = p /\ \A t \in Channels \ {s} : nbr'[t] = nbr[t]
    BY <1>0, <2>1
  <2>3. \A t \in active' : nbr'[t] \in Pins
    BY <1>0, <2>1, <2>2
  <2>4. \A t, u \in Channels : t # u /\ nbr'[t] \in Pins => nbr'[t] # nbr'[u]
    BY <2>1, <2>2
  <2> QED
    BY <2>1, <2>2, <2>3, <2>4
<1>2. CASE CheckTimer \/ InitCount \/ InitEnable
  BY <1>2 DEF CheckTimer, InitCount, InitEnable
<1>3. CASE Activate
  BY <1>3 DEF Activate
<1>4. ASSUME NEW s \in Channels, Detach(s) \/ \E w \in Widths : Write(s, w)
      PROVE  PinsInv'
  BY <1>4 DEF Detach, Write
<1>5. CASE Hardware
  BY <1>5 DEF Hardware, Interrupt, HandleInterrupts, Tick
<1>6. CASE UNCHANGED vars
  BY <1>6 DEF vars
<1> QED
  BY <1>1, <1>2, <1>3, <1>4, <1>5, <1>6 DEF Next, Sketch

-----------------------------------------------------------------------------
(* The pulse under way stays on course, whatever the sketch does.          *)
LEMMA PulseSketch == TypeOK /\ PinsInv /\ PulseInv /\ Sketch => PulseInv'
<1> SUFFICES ASSUME TypeOK, PinsInv, PulseInv, Sketch, pulse' # NoPulse
             PROVE  PulseInv'
  BY DEF PulseInv
<1> USE DEF program, servos, timer, pulsing
<1>1. /\ nbr \in [Channels -> Pins \cup {NoPin}] /\ active \subseteq Channels
      /\ NoPulse \notin Channels
  BY ChannelsAre DEF TypeOK
<1>2. ASSUME NEW s \in Channels, NEW p \in Pins, Attach(s, p) PROVE PulseInv'
  <2>1. /\ nbr' = [nbr EXCEPT ![s] = p] /\ pulse # s
        /\ UNCHANGED <<active, timer, high, pulsing>>
    BY <1>2 DEF Attach, Meddle
  <2>2. pulse # NoPulse => nbr'[pulse] = nbr[pulse]
    BY <1>1, <2>1 DEF PulseInv
  <2> QED
    BY <2>1, <2>2 DEF PulseInv
<1>3. ASSUME NEW s \in Channels, Detach(s) PROVE PulseInv'
  <2>1. /\ active' = active \ {s} /\ pulse # s
        /\ UNCHANGED <<nbr, timer, high, pulsing>>
    BY <1>3 DEF Detach, Meddle
  <2> QED
    BY <2>1 DEF PulseInv
<1>4. CASE CheckTimer \/ Activate \/ \E s \in Channels, w \in Widths : Write(s, w)
  <2>1. /\ active \subseteq active'
        /\ UNCHANGED <<nbr, timer, high, pulsing>>
    BY <1>4 DEF CheckTimer, Activate, Write
  <2> QED
    BY <2>1 DEF PulseInv
<1>5. CASE InitCount \/ InitEnable
  BY <1>5 DEF InitCount, InitEnable, PinsInv, PulseInv
<1> QED
  BY <1>2, <1>3, <1>4, <1>5 DEF Sketch

(* The interrupt sets the compare value to the end of the pulse it begins. *)
LEMMA PulseBegins ==
    ASSUME TypeOK, PinsInv, NEW work \in 0..MaxWork, HandleInterrupts(work)
    PROVE  PulseInv'
<1> SUFFICES ASSUME pulse' # NoPulse PROVE PulseInv'
  BY DEF PulseInv
<1> DEFINE now == IF Channel < 0 THEN 0 ELSE tcnt  w == ticks[Channel']
<1> HIDE DEF now
<1>1. /\ now \in 0..TcntMod-1 /\ tcnt' = (now + work) % TcntMod
      /\ w \in Widths /\ ocr' = (now + w) % TcntMod
      /\ high' = (high \ Lowered) \cup Raised(Channel')
      /\ Channel' \in active /\ pulse' = Channel' /\ width' = w /\ age' = 0
  BY HandleCases DEF now
<1>2. /\ enabled' /\ ~matched' /\ UNCHANGED <<active, nbr>>
  BY DEF HandleInterrupts, servos
<1>3. nbr[Channel'] \in high'
  BY <1>1 DEF Raised
<1>4. w \in Nat /\ w > MaxWork
  BY <1>1, Lengths
<1> HIDE DEF w
<1>5. Cong(ocr' - tcnt', (w - work) - age', TcntMod)
  <2>1. /\ now + w \in Int /\ now + work \in Int /\ TcntMod \in Nat \ {0}
        /\ (now + w) - (now + work) = (w - work) - age'
    BY <1>1, <1>4, Lengths
  <2>2. Cong(ocr', now + w, TcntMod) /\ ocr' \in 0..TcntMod-1
    BY <1>1, <2>1, CongMod
  <2>3. Cong(tcnt', now + work, TcntMod) /\ tcnt' \in 0..TcntMod-1
    BY <1>1, <2>1, CongMod
  <2>4. ocr' \in Int /\ tcnt' \in Int
    BY <2>1, <2>2, <2>3
  <2>5. Cong(ocr' - tcnt', (now + w) - (now + work), TcntMod)
    BY <2>1, <2>2, <2>3, <2>4, CongAdd
  <2> QED
    BY <2>1, <2>5
<1>6. age' < w - work
  BY <1>1, <1>4, Lengths
<1> QED
  BY <1>1, <1>2, <1>3, <1>5, <1>6 DEF PulseInv

(* With time the compare match comes when the pulse is to end.             *)
LEMMA PulseTicks == TypeOK /\ PulseInv /\ Tick => PulseInv'
<1> SUFFICES ASSUME TypeOK, PulseInv, Tick, pulse # NoPulse PROVE PulseInv'
  BY DEF PulseInv, Tick
<1>1. /\ pulse = Channel /\ pulse \in active /\ nbr[pulse] \in high
      /\ enabled /\ width \in Widths
  BY DEF PulseInv
<1>2. PICK work \in 0..MaxWork :
        /\ matched => age = (width - work) + late
        /\ ~matched => /\ age < width - work
                       /\ Cong(ocr - tcnt, (width - work) - age, TcntMod)
  BY DEF PulseInv
<1>3. /\ UNCHANGED <<active, nbr, Channel, ocr, enabled, high, pulse, width>>
      /\ tcnt' = (tcnt + 1) % TcntMod
      /\ late' = IF matched /\ enabled THEN late + 1 ELSE 0
      /\ age' = Longer(age, 1)
      /\ matched /\ enabled => late < MaxLag
  BY DEF Tick, program, servos
<1>4. matched' <=> matched \/ tcnt' = ocr
  BY Zenon DEF Tick
<1>5. /\ late \in Nat /\ age \in Nat /\ work \in Nat /\ width \in Nat
      /\ tcnt \in Int /\ ocr \in 0..TcntMod-1 /\ ocr \in Int
  BY <1>1, Lengths DEF TypeOK
<1>6. age =< LongestFrame
  BY <1>1, <1>2, <1>3, <1>5, Lengths
<1>7. age' = age + 1
  BY <1>3, <1>5, <1>6, LongerIs
<1>8. CASE matched
  <2>1. matched' /\ age' = (width - work) + late'
    BY <1>1, <1>2, <1>3, <1>4, <1>5, <1>7, <1>8
  <2> QED
    BY <1>1, <1>3, <2>1 DEF PulseInv
<1>9. CASE ~matched
  <2> DEFINE d == (width - work) - age
  <2>1. d \in Nat \ {0} /\ d =< LongestFrame /\ d < TcntMod
    BY <1>1, <1>2, <1>5, <1>9, Lengths
  <2>2. d - 1 = (width - work) - age' /\ d - 1 \in 0..TcntMod-1
    BY <1>5, <1>7, <2>1, Lengths
  <2>3. Cong(ocr - tcnt, d, TcntMod) /\ d \in Int /\ TcntMod \in Nat \ {0}
    BY <1>2, <1>9, <2>1, Lengths
  <2> HIDE DEF d
  <2>4. Cong(ocr - ((tcnt + 1) % TcntMod), d - 1, TcntMod)
    BY <1>5, <2>3, CongCountdown
  <2>5. Cong(ocr' - tcnt', (width - work) - age', TcntMod)
    BY <1>3, <2>2, <2>4
  <2>6. tcnt' = ocr <=> d - 1 = 0
    <3>1. tcnt' \in 0..TcntMod-1 /\ tcnt' \in Int
      BY <1>3, <1>5, <2>3
    <3>2. Cong(ocr - tcnt', d - 1, TcntMod)
      BY <1>3, <2>4
    <3>3. ASSUME tcnt' = ocr PROVE d - 1 = 0
      <4>1. ocr - tcnt' = 0
        BY <1>5, <3>1, <3>3
      <4> QED
        BY <2>2, <2>3, <3>2, <4>1, CongSmall
    <3>4. ASSUME d - 1 = 0 PROVE tcnt' = ocr
      <4>1. Cong(ocr, tcnt', TcntMod)
        BY <1>5, <3>1, <3>2, <3>4 DEF Cong
      <4> QED
        BY <1>5, <2>3, <3>1, <4>1, CongSmall
    <3> QED
      BY <3>3, <3>4
  <2>7. CASE tcnt' = ocr
    <3>1. matched' /\ late' = 0
      BY <1>3, <1>4, <1>9, <2>7
    <3>2. age' = (width - work) + late'
      BY <1>5, <1>7, <2>2, <2>6, <2>7, <3>1
    <3> QED
      BY <1>1, <1>3, <3>1, <3>2 DEF PulseInv
  <2>8. CASE tcnt' # ocr
    <3>1. ~matched'
      BY <1>4, <1>9, <2>8
    <3>2. age' < width - work
      BY <1>5, <1>7, <2>1, <2>2, <2>6, <2>8
    <3> QED
      BY <1>1, <1>3, <2>5, <3>1, <3>2 DEF PulseInv
  <2> QED
    BY <2>7, <2>8
<1> QED
  BY <1>8, <1>9

LEMMA PulseStep == TypeOK /\ PinsInv /\ PulseInv /\ [Next]_vars => PulseInv'
<1>1. TypeOK /\ PinsInv /\ Interrupt => PulseInv'
  BY PulseBegins DEF Interrupt
<1>2. PulseInv /\ UNCHANGED vars => PulseInv'
  BY DEF PulseInv, vars, program, servos, timer, pulsing
<1> QED
  BY <1>1, <1>2, PulseSketch, PulseTicks DEF Next, Hardware

-----------------------------------------------------------------------------
(* The compare value of a refresh interval lies at or after its end.       *)
LEMMA RefreshLater ==
    ASSUME NEW now \in 0..TcntMod-1
    PROVE  RefreshAt(now) % TcntMod >= REFRESH
<1>1. REFRESH \in 0..TcntMod-1 /\ TcntMod \in Nat \ {0} /\ REFRESH \in Nat
  BY Lengths
<1>2. REFRESH % TcntMod = REFRESH
  BY <1>1, ModSmall
<1>3. CASE (now + Margin) % TcntMod < REFRESH
  BY <1>1, <1>2, <1>3 DEF RefreshAt
<1>4. CASE ~((now + Margin) % TcntMod < REFRESH)
  <2>1. (now + Margin) % TcntMod \in Int
    BY Lengths
  <2> QED
    BY <1>1, <1>4, <2>1 DEF RefreshAt
<1> QED
  BY <1>3, <1>4

(* The timer never shows more than the time since the pass began.          *)
LEMMA RefreshStep ==
    TypeOK /\ PinsInv /\ RefreshInv /\ [Next]_vars => RefreshInv'
<1> SUFFICES ASSUME TypeOK, PinsInv, RefreshInv, [Next]_vars PROVE RefreshInv'
  OBVIOUS
<1> USE Lengths, ChannelsAre
<1>0. /\ tcnt \in 0..TcntMod-1 /\ frame \in Nat /\ ocr \in Nat
      /\ Channel \in -1..ServoCount-1
  BY DEF TypeOK
<1>1. CASE Sketch
  <2>1. /\ UNCHANGED <<Channel, ocr, frame>> /\ tcnt' \in {tcnt, 0}
        /\ matched' => matched
    <3>1. CASE InitCount \/ InitEnable
      BY <3>1 DEF InitCount, InitEnable
    <3>2. CASE ~(InitCount \/ InitEnable)
      BY <1>1, <3>2 DEF Sketch, Attach, CheckTimer, Activate, Detach, Write, timer
    <3> QED
      BY <3>1, <3>2
  <2> QED
    BY <1>0, <2>1 DEF RefreshInv
<1>2. ASSUME NEW work \in 0..MaxWork, HandleInterrupts(work) PROVE RefreshInv'
  <2> DEFINE now == IF Channel < 0 THEN 0 ELSE tcnt
  <2> HIDE DEF now
  <2>1. ~matched' /\ frame' = IF Channel < 0 THEN work ELSE Longer(frame, work)
    BY <1>2 DEF HandleInterrupts
  <2>2. now \in 0..TcntMod-1 /\ tcnt' = (now + work) % TcntMod
    BY <1>2, HandleCases DEF now
  <2>3. Channel' = -1 => ocr' >= REFRESH
    <3>1. Channel' = -1 => ocr' = RefreshAt(now) % TcntMod
      BY <1>0, <1>2, HandleCases DEF now
    <3> QED
      BY <2>2, <3>1, RefreshLater
  <2>4. frame' >= tcnt' \/ frame' > LongestFrame
    <3>1. now + work \in Nat /\ work \in Nat
      BY <2>2
    <3>2. tcnt' =< now + work /\ tcnt' \in Nat
      BY <2>2, <3>1, ModAtMost
    <3>3. CASE Channel < 0
      BY <2>1, <3>1, <3>2, <3>3 DEF now
    <3>4. CASE ~(Channel < 0)
      <4>1. now = tcnt /\ frame' = Longer(frame, work)
        BY <2>1, <3>4 DEF now
      <4> QED
        BY <1>0, <3>1, <3>2, <4>1 DEF RefreshInv, Longer
    <3> QED
      BY <3>3, <3>4
  <2> QED
    BY <2>1, <2>3, <2>4 DEF RefreshInv
<1>3. CASE Tick
  <2>1. /\ UNCHANGED <<Channel, ocr>> /\ tcnt' = (tcnt + 1) % TcntMod
        /\ frame' = Longer(frame, 1)
    BY <1>3 DEF Tick
  <2>2. matched' => matched \/ tcnt' = ocr
    BY <1>3, Zenon DEF Tick
  <2>3. tcnt' =< tcnt + 1 /\ tcnt' \in Nat
    <3>1. tcnt + 1 \in Nat
      BY <1>0
    <3> QED
      BY <2>1, <3>1, ModAtMost
  <2>4. frame' >= frame /\ (frame' >= tcnt' \/ frame' > LongestFrame)
    BY <1>0, <2>1, <2>3 DEF RefreshInv, Longer
  <2>5. ASSUME Channel = -1 PROVE ocr >= REFRESH /\ (matched' => frame' >= REFRESH)
    <3>1. frame' \in Nat /\ LongestFrame >= REFRESH
      BY <1>0, <2>1, LongerIs
    <3> QED
      BY <1>0, <2>2, <2>3, <2>4, <2>5, <3>1 DEF RefreshInv
  <2> QED
    BY <2>1, <2>4, <2>5 DEF RefreshInv
<1>4. CASE UNCHANGED vars
  BY <1>4 DEF vars, timer, RefreshInv
<1> QED
  BY <1>1, <1>2, <1>3, <1>4 DEF Next, Hardware, Interrupt

-----------------------------------------------------------------------------
(* Channel by channel a pass moves on by at most a slot.                   *)
LEMMA Slots ==
    ASSUME NEW c \in Nat, c + 1 =< SERVOS_PER_TIMER
    PROVE  /\ c * Slot \in Nat /\ (c + 1) * Slot = c * Slot + Slot
           /\ (c + 1) * Slot =< SERVOS_PER_TIMER * Slot
<1>1. \A a, b, k \in Nat : a + 1 =< b =>
          /\ a * k \in Nat /\ (a + 1) * k = a * k + k
          /\ (a + 1) * k =< b * k
  <2> TAKE a, b, k \in Nat
  <2> HAVE a + 1 =< b
  <2>1. a * k \in Nat /\ (a + 1) * k = a * k + k
    OBVIOUS
  <2>2. b - (a + 1) \in Nat /\ b * k = (a + 1) * k + (b - (a + 1)) * k
    OBVIOUS
  <2>3. (b - (a + 1)) * k >= 0
    BY <2>2
  <2> QED
    BY <2>1, <2>2, <2>3
<1> QED
  BY <1>1, Lengths

(* A channel's compare value and a late interrupt fit the timer.           *)
LEMMA LimitFits ==
    ASSUME NEW c \in -1..ServoCount-1
    PROVE  Limit(c) \in Int /\ Limit(c) + MaxLag =< LongestFrame
<1>1. CASE c = -1
  BY <1>1, Lengths DEF Limit
<1>2. CASE c # -1
  <2>1. c \in Nat /\ c + 1 =< SERVOS_PER_TIMER
    BY <1>2, ChannelsAre, Lengths
  <2>2. /\ c * Slot \in Nat /\ (c + 1) * Slot = c * Slot + Slot
        /\ (c + 1) * Slot =< SERVOS_PER_TIMER * Slot
    BY <2>1, Slots
  <2>3. Limit(c) = c * Slot + LongestPulse
    BY <1>2 DEF Limit
  <2> QED
    BY <2>2, <2>3, Lengths
<1> QED
  BY <1>1, <1>2

(* The interrupt never sets a compare value that has passed already, and a *)
(* pass keeps its place within the timer.                                  *)
LEMMA FrameInterrupt ==
    ASSUME TypeOK, PinsInv, FrameInv, NEW work \in 0..MaxWork, HandleInterrupts(work)
    PROVE  FrameInv'
<1> SUFFICES ASSUME steady' PROVE FrameInv'
  BY DEF FrameInv
<1> USE Lengths, ChannelsAre
<1> DEFINE now == IF Channel < 0 THEN 0 ELSE tcnt
<1> HIDE DEF now
<1>1. /\ matched /\ ~matched' /\ enabled'
      /\ frame' = IF Channel < 0 THEN work ELSE Longer(frame, work)
      /\ Channel >= 0 => steady
  <2>1. Channel \in Int
    BY DEF TypeOK
  <2>2. /\ matched /\ enabled /\ matched' = FALSE /\ enabled' = enabled
        /\ IF Channel < 0 THEN frame' = work /\ steady' = TRUE
           ELSE frame' = Longer(frame, work) /\ steady' = steady
    BY Zenon DEF HandleInterrupts
  <2>3. Channel >= 0 => ~(Channel < 0)
    BY <2>1
  <2> QED
    BY <2>2, <2>3, Zenon
<1>2. /\ Channel \in -1..ServoCount-1 /\ late \in 0..MaxLag /\ tcnt \in Nat
      /\ ocr \in Nat /\ work \in Nat
  BY DEF TypeOK
<1>3. now \in 0..TcntMod-1 /\ tcnt' = (now + work) % TcntMod
  BY HandleCases DEF now
<1>4. /\ Channel >= 0 => now =< (Channel + 1) * Slot
      /\ Channel < 0 => now = 0
      /\ now + work =< LongestFrame => frame' = now + work
  <2>1. CASE Channel < 0
    BY <1>1, <1>2, <2>1 DEF now
  <2>2. CASE Channel >= 0
    <3>1. now = tcnt /\ frame = now /\ tcnt = ocr + late /\ ocr =< Limit(Channel)
      BY <1>1, <1>2, <2>2 DEF FrameInv, now
    <3>2. Limit(Channel) = Channel * Slot + LongestPulse
      BY <2>2 DEF Limit
    <3>3. /\ Channel * Slot \in Nat /\ (Channel + 1) * Slot = Channel * Slot + Slot
      <4>1. Channel \in Nat /\ Channel + 1 =< SERVOS_PER_TIMER
        BY <1>2, <2>2
      <4> QED
        BY <4>1, Slots
    <3>4. now =< (Channel + 1) * Slot
      BY <1>2, <3>1, <3>2, <3>3
    <3>5. now + work =< LongestFrame => frame' = now + work
      <4>1. frame' = Longer(now, work) /\ now \in Nat
        BY <1>1, <1>2, <1>3, <2>2, <3>1
      <4>2. now + work =< LongestFrame => now =< LongestFrame
        BY <1>2, <4>1
      <4>3. now =< LongestFrame => Longer(now, work) = now + work
        BY <1>2, <4>1, LongerIs
      <4> QED
        BY <4>1, <4>2, <4>3
    <3> QED
      BY <1>2, <2>2, <3>4, <3>5
  <2> QED
    BY <1>2, <2>1, <2>2
<1>5. ASSUME NEW o \in Nat, ocr' = o % TcntMod, now + work < o, o =< Limit(Channel'),
             Channel' \in -1..ServoCount-1
      PROVE  FrameInv'
  <2>1. Limit(Channel') \in Int /\ Limit(Channel') =< LongestFrame
    BY <1>5, LimitFits
  <2>2. o \in 0..TcntMod-1 /\ now + work \in 0..TcntMod-1
    BY <1>2, <1>3, <1>5, <2>1
  <2>3. ocr' = o /\ tcnt' = now + work
    BY <1>3, <1>5, <2>2, ModSmall
  <2>4. frame' = now + work
    BY <1>2, <1>3, <1>4, <1>5, <2>1
  <2>5. Limit(Channel)' = Limit(Channel')
    BY DEF Limit
  <2> QED
    BY <1>1, <1>5, <2>3, <2>4, <2>5 DEF FrameInv
<1>6. CASE /\ Channel + 1 \in Channels /\ Channel' = Channel + 1
           /\ ticks[Channel'] \in Widths
           /\ ocr' = (now + ticks[Channel']) % TcntMod
  <2> DEFINE w == ticks[Channel']
  <2> HIDE DEF w
  <2>1. w \in Nat /\ w =< LongestPulse /\ w > MaxWork /\ ocr' = (now + w) % TcntMod
    <3>1. w \in Widths
      BY <1>6 DEF w
    <3> QED
      BY <1>6, <3>1 DEF w
  <2>2. Channel' \in Nat /\ now =< Channel' * Slot /\ Channel' * Slot \in Nat
        /\ Limit(Channel') = Channel' * Slot + LongestPulse
    <3>1. Channel' \in Nat /\ Channel' + 1 =< SERVOS_PER_TIMER
      BY <1>6
    <3>2. Channel' * Slot \in Nat
      BY <3>1, Slots
    <3>3. now =< Channel' * Slot
      <4>1. CASE Channel >= 0
        BY <1>4, <1>6, <4>1
      <4>2. CASE Channel < 0
        BY <1>4, <3>2, <4>2
      <4> QED
        BY <1>2, <4>1, <4>2
    <3>4. Channel' # -1
      BY <3>1
    <3> QED
      BY <3>1, <3>2, <3>3, <3>4 DEF Limit
  <2>3. now + w \in Nat /\ now + work < now + w /\ now + w =< Limit(Channel')
        /\ Channel' \in -1..ServoCount-1
    BY <1>2, <1>3, <1>6, <2>1, <2>2
  <2> QED
    BY <1>5, <2>1, <2>3
<1>7. CASE /\ Channel >= 0 /\ Channel + 1 >= ServoCount /\ Channel' = -1
           /\ ocr' = RefreshAt(now) % TcntMod
  <2>1. Channel \in Nat /\ Channel + 1 =< SERVOS_PER_TIMER
    BY <1>2, <1>7
  <2>2. now =< SERVOS_PER_TIMER * Slot
    BY <1>3, <1>4, <1>7, <2>1, Slots
  <2>3. now + Margin \in 0..TcntMod-1 /\ now + Margin =< LongestPass
    BY <1>3, <2>2
  <2>4. (now + Margin) % TcntMod = now + Margin
    BY <2>3, ModSmall
  <2>5. RefreshAt(now) = IF now + Margin < REFRESH THEN REFRESH ELSE now + Margin
    BY <2>4 DEF RefreshAt
  <2>6. Limit(Channel') = LongestFrame - MaxLag
    BY <1>7 DEF Limit
  <2>7. /\ RefreshAt(now) \in Nat /\ now + work < RefreshAt(now)
        /\ RefreshAt(now) =< Limit(Channel') /\ Channel' \in -1..ServoCount-1
    BY <1>2, <1>3, <1>7, <2>3, <2>5, <2>6
  <2> QED
    BY <1>5, <1>7, <2>7
<1> QED
  BY <1>6, <1>7, HandleCases DEF now

(* In time the compare value is met, never passed.                         *)
LEMMA FrameTicks == TypeOK /\ FrameInv /\ Tick => FrameInv'
<1> SUFFICES ASSUME TypeOK, FrameInv, Tick, steady PROVE FrameInv'
  BY DEF FrameInv, Tick
<1> USE Lengths, ChannelsAre
<1>1. /\ enabled /\ frame = tcnt
      /\ IF matched THEN tcnt = ocr + late ELSE tcnt < ocr
      /\ ocr =< Limit(Channel)
  BY DEF FrameInv
<1>2. /\ UNCHANGED <<Channel, ocr, enabled>> /\ tcnt' = (tcnt + 1) % TcntMod
      /\ frame' = Longer(frame, 1)
      /\ late' = IF matched THEN late + 1 ELSE 0
      /\ matched => late < MaxLag
  BY <1>1 DEF Tick
<1>3. matched' <=> matched \/ tcnt' = ocr
  BY Zenon DEF Tick
<1>4. /\ Channel \in -1..ServoCount-1 /\ late \in Nat /\ tcnt \in Nat
      /\ ocr \in Nat /\ ocr < TcntMod
  BY DEF TypeOK
<1>5. Limit(Channel) \in Int /\ Limit(Channel) + MaxLag =< LongestFrame
  BY <1>4, LimitFits
<1>6. tcnt + 1 \in 0..TcntMod-1 /\ tcnt =< LongestFrame
  BY <1>1, <1>2, <1>4, <1>5
<1>7. tcnt' = tcnt + 1 /\ frame' = tcnt + 1
  BY <1>1, <1>2, <1>4, <1>6, ModSmall, LongerIs
<1>8. IF matched' THEN tcnt' = ocr' + late' ELSE tcnt' < ocr'
  BY <1>1, <1>2, <1>3, <1>4, <1>7
<1>9. Limit(Channel)' = Limit(Channel)
  BY <1>2 DEF Limit
<1> QED
  BY <1>1, <1>2, <1>7, <1>8, <1>9 DEF FrameInv

LEMMA FrameStep == TypeOK /\ PinsInv /\ FrameInv /\ [Next]_vars => FrameInv'
<1>1. FrameInv /\ Sketch => FrameInv'
  <2> SUFFICES ASSUME FrameInv, Sketch PROVE FrameInv'
    OBVIOUS
  <2>1. UNCHANGED <<timer, frame, steady>> \/ ~steady'
    <3>1. CASE InitCount \/ InitEnable
      BY <3>1 DEF InitCount, InitEnable
    <3>2. CASE ~(InitCount \/ InitEnable)
      BY <3>2 DEF Sketch, Attach, CheckTimer, Activate, Detach, Write
    <3> QED
      BY <3>1, <3>2
  <2>2. CASE UNCHANGED <<timer, frame, steady>>
    BY <2>2 DEF FrameInv, Limit, timer
  <2>3. CASE ~steady'
    BY <2>3, Zenon DEF FrameInv
  <2> QED
    BY <2>1, <2>2, <2>3
<1>2. TypeOK /\ PinsInv /\ FrameInv /\ Interrupt => FrameInv'
  BY FrameInterrupt DEF Interrupt
<1>3. FrameInv /\ UNCHANGED vars => FrameInv'
  BY DEF FrameInv, Limit, vars, timer
<1> QED
  BY <1>1, <1>2, <1>3, FrameTicks DEF Next, Hardware

-----------------------------------------------------------------------------
(* The inductive invariant.                                                *)
LEMMA ServoInvInit == Init => ServoInv
<1> SUFFICES ASSUME Init PROVE ServoInv
  OBVIOUS
<1>1. PinsInv
  BY ServosAssumption DEF Init, PinsInv
<1>2. PulseInv /\ FrameInv
  BY DEF Init, PulseInv, FrameInv
<1>3. RefreshInv
  BY Lengths DEF Init, RefreshInv
<1> QED
  BY <1>1, <1>2, <1>3, TypeInit DEF ServoInv

LEMMA ServoInvStep == ServoInv /\ [Next]_vars => ServoInv'
<1>1. TypeOK /\ PinsInv /\ [Next]_vars => TypeOK'
  <2>1. TypeOK /\ UNCHANGED vars => TypeOK'
    <3> SUFFICES ASSUME TypeOK, UNCHANGED vars PROVE TypeOK'
      OBVIOUS
    <3>1. matched' \in BOOLEAN /\ enabled' \in BOOLEAN /\ steady' \in BOOLEAN
      BY Zenon DEF TypeOK, vars, timer
    <3> QED
      BY <3>1 DEF TypeOK, vars, program, servos, timer, pulsing
  <2> QED
    BY <2>1, TypeSketch, TypeHardware DEF Next
<1> QED
  BY <1>1, PinsStep, PulseStep, RefreshStep, FrameStep DEF ServoInv

LEMMA ServoInvHolds == Spec => []ServoInv
BY ServoInvInit, ServoInvStep, PTL DEF Spec

(* The variables hold values of their types in every reachable state: the  *)
(* interrupt never leaves the channels, nor a compare value the timer.     *)
THEOREM ServoTypeCorrect == Spec => []TypeOK
<1>1. ServoInv => TypeOK
  BY DEF ServoInv
<1> QED
  BY <1>1, ServoInvHolds, PTL

(* A pulse that attach() and detach() leave alone ends by the interrupt,   *)
(* and is as long as the value written when it began.                      *)
THEOREM PulseLength == Spec => PulseIsAsWritten
<1>1. ServoInv /\ [Next]_vars =>
          [pulse # NoPulse /\ Channel' # Channel =>
               /\ nbr[pulse] \in high \ high'
               /\ age \in width - MaxWork .. width + MaxLag]_vars
  <2> SUFFICES ASSUME ServoInv, [Next]_vars, pulse # NoPulse, Channel' # Channel
               PROVE  /\ nbr[pulse] \in high \ high'
                      /\ age \in width - MaxWork .. width + MaxLag
    OBVIOUS
  <2>1. TypeOK /\ PinsInv /\ PulseInv
    BY DEF ServoInv
  <2>2. PICK work \in 0..MaxWork : HandleInterrupts(work)
    BY DEF Next, Sketch, Attach, CheckTimer, InitCount, InitEnable, Activate, Detach,
       Write, Hardware, Interrupt, Tick, vars, timer
  <2>3. /\ pulse = Channel /\ pulse \in active /\ nbr[pulse] \in high
        /\ width \in Widths
    BY <2>1 DEF PulseInv
  <2>4. matched
    BY <2>2 DEF HandleInterrupts
  <2>5. PICK k \in 0..MaxWork : age = (width - k) + late
    BY <2>1, <2>4 DEF PulseInv
  <2>6. age \in width - MaxWork .. width + MaxLag
    <3>1. width \in Nat /\ late \in 0..MaxLag
      BY <2>1, <2>3, Lengths DEF TypeOK
    <3> QED
      BY <2>5, <3>1, Lengths
  <2>7. Lowered = {nbr[pulse]}
    BY <2>3 DEF Lowered
  <2>8. nbr[pulse] \notin Raised(Channel')
    <3>1. active \subseteq Channels /\ nbr[pulse] \in Pins /\ Channel' # pulse
      BY <2>1, <2>3 DEF TypeOK, PinsInv
    <3> QED
      BY <2>1, <2>3, <3>1 DEF Raised, PinsInv
  <2>9. high' \subseteq (high \ Lowered) \cup Raised(Channel')
    BY <2>2, Zenon DEF HandleInterrupts, NextPulse, WaitRefresh
  <2> QED
    BY <2>3, <2>6, <2>7, <2>8, <2>9
<1> QED
  BY <1>1, ServoInvHolds, PTL DEF Spec, PulseIsAsWritten

(* Two passes over the servos never begin closer together than the refresh *)
(* interval, also when the timer is set up again between them.             *)
THEOREM RefreshMinimum == Spec => RefreshNotTooSoon
<1>1. ServoInv /\ [Next]_vars =>
          [Channel = -1 /\ Channel' # -1 => frame >= REFRESH]_vars
  <2> SUFFICES ASSUME ServoInv, [Next]_vars, Channel = -1, Channel' # -1
               PROVE  frame >= REFRESH
    OBVIOUS
  <2>1. PICK work \in 0..MaxWork : HandleInterrupts(work)
    BY DEF Next, Sketch, Attach, CheckTimer, InitCount, InitEnable, Activate, Detach,
       Write, Hardware, Interrupt, Tick, vars, timer
  <2>2. matched
    BY <2>1 DEF HandleInterrupts
  <2> QED
    BY <2>2 DEF ServoInv, RefreshInv
<1> QED
  BY <1>1, ServoInvHolds, PTL DEF Spec, RefreshNotTooSoon

(* No compare value is ever missed: a pass follows the last one within     *)
(* LongestFrame, unless the timer is set up again in between.              *)
THEOREM FrameBound == Spec => []FrameInTime
<1>1. ServoInv => FrameInTime
  <2> SUFFICES ASSUME ServoInv, steady PROVE frame =< LongestFrame
    BY DEF FrameInTime
  <2>1. /\ frame = tcnt /\ IF matched THEN tcnt = ocr + late ELSE tcnt < ocr
        /\ ocr =< Limit(Channel)
    BY DEF ServoInv, FrameInv
  <2>2. /\ Channel \in -1..ServoCount-1 /\ late \in 0..MaxLag /\ tcnt \in Nat
        /\ ocr \in Nat /\ frame \in Nat
    BY DEF ServoInv, TypeOK
  <2>3. Limit(Channel) \in Int /\ Limit(Channel) + MaxLag =< LongestFrame
    BY <2>2, LimitFits
  <2> QED
    BY <2>1, <2>2, <2>3, Lengths
<1> QED
  BY <1>1, ServoInvHolds, PTL

=============================================================================
