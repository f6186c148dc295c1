------------------------ MODULE TwoWayRanging_proofs ------------------------
(***************************************************************************)
(* Proofs about TwoWayRanging, for clocks of any width and any start, any  *)
(* granule, any delays that fit together as TimingAssumption says, and any *)
(* number of resets: TwoWayRanging implements Ranging.                     *)
(***************************************************************************)
EXTENDS TwoWayRanging, Residues

(* The longest an answer can be on the way, from the poll's marker.        *)
Trip == 2 * TimeOfFlight + RespDelay + TxAntDelay

(* What an answer says of the time from poll to answer, and what it may    *)
(* say: the instant of the answer is rounded down to a granule.            *)
Turnaround(m) == RoundTrip(m.resp_tx_ts, m.poll_rx_ts)
Turnarounds == RespDelay-Granule+1+TxAntDelay .. RespDelay+TxAntDelay

-----------------------------------------------------------------------------
(* The states of the two transceivers.                                     *)
InitiatorRadio ==
    /\ iniPc # "wait" => iniRadio = "off" /\ iniStatus = {}
    /\ \/ iniRadio \in {"turn", "rx"} /\ iniStatus = {}
       \/ iniRadio = "off" /\ iniStatus \in {{}, {"good"}, {"error"}, {"timeout"}}
    /\ iniPc = "wait" /\ iniStatus = {} => iniRadio # "off"
    /\ iniRadio = "turn" => iniTimer =< RxDelay
    /\ iniRadio # "turn" /\ iniPc = "wait" => iniTimer =< RxTimeout
ResponderRadio ==
    /\ rspRadio = "rx" => rspPc = "wait" /\ rspStatus = {}
    /\ rspRadio = "tx" => rspPc = "sending" /\ rspStatus = {}
    /\ rspStatus \in {{}, {"good"}, {"error"}, {"sent"}}
    /\ rspStatus \in {{"good"}, {"error"}} => rspPc = "wait"
    /\ rspStatus = {"sent"} => rspPc = "sending"

(* The responder has a poll in its chip that its program has not seen.     *)
Pending == rspPc = "wait" /\ "good" \in rspStatus /\ rspBuf.kind = "poll"

(* Ticks until the answer leaves the antenna.                              *)
UntilDeparture == ((DxInstant + TxAntDelay) - rspClk) % TsMod

(* What the responder does is timed from the poll it answers, and what it  *)
(* writes into the answer is the time the answer will take.                *)
PollTimed == Pending => Cong(rspClk - rspRx, lag, TsMod)
AnswerTimed ==
    rspPc = "start" =>
        /\ Turnaround(respMsg) \in Turnarounds
        /\ Cong((DxInstant + TxAntDelay) - rspClk,
                Turnaround(respMsg) - lag, TsMod)
AnswerLeaves ==
    rspRadio = "tx" =>
        /\ Turnaround(respMsg) \in Turnarounds
        /\ UntilDeparture =< Turnaround(respMsg)
AnswersTell ==
    \A f \in air : f.data.kind = "resp" => Turnaround(f.data) \in Turnarounds
ResponderInv == PollTimed /\ AnswerTimed /\ AnswerLeaves /\ AnswersTell

(* What has come of a poll sent e ticks ago and may still become an answer *)
(* to it: the poll on the air, the poll being answered, the answer being   *)
(* sent, the answer on the air.                                            *)
PollFlies(e) ==
    \E f \in air : f.data.kind = "poll" /\ e = TimeOfFlight - f.left
PollHeld(e) == (Pending \/ rspPc = "start") /\ e = TimeOfFlight + lag
AnswerDue(e) ==
    rspRadio = "tx" /\ e = TimeOfFlight + (Turnaround(respMsg) - UntilDeparture)
AnswerFlies(e) ==
    \E f \in air : /\ f.data.kind = "resp"
                   /\ e = 2 * TimeOfFlight + (Turnaround(f.data) - f.left)
UnderWay(e) == PollFlies(e) \/ PollHeld(e) \/ AnswerDue(e) \/ AnswerFlies(e)

(* The time since the initiator's poll, told from its receiver's timer.    *)
Age == (IF iniRadio = "turn" THEN RxDelay ELSE RxDelay + RxTimeout) - iniTimer

(* While the initiator waits, all that is under way comes of its poll; and *)
(* it never polls while something is still under way.                      *)
FreshInv ==
    \A e \in Int : UnderWay(e) =>
        /\ iniPc # "loop"
        /\ iniPc = "wait" => e = Age
        /\ iniPc = "sleep" => e + iniDelay >= SleepTime
        /\ iniPc = "setup" => e + iniDelay >= SetupTime

(* The initiator's clock follows the age of the poll, and an answer it has *)
(* received took the time it says.                                         *)
InitiatorInv ==
    iniPc = "wait" =>
        /\ Cong(iniClk - iniTx, Age, TsMod)
        /\ "good" \in iniStatus /\ iniBuf.kind = "resp" =>
              /\ iniRx = iniClk
              /\ Turnaround(iniBuf) \in Turnarounds
              /\ Age = 2 * TimeOfFlight + Turnaround(iniBuf)

RangingInv ==
    /\ TypeOK /\ InitiatorRadio /\ ResponderRadio
    /\ ResponderInv /\ FreshInv /\ InitiatorInv

-----------------------------------------------------------------------------
(* The widths of a granule, of the low word and of a time stamp.           *)
LEMMA Widths ==
    /\ Granule \div 2 \in Nat \ {0} /\ Granule = 2 * (Granule \div 2)
    /\ \E n \in Nat \ {0} : /\ TsMod = Granule * n
                            /\ (2 * TsMod) \div Granule = 2 * n
    /\ LoMod =< TsMod
<1> USE ClockAssumption
<1>1. Granule \div 2 \in Nat \ {0} /\ Granule = 2 * (Granule \div 2)
  OBVIOUS
<1>2. ASSUME NEW m \in Nat \ {0}, TsMod % m = 0
      PROVE  \E n \in Nat \ {0} : TsMod = m * n
  <2>1. PICK n \in Int : TsMod = m * n
    <3>1. TsMod \in Int
      OBVIOUS
    <3>2. \E n \in Int : TsMod = m * n + (TsMod % m)
      BY <3>1, ModTurns, Zenon
    <3> QED
      BY <1>2, <3>2
  <2>2. n > 0
    <3> SUFFICES ASSUME n =< 0 PROVE FALSE
      OBVIOUS
    <3>1. m * n =< 0
      OBVIOUS
    <3> QED
      BY <2>1, <3>1
  <2> QED
    BY <2>1, <2>2
<1>3. PICK n \in Nat \ {0} : TsMod = Granule * n
  BY <1>2
<1>4. (2 * TsMod) \div Granule = 2 * n
  <2>1. 2 * TsMod = Granule * (2 * n) + 0
    BY <1>3
  <2>2. 2 * TsMod \in Int /\ 2 * n \in Int /\ 0 \in 0..Granule-1
    OBVIOUS
  <2> QED
    BY <2>1, <2>2, DivUnique
<1>5. PICK k \in Nat \ {0} : TsMod = LoMod * k
  BY <1>2
<1>6. LoMod =< TsMod
  BY <1>5
<1> QED
  BY <1>1, <1>3, <1>4, <1>6

(* What is read from the wire, of a difference below half a turn.          *)
LEMMA RoundTripIs ==
    ASSUME NEW t \in Int, NEW t0 \in Int, NEW d \in Nat, 2 * d < LoMod,
           Cong(t - t0, d, LoMod)
    PROVE  RoundTrip(t, t0) = d
<1>1. LoMod \in Nat \ {0} /\ d \in 0..LoMod-1 /\ t - t0 \in Int
  BY ClockAssumption
<1>2. (t - t0) % LoMod = d
  BY <1>1, CongResidue
<1> QED
  BY <1>2 DEF RoundTrip

(* A difference of two time stamps is an integer.                          *)
LEMMA RoundTripInt ==
    ASSUME NEW t \in Int, NEW t0 \in Int
    PROVE  RoundTrip(t, t0) \in Int
<1>1. (t - t0) % LoMod \in Int
  BY ClockAssumption
<1> QED
  BY <1>1, ClockAssumption DEF RoundTrip

(* A low word fits the message.                                            *)
LEMMA LoRange == ASSUME NEW t \in Int PROVE Lo(t) \in 0..LoMod-1
BY ClockAssumption DEF Lo

(* DX_TIME fits its register.                                              *)
LEMMA DxRange ==
    ASSUME NEW t \in 0..TsMod-1
    PROVE  /\ RespTxTime(t) \in 0..((2 * TsMod) \div Granule)-1
           /\ RespTxTime(t) \in Nat /\ RespTxTs(RespTxTime(t)) \in Int
<1>1. PICK n \in Nat \ {0} : (2 * TsMod) \div Granule = 2 * n
  BY Widths
<1>2. Granule \div 2 \in Nat \ {0} /\ t + RespDelay \in Nat
  BY Widths, DelayAssumption, ClockAssumption
<1>3. (t + RespDelay) \div (Granule \div 2) \in Int
  BY <1>2
<1>4. RespTxTime(t) \in 0..2*n-1
  BY <1>1, <1>3 DEF RespTxTime
<1>5. RespTxTs(RespTxTime(t)) \in Int
  BY <1>2, <1>4, DelayAssumption DEF RespTxTs
<1> QED
  BY <1>1, <1>4, <1>5

(* The instant the responder programs is the time its poll came in plus    *)
(* the delay, rounded down to a granule, across the wrap of the clock; and *)
(* the two time stamps of the answer are as far apart as the poll and it.  *)
LEMMA AnswerTiming ==
    ASSUME NEW p \in 0..TsMod-1, NEW dx, dx = RespTxTime(p)
    PROVE  \E a \in Turnarounds :
              /\ Turnaround(Resp(Lo(p), Lo(RespTxTs(dx)))) = a
              /\ Cong((dx - (dx % 2)) * (Granule \div 2) + TxAntDelay, p + a, TsMod)
<1> DEFINE x == p + RespDelay  h == Granule \div 2
<1>1. x \in Nat /\ p \in Int /\ RespDelay \in Nat /\ TxAntDelay \in Nat
      /\ Granule \in Nat \ {0} /\ TsMod \in Nat \ {0} /\ LoMod \in Nat \ {0}
  BY ClockAssumption, DelayAssumption
<1>2. h \in Nat \ {0} /\ Granule = 2 * h
  BY Widths
<1>3. PICK n \in Nat \ {0} : /\ TsMod = Granule * n
                             /\ (2 * TsMod) \div Granule = 2 * n
  BY Widths
<1> HIDE DEF x, h
<1>4. PICK q \in Int, d \in 0..Granule-1 : x = Granule * q + d
  <2>1. x \in Int
    BY <1>1
  <2>2. /\ x % Granule \in 0..Granule-1
        /\ \E k \in Int : x = Granule * k + (x % Granule)
    BY <1>1, <2>1, ModTurns, Zenon
  <2> QED
    BY <2>2, Zenon
<1>5. PICK b \in {0, 1}, e \in 0..h-1 : x = h * (2 * q + b) + e
  <2>1. CASE d < h
    <3>1. x = h * (2 * q + 0) + d /\ d \in 0..h-1
      BY <1>2, <1>4, <2>1
    <3> QED
      BY <3>1
  <2>2. CASE d >= h
    <3>1. x = h * (2 * q + 1) + (d - h) /\ d - h \in 0..h-1
      BY <1>2, <1>4, <2>2
    <3> QED
      BY <3>1
  <2> QED
    BY <1>2, <2>1, <2>2
<1>6. x \div h = 2 * q + b
  BY <1>1, <1>2, <1>5, DivUnique
<1>7. PICK k \in Int, r \in 0..n-1 : q = n * k + r
  BY ModTurns
<1>8. dx = 2 * r + b
  <2>1. 2 * q + b = (2 * n) * k + (2 * r + b) /\ 2 * r + b \in 0..2*n-1
    BY <1>7
  <2>2. (2 * q + b) % (2 * n) = 2 * r + b
    <3>1. 2 * q + b \in Int /\ 2 * n \in Nat \ {0}
      OBVIOUS
    <3> QED
      BY <2>1, <3>1, ModUnique
  <2>3. dx = (2 * q + b) % (2 * n)
    BY <1>3, <1>6 DEF RespTxTime, x, h
  <2> QED
    BY <2>2, <2>3
<1>9. dx % 2 = b
  <2>1. dx \in Int /\ r \in Int /\ b \in 0..2-1 /\ 2 \in Nat \ {0}
    BY <1>8
  <2> QED
    BY <1>8, <2>1, ModUnique
<1>10. (dx - (dx % 2)) * h = Granule * r
  BY <1>2, <1>8, <1>9
<1> DEFINE a == RespDelay - d + TxAntDelay  s == Granule * r + TxAntDelay
<1>11. a \in Turnarounds /\ a \in Nat /\ 2 * a < LoMod /\ s \in Int
  BY <1>1, <1>4, TimingAssumption, DelayAssumption DEF Turnarounds
<1>12. Cong(s, p + a, TsMod)
  <2>1. s - (p + a) = TsMod * (-k) /\ -k \in Int
    <3>1. Granule * r = Granule * q - (Granule * n) * k
      BY <1>1, <1>7
    <3>2. s - (p + a) = Granule * r - (x - d)
      BY <1>1, <1>4 DEF x
    <3>3. s - (p + a) = -(TsMod * k)
      BY <1>1, <1>3, <1>4, <3>1, <3>2
    <3> QED
      BY <1>1, <3>3
  <2>2. s \in Int /\ p + a \in Int
    BY <1>1, <1>11
  <2> QED
    BY <1>1, <2>1, <2>2, CongTurns
<1>13. RespTxTs(dx) = s
  BY <1>10 DEF RespTxTs, h
<1>14. RoundTrip(Lo(s), Lo(p)) = a
  <2> HIDE DEF a, s
  <2>1. Cong(s, p + a, LoMod)
    BY <1>1, <1>11, <1>12, CongDivisor, ClockAssumption
  <2>2. /\ Cong(Lo(s), s, LoMod) /\ Cong(p, Lo(p), LoMod)
        /\ Lo(s) \in Int /\ Lo(p) \in Int
    BY <1>1, <1>11, CongMod DEF Lo
  <2>3. Cong(Lo(s), p + a, LoMod) /\ p + a \in Int
    BY <1>1, <1>11, <2>1, <2>2, CongEquiv
  <2>4. Cong(Lo(p), p, LoMod)
    BY <1>1, <2>2, CongEquiv
  <2>5. Cong(Lo(s) - Lo(p), (p + a) - p, LoMod)
    BY <1>1, <2>2, <2>3, <2>4, CongAdd
  <2>6. (p + a) - p = a
    BY <1>1, <1>11
  <2> QED
    BY <1>11, <2>2, <2>5, <2>6, RoundTripIs
<1>15. Turnaround(Resp(Lo(p), Lo(RespTxTs(dx)))) = a
  BY <1>13, <1>14 DEF Turnaround, Resp
<1> QED
  BY <1>10, <1>11, <1>12, <1>15 DEF h

-----------------------------------------------------------------------------
(* Messages and frames: a poll, or an answer with two time stamps.         *)
LEMMA Messages ==
    /\ Resp(0, 0) \in Resps /\ Other.kind = "other" /\ Poll.kind = "poll"
    /\ \A m \in Resps : /\ m.kind = "resp" /\ m.poll_rx_ts \in 0..LoMod-1
                        /\ m.resp_tx_ts \in 0..LoMod-1
    /\ \A d \in Resps \cup {Poll} : d.kind = "resp" => d \in Resps
    /\ \A d \in Resps \cup {Poll} : d.kind = "poll" => d = Poll
    /\ \A d \in Resps \cup {Poll, Other} : d.kind = "resp" => d \in Resps
    /\ \A d \in Resps \cup {Poll} : Frame(d) \in Frames
    /\ \A f \in Frames : f.data \in Resps \cup {Poll} /\ f.left \in 0..TimeOfFlight
BY ClockAssumption, DelayAssumption
DEF Resps, Resp, Other, Poll, Frame, Frames

(* A frame that has come one tick nearer.                                  *)
LEMMA FrameTicks ==
    ASSUME NEW f \in Frames, f.left > 0
    PROVE  /\ [f EXCEPT !.left = @ - 1] \in Frames
           /\ [f EXCEPT !.left = @ - 1].data = f.data
           /\ [f EXCEPT !.left = @ - 1].left = f.left - 1
BY DelayAssumption DEF Frames

(* The delays and the bounds are natural numbers.                          *)
LEMMA Naturals ==
    /\ TsMod \in Nat \ {0} /\ LoMod \in Nat \ {0} /\ Granule \in Nat \ {0}
    /\ TxAntDelay \in Nat /\ RespDelay \in Nat /\ RxDelay \in Nat
    /\ RxTimeout \in Nat /\ SleepTime \in Nat /\ SetupTime \in Nat
    /\ Preamble \in Nat /\ TimeOfFlight \in Nat /\ MaxLag \in Nat
    /\ MaxResets \in Nat
BY ClockAssumption, DelayAssumption

(* The types hold when both boards are switched on.                        *)
LEMMA TypeInit == Init => TypeOK
<1> SUFFICES ASSUME Init PROVE TypeOK
  OBVIOUS
<1>1. ranged \in BOOLEAN
  BY Zenon DEF Init
<1>2. 0 \in 0..((2 * TsMod) \div Granule)-1
  BY Widths
<1> QED
  BY <1>1, <1>2, Naturals, Messages, ClockAssumption DEF Init, TypeOK

(* Every step of the initiator keeps the types.                            *)
LEMMA TypeInitiator == TypeOK /\ (Initiator \/ ResetInitiator) => TypeOK'
<1> SUFFICES ASSUME TypeOK, Initiator \/ ResetInitiator PROVE TypeOK'
  OBVIOUS
<1> USE Naturals DEF TypeOK, iniProgram, iniChip, rspProgram, rspChip
<1>0. ranged' \in BOOLEAN
  BY Zenon DEF Initiator, IniSetup, SendPoll, GotFrame, GiveUp, Wake,
               ResetInitiator, Sleep
<1>1. CASE IniSetup
  BY <1>0, <1>1 DEF IniSetup
<1>2. CASE SendPoll
  BY <1>0, <1>2, Messages DEF SendPoll
<1>3. CASE GotFrame
  <2>1. tof' \in Int
    <3>1. CASE iniBuf.kind = "resp"
      <4>1. /\ RoundTrip(Lo(iniRx), Lo(iniTx)) \in Int
            /\ RoundTrip(iniBuf.resp_tx_ts, iniBuf.poll_rx_ts) \in Int
        <5>1. iniBuf.resp_tx_ts \in Int /\ iniBuf.poll_rx_ts \in Int
          BY <3>1, Messages
        <5>2. Lo(iniRx) \in Int /\ Lo(iniTx) \in Int
          BY LoRange
        <5> QED
          BY <5>1, <5>2, RoundTripInt, Zenon
      <4>2. tof' = RoundTrip(Lo(iniRx), Lo(iniTx))
                     - RoundTrip(iniBuf.resp_tx_ts, iniBuf.poll_rx_ts)
        BY <1>3, <3>1, Zenon DEF GotFrame
      <4> QED
        BY <4>1, <4>2
    <3>2. CASE iniBuf.kind # "resp"
      BY <1>3, <3>2 DEF GotFrame
    <3> QED
      BY <3>1, <3>2
  <2> QED
    BY <1>0, <1>3, <2>1, Messages DEF GotFrame, Sleep
<1>4. CASE GiveUp
  BY <1>0, <1>4 DEF GiveUp, Sleep
<1>5. CASE Wake
  BY <1>0, <1>5 DEF Wake
<1>6. CASE ResetInitiator
  BY <1>0, <1>6 DEF ResetInitiator
<1> QED
  BY <1>1, <1>2, <1>3, <1>4, <1>5, <1>6 DEF Initiator

(* Every step of the responder keeps the types.                            *)
LEMMA TypeResponder == TypeOK /\ (Responder \/ ResetResponder) => TypeOK'
<1> SUFFICES ASSUME TypeOK, Responder \/ ResetResponder PROVE TypeOK'
  OBVIOUS
<1> USE Naturals DEF TypeOK, iniProgram, iniChip, rspProgram, rspChip
<1>0. ranged' \in BOOLEAN
  BY Zenon DEF Responder, RspSetup, Listen, Answer, Ignore, Recover, StartTx,
               Sent, ResetResponder
<1>1. CASE RspSetup
  BY <1>0, <1>1 DEF RspSetup
<1>2. CASE Listen
  BY <1>0, <1>2 DEF Listen
<1>3. CASE Answer
  <2>1. rspDx' \in 0..((2 * TsMod) \div Granule)-1
    BY <1>3, DxRange DEF Answer
  <2>2. respMsg' \in Resps
    BY <1>3, DxRange, LoRange DEF Answer, Resp, Resps
  <2> QED
    BY <1>0, <1>3, <2>1, <2>2 DEF Answer
<1>4. CASE Ignore
  BY <1>0, <1>4 DEF Ignore
<1>5. CASE Recover
  BY <1>0, <1>5 DEF Recover
<1>6. 0 \in 0..((2 * TsMod) \div Granule)-1
  BY Widths
<1>7. CASE StartTx
  BY <1>0, <1>6, <1>7, Messages DEF StartTx, AnswerDone
<1>8. CASE Sent
  BY <1>0, <1>6, <1>8, Messages DEF Sent, AnswerDone
<1>9. CASE ResetResponder
  BY <1>0, <1>6, <1>9, Messages DEF ResetResponder
<1> QED
  BY <1>1, <1>2, <1>3, <1>4, <1>5, <1>7, <1>8, <1>9 DEF Responder

(* The chips, the air and time keep the types.                             *)
LEMMA TypePhysics ==
    TypeOK /\ (Physics \/ InitiatorHearsOther \/ ResponderHearsOther) => TypeOK'
<1> SUFFICES ASSUME TypeOK, Physics \/ InitiatorHearsOther \/ ResponderHearsOther
             PROVE  TypeOK'
  OBVIOUS
<1> USE Naturals
<1>0. ranged' \in BOOLEAN
  <2>1. ranged' = ranged
    BY DEF Physics, PollArrives, RespArrives, ReceiverOn, ReceiverTimesOut,
           RespDeparts, Tick, InitiatorHearsOther, ResponderHearsOther, iniProgram
  <2> QED
    BY <2>1, Zenon DEF TypeOK
<1> USE DEF TypeOK, iniProgram, iniChip, rspProgram, rspChip
<1>1. CASE PollArrives
  <2>1. PICK f \in air :
          /\ air' = air \ {f}
          /\ \/ rspRadio = "rx" /\ (RspReceives(f.data) \/ RspGarbled)
             \/ UNCHANGED <<rspStatus, rspBuf, rspRx, rspRadio, lag>>
          /\ UNCHANGED <<rspClk, rspDx, rspPc, respMsg, iniProgram, iniChip, resets>>
    BY <1>1 DEF PollArrives
  <2>2. f.data \in Resps \cup {Poll, Other} /\ air' \subseteq Frames
    BY <2>1, Messages
  <2>3. /\ rspStatus' \subseteq {"good", "error", "sent"}
        /\ rspBuf' \in Resps \cup {Poll, Other} /\ rspRx' \in 0..TsMod-1
        /\ rspRadio' \in {"off", "rx", "tx"} /\ lag' \in 0..MaxLag
    <3>1. CASE RspReceives(f.data)
      BY <2>2, <3>1 DEF RspReceives
    <3>2. CASE RspGarbled
      BY <3>2 DEF RspGarbled
    <3>3. CASE UNCHANGED <<rspStatus, rspBuf, rspRx, rspRadio, lag>>
      BY <3>3
    <3> QED
      BY <2>1, <3>1, <3>2, <3>3
  <2>4. UNCHANGED <<rspClk, rspDx, rspPc, respMsg, iniProgram, iniChip, resets>>
    BY <2>1
  <2> QED
    BY <1>0, <2>2, <2>3, <2>4
<1>2. CASE RespArrives
  <2>1. PICK f \in air :
          /\ air' = air \ {f}
          /\ \/ iniRadio = "rx" /\ (IniReceives(f.data) \/ IniGarbled)
             \/ UNCHANGED <<iniStatus, iniBuf, iniRx, iniRadio>>
          /\ UNCHANGED <<iniClk, iniTimer, iniTx, iniProgram,
                         rspProgram, rspChip, resets>>
    BY <1>2 DEF RespArrives
  <2>2. f.data \in Resps \cup {Poll, Other} /\ air' \subseteq Frames
    BY <2>1, Messages
  <2>3. /\ iniStatus' \subseteq {"good", "error", "timeout"}
        /\ iniBuf' \in Resps \cup {Poll, Other} /\ iniRx' \in 0..TsMod-1
        /\ iniRadio' \in {"off", "turn", "rx"}
    <3>1. CASE IniReceives(f.data)
      BY <2>2, <3>1 DEF IniReceives
    <3>2. CASE IniGarbled
      BY <3>2 DEF IniGarbled
    <3>3. CASE UNCHANGED <<iniStatus, iniBuf, iniRx, iniRadio>>
      BY <3>3
    <3> QED
      BY <2>1, <3>1, <3>2, <3>3
  <2>4. UNCHANGED <<iniClk, iniTimer, iniTx, iniProgram, rspProgram, rspChip, resets>>
    BY <2>1
  <2> QED
    BY <1>0, <2>2, <2>3, <2>4
<1>3. CASE ReceiverOn
  BY <1>0, <1>3 DEF ReceiverOn
<1>4. CASE ReceiverTimesOut
  BY <1>0, <1>4 DEF ReceiverTimesOut
<1>5. CASE RespDeparts
  BY <1>0, <1>5, Messages DEF RespDeparts
<1>6. CASE Tick
  <2>1. iniClk' \in 0..TsMod-1 /\ rspClk' \in 0..TsMod-1
    BY <1>6 DEF Tick
  <2>2. air' \subseteq Frames
    BY <1>6, FrameTicks DEF Tick
  <2>3. /\ iniTimer' \in 0..RxDelay \cup 0..RxTimeout
        /\ iniDelay' \in 0..SleepTime \cup 0..SetupTime
        /\ lag' \in 0..MaxLag
    BY <1>6 DEF Tick, Less
  <2> QED
    BY <1>0, <1>6, <2>1, <2>2, <2>3 DEF Tick
<1>7. CASE InitiatorHearsOther
  <2>1. /\ iniStatus' \subseteq {"good", "error", "timeout"}
        /\ iniBuf' \in Resps \cup {Poll, Other} /\ iniRx' \in 0..TsMod-1
        /\ iniRadio' = "off"
    <3>1. CASE IniReceives(Other)
      BY <3>1 DEF IniReceives
    <3>2. CASE IniGarbled
      BY <3>2 DEF IniGarbled
    <3> QED
      BY <1>7, <3>1, <3>2 DEF InitiatorHearsOther
  <2>2. UNCHANGED <<iniClk, iniTimer, iniTx, iniProgram, rspProgram, rspChip, air, resets>>
    BY <1>7 DEF InitiatorHearsOther
  <2> QED
    BY <1>0, <2>1, <2>2
<1>8. CASE ResponderHearsOther
  <2>1. /\ rspStatus' \subseteq {"good", "error", "sent"}
        /\ rspBuf' \in Resps \cup {Poll, Other} /\ rspRx' \in 0..TsMod-1
        /\ rspRadio' = "off" /\ lag' \in 0..MaxLag
    <3>1. CASE RspReceives(Other)
      BY <3>1 DEF RspReceives
    <3>2. CASE RspGarbled
      BY <3>2 DEF RspGarbled
    <3> QED
      BY <1>8, <3>1, <3>2 DEF ResponderHearsOther
  <2>2. UNCHANGED <<rspClk, rspDx, rspPc, respMsg, iniProgram, iniChip, air, resets>>
    BY <1>8 DEF ResponderHearsOther
  <2> QED
    BY <1>0, <2>1, <2>2
<1> QED
  BY <1>1, <1>2, <1>3, <1>4, <1>5, <1>6, <1>7, <1>8 DEF Physics

(* Every step keeps the types.                                             *)
LEMMA TypeStep == TypeOK /\ [Next]_vars => TypeOK'
<1>1. TypeOK /\ UNCHANGED vars => TypeOK'
  <2> SUFFICES ASSUME TypeOK, UNCHANGED vars PROVE TypeOK'
    OBVIOUS
  <2>1. ranged' \in BOOLEAN
    <3>1. ranged' = ranged
      BY DEF vars, iniProgram
    <3> QED
      BY <3>1, Zenon DEF TypeOK
  <2> QED
    BY <2>1 DEF TypeOK, vars, iniProgram, iniChip, rspProgram, rspChip
<1> QED
  BY <1>1, TypeInitiator, TypeResponder, TypePhysics DEF Next

(* The variables hold values of their types in every reachable state: no   *)
(* time stamp, delay or register outgrows its width.                       *)
THEOREM RangingTypeCorrect == Spec => []TypeOK
BY TypeInit, TypeStep, PTL DEF Spec

-----------------------------------------------------------------------------
(* Steps of the initiator and its chip, and of the responder and its chip. *)
InitiatorSide ==
    \/ Initiator \/ ResetInitiator \/ RespArrives
    \/ InitiatorHearsOther \/ ReceiverOn \/ ReceiverTimesOut
ResponderSide ==
    \/ Responder \/ ResetResponder \/ PollArrives
    \/ ResponderHearsOther \/ RespDeparts

(* Each side leaves the other one alone; only time moves both.             *)
LEMMA Sides ==
    /\ [Next]_vars => InitiatorSide \/ ResponderSide \/ Tick \/ UNCHANGED vars
    /\ InitiatorSide => UNCHANGED <<rspProgram, rspChip>>
    /\ ResponderSide \/ UNCHANGED vars => UNCHANGED <<iniProgram, iniChip>>
<1>1. [Next]_vars => InitiatorSide \/ ResponderSide \/ Tick \/ UNCHANGED vars
  BY DEF Next, Physics, InitiatorSide, ResponderSide
<1>2. InitiatorSide => UNCHANGED <<rspProgram, rspChip>>
  BY DEF InitiatorSide, Initiator, IniSetup, SendPoll, GotFrame, GiveUp, Wake,
         ResetInitiator, RespArrives, InitiatorHearsOther, ReceiverOn,
         ReceiverTimesOut
<1>3. ResponderSide => UNCHANGED <<iniProgram, iniChip>>
  BY DEF ResponderSide, Responder, RspSetup, Listen, Answer, Ignore, Recover,
         StartTx, Sent, ResetResponder, PollArrives, ResponderHearsOther,
         RespDeparts
<1>4. UNCHANGED vars => UNCHANGED <<iniProgram, iniChip>>
  BY DEF vars
<1> QED
  BY <1>1, <1>2, <1>3, <1>4

(* The initiator's receiver goes on after a poll and off at one event.     *)
LEMMA InitiatorRadioStep ==
    TypeOK /\ InitiatorRadio /\ [Next]_vars => InitiatorRadio'
<1> SUFFICES ASSUME TypeOK, InitiatorRadio, [Next]_vars PROVE InitiatorRadio'
  OBVIOUS
<1>1. iniTimer \in Nat /\ RxDelay \in Nat /\ RxTimeout \in Nat
      /\ iniRadio \in {"off", "turn", "rx"}
  BY Naturals DEF TypeOK
<1> USE DEF InitiatorRadio, iniProgram, iniChip
<1>2. CASE InitiatorSide
  <2>1. CASE IniSetup
    BY <2>1 DEF IniSetup
  <2>2. CASE SendPoll
    BY <1>1, <2>2 DEF SendPoll
  <2>3. CASE GotFrame
    BY <1>1, <2>3 DEF GotFrame, Sleep
  <2>4. CASE GiveUp
    BY <1>1, <2>4 DEF GiveUp, Sleep
  <2>5. CASE Wake
    BY <2>5 DEF Wake
  <2>6. CASE ResetInitiator
    BY <2>6 DEF ResetInitiator
  <2>7. CASE RespArrives
    <3>1. /\ \/ iniRadio = "rx" /\ iniRadio' = "off"
                /\ iniStatus' \in {iniStatus \cup {"good"}, iniStatus \cup {"error"}}
             \/ UNCHANGED <<iniRadio, iniStatus>>
          /\ UNCHANGED <<iniTimer, iniPc>>
      BY <2>7 DEF RespArrives, IniReceives, IniGarbled
    <3> QED
      BY <1>1, <3>1
  <2>8. CASE InitiatorHearsOther
    <3>1. /\ iniRadio = "rx" /\ iniRadio' = "off"
          /\ iniStatus' \in {iniStatus \cup {"good"}, iniStatus \cup {"error"}}
          /\ UNCHANGED <<iniTimer, iniPc>>
      BY <2>8 DEF InitiatorHearsOther, IniReceives, IniGarbled
    <3> QED
      BY <1>1, <3>1
  <2>9. CASE ReceiverOn
    BY <1>1, <2>9 DEF ReceiverOn
  <2>10. CASE ReceiverTimesOut
    BY <1>1, <2>10 DEF ReceiverTimesOut
  <2> QED
    BY <1>2, <2>1, <2>2, <2>3, <2>4, <2>5, <2>6, <2>7, <2>8, <2>9, <2>10
    DEF InitiatorSide, Initiator
<1>3. CASE Tick
  BY <1>1, <1>3 DEF Tick, Less
<1>4. CASE ResponderSide \/ UNCHANGED vars
  BY <1>4, Sides
<1> QED
  BY <1>2, <1>3, <1>4, Sides

(* The responder's receiver goes on when it listens and off at one event.  *)
LEMMA ResponderRadioStep == ResponderRadio /\ [Next]_vars => ResponderRadio'
<1> SUFFICES ASSUME ResponderRadio, [Next]_vars PROVE ResponderRadio'
  OBVIOUS
<1> USE DEF ResponderRadio, rspProgram, rspChip
<1>1. CASE ResponderSide
  <2>1. CASE RspSetup
    BY <2>1 DEF RspSetup
  <2>2. CASE Listen
    BY <2>2 DEF Listen
  <2>3. CASE Answer
    BY <2>3 DEF Answer
  <2>4. CASE Ignore
    BY <2>4 DEF Ignore
  <2>5. CASE Recover
    BY <2>5 DEF Recover
  <2>6. CASE StartTx
    BY <2>6 DEF StartTx, AnswerDone
  <2>7. CASE Sent
    BY <2>7 DEF Sent, AnswerDone
  <2>8. CASE ResetResponder
    BY <2>8 DEF ResetResponder
  <2>9. CASE PollArrives
    <3>1. /\ \/ rspRadio = "rx" /\ rspRadio' = "off"
                /\ rspStatus' \in {rspStatus \cup {"good"}, rspStatus \cup {"error"}}
             \/ UNCHANGED <<rspRadio, rspStatus>>
          /\ UNCHANGED rspPc
      BY <2>9 DEF PollArrives, RspReceives, RspGarbled
    <3> QED
      BY <3>1
  <2>10. CASE ResponderHearsOther
    <3>1. /\ rspRadio = "rx" /\ rspRadio' = "off"
          /\ rspStatus' \in {rspStatus \cup {"good"}, rspStatus \cup {"error"}}
          /\ UNCHANGED rspPc
      BY <2>10 DEF ResponderHearsOther, RspReceives, RspGarbled
    <3> QED
      BY <3>1
  <2>11. CASE RespDeparts
    BY <2>11 DEF RespDeparts, DepartNow
  <2> QED
    BY <1>1, <2>1, <2>2, <2>3, <2>4, <2>5, <2>6, <2>7, <2>8, <2>9, <2>10, <2>11
    DEF ResponderSide, Responder
<1>2. CASE Tick
  BY <1>2 DEF Tick
<1>3. CASE InitiatorSide \/ UNCHANGED vars
  BY <1>3, Sides DEF vars
<1> QED
  BY <1>1, <1>2, <1>3, Sides

-----------------------------------------------------------------------------
(* What an answer may say is a short time, at least the delay asked for    *)
(* less one granule.                                                       *)
LEMMA TurnaroundsAre ==
    \A a \in Turnarounds :
        /\ a \in Nat /\ a < TsMod /\ 2 * (2 * TimeOfFlight + a) < LoMod
        /\ RespDelay - Granule + TxAntDelay < a /\ a =< RespDelay + TxAntDelay
BY Naturals, Widths, TimingAssumption DEF Turnarounds

(* The responder's time stamps are integers.                               *)
LEMMA ResponderTypes ==
    ASSUME TypeOK
    PROVE  /\ rspClk \in 0..TsMod-1 /\ rspRx \in 0..TsMod-1 /\ lag \in 0..MaxLag
           /\ DxInstant \in Int /\ DxInstant + TxAntDelay \in Int
           /\ air \subseteq Frames
<1>1. /\ rspClk \in 0..TsMod-1 /\ rspRx \in 0..TsMod-1 /\ lag \in 0..MaxLag
      /\ rspDx \in 0..((2 * TsMod) \div Granule)-1 /\ air \subseteq Frames
  BY DEF TypeOK
<1>2. rspDx \in Int /\ Granule \div 2 \in Int
  BY <1>1, Widths
<1>3. DxInstant \in Int
  BY <1>2 DEF DxInstant
<1> QED
  BY <1>1, <1>3, Naturals

(* The answer is sent only if the chip finds it in time; it then leaves    *)
(* as long after the poll as it says.                                      *)
LEMMA StartTxTiming ==
    ASSUME TypeOK, ResponderInv, rspPc = "start", ~TooLate
    PROVE  UntilDeparture = Turnaround(respMsg) - lag
<1> DEFINE a == Turnaround(respMsg)  z == a - TxAntDelay - lag
           x == (DxInstant + TxAntDelay) - rspClk
<1>1. a \in Turnarounds /\ Cong(x, a - lag, TsMod)
  BY DEF ResponderInv, AnswerTimed
<1>2. /\ rspClk \in Int /\ lag \in Nat /\ lag =< MaxLag /\ DxInstant \in Int
      /\ TsMod \in Nat \ {0} /\ TxAntDelay \in Nat /\ RespDelay \in Nat
      /\ Granule \in Nat /\ MaxLag \in Nat
  BY ResponderTypes, Naturals
<1>3. /\ a \in Nat /\ a < TsMod /\ RespDelay - Granule + TxAntDelay < a
      /\ a =< RespDelay + TxAntDelay /\ 2 * a < TsMod
  BY <1>1, TurnaroundsAre, Widths, Naturals
<1>4. Granule =< RespDelay /\ 2 * MaxLag < TsMod
  BY TimingAssumption, DelayAssumption
<1> HIDE DEF a
<1>5. x \in Int /\ DxInstant - rspClk \in Int /\ a - lag \in Int /\ z \in Int
      /\ x - TxAntDelay = DxInstant - rspClk /\ (a - lag) - TxAntDelay = z
  BY <1>2, <1>3
<1> HIDE DEF x, z
<1>6. Cong(DxInstant - rspClk, z, TsMod)
  <2>1. Cong(TxAntDelay, TxAntDelay, TsMod) /\ TxAntDelay \in Int
    BY <1>2, CongEquiv
  <2>2. Cong(x - TxAntDelay, (a - lag) - TxAntDelay, TsMod)
    BY <1>1, <1>2, <1>5, <2>1, CongAdd DEF a, x
  <2> QED
    BY <1>5, <2>2
<1>7. UntilDx \in 0..TsMod-1 /\ 2 * UntilDx < TsMod
  <2>1. UntilDx \in 0..TsMod-1
    BY <1>2, <1>5, CongMod DEF UntilDx
  <2> QED
    BY <2>1, <1>2 DEF TooLate
<1>8. Cong(UntilDx, z, TsMod)
  BY <1>2, <1>5, <1>6, <1>7, CongMod, CongEquiv DEF UntilDx
<1>9. UntilDx = z
  <2>1. UntilDx - z < TsMod /\ z - UntilDx < TsMod
    BY <1>2, <1>3, <1>4, <1>7 DEF z
  <2> QED
    BY <1>2, <1>5, <1>7, <1>8, <2>1, CongSmall
<1>10. a - lag \in 0..TsMod-1
  BY <1>2, <1>3, <1>7, <1>9 DEF z
<1> QED
  BY <1>1, <1>2, <1>5, <1>10, CongResidue DEF UntilDeparture, a, x

(* As long as the answer waits, every tick brings its departure nearer.    *)
LEMMA DepartureNears ==
    ASSUME TypeOK, rspRadio = "tx", Tick
    PROVE  UntilDeparture \in Nat /\ UntilDeparture' = UntilDeparture - 1
<1> DEFINE x == DxInstant + TxAntDelay  u == (x - rspClk) % TsMod
<1>1. x \in Int /\ rspClk \in 0..TsMod-1 /\ rspClk \in Int
      /\ TsMod \in Nat \ {0} /\ x - rspClk \in Int
  BY ResponderTypes, Naturals
<1>2. DxInstant' = DxInstant /\ rspClk' = (rspClk + 1) % TsMod /\ rspClk # x % TsMod
  BY DEF Tick, DepartNow, DxInstant
<1> HIDE DEF x
<1>3. u \in 0..TsMod-1 /\ u \in Int /\ Cong(x - rspClk, u, TsMod)
  BY <1>1, CongMod
<1> HIDE DEF u
<1>4. u # 0
  <2> SUFFICES ASSUME u = 0 PROVE x % TsMod = rspClk
    BY <1>2
  <2>1. Cong(x, rspClk, TsMod)
    BY <1>1, <1>3 DEF Cong
  <2> QED
    BY <1>1, <2>1, CongResidue
<1>5. Cong(x - ((rspClk + 1) % TsMod), u - 1, TsMod)
  BY <1>1, <1>3, CongCountdown
<1>6. (x - ((rspClk + 1) % TsMod)) % TsMod = u - 1
  <2>1. x - ((rspClk + 1) % TsMod) \in Int /\ u - 1 \in 0..TsMod-1
    BY <1>1, <1>3, <1>4
  <2> QED
    BY <1>1, <1>5, <2>1, CongResidue
<1>7. UntilDeparture = u /\ UntilDeparture' = (x - ((rspClk + 1) % TsMod)) % TsMod
  <2>1. UntilDeparture = u
    BY DEF UntilDeparture, u, x
  <2>2. UntilDeparture' = ((DxInstant' + TxAntDelay) - rspClk') % TsMod
    BY DEF UntilDeparture
  <2> QED
    BY <1>2, <2>1, <2>2 DEF x
<1> QED
  BY <1>2, <1>3, <1>6, <1>7

(* Only a poll being sent, an answer leaving and time change the air for   *)
(* the frames that stay.                                                   *)
LEMMA AirSteps ==
    /\ InitiatorSide \/ (ResponderSide /\ ~RespDeparts) \/ UNCHANGED vars =>
          \A f \in air' : f \in air \/ (SendPoll /\ f = Frame(Poll))
    /\ RespDeparts => \A f \in air' : f \in air \/ f = Frame(respMsg)
    /\ TypeOK /\ Tick => \A f \in air' : \E g \in air :
                            g.left > 0 /\ f.data = g.data /\ f.left = g.left - 1
<1>1. ASSUME InitiatorSide, NEW f \in air'
      PROVE  f \in air \/ (SendPoll /\ f = Frame(Poll))
  <2>1. CASE SendPoll
    BY <1>1, <2>1 DEF SendPoll
  <2>2. CASE RespArrives
    BY <1>1, <2>2 DEF RespArrives
  <2>3. CASE ~SendPoll /\ ~RespArrives
    BY <1>1, <2>3 DEF InitiatorSide, Initiator, IniSetup, GotFrame, GiveUp, Wake,
       ResetInitiator, InitiatorHearsOther, ReceiverOn, ReceiverTimesOut
  <2> QED
    BY <2>1, <2>2, <2>3
<1>2. ASSUME ResponderSide, ~RespDeparts, NEW f \in air' PROVE f \in air
  <2>1. CASE PollArrives
    BY <1>2, <2>1 DEF PollArrives
  <2>2. CASE ~PollArrives
    BY <1>2, <2>2 DEF ResponderSide, Responder, RspSetup, Listen, Answer, Ignore,
       Recover, StartTx, Sent, ResetResponder, ResponderHearsOther
  <2> QED
    BY <2>1, <2>2
<1>3. UNCHANGED vars => air' = air
  BY DEF vars
<1>4. RespDeparts => \A f \in air' : f \in air \/ f = Frame(respMsg)
  BY DEF RespDeparts
<1>5. ASSUME TypeOK, Tick, NEW f \in air'
      PROVE  \E g \in air : g.left > 0 /\ f.data = g.data /\ f.left = g.left - 1
  <2>1. PICK g \in air : f = [g EXCEPT !.left = @ - 1]
    BY <1>5 DEF Tick
  <2>2. g.left > 0 /\ g \in Frames
    BY <1>5, ResponderTypes DEF Tick
  <2> QED
    BY <2>1, <2>2, FrameTicks
<1> QED
  BY <1>1, <1>2, <1>3, <1>4, <1>5

(* What the responder says of the time to its answer stays true.           *)
LEMMA ResponderInvStep ==
    TypeOK /\ ResponderRadio /\ ResponderInv /\ [Next]_vars => ResponderInv'
<1> SUFFICES ASSUME TypeOK, ResponderRadio, ResponderInv, [Next]_vars
             PROVE  ResponderInv'
  OBVIOUS
<1>1. PollTimed /\ AnswerTimed /\ AnswerLeaves /\ AnswersTell
  BY DEF ResponderInv
<1>2. CASE InitiatorSide \/ UNCHANGED vars
  <2>1. UNCHANGED <<rspProgram, rspChip>>
    BY <1>2, Sides DEF vars
  <2>2. (PollTimed /\ AnswerTimed /\ AnswerLeaves)'
    BY <1>1, <2>1 DEF PollTimed, AnswerTimed, AnswerLeaves, Pending,
       UntilDeparture, DxInstant, rspProgram, rspChip
  <2>3. AnswersTell'
    BY <1>1, <1>2, AirSteps, Messages DEF AnswersTell, Frame
  <2> QED
    BY <2>2, <2>3 DEF ResponderInv
<1>3. CASE ResponderSide
  <2>1. AnswersTell'
    <3>1. CASE RespDeparts
      <4>1. Turnaround(respMsg) \in Turnarounds
        BY <1>1, <3>1 DEF RespDeparts, DepartNow, AnswerLeaves
      <4> QED
        BY <1>1, <3>1, <4>1, AirSteps DEF AnswersTell, Frame
    <3>2. CASE ~RespDeparts
      BY <1>1, <1>3, <3>2, AirSteps, Messages DEF AnswersTell, Frame
    <3> QED
      BY <3>1, <3>2
  <2>2. ASSUME ~Pending', rspPc' # "start", rspRadio' # "tx" PROVE ResponderInv'
    BY <2>1, <2>2 DEF ResponderInv, PollTimed, AnswerTimed, AnswerLeaves
  <2> USE DEF rspProgram, rspChip
  <2>3. CASE RspSetup \/ Listen \/ Ignore \/ Recover \/ Sent \/ ResetResponder
    BY <2>2, <2>3 DEF RspSetup, Listen, Ignore, Recover, Sent, AnswerDone,
       ResetResponder, ResponderRadio, Pending
  <2>4. CASE Answer
    <3>1. PICK a \in Turnarounds :
            /\ Turnaround(respMsg') = a
            /\ Cong((rspDx' - (rspDx' % 2)) * (Granule \div 2) + TxAntDelay,
                    rspRx + a, TsMod)
      BY <2>4, AnswerTiming, ResponderTypes DEF Answer
    <3>2. DxInstant' = (rspDx' - (rspDx' % 2)) * (Granule \div 2)
      BY DEF DxInstant
    <3>3. Cong(rspClk - rspRx, lag, TsMod)
      BY <1>1, <2>4 DEF Answer, PollTimed, Pending
    <3>4. Cong((DxInstant' + TxAntDelay) - rspClk, a - lag, TsMod)
      <4>1. DxInstant' \in Int /\ DxInstant' + TxAntDelay \in Int
        <5>1. rspDx' \in Int
          BY <2>4, DxRange, ResponderTypes DEF Answer
        <5> QED
          BY <3>2, <5>1, Widths, Naturals
      <4>2. /\ rspRx \in Int /\ rspClk \in Int /\ lag \in Int /\ a \in Int
            /\ TsMod \in Nat \ {0}
            /\ rspRx + a \in Int /\ rspClk - rspRx \in Int /\ rspRx + lag \in Int
        BY ResponderTypes, TurnaroundsAre, Naturals
      <4>3. Cong((rspClk - rspRx) + rspRx, lag + rspRx, TsMod)
        BY <3>3, <4>2, CongAdd, CongEquiv
      <4>4. Cong(rspClk, lag + rspRx, TsMod)
        BY <4>2, <4>3
      <4>5. Cong((DxInstant' + TxAntDelay) - rspClk, (rspRx + a) - (lag + rspRx), TsMod)
        BY <3>1, <3>2, <4>1, <4>2, <4>4, CongAdd
      <4> QED
        BY <4>2, <4>5
    <3>5. rspPc' = "start" /\ UNCHANGED <<rspRadio, rspClk, lag>> /\ rspRadio # "tx"
      BY <2>4 DEF Answer, ResponderRadio
    <3>6. AnswerTimed'
      BY <3>1, <3>4, <3>5 DEF AnswerTimed
    <3> QED
      BY <2>1, <3>5, <3>6 DEF ResponderInv, PollTimed, AnswerLeaves, Pending
  <2>5. CASE StartTx
    <3>1. UNCHANGED <<rspClk>> /\ rspRadio' \in {"off", "tx"} /\ rspPc = "start"
          /\ rspPc' \in {"loop", "sending"}
      BY <2>5 DEF StartTx, AnswerDone
    <3>2. CASE rspRadio' = "tx"
      <4>1. ~TooLate /\ UNCHANGED <<respMsg, rspDx>>
        BY <2>5, <3>2 DEF StartTx
      <4>2. UntilDeparture = Turnaround(respMsg) - lag
        BY <3>1, <4>1, StartTxTiming
      <4>3. Turnaround(respMsg) \in Turnarounds
        BY <1>1, <3>1 DEF AnswerTimed
      <4>4. UntilDeparture =< Turnaround(respMsg)
        BY <4>2, <4>3, TurnaroundsAre, ResponderTypes
      <4>5. AnswerLeaves'
        BY <3>1, <4>1, <4>3, <4>4 DEF AnswerLeaves, UntilDeparture, DxInstant
      <4> QED
        BY <2>1, <3>1, <4>5 DEF ResponderInv, PollTimed, AnswerTimed, Pending
    <3>3. CASE rspRadio' = "off"
      BY <2>2, <3>1, <3>3 DEF Pending
    <3> QED
      BY <3>1, <3>2, <3>3
  <2>6. CASE PollArrives \/ ResponderHearsOther
    <3>1. UNCHANGED <<rspClk, rspDx, rspPc, respMsg>>
      BY <2>6 DEF PollArrives, ResponderHearsOther
    <3>2. CASE rspRadio = "rx" /\ (rspRadio' = "off" /\ rspRx' = rspClk /\ lag' = 0)
      <4>1. Cong(rspClk - rspClk, 0, TsMod)
        BY ResponderTypes, Naturals, CongEquiv
      <4>2. PollTimed'
        BY <3>1, <3>2, <4>1 DEF PollTimed
      <4> QED
        BY <2>1, <3>1, <3>2, <4>2
        DEF ResponderInv, AnswerTimed, AnswerLeaves, ResponderRadio
    <3>3. CASE rspRadio = "rx" /\ RspGarbled
      BY <2>2, <3>1, <3>3 DEF RspGarbled, ResponderRadio, Pending
    <3>4. CASE UNCHANGED <<rspStatus, rspBuf, rspRx, rspRadio, lag>>
      <4>1. (PollTimed /\ AnswerTimed /\ AnswerLeaves)'
        BY <1>1, <3>1, <3>4 DEF PollTimed, AnswerTimed, AnswerLeaves, Pending,
           UntilDeparture, DxInstant
      <4> QED
        BY <2>1, <4>1 DEF ResponderInv
    <3> QED
      BY <2>6, <3>2, <3>3, <3>4 DEF PollArrives, ResponderHearsOther, RspReceives
  <2>7. CASE RespDeparts
    BY <2>2, <2>7 DEF RespDeparts, DepartNow, ResponderRadio, Pending
  <2> QED
    BY <1>3, <2>3, <2>4, <2>5, <2>6, <2>7 DEF ResponderSide, Responder
<1>4. CASE Tick
  <2>1. /\ rspClk' = (rspClk + 1) % TsMod
        /\ lag' = IF Busy THEN lag + 1 ELSE lag
        /\ UNCHANGED <<rspPc, respMsg, rspRadio, rspStatus, rspBuf, rspRx, rspDx>>
    BY <1>4 DEF Tick
  <2>2. /\ rspClk \in Int /\ rspRx \in Int /\ lag \in Int /\ TsMod \in Nat \ {0}
        /\ DxInstant + TxAntDelay \in Int /\ DxInstant' = DxInstant
    BY <2>1, ResponderTypes, Naturals DEF DxInstant
  <2>3. PollTimed'
    <3> SUFFICES ASSUME Pending' PROVE Cong(rspClk' - rspRx', lag', TsMod)
      BY DEF PollTimed
    <3>1. Pending /\ lag' = lag + 1
      BY <2>1 DEF Pending, Busy
    <3> QED
      BY <1>1, <2>1, <2>2, <3>1, CongTick DEF PollTimed
  <2>4. AnswerTimed'
    <3> SUFFICES ASSUME rspPc' = "start"
                 PROVE  /\ Turnaround(respMsg') \in Turnarounds
                        /\ Cong((DxInstant' + TxAntDelay) - rspClk',
                                Turnaround(respMsg') - lag', TsMod)
      BY DEF AnswerTimed
    <3>1. rspPc = "start" /\ lag' = lag + 1
      BY <2>1 DEF Busy
    <3> DEFINE a == Turnaround(respMsg)  x == DxInstant + TxAntDelay
    <3>2. a \in Turnarounds /\ a \in Int /\ a - lag \in Int /\ x \in Int
          /\ Cong(x - rspClk, a - lag, TsMod)
      BY <1>1, <2>2, <3>1, TurnaroundsAre DEF AnswerTimed
    <3> HIDE DEF a, x
    <3>3. Cong(x - ((rspClk + 1) % TsMod), (a - lag) - 1, TsMod)
      BY <2>2, <3>2, CongCountdown
    <3>4. (a - lag) - 1 = a - lag'
      BY <2>2, <3>1, <3>2
    <3> QED
      BY <2>1, <2>2, <3>2, <3>3, <3>4 DEF a, x
  <2>5. AnswerLeaves'
    <3> SUFFICES ASSUME rspRadio' = "tx"
                 PROVE  /\ Turnaround(respMsg') \in Turnarounds
                        /\ UntilDeparture' =< Turnaround(respMsg')
      BY DEF AnswerLeaves
    <3>1. rspRadio = "tx" /\ Turnaround(respMsg) \in Turnarounds
          /\ UntilDeparture =< Turnaround(respMsg)
      BY <1>1, <2>1 DEF AnswerLeaves
    <3> QED
      BY <1>4, <2>1, <3>1, DepartureNears, TurnaroundsAre
  <2>6. AnswersTell'
    BY <1>1, <1>4, AirSteps DEF AnswersTell
  <2> QED
    BY <2>3, <2>4, <2>5, <2>6 DEF ResponderInv
<1> QED
  BY <1>2, <1>3, <1>4, Sides

-----------------------------------------------------------------------------
(* What is under way is no older than an answer can be, or than a poll     *)
(* that has kept the responder waiting.                                    *)
LEMMA AgesBounded ==
    ASSUME TypeOK, ResponderInv, NEW e \in Int
    PROVE  /\ UnderWay(e) => e >= 0 /\ e < SleepTime /\ e < SetupTime
           /\ AnswerDue(e) \/ AnswerFlies(e) => e =< Trip
<1>1. /\ TimeOfFlight \in Nat /\ Trip \in Nat /\ SleepTime \in Nat
      /\ SetupTime \in Nat /\ RespDelay \in Nat /\ TxAntDelay \in Nat
      /\ TimeOfFlight =< Trip /\ Trip < SleepTime /\ Trip < SetupTime
      /\ MaxLag \in Nat /\ TimeOfFlight + MaxLag < SleepTime
      /\ TimeOfFlight + MaxLag < SetupTime
      /\ Trip = 2 * TimeOfFlight + RespDelay + TxAntDelay
  BY Naturals, TimingAssumption DEF Trip
<1>2. ASSUME PollFlies(e) PROVE e >= 0 /\ e =< Trip
  <2>1. PICK f \in air : e = TimeOfFlight - f.left
    BY <1>2 DEF PollFlies
  <2>2. f.left \in 0..TimeOfFlight
    BY ResponderTypes, Messages
  <2> QED
    BY <1>1, <2>1, <2>2
<1>3. ASSUME PollHeld(e) PROVE e >= 0 /\ e =< TimeOfFlight + MaxLag
  BY <1>1, <1>3, ResponderTypes DEF PollHeld
<1>4. ASSUME AnswerDue(e) PROVE e >= 0 /\ e =< Trip
  <2> DEFINE a == Turnaround(respMsg)
  <2>1. a \in Turnarounds /\ UntilDeparture =< a /\ UntilDeparture \in 0..TsMod-1
        /\ e = TimeOfFlight + (a - UntilDeparture)
    <3>1. (DxInstant + TxAntDelay) - rspClk \in Int
      BY ResponderTypes
    <3>2. UntilDeparture \in 0..TsMod-1
      BY <3>1, Naturals, CongMod DEF UntilDeparture
    <3> QED
      BY <1>4, <3>2 DEF AnswerDue, ResponderInv, AnswerLeaves
  <2>2. a \in Nat /\ a =< RespDelay + TxAntDelay
    BY <2>1, TurnaroundsAre
  <2> QED
    BY <1>1, <2>1, <2>2
<1>5. ASSUME AnswerFlies(e) PROVE e >= 0 /\ e =< Trip
  <2>1. PICK f \in air : /\ f.data.kind = "resp"
                        /\ e = 2 * TimeOfFlight + (Turnaround(f.data) - f.left)
    BY <1>5 DEF AnswerFlies
  <2> DEFINE a == Turnaround(f.data)
  <2>2. a \in Turnarounds /\ f.left \in 0..TimeOfFlight
    BY <2>1, ResponderTypes, Messages DEF ResponderInv, AnswersTell
  <2>3. a \in Nat /\ a =< RespDelay + TxAntDelay
    BY <2>2, TurnaroundsAre
  <2> QED
    BY <1>1, <2>1, <2>2, <2>3
<1> QED
  BY <1>1, <1>2, <1>3, <1>4, <1>5 DEF UnderWay

(* Only a poll brings anything new under way.                              *)
LEMMA NothingNew ==
    ASSUME TypeOK, ResponderRadio, ResponderInv, NEW e \in Int,
           InitiatorSide \/ ResponderSide \/ UNCHANGED vars, UnderWay(e)'
    PROVE  UnderWay(e) \/ (SendPoll /\ e = 0)
<1>1. ASSUME PollFlies(e)' PROVE PollFlies(e) \/ (SendPoll /\ e = 0)
  <2>1. PICK f \in air' : f.data.kind = "poll" /\ e = TimeOfFlight - f.left
    BY <1>1 DEF PollFlies
  <2>2. CASE f \in air
    BY <2>1, <2>2 DEF PollFlies
  <2>3. CASE RespDeparts /\ f = Frame(respMsg)
    BY <2>1, <2>3, Messages DEF TypeOK, Frame
  <2>4. CASE SendPoll /\ f = Frame(Poll)
    BY <2>1, <2>4, Naturals DEF Frame
  <2> QED
    BY <2>2, <2>3, <2>4, AirSteps
<1>2. ASSUME AnswerFlies(e)' PROVE AnswerFlies(e) \/ AnswerDue(e)
  <2>1. PICK f \in air' : /\ f.data.kind = "resp"
                         /\ e = 2 * TimeOfFlight + (Turnaround(f.data) - f.left)
    BY <1>2 DEF AnswerFlies
  <2>2. CASE f \in air
    BY <2>1, <2>2 DEF AnswerFlies
  <2>3. CASE RespDeparts /\ f = Frame(respMsg)
    <3>1. rspRadio = "tx" /\ rspClk = (DxInstant + TxAntDelay) % TsMod
      BY <2>3 DEF RespDeparts, DepartNow
    <3>2. UntilDeparture = 0
      <4>1. DxInstant + TxAntDelay \in Int /\ TsMod \in Nat \ {0}
        BY ResponderTypes, Naturals
      <4> QED
        BY <3>1, <4>1, CongMod DEF Cong, UntilDeparture
    <3>3. Turnaround(respMsg) \in Nat
      BY <3>1, TurnaroundsAre DEF ResponderInv, AnswerLeaves
    <3>4. e = TimeOfFlight + (Turnaround(respMsg) - UntilDeparture)
      BY <2>1, <2>3, <3>2, <3>3, Naturals DEF Frame
    <3> QED
      BY <3>1, <3>4 DEF AnswerDue
  <2>4. CASE SendPoll /\ f = Frame(Poll)
    BY <2>1, <2>4, Messages DEF Frame
  <2> QED
    BY <2>2, <2>3, <2>4, AirSteps
<1>3. ASSUME PollHeld(e)' PROVE PollHeld(e) \/ PollFlies(e)
  <2>1. (Pending' \/ rspPc' = "start") /\ e = TimeOfFlight + lag'
    BY <1>3 DEF PollHeld
  <2> USE DEF rspProgram, rspChip
  <2>2. CASE InitiatorSide \/ UNCHANGED vars
    <3>1. UNCHANGED <<rspProgram, rspChip>>
      BY <2>2, Sides DEF vars
    <3> QED
      BY <2>1, <3>1 DEF PollHeld, Pending
  <2>3. CASE PollArrives
    <3>1. PICK f \in air :
            /\ f.left = 0 /\ f.data.kind = "poll"
            /\ \/ rspRadio = "rx" /\ (RspReceives(f.data) \/ RspGarbled)
               \/ UNCHANGED <<rspStatus, rspBuf, rspRx, rspRadio, lag>>
            /\ rspPc' = rspPc
      BY <2>3 DEF PollArrives
    <3>2. CASE RspReceives(f.data)
      <4>1. e = TimeOfFlight - f.left
        BY <2>1, <3>1, <3>2, Naturals DEF RspReceives
      <4> QED
        BY <3>1, <4>1 DEF PollFlies
    <3>3. CASE rspRadio = "rx" /\ RspGarbled
      BY <2>1, <3>1, <3>3 DEF RspGarbled, ResponderRadio, Pending
    <3>4. CASE UNCHANGED <<rspStatus, rspBuf, rspRx, rspRadio, lag>>
      BY <2>1, <3>1, <3>4 DEF PollHeld, Pending
    <3> QED
      BY <3>1, <3>2, <3>3, <3>4
  <2>4. CASE Answer
    BY <2>1, <2>4 DEF Answer, PollHeld, Pending
  <2>5. CASE ResponderHearsOther
    <3>1. rspPc' = "wait" /\ ~Pending'
      BY <2>5, Messages DEF ResponderHearsOther, RspReceives, RspGarbled,
         ResponderRadio, Pending
    <3> QED
      BY <2>1, <3>1
  <2>6. CASE RspSetup \/ Listen \/ Ignore \/ Recover \/ StartTx \/ Sent
             \/ ResetResponder \/ RespDeparts
    BY <2>1, <2>6 DEF RspSetup, Listen, Ignore, Recover, StartTx, Sent, AnswerDone,
       ResetResponder, RespDeparts, DepartNow, ResponderRadio, Pending
  <2> QED
    BY <2>2, <2>3, <2>4, <2>5, <2>6 DEF ResponderSide, Responder
<1>4. ASSUME AnswerDue(e)' PROVE AnswerDue(e) \/ PollHeld(e)
  <2>1. /\ rspRadio' = "tx"
        /\ e = TimeOfFlight + (Turnaround(respMsg') - UntilDeparture')
    BY <1>4 DEF AnswerDue
  <2> USE DEF rspProgram, rspChip
  <2>2. CASE InitiatorSide \/ UNCHANGED vars
    <3>1. UNCHANGED <<rspProgram, rspChip>>
      BY <2>2, Sides DEF vars
    <3> QED
      BY <2>1, <3>1 DEF AnswerDue, UntilDeparture, DxInstant
  <2>3. CASE StartTx
    <3>1. rspPc = "start" /\ ~TooLate /\ UNCHANGED <<respMsg, rspDx, rspClk>>
      BY <2>1, <2>3 DEF StartTx
    <3>2. UntilDeparture' = UntilDeparture
      BY <3>1 DEF UntilDeparture, DxInstant
    <3>3. UntilDeparture = Turnaround(respMsg) - lag
      BY <3>1, StartTxTiming
    <3>4. Turnaround(respMsg) \in Nat
      BY <3>1, TurnaroundsAre DEF ResponderInv, AnswerTimed
    <3>5. e = TimeOfFlight + lag
      BY <2>1, <3>1, <3>2, <3>3, <3>4, Naturals, ResponderTypes
    <3> QED
      BY <3>1, <3>5 DEF PollHeld
  <2>4. CASE PollArrives \/ ResponderHearsOther
    <3>1. UNCHANGED <<rspRadio, respMsg, rspDx, rspClk>>
      BY <2>1, <2>4 DEF PollArrives, ResponderHearsOther, RspReceives, RspGarbled
    <3> QED
      BY <2>1, <3>1 DEF AnswerDue, UntilDeparture, DxInstant
  <2>5. CASE RspSetup \/ Listen \/ Answer \/ Ignore \/ Recover \/ Sent
             \/ ResetResponder \/ RespDeparts
    BY <2>1, <2>5 DEF RspSetup, Listen, Answer, Ignore, Recover, Sent, AnswerDone,
       ResetResponder, RespDeparts, ResponderRadio
  <2> QED
    BY <2>2, <2>3, <2>4, <2>5 DEF ResponderSide, Responder
<1> QED
  BY <1>1, <1>2, <1>3, <1>4 DEF UnderWay

-----------------------------------------------------------------------------
(* The initiator's clocks and delays are numbers.                          *)
LEMMA InitiatorTypes ==
    ASSUME TypeOK
    PROVE  /\ iniDelay \in Nat /\ iniTimer \in Nat /\ Age \in Int
           /\ iniClk \in 0..TsMod-1 /\ iniTx \in 0..TsMod-1 /\ iniRx \in 0..TsMod-1
           /\ iniRadio \in {"off", "turn", "rx"}
BY Naturals DEF TypeOK, Age

(* With time, what is under way ages by a tick.                            *)
LEMMA UnderWayAges ==
    ASSUME TypeOK, ResponderInv, Tick, NEW e \in Int, UnderWay(e)'
    PROVE  UnderWay(e - 1)
<1>1. ASSUME PollFlies(e)' PROVE PollFlies(e - 1)
  <2>1. PICK f \in air' : f.data.kind = "poll" /\ e = TimeOfFlight - f.left
    BY <1>1 DEF PollFlies
  <2>2. PICK g \in air : f.data = g.data /\ f.left = g.left - 1
    BY AirSteps
  <2>3. e - 1 = TimeOfFlight - g.left
    BY <2>1, <2>2, ResponderTypes, Messages, Naturals
  <2> QED
    BY <2>1, <2>2, <2>3 DEF PollFlies
<1>2. ASSUME AnswerFlies(e)' PROVE AnswerFlies(e - 1)
  <2>1. PICK f \in air' : /\ f.data.kind = "resp"
                         /\ e = 2 * TimeOfFlight + (Turnaround(f.data) - f.left)
    BY <1>2 DEF AnswerFlies
  <2>2. PICK g \in air : f.data = g.data /\ f.left = g.left - 1
    BY AirSteps
  <2>3. Turnaround(g.data) \in Nat /\ g.left \in Nat
    BY <2>1, <2>2, TurnaroundsAre, ResponderTypes, Messages, Naturals
    DEF ResponderInv, AnswersTell
  <2>4. e - 1 = 2 * TimeOfFlight + (Turnaround(g.data) - g.left)
    BY <2>1, <2>2, <2>3, Naturals
  <2> QED
    BY <2>1, <2>2, <2>4 DEF AnswerFlies
<1>3. ASSUME PollHeld(e)' PROVE PollHeld(e - 1)
  <2>1. /\ UNCHANGED <<rspPc, rspStatus, rspBuf>>
        /\ lag' = IF Busy THEN lag + 1 ELSE lag
    BY DEF Tick
  <2>2. (Pending \/ rspPc = "start") /\ e = TimeOfFlight + lag'
    BY <1>3, <2>1 DEF PollHeld, Pending
  <2>3. lag' = lag + 1
    BY <2>1, <2>2 DEF Busy, Pending
  <2> QED
    BY <2>2, <2>3, ResponderTypes, Naturals DEF PollHeld
<1>4. ASSUME AnswerDue(e)' PROVE AnswerDue(e - 1)
  <2>1. UNCHANGED <<rspRadio, respMsg>>
    BY DEF Tick
  <2>2. rspRadio = "tx" /\ e = TimeOfFlight + (Turnaround(respMsg) - UntilDeparture')
    BY <1>4, <2>1 DEF AnswerDue
  <2>3. UntilDeparture \in Nat /\ UntilDeparture' = UntilDeparture - 1
    BY <2>2, DepartureNears
  <2>4. Turnaround(respMsg) \in Nat
    BY <2>2, TurnaroundsAre DEF ResponderInv, AnswerLeaves
  <2>5. e - 1 = TimeOfFlight + (Turnaround(respMsg) - UntilDeparture)
    BY <2>2, <2>3, <2>4, Naturals
  <2> QED
    BY <2>2, <2>5 DEF AnswerDue
<1> QED
  BY <1>1, <1>2, <1>3, <1>4 DEF UnderWay

(* The age of the initiator's poll begins with the poll ...                *)
LEMMA AgeBegins == SendPoll => Age' = 0
BY Naturals DEF SendPoll, Age

(* ... grows with time, which does not pass once an event is there ...     *)
LEMMA AgeGrows ==
    ASSUME TypeOK, InitiatorRadio, Tick, iniPc = "wait"
    PROVE  iniStatus = {} /\ Age' = Age + 1
<1>1. /\ iniStatus = {} /\ iniRadio' = iniRadio
      /\ iniRadio # "off" /\ iniTimer > 0 /\ iniTimer' = iniTimer - 1
  BY InitiatorTypes DEF Tick, Less, InitiatorRadio
<1> QED
  BY <1>1, InitiatorTypes, Naturals DEF Age

(* ... and with nothing else, while the initiator waits.                   *)
LEMMA AgeStays ==
    ASSUME TypeOK, (InitiatorSide /\ ~SendPoll) \/ ResponderSide \/ UNCHANGED vars,
           iniPc' = "wait"
    PROVE  iniPc = "wait" /\ Age' = Age
<1> USE DEF iniProgram, iniChip
<1>1. CASE ReceiverOn
  <2>1. /\ iniRadio = "turn" /\ iniTimer = 0 /\ iniRadio' = "rx"
        /\ iniTimer' = RxTimeout /\ iniPc' = iniPc
    BY <1>1 DEF ReceiverOn
  <2> QED
    BY <2>1, Naturals DEF Age
<1>2. CASE RespArrives \/ InitiatorHearsOther \/ ReceiverTimesOut
  <2>1. /\ iniPc' = iniPc /\ iniTimer' = iniTimer
        /\ \/ iniRadio' = "off" /\ iniRadio = "rx"
           \/ iniRadio' = iniRadio
    BY <1>2 DEF RespArrives, InitiatorHearsOther, ReceiverTimesOut, IniReceives,
                IniGarbled
  <2> QED
    BY <2>1 DEF Age
<1>3. CASE IniSetup \/ GotFrame \/ GiveUp \/ Wake \/ ResetInitiator
  BY <1>3 DEF IniSetup, GotFrame, GiveUp, Wake, ResetInitiator, Sleep
<1>4. CASE ResponderSide \/ UNCHANGED vars
  <2>1. UNCHANGED <<iniPc, iniRadio, iniTimer>>
    BY <1>4, Sides
  <2> QED
    BY <2>1 DEF Age
<1> QED
  BY <1>1, <1>2, <1>3, <1>4 DEF InitiatorSide, Initiator

(* While the initiator waits, all that is under way comes of its poll.     *)
LEMMA FreshStep ==
    /\ TypeOK /\ InitiatorRadio /\ ResponderRadio /\ ResponderInv /\ FreshInv
    /\ [Next]_vars
    => FreshInv'
<1> SUFFICES ASSUME TypeOK, InitiatorRadio, ResponderRadio, ResponderInv, FreshInv,
                    [Next]_vars, NEW e \in Int, UnderWay(e)'
             PROVE  /\ iniPc' # "loop"
                    /\ iniPc' = "wait" => e = Age'
                    /\ iniPc' = "sleep" => e + iniDelay' >= SleepTime
                    /\ iniPc' = "setup" => e + iniDelay' >= SetupTime
  BY DEF FreshInv
<1> USE Naturals, InitiatorTypes DEF iniProgram, iniChip
<1>1. CASE Tick
  <2>1. UnderWay(e - 1) /\ e - 1 \in Int
    BY <1>1, UnderWayAges
  <2>2. /\ iniPc # "loop"
        /\ iniPc = "wait" => e - 1 = Age
        /\ iniPc = "sleep" => (e - 1) + iniDelay >= SleepTime
        /\ iniPc = "setup" => (e - 1) + iniDelay >= SetupTime
    BY <2>1 DEF FreshInv
  <2>3. /\ iniPc' = iniPc /\ iniDelay \in Nat /\ iniDelay' \in Nat
        /\ iniDelay' >= iniDelay - 1
    <3>1. iniPc' = iniPc /\ iniDelay' = IF iniDelay = 0 THEN 0 ELSE iniDelay - 1
      BY <1>1 DEF Tick, Less
    <3> QED
      BY <3>1
  <2>4. iniPc = "wait" => e = Age'
    BY <1>1, <2>2, AgeGrows
  <2>5. \A t \in Nat : (e - 1) + iniDelay >= t => e + iniDelay' >= t
    <3>1. \A d, d1, t \in Nat : d1 >= d - 1 /\ (e - 1) + d >= t => e + d1 >= t
      OBVIOUS
    <3> QED
      BY <2>3, <3>1
  <2> QED
    BY <2>2, <2>3, <2>4, <2>5
<1>2. CASE SendPoll
  <2>1. ~UnderWay(e)
    BY <1>2 DEF SendPoll, FreshInv
  <2>2. e = 0
    BY <1>2, <2>1, NothingNew DEF InitiatorSide, Initiator
  <2> QED
    BY <1>2, <2>2, AgeBegins DEF SendPoll
<1>3. CASE (InitiatorSide /\ ~SendPoll) \/ ResponderSide \/ UNCHANGED vars
  <2>1. UnderWay(e)
    <3>1. CASE SendPoll
      BY <1>3, <3>1, Sides DEF SendPoll
    <3> QED
      BY <1>3, <3>1, NothingNew
  <2>2. /\ iniPc # "loop"
        /\ iniPc = "wait" => e = Age
        /\ iniPc = "sleep" => e + iniDelay >= SleepTime
        /\ iniPc = "setup" => e + iniDelay >= SetupTime
    BY <2>1 DEF FreshInv
  <2>3. e >= 0 /\ e < SleepTime /\ e < SetupTime
    BY <2>1, AgesBounded
  <2>4. iniPc' = "wait" => e = Age'
    BY <1>3, <2>2, AgeStays
  <2>5. CASE IniSetup \/ Wake
    BY <2>2, <2>3, <2>5 DEF IniSetup, Wake
  <2>6. CASE GotFrame \/ GiveUp
    BY <2>3, <2>6 DEF GotFrame, GiveUp, Sleep
  <2>7. CASE ResetInitiator
    BY <2>3, <2>7 DEF ResetInitiator
  <2>8. CASE \/ RespArrives \/ InitiatorHearsOther \/ ReceiverOn \/ ReceiverTimesOut
             \/ ResponderSide \/ UNCHANGED vars
    <3>1. UNCHANGED <<iniPc, iniDelay>>
      BY <2>8, Sides DEF RespArrives, InitiatorHearsOther, ReceiverOn,
         ReceiverTimesOut
    <3> QED
      BY <2>2, <2>4, <3>1
  <2> QED
    BY <1>3, <2>5, <2>6, <2>7, <2>8 DEF InitiatorSide, Initiator
<1> QED
  BY <1>1, <1>2, <1>3, Sides

-----------------------------------------------------------------------------
(* The initiator's time stamps tell the age of its poll.                   *)
LEMMA InitiatorInvStep ==
    /\ TypeOK /\ InitiatorRadio /\ ResponderInv /\ FreshInv /\ InitiatorInv
    /\ [Next]_vars
    => InitiatorInv'
<1> SUFFICES ASSUME TypeOK, InitiatorRadio, ResponderInv, FreshInv, InitiatorInv,
                    [Next]_vars, iniPc' = "wait"
             PROVE  /\ Cong(iniClk' - iniTx', Age', TsMod)
                    /\ "good" \in iniStatus' /\ iniBuf'.kind = "resp" =>
                          /\ iniRx' = iniClk'
                          /\ Turnaround(iniBuf') \in Turnarounds
                          /\ Age' = 2 * TimeOfFlight + Turnaround(iniBuf')
  BY DEF InitiatorInv
<1>0. /\ iniClk \in Int /\ iniTx \in Int /\ Age \in Int /\ TsMod \in Nat \ {0}
      /\ TimeOfFlight \in Nat
  BY InitiatorTypes, Naturals
<1> USE DEF iniProgram, iniChip
<1>1. CASE Tick
  <2>1. /\ iniPc = "wait" /\ iniClk' = (iniClk + 1) % TsMod
        /\ UNCHANGED <<iniTx, iniStatus>>
    BY <1>1 DEF Tick
  <2>2. iniStatus = {} /\ Age' = Age + 1
    BY <1>1, <2>1, AgeGrows
  <2>3. Cong(iniClk - iniTx, Age, TsMod)
    BY <2>1 DEF InitiatorInv
  <2>4. Cong(((iniClk + 1) % TsMod) - iniTx, Age + 1, TsMod)
    BY <1>0, <2>3, CongTick
  <2> QED
    BY <2>1, <2>2, <2>4
<1>2. CASE SendPoll
  <2>1. iniClk' - iniTx' = 0 /\ iniStatus' = {}
    BY <1>0, <1>2 DEF SendPoll, InitiatorRadio
  <2>2. Cong(0, 0, TsMod)
    BY <1>0, CongEquiv
  <2> QED
    BY <1>2, <2>1, <2>2, AgeBegins
<1>3. CASE (InitiatorSide /\ ~SendPoll) \/ ResponderSide \/ UNCHANGED vars
  <2>1. iniPc = "wait" /\ Age' = Age
    BY <1>3, AgeStays
  <2>2. UNCHANGED <<iniClk, iniTx>>
    BY <1>3, <2>1, Sides DEF InitiatorSide, Initiator, IniSetup, GotFrame, GiveUp,
       Wake, ResetInitiator, RespArrives, InitiatorHearsOther, ReceiverOn,
       ReceiverTimesOut, Sleep
  <2>3. Cong(iniClk' - iniTx', Age', TsMod)
    BY <2>1, <2>2 DEF InitiatorInv
  <2>4. \/ UNCHANGED <<iniStatus, iniBuf, iniRx>>
        \/ "good" \notin iniStatus'
        \/ iniBuf' = Other
        \/ \E f \in air : /\ f.left = 0 /\ f.data.kind = "resp"
                           /\ iniBuf' = f.data /\ iniRx' = iniClk
    <3>1. CASE RespArrives \/ InitiatorHearsOther
      BY <2>1, <3>1 DEF RespArrives, InitiatorHearsOther, IniReceives, IniGarbled,
         InitiatorRadio
    <3>2. CASE ReceiverOn \/ ResponderSide \/ UNCHANGED vars
      BY <3>2, Sides DEF ReceiverOn
    <3>3. CASE ReceiverTimesOut
      BY <2>1, <3>3 DEF ReceiverTimesOut, InitiatorRadio
    <3>4. CASE IniSetup \/ GotFrame \/ GiveUp \/ Wake \/ ResetInitiator
      BY <2>1, <3>4 DEF IniSetup, GotFrame, GiveUp, Wake, ResetInitiator, Sleep
    <3> QED
      BY <1>3, <3>1, <3>2, <3>3, <3>4 DEF InitiatorSide, Initiator
  <2>5. ASSUME NEW f \in air, f.left = 0, f.data.kind = "resp"
        PROVE  /\ Turnaround(f.data) \in Turnarounds
               /\ Age = 2 * TimeOfFlight + Turnaround(f.data)
    <3>1. Turnaround(f.data) \in Turnarounds
      BY <2>5 DEF ResponderInv, AnswersTell
    <3> DEFINE e == 2 * TimeOfFlight + (Turnaround(f.data) - f.left)
    <3>2. e \in Int /\ e = 2 * TimeOfFlight + Turnaround(f.data)
      BY <1>0, <2>5, <3>1, TurnaroundsAre
    <3>3. UnderWay(e)
      BY <2>5 DEF UnderWay, AnswerFlies
    <3> QED
      BY <2>1, <3>1, <3>2, <3>3 DEF FreshInv
  <2>6. CASE UNCHANGED <<iniStatus, iniBuf, iniRx>>
    BY <2>1, <2>2, <2>3, <2>6 DEF InitiatorInv
  <2> QED
    BY <2>1, <2>2, <2>3, <2>4, <2>5, <2>6, Messages
<1> QED
  BY <1>1, <1>2, <1>3, Sides

(* The inductive invariant.                                                *)
LEMMA RangingInvInit == Init => RangingInv
<1> SUFFICES ASSUME Init PROVE RangingInv
  OBVIOUS
<1>1. TypeOK
  BY TypeInit
<1>2. InitiatorRadio /\ ResponderRadio
  BY Naturals DEF Init, InitiatorRadio, ResponderRadio
<1>3. ResponderInv
  BY DEF Init, ResponderInv, PollTimed, AnswerTimed, AnswerLeaves, AnswersTell, Pending
<1>4. FreshInv
  BY DEF Init, FreshInv, UnderWay, PollFlies, PollHeld, AnswerDue, AnswerFlies, Pending
<1>5. InitiatorInv
  BY DEF Init, InitiatorInv
<1> QED
  BY <1>1, <1>2, <1>3, <1>4, <1>5 DEF RangingInv

LEMMA RangingInvStep == RangingInv /\ [Next]_vars => RangingInv'
BY TypeStep, InitiatorRadioStep, ResponderRadioStep, ResponderInvStep, FreshStep,
   InitiatorInvStep
DEF RangingInv

LEMMA RangingInvHolds == Spec => []RangingInv
BY RangingInvInit, RangingInvStep, PTL DEF Spec

(* An answer to the poll the initiator waits on comes while its receiver   *)
(* is on: the delays of the two sketches fit together, and the answer of   *)
(* an earlier poll never comes late.                                       *)
THEOREM ReceiverOnForAnswer == Spec => []AnswerFindsReceiverOn
<1>1. RangingInv => AnswerFindsReceiverOn
  <2> SUFFICES ASSUME RangingInv, iniPc = "wait", iniStatus = {}
               PROVE  /\ \A f \in air :
                            f.left = 0 /\ f.data.kind = "resp" => iniRadio = "rx"
                      /\ iniRadio = "rx" /\ iniTimer = 0 =>
                            rspRadio # "tx" /\ \A f \in air : f.data.kind # "resp"
    BY DEF AnswerFindsReceiverOn
  <2>1. TypeOK /\ InitiatorRadio /\ ResponderInv /\ FreshInv
    BY DEF RangingInv
  <2>2. /\ iniRadio \in {"turn", "rx"} /\ iniTimer \in Nat /\ Age \in Int
        /\ iniRadio = "turn" => Age =< RxDelay
        /\ iniRadio = "rx" /\ iniTimer = 0 => Age > Trip
    <3>1. /\ iniTimer \in Nat /\ RxDelay \in Nat /\ RxTimeout \in Nat
          /\ Trip < RxDelay + RxTimeout /\ Age \in Int
      BY <2>1, InitiatorTypes, Naturals, TimingAssumption DEF Trip
    <3> QED
      BY <2>1, <3>1 DEF InitiatorRadio, Age
  <2>3. ASSUME NEW f \in air, f.data.kind = "resp"
        PROVE  Age =< Trip /\ (f.left = 0 => Age > RxDelay)
    <3> DEFINE a == Turnaround(f.data)  e == 2 * TimeOfFlight + (a - f.left)
    <3>1. a \in Turnarounds /\ f.left \in 0..TimeOfFlight
      BY <2>1, <2>3, ResponderTypes, Messages DEF ResponderInv, AnswersTell
    <3>2. a \in Nat /\ a > (RespDelay - Granule) + TxAntDelay
      BY <3>1, TurnaroundsAre
    <3>3. e \in Int /\ (f.left = 0 => e > RxDelay)
      BY <3>1, <3>2, Naturals, TimingAssumption
    <3>4. AnswerFlies(e) /\ UnderWay(e)
      BY <2>3 DEF UnderWay, AnswerFlies
    <3>5. e = Age /\ e =< Trip
      BY <2>1, <3>3, <3>4, AgesBounded DEF FreshInv
    <3> QED
      BY <3>3, <3>5
  <2>4. ASSUME rspRadio = "tx" PROVE Age =< Trip
    <3> DEFINE e == TimeOfFlight + (Turnaround(respMsg) - UntilDeparture)
    <3>1. e \in Int
      <4>1. (DxInstant + TxAntDelay) - rspClk \in Int
        BY <2>1, ResponderTypes
      <4>2. UntilDeparture \in Int
        BY <4>1, Naturals, CongMod DEF UntilDeparture
      <4>3. Turnaround(respMsg) \in Nat
        BY <2>1, <2>4, TurnaroundsAre DEF ResponderInv, AnswerLeaves
      <4> QED
        BY <4>2, <4>3, Naturals
    <3>2. AnswerDue(e) /\ UnderWay(e)
      BY <2>4 DEF UnderWay, AnswerDue
    <3> QED
      BY <2>1, <3>1, <3>2, AgesBounded DEF FreshInv
  <2>5. Trip \in Nat /\ RxDelay \in Nat
    BY Naturals DEF Trip
  <2> QED
    BY <2>2, <2>3, <2>4, <2>5
<1> QED
  BY <1>1, RangingInvHolds, PTL

-----------------------------------------------------------------------------
(* What the initiator computes from its own two time stamps and the two in *)
(* the answer is the time of flight there and back.                        *)
LEMMA ExchangeIsTrue ==
    ASSUME RangingInv, iniPc = "wait", "good" \in iniStatus, iniBuf.kind = "resp"
    PROVE  RoundTrip(Lo(iniRx), Lo(iniTx))
             - RoundTrip(iniBuf.resp_tx_ts, iniBuf.poll_rx_ts) = 2 * TimeOfFlight
<1> DEFINE a == Turnaround(iniBuf)
<1>1. /\ Cong(iniRx - iniTx, Age, TsMod)
      /\ a \in Turnarounds /\ Age = 2 * TimeOfFlight + a
  BY DEF RangingInv, InitiatorInv
<1>2. /\ a \in Nat /\ Age \in Nat /\ 2 * Age < LoMod
      /\ TsMod \in Nat \ {0} /\ LoMod \in Nat \ {0} /\ TimeOfFlight \in Nat
      /\ iniRx \in Int /\ iniTx \in Int /\ iniRx - iniTx \in Int
  <2>1. iniRx \in 0..TsMod-1 /\ iniTx \in 0..TsMod-1
    BY InitiatorTypes DEF RangingInv
  <2> QED
    BY <1>1, <2>1, TurnaroundsAre, Naturals
<1>3. Cong(iniRx - iniTx, Age, LoMod)
  BY <1>1, <1>2, CongDivisor, ClockAssumption
<1>4. /\ Lo(iniRx) \in Int /\ Lo(iniTx) \in Int
      /\ Cong(Lo(iniRx), iniRx, LoMod) /\ Cong(Lo(iniTx), iniTx, LoMod)
  <2>1. Lo(iniRx) \in Int /\ Lo(iniTx) \in Int
    BY <1>2, LoRange
  <2>2. Cong(Lo(iniRx), iniRx, LoMod) /\ Cong(Lo(iniTx), iniTx, LoMod)
    BY <1>2, CongMod DEF Lo
  <2> QED
    BY <2>1, <2>2
<1>5. Cong(Lo(iniRx) - Lo(iniTx), iniRx - iniTx, LoMod)
  BY <1>2, <1>4, CongAdd
<1>6. Cong(Lo(iniRx) - Lo(iniTx), Age, LoMod)
  BY <1>2, <1>3, <1>4, <1>5, CongEquiv
<1>7. RoundTrip(Lo(iniRx), Lo(iniTx)) = Age
  BY <1>2, <1>4, <1>6, RoundTripIs
<1> QED
  BY <1>1, <1>2, <1>7 DEF Turnaround

(* A step of the exchange is a step of Ranging, or none.                   *)
LEMMA RangingStep ==
    RangingInv /\ [Next]_vars =>
        [Abstract!Begin \/ Abstract!Finish \/ Abstract!Reset]_<<
            IF ranged THEN <<tof>> ELSE <<>>, iniPc = "wait">>
<1> DEFINE result == IF ranged THEN <<tof>> ELSE <<>>
<1> SUFFICES ASSUME RangingInv, [Next]_vars
             PROVE  \/ Abstract!Begin \/ Abstract!Finish \/ Abstract!Reset
                    \/ UNCHANGED <<result, iniPc = "wait">>
  OBVIOUS
<1> USE DEF iniProgram
<1>1. CASE SendPoll
  BY <1>1 DEF SendPoll, Abstract!Begin
<1>2. CASE GotFrame
  <2>1. CASE iniBuf.kind = "resp"
    <3>1. tof' = 2 * TimeOfFlight
      BY <1>2, <2>1, ExchangeIsTrue DEF GotFrame
    <3> QED
      BY <1>2, <2>1, <3>1 DEF GotFrame, Sleep, Abstract!Finish
  <2>2. CASE iniBuf.kind # "resp"
    BY <1>2, <2>2 DEF GotFrame, Sleep, Abstract!Finish
  <2> QED
    BY <2>1, <2>2
<1>3. CASE GiveUp
  BY <1>3 DEF GiveUp, Sleep, Abstract!Finish
<1>4. CASE ResetInitiator
  BY <1>4 DEF ResetInitiator, Abstract!Reset
<1>5. CASE IniSetup \/ Wake
  BY <1>5 DEF IniSetup, Wake
<1>6. CASE \/ RespArrives \/ InitiatorHearsOther \/ ReceiverOn \/ ReceiverTimesOut
           \/ ResponderSide \/ Tick \/ UNCHANGED vars
  <2>1. UNCHANGED <<iniPc, tof, ranged>>
    BY <1>6, Sides DEF RespArrives, InitiatorHearsOther, ReceiverOn,
       ReceiverTimesOut, Tick
  <2> QED
    BY <2>1
<1> QED
  BY <1>1, <1>2, <1>3, <1>4, <1>5, <1>6, Sides DEF InitiatorSide, Initiator

(* The initiator implements Ranging: an exchange yields the true time of   *)
(* flight or leaves the last one alone, whatever was lost, late or reset   *)
(* before, wherever the two clocks stand and whichever of them wraps.      *)
THEOREM RangingIsTrue == Spec => ImplementsRanging
<1>1. Init => Abstract!Init
  BY DEF Init, Abstract!Init
<1> QED
  BY <1>1, RangingStep, RangingInvHolds, PTL
  DEF Spec, ImplementsRanging, Abstract!Spec

=============================================================================
