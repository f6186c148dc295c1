---------------------------- MODULE TwoWayRanging ----------------------------
(***************************************************************************)
(* Single-sided two-way ranging of arduino/positioning: an initiator polls *)
(* a responder over a lossy radio, the responder answers at an instant it  *)
(* computes beforehand and writes into the answer, and the initiator turns *)
(* four time stamps of two unsynchronised clocks into a time of flight.    *)
(*                                                                         *)
(* The responder is range_tx.ino.  The initiator is range_rx.ino, which is *)
(* the example ex_06a_ss_twr_initiator of the DW3000 library with an early *)
(* return at the head of loop(): EarlyReturn tells the two apart.  The     *)
(* DW3000 chip and the air between the two boards are external; they are   *)
(* modelled by what the sketches and the driver rely on.  Time passes in   *)
(* ticks, and both clocks run at the same rate.                            *)
(*                                                                         *)
(* A register, or a message, whose value nothing can read any more before  *)
(* it is written again is set to 0: a reading of RX_TIME or of the receive *)
(* buffer is always preceded by the event of the frame that fills them, a  *)
(* reading of TX_TIME by a poll, a transmission by tx_resp_msg and DX_TIME.*)
(***************************************************************************)
EXTENDS Integers

CONSTANTS
    EarlyReturn,  \* TRUE for range_rx.ino as it stands
    TsMod,        \* device time stamps count modulo this (2^40)
    LoMod,        \* what the low word of a time stamp counts modulo (2^32)
    Granule,      \* resolution of a delayed transmission (2^9)
    TxAntDelay,   \* TX_ANT_DLY
    RespDelay,    \* POLL_RX_TO_RESP_TX_DLY_UUS
    RxDelay,      \* POLL_TX_TO_RESP_RX_DLY_UUS, from the poll's marker
    RxTimeout,    \* RESP_RX_TIMEOUT_UUS
    SleepTime,    \* RNG_DELAY_MS
    SetupTime,    \* the least time setup() takes
    Preamble,     \* what a delayed transmission needs before its marker
    TimeOfFlight, \* from one antenna to the other
    MaxLag,       \* bound: ticks from a poll to its dwt_starttx
    MaxResets,    \* bound: resets of the two boards
    Phases        \* the readings the two clocks may start from

ASSUME ClockAssumption ==
    /\ TsMod \in Nat \ {0} /\ LoMod \in Nat \ {0} /\ Granule \in Nat \ {0}
    /\ TsMod % LoMod = 0 /\ TsMod % Granule = 0 /\ Granule % 2 = 0
    /\ Phases \subseteq 0..TsMod-1
ASSUME DelayAssumption ==
    /\ \A d \in {TxAntDelay, RespDelay, RxDelay, RxTimeout, SleepTime,
                 SetupTime, Preamble, TimeOfFlight, MaxLag, MaxResets} :
          d \in Nat
    /\ 2 * MaxLag < TsMod
ASSUME EarlyReturnAssumption == EarlyReturn \in BOOLEAN
(* How the delays of the two sketches fit together.  The answer is timed   *)
(* for after the poll; it comes when the receiver is on and before it gives*)
(* up, within half a turn of the 32-bit time stamps; and all that comes of *)
(* a poll is over before the initiator sleeps or starts again to the end.  *)
ASSUME TimingAssumption ==
    LET trip == 2 * TimeOfFlight + RespDelay + TxAntDelay
    IN  /\ Granule =< RespDelay
        /\ 2 * trip < LoMod
        /\ RxDelay + Granule =< trip
        /\ trip < RxDelay + RxTimeout
        /\ \A t \in {SleepTime, SetupTime} :
              trip < t /\ TimeOfFlight + MaxLag < t

VARIABLES
    iniPc, rspPc,         \* what each sketch does next
    iniDelay,             \* ticks left of the initiator's setup() or Sleep()
    tof,                  \* the global tof, in ticks there and back
    ranged,               \* history: tof has been computed since the reset
    respMsg,              \* the time stamps written into tx_resp_msg
    lag,                  \* ticks since the poll being answered came in
    iniClk, rspClk,       \* system time of the two chips
    iniRadio, rspRadio,   \* what each transceiver does
    iniTimer,             \* ticks until the initiator's receiver goes on, off
    iniStatus, rspStatus, \* the event bits of SYS_STATUS
    iniBuf, rspBuf,       \* the kind, and the data, of the last good frame
    iniTx, iniRx, rspRx,  \* the registers TX_TIME and RX_TIME
    rspDx,                \* the register DX_TIME
    air,                  \* frames on their way
    resets                \* resets so far

iniProgram == <<iniPc, iniDelay, tof, ranged>>
iniChip == <<iniClk, iniRadio, iniTimer, iniStatus, iniBuf, iniTx, iniRx>>
rspProgram == <<rspPc, respMsg, lag>>
rspChip == <<rspClk, rspRadio, rspStatus, rspBuf, rspRx, rspDx>>
vars == <<iniProgram, iniChip, rspProgram, rspChip, air, resets>>

Poll == [kind |-> "poll"]
Other == [kind |-> "other"]
Resp(pollRx, respTx) ==
    [kind |-> "resp", poll_rx_ts |-> pollRx, resp_tx_ts |-> respTx]
Frame(data) == [data |-> data, left |-> TimeOfFlight]
Resps == [kind : {"resp"}, poll_rx_ts : 0..LoMod-1, resp_tx_ts : 0..LoMod-1]
Frames == [data : {Poll} \cup Resps, left : 0..TimeOfFlight]

-----------------------------------------------------------------------------
(* Arithmetic of the time stamps.                                          *)

(* Mutant: all 40 bits go into the message.                                *)
LoAll(t) == t

(* What a time stamp of 32 bits keeps, and a signed difference of two.     *)
Lo(t) == t % LoMod
RoundTrip(t, t0) ==
    LET d == (t - t0) % LoMod IN IF 2 * d < LoMod THEN d ELSE d - LoMod

(* resp_tx_time: the high 32 of 40 bits of the time to answer at.          *)
RespTxTime(pollRx) ==
    ((pollRx + RespDelay) \div (Granule \div 2)) % ((2 * TsMod) \div Granule)

(* Mutant: the odd half of a granule is not masked out of resp_tx_ts.      *)
RespTxTsOdd(time) == time * (Granule \div 2) + TxAntDelay

(* resp_tx_ts: when the answer leaves the antenna, bit 0 of time ignored.  *)
RespTxTs(time) == (time - (time % 2)) * (Granule \div 2) + TxAntDelay

(* The system time at which the chip takes DX_TIME to be, bit 0 ignored.   *)
DxInstant == (rspDx - (rspDx % 2)) * (Granule \div 2)

-----------------------------------------------------------------------------
TypeOK ==
    /\ iniPc \in {"setup", "failed", "loop", "wait", "sleep"}
    /\ rspPc \in {"setup", "failed", "loop", "wait", "start", "sending"}
    /\ iniDelay \in 0..SleepTime \cup 0..SetupTime
    /\ tof \in Int /\ ranged \in BOOLEAN
    /\ respMsg \in Resps
    /\ lag \in 0..MaxLag
    /\ {iniClk, rspClk, iniTx, iniRx, rspRx} \subseteq 0..TsMod-1
    /\ iniRadio \in {"off", "turn", "rx"} /\ rspRadio \in {"off", "rx", "tx"}
    /\ iniTimer \in 0..RxDelay \cup 0..RxTimeout
    /\ iniStatus \subseteq {"good", "error", "timeout"}
    /\ rspStatus \subseteq {"good", "error", "sent"}
    /\ iniBuf \in Resps \cup {Poll, Other} /\ rspBuf \in Resps \cup {Poll, Other}
    /\ rspDx \in 0..((2 * TsMod) \div Granule)-1
    /\ air \subseteq Frames
    /\ resets \in 0..MaxResets

Init ==
    /\ iniPc = "setup" /\ iniDelay = 0 /\ tof = 0 /\ ranged = FALSE
    /\ iniClk \in Phases /\ iniRadio = "off" /\ iniTimer = 0
    /\ iniStatus = {} /\ iniBuf = Other /\ iniTx = 0 /\ iniRx = 0
    /\ rspPc = "setup" /\ respMsg = Resp(0, 0) /\ lag = 0
    /\ rspClk \in Phases /\ rspRadio = "off"
    /\ rspStatus = {} /\ rspBuf = Other /\ rspRx = 0 /\ rspDx = 0
    /\ air = {} /\ resets = 0

-----------------------------------------------------------------------------
(* The initiator.                                                          *)

(* The end of setup(): the chip came up, or one of three checks failed.    *)
IniSetup ==
    /\ iniPc = "setup" /\ iniDelay = 0
    /\ iniPc' \in {"loop", "failed"}
    /\ UNCHANGED <<iniDelay, tof, ranged, iniChip, rspProgram, rspChip, air, resets>>

(* Mutant: the example has the early return of range_rx.ino.               *)
SendPollNever == iniPc = "loop" /\ UNCHANGED vars

(* loop() up to dwt_starttx: the poll leaves at once, and the receiver is  *)
(* to go on by itself.  Events already in SYS_STATUS stay there.           *)
SendPoll ==
    /\ iniPc = "loop" /\ ~EarlyReturn
    /\ iniPc' = "wait"
    /\ air' = air \cup {Frame(Poll)}
    /\ iniTx' = iniClk
    /\ iniRadio' = "turn" /\ iniTimer' = RxDelay
    /\ UNCHANGED <<iniDelay, tof, ranged, iniClk, iniStatus, iniBuf, iniRx,
                   rspProgram, rspChip, resets>>

(* The rest of loop() begins Sleep(RNG_DELAY_MS).                          *)
Sleep == iniPc' = "sleep" /\ iniDelay' = SleepTime /\ iniTx' = 0

(* A frame was received.  A response is taken for the answer to the last   *)
(* poll: sequence numbers are cleared before the comparison.               *)
GotFrame ==
    /\ iniPc = "wait" /\ "good" \in iniStatus
    /\ iniStatus' = iniStatus \ {"good"}
    /\ IF iniBuf.kind = "resp"
       THEN /\ tof' = RoundTrip(Lo(iniRx), Lo(iniTx))
                      - RoundTrip(iniBuf.resp_tx_ts, iniBuf.poll_rx_ts)
            /\ ranged' = TRUE
       ELSE UNCHANGED <<tof, ranged>>
    /\ iniBuf' = Other /\ iniRx' = 0
    /\ Sleep
    /\ UNCHANGED <<iniClk, iniRadio, iniTimer, rspProgram, rspChip, air, resets>>

(* Mutant: the loop waits for a frame or an error, not for a timeout.      *)
GiveUpOnError ==
    /\ iniPc = "wait" /\ "error" \in iniStatus /\ "good" \notin iniStatus
    /\ iniStatus' = iniStatus \ {"error", "timeout"}
    /\ Sleep
    /\ UNCHANGED <<tof, ranged, iniClk, iniRadio, iniTimer, iniBuf, iniRx,
                   rspProgram, rspChip, air, resets>>

(* The reception ended in an error or a timeout.                           *)
GiveUp ==
    /\ iniPc = "wait" /\ iniStatus # {} /\ "good" \notin iniStatus
    /\ iniStatus' = iniStatus \ {"error", "timeout"}
    /\ Sleep
    /\ UNCHANGED <<tof, ranged, iniClk, iniRadio, iniTimer, iniBuf, iniRx,
                   rspProgram, rspChip, air, resets>>

(* Mutant: the delay between ranging exchanges is left out.                *)
WakeAtOnce ==
    /\ iniPc = "sleep"
    /\ iniPc' = "loop"
    /\ UNCHANGED <<iniDelay, tof, ranged, iniChip, rspProgram, rspChip, air, resets>>

(* Sleep() returns, and with it loop().                                    *)
Wake ==
    /\ iniPc = "sleep" /\ iniDelay = 0
    /\ iniPc' = "loop"
    /\ UNCHANGED <<iniDelay, tof, ranged, iniChip, rspProgram, rspChip, air, resets>>

(* The initiator is reset and starts again, with its chip.                 *)
ResetInitiator ==
    /\ resets < MaxResets /\ resets' = resets + 1
    /\ iniPc' = "setup" /\ iniDelay' = SetupTime /\ tof' = 0 /\ ranged' = FALSE
    /\ iniClk' = 0 /\ iniRadio' = "off" /\ iniTimer' = 0
    /\ iniStatus' = {} /\ iniBuf' = Other /\ iniTx' = 0 /\ iniRx' = 0
    /\ UNCHANGED <<rspProgram, rspChip, air>>

Initiator == IniSetup \/ SendPoll \/ GotFrame \/ GiveUp \/ Wake

-----------------------------------------------------------------------------
(* The responder.                                                          *)

RspSetup ==
    /\ rspPc = "setup"
    /\ rspPc' \in {"loop", "failed"}
    /\ UNCHANGED <<respMsg, lag, rspChip, iniProgram, iniChip, air, resets>>

(* dwt_rxenable, without a timeout.                                        *)
Listen ==
    /\ rspPc = "loop"
    /\ rspPc' = "wait" /\ rspRadio' = "rx"
    /\ UNCHANGED <<respMsg, lag, rspClk, rspStatus, rspBuf, rspRx, rspDx,
                   iniProgram, iniChip, air, resets>>

(* A poll was received: the answer is timed and written.                   *)
Answer ==
    /\ rspPc = "wait" /\ "good" \in rspStatus /\ rspBuf.kind = "poll"
    /\ rspStatus' = rspStatus \ {"good"}
    /\ rspDx' = RespTxTime(rspRx)
    /\ respMsg' = Resp(Lo(rspRx), Lo(RespTxTs(RespTxTime(rspRx))))
    /\ rspPc' = "start"
    /\ rspBuf' = Other /\ rspRx' = 0
    /\ UNCHANGED <<lag, rspClk, rspRadio, iniProgram, iniChip, air, resets>>

(* Any other frame is ignored.                                             *)
Ignore ==
    /\ rspPc = "wait" /\ "good" \in rspStatus /\ rspBuf.kind # "poll"
    /\ rspStatus' = rspStatus \ {"good"}
    /\ rspPc' = "loop" /\ lag' = 0
    /\ rspBuf' = Other /\ rspRx' = 0
    /\ UNCHANGED <<respMsg, rspClk, rspRadio, rspDx,
                   iniProgram, iniChip, air, resets>>

(* A reception error is cleared.                                           *)
Recover ==
    /\ rspPc = "wait" /\ "error" \in rspStatus /\ "good" \notin rspStatus
    /\ rspStatus' = rspStatus \ {"error"}
    /\ rspPc' = "loop"
    /\ UNCHANGED <<respMsg, lag, rspClk, rspRadio, rspBuf, rspRx, rspDx,
                   iniProgram, iniChip, air, resets>>

(* Ticks from now to the instant the transmission is set to.               *)
UntilDx == (DxInstant - rspClk) % TsMod

(* HPDWARN: the instant seems more than half a period away, being over;    *)
(* or TXERR: too little time is left for the preamble.                     *)
TooLate == 2 * UntilDx >= TsMod \/ UntilDx < Preamble

(* The answer is no longer to be sent.                                     *)
AnswerDone ==
    rspPc' = "loop" /\ respMsg' = Resp(0, 0) /\ rspDx' = 0

(* Mutant: what dwt_starttx returns is not looked at.                      *)
StartTxUnchecked ==
    /\ rspPc = "start"
    /\ rspRadio' = (IF TooLate THEN "off" ELSE "tx") /\ rspPc' = "sending"
    /\ lag' = 0
    /\ UNCHANGED <<respMsg, rspClk, rspStatus, rspBuf, rspRx, rspDx,
                   iniProgram, iniChip, air, resets>>

(* dwt_starttx(DWT_START_TX_DELAYED): a late one is cancelled, and the     *)
(* exchange abandoned.                                                     *)
StartTx ==
    /\ rspPc = "start"
    /\ \/ TooLate /\ rspRadio' = "off" /\ AnswerDone
       \/ ~TooLate /\ rspRadio' = "tx" /\ rspPc' = "sending"
          /\ UNCHANGED <<respMsg, rspDx>>
    /\ lag' = 0
    /\ UNCHANGED <<rspClk, rspStatus, rspBuf, rspRx,
                   iniProgram, iniChip, air, resets>>

(* The frame sent event is seen and cleared.                               *)
Sent ==
    /\ rspPc = "sending" /\ "sent" \in rspStatus
    /\ rspStatus' = rspStatus \ {"sent"}
    /\ AnswerDone
    /\ UNCHANGED <<lag, rspClk, rspRadio, rspBuf, rspRx,
                   iniProgram, iniChip, air, resets>>

(* The responder is reset and starts again, with its chip.                 *)
ResetResponder ==
    /\ resets < MaxResets /\ resets' = resets + 1
    /\ rspPc' = "setup" /\ respMsg' = Resp(0, 0) /\ lag' = 0
    /\ rspClk' = 0 /\ rspRadio' = "off"
    /\ rspStatus' = {} /\ rspBuf' = Other /\ rspRx' = 0 /\ rspDx' = 0
    /\ UNCHANGED <<iniProgram, iniChip, air>>

Responder == RspSetup \/ Listen \/ Answer \/ Ignore \/ Recover \/ StartTx \/ Sent

-----------------------------------------------------------------------------
(* The two chips and the air: external.                                    *)

IniReceives(data) ==
    /\ iniStatus' = iniStatus \cup {"good"} /\ iniBuf' = data /\ iniRx' = iniClk
    /\ iniRadio' = "off"
RspReceives(data) ==
    /\ rspStatus' = rspStatus \cup {"good"} /\ rspBuf' = data /\ rspRx' = rspClk
    /\ rspRadio' = "off" /\ lag' = 0
IniGarbled ==
    /\ iniStatus' = iniStatus \cup {"error"} /\ iniRadio' = "off"
    /\ UNCHANGED <<iniBuf, iniRx>>
RspGarbled ==
    /\ rspStatus' = rspStatus \cup {"error"} /\ rspRadio' = "off"
    /\ UNCHANGED <<rspBuf, rspRx, lag>>

(* A poll reaches the responder's antenna: received, garbled or lost.      *)
PollArrives ==
    \E f \in air :
        /\ f.left = 0 /\ f.data.kind = "poll"
        /\ air' = air \ {f}
        /\ \/ rspRadio = "rx" /\ (RspReceives(f.data) \/ RspGarbled)
           \/ UNCHANGED <<rspStatus, rspBuf, rspRx, rspRadio, lag>>
        /\ UNCHANGED <<rspClk, rspDx, rspPc, respMsg, iniProgram, iniChip, resets>>

(* A response reaches the initiator's antenna.                             *)
RespArrives ==
    \E f \in air :
        /\ f.left = 0 /\ f.data.kind = "resp"
        /\ air' = air \ {f}
        /\ \/ iniRadio = "rx" /\ (IniReceives(f.data) \/ IniGarbled)
           \/ UNCHANGED <<iniStatus, iniBuf, iniRx, iniRadio>>
        /\ UNCHANGED <<iniClk, iniTimer, iniTx, iniProgram,
                       rspProgram, rspChip, resets>>

(* A receiver that is on hears another device, or noise.                   *)
InitiatorHearsOther ==
    /\ iniRadio = "rx" /\ (IniReceives(Other) \/ IniGarbled)
    /\ UNCHANGED <<iniClk, iniTimer, iniTx, iniProgram,
                   rspProgram, rspChip, air, resets>>
ResponderHearsOther ==
    /\ rspRadio = "rx" /\ (RspReceives(Other) \/ RspGarbled)
    /\ UNCHANGED <<rspClk, rspDx, rspPc, respMsg, iniProgram, iniChip, air, resets>>

(* The initiator's receiver goes on after a poll.                          *)
ReceiverOn ==
    /\ iniRadio = "turn" /\ iniTimer = 0
    /\ iniRadio' = "rx" /\ iniTimer' = RxTimeout
    /\ UNCHANGED <<iniClk, iniStatus, iniBuf, iniTx, iniRx, iniProgram,
                   rspProgram, rspChip, air, resets>>

(* RX_FWTO runs out, no frame having come.                                 *)
ReceiverTimesOut ==
    /\ iniRadio = "rx" /\ iniTimer = 0
    /\ iniRadio' = "off" /\ iniStatus' = iniStatus \cup {"timeout"}
    /\ UNCHANGED <<iniClk, iniTimer, iniBuf, iniTx, iniRx, iniProgram,
                   rspProgram, rspChip, air, resets>>

(* The delayed transmission leaves the antenna.                            *)
DepartNow == rspRadio = "tx" /\ rspClk = (DxInstant + TxAntDelay) % TsMod
RespDeparts ==
    /\ DepartNow
    /\ air' = air \cup {Frame(respMsg)}
    /\ rspRadio' = "off" /\ rspStatus' = rspStatus \cup {"sent"}
    /\ UNCHANGED <<rspClk, rspBuf, rspRx, rspDx, rspProgram,
                   iniProgram, iniChip, resets>>

Less(n) == IF n = 0 THEN 0 ELSE n - 1

(* The responder has a poll to answer, or to look at.                      *)
Busy == rspPc = "start" \/ (rspPc = "wait" /\ "good" \in rspStatus)

(* A tick, once nothing more is due at this instant.  The initiator's      *)
(* program looks at an event within the tick: it reads no clock, and its   *)
(* time until the next poll is open anyway.                                *)
Tick ==
    /\ \A f \in air : f.left > 0
    /\ iniPc = "wait" => iniStatus = {}
    /\ iniRadio \in {"turn", "rx"} => iniTimer > 0
    /\ ~DepartNow
    /\ Busy => lag < MaxLag
    /\ iniClk' = (iniClk + 1) % TsMod /\ rspClk' = (rspClk + 1) % TsMod
    /\ air' = {[f EXCEPT !.left = @ - 1] : f \in air}
    /\ iniTimer' = Less(iniTimer) /\ iniDelay' = Less(iniDelay)
    /\ lag' = IF Busy THEN lag + 1 ELSE lag
    /\ UNCHANGED <<iniPc, tof, ranged, iniRadio, iniStatus, iniBuf, iniTx, iniRx,
                   rspPc, respMsg, rspRadio, rspStatus, rspBuf, rspRx, rspDx,
                   resets>>

(* What happens by itself, as opposed to what may also not happen.         *)
Physics == PollArrives \/ RespArrives \/ ReceiverOn \/ ReceiverTimesOut
           \/ RespDeparts \/ Tick

Next ==
    \/ Initiator \/ ResetInitiator
    \/ Responder \/ ResetResponder
    \/ Physics \/ InitiatorHearsOther \/ ResponderHearsOther

Spec == Init /\ [][Next]_vars

(* Both sketches run on, and time does not stand still.                    *)
FairSpec == Spec /\ WF_vars(Initiator) /\ WF_vars(Responder) /\ WF_vars(Physics)

-----------------------------------------------------------------------------
(* The initiator implements Ranging: whatever was lost, late or reset      *)
(* before, wherever the two clocks stand and whichever of them wraps in    *)
(* between, an exchange yields the true time of flight, its four time      *)
(* stamps being of one exchange, or leaves the last one alone.             *)
Abstract == INSTANCE Ranging WITH
    Distance <- <<2 * TimeOfFlight>>,
    Unknown <- <<>>,
    result <- IF ranged THEN <<tof>> ELSE <<>>,
    measuring <- iniPc = "wait"
ImplementsRanging == Abstract!Spec

(* An answer to the poll the initiator waits on comes while its receiver   *)
(* is on, unless another frame, or noise, has ended the reception: it is   *)
(* neither early nor, being sent or on its way, missed by a timeout.       *)
AnswerFindsReceiverOn ==
    iniPc = "wait" /\ iniStatus = {} =>
        /\ \A f \in air :
              f.left = 0 /\ f.data.kind = "resp" => iniRadio = "rx"
        /\ iniRadio = "rx" /\ iniTimer = 0 =>
              rspRadio # "tx" /\ \A f \in air : f.data.kind # "resp"

(* However often polls and answers are lost, late or garbled, noise or a   *)
(* foreign frame ends the wait, or a board is reset: every wait comes to   *)
(* an end and every end leads to the next poll, unless setup() failed.     *)
WaitEnds == []<>(iniPc \in {"loop", "failed"})
PollIsSent == []<>(iniPc \in {"wait", "failed"})

(* After anything it heard the responder listens again, also after an      *)
(* answer that came too late to be sent.                                   *)
ListensAgain == []<>(rspPc \in {"wait", "failed"})
=============================================================================
