---------------------------- MODULE IRRemoteCar ----------------------------
(***************************************************************************)
(* The remote controlled car of robot_car/Tutorial/Projects: every frame   *)
(* the infrared receiver hands over changes the speed or the turn by one   *)
(* step, and the two wheels are driven from the two numbers.  The receiver *)
(* is used through its mailbox: a frame sent while an earlier one has not  *)
(* been given back is lost.  Its decoder is that of NECDecoder.            *)
(***************************************************************************)
EXTENDS Integers

CONSTANTS maxSpeed, maxTurn

(* With a larger turn the slower wheel's duty would not fit in its byte.   *)
ASSUME LimitsAssumption ==
    maxSpeed \in Nat \ {0} /\ maxTurn \in 0..maxSpeed+1

(* Codes of the remote control; "ESC" is defined, and handled like any     *)
(* other key.                                                              *)
Keys == {"Go", "Back", "Left", "Right", "Stop", "ESC"}
NoFrame == "empty"

VARIABLES
    slot,        \* the frame the receiver holds
    pc,          \* the step of IR_Control that comes next
    speed, turn,
    dirL, dirR,  \* direction pins in1/in2 and in3/in4
    pwmL, pwmR,  \* duty of enA and enB
    decoded, lastCommand, heard,  \* those of NECDecoder
    settled      \* history: the wheels when the last frame was done with

Decoder == INSTANCE NECDecoder WITH Codes <- Keys

decoder == <<decoded, lastCommand, heard>>
receiver == <<slot, decoder>>
wheels == <<dirL, dirR, pwmL, pwmR>>
vars == <<receiver, pc, speed, turn, wheels, settled>>

Duties == 0..255

(* The numbers stay within the remote control's limits, the duties within  *)
(* an unsigned char.                                                       *)
TypeOK ==
    /\ slot \in Decoder!Frames \cup {NoFrame}
    /\ Decoder!DecoderTypeOK
    /\ pc \in {"decode", "switch", "directions", "duties", "resume"}
    /\ speed \in -maxSpeed..maxSpeed
    /\ turn \in -maxTurn..maxTurn
    /\ dirL \in {"brake", "forward", "backward"}
    /\ dirR \in {"brake", "forward", "backward"}
    /\ pwmL \in Duties /\ pwmR \in Duties
    /\ settled \in [left : -255..255, right : -255..255]

(* setup() ends with stop().                                               *)
Init ==
    /\ slot = NoFrame /\ Decoder!InitDecoder /\ pc = "decode"
    /\ speed = 0 /\ turn = 0
    /\ dirL = "brake" /\ dirR = "brake" /\ pwmL = 0 /\ pwmR = 0
    /\ settled = [left |-> 0, right |-> 0]

-----------------------------------------------------------------------------
(* updateSpeeds2.                                                          *)
Abs(n) == IF n < 0 THEN -n ELSE n
Clamped(s) == IF s > maxSpeed THEN maxSpeed
              ELSE IF s < -maxSpeed THEN -maxSpeed ELSE s

(* The float product of the sketch, cut to an integer.                     *)
Duty(s) == (IF s # 0 THEN 100 ELSE 0) + (Abs(s) * (255 - 100)) \div maxSpeed

(* Mutant: the turn keeps its sign.                                        *)
SlowerSigned(s, t) == s - (IF s > 0 THEN t ELSE -t)

Slower(s, t) == s - (IF s > 0 THEN Abs(t) ELSE -Abs(t))

(* A wheel's direction and duty; the slower wheel may be turned round.     *)
Outer(s) == [forward |-> s > 0, pwm |-> Duty(s)]
Inner(s, t) == [forward |-> Slower(s, t) > 0, pwm |-> Duty(Slower(s, t))]

Motors(spd, t) ==
    LET s == Clamped(spd)
        halt == [forward |-> TRUE, pwm |-> 0]
    IN  IF spd = 0 THEN [left |-> halt, right |-> halt]
        ELSE IF t > 0 THEN [left |-> Outer(s), right |-> Inner(s, t)]
        ELSE [left |-> Inner(s, t), right |-> Outer(s)]

(* What a wheel does: its duty, negative when it turns backward.           *)
Signed(forward, pwm) == IF forward THEN pwm ELSE -pwm
Velocity(m) == Signed(m.forward, m.pwm)

-----------------------------------------------------------------------------
(* A key is pressed or held, or there is noise; the frame is lost unless   *)
(* the receiver is free.                                                   *)
Send(f) ==
    /\ slot = NoFrame /\ slot' = f
    /\ UNCHANGED <<decoder, pc, speed, turn, wheels, settled>>

(* Mutant: resume() as soon as the frame is decoded.                       *)
DecodeResumes ==
    /\ pc = "decode" /\ slot # NoFrame
    /\ Decoder!DecodeFrame(slot)
    /\ slot' = NoFrame
    /\ pc' = "switch"
    /\ UNCHANGED <<speed, turn, wheels, settled>>

Decode ==
    /\ pc = "decode" /\ slot # NoFrame
    /\ Decoder!DecodeFrame(slot)
    /\ pc' = "switch"
    /\ UNCHANGED <<slot, speed, turn, wheels, settled>>

(* Mutants: the limit is passed by one; Back turns the car round at once;  *)
(* Stop only straightens the wheels.                                       *)
NewSpeedOneMore(k) ==
    CASE k = "Go" /\ speed =< maxSpeed -> speed + 1
      [] k = "Back" /\ speed > -maxSpeed -> speed - 1
      [] k = "Stop" -> 0
      [] OTHER -> speed
NewSpeedReverse(k) ==
    CASE k = "Go" /\ speed < maxSpeed -> speed + 1
      [] k = "Back" -> IF speed > 0 THEN -speed
                       ELSE IF speed > -maxSpeed THEN speed - 1 ELSE speed
      [] k = "Stop" -> 0
      [] OTHER -> speed
NewSpeedKept(k) ==
    CASE k = "Go" /\ speed < maxSpeed -> speed + 1
      [] k = "Back" /\ speed > -maxSpeed -> speed - 1
      [] OTHER -> speed

NewSpeed(k) ==
    CASE k = "Go" /\ speed < maxSpeed -> speed + 1
      [] k = "Back" /\ speed > -maxSpeed -> speed - 1
      [] k = "Stop" -> 0
      [] OTHER -> speed

NewTurn(k) ==
    CASE k = "Left" /\ turn > -maxTurn -> turn - 1
      [] k = "Right" /\ turn < maxTurn -> turn + 1
      [] k = "Stop" -> 0
      [] OTHER -> turn

(* The switch of IR_Control on decodedRawData.                             *)
SwitchKey ==
    /\ pc = "switch"
    /\ speed' = NewSpeed(decoded.raw) /\ turn' = NewTurn(decoded.raw)
    /\ pc' = "directions"
    /\ UNCHANGED <<receiver, wheels, settled>>

(* updateSpeeds writes the direction pins first, under the old duties.     *)
Facing(m) == IF m.forward THEN "forward" ELSE "backward"
WriteDirections ==
    /\ pc = "directions"
    /\ LET m == Motors(speed, turn)
       IN  dirL' = Facing(m.left) /\ dirR' = Facing(m.right)
    /\ pc' = "duties"
    /\ UNCHANGED <<receiver, speed, turn, pwmL, pwmR, settled>>

WriteDuties ==
    /\ pc = "duties"
    /\ LET m == Motors(speed, turn)
       IN  pwmL' = m.left.pwm /\ pwmR' = m.right.pwm
    /\ pc' = "resume"
    /\ UNCHANGED <<receiver, speed, turn, dirL, dirR, settled>>

Left == Signed(dirL = "forward", pwmL)
Right == Signed(dirR = "forward", pwmR)

(* IrReceiver.resume().                                                    *)
Resume ==
    /\ pc = "resume"
    /\ slot' = NoFrame
    /\ settled' = [left |-> Left, right |-> Right]
    /\ pc' = "decode"
    /\ UNCHANGED <<decoder, speed, turn, wheels>>

IR_Control == Decode \/ SwitchKey \/ WriteDirections \/ WriteDuties \/ Resume

Next == IR_Control \/ \E f \in Decoder!Frames : Send(f)

Spec == Init /\ [][Next]_vars
FairSpec == Spec /\ WF_vars(IR_Control)

-----------------------------------------------------------------------------
(* Whatever keys come in whatever order, a wheel never goes from forward   *)
(* to backward, or back, by one frame: it stands still in between.         *)
NoSuddenReversal ==
    [][/\ settled.left * settled'.left >= 0
       /\ settled.right * settled'.right >= 0]_vars

(* The wheels agree with the keys pressed: going forward the car's nose    *)
(* goes to the side of the turn, also where the inner wheel stands or is   *)
(* turned round; backing up with a turn the wheels differ; without a turn  *)
(* both do the same.                                                       *)
SteeringFollowsKeys ==
    pc = "decode" =>
        /\ speed > 0 /\ turn # 0 => turn * (Left - Right) > 0
        /\ speed < 0 /\ turn # 0 => Left # Right
        /\ speed * turn = 0 => Left = Right

(* The comments of updateSpeeds2 on backing up: "left goes slightly        *)
(* slower" with a turn to the right, "right goes slightly slower" with one *)
(* to the left.  The code slows down the other wheel.                      *)
BackingSlowsSideNamed ==
    pc = "decode" /\ speed < 0 =>
        /\ turn > 0 => Abs(Left) < Abs(Right)
        /\ turn < 0 => Abs(Right) < Abs(Left)

(* Holding a key, noise and an overflow never count as pressing it again:  *)
(* the speed and the turn change only by a frame that carries a code.      *)
OnlyKeysCount ==
    [][<<speed, turn>>' # <<speed, turn>> => slot \in Keys]_vars

(* A repeat names the key that was heard last, through any number of       *)
(* repeats; after noise or an overflow it names none.                      *)
RepeatNamesHeardKey ==
    pc # "decode" /\ slot = "repeat" => decoded.command = heard

(* A Stop that reaches the receiver halts both wheels.                     *)
StopHalts == slot = "Stop" ~> pwmL = 0 /\ pwmR = 0

(* The receiver as the sketch uses it.                                     *)
Mailbox == INSTANCE FrameMailbox WITH
    Frames <- Decoder!Frames, reading <- pc # "decode"

(* The car keeps to the mailbox that IRReceiver implements: it never works *)
(* on a frame it has given back, and every frame it takes it gives back.   *)
UsesMailbox == Mailbox!Spec
=============================================================================
