------------------------- MODULE IRRemoteCar_proofs -------------------------
(***************************************************************************)
(* Proofs about IRRemoteCar, for any limits of the speed and the turn that *)
(* the sketch's duties can express.                                        *)
(***************************************************************************)
EXTENDS IRRemoteCar, TLAPS

-----------------------------------------------------------------------------
(* The duty of updateSpeeds2: 0 for a wheel that stands, at least 100 for  *)
(* one that turns, at most 255 within the limit of the speed.              *)
LEMMA DivBounds ==
    ASSUME NEW a \in Nat, NEW b \in Nat \ {0}, NEW c \in Nat, a =< c * b
    PROVE  a \div b \in 0..c
<1>1. a \div b \in Int /\ b * (a \div b) =< a /\ a < b * (a \div b) + b
  OBVIOUS
<1> DEFINE q == a \div b
<1>2. q \in Int /\ b * q =< c * b /\ 0 < b * q + b
  BY <1>1
<1> HIDE DEF q
<1>3. q =< c
  <2> SUFFICES ASSUME q >= c + 1 PROVE FALSE
    BY <1>2
  <2>1. b * q >= b * (c + 1)
    BY <1>2
  <2> QED
    BY <1>2, <2>1
<1>4. q >= 0
  <2> SUFFICES ASSUME q + 1 =< 0 PROVE FALSE
    BY <1>2
  <2>1. b * (q + 1) =< 0
    BY <1>2
  <2> QED
    BY <1>2, <2>1
<1> QED
  BY <1>2, <1>3, <1>4 DEF q

LEMMA DutyRange ==
    ASSUME NEW s \in Int, Abs(s) =< maxSpeed
    PROVE  /\ Duty(s) \in Duties
           /\ s = 0 => Duty(s) = 0
           /\ s # 0 => Duty(s) >= 100
<1> USE LimitsAssumption
<1>1. Abs(s) \in Nat /\ (s = 0 => Abs(s) = 0)
  BY DEF Abs
<1>2. Abs(s) * (255 - 100) \in Nat /\ Abs(s) * (255 - 100) =< 155 * maxSpeed
  BY <1>1
<1>3. (Abs(s) * (255 - 100)) \div maxSpeed \in 0..155
  BY ZenonT(40), <1>2, DivBounds
<1>4. s = 0 => (Abs(s) * (255 - 100)) \div maxSpeed = 0
  <2>1. 0 \div maxSpeed \in 0..0
    BY DivBounds
  <2> QED
    BY <1>1, <2>1
<1> QED
  BY <1>3, <1>4 DEF Duty, Duties

(* The duty grows with the size, as long as the speed has no more steps    *)
(* than the duty.                                                          *)
LEMMA DutyGrows ==
    ASSUME NEW a \in Int, NEW b \in Int, maxSpeed =< 155,
           Abs(a) < Abs(b), Abs(b) =< maxSpeed
    PROVE  Duty(a) < Duty(b)
<1> USE LimitsAssumption
<1> DEFINE x == Abs(a) * (255 - 100)  y == Abs(b) * (255 - 100)
           p == x \div maxSpeed       q == y \div maxSpeed
<1>1. Abs(a) \in Nat /\ Abs(b) \in Nat /\ b # 0
  BY DEF Abs
<1>2. x \in Nat /\ y \in Nat /\ x + maxSpeed =< y
  BY <1>1
<1>3. /\ p \in Int /\ maxSpeed * p =< x
      /\ q \in Int /\ y < maxSpeed * q + maxSpeed
  <2> HIDE DEF x, y
  <2> QED
    BY <1>2
<1>4. p < q
  <2> HIDE DEF x, y, p, q
  <2> SUFFICES ASSUME q =< p PROVE FALSE
    BY <1>3
  <2>1. maxSpeed * q =< maxSpeed * p
    BY <1>3
  <2> QED
    BY <1>2, <1>3, <2>1
<1> QED
  BY <1>1, <1>3, <1>4 DEF Duty, Abs

-----------------------------------------------------------------------------
(* The two wheels, as the numbers their duties are computed from.          *)
Speeds == -maxSpeed..maxSpeed
Turns == -maxTurn..maxTurn

LeftWheel(s, t) == IF s = 0 THEN 0 ELSE IF t > 0 THEN s ELSE Slower(s, t)
RightWheel(s, t) == IF s = 0 THEN 0 ELSE IF t > 0 THEN Slower(s, t) ELSE s

(* Neither number leaves the limit of the speed.                           *)
LEMMA WheelsInRange ==
    ASSUME NEW s \in Speeds, NEW t \in Turns
    PROVE  LeftWheel(s, t) \in Speeds /\ RightWheel(s, t) \in Speeds
BY LimitsAssumption DEF LeftWheel, RightWheel, Slower, Speeds, Turns, Abs

(* The velocity of a wheel is its duty, with the sign of its number.       *)
LEMMA VelocityOf ==
    ASSUME NEW w \in Speeds
    PROVE  /\ Velocity(Outer(w)) \in -255..255
           /\ w > 0 => Velocity(Outer(w)) = Duty(w) /\ Velocity(Outer(w)) > 0
           /\ w < 0 => Velocity(Outer(w)) = -Duty(w) /\ Velocity(Outer(w)) < 0
           /\ w = 0 => Velocity(Outer(w)) = 0
<1>1. w \in Int /\ Abs(w) =< maxSpeed
  BY LimitsAssumption DEF Speeds, Abs
<1>2. /\ Duty(w) \in 0..255
      /\ w = 0 => Duty(w) = 0
      /\ w # 0 => Duty(w) >= 100
  BY <1>1, DutyRange DEF Duties
<1>3. Velocity(Outer(w)) = IF w > 0 THEN Duty(w) ELSE -Duty(w)
  BY DEF Velocity, Outer, Signed
<1> QED
  BY <1>1, <1>2, <1>3

(* updateSpeeds2 computes these velocities and duties that fit in a byte.  *)
LEMMA MotorsOf ==
    ASSUME NEW s \in Speeds, NEW t \in Turns
    PROVE  /\ Velocity(Motors(s, t).left) = Velocity(Outer(LeftWheel(s, t)))
           /\ Velocity(Motors(s, t).right) = Velocity(Outer(RightWheel(s, t)))
           /\ Motors(s, t).left.pwm \in Duties
           /\ Motors(s, t).right.pwm \in Duties
<1>1. CASE s = 0
  <2>1. Velocity(Outer(0)) = 0 /\ 0 \in Speeds
    BY LimitsAssumption, VelocityOf DEF Speeds
  <2>2. Motors(s, t) = [left |-> [forward |-> TRUE, pwm |-> 0],
                        right |-> [forward |-> TRUE, pwm |-> 0]]
    BY <1>1 DEF Motors
  <2> QED
    BY <1>1, <2>1, <2>2
    DEF LeftWheel, RightWheel, Velocity, Signed, Duties
<1>2. CASE s # 0
  <2>1. Clamped(s) = s
    BY LimitsAssumption DEF Clamped, Speeds
  <2>2. Motors(s, t) = [left |-> Outer(LeftWheel(s, t)),
                        right |-> Outer(RightWheel(s, t))]
    BY <1>2, <2>1 DEF Motors, LeftWheel, RightWheel, Outer, Inner
  <2>3. \A w \in Speeds : Outer(w).pwm \in Duties
    BY LimitsAssumption, DutyRange DEF Outer, Speeds, Abs
  <2> QED
    BY <2>2, <2>3, WheelsInRange
<1> QED
  BY <1>1, <1>2

-----------------------------------------------------------------------------
(* What the sketch knows of the receiver: it works on a frame that stays   *)
(* in the slot, a repeat completes the command with the code heard last,   *)
(* and only a key's frame carries raw data that the switch knows.          *)
ReceiverInv ==
    /\ pc # "decode" => slot # NoFrame
    /\ decoded.command = heard
    /\ pc = "switch" /\ slot \notin Keys => decoded.raw \notin Keys

(* The wheels' target, and the pins that already follow it: none while     *)
(* the directions are to be written, the directions before the duties.     *)
Target == Motors(speed, turn)
WheelsInv ==
    /\ pc \in {"decode", "switch"} =>
          /\ Left = Velocity(Target.left) /\ Right = Velocity(Target.right)
          /\ settled = [left |-> Left, right |-> Right]
    /\ pc \in {"duties", "resume"} =>
          dirL = Facing(Target.left) /\ dirR = Facing(Target.right)
    /\ pc = "resume" => pwmL = Target.left.pwm /\ pwmR = Target.right.pwm

(* Two velocities of which one is not forward while the other is backward. *)
Steady(v, w) == ~(v > 0 /\ w < 0) /\ ~(v < 0 /\ w > 0)

(* One key changes the target, but reverses no wheel.                      *)
SteadyInv ==
    /\ Steady(settled.left, Velocity(Target.left))
    /\ Steady(settled.right, Velocity(Target.right))

CarInv == TypeOK /\ ReceiverInv /\ WheelsInv /\ SteadyInv

(* What one key does: nothing, one step of the speed, one step of the      *)
(* turn, or the stop; the limits are kept.                                 *)
LEMMA KeyStep ==
    ASSUME speed \in Speeds, turn \in Turns, NEW k
    PROVE  /\ NewSpeed(k) \in Speeds /\ NewTurn(k) \in Turns
           /\ \/ NewTurn(k) = turn /\ NewSpeed(k) \in {speed - 1, speed, speed + 1}
              \/ NewSpeed(k) = speed /\ NewTurn(k) \in {turn - 1, turn, turn + 1}
              \/ NewSpeed(k) = 0 /\ NewTurn(k) = 0
           /\ k \notin Keys => NewSpeed(k) = speed /\ NewTurn(k) = turn
BY LimitsAssumption DEF NewSpeed, NewTurn, Speeds, Turns, Keys

(* No such change reverses a wheel.                                        *)
LEMMA KeyIsSteady ==
    ASSUME NEW s \in Speeds, NEW t \in Turns, NEW u \in Speeds, NEW v \in Turns,
           \/ v = t /\ u \in {s - 1, s, s + 1}
           \/ u = s /\ v \in {t - 1, t, t + 1}
           \/ u = 0 /\ v = 0
    PROVE  /\ Steady(Velocity(Motors(s, t).left), Velocity(Motors(u, v).left))
           /\ Steady(Velocity(Motors(s, t).right), Velocity(Motors(u, v).right))
<1>1. /\ Steady(LeftWheel(s, t), LeftWheel(u, v))
      /\ Steady(RightWheel(s, t), RightWheel(u, v))
  BY LimitsAssumption
  DEF Steady, LeftWheel, RightWheel, Slower, Abs, Speeds, Turns
<1>2. ASSUME NEW a \in Speeds, NEW b \in Speeds, Steady(a, b)
      PROVE  Steady(Velocity(Outer(a)), Velocity(Outer(b)))
  <2>1. a \in Int /\ b \in Int
    BY LimitsAssumption DEF Speeds
  <2>2. /\ Velocity(Outer(a)) \in Int /\ Velocity(Outer(b)) \in Int
        /\ Velocity(Outer(a)) > 0 => a > 0
        /\ Velocity(Outer(a)) < 0 => a < 0
        /\ Velocity(Outer(b)) > 0 => b > 0
        /\ Velocity(Outer(b)) < 0 => b < 0
    <3>1. ASSUME NEW w \in Speeds
          PROVE  /\ Velocity(Outer(w)) \in Int
                 /\ Velocity(Outer(w)) > 0 => w > 0
                 /\ Velocity(Outer(w)) < 0 => w < 0
      <4> DEFINE x == Velocity(Outer(w))
      <4>1. w \in Int
        BY LimitsAssumption DEF Speeds
      <4>2. /\ x \in -255..255
            /\ w > 0 => x > 0
            /\ w < 0 => x < 0
            /\ w = 0 => x = 0
        BY VelocityOf
      <4> HIDE DEF x
      <4>3. x \in Int /\ (x > 0 => w > 0) /\ (x < 0 => w < 0)
        BY <4>1, <4>2
      <4> QED
        BY <4>3 DEF x
    <3> QED
      BY <3>1
  <2> QED
    BY <1>2, <2>1, <2>2 DEF Steady
<1> QED
  BY <1>1, <1>2, MotorsOf, WheelsInRange

(* The invariant holds when setup() returns.                               *)
LEMMA CarInvInit == Init => CarInv
<1> SUFFICES ASSUME Init PROVE CarInv
  OBVIOUS
<1>1. 0 \in Speeds /\ 0 \in Turns
  BY LimitsAssumption DEF Speeds, Turns
<1>2. Motors(0, 0) = [left |-> [forward |-> TRUE, pwm |-> 0],
                      right |-> [forward |-> TRUE, pwm |-> 0]]
  BY DEF Motors
<1>3. Velocity(Target.left) = 0 /\ Velocity(Target.right) = 0
  BY <1>2 DEF Init, Target, Velocity, Signed
<1>4. Left = 0 /\ Right = 0
  <2>1. \A n \in Int : n =< 0 /\ n >= 0 => -n = n
    OBVIOUS
  <2>2. 0 \in Int /\ 0 =< 0 /\ 0 >= 0
    OBVIOUS
  <2>3. -0 = 0
    BY <2>1, <2>2, Zenon
  <2> QED
    BY <2>3, Zenon DEF Init, Left, Right, Signed
<1>5. TypeOK
  BY <1>1 DEF Init, TypeOK, Duties, Speeds, Turns, Decoder!InitDecoder,
              Decoder!DecoderTypeOK, Decoder!Zero, Decoder!Hash
<1>6. ReceiverInv
  BY DEF Init, ReceiverInv, Decoder!InitDecoder, Decoder!Zero
<1>7. WheelsInv /\ SteadyInv
  BY <1>3, <1>4 DEF Init, WheelsInv, SteadyInv, Steady
<1> QED
  BY <1>5, <1>6, <1>7 DEF CarInv

(* decode() of any frame keeps what is known of the receiver.              *)
LEMMA DecodeKeeps ==
    ASSUME TypeOK, ReceiverInv, Decode
    PROVE  Decoder!DecoderTypeOK' /\ ReceiverInv'
<1> USE DEF TypeOK, Decoder!DecoderTypeOK, Decoder!Frames, Decoder!Zero,
            Decoder!Hash, Keys, NoFrame
<1>1. slot \in Decoder!Frames /\ slot' = slot /\ pc' = "switch"
  BY DEF Decode
<1>2. CASE slot \in Keys
  <2>1. /\ decoded' = [command |-> slot, raw |-> slot] /\ heard' = slot
        /\ lastCommand' = decoded.command
    BY <1>2 DEF Decode, Decoder!DecodeFrame, Decoder!Decoded,
                Decoder!SavedCommand
  <2> QED
    BY <1>1, <1>2, <2>1 DEF ReceiverInv
<1>3. CASE slot = "repeat"
  <2>1. /\ decoded' = [command |-> decoded.command, raw |-> "zero"]
        /\ heard' = heard /\ lastCommand' = decoded.command
    BY <1>3 DEF Decode, Decoder!DecodeFrame, Decoder!Decoded,
                Decoder!SavedCommand
  <2> QED
    BY <1>1, <1>3, <2>1 DEF ReceiverInv
<1>4. CASE slot \in {"noise", "overflow"}
  <2>1. /\ decoded' \in [command : {"zero"}, raw : {"zero", "hash"}]
        /\ heard' = "zero" /\ lastCommand' \in {decoded.command, lastCommand}
    BY <1>4 DEF Decode, Decoder!DecodeFrame, Decoder!Decoded,
                Decoder!SavedCommand
  <2> QED
    BY <1>1, <1>4, <2>1 DEF ReceiverInv
<1> QED
  BY <1>1, <1>2, <1>3, <1>4

(* Pins written from a target show its velocity.                           *)
LEMMA PinsShow ==
    /\ \A m : dirL = Facing(m) /\ pwmL = m.pwm => Left = Velocity(m)
    /\ \A m : dirR = Facing(m) /\ pwmR = m.pwm => Right = Velocity(m)
BY DEF Left, Right, Velocity, Signed, Facing

(* The velocities the target asks for are duties with a sign.              *)
LEMMA TargetInRange ==
    ASSUME TypeOK
    PROVE  /\ Velocity(Target.left) \in -255..255
           /\ Velocity(Target.right) \in -255..255
           /\ Target.left.pwm \in Duties /\ Target.right.pwm \in Duties
<1>1. speed \in Speeds /\ turn \in Turns
  BY DEF TypeOK, Speeds, Turns
<1> QED
  BY <1>1, MotorsOf, WheelsInRange, VelocityOf DEF Target

(* A target is steady with itself.                                         *)
LEMMA SteadySelf == \A v \in -255..255 : v \in Int /\ Steady(v, v)
BY DEF Steady

(* Every step keeps the invariant, one action after the other.             *)
LEMMA CarInvStep == CarInv /\ [Next]_vars => CarInv'
<1> SUFFICES ASSUME CarInv, [Next]_vars PROVE CarInv'
  OBVIOUS
<1>0. TypeOK /\ ReceiverInv /\ WheelsInv /\ SteadyInv
  BY DEF CarInv
<1> USE DEF CarInv
<1>1. CASE Decode
  <2>1. UNCHANGED <<slot, speed, turn, dirL, dirR, pwmL, pwmR, settled>>
    BY <1>1 DEF Decode, wheels
  <2>2. Decoder!DecoderTypeOK' /\ ReceiverInv'
    BY <1>0, <1>1, DecodeKeeps
  <2>3. pc = "decode" /\ pc' = "switch"
    BY <1>1 DEF Decode
  <2>4. WheelsInv' /\ SteadyInv'
    BY <1>0, <2>1, <2>3 DEF WheelsInv, SteadyInv, Target, Left, Right
  <2> QED
    BY <1>0, <2>1, <2>2, <2>3, <2>4 DEF TypeOK
<1>2. CASE SwitchKey
  <2>1. /\ UNCHANGED <<slot, decoded, lastCommand, heard>>
        /\ UNCHANGED <<dirL, dirR, pwmL, pwmR, settled>>
        /\ pc = "switch" /\ pc' = "directions"
        /\ speed' = NewSpeed(decoded.raw) /\ turn' = NewTurn(decoded.raw)
    BY <1>2 DEF SwitchKey, receiver, decoder, wheels
  <2>2. speed \in Speeds /\ turn \in Turns
    BY <1>0 DEF TypeOK, Speeds, Turns
  <2>3. /\ speed' \in Speeds /\ turn' \in Turns
        /\ \/ turn' = turn /\ speed' \in {speed - 1, speed, speed + 1}
           \/ speed' = speed /\ turn' \in {turn - 1, turn, turn + 1}
           \/ speed' = 0 /\ turn' = 0
    BY <2>1, <2>2, KeyStep
  <2>4. SteadyInv'
    <3>1. /\ Steady(Velocity(Target.left), Velocity(Target.left)')
          /\ Steady(Velocity(Target.right), Velocity(Target.right)')
      BY <2>2, <2>3, KeyIsSteady DEF Target
    <3>2. /\ settled.left = Velocity(Target.left)
          /\ settled.right = Velocity(Target.right)
      BY <1>0, <2>1 DEF WheelsInv
    <3> QED
      BY <2>1, <3>1, <3>2 DEF SteadyInv
  <2>5. ReceiverInv' /\ WheelsInv'
    BY <1>0, <2>1 DEF ReceiverInv, WheelsInv
  <2>6. TypeOK'
    BY <1>0, <2>1, <2>3 DEF TypeOK, Decoder!DecoderTypeOK, Speeds, Turns
  <2> QED
    BY <2>4, <2>5, <2>6
<1>3. CASE WriteDirections
  <2>1. /\ UNCHANGED <<slot, decoded, lastCommand, heard>>
        /\ UNCHANGED <<speed, turn, pwmL, pwmR, settled>>
        /\ pc = "directions" /\ pc' = "duties"
        /\ dirL' = Facing(Target.left) /\ dirR' = Facing(Target.right)
    BY <1>3 DEF WriteDirections, receiver, decoder, Target
  <2>2. ReceiverInv' /\ WheelsInv' /\ SteadyInv'
    BY <1>0, <2>1 DEF ReceiverInv, WheelsInv, SteadyInv, Target
  <2>3. TypeOK'
    BY <1>0, <2>1 DEF TypeOK, Decoder!DecoderTypeOK, Facing
  <2> QED
    BY <2>2, <2>3
<1>4. CASE WriteDuties
  <2>1. /\ UNCHANGED <<slot, decoded, lastCommand, heard>>
        /\ UNCHANGED <<speed, turn, dirL, dirR, settled>>
        /\ pc = "duties" /\ pc' = "resume"
        /\ pwmL' = Target.left.pwm /\ pwmR' = Target.right.pwm
    BY <1>4 DEF WriteDuties, receiver, decoder, Target
  <2>2. ReceiverInv' /\ WheelsInv' /\ SteadyInv'
    BY <1>0, <2>1 DEF ReceiverInv, WheelsInv, SteadyInv, Target
  <2>3. TypeOK'
    <3>1. pwmL' \in Duties /\ pwmR' \in Duties
      BY <1>0, <2>1, TargetInRange
    <3> QED
      BY <1>0, <2>1, <3>1 DEF TypeOK, Decoder!DecoderTypeOK
  <2> QED
    BY <2>2, <2>3
<1>5. CASE Resume
  <2>1. /\ UNCHANGED <<decoded, lastCommand, heard>>
        /\ UNCHANGED <<speed, turn, dirL, dirR, pwmL, pwmR>>
        /\ pc = "resume" /\ pc' = "decode" /\ slot' = NoFrame
        /\ settled' = [left |-> Left, right |-> Right]
    BY <1>5 DEF Resume, decoder, wheels
  <2>2. Left = Velocity(Target.left) /\ Right = Velocity(Target.right)
    BY <1>0, <2>1, PinsShow DEF WheelsInv
  <2>3. Target' = Target /\ Left' = Left /\ Right' = Right
    BY <2>1 DEF Target, Left, Right
  <2>4. ReceiverInv' /\ WheelsInv'
    BY <1>0, <2>1, <2>2, <2>3 DEF ReceiverInv, WheelsInv
  <2>5. Left \in -255..255 /\ Right \in -255..255
    BY <1>0, <2>2, TargetInRange
  <2>6. SteadyInv'
    BY <2>1, <2>2, <2>3, <2>5, SteadySelf DEF SteadyInv
  <2>7. TypeOK'
    BY <1>0, <2>1, <2>5 DEF TypeOK, Decoder!DecoderTypeOK, Decoder!Frames
  <2> QED
    BY <2>4, <2>6, <2>7
<1>6. ASSUME NEW f \in Decoder!Frames, Send(f) PROVE CarInv'
  <2>1. /\ UNCHANGED <<decoded, lastCommand, heard, pc, speed, turn>>
        /\ UNCHANGED <<dirL, dirR, pwmL, pwmR, settled>>
        /\ slot = NoFrame /\ slot' = f
    BY <1>6 DEF Send, decoder, wheels
  <2>2. pc = "decode"
    BY <1>0, <2>1 DEF ReceiverInv
  <2>3. ReceiverInv' /\ WheelsInv' /\ SteadyInv'
    BY <1>0, <2>1, <2>2
    DEF ReceiverInv, WheelsInv, SteadyInv, Target, Left, Right
  <2>4. TypeOK'
    BY <1>0, <1>6, <2>1 DEF TypeOK, Decoder!DecoderTypeOK
  <2> QED
    BY <2>3, <2>4
<1>7. CASE UNCHANGED vars
  <2>1. /\ UNCHANGED <<slot, decoded, lastCommand, heard, pc, speed, turn>>
        /\ UNCHANGED <<dirL, dirR, pwmL, pwmR, settled>>
    BY <1>7 DEF vars, receiver, decoder, wheels
  <2>2. ReceiverInv' /\ WheelsInv' /\ SteadyInv'
    BY <1>0, <2>1 DEF ReceiverInv, WheelsInv, SteadyInv, Target, Left, Right
  <2>3. TypeOK'
    BY <1>0, <2>1 DEF TypeOK, Decoder!DecoderTypeOK
  <2> QED
    BY <2>2, <2>3
<1> QED
  BY <1>1, <1>2, <1>3, <1>4, <1>5, <1>6, <1>7 DEF Next, IR_Control

(* The inductive invariant of the car.                                     *)
LEMMA CarInvariant == Spec => []CarInv
BY CarInvInit, CarInvStep, PTL DEF Spec

-----------------------------------------------------------------------------
(* Speed, turn, duties and decoded data stay within their types: no duty   *)
(* overflows the byte of analogWrite.                                      *)
THEOREM CarTypeCorrect == Spec => []TypeOK
<1>1. CarInv => TypeOK
  BY DEF CarInv
<1> QED
  BY <1>1, CarInvariant, PTL

(* A repeat names the key that was heard last.                             *)
THEOREM RepeatNamesKey == Spec => []RepeatNamesHeardKey
<1>1. CarInv => RepeatNamesHeardKey
  BY DEF CarInv, ReceiverInv, RepeatNamesHeardKey
<1> QED
  BY <1>1, CarInvariant, PTL

(* Only a frame that carries a code changes the speed or the turn.         *)
THEOREM KeysCount == Spec => OnlyKeysCount
<1>1. CarInv /\ [Next]_vars =>
        [<<speed, turn>>' # <<speed, turn>> => slot \in Keys]_vars
  <2> SUFFICES ASSUME CarInv, Next, <<speed, turn>>' # <<speed, turn>>
               PROVE  slot \in Keys
    OBVIOUS
  <2>1. SwitchKey
    BY DEF Next, IR_Control, Decode, WriteDirections, WriteDuties, Resume, Send
  <2>2. speed \in Speeds /\ turn \in Turns
    BY DEF CarInv, TypeOK, Speeds, Turns
  <2>3. decoded.raw \in Keys
    BY <2>1, <2>2, KeyStep DEF SwitchKey
  <2> QED
    BY <2>1, <2>3 DEF CarInv, ReceiverInv, SwitchKey
<1> QED
  BY <1>1, CarInvariant, PTL DEF Spec, OnlyKeysCount

(* Two velocities that are steady have a product that is not negative.     *)
LEMMA SteadyProduct ==
    ASSUME NEW v \in Int, NEW w \in Int, Steady(v, w)
    PROVE  v * w >= 0
<1>1. CASE v >= 0 /\ w >= 0
  BY <1>1
<1>2. CASE v =< 0 /\ w =< 0
  BY <1>2
<1> QED
  BY <1>1, <1>2 DEF Steady

(* No frame turns a wheel from forward to backward or back.                *)
THEOREM NoReversal == Spec => NoSuddenReversal
<1>1. CarInv /\ [Next]_vars =>
        [/\ settled.left * settled'.left >= 0
         /\ settled.right * settled'.right >= 0]_vars
  <2> SUFFICES ASSUME CarInv, Next
               PROVE  /\ settled.left * settled'.left >= 0
                      /\ settled.right * settled'.right >= 0
    OBVIOUS
  <2>0. /\ settled.left \in -255..255 /\ settled.right \in -255..255
        /\ settled'.left \in -255..255 /\ settled'.right \in -255..255
    <3>1. CarInv'
      BY CarInvStep
    <3> QED
      BY <3>1 DEF CarInv, TypeOK
  <2>1. CASE Resume
    <3>1. /\ settled' = [left |-> Left, right |-> Right]
          /\ Left = Velocity(Target.left) /\ Right = Velocity(Target.right)
      BY <2>1, PinsShow DEF Resume, CarInv, WheelsInv
    <3>2. /\ Steady(settled.left, settled'.left)
          /\ Steady(settled.right, settled'.right)
      BY <3>1 DEF CarInv, SteadyInv
    <3>3. /\ settled.left \in Int /\ settled.right \in Int
          /\ settled'.left \in Int /\ settled'.right \in Int
      BY <2>0, SteadySelf, Zenon
    <3> QED
      BY <3>2, <3>3, SteadyProduct, Zenon
  <2>2. CASE settled' = settled
    <3> DEFINE v == settled.left  w == settled.right
    <3>1. Steady(v, v) /\ Steady(w, w) /\ v \in Int /\ w \in Int
      BY <2>0, SteadySelf, Zenon
    <3>2. v * v >= 0 /\ w * w >= 0
      BY <3>1, SteadyProduct, Zenon
    <3> QED
      BY <2>2, <3>2, Zenon
  <2>3. Resume \/ settled' = settled
    BY DEF Next, IR_Control, Decode, SwitchKey, WriteDirections, WriteDuties,
           Send
  <2> QED
    BY <2>1, <2>2, <2>3
<1> QED
  BY <1>1, CarInvariant, PTL DEF Spec, NoSuddenReversal

-----------------------------------------------------------------------------
(* The velocity grows with its number.                                     *)
LEMMA VelocityGrows ==
    ASSUME NEW a \in Speeds, NEW b \in Speeds, maxSpeed =< 155, a < b
    PROVE  Velocity(Outer(a)) < Velocity(Outer(b))
<1>1. a \in Int /\ b \in Int /\ Abs(a) =< maxSpeed /\ Abs(b) =< maxSpeed
  BY LimitsAssumption DEF Speeds, Abs
<1>2. /\ Velocity(Outer(a)) \in Int /\ Velocity(Outer(b)) \in Int
      /\ Duty(a) \in Int /\ Duty(b) \in Int
  <2>1. ASSUME NEW w \in Speeds PROVE Velocity(Outer(w)) \in Int
    BY <2>1, VelocityOf
  <2>2. Duty(a) \in Duties /\ Duty(b) \in Duties
    BY <1>1, DutyRange
  <2> QED
    BY <2>1, <2>2 DEF Duties
<1>3. CASE a >= 0
  <2>1. Duty(a) < Duty(b)
    BY <1>1, <1>3, DutyGrows DEF Abs
  <2> QED
    BY <1>1, <1>2, <1>3, <2>1, VelocityOf
<1>4. CASE b =< 0
  <2>1. Duty(b) < Duty(a)
    BY <1>1, <1>4, DutyGrows DEF Abs
  <2> QED
    BY <1>1, <1>2, <1>4, <2>1, VelocityOf
<1>5. CASE a < 0 /\ b > 0
  BY <1>2, <1>5, VelocityOf
<1> QED
  BY <1>1, <1>3, <1>4, <1>5

LEMMA SignOfProduct ==
    ASSUME NEW m \in Int, NEW n \in Int
    PROVE  /\ (m > 0 /\ n > 0) \/ (m < 0 /\ n < 0) => m * n > 0
           /\ m # 0 /\ n # 0 => m * n # 0
OBVIOUS

(* As long as every step of the speed is a step of the duty, the car turns *)
(* to the side of the keys pressed when it goes forward, its wheels differ *)
(* when it backs up with a turn, and it runs straight without one.  The    *)
(* sketch has 6 steps; with more than 155 two steps can share a duty.      *)
THEOREM SteersAsTold ==
    ASSUME maxSpeed =< 155
    PROVE  Spec => []SteeringFollowsKeys
<1>1. CarInv => SteeringFollowsKeys
  <2> SUFFICES ASSUME CarInv, pc = "decode"
               PROVE  /\ speed > 0 /\ turn # 0 => turn * (Left - Right) > 0
                      /\ speed < 0 /\ turn # 0 => Left # Right
                      /\ speed * turn = 0 => Left = Right
    BY DEF SteeringFollowsKeys
  <2> DEFINE l == LeftWheel(speed, turn)  r == RightWheel(speed, turn)
  <2>1. speed \in Speeds /\ turn \in Turns /\ speed \in Int /\ turn \in Int
    BY LimitsAssumption DEF CarInv, TypeOK, Speeds, Turns
  <2>2. Left = Velocity(Outer(l)) /\ Right = Velocity(Outer(r))
    BY <2>1, MotorsOf DEF CarInv, WheelsInv, Target
  <2>3. l \in Speeds /\ r \in Speeds
    BY <2>1, WheelsInRange
  <2>4. Left \in Int /\ Right \in Int
    BY <2>2, <2>3, VelocityOf
  <2>5. /\ l < r => Left < Right
        /\ r < l => Right < Left
        /\ l = r => Left = Right
    BY <2>2, <2>3, VelocityGrows
  <2>6. /\ speed = 0 \/ turn = 0 => l = r
        /\ speed > 0 /\ turn > 0 => r < l
        /\ speed > 0 /\ turn < 0 => l < r
        /\ speed < 0 /\ turn > 0 => l < r
        /\ speed < 0 /\ turn < 0 => r < l
    BY <2>1 DEF LeftWheel, RightWheel, Slower, Abs
  <2> HIDE DEF l, r
  <2>7. CASE speed = 0 \/ turn = 0
    BY <2>1, <2>5, <2>6, <2>7
  <2>8. CASE speed # 0 /\ turn # 0
    <3>1. speed * turn # 0
      BY <2>1, <2>8, SignOfProduct
    <3>2. ASSUME speed > 0 PROVE turn * (Left - Right) > 0
      <4>1. /\ Left - Right \in Int
            /\ turn > 0 => Left - Right > 0
            /\ turn < 0 => Left - Right < 0
        BY <2>1, <2>4, <2>5, <2>6, <3>2
      <4> QED
        BY <2>1, <2>8, <4>1, SignOfProduct
    <3>3. ASSUME speed < 0 PROVE Left # Right
      BY <2>1, <2>4, <2>5, <2>6, <2>8, <3>3
    <3> QED
      BY <3>1, <3>2, <3>3
  <2> QED
    BY <2>1, <2>7, <2>8
<1> QED
  BY <1>1, CarInvariant, PTL

-----------------------------------------------------------------------------
(* The car takes a frame when it decodes it and gives it back by resume(); *)
(* every other step leaves the mailbox alone, or a frame comes in.         *)
THEOREM CarUsesMailbox == Spec => Mailbox!SafeSpec
<1>1. Init => Mailbox!Init
  BY DEF Init, Mailbox!Init
<1>2. CarInv /\ [Next]_vars => [Mailbox!Next]_Mailbox!vars
  <2> SUFFICES ASSUME CarInv, [Next]_vars
               PROVE  Mailbox!Next \/ UNCHANGED Mailbox!vars
    OBVIOUS
  <2>1. CASE Decode
    BY <2>1 DEF Decode, Mailbox!Next, Mailbox!Take
  <2>2. CASE Resume
    BY <2>2 DEF Resume, Mailbox!Next, Mailbox!Release
  <2>3. ASSUME NEW f \in Decoder!Frames, Send(f)
        PROVE  Mailbox!Next
    BY <2>3 DEF Send, Mailbox!Next, Mailbox!Deliver
  <2>4. CASE SwitchKey \/ WriteDirections \/ WriteDuties \/ UNCHANGED vars
    BY <2>4 DEF SwitchKey, WriteDirections, WriteDuties, vars, receiver,
                Mailbox!vars
  <2> QED
    BY <2>1, <2>2, <2>3, <2>4 DEF Next, IR_Control
<1> QED
  BY <1>1, <1>2, CarInvariant, PTL DEF Spec, Mailbox!SafeSpec
=============================================================================
