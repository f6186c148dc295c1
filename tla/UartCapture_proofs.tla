------------------------- MODULE UartCapture_proofs -------------------------
(***************************************************************************)
(* A line that did not have to wait for another is one message.            *)
(***************************************************************************)
EXTENDS UartCapture, Residues, SequenceTheorems

Since == (millis - lastByteTime) % MillisMod

NextPlace(p) == IF p > BUFFER_SIZE THEN p ELSE p + 1

AllPrompt(s) == \A i \in 1..Len(s) : s[i].prompt

-----------------------------------------------------------------------------
(* What holds of every byte, prompt or not.                                *)
LagInv == pc # "print" => lag =< MaxLag

(* The clock is looked at before it could go round.                        *)
SinceInv ==
    buffer # <<>> => /\ pc = "available" => Since =< messageTimeout + lag
                     /\ pc = "check" => Since =< messageTimeout + MaxLag + lag

(* No byte came since lastByteTime but those in the driver.                *)
SilenceInv ==
    buffer # <<>> /\ fifo = <<>> /\ pc \in {"available", "check"} =>
        pause >= Since \/ pause = Between

(* A byte that slips in before the look at the clock came early, or begins *)
(* a message.                                                              *)
SlipInv ==
    pc = "check" /\ buffer # <<>> /\ fifo # <<>> =>
        Since =< InMessage + lag \/ fifo[1].place = 1

(* While a line is printed, only the next message can come.                *)
PrintInv ==
    pc = "print" => IF fifo = <<>> THEN pause > InMessage
                                   ELSE fifo[1].place = 1

(* The bytes that were kept waiting are the oldest.                        *)
WaitersFirst ==
    \A j \in 1..Len(fifo) : ~fifo[j].prompt =>
        /\ \A i \in 1..j : ~fifo[i].prompt
        /\ buffer = <<>> \/ ~buffer[1].prompt

-----------------------------------------------------------------------------
(* While only prompt bytes are held and none is printed.                   *)
BufferWhole == \A i \in 1..Len(buffer) : buffer[i].place = i

FifoFits == Len(fifo) =< lag * BytesPerTick + burst

RecentByte == fifo # <<>> \/ pc = "stamp" => pause =< lag

LookedInTime ==
    fifo = <<>> /\ buffer # <<>> /\ pc \in {"available", "check"} =>
        pause =< Since + MaxLag

NothingWaits ==
    fifo = <<>> => IF buffer = <<>> THEN pause > InMessage
                   ELSE NextPlace(place) = Len(buffer) + 1

FifoInOrder ==
    fifo # <<>> =>
        /\ fifo[Len(fifo)].place = place
        /\ \A i \in 1..Len(fifo)-1 : fifo[i+1].place = NextPlace(fifo[i].place)

FifoContinues ==
    fifo # <<>> => \/ fifo[1].place = Len(buffer) + 1
                   \/ /\ pc = "check" /\ buffer # <<>>
                      /\ Since > messageTimeout /\ fifo[1].place = 1

WholeInv ==
    pc # "print" /\ AllPrompt(buffer) /\ AllPrompt(fifo) =>
        /\ BufferWhole /\ FifoFits /\ RecentByte /\ LookedInTime
        /\ NothingWaits /\ FifoInOrder /\ FifoContinues

LineWhole == pc = "print" /\ AllPrompt(buffer) => BufferWhole

UartInv ==
    /\ TypeOK /\ LagInv /\ SinceInv /\ SilenceInv /\ SlipInv /\ PrintInv
    /\ WaitersFirst /\ WholeInv /\ LineWhole

-----------------------------------------------------------------------------
LEMMA Sizes ==
    /\ BUFFER_SIZE \in Nat /\ BUFFER_SIZE >= 1 /\ FifoSize \in Nat /\ FifoSize >= 1
    /\ messageTimeout \in Nat /\ InMessage \in Nat /\ Between \in Nat
    /\ MaxLag \in Nat /\ PrintLag \in Nat /\ BytesPerTick \in Nat
    /\ MillisMod \in Nat \ {0} /\ messageTimeout + 2 * MaxLag < MillisMod
    /\ InMessage + MaxLag =< messageTimeout
    /\ Between > messageTimeout + 2 * MaxLag
  BY SizesAssumption, TimesAssumption

(* A sequence is bounded when its length is.                               *)
LEMMA Bounded ==
    ASSUME NEW S, NEW n \in Nat, NEW s
    PROVE  s \in BoundedSeq(S, n) <=> s \in Seq(S) /\ Len(s) =< n
<1>1. ASSUME s \in BoundedSeq(S, n) PROVE s \in Seq(S) /\ Len(s) =< n
  <2>1. PICK m \in 0..n : s \in [1..m -> S]
    BY <1>1 DEF BoundedSeq, SeqOf
  <2>2. m \in Nat
    BY <2>1
  <2>3. s \in Seq(S)
    BY <2>1, <2>2, SeqDef
  <2>4. Len(s) = m
    BY <2>1, <2>2, <2>3, LenProperties
  <2> QED
    BY <2>1, <2>3, <2>4
<1>2. ASSUME s \in Seq(S), Len(s) =< n PROVE s \in BoundedSeq(S, n)
  <2>1. Len(s) \in Nat /\ s \in [1..Len(s) -> S]
    BY <1>2, LenProperties
  <2>2. Len(s) \in 0..n
    BY <2>1, <1>2
  <2> QED
    BY <2>1, <2>2 DEF BoundedSeq, SeqOf
<1> QED
  BY <1>1, <1>2

LEMMA EmptyBounded ==
    ASSUME NEW S, NEW n \in Nat
    PROVE  <<>> \in BoundedSeq(S, n)
<1>1. <<>> \in Seq(S) /\ Len(<<>>) = 0
  BY EmptySeq
<1>2. Len(<<>>) =< n
  BY <1>1
<1> QED
  BY <1>1, <1>2, Bounded

(* What the prover needs of the types.                                     *)
Shape ==
    /\ pc \in {"available", "stamp", "check", "print"}
    /\ buffer \in Seq(Bytes) /\ Len(buffer) \in 0..BUFFER_SIZE
    /\ fifo \in Seq(Bytes) /\ Len(fifo) \in 0..FifoSize
    /\ lastByteTime \in 0..MillisMod-1 /\ millis \in 0..MillisMod-1
    /\ pause \in 0..Between /\ place \in 1..BUFFER_SIZE+1
    /\ burst \in 0..BytesPerTick /\ lag \in Nat
    /\ Place \in 1..BUFFER_SIZE+1
    /\ (buffer = <<>>) = (Len(buffer) = 0) /\ (fifo = <<>>) = (Len(fifo) = 0)

LEMMA ShapeOf == TypeOK => Shape
<1> SUFFICES ASSUME TypeOK PROVE Shape
  OBVIOUS
<1>1. buffer \in Seq(Bytes) /\ Len(buffer) =< BUFFER_SIZE
  BY Sizes, Bounded DEF TypeOK
<1>2. fifo \in Seq(Bytes) /\ Len(fifo) =< FifoSize
  BY Sizes, Bounded DEF TypeOK
<1>3. Len(buffer) \in Nat /\ Len(fifo) \in Nat
  BY <1>1, <1>2, LenProperties
<1>4. (buffer = <<>>) = (Len(buffer) = 0) /\ (fifo = <<>>) = (Len(fifo) = 0)
  BY <1>1, <1>2, EmptySeq
<1>5. lag \in Nat
  BY Sizes DEF TypeOK
<1>6. place \in 1..BUFFER_SIZE+1
  BY DEF TypeOK, Places
<1>7. Place \in 1..BUFFER_SIZE+1
  BY <1>6, Sizes DEF Place
<1>8. /\ pc \in {"available", "stamp", "check", "print"}
      /\ lastByteTime \in 0..MillisMod-1 /\ millis \in 0..MillisMod-1
      /\ pause \in 0..Between /\ burst \in 0..BytesPerTick
  BY DEF TypeOK
<1>9. Len(buffer) \in 0..BUFFER_SIZE /\ Len(fifo) \in 0..FifoSize
  BY <1>1, <1>2, <1>3, Sizes
<1> QED
  BY <1>1, <1>2, <1>4, <1>5, <1>6, <1>7, <1>8, <1>9 DEF Shape

-----------------------------------------------------------------------------
(* What a byte changes in the driver.                                      *)
LEMMA Arrival ==
    ASSUME Shape, Arrive
    PROVE  /\ fifo' \in Seq(Bytes) /\ fifo' # <<>> /\ Len(fifo') =< FifoSize
           /\ \A i \in 1..Len(fifo) : fifo'[i] = fifo[i]
           /\ Len(fifo) = FifoSize => fifo' = fifo
           /\ Len(fifo) < FifoSize =>
                /\ Len(fifo') = Len(fifo) + 1
                /\ fifo'[Len(fifo)+1] = [place |-> Place, prompt |-> TRUE]
<1> DEFINE e == [place |-> Place, prompt |-> TRUE]
<1>1. e \in Bytes
  BY DEF Shape, Bytes, Places
<1>2. CASE Len(fifo) < FifoSize
  <2>1. fifo' = Append(fifo, e)
    BY <1>2 DEF Arrive
  <2> HIDE DEF e
  <2>2. fifo \in Seq(Bytes) /\ Len(fifo) \in Nat
    BY DEF Shape
  <2>3. /\ fifo' \in Seq(Bytes) /\ fifo' # <<>> /\ Len(fifo') = Len(fifo) + 1
        /\ \A i \in 1..Len(fifo) : fifo'[i] = fifo[i]
        /\ fifo'[Len(fifo)+1] = e
    BY <1>1, <2>1, <2>2, AppendProperties
  <2> QED
    BY <1>2, <2>2, <2>3, Sizes DEF e
<1>3. CASE Len(fifo) = FifoSize
  <2>1. fifo' = fifo
    BY <1>3, Sizes DEF Arrive
  <2>2. fifo # <<>>
    BY <1>3, Sizes DEF Shape
  <2> QED
    BY <2>1, <2>2, <1>3, Sizes DEF Shape
<1> QED
  BY <1>2, <1>3, Sizes DEF Shape

(* What reading one changes.                                               *)
LEMMA Reading ==
    ASSUME Shape, ReadByte
    PROVE  /\ fifo' \in Seq(Bytes) /\ Len(fifo') = Len(fifo) - 1 /\ Len(fifo) >= 1
           /\ \A i \in 1..Len(fifo') : fifo'[i] = fifo[i+1]
           /\ buffer' \in Seq(Bytes) /\ Len(buffer') =< BUFFER_SIZE
           /\ \A i \in 1..Len(buffer) : buffer'[i] = buffer[i]
           /\ Len(buffer) = BUFFER_SIZE => buffer' = buffer
           /\ Len(buffer) < BUFFER_SIZE =>
                Len(buffer') = Len(buffer) + 1 /\ buffer'[Len(buffer)+1] = fifo[1]
<1>1. fifo \in Seq(Bytes) /\ fifo # <<>> /\ fifo' = Tail(fifo) /\ Len(fifo) \in Nat
  BY DEF Shape, ReadByte
<1>2. /\ Head(fifo) \in Bytes /\ fifo' \in Seq(Bytes) /\ Len(fifo') = Len(fifo) - 1
      /\ \A i \in 1..Len(fifo') : fifo'[i] = fifo[i+1]
  BY <1>1, HeadTailProperties
<1>3. Len(fifo) >= 1 /\ Head(fifo) = fifo[1]
  BY <1>1, EmptySeq
<1>4. CASE Len(buffer) < BUFFER_SIZE
  <2>1. buffer' = Append(buffer, Head(fifo))
    BY <1>4 DEF ReadByte
  <2>2. buffer \in Seq(Bytes) /\ Len(buffer) \in Nat
    BY DEF Shape
  <2>3. /\ buffer' \in Seq(Bytes) /\ Len(buffer') = Len(buffer) + 1
        /\ \A i \in 1..Len(buffer) : buffer'[i] = buffer[i]
        /\ buffer'[Len(buffer)+1] = Head(fifo)
    BY <1>2, <2>1, <2>2, AppendProperties
  <2> QED
    BY <1>2, <1>3, <1>4, <2>2, <2>3, Sizes
<1>5. CASE Len(buffer) = BUFFER_SIZE
  <2>1. buffer' = buffer
    BY <1>5, Sizes DEF ReadByte
  <2> QED
    BY <1>2, <1>3, <1>5, <2>1, Sizes DEF Shape
<1> QED
  BY <1>4, <1>5, Sizes DEF Shape

(* What ending the line changes.                                           *)
LEMMA Ending ==
    ASSUME Shape, PrintEnd
    PROVE  /\ fifo' \in Seq(Bytes) /\ Len(fifo') = Len(fifo)
           /\ \A i \in 1..Len(fifo) : ~fifo'[i].prompt
<1>1. fifo \in [1..Len(fifo) -> Bytes] /\ Len(fifo) \in Nat /\ DOMAIN fifo = 1..Len(fifo)
  BY LenProperties DEF Shape
<1>2. fifo' = [i \in 1..Len(fifo) |-> [fifo[i] EXCEPT !.prompt = FALSE]]
  BY <1>1 DEF PrintEnd
<1>3. \A b \in Bytes : [b EXCEPT !.prompt = FALSE] \in Bytes
                       /\ ~[b EXCEPT !.prompt = FALSE].prompt
  BY DEF Bytes
<1>4. fifo' \in [1..Len(fifo) -> Bytes]
  BY <1>1, <1>2, <1>3
<1>5. fifo' \in Seq(Bytes)
  BY <1>1, <1>4, SeqDef
<1>6. Len(fifo') = Len(fifo)
  BY <1>1, <1>4, <1>5, LenProperties
<1>7. \A i \in 1..Len(fifo) : ~fifo'[i].prompt
  BY <1>1, <1>2, <1>3
<1> QED
  BY <1>5, <1>6, <1>7

-----------------------------------------------------------------------------
LEMMA TypeInit == Init => TypeOK
<1> SUFFICES ASSUME Init PROVE TypeOK
  OBVIOUS
<1>1. <<>> \in BoundedSeq(Bytes, BUFFER_SIZE) /\ <<>> \in BoundedSeq(Bytes, FifoSize)
  BY EmptyBounded, Sizes
<1> QED
  BY <1>1, Sizes DEF Init, TypeOK, Places

LEMMA TypeStep == TypeOK /\ [Next]_vars => TypeOK'
<1> SUFFICES ASSUME TypeOK, [Next]_vars PROVE TypeOK'
  OBVIOUS
<1> USE Sizes
<1>0. Shape
  BY ShapeOf
<1>1. CASE ReadByte
  <2>1. fifo' \in Seq(Bytes) /\ Len(fifo') =< FifoSize
    BY <1>0, <1>1, Reading DEF Shape
  <2>2. buffer' \in Seq(Bytes) /\ Len(buffer') =< BUFFER_SIZE
    BY <1>0, <1>1, Reading
  <2>3. buffer' \in BoundedSeq(Bytes, BUFFER_SIZE) /\ fifo' \in BoundedSeq(Bytes, FifoSize)
    BY <2>1, <2>2, Bounded
  <2> QED
    BY <1>1, <2>3 DEF TypeOK, ReadByte, wire
<1>2. CASE Stamp
  BY <1>2 DEF TypeOK, Stamp, wire
<1>3. CASE NothingAvailable
  BY <1>3 DEF TypeOK, NothingAvailable, wire
<1>4. CASE Check
  BY <1>4 DEF TypeOK, Check, wire
<1>5. CASE PrintByte
  BY <1>0, <1>5 DEF TypeOK, PrintByte, wire, Shape
<1>6. CASE PrintEnd
  <2>1. fifo' \in Seq(Bytes) /\ Len(fifo') =< FifoSize
    BY <1>0, <1>6, Ending DEF Shape
  <2>2. <<>> \in BoundedSeq(Bytes, BUFFER_SIZE) /\ fifo' \in BoundedSeq(Bytes, FifoSize)
    BY <2>1, Bounded, EmptyBounded
  <2> QED
    BY <1>6, <2>2 DEF TypeOK, PrintEnd, wire
<1>7. CASE Arrive
  <2>1. fifo' \in BoundedSeq(Bytes, FifoSize)
    BY <1>0, <1>7, Arrival, Bounded
  <2>2. place' \in Places /\ burst' \in 0..BytesPerTick /\ pause' \in 0..Between
    BY <1>0, <1>7 DEF Arrive, Shape, Places
  <2> QED
    BY <1>7, <2>1, <2>2 DEF TypeOK, Arrive, sketch
<1>8. CASE Tick
  <2>1. millis' \in 0..MillisMod-1
    BY <1>0, <1>8, ModTurns DEF Tick, Shape
  <2>2. pause' \in 0..Between /\ burst' \in 0..BytesPerTick
    BY <1>0, <1>8 DEF Tick, Shape
  <2>3. lag' \in 0..MaxLag \cup 0..PrintLag
    BY <1>0, <1>8 DEF Tick, Shape
  <2> QED
    BY <1>8, <2>1, <2>2, <2>3 DEF TypeOK, Tick, sketch
<1>9. CASE UNCHANGED vars
  BY <1>9 DEF TypeOK, vars, sketch, wire
<1> QED
  BY <1>1, <1>2, <1>3, <1>4, <1>5, <1>6, <1>7, <1>8, <1>9 DEF Next, Loop

-----------------------------------------------------------------------------
(* The clock goes on by one, and the time since lastByteTime with it until *)
(* it goes round.                                                          *)
LEMMA SinceIs == Shape => Since \in 0..MillisMod-1
<1> SUFFICES ASSUME Shape PROVE Since \in 0..MillisMod-1
  OBVIOUS
<1>1. millis - lastByteTime \in Int /\ MillisMod \in Nat \ {0}
  BY Sizes DEF Shape
<1> QED
  BY <1>1, ModTurns DEF Since

LEMMA SinceTicks ==
    ASSUME Shape, Tick, Since + 1 < MillisMod
    PROVE  Since' = Since + 1
<1>0. /\ MillisMod \in Nat \ {0} /\ millis \in Int /\ lastByteTime \in Int
      /\ millis - lastByteTime \in Int /\ Since \in Int
  BY Sizes, SinceIs DEF Shape
<1>1. Cong(millis - lastByteTime, Since, MillisMod)
  BY <1>0, CongMod DEF Since
<1>2. Cong(((millis + 1) % MillisMod) - lastByteTime, Since + 1, MillisMod)
  BY <1>0, <1>1, CongTick
<1>3. millis' = (millis + 1) % MillisMod /\ lastByteTime' = lastByteTime
  BY DEF Tick, sketch
<1>4. Cong(millis' - lastByteTime', Since + 1, MillisMod)
  BY <1>2, <1>3
<1>5. Since + 1 \in 0..MillisMod-1
  BY <1>0, SinceIs
<1>6. millis' - lastByteTime' \in Int
  <2>1. (millis + 1) % MillisMod \in 0..MillisMod-1
    BY <1>0, ModTurns
  <2> QED
    BY <1>0, <1>3, <2>1
<1>7. (millis' - lastByteTime') % MillisMod = Since + 1
  BY <1>0, <1>4, <1>5, <1>6, CongResidue
<1> QED
  BY <1>7 DEF Since

LEMMA SinceStamped == ASSUME Shape, Stamp PROVE Since' = 0
<1>1. Since' = 0 % MillisMod
  BY DEF Shape, Stamp, Since
<1> QED
  BY <1>1, Sizes

LEMMA SinceKept ==
    ASSUME ReadByte \/ NothingAvailable \/ Check \/ PrintByte \/ PrintEnd
           \/ Arrive \/ UNCHANGED vars
    PROVE  Since' = Since
<1>1. millis' = millis /\ lastByteTime' = lastByteTime
  BY DEF ReadByte, NothingAvailable, Check, PrintByte, PrintEnd, Arrive, vars, sketch
<1> QED
  BY <1>1 DEF Since

(* A tick in the loop finds the clock not yet gone round.                  *)
LEMMA SinceAtTick ==
    ASSUME Shape, SinceInv, Tick, buffer # <<>>, pc \in {"available", "check"}
    PROVE  lag < MaxLag /\ lag' = lag + 1 /\ Since' = Since + 1
<1>1. lag < MaxLag /\ lag' = lag + 1
  BY DEF Tick
<1>2. Since + 1 < MillisMod
  BY <1>1, Sizes, SinceIs DEF Shape, SinceInv
<1> QED
  BY <1>1, <1>2, SinceTicks

-----------------------------------------------------------------------------
LEMMA LagStep == TypeOK /\ LagInv /\ [Next]_vars => LagInv'
<1> SUFFICES ASSUME TypeOK, LagInv, [Next]_vars PROVE LagInv'
  OBVIOUS
<1>0. Shape
  BY ShapeOf
<1>1. CASE Tick
  BY <1>0, <1>1, Sizes DEF LagInv, Tick, sketch, Shape
<1>2. CASE NothingAvailable \/ PrintByte \/ PrintEnd
  BY <1>2, Sizes DEF LagInv, NothingAvailable, PrintByte, PrintEnd
<1>3. CASE ReadByte \/ Stamp \/ Check \/ Arrive \/ UNCHANGED vars
  BY <1>3 DEF LagInv, ReadByte, Stamp, Check, Arrive, vars, sketch
<1> QED
  BY <1>1, <1>2, <1>3 DEF Next, Loop

LEMMA SinceStep == TypeOK /\ LagInv /\ SinceInv /\ [Next]_vars => SinceInv'
<1> SUFFICES ASSUME TypeOK, LagInv, SinceInv, [Next]_vars PROVE SinceInv'
  OBVIOUS
<1>0. Shape /\ Since \in Int
  BY ShapeOf, SinceIs
<1>1. CASE ReadByte
  BY <1>1 DEF SinceInv, ReadByte
<1>2. CASE Stamp
  BY <1>0, <1>2, SinceStamped, Sizes DEF SinceInv, Stamp, Shape
<1>3. CASE NothingAvailable
  <2>1. Since' = Since
    BY <1>3, SinceKept
  <2> QED
    BY <1>0, <1>3, <2>1, Sizes DEF SinceInv, LagInv, NothingAvailable, Shape
<1>4. CASE Check
  <2>1. Since' = Since /\ (TimedOut <=> Since > messageTimeout)
    BY <1>4, SinceKept DEF Since, TimedOut
  <2> QED
    BY <1>0, <1>4, <2>1, Sizes DEF SinceInv, Check, Shape
<1>5. CASE PrintByte \/ PrintEnd
  BY <1>5 DEF SinceInv, PrintByte, PrintEnd
<1>6. CASE Arrive \/ UNCHANGED vars
  <2>1. Since' = Since
    BY <1>6, SinceKept
  <2> QED
    BY <1>6, <2>1 DEF SinceInv, Arrive, vars, sketch
<1>7. CASE Tick
  <2>1. pc' = pc /\ buffer' = buffer
    BY <1>7 DEF Tick, sketch
  <2>2. CASE buffer # <<>> /\ pc \in {"available", "check"}
    <3>1. lag < MaxLag /\ lag' = lag + 1 /\ Since' = Since + 1
      BY <1>0, <1>7, <2>2, SinceAtTick
    <3> QED
      BY <1>0, <2>1, <2>2, <3>1, Sizes DEF SinceInv, Shape
  <2> QED
    BY <2>1, <2>2 DEF SinceInv
<1> QED
  BY <1>1, <1>2, <1>3, <1>4, <1>5, <1>6, <1>7 DEF Next, Loop

LEMMA SilenceStep ==
    TypeOK /\ SinceInv /\ SilenceInv /\ [Next]_vars => SilenceInv'
<1> SUFFICES ASSUME TypeOK, SinceInv, SilenceInv, [Next]_vars PROVE SilenceInv'
  OBVIOUS
<1>0. Shape /\ Since \in Int
  BY ShapeOf, SinceIs
<1>1. CASE ReadByte
  BY <1>1 DEF SilenceInv, ReadByte
<1>2. CASE Stamp
  BY <1>0, <1>2, SinceStamped, Sizes DEF SilenceInv, Stamp, Shape, wire
<1>3. CASE NothingAvailable \/ Check \/ UNCHANGED vars
  <2>1. Since' = Since
    BY <1>3, SinceKept
  <2> QED
    BY <1>3, <2>1 DEF SilenceInv, NothingAvailable, Check, vars, sketch, wire
<1>4. CASE PrintByte \/ PrintEnd
  BY <1>4 DEF SilenceInv, PrintByte, PrintEnd
<1>5. CASE Arrive
  <2>1. fifo' # <<>>
    BY <1>0, <1>5, Arrival
  <2> QED
    BY <2>1 DEF SilenceInv
<1>6. CASE Tick
  <2>1. pc' = pc /\ buffer' = buffer /\ fifo' = fifo
        /\ pause' = IF pause < Between THEN pause + 1 ELSE pause
    BY <1>6 DEF Tick, sketch
  <2>2. CASE buffer # <<>> /\ fifo = <<>> /\ pc \in {"available", "check"}
    <3>1. Since' = Since + 1
      BY <1>0, <1>6, <2>2, SinceAtTick
    <3> QED
      BY <1>0, <2>1, <2>2, <3>1, Sizes DEF SilenceInv, Shape
  <2> QED
    BY <2>1, <2>2 DEF SilenceInv
<1> QED
  BY <1>1, <1>2, <1>3, <1>4, <1>5, <1>6 DEF Next, Loop

(* A byte that finds the driver empty is the driver's first.               *)
LEMMA FirstByte ==
    ASSUME Shape, Arrive
    PROVE  fifo'[1].place = IF fifo = <<>> THEN Place ELSE fifo[1].place
<1>1. CASE fifo = <<>>
  <2>1. Len(fifo) = 0 /\ Len(fifo) < FifoSize
    BY <1>1, Sizes DEF Shape
  <2>2. fifo'[1] = [place |-> Place, prompt |-> TRUE]
    BY <2>1, Arrival
  <2> QED
    BY <1>1, <2>2
<1>2. CASE fifo # <<>>
  <2>1. 1 \in 1..Len(fifo)
    BY <1>2 DEF Shape
  <2> QED
    BY <1>2, <2>1, Arrival
<1> QED
  BY <1>1, <1>2

LEMMA SlipStep ==
    TypeOK /\ SinceInv /\ SilenceInv /\ SlipInv /\ [Next]_vars => SlipInv'
<1> SUFFICES ASSUME TypeOK, SinceInv, SilenceInv, SlipInv, [Next]_vars
             PROVE  SlipInv'
  OBVIOUS
<1>0. Shape /\ Since \in Int
  BY ShapeOf, SinceIs
<1>1. CASE ReadByte \/ Stamp \/ NothingAvailable \/ Check \/ PrintByte \/ PrintEnd
  BY <1>1 DEF SlipInv, ReadByte, Stamp, NothingAvailable, Check, PrintByte, PrintEnd
<1>2. CASE Arrive
  <2>1. Since' = Since /\ pc' = pc /\ buffer' = buffer /\ lag' = lag
    BY <1>2, SinceKept DEF Arrive, sketch
  <2>2. CASE pc = "check" /\ buffer # <<>> /\ fifo = <<>>
    <3>1. fifo'[1].place = Place
      BY <1>0, <1>2, <2>2, FirstByte
    <3>2. pause = Between \/ pause =< InMessage
      BY <1>2, Sizes DEF Arrive
    <3>3. CASE pause = Between
      BY <3>1, <3>3 DEF Place, SlipInv
    <3>4. CASE pause # Between
      <4>1. Since =< pause
        BY <1>0, <2>2, <3>4 DEF SilenceInv, Shape
      <4> QED
        BY <1>0, <2>1, <3>2, <3>4, <4>1, Sizes DEF SlipInv, Shape
    <3> QED
      BY <3>3, <3>4
  <2>3. CASE pc = "check" /\ buffer # <<>> /\ fifo # <<>>
    <3>1. fifo'[1].place = fifo[1].place
      BY <1>0, <1>2, <2>3, FirstByte
    <3> QED
      BY <2>1, <2>3, <3>1 DEF SlipInv
  <2> QED
    BY <2>1, <2>2, <2>3 DEF SlipInv
<1>3. CASE Tick
  <2>1. pc' = pc /\ buffer' = buffer /\ fifo' = fifo
    BY <1>3 DEF Tick, sketch
  <2>2. CASE pc = "check" /\ buffer # <<>>
    <3>1. lag' = lag + 1 /\ Since' = Since + 1
      BY <1>0, <1>3, <2>2, SinceAtTick
    <3> QED
      BY <1>0, <2>1, <3>1, Sizes DEF SlipInv, Shape
  <2> QED
    BY <2>1, <2>2 DEF SlipInv
<1>4. CASE UNCHANGED vars
  <2>1. Since' = Since
    BY <1>4, SinceKept
  <2> QED
    BY <1>4, <2>1 DEF SlipInv, vars, sketch
<1> QED
  BY <1>1, <1>2, <1>3, <1>4 DEF Next, Loop

LEMMA PrintStep ==
    /\ TypeOK /\ LagInv /\ SilenceInv /\ SlipInv /\ PrintInv
    /\ [Next]_vars
    => PrintInv'
<1> SUFFICES ASSUME TypeOK, LagInv, SilenceInv, SlipInv, PrintInv, [Next]_vars
             PROVE  PrintInv'
  OBVIOUS
<1>0. Shape /\ Since \in Int
  BY ShapeOf, SinceIs
<1>1. CASE ReadByte \/ Stamp \/ NothingAvailable \/ PrintEnd
  BY <1>1 DEF PrintInv, ReadByte, Stamp, NothingAvailable, PrintEnd
<1>2. CASE Check
  <2>1. fifo' = fifo /\ pause' = pause /\ pc = "check"
    BY <1>2 DEF Check, wire
  <2>2. CASE buffer # <<>> /\ TimedOut
    <3>1. Since > messageTimeout
      BY <2>2 DEF TimedOut, Since
    <3>2. lag =< MaxLag
      BY <2>1 DEF LagInv
    <3>3. CASE fifo = <<>>
      <4>1. pause >= Since \/ pause = Between
        BY <2>1, <2>2, <3>3 DEF SilenceInv
      <4>2. pause > InMessage
        BY <1>0, <3>1, <4>1, Sizes DEF Shape
      <4> QED
        BY <2>1, <3>3, <4>2 DEF PrintInv
    <3>4. CASE fifo # <<>>
      <4>1. Since > InMessage + lag
        BY <1>0, <3>1, <3>2, Sizes DEF Shape
      <4>2. fifo[1].place = 1
        BY <1>0, <2>1, <2>2, <3>4, <4>1, Sizes DEF SlipInv, Shape
      <4> QED
        BY <2>1, <3>4, <4>2 DEF PrintInv
    <3> QED
      BY <3>3, <3>4
  <2>3. CASE ~(buffer # <<>> /\ TimedOut)
    <3>1. pc' = "available"
      BY <1>2, <2>3 DEF Check
    <3> QED
      BY <3>1 DEF PrintInv
  <2> QED
    BY <2>2, <2>3
<1>3. CASE Arrive
  <2>1. fifo' # <<>> /\ pc' = pc
    BY <1>0, <1>3, Arrival DEF Arrive, sketch
  <2>2. CASE pc = "print" /\ fifo = <<>>
    <3>1. pause = Between
      BY <1>0, <1>3, <2>2, Sizes DEF Arrive, PrintInv, Shape
    <3>2. fifo'[1].place = 1
      BY <1>0, <1>3, <2>2, <3>1, FirstByte DEF Place
    <3> QED
      BY <2>1, <3>2 DEF PrintInv
  <2>3. CASE pc = "print" /\ fifo # <<>>
    <3>1. fifo'[1].place = 1
      BY <1>0, <1>3, <2>3, FirstByte DEF PrintInv
    <3> QED
      BY <2>1, <3>1 DEF PrintInv
  <2> QED
    BY <2>1, <2>2, <2>3 DEF PrintInv
<1>4. CASE Tick
  BY <1>0, <1>4, Sizes DEF PrintInv, Tick, sketch, Shape
<1>5. CASE PrintByte \/ UNCHANGED vars
  BY <1>5 DEF PrintInv, PrintByte, vars, sketch, wire
<1> QED
  BY <1>1, <1>2, <1>3, <1>4, <1>5 DEF Next, Loop

LEMMA WaitersStep == TypeOK /\ WaitersFirst /\ [Next]_vars => WaitersFirst'
<1> SUFFICES ASSUME TypeOK, WaitersFirst, [Next]_vars PROVE WaitersFirst'
  OBVIOUS
<1>0. Shape
  BY ShapeOf
<1>1. CASE ReadByte
  <2> SUFFICES ASSUME NEW j \in 1..Len(fifo'), ~fifo'[j].prompt
               PROVE  /\ \A i \in 1..j : ~fifo'[i].prompt
                      /\ ~buffer'[1].prompt
    BY DEF WaitersFirst
  <2>1. Len(fifo') = Len(fifo) - 1 /\ Len(fifo) \in Nat
    BY <1>0, <1>1, Reading DEF Shape
  <2>2. j + 1 \in 1..Len(fifo) /\ fifo'[j] = fifo[j+1]
    BY <1>0, <1>1, <2>1, Reading
  <2>3. \A i \in 1..j+1 : ~fifo[i].prompt
    BY <2>2 DEF WaitersFirst
  <2>4. buffer = <<>> \/ ~buffer[1].prompt
    BY <2>2 DEF WaitersFirst
  <2>5. ASSUME NEW i \in 1..j PROVE ~fifo'[i].prompt
    <3>1. i \in 1..Len(fifo') /\ i + 1 \in 1..j+1
      BY <2>1
    <3> QED
      BY <1>0, <1>1, <2>3, <3>1, Reading
  <2>6. ~buffer'[1].prompt
    <3>1. CASE buffer = <<>>
      <4>1. Len(buffer) = 0 /\ Len(buffer) < BUFFER_SIZE
        BY <1>0, <3>1, Sizes DEF Shape
      <4>2. buffer'[1] = fifo[1]
        BY <1>0, <1>1, <4>1, Reading
      <4> QED
        BY <2>3, <4>2
    <3>2. CASE buffer # <<>>
      <4>1. 1 \in 1..Len(buffer)
        BY <1>0, <3>2 DEF Shape
      <4> QED
        BY <1>0, <1>1, <2>4, <3>2, <4>1, Reading
    <3> QED
      BY <3>1, <3>2
  <2> QED
    BY <2>5, <2>6
<1>2. CASE Arrive
  <2> SUFFICES ASSUME NEW j \in 1..Len(fifo'), ~fifo'[j].prompt
               PROVE  /\ \A i \in 1..j : ~fifo'[i].prompt
                      /\ buffer = <<>> \/ ~buffer[1].prompt
    BY <1>2 DEF WaitersFirst, Arrive, sketch
  <2>1. j \in 1..Len(fifo)
    <3>1. CASE Len(fifo) = FifoSize
      BY <1>0, <1>2, <3>1, Arrival
    <3>2. CASE Len(fifo) < FifoSize
      <4>1. /\ Len(fifo') = Len(fifo) + 1 /\ Len(fifo) \in Nat
            /\ fifo'[Len(fifo)+1].prompt
        BY <1>0, <1>2, <3>2, Arrival DEF Shape
      <4>2. j # Len(fifo) + 1
        BY <4>1
      <4> QED
        BY <4>1, <4>2
    <3> QED
      BY <1>0, <3>1, <3>2, Sizes DEF Shape
  <2>2. ~fifo[j].prompt
    BY <1>0, <1>2, <2>1, Arrival
  <2>3. /\ \A i \in 1..j : ~fifo[i].prompt
        /\ buffer = <<>> \/ ~buffer[1].prompt
    BY <2>1, <2>2 DEF WaitersFirst
  <2>4. \A i \in 1..j : i \in 1..Len(fifo)
    BY <1>0, <2>1 DEF Shape
  <2> QED
    BY <1>0, <1>2, <2>3, <2>4, Arrival
<1>3. CASE PrintEnd
  <2>1. /\ Len(fifo') = Len(fifo) /\ Len(fifo) \in Nat /\ buffer' = <<>>
        /\ \A i \in 1..Len(fifo) : ~fifo'[i].prompt
    BY <1>0, <1>3, Ending DEF PrintEnd, Shape
  <2>2. \A j \in 1..Len(fifo), i \in Int : i \in 1..j => i \in 1..Len(fifo)
    BY <2>1
  <2> QED
    BY <2>1, <2>2 DEF WaitersFirst
<1>4. CASE Stamp \/ NothingAvailable \/ Check \/ PrintByte \/ Tick \/ UNCHANGED vars
  BY <1>4 DEF WaitersFirst, Stamp, NothingAvailable, Check, PrintByte, Tick, vars, sketch
<1> QED
  BY <1>1, <1>2, <1>3, <1>4 DEF Next, Loop

-----------------------------------------------------------------------------
Prompt == AllPrompt(buffer) /\ AllPrompt(fifo)

Whole ==
    /\ BufferWhole /\ FifoFits /\ RecentByte /\ LookedInTime
    /\ NothingWaits /\ FifoInOrder /\ FifoContinues

LEMMA WholeIs == WholeInv <=> (pc # "print" /\ Prompt => Whole)
  BY DEF WholeInv, Prompt, Whole

(* A byte that waited cannot be lost from sight by being read.             *)
LEMMA ReadPrompt ==
    ASSUME Shape, WaitersFirst, ReadByte, Prompt'
    PROVE  Prompt
<1>1. AllPrompt(buffer') /\ AllPrompt(fifo')
  BY DEF Prompt, AllPrompt
<1>2. /\ Len(buffer') >= Len(buffer) /\ Len(buffer) \in Nat /\ Len(buffer') \in Nat
      /\ Len(fifo') = Len(fifo) - 1 /\ Len(fifo) \in Nat
  BY Reading, Sizes DEF Shape
<1>3. AllPrompt(buffer)
  <2> SUFFICES ASSUME NEW i \in 1..Len(buffer) PROVE buffer[i].prompt
    BY DEF AllPrompt
  <2>1. i \in 1..Len(buffer') /\ buffer'[i] = buffer[i]
    BY <1>2, Reading
  <2> QED
    BY <1>1, <2>1 DEF AllPrompt
<1>4. fifo[1].prompt
  <2> SUFFICES ASSUME ~fifo[1].prompt PROVE FALSE
    OBVIOUS
  <2>1. 1 \in 1..Len(fifo)
    BY <1>2, Reading
  <2>2. buffer = <<>> \/ ~buffer[1].prompt
    BY <2>1 DEF WaitersFirst
  <2>3. CASE buffer = <<>>
    <3>1. Len(buffer) = 0 /\ Len(buffer) < BUFFER_SIZE
      BY <2>3, Sizes DEF Shape
    <3>2. buffer'[1] = fifo[1]
      BY <3>1, Reading
    <3>3. Len(buffer') = Len(buffer) + 1
      BY <3>1, Reading
    <3>4. 1 \in 1..Len(buffer')
      BY <1>2, <3>1, <3>3
    <3> QED
      BY <1>1, <3>2, <3>4 DEF AllPrompt
  <2>4. CASE buffer # <<>>
    <3>1. 1 \in 1..Len(buffer)
      BY <2>4 DEF Shape
    <3> QED
      BY <1>3, <2>2, <2>4, <3>1 DEF AllPrompt
  <2> QED
    BY <2>3, <2>4
<1>5. AllPrompt(fifo)
  <2> SUFFICES ASSUME NEW j \in 1..Len(fifo), j # 1 PROVE fifo[j].prompt
    BY <1>4 DEF AllPrompt
  <2>1. j - 1 \in 1..Len(fifo') /\ (j - 1) + 1 = j
    BY <1>2
  <2>2. fifo'[j-1] = fifo[(j-1)+1]
    BY <2>1, Reading
  <2> QED
    BY <1>1, <2>1, <2>2 DEF AllPrompt
<1> QED
  BY <1>3, <1>5 DEF Prompt

LEMMA WholeRead ==
    ASSUME Shape, WaitersFirst, WholeInv, ReadByte PROVE WholeInv'
<1> SUFFICES ASSUME Prompt' PROVE Whole'
  BY WholeIs DEF WholeInv, Prompt, Whole
<1>1. pc = "available" /\ pc' = "stamp" /\ fifo # <<>>
      /\ UNCHANGED <<pause, place, burst, lag>>
  BY DEF ReadByte, wire
<1>2. Whole
  BY <1>1, ReadPrompt, WholeIs
<1>3. /\ Len(fifo') = Len(fifo) - 1 /\ Len(fifo) \in Nat /\ Len(fifo) >= 1
      /\ \A i \in 1..Len(fifo') : fifo'[i] = fifo[i+1]
      /\ Len(buffer) \in Nat /\ Len(buffer') \in Nat
      /\ \A i \in 1..Len(buffer) : buffer'[i] = buffer[i]
      /\ fifo' \in Seq(Bytes) /\ buffer' \in Seq(Bytes)
  BY Reading, LenProperties DEF Shape
<1>4. /\ fifo[1].place = Len(buffer) + 1
      /\ fifo[Len(fifo)].place = place
      /\ \A i \in 1..Len(fifo)-1 : fifo[i+1].place = NextPlace(fifo[i].place)
  BY <1>1, <1>2 DEF Whole, FifoContinues, FifoInOrder
<1>5. \/ Len(buffer) < BUFFER_SIZE /\ Len(buffer') = Len(buffer) + 1
         /\ buffer'[Len(buffer)+1] = fifo[1]
      \/ Len(buffer) = BUFFER_SIZE /\ buffer' = buffer
  BY <1>3, Reading, Sizes DEF Shape
<1>6. BufferWhole'
  <2> SUFFICES ASSUME NEW i \in 1..Len(buffer') PROVE buffer'[i].place = i
    BY DEF BufferWhole
  <2>1. CASE i \in 1..Len(buffer)
    BY <1>2, <1>3, <2>1 DEF Whole, BufferWhole
  <2>2. CASE i \notin 1..Len(buffer)
    <3>1. i = Len(buffer) + 1 /\ buffer'[i] = fifo[1]
      BY <1>3, <1>5, <2>2
    <3> QED
      BY <1>4, <3>1
  <2> QED
    BY <2>1, <2>2
<1>7. FifoFits'
  <2>1. Len(fifo) =< lag * BytesPerTick + burst
    BY <1>2 DEF Whole, FifoFits
  <2>2. lag * BytesPerTick + burst \in Nat
    BY Sizes DEF Shape
  <2>3. Len(fifo') =< lag * BytesPerTick + burst
    BY <1>3, <2>1, <2>2
  <2> QED
    BY <1>1, <2>3 DEF FifoFits
<1>8. RecentByte'
  BY <1>1, <1>2 DEF Whole, RecentByte
<1>9. LookedInTime'
  BY <1>1 DEF LookedInTime
<1>10. NextPlace(Len(buffer) + 1) = Len(buffer') + 1
  BY <1>3, <1>5, Sizes DEF NextPlace
<1>11. buffer' # <<>>
  <2>1. Len(buffer') >= 1
    BY <1>3, <1>5, Sizes
  <2> QED
    BY <1>3, <2>1, EmptySeq
<1>12. NothingWaits'
  <2> SUFFICES ASSUME fifo' = <<>> PROVE NextPlace(place) = Len(buffer') + 1
    BY <1>1, <1>11 DEF NothingWaits, NextPlace
  <2>1. Len(fifo') = 0
    BY EmptySeq
  <2>2. Len(fifo) = 1
    BY <1>3, <2>1
  <2>3. place = Len(buffer) + 1
    BY <1>4, <2>2
  <2> QED
    BY <1>10, <2>3
<1>13. ASSUME fifo' # <<>> PROVE Len(fifo') \in Nat /\ Len(fifo') >= 1
  BY <1>3, <1>13, EmptySeq, LenProperties
<1>14. FifoInOrder'
  <2> SUFFICES ASSUME fifo' # <<>>
               PROVE  /\ fifo'[Len(fifo')].place = place
                      /\ \A i \in 1..Len(fifo')-1 :
                           fifo'[i+1].place = NextPlace(fifo'[i].place)
    BY <1>1 DEF FifoInOrder, NextPlace
  <2>1. Len(fifo') \in 1..Len(fifo') /\ Len(fifo') + 1 = Len(fifo)
    BY <1>3, <1>13
  <2>2. fifo'[Len(fifo')].place = place
    BY <1>3, <1>4, <2>1
  <2>3. ASSUME NEW i \in 1..Len(fifo')-1
        PROVE  fifo'[i+1].place = NextPlace(fifo'[i].place)
    <3>1. i + 1 \in 1..Len(fifo') /\ i \in 1..Len(fifo') /\ i + 1 \in 1..Len(fifo)-1
      BY <1>3, <2>1
    <3>2. fifo'[i+1] = fifo[(i+1)+1] /\ fifo'[i] = fifo[i+1]
      BY <1>3, <3>1
    <3>3. fifo[(i+1)+1].place = NextPlace(fifo[i+1].place)
      BY <1>4, <3>1
    <3> QED
      BY <3>2, <3>3
  <2> QED
    BY <2>2, <2>3
<1>15. FifoContinues'
  <2> SUFFICES ASSUME fifo' # <<>> PROVE fifo'[1].place = Len(buffer') + 1
    BY DEF FifoContinues
  <2>1. 1 \in 1..Len(fifo') /\ 1 \in 1..Len(fifo)-1
    BY <1>3, <1>13
  <2>2. fifo'[1] = fifo[1+1]
    BY <1>3, <2>1
  <2>3. fifo[1+1].place = NextPlace(fifo[1].place)
    BY <1>4, <2>1
  <2> QED
    BY <1>4, <1>10, <2>2, <2>3
<1> QED
  BY <1>6, <1>7, <1>8, <1>9, <1>12, <1>14, <1>15 DEF Whole

LEMMA DriverHolds ==
    ASSUME Shape, lag =< MaxLag, FifoFits, burst < BytesPerTick
    PROVE  Len(fifo) < FifoSize
<1>1. /\ lag \in Nat /\ MaxLag \in Nat /\ BytesPerTick \in Nat /\ burst \in Nat
      /\ Len(fifo) \in Nat /\ FifoSize \in Nat
  BY Sizes DEF Shape
<1>2. lag * BytesPerTick =< MaxLag * BytesPerTick
  <2>1. (MaxLag - lag) * BytesPerTick \in Nat
    BY <1>1
  <2>2. (MaxLag - lag) * BytesPerTick = MaxLag * BytesPerTick - lag * BytesPerTick
    BY <1>1
  <2>3. MaxLag * BytesPerTick \in Int /\ lag * BytesPerTick \in Int
    BY <1>1
  <2> QED
    BY <2>1, <2>2, <2>3
<1>3. (MaxLag + 1) * BytesPerTick = MaxLag * BytesPerTick + BytesPerTick
  BY <1>1
<1>4. MaxLag * BytesPerTick \in Int /\ lag * BytesPerTick \in Int
  BY <1>1
<1> QED
  BY <1>1, <1>2, <1>3, <1>4, DriverAssumption DEF FifoFits

LEMMA WholeArrive ==
    ASSUME Shape, LagInv, SinceInv, WholeInv, Arrive PROVE WholeInv'
<1> SUFFICES ASSUME pc' # "print", Prompt' PROVE Whole'
  BY DEF WholeInv, Prompt, Whole
<1>1. /\ pc' = pc /\ pc # "print" /\ buffer' = buffer /\ lag' = lag
      /\ pause' = 0 /\ place' = Place /\ burst' = burst + 1 /\ burst < BytesPerTick
      /\ pause \in 0..InMessage \cup {Between} /\ Since' = Since
  BY SinceKept DEF Arrive, sketch
<1>2. /\ fifo' \in Seq(Bytes) /\ fifo' # <<>> /\ Len(fifo) \in Nat
      /\ Len(buffer) \in Nat /\ Len(fifo') \in Nat
      /\ \A i \in 1..Len(fifo) : fifo'[i] = fifo[i]
  BY Arrival, LenProperties DEF Shape
<1>3. Prompt
  <2>1. Len(fifo') >= Len(fifo)
    BY <1>2, Arrival, Sizes DEF Shape
  <2>2. \A i \in 1..Len(fifo) : i \in 1..Len(fifo')
    BY <1>2, <2>1
  <2> QED
    BY <1>1, <1>2, <2>2 DEF Prompt, AllPrompt
<1>4. Whole /\ lag =< MaxLag /\ lag \in Nat
  BY <1>1, <1>3, WholeIs DEF LagInv, Shape
<1>5. /\ Len(fifo') = Len(fifo) + 1
      /\ fifo'[Len(fifo)+1] = [place |-> Place, prompt |-> TRUE]
  <2>1. Len(fifo) < FifoSize
    BY <1>1, <1>4, DriverHolds DEF Whole
  <2> QED
    BY <2>1, Arrival
<1>6. BufferWhole' /\ LookedInTime' /\ NothingWaits' /\ RecentByte'
  BY <1>1, <1>2, <1>4 DEF Whole, BufferWhole, LookedInTime, NothingWaits, RecentByte
<1>7. FifoFits'
  <2>1. lag * BytesPerTick \in Int /\ burst \in Int
    BY <1>4, Sizes DEF Shape
  <2>2. Len(fifo) + 1 =< lag * BytesPerTick + (burst + 1)
    BY <1>2, <1>4, <2>1 DEF Whole, FifoFits
  <2> QED
    BY <1>1, <1>5, <2>2 DEF FifoFits
(* The byte's place, when it follows others that wait or when the last one *)
(* was just read.                                                          *)
<1>8. ASSUME pause # Between PROVE Place = NextPlace(place)
  BY <1>8 DEF Place, NextPlace
<1>9. ASSUME fifo # <<>> \/ pc = "stamp" PROVE pause # Between
  BY <1>4, <1>9, Sizes DEF Whole, RecentByte, Shape
<1>10. FifoInOrder'
  <2>1. fifo'[Len(fifo')].place = place'
    BY <1>1, <1>5
  <2>2. ASSUME NEW i \in 1..Len(fifo')-1
        PROVE  fifo'[i+1].place = NextPlace(fifo'[i].place)
    <3>1. i \in 1..Len(fifo) /\ fifo'[i] = fifo[i]
      BY <1>2, <1>5
    <3>2. fifo # <<>>
      BY <1>2, <3>1 DEF Shape
    <3>3. CASE i = Len(fifo)
      <4>1. fifo'[i+1].place = Place
        BY <1>5, <3>3
      <4>2. fifo[i].place = place
        BY <1>4, <3>2, <3>3 DEF Whole, FifoInOrder
      <4> QED
        BY <1>8, <1>9, <3>1, <3>2, <4>1, <4>2
    <3>4. CASE i # Len(fifo)
      <4>1. i \in 1..Len(fifo)-1 /\ i + 1 \in 1..Len(fifo)
        BY <1>2, <3>1, <3>4
      <4>2. fifo[i+1].place = NextPlace(fifo[i].place)
        BY <1>4, <3>2, <4>1 DEF Whole, FifoInOrder
      <4> QED
        BY <1>2, <3>1, <4>1, <4>2
    <3> QED
      BY <3>3, <3>4
  <2> QED
    BY <2>1, <2>2 DEF FifoInOrder, NextPlace
<1>11. FifoContinues'
  <2>1. CASE fifo # <<>>
    <3>1. fifo'[1].place = fifo[1].place
      BY <2>1, FirstByte
    <3> QED
      BY <1>1, <1>4, <2>1, <3>1 DEF Whole, FifoContinues
  <2>2. CASE fifo = <<>>
    <3>1. fifo'[1].place = Place
      BY <2>2, FirstByte
    <3>2. CASE buffer = <<>>
      <4>1. pause = Between
        BY <1>1, <1>4, <2>2, <3>2, Sizes DEF Whole, NothingWaits, Shape
      <4>2. Place = 1 /\ Len(buffer) = 0
        BY <3>2, <4>1 DEF Place, Shape
      <4> QED
        BY <1>1, <3>1, <4>2 DEF FifoContinues
    <3>3. CASE buffer # <<>> /\ pause # Between
      <4>1. Place = Len(buffer) + 1
        BY <1>4, <1>8, <2>2, <3>3 DEF Whole, NothingWaits
      <4> QED
        BY <1>1, <3>1, <4>1 DEF FifoContinues
    <3>4. CASE buffer # <<>> /\ pause = Between
      <4>1. pc \in {"available", "check"}
        BY <1>1, <1>9, <3>4 DEF Shape
      <4>2. Between =< Since + MaxLag /\ Since \in Int
        BY <1>4, <2>2, <3>4, <4>1, SinceIs DEF Whole, LookedInTime
      <4>3. Since > messageTimeout + MaxLag
        BY <4>2, Sizes
      <4>4. pc # "available"
        BY <1>4, <3>4, <4>2, <4>3, Sizes DEF SinceInv
      <4>5. Since > messageTimeout
        BY <4>2, <4>3, Sizes
      <4> QED
        BY <1>1, <3>1, <3>4, <4>1, <4>4, <4>5 DEF FifoContinues, Place
    <3> QED
      BY <3>2, <3>3, <3>4
  <2> QED
    BY <2>1, <2>2
<1> QED
  BY <1>6, <1>7, <1>10, <1>11 DEF Whole

LEMMA WholeTick ==
    ASSUME Shape, LagInv, SinceInv, WholeInv, Tick PROVE WholeInv'
<1> SUFFICES ASSUME pc # "print", Prompt PROVE Whole'
  BY DEF WholeInv, Prompt, Whole, AllPrompt, Tick, sketch
<1>1. /\ pc' = pc /\ buffer' = buffer /\ fifo' = fifo /\ place' = place
      /\ lag' = lag + 1 /\ burst' = 0
      /\ pause' = IF pause < Between THEN pause + 1 ELSE pause
  BY DEF Tick, sketch
<1>2. Whole
  BY WholeIs
<1>3. BufferWhole' /\ FifoInOrder'
  BY <1>1, <1>2 DEF Whole, BufferWhole, FifoInOrder, NextPlace
<1>4. FifoFits'
  <2>1. /\ (lag + 1) * BytesPerTick = lag * BytesPerTick + BytesPerTick
        /\ lag * BytesPerTick \in Int /\ burst =< BytesPerTick /\ burst \in Int
        /\ BytesPerTick \in Int /\ Len(fifo) \in Int
    BY Sizes DEF Shape
  <2>2. Len(fifo) =< (lag + 1) * BytesPerTick
    BY <1>2, <2>1 DEF Whole, FifoFits
  <2>3. Len(fifo) =< (lag + 1) * BytesPerTick + 0
    BY <2>1, <2>2
  <2> QED
    BY <1>1, <2>3 DEF FifoFits
<1>5. RecentByte'
  BY <1>1, <1>2, Sizes DEF Whole, RecentByte, Shape
<1>6. NothingWaits'
  <2>1. pause > InMessage => pause' > InMessage
    BY <1>1, Sizes DEF Shape
  <2> QED
    BY <1>1, <1>2, <2>1 DEF Whole, NothingWaits, NextPlace
<1>7. ASSUME buffer # <<>>, pc \in {"available", "check"}
      PROVE  Since' = Since + 1 /\ Since \in Int
  BY <1>7, SinceAtTick, SinceIs
<1>8. LookedInTime'
  <2> SUFFICES ASSUME fifo = <<>>, buffer # <<>>, pc \in {"available", "check"}
               PROVE  pause' =< Since' + MaxLag
    BY <1>1 DEF LookedInTime
  <2>1. pause =< Since + MaxLag
    BY <1>2 DEF Whole, LookedInTime
  <2> QED
    BY <1>1, <1>7, <2>1, Sizes DEF Shape
<1>9. FifoContinues'
  <2>1. pc = "check" /\ buffer # <<>> /\ Since > messageTimeout => Since' > messageTimeout
    BY <1>7, Sizes
  <2> QED
    BY <1>1, <1>2, <2>1 DEF Whole, FifoContinues
<1> QED
  BY <1>3, <1>4, <1>5, <1>6, <1>8, <1>9 DEF Whole

LEMMA WholeStamp ==
    ASSUME Shape, LagInv, WholeInv, Stamp PROVE WholeInv'
<1> SUFFICES ASSUME Prompt PROVE Whole'
  BY DEF WholeInv, Prompt, Whole, AllPrompt, Stamp
<1>1. /\ pc = "stamp" /\ pc' = "available" /\ Since' = 0
      /\ UNCHANGED <<buffer, fifo, pause, place, burst, lag>>
  BY SinceStamped DEF Stamp, wire
<1>2. Whole /\ lag =< MaxLag
  BY <1>1, WholeIs DEF LagInv
<1>3. BufferWhole' /\ FifoFits' /\ RecentByte' /\ NothingWaits' /\ FifoInOrder'
  BY <1>1, <1>2 DEF Whole, BufferWhole, FifoFits, RecentByte, NothingWaits,
                    FifoInOrder, NextPlace
<1>4. LookedInTime'
  BY <1>1, <1>2, Sizes DEF Whole, RecentByte, LookedInTime, Shape
<1>5. FifoContinues'
  BY <1>1, <1>2 DEF Whole, FifoContinues
<1> QED
  BY <1>3, <1>4, <1>5 DEF Whole

LEMMA WholeNothing ==
    ASSUME Shape, WholeInv, NothingAvailable PROVE WholeInv'
<1> SUFFICES ASSUME Prompt PROVE Whole'
  BY DEF WholeInv, Prompt, Whole, AllPrompt, NothingAvailable
<1>1. /\ pc = "available" /\ pc' = "check" /\ fifo = <<>> /\ lag' = 0
      /\ UNCHANGED <<buffer, fifo, pause, place, burst>> /\ Since' = Since
  BY SinceKept DEF NothingAvailable, wire
<1>2. Whole
  BY <1>1, WholeIs
<1>3. FifoFits'
  <2>1. Len(fifo) = 0 /\ 0 * BytesPerTick = 0 /\ burst \in Nat
    BY <1>1, Sizes DEF Shape
  <2>2. Len(fifo) =< 0 * BytesPerTick + burst
    BY <2>1
  <2> QED
    BY <1>1, <2>2 DEF FifoFits
<1>4. /\ BufferWhole' /\ RecentByte' /\ LookedInTime' /\ NothingWaits'
      /\ FifoInOrder' /\ FifoContinues'
  BY <1>1, <1>2 DEF Whole, BufferWhole, RecentByte, LookedInTime, NothingWaits,
                    FifoInOrder, FifoContinues, NextPlace
<1> QED
  BY <1>3, <1>4 DEF Whole

LEMMA WholeCheck ==
    ASSUME Shape, WholeInv, Check PROVE WholeInv'
<1> SUFFICES ASSUME pc' # "print", Prompt PROVE Whole'
  BY DEF WholeInv, Prompt, Whole, AllPrompt, Check
<1>1. /\ pc = "check" /\ pc' = "available" /\ ~(buffer # <<>> /\ TimedOut)
      /\ UNCHANGED <<buffer, fifo, pause, place, burst, lag>> /\ Since' = Since
  BY SinceKept DEF Check, wire
<1>2. Whole
  BY <1>1, WholeIs
<1>3. /\ BufferWhole' /\ FifoFits' /\ RecentByte' /\ LookedInTime'
      /\ NothingWaits' /\ FifoInOrder'
  BY <1>1, <1>2 DEF Whole, BufferWhole, FifoFits, RecentByte, LookedInTime,
                    NothingWaits, FifoInOrder, NextPlace
<1>4. FifoContinues'
  BY <1>1, <1>2 DEF Whole, FifoContinues, TimedOut, Since
<1> QED
  BY <1>3, <1>4 DEF Whole

(* What came while a line was printed is not prompt.                       *)
LEMMA WholePrintEnd ==
    ASSUME Shape, PrintInv, PrintEnd PROVE WholeInv'
<1> SUFFICES ASSUME Prompt' PROVE Whole'
  BY DEF WholeInv, Prompt, Whole
<1>1. /\ pc = "print" /\ pc' = "available" /\ buffer' = <<>> /\ lag' = 0
      /\ UNCHANGED <<pause, place, burst>>
  BY DEF PrintEnd, wire
<1>2. /\ fifo' \in Seq(Bytes) /\ Len(fifo') = Len(fifo) /\ Len(fifo) \in Nat
      /\ \A i \in 1..Len(fifo) : ~fifo'[i].prompt
  BY Ending DEF Shape
<1>3. Len(fifo) = 0
  <2> SUFFICES ASSUME Len(fifo) # 0 PROVE FALSE
    OBVIOUS
  <2>1. 1 \in 1..Len(fifo)
    BY <1>2
  <2> QED
    BY <1>2, <2>1 DEF Prompt, AllPrompt
<1>4. fifo = <<>> /\ fifo' = <<>> /\ Len(fifo') = 0 /\ Len(buffer') = 0
  BY <1>1, <1>2, <1>3, EmptySeq DEF Shape
<1>5. pause > InMessage
  BY <1>1, <1>4 DEF PrintInv
<1>6. FifoFits'
  <2>1. 0 * BytesPerTick = 0 /\ burst \in Nat
    BY Sizes DEF Shape
  <2>2. Len(fifo') =< 0 * BytesPerTick + burst
    BY <1>4, <2>1
  <2> QED
    BY <1>1, <2>2 DEF FifoFits
<1>7. BufferWhole'
  BY <1>4 DEF BufferWhole
<1>8. RecentByte' /\ LookedInTime' /\ NothingWaits' /\ FifoInOrder' /\ FifoContinues'
  BY <1>1, <1>4, <1>5 DEF RecentByte, LookedInTime, NothingWaits, FifoInOrder, FifoContinues
<1> QED
  BY <1>6, <1>7, <1>8 DEF Whole

LEMMA WholeStep ==
    /\ TypeOK /\ LagInv /\ SinceInv /\ PrintInv /\ WaitersFirst /\ WholeInv
    /\ [Next]_vars
    => WholeInv'
<1> SUFFICES ASSUME TypeOK, LagInv, SinceInv, PrintInv, WaitersFirst, WholeInv,
                    [Next]_vars
             PROVE  WholeInv'
  OBVIOUS
<1>0. Shape
  BY ShapeOf
<1>1. CASE PrintByte
  BY <1>1 DEF WholeInv, PrintByte
<1>2. CASE UNCHANGED vars
  <2>1. Since' = Since
    BY <1>2, SinceKept
  <2> QED
    BY <1>2, <2>1 DEF vars, sketch, wire, WholeInv, AllPrompt, BufferWhole, FifoFits,
         RecentByte, LookedInTime, NothingWaits, FifoInOrder, FifoContinues, NextPlace
<1> QED
  BY <1>0, <1>1, <1>2, WholeRead, WholeArrive, WholeTick, WholeStamp, WholeNothing,
     WholeCheck, WholePrintEnd DEF Next, Loop

LEMMA LineStep ==
    TypeOK /\ WaitersFirst /\ WholeInv /\ LineWhole /\ [Next]_vars => LineWhole'
<1> SUFFICES ASSUME TypeOK, WaitersFirst, WholeInv, LineWhole, [Next]_vars
             PROVE  LineWhole'
  OBVIOUS
<1>0. Shape
  BY ShapeOf
<1>1. CASE Check
  <2> SUFFICES ASSUME AllPrompt(buffer), pc' = "print" PROVE BufferWhole
    BY <1>1 DEF LineWhole, BufferWhole, AllPrompt, Check
  <2>1. pc = "check" /\ buffer # <<>>
    BY <1>1 DEF Check
  <2>2. 1 \in 1..Len(buffer)
    BY <1>0, <2>1 DEF Shape
  <2>3. buffer[1].prompt
    BY <2>2 DEF AllPrompt
  <2>4. AllPrompt(fifo)
    BY <2>1, <2>3 DEF AllPrompt, WaitersFirst
  <2> QED
    BY <2>1, <2>4 DEF WholeInv
<1>2. CASE ReadByte \/ Stamp \/ NothingAvailable \/ PrintEnd
  BY <1>2 DEF LineWhole, ReadByte, Stamp, NothingAvailable, PrintEnd
<1>3. CASE PrintByte \/ Arrive \/ Tick \/ UNCHANGED vars
  BY <1>3 DEF LineWhole, BufferWhole, AllPrompt, PrintByte, Arrive, Tick, vars, sketch
<1> QED
  BY <1>1, <1>2, <1>3 DEF Next, Loop

-----------------------------------------------------------------------------
LEMMA UartInvInit == Init => UartInv
<1> SUFFICES ASSUME Init PROVE UartInv
  OBVIOUS
<1>1. /\ pc = "available" /\ buffer = <<>> /\ fifo = <<>> /\ lag = 0 /\ burst = 0
      /\ pause = Between
  BY DEF Init
<1>2. Len(buffer) = 0 /\ Len(fifo) = 0
  BY <1>1, EmptySeq
<1>3. LagInv /\ SinceInv /\ SilenceInv /\ SlipInv /\ PrintInv /\ LineWhole
  BY <1>1, Sizes DEF LagInv, SinceInv, SilenceInv, SlipInv, PrintInv, LineWhole
<1>4. WaitersFirst /\ BufferWhole
  BY <1>2 DEF WaitersFirst, BufferWhole
<1>5. FifoFits
  <2>1. 0 * BytesPerTick = 0
    BY Sizes
  <2>2. Len(fifo) =< 0 * BytesPerTick + 0
    BY <1>2, <2>1
  <2> QED
    BY <1>1, <2>2 DEF FifoFits
<1>6. RecentByte /\ LookedInTime /\ NothingWaits /\ FifoInOrder /\ FifoContinues
  BY <1>1, Sizes DEF RecentByte, LookedInTime, NothingWaits, FifoInOrder, FifoContinues
<1> QED
  BY <1>3, <1>4, <1>5, <1>6, TypeInit DEF UartInv, WholeInv

LEMMA UartInvStep == UartInv /\ [Next]_vars => UartInv'
  BY TypeStep, LagStep, SinceStep, SilenceStep, SlipStep, PrintStep, WaitersStep,
     WholeStep, LineStep DEF UartInv

LEMMA UartInvHolds == Spec => []UartInv
  BY UartInvInit, UartInvStep, PTL DEF Spec

(* The sketch's index stays within its buffer, and the driver's within its *)
(* own, whatever comes while a line is printed.                            *)
THEOREM UartTypeCorrect == Spec => []TypeOK
<1>1. UartInv => TypeOK
  BY DEF UartInv
<1> QED
  BY <1>1, UartInvHolds, PTL

(* A line whose bytes were not kept waiting is one message, whole from its *)
(* first byte and with nothing of the next: for every timeout, size and    *)
(* pause that keep the assumptions, and wherever the clock goes round.     *)
THEOREM MessagesWhole == Spec => []MessageIsWhole
<1>1. ASSUME UartInv PROVE MessageIsWhole
  <2>1. Head(fifo) = fifo[1]
    OBVIOUS
  <2> QED
    BY <1>1, <2>1 DEF UartInv, LineWhole, PrintInv, MessageIsWhole, AllPrompt, BufferWhole
<1>2. UartInv => MessageIsWhole
  BY <1>1
<1> QED
  BY <1>2, UartInvHolds, PTL
=============================================================================
