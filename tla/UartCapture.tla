---------------------------- MODULE UartCapture ----------------------------
(***************************************************************************)
(* positioning/base_listen: the bytes of a UART are gathered until none    *)
(* has come for messageTimeout, and are then printed as one message.  The  *)
(* sketch sees a byte when it reads it, not when it came: the driver keeps *)
(* what comes while the sketch prints or is held up.                       *)
(*                                                                         *)
(* The sender pauses for at most InMessage within a message and for at     *)
(* least Between before the next.  A byte is known by its place in the     *)
(* sender's message, and is prompt if it was not kept waiting by printing. *)
(***************************************************************************)
EXTENDS Integers, Sequences, SequencesExt

CONSTANTS
    BUFFER_SIZE,
    FifoSize,       \* bytes the serial driver keeps
    messageTimeout,
    InMessage, Between,
    MillisMod,      \* millis() counts modulo this (2^32 on the board)
    BytesPerTick,   \* bound: bytes that come in a millisecond
    MaxLag,         \* bound: milliseconds from one look at an empty driver
                    \* to the next, unless a line is printed
    PrintLag        \* bound: milliseconds one byte takes to be printed

ASSUME SizesAssumption ==
    BUFFER_SIZE \in Nat \ {0} /\ FifoSize \in Nat \ {0} /\ BytesPerTick \in Nat
ASSUME TimesAssumption ==
    /\ {messageTimeout, InMessage, Between, MaxLag, PrintLag} \subseteq Nat
    /\ MillisMod \in Nat \ {0} /\ messageTimeout + 2 * MaxLag < MillisMod
    /\ InMessage + MaxLag =< messageTimeout
    /\ Between > messageTimeout + 2 * MaxLag
(* The driver holds what comes between two looks, unless a line is printed. *)
ASSUME DriverAssumption == (MaxLag + 1) * BytesPerTick =< FifoSize

VARIABLES
    pc,            \* the step of loop() that is next
    buffer,        \* buffer[0..bufferIndex-1]
    lastByteTime,
    printed,       \* bytes of the buffer printed so far
    fifo,          \* the serial driver's buffer
    millis,
    pause,         \* ms since the last byte came, counted up to Between
    place,         \* place of that byte in its message, see Place
    burst,         \* bytes that came in this millisecond
    lag            \* ms since the driver was seen empty, or a byte printed

sketch == <<pc, buffer, lastByteTime, printed>>
wire == <<pause, place, burst>>
vars == <<sketch, fifo, millis, wire, lag>>

Places == 1..BUFFER_SIZE+1
Bytes == [place : Places, prompt : BOOLEAN]

(* The indices stay within the two buffers.                                *)
TypeOK ==
    /\ pc \in {"available", "stamp", "check", "print"}
    /\ buffer \in BoundedSeq(Bytes, BUFFER_SIZE)
    /\ fifo \in BoundedSeq(Bytes, FifoSize)
    /\ lastByteTime \in 0..MillisMod-1 /\ millis \in 0..MillisMod-1
    /\ printed \in 0..BUFFER_SIZE
    /\ pause \in 0..Between /\ place \in Places
    /\ burst \in 0..BytesPerTick
    /\ lag \in 0..MaxLag \cup 0..PrintLag

Init ==
    /\ pc = "available" /\ buffer = <<>> /\ lastByteTime = 0 /\ printed = 0
    /\ fifo = <<>> /\ millis \in 0..MillisMod-1
    /\ pause = Between /\ place = 1 /\ burst = 0 /\ lag = 0

-----------------------------------------------------------------------------
(* A byte comes.  The places after the first that finds no room in the     *)
(* buffer are not told apart.                                              *)
Place == IF pause = Between THEN 1
         ELSE IF place > BUFFER_SIZE THEN place ELSE place + 1

Arrive ==
    /\ burst < BytesPerTick /\ burst' = burst + 1
    /\ pause \in 0..InMessage \cup {Between}
    /\ pause' = 0 /\ place' = Place
    /\ fifo' = IF Len(fifo) < FifoSize
               THEN Append(fifo, [place |-> Place, prompt |-> TRUE])
               ELSE fifo
    /\ UNCHANGED <<sketch, millis, lag>>

(* Mutant: the index is compared after the byte was stored.                *)
ReadByteOneMore ==
    /\ pc = "available" /\ fifo # <<>>
    /\ fifo' = Tail(fifo)
    /\ buffer' = IF Len(buffer) =< BUFFER_SIZE THEN Append(buffer, Head(fifo))
                                               ELSE buffer
    /\ pc' = "stamp"
    /\ UNCHANGED <<lastByteTime, printed, millis, wire, lag>>

(* available() finds a byte; what the buffer cannot take is dropped.       *)
ReadByte ==
    /\ pc = "available" /\ fifo # <<>>
    /\ fifo' = Tail(fifo)
    /\ buffer' = IF Len(buffer) < BUFFER_SIZE THEN Append(buffer, Head(fifo))
                                              ELSE buffer
    /\ pc' = "stamp"
    /\ UNCHANGED <<lastByteTime, printed, millis, wire, lag>>

(* Mutant: only a byte that is stored restarts the timeout.                *)
StampStored ==
    /\ pc = "stamp"
    /\ lastByteTime' = IF Len(buffer) < BUFFER_SIZE THEN millis ELSE lastByteTime
    /\ pc' = "available"
    /\ UNCHANGED <<buffer, printed, fifo, millis, wire, lag>>

Stamp ==
    /\ pc = "stamp"
    /\ lastByteTime' = millis
    /\ pc' = "available"
    /\ UNCHANGED <<buffer, printed, fifo, millis, wire, lag>>

NothingAvailable ==
    /\ pc = "available" /\ fifo = <<>>
    /\ pc' = "check" /\ lag' = 0
    /\ UNCHANGED <<buffer, lastByteTime, printed, fifo, millis, wire>>

(* Mutant: the end of the pause is computed, and does not wrap.            *)
TimedOutSum == millis > lastByteTime + messageTimeout

TimedOut == (millis - lastByteTime) % MillisMod > messageTimeout

Check ==
    /\ pc = "check"
    /\ pc' = IF buffer # <<>> /\ TimedOut THEN "print" ELSE "available"
    /\ UNCHANGED <<buffer, lastByteTime, printed, fifo, millis, wire, lag>>

PrintByte ==
    /\ pc = "print" /\ printed < Len(buffer)
    /\ printed' = printed + 1 /\ lag' = 0
    /\ UNCHANGED <<pc, buffer, lastByteTime, fifo, millis, wire>>

(* The line is ended and the buffer emptied.  What is in the driver now    *)
(* was kept waiting.                                                       *)
PrintEnd ==
    /\ pc = "print" /\ printed = Len(buffer)
    /\ buffer' = <<>> /\ printed' = 0
    /\ fifo' = [i \in DOMAIN fifo |-> [fifo[i] EXCEPT !.prompt = FALSE]]
    /\ pc' = "available" /\ lag' = 0
    /\ UNCHANGED <<lastByteTime, millis, wire>>

Loop == ReadByte \/ Stamp \/ NothingAvailable \/ Check \/ PrintByte \/ PrintEnd

(* A millisecond passes.                                                   *)
Tick ==
    /\ lag < (IF pc = "print" THEN PrintLag ELSE MaxLag)
    /\ lag' = lag + 1
    /\ millis' = (millis + 1) % MillisMod
    /\ pause' = IF pause < Between THEN pause + 1 ELSE pause
    /\ burst' = 0
    /\ UNCHANGED <<sketch, fifo, place>>

Next == Loop \/ Arrive \/ Tick

Spec == Init /\ [][Next]_vars

(* loop() is called for ever, and time passes.                             *)
FairSpec == Spec /\ WF_vars(Loop) /\ SF_vars(Tick)

-----------------------------------------------------------------------------
(* A line none of whose bytes had to wait for an earlier line holds one    *)
(* message, from its first byte on, without a hole and with nothing of     *)
(* another message: only what exceeds BUFFER_SIZE is missing, at its end.  *)
MessageIsWhole ==
    pc = "print" /\ (\A i \in 1..Len(buffer) : buffer[i].prompt) =>
        /\ \A i \in 1..Len(buffer) : buffer[i].place = i
        /\ fifo # <<>> => Head(fifo).place = 1

(* When the sender falls silent, everything the sketch and its driver hold *)
(* is printed in the end.                                                  *)
SilenceShowsAll ==
    <>[](pause = Between) => <>[](buffer = <<>> /\ fifo = <<>>)
=============================================================================
