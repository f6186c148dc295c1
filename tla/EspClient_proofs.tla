-------------------------- MODULE EspClient_proofs --------------------------
(***************************************************************************)
(* Proofs about EspClient, for any number of sockets, pieces, bytes and    *)
(* faults.  Sockets come back whether or not the sketch stops early; what  *)
(* read() returns is right only if it does not.                            *)
(***************************************************************************)
EXTENDS EspClient, SequenceTheorems, TLAPS

(* The table of sockets and the client agree: whatever happens between two *)
(* requests, the only socket that can be allocated is the client's own.    *)
SocketInv ==
    /\ allocated \subseteq {sock}
    /\ None \notin allocated
    /\ pc = "connect" => allocated = {}
    /\ pc = "starting" => sock # None

(* getFreeSocket finds the last socket of an empty table.                  *)
LEMMA LastSocket == Max(Sockets) \in Sockets /\ Max(Sockets) # None
<1>1. NumSockets \in 1..255
  BY BoundsAssumption
<1>2. NumSockets - 1 \in Sockets /\ \A s \in Sockets : NumSockets - 1 >= s
  BY <1>1 DEF Sockets
<1>3. Max(Sockets) \in Sockets
  BY <1>2 DEF Max
<1> QED
  BY <1>1, <1>3 DEF Sockets, None

(* Releasing the client's socket empties the table.                        *)
LEMMA ReleaseEmpties ==
    ASSUME SocketInv, Release
    PROVE  allocated' = {} /\ sock' = None
BY DEF SocketInv, Release

(* No step of the module, the line or the server touches the client.       *)
LEMMA OthersLeaveClient == Module \/ Server => UNCHANGED client
<1>1. Module => UNCHANGED client
  BY DEF Module, Start, StartRefused, Close, SendPrompt, Deliver, Junk, Answer
<1>2. Server => UNCHANGED client
  BY DEF Server, Respond, RespondLossy, ServerCloses
<1> QED
  BY <1>1, <1>2

(* Every step of the sketch keeps the agreement.                           *)
LEMMA SketchKeepsSockets == SocketInv /\ Sketch => SocketInv'
<1> SUFFICES ASSUME SocketInv, Sketch PROVE SocketInv'
  OBVIOUS
<1>1. CASE Available \/ FindHeader \/ FindTimeout \/ GetByte \/ GetTimeout
  BY <1>1 DEF SocketInv, Available, FindHeader, FindTimeout, GetByte,
              GetTimeout, Take
<1>2. CASE LastByte
  <2>1. pc' = "loop"
    BY <1>2 DEF LastByte
  <2>2. CASE Release
    BY <2>1, <2>2, ReleaseEmpties DEF SocketInv
  <2>3. CASE UNCHANGED <<sock, allocated>>
    BY <2>1, <2>3 DEF SocketInv
  <2> QED
    BY <1>2, <2>2, <2>3 DEF LastByte
<1>3. CASE NotDue \/ Due
  BY <1>3 DEF SocketInv, NotDue, Due
<1>4. CASE Stop
  BY <1>4 DEF SocketInv, Stop
<1>5. CASE Stopped
  <2>1. pc' \in {"connect", "loop"} /\ Release
    BY <1>5 DEF Stopped
  <2> QED
    BY <2>1, ReleaseEmpties DEF SocketInv
<1>6. CASE Connect
  <2>1. allocated = {} /\ allocated' = {}
    BY <1>6 DEF SocketInv, Connect
  <2>2. Sockets \ allocated = Sockets
    BY <2>1
  <2>3. pc' = "loop" \/ (pc' = "starting" /\ sock' = Max(Sockets))
    BY <1>6, <2>2 DEF Connect
  <2> QED
    BY <2>1, <2>3, LastSocket DEF SocketInv
<1>7. CASE Connected
  BY <1>7 DEF SocketInv, Connected, Take
<1>8. CASE NotConnected
  BY <1>8 DEF SocketInv, NotConnected
<1>9. CASE Write \/ Prompted \/ Written \/ WriteFailed
  BY <1>9 DEF SocketInv, Write, Prompted, Written, WriteFailed
<1>10. CASE SkipOther
  BY <1>10 DEF SocketInv, SkipOther, Skip, client
<1> QED
  BY <1>1, <1>2, <1>3, <1>4, <1>5, <1>6, <1>7, <1>8, <1>9, <1>10 DEF Sketch

(* The agreement holds for ever.                                           *)
LEMMA SocketsAgree == Spec => []SocketInv
<1>1. Init => SocketInv
  BY DEF Init, SocketInv
<1>2. SocketInv /\ [Next]_vars => SocketInv'
  <2> SUFFICES ASSUME SocketInv, [Next]_vars PROVE SocketInv'
    OBVIOUS
  <2>1. CASE Sketch
    BY <2>1, SketchKeepsSockets
  <2>2. CASE UNCHANGED client
    BY <2>2 DEF SocketInv, client
  <2>3. CASE UNCHANGED vars
    BY <2>2, <2>3 DEF vars
  <2> QED
    BY <2>1, <2>2, <2>3, OthersLeaveClient DEF Next
<1> QED
  BY <1>1, <1>2, PTL DEF Spec

(* Whatever was refused, broken, late or lost, no request of the client is *)
(* given up for want of a socket.                                          *)
THEOREM ClientFindsSocket == Spec => []SocketsComeBack
<1>1. SocketInv => SocketsComeBack
  BY DEF SocketInv, SocketsComeBack
<1> QED
  BY <1>1, SocketsAgree, PTL

-----------------------------------------------------------------------------
(* A piece is written, and a byte read, only while there is one left.      *)
StageInv ==
    /\ pc \in {"write", "prompt", "sending"} => writes < NumWrites
    /\ pc = "reading" => bufPos > 0

(* What is announced is read before the connection is left.                *)
AnnouncedInv ==
    /\ bufPos > 0 => pc \in {"loop", "reading"} /\ sock # None
    /\ pc = "finding" => sock # None

(* A header is followed by the bytes it announces.                         *)
PacketsWhole(s) ==
    \A i \in 1..Len(s) : s[i].kind = "header" =>
        /\ i + s[i].n =< Len(s)
        /\ \A j \in i+1..i+s[i].n : s[j].kind = "byte"

(* The next count tokens are bytes.                                        *)
BytesNext(s, count) ==
    count =< Len(s) /\ \A j \in 1..count : s[j].kind = "byte"

(* The bytes of the link that is open come after byte low, in order, and   *)
(* none after byte high.                                                   *)
Fresh(token) == token.kind = "byte" /\ token.n # 0
InOrder(s, low, high) ==
    /\ low =< high
    /\ \A i \in 1..Len(s) : Fresh(s[i]) =>
        /\ low < s[i].n /\ s[i].n =< high
        /\ \A j \in i+1..Len(s) : Fresh(s[j]) => s[i].n < s[j].n

(* No byte of an earlier link; none after an OK; no OK.                    *)
Stale(token) == token.kind = "byte" /\ token.n = 0
NoStale(s) == \A i \in 1..Len(s) : ~Stale(s[i])
OKIsFresh(s) ==
    \A i \in 1..Len(s) : s[i].kind = "OK" => \A j \in i+1..Len(s) : ~Stale(s[j])
NoOK(s) == \A i \in 1..Len(s) : s[i].kind # "OK"

LineInv ==
    /\ PacketsWhole(rx) /\ BytesNext(rx, bufPos) /\ InOrder(rx, got, sent)
    /\ sock \in allocated => NoStale(rx)
    /\ pc = "starting" => OKIsFresh(rx)
    /\ doing = "start" => sock \notin allocated /\ (pc = "starting" => NoOK(rx))

-----------------------------------------------------------------------------
LEMMA Bounds ==
    /\ NumSockets \in 1..255 /\ NumWrites \in Nat /\ NumWrites >= 1
    /\ MaxPacket \in Nat /\ MaxPacket >= 1 /\ MaxAnswer \in Nat /\ MaxAnswer >= 1
    /\ MaxFaults \in Nat
  BY BoundsAssumption

Texts == {"start", "close", "send", "data"}

(* The module stays within its states whatever it hears.                   *)
LEMMA Hearing ==
    ASSUME TypeOK, NEW text \in Texts, Hear(text)
    PROVE  /\ doing' \in {"idle", "start", "close", "send", "data", "deliver", "junk"}
           /\ need' \in 0..Piece /\ (doing' = "data" <=> need' > 0)
           /\ request' \in 0..Garbled
           /\ doing' = "start" => doing = "start" \/ text = "start"
<1>0. /\ doing \in {"idle", "start", "close", "send", "data", "deliver", "junk"}
      /\ need \in 0..Piece /\ (doing = "data" <=> need > 0)
      /\ request \in 0..Garbled
  BY DEF TypeOK
<1>1. CASE doing = "idle"
  <2>1. /\ doing' = IF text = "data" THEN "junk" ELSE text
        /\ need' = need /\ request' = request
    BY <1>1 DEF Hear
  <2> QED
    BY <1>0, <1>1, <2>1 DEF Texts
<1>2. CASE doing = "data"
  <2>1. /\ need' \in IF text = "data" THEN {0} ELSE 0..need-1
        /\ request' = IF text = "data" /\ need = Piece THEN request ELSE Garbled
        /\ doing' = IF need' = 0 THEN "deliver" ELSE "data"
    BY <1>2 DEF Hear
  <2>2. need' \in 0..Piece
    BY <1>0, <2>1 DEF Piece
  <2>3. request' \in 0..Garbled
    BY <1>0, <2>1, Bounds DEF Garbled
  <2> QED
    BY <1>0, <1>2, <2>1, <2>2, <2>3
<1>3. CASE doing \notin {"idle", "data"}
  <2>1. doing' = doing /\ need' = need /\ request' = request
    BY <1>3 DEF Hear, module
  <2> QED
    BY <1>0, <2>1
<1> QED
  BY <1>1, <1>2, <1>3

-----------------------------------------------------------------------------
(* The tokens of the line.                                                 *)
Answers == [kind : {"OK", "ERROR", "SEND OK", "prompt", "closed"}, n : {0}]

LEMMA TokenTypes ==
    /\ Answers \subseteq Tokens
    /\ \A t \in Tokens : t.n \in Nat /\ (t.kind = "header" => t.n \in 1..MaxPacket)
    /\ \A t \in Tokens : t.kind = "byte" => t.n \in 0..MaxAnswer
    /\ \A t \in Answers : t.kind \notin {"header", "byte"}
    /\ \A len \in 1..MaxPacket : Header(len) \in Tokens
    /\ \A b \in 0..MaxAnswer : [kind |-> "byte", n |-> b] \in Tokens
<1>1. Answers \subseteq Tokens
  BY DEF Answers, Tokens
<1>2. ASSUME NEW t \in Tokens
      PROVE  t.n \in Nat /\ (t.kind = "header" => t.n \in 1..MaxPacket)
  <2>1. CASE t \in [kind : {"OK", "ERROR", "SEND OK", "prompt", "closed"}, n : {0}]
    <3>1. t.n = 0
      BY <2>1
    <3>2. t.kind # "header"
      BY <2>1
    <3> QED
      BY <3>1, <3>2
  <2>2. CASE t \in [kind : {"header"}, n : 1..MaxPacket]
    BY <2>2, Bounds
  <2>3. CASE t \in [kind : {"byte"}, n : 0..MaxAnswer]
    BY <2>3, Bounds
  <2> QED
    BY <2>1, <2>2, <2>3 DEF Tokens
<1>3. \A t \in Tokens : t.kind = "byte" => t.n \in 0..MaxAnswer
  BY DEF Tokens
<1>4. \A t \in Answers : t.kind \notin {"header", "byte"}
  BY DEF Answers
<1>5. \A len \in 1..MaxPacket : Header(len) \in Tokens
  BY DEF Tokens, Header
<1>6. \A b \in 0..MaxAnswer : [kind |-> "byte", n |-> b] \in Tokens
  BY DEF Tokens
<1> QED
  BY <1>1, <1>2, <1>3, <1>4, <1>5, <1>6

LEMMA AnswerSeqs ==
    /\ \A a \in {"OK", "ERROR", "SEND OK", "prompt", "closed"} :
            Token(a) \in Answers /\ <<Token(a)>> \in Seq(Answers)
    /\ <<Token("OK"), Token("prompt")>> \in Seq(Answers)
    /\ <<Token("closed"), Token("OK")>> \in Seq(Answers)
<1>1. \A a \in {"OK", "ERROR", "SEND OK", "prompt", "closed"} : Token(a) \in Answers
  BY DEF Token, Answers
<1>2. \A a, b \in Answers : <<a>> \in Seq(Answers) /\ <<a, b>> \in Seq(Answers)
  OBVIOUS
<1> QED
  BY <1>1, <1>2

LEMMA AnswersAreTokens == Seq(Answers) \subseteq Seq(Tokens)
<1>1. Answers \subseteq Tokens
  BY TokenTypes
<1>2. \A s \in Seq(Answers) : s \in Seq(Tokens)
  BY <1>1, SeqMonotonic
<1> QED
  BY <1>2

(* A packet is its header and its bytes, which count on from sent.         *)
LEMMA Packets ==
    ASSUME sent \in Nat, NEW len \in 1..MaxPacket, sent + len =< MaxAnswer
    PROVE  /\ Packet(len) \in Seq(Tokens) /\ Len(Packet(len)) = len + 1
           /\ Packet(len)[1] = Header(len)
           /\ \A i \in 2..len+1 :
                Packet(len)[i] = [kind |-> "byte", n |-> sent + (i - 1)]
<1> DEFINE bytes == [i \in 1..len |-> [kind |-> "byte", n |-> sent + i]]
<1>0. len \in Nat /\ len >= 1 /\ MaxAnswer \in Nat
  BY Bounds
<1>1. bytes \in [1..len -> Tokens]
  <2>1. \A i \in 1..len : sent + i \in 0..MaxAnswer
    BY <1>0
  <2> QED
    BY <2>1, TokenTypes
<1>2. \A i \in 1..len : bytes[i] = [kind |-> "byte", n |-> sent + i]
  OBVIOUS
<1> HIDE DEF bytes
<1>3. bytes \in Seq(Tokens)
  BY <1>0, <1>1, SeqDef
<1>4. Len(bytes) = len
  BY <1>0, <1>1, <1>3, LenProperties
<1>5. <<Header(len)>> \in Seq(Tokens) /\ Len(<<Header(len)>>) = 1
      /\ <<Header(len)>>[1] = Header(len)
  BY TokenTypes
<1>6. Packet(len) = <<Header(len)>> \o bytes
  BY DEF Packet, bytes
<1>7. /\ Packet(len) \in Seq(Tokens) /\ Len(Packet(len)) = 1 + len
      /\ \A i \in 1..1+len :
            Packet(len)[i] = IF i =< 1 THEN <<Header(len)>>[i] ELSE bytes[i-1]
  BY <1>3, <1>4, <1>5, <1>6, ConcatProperties
<1>8. Packet(len)[1] = Header(len)
  BY <1>0, <1>5, <1>7
<1>9. ASSUME NEW i \in 2..len+1
      PROVE  Packet(len)[i] = [kind |-> "byte", n |-> sent + (i - 1)]
  <2>1. i \in 1..1+len /\ ~(i =< 1) /\ i - 1 \in 1..len
    BY <1>0
  <2>2. Packet(len)[i] = bytes[i-1]
    BY <1>7, <2>1
  <2> QED
    BY <1>2, <2>1, <2>2
<1>10. Len(Packet(len)) = len + 1
  BY <1>0, <1>7
<1> QED
  BY <1>7, <1>8, <1>9, <1>10

LEMMA LossyPackets ==
    ASSUME sent \in Nat, NEW len \in 1..MaxPacket, sent + len =< MaxAnswer,
           NEW i \in 2..len+1
    PROVE  RemoveAt(Packet(len), i) \in Seq(Tokens)
<1> DEFINE p == Packet(len)
<1>1. p \in Seq(Tokens) /\ Len(p) = len + 1 /\ len \in Nat /\ i \in Int
  BY Packets, Bounds
<1> HIDE DEF p
<1>2. \A j \in 1..len+1 : p[j] \in Tokens
  BY <1>1, ElementOfSeq
<1>3. (\A j \in 1..i-1 : j \in 1..len+1) /\ (\A j \in i+1..len+1 : j \in 1..len+1)
  BY <1>1
<1>4. i - 1 \in Int /\ i + 1 \in Int /\ len + 1 \in Int
  BY <1>1
<1>5. SubSeq(p, 1, i-1) \in Seq(Tokens)
  BY <1>2, <1>3, <1>4, SubSeqProperties
<1>6. SubSeq(p, i+1, len+1) \in Seq(Tokens)
  BY <1>2, <1>3, <1>4, SubSeqProperties
<1>7. RemoveAt(p, i) = SubSeq(p, 1, i-1) \o SubSeq(p, i+1, len+1)
  BY <1>1 DEF RemoveAt
<1>8. RemoveAt(p, i) \in Seq(Tokens)
  BY <1>5, <1>6, <1>7, ConcatProperties
<1> QED
  BY <1>8 DEF p

-----------------------------------------------------------------------------
Stages == {"loop", "finding", "reading", "last", "due", "stop", "closing",
           "connect", "starting", "write", "prompt", "sending", "failed",
           "abandoning"}

(* The types, apart for the sketch, the line, the module and the server.   *)
ClientTypes ==
    /\ pc \in Stages /\ writes \in 0..NumWrites /\ sock \in Sockets \cup {None}
    /\ allocated \subseteq Sockets /\ bufPos \in 0..MaxPacket
ModuleTypes ==
    /\ doing \in {"idle", "start", "close", "send", "data", "deliver", "junk"}
    /\ need \in 0..Piece /\ (doing = "data" <=> need > 0)
    /\ request \in 0..Garbled
OtherTypes ==
    /\ open \in BOOLEAN /\ sent \in 0..MaxAnswer /\ got \in 0..MaxAnswer
    /\ faults \in 0..MaxFaults /\ lossless \in BOOLEAN

LEMMA TypeParts ==
    TypeOK <=> ClientTypes /\ rx \in Seq(Tokens) /\ ModuleTypes /\ OtherTypes
  BY DEF TypeOK, ClientTypes, ModuleTypes, OtherTypes, Stages

LEMMA TypeInit == Init => TypeOK
<1> SUFFICES ASSUME Init PROVE TypeOK
  OBVIOUS
<1>1. <<>> \in Seq(Tokens)
  BY EmptySeq
<1>2. ClientTypes
  BY Bounds DEF Init, ClientTypes, Stages
<1>3. ModuleTypes
  BY Bounds DEF Init, ModuleTypes, Piece, Garbled
<1>4. OtherTypes
  <2>1. sent \in 0..MaxAnswer /\ got \in 0..MaxAnswer /\ faults \in 0..MaxFaults
    BY Bounds DEF Init
  <2> QED
    BY <2>1 DEF Init, OtherTypes
<1> QED
  BY <1>1, <1>2, <1>3, <1>4, TypeParts DEF Init

(* The sketch's own variables.                                             *)
LEMMA TypeClient ==
    TypeOK /\ SocketInv /\ StageInv /\ [Next]_vars => ClientTypes' /\ StageInv'
<1> SUFFICES ASSUME TypeOK, SocketInv, StageInv, [Next]_vars
             PROVE  ClientTypes' /\ StageInv'
  OBVIOUS
<1>0. ClientTypes /\ rx \in Seq(Tokens)
  BY TypeParts
<1>1. CASE Module \/ Server \/ UNCHANGED vars
  <2>1. UNCHANGED client
    BY <1>1, OthersLeaveClient DEF vars
  <2> QED
    BY <1>0, <2>1 DEF ClientTypes, StageInv, client
<1>2. CASE Available \/ FindTimeout \/ NotDue \/ Due
  BY <1>0, <1>2, Bounds DEF ClientTypes, StageInv, Stages, Available, FindTimeout, NotDue, Due
<1>3. CASE FindHeader
  <2>1. Head(rx) \in Tokens
    BY <1>0, <1>3, HeadTailProperties DEF FindHeader, Take
  <2>2. Head(rx).n \in 1..MaxPacket
    BY <1>3, <2>1, TokenTypes DEF FindHeader, Take
  <2> QED
    BY <1>0, <1>3, <2>2, Bounds DEF ClientTypes, StageInv, Stages, FindHeader
<1>4. CASE GetByte \/ GetTimeout
  BY <1>0, <1>4, Bounds DEF ClientTypes, StageInv, Stages, GetByte, GetTimeout
<1>5. CASE LastByte
  <2>1. sock' \in {sock, None} /\ allocated' \subseteq allocated
    BY <1>5 DEF LastByte, Release
  <2> QED
    BY <1>0, <1>5, <2>1 DEF ClientTypes, StageInv, Stages, LastByte
<1>6. CASE Stop
  BY <1>0, <1>6 DEF ClientTypes, StageInv, Stages, Stop
<1>7. CASE Stopped
  <2>1. sock' = None /\ allocated' \subseteq allocated
    BY <1>7 DEF Stopped, Release
  <2> QED
    BY <1>0, <1>7, <2>1 DEF ClientTypes, StageInv, Stages, Stopped
<1>8. CASE Connect
  <2>1. allocated = {} /\ allocated' = {} /\ Sockets \ allocated = Sockets
    BY <1>8 DEF SocketInv, Connect
  <2>2. sock' \in {None, Max(Sockets)} /\ pc' \in {"loop", "starting"}
    BY <1>8, <2>1 DEF Connect
  <2> QED
    BY <1>0, <1>8, <2>1, <2>2, LastSocket DEF ClientTypes, StageInv, Stages, Connect
<1>9. CASE Connected
  <2>1. pc = "starting" /\ sock # None
    BY <1>9 DEF Connected, Take, SocketInv
  <2>2. allocated' \subseteq Sockets
    BY <1>0, <1>9, <2>1 DEF Connected, ClientTypes
  <2> QED
    BY <1>0, <1>9, <2>2, Bounds DEF ClientTypes, StageInv, Stages, Connected
<1>10. CASE NotConnected \/ WriteFailed
  BY <1>0, <1>10 DEF ClientTypes, StageInv, Stages, NotConnected, WriteFailed
<1>11. CASE Write \/ Prompted
  BY <1>0, <1>11 DEF ClientTypes, StageInv, Stages, Write, Prompted, Take
<1>12. CASE Written
  <2>1. /\ pc = "sending" /\ writes' = writes + 1
        /\ pc' = IF writes' = NumWrites THEN "loop" ELSE "write"
        /\ UNCHANGED <<sock, allocated, bufPos>>
    BY <1>12 DEF Written, Take
  <2>2. writes \in Nat /\ writes < NumWrites
    BY <1>0, <2>1 DEF ClientTypes, StageInv
  <2>3. writes' \in 0..NumWrites /\ (writes' # NumWrites => writes' < NumWrites)
    BY <2>1, <2>2, Bounds
  <2>4. ClientTypes'
    BY <1>0, <2>1, <2>3 DEF ClientTypes, Stages
  <2>5. StageInv'
    BY <2>1, <2>3 DEF StageInv
  <2> QED
    BY <2>4, <2>5
<1>13. CASE SkipOther
  BY <1>0, <1>13 DEF ClientTypes, StageInv, SkipOther, Skip, client
<1> QED
  BY <1>1, <1>2, <1>3, <1>4, <1>5, <1>6, <1>7, <1>8, <1>9, <1>10, <1>11, <1>12,
     <1>13 DEF Next, Sketch

(* The sketch takes the first token, drops all, or leaves the line alone.  *)
LEMMA SketchLine ==
    Sketch => rx' = rx \/ rx' = <<>> \/ (rx # <<>> /\ rx' = Tail(rx))
<1>1. CASE \/ Available \/ FindTimeout \/ GetTimeout \/ NotDue \/ Due \/ Write
  BY <1>1 DEF Available, FindTimeout, GetTimeout, NotDue, Due, Write
<1>2. CASE FindHeader \/ GetByte \/ LastByte
  BY <1>2 DEF FindHeader, GetByte, LastByte, Take
<1>3. CASE Stop \/ Connect
  BY <1>3 DEF Stop, Connect, SendCmd
<1>4. CASE Stopped \/ NotConnected \/ WriteFailed
  BY <1>4 DEF Stopped, NotConnected, WriteFailed, Take, Timeout
<1>5. CASE Connected \/ Prompted \/ Written
  BY <1>5 DEF Connected, Prompted, Written, Take
<1>6. CASE SkipOther
  BY <1>6 DEF SkipOther, Skip
<1> QED
  BY <1>1, <1>2, <1>3, <1>4, <1>5, <1>6 DEF Sketch

(* All the module and the server say but payload.                          *)
Says == StartRefused \/ Close \/ SendPrompt \/ Deliver \/ Junk \/ ServerCloses

LEMMA SaysAnswers ==
    ASSUME rx \in Seq(Tokens), Says
    PROVE  \E t \in Seq(Answers) : rx' = rx \o t
<1>1. CASE StartRefused \/ Junk
  <2>1. rx' = rx \o <<Token("ERROR")>>
    BY <1>1 DEF StartRefused, Junk, Answer
  <2> QED
    BY <2>1, AnswerSeqs
<1>2. CASE Close
  <2>1. rx' = rx \o <<Token("closed"), Token("OK")>> \/ rx' = rx \o <<Token("ERROR")>>
    BY <1>2 DEF Close, Answer
  <2> QED
    BY <2>1, AnswerSeqs
<1>3. CASE SendPrompt
  <2>1. rx' = rx \o <<Token("OK"), Token("prompt")>> \/ rx' = rx \o <<Token("ERROR")>>
    BY <1>3 DEF SendPrompt
  <2> QED
    BY <2>1, AnswerSeqs
<1>4. CASE Deliver
  <2>1. rx' = rx \o <<Token("SEND OK")>> \/ rx' = rx \o <<Token("ERROR")>>
    BY <1>4 DEF Deliver, Answer
  <2> QED
    BY <2>1, AnswerSeqs
<1>5. CASE ServerCloses
  <2>1. Token("closed") \in Tokens
    BY AnswerSeqs, TokenTypes
  <2>2. rx' = rx \o <<Token("closed")>>
    BY <1>5, <2>1, AppendIsConcat DEF ServerCloses
  <2> QED
    BY <2>2, AnswerSeqs
<1> QED
  BY <1>1, <1>2, <1>3, <1>4, <1>5 DEF Says

(* A new link makes all bytes on their way old, and changes nothing else.  *)
LEMMA Starting ==
    ASSUME rx \in Seq(Tokens), Start
    PROVE  /\ rx' \in Seq(Tokens) /\ Len(rx') = Len(rx) + 1
           /\ rx'[Len(rx)+1] = Token("OK")
           /\ \A i \in 1..Len(rx) :
                /\ rx'[i].kind = rx[i].kind
                /\ IF rx[i].kind = "byte" THEN rx'[i].n = 0 ELSE rx'[i] = rx[i]
<1> DEFINE Old(t) == IF t.kind = "byte" THEN [t EXCEPT !.n = 0] ELSE t
           old == [i \in 1..Len(rx) |-> Old(rx[i])]
<1>1. ASSUME NEW t \in Tokens
      PROVE  /\ Old(t) \in Tokens /\ Old(t).kind = t.kind
             /\ IF t.kind = "byte" THEN Old(t).n = 0 ELSE Old(t) = t
  <2>1. CASE t.kind = "byte"
    <3>1. t \in [kind : {"byte"}, n : 0..MaxAnswer]
      BY <2>1 DEF Tokens
    <3>2. 0 \in 0..MaxAnswer
      BY Bounds
    <3>3. Old(t) = [t EXCEPT !.n = 0]
      BY <2>1
    <3>4. Old(t) \in [kind : {"byte"}, n : 0..MaxAnswer] /\ Old(t).n = 0
      BY <3>1, <3>2, <3>3
    <3>5. Old(t).kind = t.kind
      BY <2>1, <3>4
    <3> QED
      BY <2>1, <3>4, <3>5 DEF Tokens
  <2>2. CASE t.kind # "byte"
    BY <2>2
  <2> QED
    BY <2>1, <2>2
<1>2. rx \in [1..Len(rx) -> Tokens] /\ Len(rx) \in Nat /\ DOMAIN rx = 1..Len(rx)
  BY LenProperties
<1>3. \A i \in 1..Len(rx) : rx[i] \in Tokens
  BY <1>2
<1> HIDE DEF Old
<1>4. old \in [1..Len(rx) -> Tokens] /\ \A i \in 1..Len(rx) : old[i] = Old(rx[i])
  BY <1>1, <1>3
<1>5. rx' = Append(old, Token("OK"))
  <2>1. rx' = Append([i \in 1..Len(rx) |->
                        IF rx[i].kind = "byte" THEN [rx[i] EXCEPT !.n = 0]
                                               ELSE rx[i]], Token("OK"))
    BY <1>2 DEF Start
  <2> QED
    BY <2>1 DEF Old
<1> HIDE DEF old
<1>6. old \in Seq(Tokens)
  BY <1>2, <1>4, SeqDef
<1>7. Len(old) = Len(rx)
  BY <1>2, <1>4, <1>6, LenProperties
<1>8. Token("OK") \in Tokens
  BY AnswerSeqs, TokenTypes
<1>9. /\ rx' \in Seq(Tokens) /\ Len(rx') = Len(rx) + 1
      /\ rx'[Len(rx)+1] = Token("OK")
      /\ \A i \in 1..Len(rx) : rx'[i] = old[i]
  BY <1>5, <1>6, <1>7, <1>8, AppendProperties
<1>10. ASSUME NEW i \in 1..Len(rx)
       PROVE  /\ rx'[i].kind = rx[i].kind
              /\ IF rx[i].kind = "byte" THEN rx'[i].n = 0 ELSE rx'[i] = rx[i]
  <2>1. rx'[i] = Old(rx[i]) /\ rx[i] \in Tokens
    BY <1>3, <1>4, <1>9
  <2> QED
    BY <1>1, <2>1
<1> QED
  BY <1>9, <1>10

LEMMA TypeLine == TypeOK /\ [Next]_vars => rx' \in Seq(Tokens)
<1> SUFFICES ASSUME TypeOK, [Next]_vars PROVE rx' \in Seq(Tokens)
  OBVIOUS
<1>0. rx \in Seq(Tokens) /\ sent \in Nat
  BY Bounds DEF TypeOK
<1>1. CASE Sketch
  <2>1. CASE rx' = <<>>
    BY <2>1, EmptySeq
  <2>2. CASE rx # <<>> /\ rx' = Tail(rx)
    BY <1>0, <2>2, HeadTailProperties
  <2> QED
    BY <1>0, <1>1, <2>1, <2>2, SketchLine
<1>2. CASE Says
  BY <1>0, <1>2, SaysAnswers, AnswersAreTokens, ConcatProperties
<1>3. CASE Start
  BY <1>0, <1>3, Starting
<1>4. ASSUME NEW len \in 1..MaxPacket, Respond(len) PROVE rx' \in Seq(Tokens)
  <2>1. Packet(len) \in Seq(Tokens)
    BY <1>0, <1>4, Packets DEF Respond
  <2> QED
    BY <1>0, <1>4, <2>1, ConcatProperties DEF Respond
<1>5. ASSUME NEW len \in 1..MaxPacket, RespondLossy(len) PROVE rx' \in Seq(Tokens)
  <2>1. PICK i \in 2..len+1 : rx' = rx \o RemoveAt(Packet(len), i)
    BY <1>5 DEF RespondLossy
  <2>2. sent + len =< MaxAnswer
    BY <1>5 DEF RespondLossy
  <2>3. RemoveAt(Packet(len), i) \in Seq(Tokens)
    BY <1>0, <2>2, LossyPackets
  <2> QED
    BY <1>0, <2>1, <2>3, ConcatProperties
<1>6. CASE UNCHANGED vars
  BY <1>0, <1>6 DEF vars
<1> QED
  BY <1>1, <1>2, <1>3, <1>4, <1>5, <1>6 DEF Next, Module, Server, Says

(* What the sketch says changes the module as Hearing has it.              *)
LEMMA SketchSays ==
    Sketch => UNCHANGED <<module, request>> \/ Hear("close") \/ Hear("send")
              \/ Hear("data") \/ (pc = "connect" /\ rx' = <<>> /\ Hear("start"))
<1>1. CASE \/ Available \/ FindHeader \/ FindTimeout \/ GetByte \/ GetTimeout
           \/ LastByte \/ NotDue \/ Due
  BY <1>1 DEF Available, FindHeader, FindTimeout, GetByte, GetTimeout, LastByte,
              NotDue, Due, link
<1>2. CASE Stop
  BY <1>2 DEF Stop, SendCmd
<1>3. CASE Connect
  BY <1>3 DEF Connect, SendCmd
<1>4. CASE Stopped \/ NotConnected \/ WriteFailed
  BY <1>4 DEF Stopped, NotConnected, WriteFailed, Timeout, link
<1>5. CASE Connected \/ Written
  BY <1>5 DEF Connected, Written, link
<1>6. CASE SkipOther
  BY <1>6 DEF SkipOther, Skip, link
<1>7. CASE Write \/ Prompted
  BY <1>7 DEF Write, Prompted
<1> QED
  BY <1>1, <1>2, <1>3, <1>4, <1>5, <1>6, <1>7 DEF Sketch

LEMMA TypeModule == TypeOK /\ [Next]_vars => ModuleTypes'
<1> SUFFICES ASSUME TypeOK, [Next]_vars PROVE ModuleTypes'
  OBVIOUS
<1>0. ModuleTypes
  BY TypeParts
<1>1. CASE UNCHANGED <<module, request>>
  BY <1>0, <1>1 DEF ModuleTypes, module
<1>2. CASE Sketch
  <2>1. ASSUME NEW text \in Texts, Hear(text) PROVE ModuleTypes'
    BY <2>1, Hearing DEF ModuleTypes
  <2>2. {"close", "send", "data", "start"} \subseteq Texts
    BY DEF Texts
  <2> QED
    BY <1>1, <1>2, <2>1, <2>2, SketchSays
<1>3. CASE Start
  BY <1>0, <1>3, Bounds DEF ModuleTypes, Start, Garbled
<1>4. CASE StartRefused \/ Close \/ Junk
  BY <1>0, <1>4 DEF ModuleTypes, StartRefused, Close, Junk, Answer, link
<1>5. CASE SendPrompt
  BY <1>0, <1>5 DEF ModuleTypes, SendPrompt, Piece, link
<1>6. CASE Deliver
  <2>1. request' \in 0..Garbled
    <3>1. (request < NumWrites /\ request' = request + 1) \/ request' = request
      BY <1>6 DEF Deliver
    <3> QED
      BY <1>0, <3>1, Bounds DEF ModuleTypes, Garbled
  <2> QED
    BY <1>0, <1>6, <2>1 DEF ModuleTypes, Deliver, Answer
<1>7. CASE Server
  <2>1. UNCHANGED <<module, request>>
    BY <1>7 DEF Server, Respond, RespondLossy, ServerCloses
  <2> QED
    BY <1>1, <2>1
<1>8. CASE UNCHANGED vars
  BY <1>1, <1>8 DEF vars, link
<1> QED
  BY <1>2, <1>3, <1>4, <1>5, <1>6, <1>7, <1>8 DEF Next, Module

LEMMA TypeOthers == TypeOK /\ [Next]_vars => OtherTypes'
<1> SUFFICES ASSUME TypeOK, [Next]_vars PROVE OtherTypes'
  OBVIOUS
<1>0. OtherTypes /\ rx \in Seq(Tokens)
  BY TypeParts
<1>1. ASSUME Fault PROVE faults' \in 0..MaxFaults
  BY <1>0, <1>1, Bounds DEF Fault, OtherTypes
<1>2. CASE GetByte
  <2>1. Head(rx) \in Tokens
    BY <1>0, <1>2, HeadTailProperties DEF GetByte
  <2>2. got' \in 0..MaxAnswer
    BY <1>0, <1>2, <2>1, TokenTypes DEF GetByte, OtherTypes
  <2> QED
    BY <1>0, <1>2, <2>2 DEF OtherTypes, GetByte, link
<1>3. CASE \/ Available \/ FindHeader \/ FindTimeout \/ GetTimeout
           \/ LastByte \/ NotDue \/ Due
  BY <1>0, <1>3 DEF OtherTypes, Available, FindHeader, FindTimeout, GetTimeout,
                    LastByte, NotDue, Due, link, ghosts
<1>4. CASE Stop \/ Connect \/ Write \/ Prompted
  BY <1>0, <1>4 DEF OtherTypes, Stop, Connect, Write, Prompted, ghosts
<1>5. CASE Stopped \/ NotConnected \/ WriteFailed
  <2>1. faults' \in 0..MaxFaults
    <3>1. UNCHANGED faults \/ Fault
      BY <1>5 DEF Stopped, NotConnected, WriteFailed, Timeout, ghosts
    <3> QED
      BY <1>0, <1>1, <3>1 DEF OtherTypes
  <2>2. UNCHANGED <<open, sent, got, lossless>>
    BY <1>5 DEF Stopped, NotConnected, WriteFailed, Timeout, ghosts, link
  <2> QED
    BY <1>0, <2>1, <2>2 DEF OtherTypes
<1>6. CASE Connected \/ Written \/ SkipOther
  BY <1>0, <1>6 DEF OtherTypes, Connected, Written, SkipOther, Skip, link, ghosts
<1>7. CASE Start
  BY <1>0, <1>7, Bounds DEF OtherTypes, Start
<1>8. CASE StartRefused
  <2>1. faults' \in 0..MaxFaults
    BY <1>0, <1>1, <1>8 DEF OtherTypes, StartRefused
  <2> QED
    BY <1>0, <1>8, <2>1 DEF OtherTypes, StartRefused, Answer, link
<1>9. CASE Close \/ Junk
  BY <1>0, <1>9 DEF OtherTypes, Close, Junk, Answer, link
<1>10. CASE SendPrompt \/ Deliver
  BY <1>0, <1>10 DEF OtherTypes, SendPrompt, Deliver, Answer, link, ghosts
<1>11. ASSUME NEW len \in 1..MaxPacket, Respond(len) \/ RespondLossy(len)
       PROVE  OtherTypes'
  <2>1. sent' \in 0..MaxAnswer
    BY <1>0, <1>11, Bounds DEF OtherTypes, Respond, RespondLossy
  <2>2. faults' \in 0..MaxFaults
    BY <1>0, <1>1, <1>11 DEF OtherTypes, Respond, RespondLossy, ghosts
  <2>3. lossless' \in BOOLEAN
    BY <1>0, <1>11 DEF OtherTypes, Respond, RespondLossy, ghosts
  <2> QED
    BY <1>0, <1>11, <2>1, <2>2, <2>3 DEF OtherTypes, Respond, RespondLossy, ghosts
<1>12. CASE ServerCloses
  <2>1. faults' \in 0..MaxFaults
    BY <1>0, <1>1, <1>12 DEF OtherTypes, ServerCloses
  <2> QED
    BY <1>0, <1>12, <2>1 DEF OtherTypes, ServerCloses
<1>13. CASE UNCHANGED vars
  BY <1>0, <1>13 DEF OtherTypes, vars, link, ghosts
<1> QED
  BY <1>2, <1>3, <1>4, <1>5, <1>6, <1>7, <1>8, <1>9, <1>10, <1>11, <1>12, <1>13
     DEF Next, Sketch, Module, Server

LEMMA SafeInvHolds == Spec => [](TypeOK /\ SocketInv /\ StageInv)
<1>1. Init => TypeOK /\ StageInv
  BY TypeInit DEF Init, StageInv
<1>2. TypeOK /\ SocketInv /\ StageInv /\ [Next]_vars => TypeOK' /\ StageInv'
  <2>1. TypeOK' <=> ClientTypes' /\ rx' \in Seq(Tokens) /\ ModuleTypes' /\ OtherTypes'
    BY DEF TypeOK, ClientTypes, ModuleTypes, OtherTypes, Stages
  <2> QED
    BY <2>1, TypeClient, TypeLine, TypeModule, TypeOthers
<1> QED
  BY <1>1, <1>2, SocketsAgree, PTL DEF Spec

(* The sketch, the driver, the module and the server stay within their     *)
(* bounds; none counts past a packet, a piece or an answer.                *)
THEOREM ClientTypeCorrect == Spec => []TypeOK
  BY SafeInvHolds, PTL

-----------------------------------------------------------------------------
(* What a sequence of tokens keeps when its first is taken, and when more  *)
(* are added.                                                              *)
LEMMA Tails ==
    ASSUME NEW s \in Seq(Tokens), s # <<>>
    PROVE  /\ Len(s) \in Nat /\ Len(s) >= 1 /\ Head(s) = s[1]
           /\ Tail(s) \in Seq(Tokens) /\ Len(Tail(s)) = Len(s) - 1
           /\ \A i \in 1..Len(s)-1 : Tail(s)[i] = s[i+1]
<1>1. Len(s) \in Nat /\ Len(s) >= 1
  BY EmptySeq, LenProperties
<1>2. Tail(s) \in Seq(Tokens) /\ Len(Tail(s)) = Len(s) - 1
      /\ \A i \in 1..Len(Tail(s)) : Tail(s)[i] = s[i+1]
  BY HeadTailProperties
<1>3. Head(s) = s[1]
  OBVIOUS
<1> QED
  BY <1>1, <1>2, <1>3

LEMMA Elements ==
    ASSUME NEW s \in Seq(Tokens), NEW i \in 1..Len(s)
    PROVE  /\ s[i] \in Tokens /\ s[i].n \in Nat
           /\ s[i].kind = "header" => s[i].n \in 1..MaxPacket
<1>1. s[i] \in Tokens
  BY ElementOfSeq
<1> QED
  BY <1>1, TokenTypes

LEMMA TailPackets ==
    ASSUME NEW s \in Seq(Tokens), s # <<>>, PacketsWhole(s)
    PROVE  PacketsWhole(Tail(s))
<1> DEFINE t == Tail(s)
<1>0. Len(s) \in Nat /\ Len(t) = Len(s) - 1 /\ \A i \in 1..Len(s)-1 : t[i] = s[i+1]
  BY Tails
<1> HIDE DEF t
<1> SUFFICES ASSUME NEW i \in 1..Len(t), t[i].kind = "header"
             PROVE  /\ i + t[i].n =< Len(t)
                    /\ \A j \in i+1..i+t[i].n : t[j].kind = "byte"
  BY DEF PacketsWhole, t
<1>1. i \in 1..Len(s)-1 /\ i + 1 \in 1..Len(s) /\ i \in Nat
  BY <1>0
<1>2. t[i] = s[i+1]
  BY <1>0, <1>1
<1>3. /\ (i + 1) + s[i+1].n =< Len(s)
      /\ \A j \in (i+1)+1..(i+1)+s[i+1].n : s[j].kind = "byte"
  BY <1>1, <1>2 DEF PacketsWhole
<1>4. s[i+1].n \in Nat
  BY <1>1, Elements
<1> DEFINE n == s[i+1].n
<1>5. n \in Nat /\ t[i].n = n /\ (i + 1) + n =< Len(s)
      /\ \A j \in (i+1)+1..(i+1)+n : s[j].kind = "byte"
  BY <1>2, <1>3, <1>4
<1> HIDE DEF n
<1>6. i + n =< Len(t)
  BY <1>0, <1>1, <1>5
<1>7. ASSUME NEW j \in i+1..i+n PROVE t[j].kind = "byte"
  <2>1. j \in 1..Len(s)-1 /\ j + 1 \in (i+1)+1..(i+1)+n
    BY <1>0, <1>1, <1>5
  <2>2. t[j] = s[j+1]
    BY <1>0, <2>1
  <2> QED
    BY <1>5, <2>1, <2>2
<1> QED
  BY <1>5, <1>6, <1>7

LEMMA TailBytes ==
    ASSUME NEW s \in Seq(Tokens), s # <<>>, NEW c \in Nat, BytesNext(s, c + 1)
    PROVE  BytesNext(Tail(s), c)
<1> DEFINE t == Tail(s)
<1>0. Len(s) \in Nat /\ Len(t) = Len(s) - 1 /\ \A i \in 1..Len(s)-1 : t[i] = s[i+1]
  BY Tails
<1> HIDE DEF t
<1>1. c + 1 =< Len(s) /\ \A j \in 1..c+1 : s[j].kind = "byte"
  BY DEF BytesNext
<1>2. ASSUME NEW j \in 1..c PROVE t[j].kind = "byte"
  <2>1. j + 1 \in 1..c+1 /\ j \in 1..Len(s)-1
    BY <1>0, <1>1
  <2>2. t[j] = s[j+1]
    BY <1>0, <2>1
  <2> QED
    BY <1>1, <2>1, <2>2
<1>3. c =< Len(t)
  BY <1>0, <1>1
<1> QED
  BY <1>2, <1>3 DEF BytesNext, t

LEMMA TailOrder ==
    ASSUME NEW s \in Seq(Tokens), s # <<>>, NEW low \in Nat, NEW high \in Nat,
           InOrder(s, low, high)
    PROVE  /\ InOrder(Tail(s), low, high)
           /\ Fresh(s[1]) => InOrder(Tail(s), s[1].n, high)
<1> DEFINE t == Tail(s)
<1>0. /\ Len(s) \in Nat /\ Len(s) >= 1 /\ Len(t) = Len(s) - 1
      /\ \A i \in 1..Len(s)-1 : t[i] = s[i+1]
  BY Tails
<1> HIDE DEF t
<1>1. /\ low =< high
      /\ \A i \in 1..Len(s) : Fresh(s[i]) =>
            /\ low < s[i].n /\ s[i].n =< high
            /\ \A j \in i+1..Len(s) : Fresh(s[j]) => s[i].n < s[j].n
  BY DEF InOrder
<1>2. ASSUME NEW i \in 1..Len(t), Fresh(t[i])
      PROVE  /\ low < t[i].n /\ t[i].n =< high
             /\ \A j \in i+1..Len(t) : Fresh(t[j]) => t[i].n < t[j].n
  <2>1. i \in 1..Len(s)-1 /\ i + 1 \in 1..Len(s) /\ t[i] = s[i+1]
    BY <1>0
  <2>2. /\ low < s[i+1].n /\ s[i+1].n =< high
        /\ \A j \in (i+1)+1..Len(s) : Fresh(s[j]) => s[i+1].n < s[j].n
    BY <1>1, <1>2, <2>1
  <2>3. ASSUME NEW j \in i+1..Len(t), Fresh(t[j]) PROVE s[i+1].n < t[j].n
    <3>1. j \in 1..Len(s)-1 /\ j + 1 \in (i+1)+1..Len(s)
      BY <1>0
    <3>2. t[j] = s[j+1]
      BY <1>0, <3>1
    <3> QED
      BY <2>2, <2>3, <3>1, <3>2
  <2> QED
    BY <2>1, <2>2, <2>3
<1>3. InOrder(t, low, high)
  BY <1>1, <1>2 DEF InOrder
<1>4. ASSUME Fresh(s[1]) PROVE InOrder(t, s[1].n, high)
  <2>1. 1 \in 1..Len(s)
    BY <1>0
  <2>2. /\ s[1].n =< high
        /\ \A j \in 1+1..Len(s) : Fresh(s[j]) => s[1].n < s[j].n
    BY <1>1, <1>4, <2>1
  <2>3. ASSUME NEW i \in 1..Len(t), Fresh(t[i]) PROVE s[1].n < t[i].n
    <3>1. i \in 1..Len(s)-1 /\ i + 1 \in 1+1..Len(s)
      BY <1>0
    <3>2. t[i] = s[i+1]
      BY <1>0, <3>1
    <3> QED
      BY <2>2, <2>3, <3>1, <3>2
  <2> QED
    BY <1>2, <2>2, <2>3 DEF InOrder
<1> QED
  BY <1>3, <1>4 DEF t

LEMMA LowerOrder ==
    ASSUME NEW s \in Seq(Tokens), NEW low \in Nat, NEW high \in Nat,
           InOrder(s, low, high)
    PROVE  InOrder(s, 0, high)
<1>1. /\ low =< high
      /\ \A i \in 1..Len(s) : Fresh(s[i]) =>
            /\ low < s[i].n /\ s[i].n =< high
            /\ \A j \in i+1..Len(s) : Fresh(s[j]) => s[i].n < s[j].n
  BY DEF InOrder
<1>2. ASSUME NEW i \in 1..Len(s), Fresh(s[i]) PROVE 0 < s[i].n
  BY <1>2, Elements DEF Fresh
<1> QED
  BY <1>1, <1>2 DEF InOrder

LEMMA TailStale ==
    ASSUME NEW s \in Seq(Tokens), s # <<>>
    PROVE  /\ NoStale(s) => NoStale(Tail(s))
           /\ OKIsFresh(s) => OKIsFresh(Tail(s))
           /\ OKIsFresh(s) /\ s[1].kind = "OK" => NoStale(Tail(s))
           /\ NoOK(s) => NoOK(Tail(s))
<1> DEFINE t == Tail(s)
<1>0. /\ Len(s) \in Nat /\ Len(s) >= 1 /\ Len(t) = Len(s) - 1
      /\ \A i \in 1..Len(s)-1 : t[i] = s[i+1]
  BY Tails
<1> HIDE DEF t
<1>1. ASSUME NEW i \in 1..Len(t) PROVE t[i] = s[i+1] /\ i + 1 \in 1..Len(s)
  BY <1>0
<1>2. ASSUME NoStale(s) PROVE NoStale(t)
  BY <1>1, <1>2 DEF NoStale
<1>3. ASSUME NoOK(s) PROVE NoOK(t)
  BY <1>1, <1>3 DEF NoOK
<1>4. ASSUME OKIsFresh(s) PROVE OKIsFresh(t)
  <2> SUFFICES ASSUME NEW i \in 1..Len(t), t[i].kind = "OK", NEW j \in i+1..Len(t)
               PROVE  ~Stale(t[j])
    BY DEF OKIsFresh
  <2>1. s[i+1].kind = "OK" /\ i + 1 \in 1..Len(s)
    BY <1>1
  <2>2. j \in 1..Len(t) /\ j + 1 \in (i+1)+1..Len(s)
    BY <1>0
  <2>3. ~Stale(s[j+1])
    BY <1>4, <2>1, <2>2 DEF OKIsFresh
  <2> QED
    BY <1>1, <2>2, <2>3
<1>5. ASSUME OKIsFresh(s), s[1].kind = "OK" PROVE NoStale(t)
  <2> SUFFICES ASSUME NEW j \in 1..Len(t) PROVE ~Stale(t[j])
    BY DEF NoStale
  <2>1. 1 \in 1..Len(s) /\ j + 1 \in 1+1..Len(s)
    BY <1>0
  <2>2. ~Stale(s[j+1])
    BY <1>5, <2>1 DEF OKIsFresh
  <2> QED
    BY <1>1, <2>2
<1> QED
  BY <1>2, <1>3, <1>4, <1>5 DEF t

(* Two sequences, one after the other.                                     *)
LEMMA Joins ==
    ASSUME NEW s \in Seq(Tokens), NEW t \in Seq(Tokens)
    PROVE  /\ Len(s) \in Nat /\ Len(t) \in Nat
           /\ s \o t \in Seq(Tokens) /\ Len(s \o t) = Len(s) + Len(t)
           /\ \A i \in 1..Len(s) : (s \o t)[i] = s[i]
           /\ \A i \in Len(s)+1..Len(s)+Len(t) :
                i - Len(s) \in 1..Len(t) /\ (s \o t)[i] = t[i-Len(s)]
<1>1. Len(s) \in Nat /\ Len(t) \in Nat
  BY LenProperties
<1>2. /\ s \o t \in Seq(Tokens) /\ Len(s \o t) = Len(s) + Len(t)
      /\ \A i \in 1..Len(s)+Len(t) :
            (s \o t)[i] = IF i =< Len(s) THEN s[i] ELSE t[i-Len(s)]
  BY ConcatProperties
<1>3. ASSUME NEW i \in 1..Len(s) PROVE (s \o t)[i] = s[i]
  <2>1. i \in 1..Len(s)+Len(t) /\ i =< Len(s)
    BY <1>1
  <2> QED
    BY <1>2, <2>1
<1>4. ASSUME NEW i \in Len(s)+1..Len(s)+Len(t)
      PROVE  i - Len(s) \in 1..Len(t) /\ (s \o t)[i] = t[i-Len(s)]
  <2>1. i \in 1..Len(s)+Len(t) /\ ~(i =< Len(s)) /\ i - Len(s) \in 1..Len(t)
    BY <1>1
  <2> QED
    BY <1>2, <2>1
<1> QED
  BY <1>1, <1>2, <1>3, <1>4

LEMMA JoinPackets ==
    ASSUME NEW s \in Seq(Tokens), NEW t \in Seq(Tokens),
           PacketsWhole(s), PacketsWhole(t)
    PROVE  PacketsWhole(s \o t)
<1> DEFINE u == s \o t
<1>0. /\ Len(s) \in Nat /\ Len(t) \in Nat /\ Len(u) = Len(s) + Len(t)
      /\ \A i \in 1..Len(s) : u[i] = s[i]
      /\ \A i \in Len(s)+1..Len(s)+Len(t) :
                i - Len(s) \in 1..Len(t) /\ u[i] = t[i-Len(s)]
  BY Joins
<1> HIDE DEF u
<1> SUFFICES ASSUME NEW i \in 1..Len(u), u[i].kind = "header"
             PROVE  /\ i + u[i].n =< Len(u)
                    /\ \A j \in i+1..i+u[i].n : u[j].kind = "byte"
  BY DEF PacketsWhole, u
<1>1. CASE i \in 1..Len(s)
  <2> DEFINE n == s[i].n
  <2>1. u[i].n = n /\ n \in Nat /\ i + n =< Len(s)
        /\ \A j \in i+1..i+n : s[j].kind = "byte"
    BY <1>0, <1>1, Elements DEF PacketsWhole
  <2> HIDE DEF n
  <2>2. i + n =< Len(u)
    BY <1>0, <1>1, <2>1
  <2>3. ASSUME NEW j \in i+1..i+n PROVE u[j].kind = "byte"
    <3>1. j \in 1..Len(s)
      BY <1>0, <1>1, <2>1
    <3> QED
      BY <1>0, <2>1, <3>1
  <2> QED
    BY <2>1, <2>2, <2>3
<1>2. CASE i \notin 1..Len(s)
  <2>1. i \in Len(s)+1..Len(s)+Len(t)
    BY <1>0, <1>2
  <2> DEFINE k == i - Len(s)
             n == t[k].n
  <2>2. k \in 1..Len(t) /\ u[i] = t[k]
    BY <1>0, <2>1
  <2>3. k + n =< Len(t) /\ \A j \in k+1..k+n : t[j].kind = "byte"
    BY <2>2 DEF PacketsWhole
  <2>4. n \in Nat
    BY <2>2, Elements
  <2>5. k \in Int /\ i = Len(s) + k
    BY <1>0, <2>1
  <2>6. u[i].n = n
    BY <2>2
  <2> HIDE DEF n, k
  <2>7. i + n =< Len(u)
    BY <1>0, <2>3, <2>4, <2>5
  <2>8. ASSUME NEW j \in i+1..i+n PROVE u[j].kind = "byte"
    <3>1. j \in Len(s)+1..Len(s)+Len(t) /\ j - Len(s) \in k+1..k+n
      BY <1>0, <2>2, <2>3, <2>4, <2>5
    <3>2. u[j] = t[j-Len(s)]
      BY <1>0, <3>1
    <3> QED
      BY <2>3, <3>1, <3>2
  <2> QED
    BY <2>6, <2>7, <2>8
<1> QED
  BY <1>1, <1>2

LEMMA JoinBytes ==
    ASSUME NEW s \in Seq(Tokens), NEW t \in Seq(Tokens), NEW c \in Nat,
           BytesNext(s, c)
    PROVE  BytesNext(s \o t, c)
<1>0. /\ Len(s) \in Nat /\ Len(t) \in Nat /\ Len(s \o t) = Len(s) + Len(t)
      /\ \A i \in 1..Len(s) : (s \o t)[i] = s[i]
  BY Joins
<1>1. c =< Len(s) /\ \A j \in 1..c : s[j].kind = "byte"
  BY DEF BytesNext
<1>2. \A j \in 1..c : j \in 1..Len(s)
  BY <1>0, <1>1
<1>3. c =< Len(s \o t)
  BY <1>0, <1>1
<1> QED
  BY <1>0, <1>1, <1>2, <1>3 DEF BytesNext

LEMMA JoinOrder ==
    ASSUME NEW s \in Seq(Tokens), NEW t \in Seq(Tokens),
           NEW low \in Nat, NEW mid \in Nat, NEW high \in Nat,
           InOrder(s, low, mid), InOrder(t, mid, high)
    PROVE  InOrder(s \o t, low, high)
<1> DEFINE u == s \o t
<1>0. /\ Len(s) \in Nat /\ Len(t) \in Nat /\ Len(u) = Len(s) + Len(t)
      /\ \A i \in 1..Len(s) : u[i] = s[i]
      /\ \A i \in Len(s)+1..Len(s)+Len(t) :
                i - Len(s) \in 1..Len(t) /\ u[i] = t[i-Len(s)]
  BY Joins
<1> HIDE DEF u
<1>1. /\ low =< mid
      /\ \A i \in 1..Len(s) : Fresh(s[i]) =>
            /\ low < s[i].n /\ s[i].n =< mid
            /\ \A j \in i+1..Len(s) : Fresh(s[j]) => s[i].n < s[j].n
  BY DEF InOrder
<1>2. /\ mid =< high
      /\ \A i \in 1..Len(t) : Fresh(t[i]) =>
            /\ mid < t[i].n /\ t[i].n =< high
            /\ \A j \in i+1..Len(t) : Fresh(t[j]) => t[i].n < t[j].n
  BY DEF InOrder
<1>3. /\ \A i \in 1..Len(s) : s[i].n \in Nat
      /\ \A i \in 1..Len(t) : t[i].n \in Nat
  BY Elements
<1>4. ASSUME NEW i \in 1..Len(u), Fresh(u[i])
      PROVE  /\ low < u[i].n /\ u[i].n =< high
             /\ \A j \in i+1..Len(u) : Fresh(u[j]) => u[i].n < u[j].n
  <2>1. CASE i \in 1..Len(s)
    <3>1. u[i] = s[i] /\ low < s[i].n /\ s[i].n =< mid
          /\ \A j \in i+1..Len(s) : Fresh(s[j]) => s[i].n < s[j].n
      BY <1>0, <1>1, <1>4, <2>1
    <3>2. s[i].n \in Nat
      BY <1>3, <2>1
    <3>3. ASSUME NEW j \in i+1..Len(u), Fresh(u[j]) PROVE s[i].n < u[j].n
      <4>1. CASE j \in 1..Len(s)
        <5>1. j \in i+1..Len(s)
          BY <4>1
        <5>2. u[j] = s[j]
          BY <1>0, <4>1
        <5> QED
          BY <3>1, <3>3, <5>1, <5>2
      <4>2. CASE j \notin 1..Len(s)
        <5>1. j \in Len(s)+1..Len(s)+Len(t)
          BY <1>0, <2>1, <4>2
        <5>2. j - Len(s) \in 1..Len(t) /\ u[j] = t[j-Len(s)]
          BY <1>0, <5>1
        <5>3. mid < u[j].n /\ u[j].n \in Nat
          BY <1>2, <1>3, <3>3, <5>2
        <5> QED
          BY <3>1, <3>2, <5>3
      <4> QED
        BY <4>1, <4>2
    <3>4. s[i].n =< high
      BY <1>2, <3>1, <3>2
    <3> QED
      BY <3>1, <3>3, <3>4
  <2>2. CASE i \notin 1..Len(s)
    <3>0. i \in Len(s)+1..Len(s)+Len(t)
      BY <1>0, <2>2
    <3> DEFINE k == i - Len(s)
    <3>1. k \in 1..Len(t) /\ u[i] = t[k]
      BY <1>0, <3>0
    <3>2. /\ mid < t[k].n /\ t[k].n =< high /\ t[k].n \in Nat
          /\ \A j \in k+1..Len(t) : Fresh(t[j]) => t[k].n < t[j].n
      BY <1>2, <1>3, <1>4, <3>1
    <3>3. ASSUME NEW j \in i+1..Len(u), Fresh(u[j]) PROVE t[k].n < u[j].n
      <4>1. j \in Len(s)+1..Len(s)+Len(t) /\ j - Len(s) \in k+1..Len(t)
        BY <1>0, <3>0
      <4>2. u[j] = t[j-Len(s)]
        BY <1>0, <4>1
      <4> QED
        BY <3>2, <3>3, <4>1, <4>2
    <3>4. low < t[k].n
      BY <1>1, <3>2
    <3> QED
      BY <3>1, <3>2, <3>3, <3>4
  <2> QED
    BY <2>1, <2>2
<1>5. low =< high
  BY <1>1, <1>2
<1>6. InOrder(u, low, high)
  BY <1>4, <1>5 DEF InOrder
<1> QED
  BY <1>6 DEF u

LEMMA JoinStale ==
    ASSUME NEW s \in Seq(Tokens), NEW t \in Seq(Tokens), NoStale(t)
    PROVE  /\ NoStale(s) => NoStale(s \o t)
           /\ OKIsFresh(s) => OKIsFresh(s \o t)
           /\ NoOK(s) /\ NoOK(t) => NoOK(s \o t)
<1> DEFINE u == s \o t
<1>0. /\ Len(s) \in Nat /\ Len(t) \in Nat /\ Len(u) = Len(s) + Len(t)
      /\ \A i \in 1..Len(s) : u[i] = s[i]
      /\ \A i \in Len(s)+1..Len(s)+Len(t) :
                i - Len(s) \in 1..Len(t) /\ u[i] = t[i-Len(s)]
  BY Joins
<1> HIDE DEF u
<1>1. ASSUME NEW i \in 1..Len(u)
      PROVE  i \in 1..Len(s) \/ i \in Len(s)+1..Len(s)+Len(t)
  BY <1>0
<1>2. ASSUME NEW i \in Len(s)+1..Len(s)+Len(t) PROVE ~Stale(u[i])
  BY <1>0 DEF NoStale
<1>3. ASSUME NoStale(s) PROVE NoStale(u)
  BY <1>0, <1>1, <1>2, <1>3 DEF NoStale
<1>4. ASSUME NoOK(s), NoOK(t) PROVE NoOK(u)
  BY <1>0, <1>1, <1>4 DEF NoOK
<1>5. ASSUME OKIsFresh(s) PROVE OKIsFresh(u)
  <2> SUFFICES ASSUME NEW i \in 1..Len(u), u[i].kind = "OK", NEW j \in i+1..Len(u)
               PROVE  ~Stale(u[j])
    BY DEF OKIsFresh
  <2>1. CASE j \in 1..Len(s)
    <3>1. i \in 1..Len(s) /\ j \in i+1..Len(s)
      BY <2>1
    <3>2. s[i].kind = "OK" /\ u[j] = s[j]
      BY <1>0, <2>1, <3>1
    <3> QED
      BY <1>5, <3>1, <3>2 DEF OKIsFresh
  <2>2. CASE j \notin 1..Len(s)
    <3>1. j \in Len(s)+1..Len(s)+Len(t)
      BY <1>0, <2>2
    <3> QED
      BY <1>2, <3>1
  <2> QED
    BY <2>1, <2>2
<1> QED
  BY <1>3, <1>4, <1>5 DEF u

(* Answers are neither packets nor bytes.                                  *)
LEMMA AnswersPlain ==
    ASSUME NEW t \in Seq(Answers), NEW m \in Nat
    PROVE  t \in Seq(Tokens) /\ PacketsWhole(t) /\ InOrder(t, m, m) /\ NoStale(t)
<1>1. \A i \in 1..Len(t) : t[i] \in Answers
  BY ElementOfSeq
<1>2. \A i \in 1..Len(t) : t[i].kind # "header" /\ t[i].kind # "byte"
  BY <1>1, TokenTypes
<1>3. PacketsWhole(t) /\ InOrder(t, m, m) /\ NoStale(t)
  BY <1>2 DEF PacketsWhole, InOrder, NoStale, Fresh, Stale
<1> QED
  BY <1>3, AnswersAreTokens

(* A packet is one, in order, and has no answer in it.                     *)
LEMMA PacketPlain ==
    ASSUME sent \in Nat, NEW len \in 1..MaxPacket, sent + len =< MaxAnswer
    PROVE  /\ Packet(len) \in Seq(Tokens) /\ PacketsWhole(Packet(len))
           /\ InOrder(Packet(len), sent, sent + len)
           /\ NoStale(Packet(len)) /\ NoOK(Packet(len))
<1> DEFINE p == Packet(len)
<1>1. /\ p \in Seq(Tokens) /\ Len(p) = len + 1 /\ p[1] = Header(len)
      /\ \A i \in 2..len+1 : p[i] = [kind |-> "byte", n |-> sent + (i - 1)]
      /\ len \in Nat /\ len >= 1
  BY Packets, Bounds
<1> HIDE DEF p
<1>2. p[1].kind = "header" /\ p[1].n = len
  BY <1>1 DEF Header
<1>3. ASSUME NEW i \in 2..len+1
      PROVE  p[i].kind = "byte" /\ p[i].n = sent + (i - 1)
  <2>1. p[i] = [kind |-> "byte", n |-> sent + (i - 1)]
    BY <1>1
  <2> QED
    BY <2>1
<1>4. ASSUME NEW i \in 1..Len(p) PROVE i = 1 \/ i \in 2..len+1
  BY <1>1
<1>5. PacketsWhole(p)
  <2> SUFFICES ASSUME NEW i \in 1..Len(p), p[i].kind = "header"
               PROVE  /\ i + p[i].n =< Len(p)
                      /\ \A j \in i+1..i+p[i].n : p[j].kind = "byte"
    BY DEF PacketsWhole
  <2>1. i = 1
    BY <1>3, <1>4
  <2>2. 1 + len =< Len(p) /\ \A j \in 1+1..1+len : j \in 2..len+1
    BY <1>1
  <2> QED
    BY <1>2, <1>3, <2>1, <2>2
<1>6. InOrder(p, sent, sent + len)
  <2>1. ASSUME NEW i \in 1..Len(p), Fresh(p[i])
        PROVE  /\ sent < p[i].n /\ p[i].n =< sent + len
               /\ \A j \in i+1..Len(p) : Fresh(p[j]) => p[i].n < p[j].n
    <3>1. i \in 2..len+1
      BY <1>2, <1>4, <2>1 DEF Fresh
    <3>2. p[i].n = sent + (i - 1)
      BY <1>3, <3>1
    <3>3. ASSUME NEW j \in i+1..Len(p) PROVE p[i].n < p[j].n
      <4>1. j \in 2..len+1 /\ i < j
        BY <1>1, <3>1
      <4>2. p[j].n = sent + (j - 1)
        BY <1>3, <4>1
      <4> QED
        BY <3>1, <3>2, <4>1, <4>2
    <3> QED
      BY <1>1, <3>1, <3>2, <3>3
  <2>2. sent =< sent + len
    BY <1>1
  <2> QED
    BY <2>1, <2>2 DEF InOrder
<1>7. NoStale(p)
  <2> SUFFICES ASSUME NEW i \in 1..Len(p), Stale(p[i]) PROVE FALSE
    BY DEF NoStale
  <2>1. i \in 2..len+1
    BY <1>2, <1>4 DEF Stale
  <2>2. p[i].n = sent + (i - 1) /\ p[i].n = 0
    BY <1>3, <2>1 DEF Stale
  <2> QED
    BY <2>1, <2>2
<1>8. NoOK(p)
  BY <1>2, <1>3, <1>4 DEF NoOK
<1> QED
  BY <1>1, <1>5, <1>6, <1>7, <1>8 DEF p

-----------------------------------------------------------------------------
(* A sketch that stops only when nothing is left to read has read all that *)
(* was announced.                                                          *)
LEMMA AnnouncedStep ==
    ASSUME EarlyStop = FALSE, TypeOK, SocketInv, StageInv, AnnouncedInv, [Next]_vars
    PROVE  AnnouncedInv'
<1>0. bufPos \in Nat
  BY Bounds DEF TypeOK
<1>1. CASE Module \/ Server \/ UNCHANGED vars
  <2>1. UNCHANGED client
    BY <1>1, OthersLeaveClient DEF vars
  <2> QED
    BY <2>1 DEF AnnouncedInv, client
<1>2. CASE Available \/ FindTimeout \/ NotDue \/ Due
  <2>1. CASE Available
    <3>1. /\ sock = None => pc' = "due"
          /\ sock # None /\ ~(bufPos > 0) => pc' \in {"finding", "due"}
          /\ sock # None /\ bufPos > 0 => pc' = "reading"
          /\ UNCHANGED <<sock, bufPos>>
      BY <2>1 DEF Available
    <3> QED
      BY <1>0, <3>1 DEF AnnouncedInv
  <2>2. CASE FindTimeout \/ NotDue
    BY <1>0, <2>2 DEF AnnouncedInv, FindTimeout, NotDue
  <2>3. CASE Due
    <3>1. pc = "due" /\ pc' = "stop" /\ UNCHANGED <<sock, bufPos>>
      BY <2>3 DEF Due
    <3> QED
      BY <1>0, <3>1 DEF AnnouncedInv
  <2> QED
    BY <1>2, <2>1, <2>2, <2>3
<1>3. CASE FindHeader
  BY <1>3 DEF AnnouncedInv, FindHeader, Take
<1>4. CASE GetByte
  <2>1. bufPos > 0 /\ pc = "reading" /\ sock # None /\ sock' = sock
        /\ bufPos' = bufPos - 1 /\ pc' = IF bufPos = 1 THEN "last" ELSE "loop"
    BY <1>4 DEF AnnouncedInv, StageInv, GetByte
  <2> QED
    BY <1>0, <2>1 DEF AnnouncedInv
<1>5. CASE GetTimeout
  BY <1>5 DEF AnnouncedInv, GetTimeout
<1>6. CASE LastByte
  BY <1>0, <1>6 DEF AnnouncedInv, LastByte
<1>7. CASE Stop
  BY <1>0, <1>7 DEF AnnouncedInv, Stop
<1>8. CASE Stopped
  <2>1. pc \in {"closing", "abandoning"} /\ bufPos' = bufPos /\ pc' # "finding"
    BY <1>8 DEF Stopped, Take
  <2> QED
    BY <1>0, <2>1 DEF AnnouncedInv
<1>9. CASE Connect
  <2>1. pc = "connect" /\ bufPos' = bufPos /\ pc' # "finding"
    BY <1>9 DEF Connect
  <2> QED
    BY <1>0, <2>1 DEF AnnouncedInv
<1>10. CASE NotConnected \/ WriteFailed
  <2>1. pc \in {"starting", "prompt", "sending"} /\ bufPos' = bufPos /\ pc' # "finding"
    BY <1>10 DEF NotConnected, WriteFailed, Take
  <2> QED
    BY <1>0, <2>1 DEF AnnouncedInv
<1>11. CASE Connected \/ Write \/ Prompted \/ Written
  BY <1>0, <1>11 DEF AnnouncedInv, Connected, Write, Prompted, Written, Take
<1>12. CASE SkipOther
  BY <1>12 DEF AnnouncedInv, SkipOther, Skip, client
<1> QED
  BY <1>1, <1>2, <1>3, <1>4, <1>5, <1>6, <1>7, <1>8, <1>9, <1>10, <1>11, <1>12
     DEF Next, Sketch

LEMMA EmptyLine ==
    /\ PacketsWhole(<<>>) /\ BytesNext(<<>>, 0) /\ NoStale(<<>>)
    /\ OKIsFresh(<<>>) /\ NoOK(<<>>)
    /\ \A low, high \in Nat : low =< high => InOrder(<<>>, low, high)
<1>1. Len(<<>>) = 0 /\ 1..0 = {}
  OBVIOUS
<1> QED
  BY <1>1 DEF PacketsWhole, BytesNext, NoStale, OKIsFresh, NoOK, InOrder

(* Only connect() takes a socket or sends for a link.                      *)
LEMMA SketchHolds ==
    ASSUME TypeOK, SocketInv, Sketch, ~Connect, ~Connected
    PROVE  /\ sock' \in allocated' => sock \in allocated
           /\ pc' = "starting" => pc = "starting"
           /\ doing' = "start" => doing = "start"
<1>1. sock' \in allocated' => sock \in allocated
  <2>1. CASE UNCHANGED <<sock, allocated>>
    BY <2>1
  <2>2. CASE Release
    BY <2>2, ReleaseEmpties
  <2>3. UNCHANGED <<sock, allocated>> \/ Release
    BY DEF Sketch, Available, FindHeader, FindTimeout, GetByte, GetTimeout, LastByte,
           NotDue, Due, Stop, Stopped, NotConnected, Write, Prompted, Written,
           WriteFailed, SkipOther, Skip, client
  <2> QED
    BY <2>1, <2>2, <2>3
<1>2. pc' = "starting" => pc = "starting"
  <2>1. CASE SkipOther
    BY <2>1 DEF SkipOther, Skip, client
  <2>2. CASE Available \/ FindHeader \/ FindTimeout \/ GetByte \/ GetTimeout
    BY <2>2 DEF Available, FindHeader, FindTimeout, GetByte, GetTimeout
  <2>3. CASE \/ LastByte \/ NotDue \/ Due \/ Stop \/ Stopped \/ NotConnected
             \/ Write \/ Prompted \/ Written \/ WriteFailed
    BY <2>3 DEF LastByte, NotDue, Due, Stop, Stopped, NotConnected, Write, Prompted,
                Written, WriteFailed
  <2> QED
    BY <2>1, <2>2, <2>3 DEF Sketch
<1>3. doing' = "start" => doing = "start"
  <2>1. CASE UNCHANGED <<module, request>>
    BY <2>1 DEF module
  <2>2. ASSUME NEW text \in {"close", "send", "data"}, Hear(text)
        PROVE  doing' = "start" => doing = "start"
    <3>1. text \in Texts /\ text # "start"
      BY DEF Texts
    <3> QED
      BY <2>2, <3>1, Hearing
  <2>3. UNCHANGED <<module, request>> \/ Hear("close") \/ Hear("send") \/ Hear("data")
    <3>1. CASE \/ Available \/ FindHeader \/ FindTimeout \/ GetByte \/ GetTimeout
               \/ LastByte \/ NotDue \/ Due
      BY <3>1 DEF Available, FindHeader, FindTimeout, GetByte, GetTimeout, LastByte,
                  NotDue, Due, link
    <3>2. CASE Stop
      BY <3>2 DEF Stop, SendCmd
    <3>3. CASE Stopped \/ NotConnected \/ WriteFailed
      BY <3>3 DEF Stopped, NotConnected, WriteFailed, Timeout, link
    <3>4. CASE Written \/ SkipOther
      BY <3>4 DEF Written, SkipOther, Skip, link
    <3>5. CASE Write \/ Prompted
      BY <3>5 DEF Write, Prompted
    <3> QED
      BY <3>1, <3>2, <3>3, <3>4, <3>5 DEF Sketch
  <2> QED
    BY <2>1, <2>2, <2>3
<1> QED
  BY <1>1, <1>2, <1>3

(* Taking a token, when nothing announced is left, keeps the line.         *)
LEMMA LineTail ==
    ASSUME TypeOK, SocketInv, LineInv, Sketch, ~Connect, ~Connected,
           rx # <<>>, rx' = Tail(rx), bufPos' = 0, UNCHANGED <<got, sent>>
    PROVE  LineInv'
<1>0. rx \in Seq(Tokens) /\ got \in Nat /\ sent \in Nat
  BY Bounds DEF TypeOK
<1>1. PacketsWhole(Tail(rx)) /\ InOrder(Tail(rx), got, sent)
  BY <1>0, TailPackets, TailOrder DEF LineInv
<1>2. BytesNext(Tail(rx), 0)
  <2>1. Len(Tail(rx)) >= 0
    BY <1>0, Tails
  <2> QED
    BY <2>1 DEF BytesNext
<1>3. /\ sock' \in allocated' => NoStale(Tail(rx))
      /\ pc' = "starting" => OKIsFresh(Tail(rx))
      /\ doing' = "start" => sock' \notin allocated'
                             /\ (pc' = "starting" => NoOK(Tail(rx)))
  BY <1>0, SketchHolds, TailStale DEF LineInv
<1> QED
  BY <1>1, <1>2, <1>3 DEF LineInv

(* Reading the line without taking from it.                                *)
LEMMA LineSame ==
    ASSUME TypeOK, SocketInv, LineInv, Sketch, ~Connect, ~Connected,
           rx' = rx, bufPos' \in {0, bufPos}, UNCHANGED <<got, sent>>
    PROVE  LineInv'
<1>1. BytesNext(rx, bufPos')
  <2>1. BytesNext(rx, 0)
    <3>1. Len(rx) >= 0
      BY LenProperties DEF TypeOK
    <3> QED
      BY <3>1 DEF BytesNext
  <2> QED
    BY <2>1 DEF LineInv
<1> QED
  BY <1>1, SketchHolds DEF LineInv

LEMMA LineGetByte ==
    ASSUME TypeOK, SocketInv, StageInv, LineInv, GetByte PROVE LineInv'
<1>0. /\ rx \in Seq(Tokens) /\ got \in Nat /\ sent \in Nat /\ bufPos \in Nat
      /\ rx # <<>> /\ rx' = Tail(rx) /\ bufPos > 0 /\ bufPos' = bufPos - 1
      /\ sent' = sent
  BY Bounds DEF TypeOK, GetByte, StageInv, link
<1>1. bufPos' \in Nat /\ BytesNext(rx, bufPos' + 1)
  <2>1. (bufPos - 1) + 1 = bufPos /\ bufPos - 1 \in Nat
    BY <1>0
  <2> QED
    BY <1>0, <2>1 DEF LineInv
<1>2. rx[1].kind = "byte" /\ Head(rx) = rx[1] /\ rx[1].n \in Nat
  <2>1. 1 \in 1..Len(rx) /\ 1 \in 1..bufPos
    BY <1>0, Tails
  <2> QED
    BY <1>0, <2>1, Tails, Elements DEF LineInv, BytesNext
<1>3. PacketsWhole(rx') /\ BytesNext(rx', bufPos')
  BY <1>0, <1>1, TailPackets, TailBytes DEF LineInv
<1>4. InOrder(Tail(rx), rx[1].n, sent)
  <2>1. InOrder(rx, got, sent)
    BY DEF LineInv
  <2>2. CASE rx[1].n # 0
    BY <1>0, <1>2, <2>1, <2>2, TailOrder DEF Fresh
  <2>3. CASE rx[1].n = 0
    <3>1. InOrder(Tail(rx), got, sent) /\ Tail(rx) \in Seq(Tokens)
      BY <1>0, <2>1, TailOrder, Tails
    <3> QED
      BY <1>0, <2>3, <3>1, LowerOrder
  <2> QED
    BY <2>2, <2>3
<1>5. InOrder(rx', got', sent')
  <2>1. got' = rx[1].n
    BY <1>2 DEF GetByte
  <2> QED
    BY <1>0, <1>4, <2>1
<1>6. /\ UNCHANGED <<sock, allocated, doing>> /\ pc' # "starting"
      /\ (NoStale(rx) => NoStale(rx'))
  BY <1>0, TailStale DEF GetByte, module
<1> QED
  BY <1>3, <1>5, <1>6 DEF LineInv

LEMMA LineFindHeader ==
    ASSUME TypeOK, LineInv, FindHeader PROVE LineInv'
<1>0. /\ rx \in Seq(Tokens) /\ got \in Nat /\ sent \in Nat
      /\ rx # <<>> /\ rx' = Tail(rx) /\ Head(rx).kind = "header" /\ bufPos' = Head(rx).n
      /\ UNCHANGED <<got, sent>>
  BY Bounds DEF TypeOK, FindHeader, Take, link, ghosts
<1>1. /\ Len(rx) \in Nat /\ Len(rx) >= 1 /\ Head(rx) = rx[1]
      /\ Len(rx') = Len(rx) - 1 /\ \A i \in 1..Len(rx)-1 : rx'[i] = rx[i+1]
  BY <1>0, Tails
<1> DEFINE n == rx[1].n
<1>2. /\ n \in Nat /\ 1 + n =< Len(rx)
      /\ \A j \in 1+1..1+n : rx[j].kind = "byte"
  <2>1. 1 \in 1..Len(rx)
    BY <1>1
  <2>2. n \in Nat
    BY <1>0, <2>1, Elements
  <2> QED
    BY <1>0, <1>1, <2>1, <2>2 DEF LineInv, PacketsWhole
<1>3. bufPos' = n
  BY <1>0, <1>1
<1> HIDE DEF n
<1>4. BytesNext(rx', n)
  <2>1. ASSUME NEW j \in 1..n PROVE rx'[j].kind = "byte"
    <3>1. j \in 1..Len(rx)-1 /\ j + 1 \in 1+1..1+n
      BY <1>1, <1>2
    <3> QED
      BY <1>1, <1>2, <3>1
  <2>2. n =< Len(rx')
    BY <1>1, <1>2
  <2> QED
    BY <2>1, <2>2 DEF BytesNext
<1>5. PacketsWhole(rx') /\ InOrder(rx', got', sent')
  BY <1>0, TailPackets, TailOrder DEF LineInv
<1>6. /\ UNCHANGED <<sock, allocated, doing>> /\ pc' # "starting"
      /\ (NoStale(rx) => NoStale(rx'))
  BY <1>0, TailStale DEF FindHeader, module
<1> QED
  BY <1>3, <1>4, <1>5, <1>6 DEF LineInv

LEMMA LineConnect ==
    ASSUME TypeOK, SocketInv, AnnouncedInv, LineInv, Connect PROVE LineInv'
<1>1. /\ allocated = {} /\ allocated' = {} /\ Sockets \ allocated = Sockets
      /\ pc = "connect" /\ bufPos' = bufPos /\ UNCHANGED <<got, sent>>
  BY DEF SocketInv, Connect, ghosts
<1>2. Max(Sockets) \in Sockets
  BY LastSocket
<1>3. rx' = <<>>
  BY <1>1, <1>2 DEF Connect, SendCmd
<1>4. bufPos = 0 /\ got \in Nat /\ sent \in Nat /\ got =< sent
  <2>1. bufPos \in Nat /\ got \in Nat /\ sent \in Nat
    BY Bounds DEF TypeOK
  <2>2. ~(bufPos > 0)
    BY <1>1 DEF AnnouncedInv
  <2> QED
    BY <2>1, <2>2 DEF LineInv, InOrder
<1> QED
  BY <1>1, <1>3, <1>4, EmptyLine DEF LineInv

LEMMA LineConnected ==
    ASSUME TypeOK, AnnouncedInv, LineInv, Connected PROVE LineInv'
<1>1. /\ pc = "starting" /\ pc' = "write" /\ rx # <<>> /\ rx' = Tail(rx)
      /\ Head(rx).kind = "OK" /\ UNCHANGED <<bufPos, doing, got, sent>>
  BY DEF Connected, Take, module, link, ghosts
<1>2. rx \in Seq(Tokens) /\ got \in Nat /\ sent \in Nat /\ bufPos \in Nat
  BY Bounds DEF TypeOK
<1>3. Len(rx) \in Nat /\ Len(rx) >= 1 /\ rx[1].kind = "OK" /\ Len(rx') = Len(rx) - 1
  BY <1>1, <1>2, Tails
<1>4. PacketsWhole(rx') /\ InOrder(rx', got, sent)
  BY <1>1, <1>2, TailPackets, TailOrder DEF LineInv
<1>5. BytesNext(rx', bufPos)
  <2>1. bufPos = 0
    BY <1>1, <1>2 DEF AnnouncedInv
  <2> QED
    BY <1>3, <2>1 DEF BytesNext
<1>6. NoStale(rx')
  BY <1>1, <1>2, <1>3, TailStale DEF LineInv
<1>7. doing # "start"
  <2>1. 1 \in 1..Len(rx)
    BY <1>3
  <2>2. ~NoOK(rx)
    BY <1>3, <2>1 DEF NoOK
  <2> QED
    BY <1>1, <2>2 DEF LineInv
<1> QED
  BY <1>1, <1>4, <1>5, <1>6, <1>7 DEF LineInv

LEMMA LineSketch ==
    ASSUME TypeOK, SocketInv, StageInv, AnnouncedInv, LineInv, Sketch PROVE LineInv'
<1>0. bufPos \in Nat
  BY Bounds DEF TypeOK
<1>1. CASE FindTimeout \/ NotDue \/ Due \/ Available \/ GetTimeout \/ Write
  <2>1. rx' = rx /\ bufPos' \in {0, bufPos} /\ UNCHANGED <<got, sent>>
    BY <1>1 DEF FindTimeout, NotDue, Due, Available, GetTimeout, Write, link, ghosts
  <2>2. ~Connect /\ ~Connected
    BY <1>1 DEF FindTimeout, NotDue, Due, Available, GetTimeout, Write, Connect,
                Connected, Take
  <2> QED
    BY <2>1, <2>2, LineSame
<1>2. ASSUME pc \notin {"loop", "reading", "connect"}, ~Connected,
             UNCHANGED <<bufPos, got, sent>>
      PROVE  LineInv'
  <2>1. bufPos' = 0 /\ bufPos = 0
    BY <1>0, <1>2 DEF AnnouncedInv
  <2>2. ~Connect
    BY <1>2 DEF Connect
  <2>3. CASE rx' = rx
    BY <1>2, <2>1, <2>2, <2>3, LineSame
  <2>4. CASE rx # <<>> /\ rx' = Tail(rx)
    BY <1>2, <2>1, <2>2, <2>4, LineTail
  <2>5. CASE rx' = <<>>
    <3>1. got \in Nat /\ sent \in Nat /\ got =< sent
      BY Bounds DEF TypeOK, LineInv, InOrder
    <3>2. doing' = "start" => sock' \notin allocated'
      BY <1>2, <2>2, SketchHolds DEF LineInv
    <3> QED
      BY <1>2, <2>1, <2>5, <3>1, <3>2, EmptyLine DEF LineInv
  <2> QED
    BY <2>3, <2>4, <2>5, SketchLine
<1>3. CASE LastByte \/ Stop
  <2>1. pc \notin {"loop", "reading", "connect"} /\ ~Connected
        /\ UNCHANGED <<bufPos, got, sent>>
    BY <1>3 DEF LastByte, Stop, Connected, Take, link, ghosts
  <2> QED
    BY <1>2, <2>1
<1>4. CASE Stopped
  <2>1. pc \in {"closing", "abandoning"} /\ UNCHANGED <<bufPos, got, sent>>
    BY <1>4 DEF Stopped, Take, Timeout, link, ghosts
  <2>2. ~Connected
    BY <2>1 DEF Connected, Take
  <2> QED
    BY <1>2, <2>1, <2>2
<1>5. CASE NotConnected
  <2>1. pc = "starting" /\ pc' = "loop" /\ UNCHANGED <<bufPos, got, sent>>
    BY <1>5 DEF NotConnected, Take, Timeout, link, ghosts
  <2>2. ~Connected
    BY <2>1 DEF Connected
  <2> QED
    BY <1>2, <2>1, <2>2
<1>6. CASE Prompted \/ Written \/ WriteFailed
  <2>1. pc \in {"prompt", "sending"} /\ UNCHANGED <<bufPos, got, sent>>
    BY <1>6 DEF Prompted, Written, WriteFailed, Take, Timeout, link, ghosts
  <2>2. ~Connected
    BY <2>1 DEF Connected, Take
  <2> QED
    BY <1>2, <2>1, <2>2
<1>7. CASE SkipOther
  <2>1. /\ pc \in {"finding", "closing", "abandoning", "starting", "sending", "prompt"}
        /\ pc' = pc /\ UNCHANGED <<bufPos, got, sent>>
    BY <1>7 DEF SkipOther, Skip, client, link, ghosts
  <2>2. ~Connected
    BY <2>1 DEF Connected, Take
  <2> QED
    BY <1>2, <2>1, <2>2
<1> QED
  BY <1>1, <1>3, <1>4, <1>5, <1>6, <1>7, LineGetByte, LineFindHeader, LineConnect,
     LineConnected DEF Sketch

(* Answers, which hold no OK if the module has still to start a link.      *)
LEMMA LineAnswers ==
    ASSUME TypeOK, LineInv, NEW t \in Seq(Answers), rx' = rx \o t,
           UNCHANGED <<client, got, sent>>,
           doing' = "start" => doing = "start" /\ NoOK(t)
    PROVE  LineInv'
<1>0. rx \in Seq(Tokens) /\ got \in Nat /\ sent \in Nat /\ bufPos \in Nat
  BY Bounds DEF TypeOK
<1>1. t \in Seq(Tokens) /\ PacketsWhole(t) /\ InOrder(t, sent, sent) /\ NoStale(t)
  BY <1>0, AnswersPlain
<1>2. PacketsWhole(rx') /\ BytesNext(rx', bufPos) /\ InOrder(rx', got, sent)
  BY <1>0, <1>1, JoinPackets, JoinBytes, JoinOrder DEF LineInv
<1>3. /\ NoStale(rx) => NoStale(rx')
      /\ OKIsFresh(rx) => OKIsFresh(rx')
      /\ NoOK(rx) /\ NoOK(t) => NoOK(rx')
  BY <1>0, <1>1, JoinStale
<1> QED
  BY <1>2, <1>3 DEF LineInv, client

LEMMA LineSays == ASSUME TypeOK, LineInv, Says PROVE LineInv'
<1>0. rx \in Seq(Tokens)
  BY DEF TypeOK
<1>1. CASE StartRefused \/ Close \/ SendPrompt \/ Deliver \/ Junk
  <2>1. UNCHANGED <<client, got, sent>>
    BY <1>1 DEF StartRefused, Close, SendPrompt, Deliver, Junk, Answer, link, ghosts
  <2>2. doing' # "start"
    BY <1>1 DEF StartRefused, Close, SendPrompt, Deliver, Junk, Answer
  <2>3. PICK t \in Seq(Answers) : rx' = rx \o t
    BY <1>0, SaysAnswers
  <2> QED
    BY <2>1, <2>2, <2>3, LineAnswers
<1>2. CASE ServerCloses
  <2> DEFINE t == <<Token("closed")>>
  <2>1. t \in Seq(Answers) /\ Token("closed") \in Tokens
    BY AnswerSeqs, TokenTypes
  <2>2. rx' = rx \o t
    BY <1>0, <1>2, <2>1, AppendIsConcat DEF ServerCloses
  <2>3. NoOK(t)
    <3>1. Len(t) = 1 /\ t[1].kind = "closed"
      BY DEF Token
    <3> QED
      BY <3>1 DEF NoOK
  <2>4. UNCHANGED <<client, doing, got, sent>>
    BY <1>2 DEF ServerCloses, module
  <2> HIDE DEF t
  <2> QED
    BY <2>1, <2>2, <2>3, <2>4, LineAnswers
<1> QED
  BY <1>1, <1>2 DEF Says

LEMMA LineStart == ASSUME TypeOK, LineInv, Start PROVE LineInv'
<1>0. /\ rx \in Seq(Tokens) /\ Len(rx) \in Nat /\ bufPos \in Nat
      /\ UNCHANGED client /\ doing = "start" /\ doing' = "idle"
      /\ got' = 0 /\ sent' = 0
  BY Bounds, LenProperties DEF TypeOK, Start
<1>1. /\ Len(rx') = Len(rx) + 1 /\ rx'[Len(rx)+1].kind = "OK"
      /\ \A i \in 1..Len(rx) :
            /\ rx'[i].kind = rx[i].kind
            /\ IF rx[i].kind = "byte" THEN rx'[i].n = 0 ELSE rx'[i] = rx[i]
  BY <1>0, Starting DEF Token
<1>2. ASSUME NEW i \in 1..Len(rx') PROVE i \in 1..Len(rx) \/ i = Len(rx) + 1
  BY <1>0, <1>1
<1>3. PacketsWhole(rx')
  <2> SUFFICES ASSUME NEW i \in 1..Len(rx'), rx'[i].kind = "header"
               PROVE  /\ i + rx'[i].n =< Len(rx')
                      /\ \A j \in i+1..i+rx'[i].n : rx'[j].kind = "byte"
    BY DEF PacketsWhole
  <2>1. i \in 1..Len(rx) /\ rx[i].kind = "header" /\ rx'[i] = rx[i]
    BY <1>1, <1>2
  <2> DEFINE n == rx[i].n
  <2>2. n \in Nat /\ i + n =< Len(rx) /\ \A j \in i+1..i+n : rx[j].kind = "byte"
    BY <1>0, <2>1, Elements DEF LineInv, PacketsWhole
  <2>3. rx'[i].n = n
    BY <2>1
  <2> HIDE DEF n
  <2>4. i + n =< Len(rx') /\ \A j \in i+1..i+n : j \in 1..Len(rx)
    BY <1>0, <1>1, <2>1, <2>2
  <2> QED
    BY <1>1, <2>2, <2>3, <2>4
<1>4. BytesNext(rx', bufPos)
  <2>1. bufPos =< Len(rx) /\ \A j \in 1..bufPos : rx[j].kind = "byte"
    BY DEF LineInv, BytesNext
  <2>2. bufPos =< Len(rx') /\ \A j \in 1..bufPos : j \in 1..Len(rx)
    BY <1>0, <1>1, <2>1
  <2> QED
    BY <1>1, <2>1, <2>2 DEF BytesNext
<1>5. InOrder(rx', 0, 0)
  <2>1. \A i \in 1..Len(rx') : ~Fresh(rx'[i])
    BY <1>1, <1>2 DEF Fresh
  <2> QED
    BY <2>1 DEF InOrder
<1>6. sock \notin allocated
  BY <1>0 DEF LineInv
<1>7. ASSUME pc = "starting" PROVE OKIsFresh(rx')
  <2>1. NoOK(rx)
    BY <1>0, <1>7 DEF LineInv
  <2> SUFFICES ASSUME NEW i \in 1..Len(rx'), rx'[i].kind = "OK"
               PROVE  \A j \in i+1..Len(rx') : ~Stale(rx'[j])
    BY DEF OKIsFresh
  <2>2. i = Len(rx) + 1
    BY <1>1, <1>2, <2>1 DEF NoOK
  <2>3. i+1..Len(rx') = {}
    BY <1>0, <1>1, <2>2
  <2> QED
    BY <2>3
<1> QED
  BY <1>0, <1>3, <1>4, <1>5, <1>6, <1>7 DEF LineInv, client

LEMMA LineRespond ==
    ASSUME TypeOK, LineInv, NEW len \in 1..MaxPacket, Respond(len) PROVE LineInv'
<1>0. /\ rx \in Seq(Tokens) /\ got \in Nat /\ sent \in Nat /\ bufPos \in Nat
      /\ sent + len =< MaxAnswer /\ sent' = sent + len /\ sent' \in Nat
      /\ rx' = rx \o Packet(len) /\ UNCHANGED <<client, doing, got>>
  BY Bounds DEF TypeOK, Respond, module, ghosts
<1>1. /\ Packet(len) \in Seq(Tokens) /\ PacketsWhole(Packet(len))
      /\ InOrder(Packet(len), sent, sent')
      /\ NoStale(Packet(len)) /\ NoOK(Packet(len))
  BY <1>0, PacketPlain
<1>2. PacketsWhole(rx') /\ BytesNext(rx', bufPos) /\ InOrder(rx', got, sent')
  BY <1>0, <1>1, JoinPackets, JoinBytes, JoinOrder DEF LineInv
<1>3. /\ NoStale(rx) => NoStale(rx')
      /\ OKIsFresh(rx) => OKIsFresh(rx')
      /\ NoOK(rx) => NoOK(rx')
  BY <1>0, <1>1, JoinStale
<1> QED
  BY <1>0, <1>2, <1>3 DEF LineInv, client

-----------------------------------------------------------------------------
(* A line that loses nothing, and a client that stops when nothing is left *)
(* to read.                                                                *)
LosslessInv == AnnouncedInv /\ (lossless => LineInv)

LEMMA LosslessInit == Init => LosslessInv
<1> SUFFICES ASSUME Init PROVE LosslessInv
  OBVIOUS
<1>1. AnnouncedInv
  BY DEF Init, AnnouncedInv
<1>2. LineInv
  BY EmptyLine DEF Init, LineInv
<1> QED
  BY <1>1, <1>2 DEF LosslessInv

LEMMA LosslessStep ==
    ASSUME EarlyStop = FALSE, TypeOK, SocketInv, StageInv, LosslessInv, [Next]_vars
    PROVE  LosslessInv'
<1>1. AnnouncedInv'
  BY AnnouncedStep DEF LosslessInv
<1>2. ASSUME lossless' PROVE lossless
  <2>1. CASE Sketch \/ Module \/ UNCHANGED vars
    BY <1>2, <2>1 DEF Sketch, Available, FindHeader, FindTimeout, GetByte, GetTimeout,
       LastByte, NotDue, Due, Stop, Stopped, Connect, Connected, NotConnected, Write,
       Prompted, Written, WriteFailed, SkipOther, Skip, Timeout, Module, Start,
       StartRefused, Close, SendPrompt, Deliver, Junk, Answer, vars, ghosts
  <2>2. CASE Server
    BY <1>2, <2>2 DEF Server, Respond, RespondLossy, ServerCloses, ghosts
  <2> QED
    BY <2>1, <2>2 DEF Next
<1>3. ASSUME LineInv, lossless' PROVE LineInv'
  <2>1. ASSUME NEW len \in 1..MaxPacket, RespondLossy(len) PROVE LineInv'
    BY <1>3, <2>1 DEF RespondLossy
  <2>2. CASE UNCHANGED vars
    BY <1>3, <2>2 DEF LineInv, vars, client, module, link, ghosts
  <2>3. AnnouncedInv
    BY DEF LosslessInv
  <2> QED
    BY <1>3, <2>1, <2>2, <2>3, LineSketch, LineSays, LineStart, LineRespond
       DEF Next, Module, Server, Says
<1> QED
  BY <1>1, <1>2, <1>3 DEF LosslessInv

LEMMA LosslessHolds ==
    ASSUME EarlyStop = FALSE PROVE Spec => []LosslessInv
<1>1. Init => LosslessInv
  BY LosslessInit
<1>2. TypeOK /\ SocketInv /\ StageInv /\ LosslessInv /\ [Next]_vars => LosslessInv'
  BY LosslessStep
<1> QED
  BY <1>1, <1>2, SafeInvHolds, PTL DEF Spec

(* Whatever is refused, broken or late: as long as the line loses nothing, *)
(* a client that stops only when nothing is left to read gets, by read(),  *)
(* bytes of the server and nothing else, those of its own connection and   *)
(* in their order.  The run esp_early_stop shows that the hypothesis is    *)
(* needed.                                                                 *)
THEOREM ReadsInOrder ==
    ASSUME EarlyStop = FALSE PROVE Spec => ReadsAreSent
<1> DEFINE Reading == pc = "reading" /\ pc' # pc /\ rx # <<>> /\ lossless =>
                        /\ Head(rx).kind = "byte"
                        /\ sock \in allocated => Head(rx).n > got
<1>1. TypeOK /\ StageInv /\ LosslessInv => Reading
  <2> SUFFICES ASSUME TypeOK, StageInv, LosslessInv, pc = "reading", rx # <<>>,
                      lossless
               PROVE  /\ Head(rx).kind = "byte"
                      /\ sock \in allocated => Head(rx).n > got
    OBVIOUS
  <2>1. /\ rx \in Seq(Tokens) /\ Head(rx) = rx[1] /\ 1 \in 1..Len(rx)
        /\ bufPos \in Nat /\ 1 \in 1..bufPos /\ got \in Nat
    BY Tails, Bounds DEF TypeOK, StageInv
  <2>2. LineInv
    BY DEF LosslessInv
  <2>3. rx[1].kind = "byte"
    BY <2>1, <2>2 DEF LineInv, BytesNext
  <2>4. ASSUME sock \in allocated PROVE rx[1].n > got
    <3>1. Fresh(rx[1])
      BY <2>1, <2>2, <2>3, <2>4 DEF LineInv, NoStale, Stale, Fresh
    <3>2. got < rx[1].n /\ rx[1].n \in Nat
      BY <2>1, <2>2, <3>1, Elements DEF LineInv, InOrder
    <3> QED
      BY <2>1, <3>2
  <2> QED
    BY <2>1, <2>3, <2>4
<1>2. Spec => [][Reading]_vars
  <2>1. TypeOK /\ StageInv /\ LosslessInv /\ [Next]_vars => [Reading]_vars
    BY <1>1
  <2> QED
    BY <2>1, SafeInvHolds, LosslessHolds, PTL DEF Spec
<1> QED
  BY <1>2 DEF ReadsAreSent
=============================================================================
