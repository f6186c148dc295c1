----------------------------- MODULE EspClient -----------------------------
(***************************************************************************)
(* libraries/WiFiEsp as the sketch WebClientRepeating drives it: a client  *)
(* that closes its connection, opens a new one, writes a request in        *)
(* several pieces and reads the answer, all over one serial line to an     *)
(* ESP8266 module.  Answers to commands, prompts, payload and notices that *)
(* the connection was closed share that line, and the driver finds its way *)
(* by waiting for one text and dropping the rest, until a timeout.         *)
(*                                                                         *)
(* The serial line to the sketch is a sequence of tokens: an answer, the   *)
(* prompt ">", "+IPD,<id>,<len>:" (header), a byte of payload or           *)
(* "<id>,CLOSED".  A token is there as soon as the module sends it, and a  *)
(* text to the module is heard at once: what can be late is the module's   *)
(* answering.  The sketch has one client, so one link of the module is in  *)
(* use and its id left out.                                                *)
(***************************************************************************)
EXTENDS Integers, Sequences, SequencesExt, FiniteSetsExt

CONSTANTS
    NumSockets,     \* MAX_SOCK_NUM
    NumWrites,      \* pieces in which the sketch writes its request
    MaxPacket,      \* bound: bytes of a packet
    MaxAnswer,      \* bound: bytes of the server's answer
    MaxFaults,      \* bound: refused or broken connections, lost bytes and
                    \* timeouts that end before the answer they wait for
    EarlyStop       \* may the sketch stop() before it has read everything?

ASSUME BoundsAssumption ==
    /\ {NumSockets, NumWrites, MaxPacket, MaxAnswer} \subseteq Nat \ {0}
    /\ NumSockets =< 255 /\ MaxFaults \in Nat /\ EarlyStop \in BOOLEAN

VARIABLES
    pc,         \* what the sketch, or the driver for it, does next
    writes,     \* pieces of the request written on this connection
    sock,       \* WiFiEspClient::_sock
    allocated,  \* the sockets i with WiFiEspClass::_state[i] # NA_STATE
    bufPos,     \* EspDrv::_bufPos: payload still to come of this packet
    rx,         \* the tokens in, or about to reach, the serial buffer
    doing,      \* what the module does next
    need,       \* payload the module waits for after its prompt
    open,       \* is the link open?
    request,    \* pieces the server got on this link, or Garbled
    sent,       \* bytes the server sent on this link
    got,        \* bytes of the link that read() has returned
    faults, lossless

client == <<pc, writes, sock, allocated, bufPos>>
module == <<doing, need>>
link == <<open, request, sent>>
ghosts == <<got, faults, lossless>>
vars == <<client, rx, module, link, ghosts>>

Sockets == 0..NumSockets-1
None == 255         \* SOCK_NOT_AVAIL
Garbled == NumWrites + 1
Piece == 2          \* payload of a write: a command text can be a part of it

(* A byte has its number in the connection, 0 if that one has ended.       *)
Tokens == [kind : {"OK", "ERROR", "SEND OK", "prompt", "closed"}, n : {0}]
    \cup [kind : {"header"}, n : 1..MaxPacket]
    \cup [kind : {"byte"}, n : 0..MaxAnswer]
Token(kind) == [kind |-> kind, n |-> 0]
Header(n) == [kind |-> "header", n |-> n]
Tags == {"OK", "ERROR", "SEND OK"}      \* the ESPTAGS the module sends

TypeOK ==
    /\ pc \in {"loop", "finding", "reading", "last", "due", "stop", "closing",
               "connect", "starting", "write", "prompt", "sending", "failed",
               "abandoning"}
    /\ writes \in 0..NumWrites /\ sock \in Sockets \cup {None}
    /\ allocated \subseteq Sockets /\ bufPos \in 0..MaxPacket
    /\ rx \in Seq(Tokens)
    /\ doing \in {"idle", "start", "close", "send", "data", "deliver", "junk"}
    /\ need \in 0..Piece /\ (doing = "data" <=> need > 0)
    /\ open \in BOOLEAN /\ request \in 0..Garbled
    /\ sent \in 0..MaxAnswer /\ got \in 0..MaxAnswer
    /\ faults \in 0..MaxFaults /\ lossless \in BOOLEAN

Init ==
    /\ pc = "loop" /\ writes = 0 /\ sock = None /\ allocated = {} /\ bufPos = 0
    /\ rx = <<>> /\ doing = "idle" /\ need = 0
    /\ open = FALSE /\ request = 0 /\ sent = 0
    /\ got = 0 /\ faults = 0 /\ lossless = TRUE

Fault == faults < MaxFaults /\ faults' = faults + 1

-----------------------------------------------------------------------------
(* What the module makes of a text.  After its prompt all it hears is      *)
(* payload, and a command can be a part of what it waits for, or all; when *)
(* it is busy it answers "busy p...", which is none of the tags.           *)
Hear(text) ==
    CASE doing = "idle" ->
            /\ doing' = IF text = "data" THEN "junk" ELSE text
            /\ UNCHANGED <<need, request>>
      [] doing = "data" ->
            /\ need' \in IF text = "data" THEN {0} ELSE 0..need-1
            /\ request' = IF text = "data" /\ need = Piece THEN request
                                                           ELSE Garbled
            /\ doing' = IF need' = 0 THEN "deliver" ELSE "data"
      [] OTHER -> UNCHANGED <<module, request>>

(* EspDrv::sendCmd up to its readUntil: what has come is dropped first.    *)
SendCmd(text) == rx' = <<>> /\ Hear(text)

(* A wait ends without an answer: there is none to come, or it is late.    *)
Quiet == doing \in {"idle", "data"}
Timeout == /\ rx = <<>>
           /\ IF Quiet THEN UNCHANGED faults ELSE Fault
           /\ UNCHANGED <<rx, module, link, got, lossless>>

(* readUntil takes a token that is not what it waits for.                  *)
Skip(at, awaited) ==
    /\ pc = at /\ rx # <<>> /\ Head(rx).kind \notin awaited
    /\ rx' = Tail(rx)
    /\ UNCHANGED <<client, module, link, ghosts>>

(* It takes one that is.                                                   *)
Take(at, awaited) ==
    /\ pc = at /\ rx # <<>> /\ Head(rx).kind \in awaited
    /\ rx' = Tail(rx)

(* Mutant: the socket is cleared before it is released.                    *)
ReleaseCleared == sock' = None /\ allocated' = allocated \ {sock'}

Release == allocated' = allocated \ {sock} /\ sock' = None

-----------------------------------------------------------------------------
(* Mutant: a packet is taken to be announced when none is left of it.      *)
AvailableAtZero ==
    /\ pc = "loop"
    /\ pc' = IF sock = None THEN "due"
             ELSE IF bufPos >= 0 /\ rx # <<>> THEN "reading" ELSE "due"
    /\ UNCHANGED <<writes, sock, allocated, bufPos, rx, module, link, ghosts>>

(* loop(): while (client.available()).                                     *)
Available ==
    /\ pc = "loop"
    /\ pc' = IF sock = None THEN "due"
             ELSE IF bufPos > 0 THEN "reading"
             ELSE IF rx # <<>> THEN "finding" ELSE "due"
    /\ UNCHANGED <<writes, sock, allocated, bufPos, rx, module, link, ghosts>>

(* EspDrv::availData looks for "+IPD,".                                    *)
FindHeader ==
    /\ Take("finding", {"header"})
    /\ bufPos' = Head(rx).n
    /\ pc' = "reading"
    /\ UNCHANGED <<writes, sock, allocated, module, link, ghosts>>

FindTimeout ==
    /\ pc = "finding" /\ rx = <<>>
    /\ pc' = "due"
    /\ UNCHANGED <<writes, sock, allocated, bufPos, rx, module, link, ghosts>>

(* read(): EspDrv::getData takes whatever comes next.                      *)
GetByte ==
    /\ pc = "reading" /\ rx # <<>>
    /\ rx' = Tail(rx)
    /\ got' = IF Head(rx).kind = "byte" THEN Head(rx).n ELSE got
    /\ bufPos' = bufPos - 1
    /\ pc' = IF bufPos = 1 THEN "last" ELSE "loop"
    /\ UNCHANGED <<writes, sock, allocated, module, link, faults, lossless>>

(* Mutant: the rest of the packet stays announced.                         *)
GetTimeoutKeepsCount ==
    /\ pc = "reading" /\ rx = <<>>
    /\ pc' = "loop"
    /\ UNCHANGED <<writes, sock, allocated, bufPos, rx, module, link, ghosts>>

(* Nothing comes for two seconds.                                          *)
GetTimeout ==
    /\ pc = "reading" /\ rx = <<>>
    /\ bufPos' = 0
    /\ pc' = "loop"
    /\ UNCHANGED <<writes, sock, allocated, rx, module, link, ghosts>>

(* After the last byte of a packet: has the connection been closed?        *)
LastByte ==
    /\ pc = "last"
    /\ pc' = "loop"
    /\ IF rx # <<>> /\ Head(rx).kind = "closed"
       THEN rx' = Tail(rx) /\ Release
       ELSE UNCHANGED <<rx, sock, allocated>>
    /\ UNCHANGED <<writes, bufPos, module, link, ghosts>>

NotDue ==
    /\ pc = "due"
    /\ pc' = "loop"
    /\ UNCHANGED <<writes, sock, allocated, bufPos, rx, module, link, ghosts>>

(* postingInterval has passed: httpRequest().                              *)
Due ==
    /\ pc \in {"due"} \cup (IF EarlyStop THEN {"loop"} ELSE {})
    /\ pc' = "stop"
    /\ UNCHANGED <<writes, sock, allocated, bufPos, rx, module, link, ghosts>>

(* stop(), also after a failed write.                                      *)
Stop ==
    /\ pc \in {"stop", "failed"}
    /\ IF sock = None
       THEN pc' = "connect" /\ UNCHANGED <<rx, module, request>>
       ELSE /\ pc' = IF pc = "stop" THEN "closing" ELSE "abandoning"
            /\ SendCmd("close")
    /\ UNCHANGED <<writes, sock, allocated, bufPos, open, sent, ghosts>>

(* Whatever the module answers, stop() goes on.                            *)
Stopped ==
    /\ \/ /\ \E at \in {"closing", "abandoning"} : Take(at, Tags)
          /\ UNCHANGED <<module, link, ghosts>>
       \/ pc \in {"closing", "abandoning"} /\ Timeout
    /\ Release
    /\ pc' = IF pc = "closing" THEN "connect" ELSE "loop"
    /\ UNCHANGED <<writes, bufPos>>

(* connect(): getFreeSocket counts down.                                   *)
Connect ==
    /\ pc = "connect"
    /\ LET free == Sockets \ allocated
       IN IF free = {}
          THEN sock' = None /\ pc' = "loop" /\ UNCHANGED <<rx, module, request>>
          ELSE sock' = Max(free) /\ pc' = "starting" /\ SendCmd("start")
    /\ UNCHANGED <<writes, allocated, bufPos, open, sent, ghosts>>

Connected ==
    /\ Take("starting", {"OK"})
    /\ allocated' = allocated \cup {sock}
    /\ writes' = 0
    /\ pc' = "write"
    /\ UNCHANGED <<sock, bufPos, module, link, ghosts>>

(* connect() returns 0; _sock keeps the number.                            *)
NotConnected ==
    /\ \/ /\ Take("starting", Tags \ {"OK"})
          /\ UNCHANGED <<module, link, ghosts>>
       \/ pc = "starting" /\ Timeout
    /\ pc' = "loop"
    /\ UNCHANGED <<writes, sock, allocated, bufPos>>

(* client.println(...): sendData announces its length; what has come is    *)
(* not dropped here.                                                       *)
Write ==
    /\ pc = "write"
    /\ Hear("send")
    /\ pc' = "prompt"
    /\ UNCHANGED <<writes, sock, allocated, bufPos, rx, open, sent, ghosts>>

Prompted ==
    /\ Take("prompt", {"prompt"})
    /\ Hear("data")
    /\ pc' = "sending"
    /\ UNCHANGED <<writes, sock, allocated, bufPos, open, sent, ghosts>>

(* Mutant: one piece more.                                                 *)
WrittenOneMore ==
    /\ Take("sending", {"SEND OK"})
    /\ writes' = writes + 1
    /\ pc' = IF writes = NumWrites THEN "loop" ELSE "write"
    /\ UNCHANGED <<sock, allocated, bufPos, module, link, ghosts>>

Written ==
    /\ Take("sending", {"SEND OK"})
    /\ writes' = writes + 1
    /\ pc' = IF writes' = NumWrites THEN "loop" ELSE "write"
    /\ UNCHANGED <<sock, allocated, bufPos, module, link, ghosts>>

(* The sketch does not look at the result: the pieces that are left are    *)
(* refused for want of a socket.                                           *)
WriteFailed ==
    /\ \/ /\ Take("sending", Tags \ {"SEND OK"})
          /\ UNCHANGED <<module, link, ghosts>>
       \/ pc \in {"prompt", "sending"} /\ Timeout
    /\ pc' = "failed"
    /\ UNCHANGED <<writes, sock, allocated, bufPos>>

SkipOther ==
    \/ Skip("finding", {"header"})
    \/ \E at \in {"closing", "abandoning", "starting", "sending"} :
            Skip(at, Tags)
    \/ Skip("prompt", {"prompt"})

Sketch == \/ Available \/ FindHeader \/ FindTimeout \/ GetByte \/ GetTimeout
          \/ LastByte \/ NotDue \/ Due \/ Stop \/ Stopped \/ Connect
          \/ Connected \/ NotConnected \/ Write \/ Prompted \/ Written
          \/ WriteFailed \/ SkipOther

-----------------------------------------------------------------------------
(* The module carries out a command and answers.                           *)
Answer(command, tokens) ==
    /\ doing = command
    /\ rx' = rx \o tokens
    /\ doing' = "idle"
    /\ UNCHANGED <<client, need, got, lossless>>

(* A byte that is still on its way is of the connection before.            *)
Start ==
    /\ doing = "start" /\ ~open
    /\ open' = TRUE /\ request' = 0 /\ sent' = 0 /\ got' = 0
    /\ rx' = Append([i \in DOMAIN rx |->
                        IF rx[i].kind = "byte" THEN [rx[i] EXCEPT !.n = 0]
                                               ELSE rx[i]], Token("OK"))
    /\ doing' = "idle"
    /\ UNCHANGED <<client, need, faults, lossless>>

StartRefused ==
    /\ Answer("start", <<Token("ERROR")>>)
    /\ IF open THEN UNCHANGED faults ELSE Fault
    /\ UNCHANGED link

Close ==
    /\ Answer("close", IF open THEN <<Token("closed"), Token("OK")>>
                               ELSE <<Token("ERROR")>>)
    /\ open' = FALSE
    /\ UNCHANGED <<request, sent, faults>>

SendPrompt ==
    /\ doing = "send"
    /\ rx' = rx \o IF open THEN <<Token("OK"), Token("prompt")>>
                           ELSE <<Token("ERROR")>>
    /\ doing' = IF open THEN "data" ELSE "idle"
    /\ need' = IF open THEN Piece ELSE 0
    /\ UNCHANGED <<client, link, ghosts>>

Deliver ==
    /\ Answer("deliver", <<Token(IF open THEN "SEND OK" ELSE "ERROR")>>)
    /\ request' = IF open /\ request < NumWrites THEN request + 1 ELSE request
    /\ UNCHANGED <<open, sent, faults>>

Junk ==
    /\ Answer("junk", <<Token("ERROR")>>)
    /\ UNCHANGED <<link, faults>>

Module == Start \/ StartRefused \/ Close \/ SendPrompt \/ Deliver \/ Junk

(* The server answers a whole request, in packets.                         *)
Packet(len) == <<Header(len)>> \o [i \in 1..len |-> [kind |-> "byte", n |-> sent + i]]

Respond(len) ==
    /\ open /\ request = NumWrites /\ sent + len =< MaxAnswer
    /\ sent' = sent + len
    /\ rx' = rx \o Packet(len)
    /\ UNCHANGED <<client, module, open, request, ghosts>>

(* A byte of the packet is lost on the line.                               *)
RespondLossy(len) ==
    /\ open /\ request = NumWrites /\ sent + len =< MaxAnswer
    /\ Fault
    /\ sent' = sent + len
    /\ \E i \in 2..len+1 : rx' = rx \o RemoveAt(Packet(len), i)
    /\ lossless' = FALSE
    /\ UNCHANGED <<client, module, open, request, got>>

(* It closes the connection when it has answered, or it breaks.            *)
ServerCloses ==
    /\ open /\ open' = FALSE
    /\ IF sent > 0 THEN UNCHANGED faults ELSE Fault
    /\ rx' = Append(rx, Token("closed"))
    /\ UNCHANGED <<client, module, request, sent, got, lossless>>

Server == \/ \E len \in 1..MaxPacket : Respond(len) \/ RespondLossy(len)
          \/ ServerCloses

Next == Sketch \/ Module \/ Server

Spec == Init /\ [][Next]_vars

(* loop() is called for ever, the module carries out what it has taken,    *)
(* and time passes, so that the next request becomes due.  The server      *)
(* promises nothing.                                                       *)
Fairness == WF_vars(Sketch) /\ WF_vars(Module) /\ SF_vars(Due)
FairSpec == Spec /\ Fairness

-----------------------------------------------------------------------------
(* "Read the next byte received from the server the client is connected    *)
(* to": read() returns no text of the module's own and nothing of an       *)
(* earlier connection, and no byte out of order, as long as the line       *)
(* loses nothing.                                                          *)
ReadsAreSent ==
    [][pc = "reading" /\ pc' # pc /\ rx # <<>> /\ lossless =>
            /\ Head(rx).kind = "byte"
            /\ sock \in allocated => Head(rx).n > got]_vars

(* No request is given up for want of a socket: what closed, failed or     *)
(* broken connections held is free again when the next one is made.        *)
SocketsComeBack == pc = "connect" => allocated = {}

(* Whatever was refused, lost or late, and however the two sides' views of *)
(* the link and of the line came apart: whole requests reach the server    *)
(* again, on new connections, for ever.                                    *)
Recovers == []<>(open /\ request = NumWrites) /\ []<>(open /\ request = 0)
=============================================================================
