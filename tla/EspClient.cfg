SPECIFICATION FairSpec
CONSTANTS
    NumSockets = 2
    NumWrites = 2
    MaxPacket = 2
    MaxAnswer = 3
    MaxFaults = 4
    EarlyStop = FALSE
INVARIANTS TypeOK SocketsComeBack
PROPERTIES ReadsAreSent Recovers
