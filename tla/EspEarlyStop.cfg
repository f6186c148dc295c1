SPECIFICATION FairSpec
CONSTANTS
    NumSockets = 2
    NumWrites = 2
    MaxPacket = 2
    MaxAnswer = 2
    MaxFaults = 0
    EarlyStop = TRUE
PROPERTIES ReadsAreSent
