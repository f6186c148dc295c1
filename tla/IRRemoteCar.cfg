SPECIFICATION FairSpec
CONSTANTS
    maxSpeed = 6
    maxTurn = 2
INVARIANTS TypeOK SteeringFollowsKeys RepeatNamesHeardKey
PROPERTIES NoSuddenReversal OnlyKeysCount StopHalts UsesMailbox
