SPECIFICATION FairSpec
CONSTANTS
    handshake = handshake
    keepalive = keepalive
    DataLen = 2
    ByteCount = 3
    Type = {handshake, keepalive}
    Length = {2}
    Own = {a, b}
    MaxPush = 2
    MaxArrive = 2
INVARIANTS
    DamageShows
    SurvivesStrays
    SilentAfterStop
    LeavesInOrder
PROPERTIES
    Drained
    StopEnds
CHECK_DEADLOCK FALSE
