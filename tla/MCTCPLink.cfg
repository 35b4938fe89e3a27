\* A packet with a body and then one without: no byte of the stream repeats.
SPECIFICATION FairSpec
CONSTANTS
    client = client
    server = server
    bare = bare
    full = full
    Client = client
    Server = server
    Packet = {bare, full}
    Length <- MCLength
    HeaderLen = 2
    BufferLen = 4
    WireCap = 4
    MaxPush <- ToClient
CONSTRAINTS
    FullFirst
INVARIANTS
    NoLostWakeup
    InFrame
    SilentAfterDone
PROPERTIES
    ImplementsFifo
    Delivered
    ThreadsEnd
CHECK_DEADLOCK FALSE
