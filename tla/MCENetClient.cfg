SPECIFICATION FairSpec
CONSTANTS
    host = host
    guest = guest
    p = p
    q = q
    Host = host
    Guest = guest
    Packet = {p, q}
    Retry = 2
    Echo = {host}
    MaxPush <- MCMaxPush
INVARIANTS
    SilentAfterDone
PROPERTIES
    ImplementsFifo
    Delivered
    DoneEnds
CHECK_DEADLOCK FALSE
CONSTRAINTS
    InTurn
