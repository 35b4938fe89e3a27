\* Three sockets at once, one keyword: two hosts or two guests compete.
SPECIFICATION Spec
CONSTANTS
    t1 = t1
    t2 = t2
    t3 = t3
    k1 = k1
    k2 = k2
    Tcp = {t1, t2, t3}
    Keyword = {k1}
    IdCount = 3
    MaxC2S = 1
    MaxAsk = 0
    None = None
CHECK_DEADLOCK FALSE
SYMMETRY Symmetry
PROPERTIES
    ImplementsRendezvous
INVARIANTS
    TypeOK
    UniqueKeyword
    SessionMembersLive
    OneSessionPerSocket
    FaultOnlyOnOrphan
    ConnectedMeansConfirmed
    StreamOrder
    IInv
