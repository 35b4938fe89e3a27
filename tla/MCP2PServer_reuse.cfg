\* Two tcpids for three sockets, two keywords: ids wrap around and are reused.
SPECIFICATION Spec
CONSTANTS
    t1 = t1
    t2 = t2
    t3 = t3
    k1 = k1
    k2 = k2
    Tcp = {t1, t2, t3}
    Keyword = {k1, k2}
    IdCount = 2
    MaxC2S = 1
    MaxAsk = 0
    None = None
CHECK_DEADLOCK FALSE
SYMMETRY Symmetry
INVARIANTS
    ListedUnderLiveId
    DeadEntryInert
    PunchAddresses
