\* Three sockets, the relay requests included, every thread scheduled fairly:
\* guests compete for a host and hosts for the keyword.
SPECIFICATION FairSpec
CONSTANTS
    t1 = t1
    t2 = t2
    t3 = t3
    k1 = k1
    k2 = k2
    Tcp = {t1, t2, t3}
    Keyword = {k1}
    IdCount = 3
    MaxC2S = 1
    MaxAsk = 1
    None = None
CHECK_DEADLOCK FALSE
CONSTRAINTS
    InOrder
    ThirdIsGuest
PROPERTIES
    KeywordFreed
    GuestEvicted
    Answered
    ProxyAnswered
