SPECIFICATION FairTunnelSpec
CONSTANTS
    t1 = t1
    t2 = t2
    k1 = k1
    None = None
    Tcp = {t1, t2}
    Keyword = {k1}
    IdCount = 3
    MaxC2S = 1
    MaxAsk = 1
    Host = {t1}
    MaxRetry = 1
    Punchable = FALSE
    UserSends = TRUE
    Cut = {t2}
CHECK_DEADLOCK FALSE
CONSTRAINTS
    HostFirst
    QuietCut
INVARIANTS
    HostNotStranded
PROPERTIES
    RelayAnswered
