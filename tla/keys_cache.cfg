SPECIFICATION FairSpec
CONSTANTS
    Tasks = {t1, t2}
    Keys = {k1, k2}
    CacheTtl = 3
    RefreshInterval = 2
    Timeout = 1
    None = None
INVARIANTS
    SingleFlight
PROPERTIES
    TrustBounded
    CacheFollows
