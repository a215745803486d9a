SPECIFICATION FairSpec
CONSTANTS
    ResKeys = {r1, r2}
    EventKeys = {k1}
    Buckets = {b1, b2}
    Clients = {c1}
    Sweepers = {w1, w2}
    MaxAmount = 1
    AdjustAmounts <- Refunds
    Limits = {1}
    Unlimited = Unlimited
    Percents = {100}
    Ttl = 1
    Batch = 1
    MaxClock = 1
    None = None
PROPERTIES
    CallsAnswered
    OverdueReclaimed
