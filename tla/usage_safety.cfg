SPECIFICATION Spec
CONSTANTS
    ResKeys = {r1, r2}
    EventKeys = {k1, k2}
    Buckets = {b1}
    Clients = {c1, c2}
    Sweepers = {w1}
    MaxAmount = 1
    AdjustAmounts <- Refunds
    Limits = {2}
    Unlimited = Unlimited
    Percents = {50, 100}
    Ttl = 1
    Batch = 2
    MaxClock = 1
    None = None
SYMMETRY Symmetry
INVARIANTS
    TypeOK
    ReservedIsHeld
    UsedIsLedger
    NoOversubscription
    CommittedIffCharged
    ThresholdReported
PROPERTIES
    ImplementsPromise
