SPECIFICATION FairSpec
CONSTANTS
    Events = {e1, e2}
    Prohibited = {e2}
    Workers = {w1, w2}
    Batch = 1
    MaxAttempts = 3
    Times = {1, 2}
    None = None
INVARIANTS
    TypeOK
    DeliveredArrived
    DeadLetterExhausted
PROPERTIES
    Settles
CHECK_DEADLOCK FALSE
