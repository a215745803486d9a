SPECIFICATION FairSpec
CONSTANTS
    Events = {e1, e2}
    Invoices = {i1}
    Handlers = {h1, h2}
    Operators = {o1}
    Statuses = {"active", "unpaid", "canceled"}
    Plans = {p1}
    TicksPerSecond = 2
    MaxClock = 2
    None = None
INVARIANTS
    OneLicense
    AppliedOnce
PROPERTIES
    RevokedStays
    EventsProcessed
CHECK_DEADLOCK FALSE
