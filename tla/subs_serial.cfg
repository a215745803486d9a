SPECIFICATION Spec
CONSTANTS
    Events = {e1, e2, e3}
    Invoices = {i1}
    Handlers = {h1}
    Operators = {}
    Statuses = {"active", "past_due", "unpaid", "canceled"}
    Plans = {p1, p2}
    TicksPerSecond = 1
    MaxClock = 2
    None = None
SYMMETRY Symmetry
INVARIANTS
    TypeOK
    LicenseFollows
    NewestWins
    Reported
CHECK_DEADLOCK FALSE
