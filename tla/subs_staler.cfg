SPECIFICATION Spec
CONSTANTS
    Events = {e1, e2, e3}
    Invoices = {}
    Handlers = {h1, h2}
    Operators = {}
    Statuses = {"active", "past_due"}
    Plans = {p1}
    TicksPerSecond = 1
    MaxClock = 2
    None = None
SYMMETRY Symmetry
PROPERTIES
    NeverStaler
CHECK_DEADLOCK FALSE
