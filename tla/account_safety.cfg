SPECIFICATION Spec
CONSTANTS
    Sessions = {s1, s2}
    Operators = {o1, o2}
    MaxRequests = 2
    MaxHistory = 3
    None = None
INVARIANTS
    TypeOK
    ErasedByRequest
    HistoryChains
PROPERTIES
    WorkflowKept
SYMMETRY Symmetry
