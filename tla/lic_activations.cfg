SPECIFICATION Spec
CONSTANTS
    Clients = {c1, c2}
    Erasers = {o1}
    Installations = {i1, i2}
    Devices = {d1}
    Manual = {m1}
    Linked = {s1}
    Limits = {0, 1}
    None = None
INVARIANTS
    TypeOK
    CapacityHeld
    ErasureFinal
PROPERTIES
    GrantSound
SYMMETRY Symmetry
