SPECIFICATION Spec
CONSTANTS
    Requests = {r1}
    Operators = {o1, o2}
    Subscriptions = {s1, s2}
    Manual = {m1}
    Documents <- Docs
    Bootstrap <- Seeded
    PublishKeys = {k1, k2}
    OverrideValues <- Values
    LicenseGrants <- Grants
    Promotion <- Promo
    MaxOverrides = 2
    MaxChanges = 3
    MaxClock = 1
    None = None
INVARIANTS
    TypeOK
    Precedence
    CloudOfItsTime
SYMMETRY Symmetry
