SPECIFICATION FairSpec
CONSTANTS
    Operators = {o1, o2}
    Lookups = {l1}
    Releases = {r1}
    Kinds = {updater}
    Contents = {x1, x2}
    Campaigns = {c1}
    Installations = {i1}
    Events = {e1}
    Percents = {60, 101}
    Bucket <- Middle
    Updater = updater
    None = None
INVARIANTS
    TypeOK
    ActiveWasPublished
PROPERTIES
    ArtifactsImmutable
    WithdrawnIsFinal
    WithdrawnRunsDry
