\* Three starts with two shapes of accessories, a controller left by hc, with its
\* own key pair or without, and one write that fails or is torn.  VersionMod lets
\* the version wrap.
SPECIFICATION FairSpec
CONSTANTS
    Controller = {c1, c2}
    Legacy = {c1}
    Shape = {1, 2}
    Value = {v1, v2}
    VersionMod = 4
    MaxStart = 3
    MaxHarm = 1
CHECK_DEADLOCK FALSE
INVARIANTS
    TypeOK
    IdentityKept
    VersionTellsChange
    MigrationComplete
    RemovedStaysRemoved
PROPERTY CancelStops
