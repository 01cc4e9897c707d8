\* Three connections racing over one pairing, with one store failure or restart.
SPECIFICATION Spec
CONSTANTS
    Addr = {a1, a2, a3}
    Controller = {c1}
    MaxFaults = 1
SYMMETRY MCSymmetry
INVARIANTS
    TypeOK
    SetupExclusive
    NoOrphanSession
    HandlerKeepsSession
    TornOnlyWhileWriting
PROPERTY ImplementsRegistry
