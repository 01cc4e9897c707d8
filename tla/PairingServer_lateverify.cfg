\* A pair-verify M3 that read the pairing before it was removed.
SPECIFICATION Spec
CONSTANTS
    Addr = {a1, a2}
    Controller = {c1, c2}
    MaxFaults = 0
SYMMETRY MCSymmetry
INVARIANT NoSessionOfRemovedController
