\* The constants of the code; HapEpoch is small to fit TLC's integers.
SPECIFICATION Spec
CONSTANTS
    Fragment = 255
    Base = 256
    HapEpoch = 7
    MinMired = 140
    MaxMired = 500
CHECK_DEADLOCK FALSE
INVARIANTS
    IdentifiersKept
    FieldsByTag
    ItemsReadBack
    NarrowNumbers
    RoundTrip
    CurveCovered
    CurveInterpolates
    TransitionAsRequested
