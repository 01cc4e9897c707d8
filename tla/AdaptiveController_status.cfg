\* The response to an enable whose transition is off again.
SPECIFICATION Spec
CONSTANTS
    Thread = {t1, t2}
    MaxTransition = 2
    MaxRestart = 0
SYMMETRY MCSymmetry
CHECK_DEADLOCK FALSE
PROPERTY StatusOnlyWhenActive
