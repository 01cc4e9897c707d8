\* Three goroutines, two transitions, one restart.  A panic in a request leaves
\* the mutex locked, after which nothing moves: deadlock is not checked.
SPECIFICATION Spec
CONSTANTS
    Thread = {t1, t2, t3}
    MaxTransition = 2
    MaxRestart = 1
SYMMETRY MCSymmetry
CHECK_DEADLOCK FALSE
INVARIANTS
    TypeOK
    NoLeakedTimer
    ActiveIsScheduled
    SavedIsCurrent
