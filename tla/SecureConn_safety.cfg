\* A pair-verify, and three more requests of which two may be outstanding at
\* once and one may be a verification again, and an event: frames in parts,
\* read-ahead, deadlines and full last frames.
SPECIFICATION Spec
CONSTANTS
    Notifier = {n1}
    MaxSession = 2
    MaxRequest = 4
    MaxEvent = 1
    MaxIn = 1
    MaxOut = 2
    MaxOutstanding = 2
CHECK_DEADLOCK FALSE
INVARIANTS
    TypeOK
    OnlyFullFramesSkipped
    CountersUnique
    NoCounterSkipped
