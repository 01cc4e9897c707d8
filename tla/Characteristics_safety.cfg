\* Two connections and a goroutine of the host set a timed characteristic.
SPECIFICATION Spec
CONSTANTS
    Addr = {a1, a2}
    Host = {h1}
    Char = {c1}
    Timed = {c1}
    Repeating = {}
    Value = {v1, v2}
    NoValue = NoValue
    NoChar = NoChar
SYMMETRY MCSymmetry
INVARIANTS
    TypeOK
    ChangesAnnounced
    TimedWritePrepared
