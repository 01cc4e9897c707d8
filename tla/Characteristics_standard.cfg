\* A PUT to a characteristic that requires a timed write, not prepared.
SPECIFICATION Spec
CONSTANTS
    Addr = {a1}
    Host = {h1}
    Char = {c1, c2}
    Timed = {c1}
    Repeating = {}
    Value = {v1, v2}
    NoValue = NoValue
    NoChar = NoChar
SYMMETRY MCSymmetry
PROPERTY StandardWriteAnswered
