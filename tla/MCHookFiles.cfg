SPECIFICATION Spec
CONSTANTS
    Line = {e1, e2, e3}
    Request = {long, r1, r2}
    long = long
    LengthOf <- MCLengthOf
SYMMETRY Symmetry
INVARIANTS
    LinesAreKept
    LinesKeepOrder
    StaleTextGoes
CHECK_DEADLOCK FALSE
