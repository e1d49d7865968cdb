SPECIFICATION Spec
CONSTANTS
    Call = {c1, c2}
    MaxClients = 2
SYMMETRY Symmetry
INVARIANTS
    OneServerPerDataDir
CHECK_DEADLOCK FALSE
