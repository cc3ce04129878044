SPECIFICATION Spec
CONSTANTS
    c1 = c1
    c2 = c2
    None = None
    Clients = {c1, c2}
    MaxSnaps = 4
SYMMETRY Symmetry
INVARIANTS TreeOK CarefulIsSafe
PROPERTIES CryptoNeedsNoSnapshots RemovesExactly
CHECK_DEADLOCK FALSE
