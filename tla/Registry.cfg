CONSTANTS
    c1 = c1
    c2 = c2
    c3 = c3
    c4 = c4
    i1 = i1
    i2 = i2
    i3 = i3
    Calls = {c1, c2, c3, c4}
    Ids = {i1, i2, i3}
    NoClient = NoClient
    MaxTracked = 1
SPECIFICATION Spec
SYMMETRY Symmetry
INVARIANTS
    LiveMeansOwned
    TrackedWithinLimit
PROPERTY LiveIsNotReplacedByDead
CHECK_DEADLOCK FALSE
