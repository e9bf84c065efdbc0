CONSTANTS
    Turns = {t, u}
    InputSize = 2
    StdinCap = 1
    StdoutCap = 1
    MaxItems = 1
SPECIFICATION Spec
INVARIANTS
    NoOrphan
    OkIsComplete
    SequentialTurnsShareThread
CHECK_DEADLOCK FALSE
SYMMETRY Symmetry
