CONSTANTS
    Turns = {t}
    InputSize = 2
    StdinCap = 1
    StdoutCap = 1
    MaxItems = 1
SPECIFICATION FairSpec
PROPERTIES
    CancelAborts
CHECK_DEADLOCK FALSE
