CONSTANTS
    MaxMessages = 3
    Parts = 2
    MaxBuffer = 3
    PipeCap = 2
    Strays = TRUE
    Timed = TRUE
    Shared = FALSE
SPECIFICATION FairSpec
INVARIANTS
    NothingLost
    CleanEndMeansSuccess
PROPERTIES
    CloseCompletes
    EndIsSeen
CHECK_DEADLOCK FALSE
