CONSTANTS
    MaxConns = 2
    MaxPrompt = 1
    MaxPrinted = 2
SPECIFICATION Spec
CHECK_DEADLOCK FALSE
INVARIANTS
    NoOrphanCli
    SessionsDoNotOverlap
    FeederStaysInSession
    CollectedIsWhole
PROPERTY DroppedMeansDead
