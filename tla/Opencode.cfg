CONSTANTS
    MaxLogs = 2
    MaxParams = 3
    Bodies <- MCBodies
SPECIFICATION Spec
CHECK_DEADLOCK FALSE
INVARIANTS
    NoChildLeft
    RequestsAreAsNamed
    EventsAreWhole
PROPERTY StartEnds
