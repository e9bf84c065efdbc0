CONSTANTS
    Callers = {a}
    MaxRequests = 1
    MaxMessages = 2
    ChannelCap = 1
    StdoutCap = 1
    CallbackChoices <- McpOnly
    Answers = {"ok"}
    Printable = {"response", "request", "message", "result"}
SPECIFICATION FairSpec
INVARIANTS
    DeliveryInOrder
    EarlyRepliesSurvive
PROPERTIES
    ArmedCloseHappens
    RequestResolves
    StreamEnds
CHECK_DEADLOCK FALSE
