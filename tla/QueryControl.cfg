CONSTANTS
    Callers = {a, b}
    MaxRequests = 2
    MaxMessages = 0
    ChannelCap = 1
    StdoutCap = 1
    CallbackChoices <- NoCallbacks
    Answers = {"ok"}
    Printable = {"response", "ignored"}
SPECIFICATION Spec
INVARIANTS
    NoStrandedRequest
    WaiterIsReachable
    ParkedAnswerHasNoWaiter
PROPERTIES
    RefinesRequestReply
CHECK_DEADLOCK FALSE
