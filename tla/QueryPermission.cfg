CONSTANTS
    Callers = {a}
    MaxRequests = 0
    MaxMessages = 0
    ChannelCap = 1
    StdoutCap = 1
    CallbackChoices <- PermissionOnly
    Answers = {"ok"}
    Printable = {"request"}
SPECIFICATION Spec
INVARIANTS
    PermissionReplyReachesCli
CHECK_DEADLOCK FALSE
