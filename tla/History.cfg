CONSTANTS
    MaxLines = 4
    MaxFiles = 3
    Sessions = {s, t}
    Dirs = {d, e}
    MaxModified = 1
SPECIFICATION HistorySpec
CHECK_DEADLOCK FALSE
INVARIANTS
    NewestBranchIsShown
    PagesFollowConversation
    ListingIsNewest
