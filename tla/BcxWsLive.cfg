\* a server that sends JSON objects, each in one piece
SPECIFICATION FairSpec
CONSTANTS
    MaxInits = 2
    MaxCalls = 1
    MaxInbox = 1
    MaxFrags = 1
    Kinds = {"null", "notice", "other"}
    CloseOnlyWhenOpen = TRUE
PROPERTIES
    DownSettles
    ClosedReconnects
    InitReports
CHECK_DEADLOCK FALSE
