\* close() is called at any time
SPECIFICATION Spec
CONSTANTS
    MaxInits = 1
    MaxCalls = 0
    MaxInbox = 2
    MaxFrags = 1
    Kinds = {"ignored"}
    CloseOnlyWhenOpen = FALSE
PROPERTY
    CloseReturns
CHECK_DEADLOCK FALSE
