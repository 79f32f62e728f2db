\* close() is called on an open socket only; bcxws connects again after it; a write may fail
SPECIFICATION Spec
CONSTANTS
    MaxInits = 3
    MaxCalls = 1
    MaxInbox = 1
    MaxFrags = 1
    Kinds = {"ignored"}
    CloseOnlyWhenOpen = TRUE
PROPERTIES
    QuietAfterClose
    CloseReturns
CHECK_DEADLOCK FALSE
