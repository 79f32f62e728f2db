\* two calls, every kind of message in one piece or in two, one broken connection
SPECIFICATION Spec
CONSTANTS
    MaxInits = 2
    MaxCalls = 2
    MaxInbox = 1
    MaxFrags = 2
    Kinds = {"result", "null", "error", "notice", "other", "ignored", "bad"}
    CloseOnlyWhenOpen = TRUE
PROPERTY
    KeepsLink
INVARIANTS
    SettleOnce
    NoLostRequest
    OneConnection
    SentInOrder
CHECK_DEADLOCK FALSE
