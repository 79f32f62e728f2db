SPECIFICATION Spec
CONSTANTS
    Scopes = {"duplicates"}
    Transactions <- MCTransactions
    Bodies <- MCBodies
    Witnesses = 2
    MaxExpiration = 2
    MaxBlockSize = 2
    MaxUndoHistory = 4
    UndoBlocks = 2
    MaxNum = 4
    MaxSteps <- MCMaxSteps
INVARIANT NoDuplicates
CHECK_DEADLOCK FALSE
