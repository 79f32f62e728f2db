SPECIFICATION Spec
CONSTANTS
    Scopes = {"forks", "proposals", "restart", "crashes"}
    Transactions <- MCTransactions
    Bodies <- MCBodies
    Witnesses = 2
    MaxExpiration = 2
    MaxBlockSize = 2
    MaxUndoHistory = 4
    UndoBlocks = 2
    MaxNum = 4
    MaxSteps <- MCMaxSteps
INVARIANT StateOfChain HistoryReachesIrreversible
PROPERTY HeadNeverFalls TransactionsKept RestartRecovers
CHECK_DEADLOCK FALSE
