SPECIFICATION Spec
CONSTANTS
    Scopes <- MCScopes
    Start <- MCStart
    Offered <- MCOffered
    Keys <- MCKeys
    MaxTime <- MCMaxTime
    MaxMissed <- MCMaxMissed
    MaxPushes <- MCMaxPushes
INVARIANTS
    ChangesTold
    BlockApplies
    SupplyConserved
    BitassetsCovered
    MarketAtRest
    CoverReachesTarget
    DerivedFollows
    WithdrawalsLimited
    NobodyPaysUnasked
    SigningExact
PROPERTIES
    MostVotedElected
CHECK_DEADLOCK FALSE
