\* one part at a time
SPECIFICATION Spec
CONSTANTS
    Quarter = 2
    Operands <- MCOperands
    Octets <- MCOctets
    CodePoints <- MCCodePoints
    MaxOctets = 4
    Beginnings <- MCBeginnings
    Alphabet <- MCAlphabet
    MaxTokens = 4
    InstanceBits = 4
    VoteBits = 4
    Inputs <- MCInputs
    minimum_read_size = 3
    write_buffer_size = 2
    Blocks <- MCBlocks
    MaxWritten = 6
    SizeBits = 4
    MaxCalls = 2
    MaxTold = 2
    MaxStrays = 1
    MaxRequests = 2
    MaxForeign = 1
    Callers = {"left"}
    Servers = {"right"}
    CalledNames = {"m"}
    AddedNames = {"m"}
    Slots = {1, 2}
    Cells = {1, 2, 3}
    PlainValues = {"a"}
    PointedValues = {"b", "c"}
    BlobValues = {"d", "e"}
    Keys = {"k", "l", "m"}
    MaxIds = 3
    FilterKeys = {1, 2, 3}
    Parameters <- MCParameters
    predef_salt <- MCSalts
    bits_per_char = 4
    MaxInserts = 2
    Limits = {0, 2}
    Lengths = {1, 4}
    Elapsed = {1, 3}
    Second = 2
    burstiness = 1
    MaxOps = 3
    MaxIterations = 3
    MaxSets = 1
    SigningKeys = {"a", "b", "c"}
    ChainIds = {"x", "y"}
    BlockTrxs = {1, 2}
    MaxBlockTrxs = 5
    RefMod = 4
    Types = {1}
    Values = {"a", "b"}
    MaxNext = 2
    MaxStack = 3
INVARIANTS
    ValuesExact
    StreamsWhole
    ApiCallsAnswered
    JsonCallsAnswered
    LifetimesMatched
    IndexesFollow
    SessionsUndo
CHECK_DEADLOCK FALSE
