\* init alone
SPECIFICATION Spec
CONSTANT
    Applications <- InitOnly
INVARIANTS
    InitFoundApis
CHECK_DEADLOCK FALSE
