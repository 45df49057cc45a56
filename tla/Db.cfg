\* Addresses of four bits in bytes of two; five keys, one value, two locks.
CONSTANTS
    NULL = NULL
    MaxLen = 4
    PNBBY = 2
    Keys <- MCKeys
    Values = {v}
    LockMax = 2
SPECIFICATION Spec
CHECK_DEADLOCK FALSE
INVARIANT WellFormed
PROPERTY ImplementsMap
