\* Three Map-Requests that may have the same nonce, and nothing else.
CONSTANTS
    NULL = NULL
    MR = MR
    Worker = {w1}
    Nonce = {n1}
    Answers <- MCAnswers
    MAX_LOOKUPS = 2
    MR_MAX_LOOKUP = 1
    timeout = 2
    PK_POOL_MAX = 2
    UIntMod = 8
    Rlocs = 1
    MaxRequests = 3
    MaxOthers = 0
    Fd0 = {"quiet"}
SPECIFICATION Spec
CHECK_DEADLOCK FALSE
PROPERTIES ReceiveLoopLives
