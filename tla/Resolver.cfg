\* One worker and the event loop, three slots for lookups of one send and then one
\* more try, two requests, and one other packet, datagram, spurious wake-up, signal
\* or change of descriptor 0.
CONSTANTS
    NULL = NULL
    MR = MR
    Worker = {w1}
    Nonce = {n1, n2}
    Answers <- MCAnswers
    MAX_LOOKUPS = 3
    MR_MAX_LOOKUP = 1
    timeout = 2
    PK_POOL_MAX = 1
    UIntMod = 8
    Rlocs = 1
    MaxRequests = 2
    MaxOthers = 1
    Fd0 = {"quiet"}
SPECIFICATION Spec
CHECK_DEADLOCK FALSE
INVARIANTS TypeOK CountExact InProcessBounded PendingHeld
PROPERTIES  LookupsEnd ReceiveLoopResumes
