\* Three threads at most, one kept, that linger or do not; three jobs that may
\* call pthread_exit; pthread_create may fail.
CONSTANTS
    Worker = {w1, w2, w3}
    Job = {j1, j2, j3}
    pool_minimum = 1
    pool_maximum = 3
    Lingers = {0, 1}
    CreateFails = TRUE
    JobsExit = TRUE
SPECIFICATION FairSpec
INVARIANTS
    TypeOK
    CountersExact
    FreedPoolUnused
    NoStrandedJob
PROPERTIES
    EveryJobRuns
    WaitReturns
CHECK_DEADLOCK FALSE
