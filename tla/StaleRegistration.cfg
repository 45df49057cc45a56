\* Sites that do not meet, no requests and no referrals.
CONSTANTS
    NULL = NULL
    s1 = s1
    s2 = s2
    s3 = s3
    e1 = e1
    e2 = e2
    MaxLen = 4
    PNBBY = 2
    Sites = {s1, s2, s3}
    Etrs = {e1, e2}
    Fncs = {"MS", "NODE", "MR"}
    Config <- MCDisjoint
    KeyOf <- MCKeyOf
    Mappings <- MCMappings
    Home <- MCHome
    Referrals = {}
    Addresses = {}
    Workers = {w1, w2}
    NotifyEvery = 2
    MaxChanges = 1
    MaxInFlight <- MCMaxInFlight
SPECIFICATION Spec
CHECK_DEADLOCK FALSE
INVARIANT RegisteredExactly

