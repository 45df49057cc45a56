\* Three sites, one inside another, two xTRs one of which may register without
\* authentication, and two workers: registers are lost and overtake each other.
CONSTANTS
    NULL = NULL
    s1 = s1
    s2 = s2
    s3 = s3
    e1 = e1
    e2 = e2
    MaxLen = 4
    PNBBY = 2
    Sites = {s1, s2, s3}
    Etrs = {e1, e2}
    Fncs = {"MS", "NODE", "MR"}
    Config <- MCConfig
    KeyOf <- MCKeyOf
    Mappings <- MCMappings
    Home <- MCHome
    Referrals <- MCReferrals
    Addresses <- MCAddresses
    Workers = {w1, w2}
    NotifyEvery = 1
    MaxChanges = 1
    MaxInFlight <- MCMaxInFlight
SPECIFICATION Spec
CHECK_DEADLOCK FALSE
INVARIANTS TypeOK UnracedExactly AnswersRight
PROPERTIES SitesIsolated NotifyTrue EventuallyRegistered
