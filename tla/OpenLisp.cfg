\* Two slots, two requests per lookup, three lookups.
CONSTANTS
    NULL = NULL
    Width = 2
    Eids <- MCEids
    Replies <- MCReplies
    etr_db <- MCLocals
    Leftovers <- MCLeftovers
    Confs <- MCConfs
    Mine = {9}
    PetrRlocs <- MCPetr
    MAX_LOOKUPS = 3
    COUNT = 2
    MAX_COUNT = 2
    timeout = 2
    MaxOpened = 3
    MaxAge = 6
SPECIFICATION Spec
INVARIANTS
    TypeOK
    OneLookupPerEid
    EndsForAReason
    LocalsInstalled
    CacheAsAnnounced
PROPERTY LookupsEnd
CHECK_DEADLOCK FALSE
