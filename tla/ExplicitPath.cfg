\* An xTR without lisp_te and replies with an explicit path of three hops.
CONSTANTS
    NULL = NULL
    Width = 2
    Eids <- MCEids
    Replies <- MCReplies
    etr_db <- MCLocals
    Leftovers <- MCLeftovers
    Confs <- MCPlainXtr
    Mine = {9}
    PetrRlocs <- MCPetr
    MAX_LOOKUPS = 3
    COUNT = 2
    MAX_COUNT = 2
    timeout = 2
    MaxOpened = 3
    MaxAge = 6
SPECIFICATION Spec
INVARIANT HopAsDocumented
CHECK_DEADLOCK FALSE
