CONSTANTS
    Width = 3
    MaxLength = 3
    Sockets = {s1, s2, s3}
    Ports = {4342}
    Chunk = {c1, c2, c3}
    AnnouncedEids <- MCEids
    InitPlanes = 1
    InitAssignments = 1
    MaxRegistrations = 3
SPECIFICATION MCSpec
INVARIANTS
    TablesTypeOK
    EntriesAllocated
    AssigneesInitialised
    WithinCapacity
    OneEntryPerEid
SYMMETRY Symmetry
CHECK_DEADLOCK FALSE
