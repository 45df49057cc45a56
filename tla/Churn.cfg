\* Planes that announce the same EID, deregister and crash, while control
\* packets are sorted.
CONSTANTS
    s1 = s1
    s2 = s2
    s3 = s3
    Width = 1
    MaxLength = 2
    Sockets = {s1, s2}
    Ports = {4342, 4343}
    Chunk = {c1, c2}
    AnnouncedEids <- MCEids
    InitPlanes = 1
    InitAssignments = 1
    LookupEids <- MCLookups
    Busy = {"cpd"}
    PortOf <- TwoPorts
    Script <- OneAdd
    EastActions = {"DEREGISTER"}
    MayCrash = TRUE
    WriterPreference = FALSE
    EastRoom = 1
    PingRoom = 1
    NorthRoom = 1
    SouthRoom = 1
SPECIFICATION Spec
INVARIANT PollSetFresh
PROPERTY TablesSpec
CHECK_DEADLOCK FALSE
