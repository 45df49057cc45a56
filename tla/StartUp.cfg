\* Two planes start and announce disjoint configurations, a third party
\* writes an unknown request; fair threads, writers preferred.
CONSTANTS
    s1 = s1
    s2 = s2
    s3 = s3
    Width = 1
    MaxLength = 2
    Sockets = {s1, s2}
    Ports = {4342, 4343}
    Chunk = {c1, c2}
    AnnouncedEids <- MCEids
    InitPlanes = 1
    InitAssignments = 1
    LookupEids <- MCOneLookup
    Busy = {"mmd"}
    PortOf <- TwoPorts
    Script <- StartUp
    EastActions = {"UNKNOWN"}
    MayCrash = FALSE
    WriterPreference = TRUE
    EastRoom = 1
    PingRoom = 1
    NorthRoom = 1
    SouthRoom = 1
SPECIFICATION FairSpec
INVARIANTS
    TypeOK
    FatalHasCause
PROPERTIES
    RegistrationAnswered
    MessagesMuxed
CHECK_DEADLOCK FALSE
