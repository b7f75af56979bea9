\* Every question once.  The initial state is the only one with a successor.
SPECIFICATION Spec
CHECK_DEADLOCK FALSE
CONSTANTS
    Parts <- MCParts
    MaxParts = 3
    MaxOrdered = 2
    Pres <- MCPres
    Collate <- MCCollate
    Second = 3
    Hour = 7
    Word64 = 127
    Bytes = {"nl", "end", "begin", "x"}
    MaxPayload = 4
    Segments <- MCSegments
    MaxSegments = 3
    Home <- MCHome
INVARIANTS VersionsAreOrdered InstallersAgree LifetimeExact NamesKeepDirectories RoundTrips
