SPECIFICATION FairSpec
CONSTANTS
    Content <- MCContent
    OldLen = 2
    NewLens = {2, 3, 5}
    Caps = {1, 2}
    Distances = {0, 1, 2}
    UpSems = {0, 1, 2}
    MaxFaults = 1
CHECK_DEADLOCK FALSE
INVARIANTS
    KeysAddressBytes
    SameBytes
    DiesForACause
PROPERTIES
    ImplementsIngest
    ImplementsJob
    RepackEnds
