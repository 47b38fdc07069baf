SPECIFICATION FairSpec
CONSTANTS
    h1 = h1
    h2 = h2
    None = None
    Hashes = {h1, h2}
    HashOf <- MCHashOf
    Sessions = {s1, s2}
    Readers = {r1, r2}
    Prefetchers = {p1}
    Caps = {1, 2}
    Distance = 1
    MaxSpan = 2
    MaxFaults = 1
INVARIANTS
    FlightInv
    EofNeedsCause
PROPERTIES
    ReadsEnd
CHECK_DEADLOCK FALSE
