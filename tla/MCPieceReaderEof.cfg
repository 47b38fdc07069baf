SPECIFICATION Spec
CONSTANTS
    h1 = h1
    h2 = h2
    None = None
    Hashes = {h1, h2}
    HashOf <- MCHashOf
    Sessions = {s1}
    Readers = {r1, r2}
    Prefetchers = {p1, p2}
    Caps = {2}
    Distance = 1
    MaxSpan = 2
    MaxFaults = 1
INVARIANTS
    EofMeansEnd
CHECK_DEADLOCK FALSE
