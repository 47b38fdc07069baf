SPECIFICATION FairSpec
CONSTANTS
    p1 = p1
    p2 = p2
    h1 = h1
    h2 = h2
    Pieces = {p1, p2}
    Hashes = {h1, h2}
    HashOf <- MCHashOf
    Chunks = {c1, c2}
    Peers = {w1, w2, w3}
    InflightPieces = 2
    UpSem = 1
    MaxFaults = 0
    NoBuf = NoBuf
    Absent = Absent
PROPERTIES
    StalledWriteResumes
CHECK_DEADLOCK FALSE
