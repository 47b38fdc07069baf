SPECIFICATION FairSpec
CONSTANTS
    p1 = p1
    p2 = p2
    h1 = h1
    h2 = h2
    Pieces = {p1, p2}
    Hashes = {h1, h2}
    HashOf <- MCHashOf
    Chunks = {c1, c2}
    Peers = {w1, w2, w3}
    InflightPieces = 3
    UpSem = 1
    MaxFaults = 3
    NoBuf = NoBuf
    Absent = Absent
INVARIANTS
    SlotsAccounted
    UploadsAccounted
    NoLostWrite
    CasHoldsVerified
    CompleteIsStored
    MarkerMeansComplete
    FetchInv
    FullOnlyForAMoment
PROPERTIES
    ProgressIsKept
    ImplementsIngest
    ImplementsJob
    EventuallyCommitted
