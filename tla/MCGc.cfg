SPECIFICATION FairSpec
CONSTANTS
    t1 = t1
    t2 = t2
    h1 = h1
    h2 = h2
    Torrents = {t1, t2}
    Hashes = {h1, h2}
    PiecesOf <- MCPiecesOf
    RepackOf = {}
    Jobs = {j1}
    UpSems = {0, 2}
    ChanCap = 1
    MaxFaults = 1
INVARIANTS
    SweepSeesSteady
    NothingOverlooked
PROPERTIES
    ImplementsBucket
    GcEnds
