SPECIFICATION Spec
CONSTANTS
    t1 = t1
    t2 = t2
    t3 = t3
    h1 = h1
    h2 = h2
    h3 = h3
    Torrents = {t1, t2, t3}
    Hashes = {h1, h2, h3}
    PiecesOf <- MCPiecesOf
    RepackOf <- MCRepackOf
    Jobs = {j1, j2}
SYMMETRY MCSymmetry
INVARIANTS
    SafeMarkersComplete
    BucketInv
PROPERTIES
    LoadedIsSpared
