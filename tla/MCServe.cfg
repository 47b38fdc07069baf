SPECIFICATION FairSpec
CONSTANTS
    Channels = {c1}
    Parts <- MCParts
    Infos <- MCInfos
    ReadLens = {2, 3}
    QueueCap = 1
    MaxRequests = 5
    MaxFaults = 1
CHECK_DEADLOCK FALSE
INVARIANTS
    ListedIsThere
    DownloadsAreExact
    GetIsWholeOrThrows
    RangeIsExact
PROPERTIES
    RequestsServed
    SessionsEnd
