SPECIFICATION FairSpec
CONSTANTS
    a = a
    b = b
    e1 = e1
    e2 = e2
    za = za
    zb = zb
    zf = zf
    f1 = f1
    f2 = f2
    NULL = NULL
    LB <- MCLB
    Endpoint <- MCEndpoint
    Zone <- MCZone
    Contains <- MCContains
    NameLen <- MCNameLen
    Foreign = {f1}
    Feed <- MCFeed
    InitZones <- MCZone
    SeedRecords = {{}}
    AmbiguousUpdates = FALSE
    MaxCopies = 1
    MaxFeeds = 2
    MaxEdits = 0
    MaxZoneChanges = 0
    MaxDownloadErrors = 1
    MaxUpdateErrors = 0
PROPERTIES Converges
