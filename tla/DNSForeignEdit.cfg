SPECIFICATION Spec
CONSTANTS
    a = a
    b = b
    e1 = e1
    e2 = e2
    za = za
    zb = zb
    zf = zf
    f1 = f1
    f2 = f2
    NULL = NULL
    LB <- MCLB
    Endpoint <- MCEndpoint
    Zone <- ServedZones
    Contains <- MCContains
    NameLen <- MCNameLen
    Foreign = {f1, f2}
    Feed <- MCFeed
    InitZones <- ServedZones
    SeedRecords = {{}}
    AmbiguousUpdates = FALSE
    MaxCopies = 1
    MaxFeeds = 1
    MaxEdits = 1
    MaxZoneChanges = 0
    MaxDownloadErrors = 0
    MaxUpdateErrors = 0
PROPERTIES SeenEditsKept
