SPECIFICATION ClusterSpec
CONSTANTS
    a = a
    za = za
    e1 = e1
    e2 = e2
    f1 = f1
    NULL = NULL
    LB = {a}
    Endpoint <- MCEndpoint
    Zone = {za}
    Contains <- MCContains
    NameLen <- MCNameLen
    Foreign = {f1}
    Feed <- MCFeed
    InitZones = {za}
    SeedRecords = {{}}
    AmbiguousUpdates = FALSE
    MaxCopies = 1
    MaxFeeds = 1
    MaxEdits = 0
    MaxZoneChanges = 0
    MaxDownloadErrors = 0
    MaxUpdateErrors = 0
    MaxTurns = 2
    MaxCrashes = 1
 
PROPERTIES LeaderConverges QuietFollower
