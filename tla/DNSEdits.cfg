SPECIFICATION Spec
CONSTANTS
    a = a
    b = b
    e1 = e1
    e2 = e2
    za = za
    zb = zb
    zf = zf
    f1 = f1
    f2 = f2
    NULL = NULL
    LB <- MCLB
    Endpoint <- MCEndpoint
    Zone <- MCZone
    Contains <- NestedContains
    NameLen <- NestedNameLen
    Foreign = {f1, f2}
    Feed <- MCFeed
    InitZones <- OuterZones
    SeedRecords = {{}}
    AmbiguousUpdates = FALSE
    MaxCopies = 1
    MaxFeeds = 1
    MaxEdits = 1
    MaxZoneChanges = 2
    MaxDownloadErrors = 0
    MaxUpdateErrors = 0
SYMMETRY ForeignSymmetry
INVARIANTS WantedZonesCarryList
PROPERTIES ForeignZonesUntouched ForcedUploadsFresh
