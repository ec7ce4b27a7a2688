SPECIFICATION MCSpec
CONSTANTS
    None = None
    Absent = Absent
    Junk = Junk
    NotFound = NotFound
    Failed = Failed
    Spellings <- MCSpellings
    Canon <- MCCanon
    Images <- MCImages
    Unparsable = {"bad"}
    DebugId <- MCDebugId
    AliasesOf <- MCAliasesOf
    Bytes <- MCUnitBytes
    Origins <- Hit
    MaxBytes = 2
    MaxModules = 2
    MaxParses = 3
    MaxRows = 1
    Paths <- MCPaths
    Locations <- MCLocations
    Visits <- MCVisits
    MaxIndexFiles = 2
    MaxSources = 2
    MaxDiskChanges = 0
PROPERTY NoNeedlessEviction
