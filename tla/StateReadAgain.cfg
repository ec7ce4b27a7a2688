SPECIFICATION StateSpec
CONSTANTS
    None = None
    Absent = Absent
    Junk = Junk
    NotFound = NotFound
    Failed = Failed
    Spellings <- MCSpellings
    Canon <- MCCanon
    Images <- MCImages
    Unparsable = {}
    DebugId <- MCDebugId
    AliasesOf <- MCAliasesOf
    Bytes <- MCBytes
    Origins <- Hit
    MaxBytes = 2
    MaxModules = 2
    MaxParses = 2
    MaxRows = 1
    Paths <- MCPaths
    Locations <- MCLocations
    Visits <- MCVisits
    MaxIndexFiles = 1
    MaxSources = 1
    MaxDiskChanges = 0
INVARIANT ReadAgainFromOrigin
