SPECIFICATION MCSpec
CONSTANTS
    None = None
    Absent = Absent
    Junk = Junk
    NotFound = NotFound
    Failed = Failed
    Spellings <- MCSpellings
    Canon <- MCCanon
    Images <- MCImages
    Unparsable = {}
    DebugId <- MCDebugId
    AliasesOf <- MCAliasesOf
    Bytes <- MCBytes
    Origins <- Hit
    MaxBytes = 2
    MaxModules = 1
    MaxParses = 6
    MaxRows = 6
    Paths <- MCPaths
    Locations <- MCLocations
    Visits <- MCVisits
    MaxIndexFiles = 2
    MaxSources = 2
    MaxDiskChanges = 1
    Clients = {a, b}
    Batches <- MCBatches
    MaxCalls = 1
INVARIANTS
    WorkerTypeOK
    RowsAligned
PROPERTIES
    BatchIsolated
    CallsServed
CHECK_DEADLOCK FALSE
