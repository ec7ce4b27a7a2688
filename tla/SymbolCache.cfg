SPECIFICATION MCSpec
CONSTANTS
    None = None
    Absent = Absent
    Junk = Junk
    NotFound = NotFound
    Failed = Failed
    Spellings <- MCSpellings
    Canon <- MCCanon
    Images <- MCImages
    Unparsable = {"bad"}
    DebugId <- MCDebugId
    AliasesOf <- MCAliasesOf
    Bytes <- MCBytes
    Origins <- Hit
    MaxBytes = 3
    MaxModules = 2
    MaxParses = 3
    MaxRows = 1
    Paths <- MCPaths
    Locations <- MCLocations
    Visits <- MCVisits
    MaxIndexFiles = 2
    MaxSources = 2
    MaxDiskChanges = 0
INVARIANTS
    CacheTypeOK
    WithinBudgets
    NeverUndercounts
    ResidentIndexed
    IndexClosed
    AliasSound
    AnsweredFromSources
PROPERTIES
    EntriesMonotone
    MruSurvives
    RowsKept
    EvictionEnds
    ParseOnce
