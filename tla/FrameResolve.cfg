SPECIFICATION MCSpec
CONSTANTS
    Names = {f, g}
    None = None
    MaxAddr = 3
    MaxRva = 1
    MaxDepth = 2
    MaxSymbols = 2
    MaxWalk = 3
    MaxUnits = 2
    MaxUnitCount = 3
    SourceFiles = {src}
    Uuids = {guid}
    Ages = {0, 1}
    Digits <- MCDigits
    Upper <- MCUpper
    GuidLen = 2
    MaxNote = 3
    MaxAge = 2
    Letters = {"a"}
    MaxPattern = 5
    Matches <- MCMatches
    Dirs = {"top", "sub"}
    Files = {"f1", "f2", "f3"}
    Entries <- MCEntries
    Root = "top"
    max_files = 2
INVARIANTS
    FrameTypeOK
    ChainShape
    FramesFromReader
    NearestSymbol
    FastPathAgrees
    ProbeAgrees
    StatsOfUnits
    FrameFindsItsFile
    DebugIdsApart
    CanonicalKeys
    WalkFindsAll
PROPERTIES
    ResolveEnds
    ParseEnds
