SPECIFICATION IdSpec
CONSTANTS
    Digits <- MCDigits
    Upper <- MCUpper
    GuidLen = 2
    MaxNote = 3
    MaxAge = 2
INVARIANT RawBuildIdMatches
CHECK_DEADLOCK FALSE
