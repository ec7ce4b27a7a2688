SPECIFICATION Spec
CONSTANTS
    Names = {f, g}
    None = None
    MaxAddr = 3
    MaxRva = 1
    MaxDepth = 2
    MaxSymbols = 1
    MaxWalk = 3
INVARIANT MidWalkErrorMarked
