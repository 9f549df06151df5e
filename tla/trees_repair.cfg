SPECIFICATION Spec
CONSTANTS
    Configurations <- MCConfigurations
    Passages <- MCPassages
    Containers <- MCContainers
    DocBlocks <- MCDocBlocks
    Documents <- MCDocuments
    IntPart <- MCIntPart
    MaxDecodeDepth = 3
    MaxParts = 2
    MaxRounds = 5
INVARIANT
    BothRepairsKept
CHECK_DEADLOCK FALSE
