SPECIFICATION Spec
CONSTANTS
    Configurations <- MCConfigurations
    Passages <- MCPassages
    Containers <- MCContainers
    DocBlocks <- MCDocBlocks
    Documents <- MCDocuments
    IntPart <- MCIntPart
    MaxDecodeDepth = 3
    MaxParts = 2
    MaxRounds = 5
INVARIANTS
    TypeOK
    EveryDestinationKeptOrReported
    FootnotesAgree
    EveryWordKept
    MarksSurvive
    NoMergeableText
    WidthsFollowColumns
    TableRowsFull
    DirectivesReadBack
    WireSafe
    AnchorsSurvive
    WrappersOpen
PROPERTIES
    Settles
    NormalizeChangesNoDocument
    CanonicalFormSettles
    FormatKeepsWhatWasWritten
    AlignmentReturns
    TaskWordsStayApart
    ReadBackIsNoEdit
    WireKeepsEverything
CHECK_DEADLOCK FALSE
