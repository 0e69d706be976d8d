SPECIFICATION FairSpec
CONSTANTS
    MaxVersion = 3
    Wrap = 8
    Window = 2
    Chunks <- MCChunks
    Dates <- MCDates
INVARIANT TypeOK
INVARIANT OkIsWhole
INVARIANT DateArrives
INVARIANT AnswerIsHonest
PROPERTY ExistingIsKept
PROPERTY SourceGoesLast
PROPERTY CancelLeavesTransfer
