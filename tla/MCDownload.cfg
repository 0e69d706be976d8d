SPECIFICATION FairSpec
CONSTANTS
    MaxVersion = 3
    MaxCalls = 2
    MaxCrashes = 1
    Chunks <- MCChunks
INVARIANT TypeOK
INVARIANT OkIsWhole
INVARIANT FailureChangesNothing
INVARIANT DateIsFromTheFile
INVARIANT SourceGoesLast
PROPERTY ReplaceIsAtomic
PROPERTY CancelLeavesTransfer
