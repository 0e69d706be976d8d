SPECIFICATION FairSpec
CONSTANTS
    MaxBytes = 3
    MaxSignals = 2
INVARIANT TypeOK
INVARIANT ExactCount
PROPERTY ImplementsContract
PROPERTY StopIsHeeded
PROPERTY SettledLinkReturns
