SPECIFICATION Spec
CONSTANTS
    MaxFileNameBytes = 11
    TempSuffix <- MCTempSuffix
    Word = 6
    TicksPerSecond = 2
    EpochSeconds = 4
    Buses <- MCBuses
    Listings <- MCListings
    DeepListings <- MCDeepListings
    UserDates <- MCUserDates
    LocalDir <- MCLocalDir
    MaxDepth = 2
    MaxPath = 12
INVARIANTS
    PickedIsMeant
    RowsAreTheListing
    RowsAreReadable
    TempNameIsGood
    DateComesBack
