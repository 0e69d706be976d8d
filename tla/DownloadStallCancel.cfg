\* adbclient.hpp:667-671, a stall given up by the callback is reported as a cancellation.
SPECIFICATION FairSpec
CONSTANTS
    MaxVersion = 1
    MaxCalls = 1
    MaxCrashes = 0
    Chunks <- MCOneVersion
INVARIANT StallCancelIsAbort
