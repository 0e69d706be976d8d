SPECIFICATION Spec
CONSTANTS
    Environments <- MCEnvironments
    Locations <- MCLocations
    MaxPort = 2
    DefaultPort = 1
    MaxInits = 2
    MaxSignals = 1
    Operations <- MCOperations
    DeviceTexts <- MCDeviceTexts
    Contents <- MCContents
    Outputs <- MCOutputs
    Reasons <- MCReasons
    Garbage <- MCGarbage
    Serials <- MCSerials
    HexBase = 3
    HexDigits = 2
    SyncPathMax = 3
    FailMax = 3
INVARIANTS
    TypeOK
    RequestsArriveWhole
    AnswerIsTheDevices
    CoreHasItsClient
    StartIsClean
PROPERTIES
    CallsReturn
