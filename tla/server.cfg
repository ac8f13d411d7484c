CONSTANTS
    Config <- MCConfig
    Supported = {"oracle"}
    Client = {1, 2, 3}
    Descriptors = 1
    MaxWaiting = 1
    MaxWrites = 1
SPECIFICATION LiveSpec
INVARIANTS
    TypeOK
    ReadyWhenRunning
    OperationsFollowSocket
    NothingSavedIntoRuin
PROPERTIES
    ClosedIsDropped
    WaitingIsAccepted
    SignalEnds
