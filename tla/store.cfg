CONSTANTS
    MaxMessages = 2
    MaxCalls = 5
    MaxErrors = 3
SPECIFICATION LiveSpec
INVARIANTS
    TypeOK
    FifoOrder
    ConnectedWhileSaving
    QuietWhenGone
PROPERTIES
    ImplementsAbstractStore
    AcceptedIsSettled
    IdleStopReturns
