CONSTANTS
    Controller = {c1}
    NoController = none
    MaxRecord = 2
    MaxPacket = 2
    MaxInFlight = 2
    MaxConn = 2
    MaxFault = 1
    MaxError = 1
SPECIFICATION LiveSystem
INVARIANTS
    SystemTypeOK
    TableInOrder
PROPERTIES
    KeepsLedger
    EveryRecordSettled
    EveryRecordDeleted
CHECK_DEADLOCK FALSE
