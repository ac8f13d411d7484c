CONSTANTS
    Controller = {c1}
    NoController = none
    MaxRecord = 2
    MaxPacket = 2
    MaxInFlight = 2
    MaxConn = 3
    MaxFault = 2
SPECIFICATION Spec
INVARIANTS
    TypeOK
    DeletedIsStored
    CounterIsStored
    OnceWithoutFault
CHECK_DEADLOCK FALSE
