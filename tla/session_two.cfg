CONSTANTS
    Controller = {c1, c2}
    NoController = none
    MaxRecord = 1
    MaxPacket = 1
    MaxInFlight = 1
    MaxConn = 2
    MaxFault = 1
SPECIFICATION Spec
INVARIANTS
    DeletedIsStored
    CounterIsStored
CHECK_DEADLOCK FALSE
