CONSTANTS
    Controller = {c1}
    NoController = none
    MaxRecord = 2
    MaxPacket = 2
    MaxInFlight = 2
    MaxConn = 1
    MaxFault = 0
SPECIFICATION LiveSpec
PROPERTY IdleIsClosed
CHECK_DEADLOCK FALSE
