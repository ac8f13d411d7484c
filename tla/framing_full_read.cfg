CONSTANTS
    Crc <- crc16
    Body <- MCFullBody
    Junk <- MCNoJunk
    MaxFrames = 2
    ReadSize = 14
SPECIFICATION Spec
INVARIANT ClosedForCause
CHECK_DEADLOCK FALSE
