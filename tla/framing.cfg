CONSTANTS
    Crc <- crc16
    Body <- MCBody
    Junk <- MCJunk
    MaxFrames = 2
    ReadSize = 9
SPECIFICATION Spec
INVARIANTS
    TypeOK
    FramesInOrder
    PromptDelivery
    AnswersDecode
    DamageIsNoticed
    MatchesReference
CHECK_DEADLOCK FALSE
