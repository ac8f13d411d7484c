CONSTANT Sent <- MCSent
CONSTANT Extra <- MCExtra
SPECIFICATION Spec
INVARIANTS
    TypeOK
    ReadsBack
    SizeIsLength
    CutIsNoticed
    UnknownIsCarried
CHECK_DEADLOCK FALSE
