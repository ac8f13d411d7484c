CONSTANT Packet <- MCPacket
SPECIFICATION Spec
INVARIANTS
    TypeOK
    OwnRecordOnly
    NoFieldOverwritten
    EventsInOrder
CHECK_DEADLOCK FALSE
