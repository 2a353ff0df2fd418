\* Packets up to twice the size of the buffers.
CONSTANTS
    Base = 4
    MaxPacket = 18
    BufSize = 22
    TopicSize = 4
    Inputs <- Packets
SPECIFICATION Spec
INVARIANTS TypeOK ExactFraming ParsedAsSent BuiltAsGiven
CHECK_DEADLOCK FALSE
