\* Three bytes in records of one or two, a ticket or a key update among them,
\* reads of up to two records, two connections.
CONSTANTS
    Flights <- PlainFlights
    PlainCapacity = 2
    RawCapacity = 4
    AllocFails = {FALSE}
    TicketRecords = {2}
    EarlyTicket = FALSE
    MaxConn = 2
    MaxBytes = 3
    MaxRecord = 2
    MaxRetry = 0
    MaxControl = 1
    MaxSend = 0
SPECIFICATION Spec
INVARIANTS TypeOK InOrder
PROPERTY ImplementsChannel
