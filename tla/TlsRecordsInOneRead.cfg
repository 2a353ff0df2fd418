\* An honest server, a connection that stays up, memory enough.
CONSTANTS
    Flights <- PlainFlights
    PlainCapacity = 2
    RawCapacity = 4
    AllocFails = {FALSE}
    TicketRecords = {1}
    EarlyTicket = FALSE
    MaxConn = 1
    MaxBytes = 3
    MaxRecord = 1
    MaxRetry = 0
    MaxControl = 0
    MaxSend = 0
SPECIFICATION Spec
PROPERTY ReceiveFailsOnlyWhenBroken
