\* Every way the server can answer a ClientHello, allocation failures
\* included, and two connections; little traffic afterwards.
CONSTANTS
    Flights <- AllFlights
    PlainCapacity = 2
    RawCapacity = 3
    AllocFails = {TRUE, FALSE}
    TicketRecords = {1}
    EarlyTicket = TRUE
    MaxConn = 2
    MaxBytes = 1
    MaxRecord = 1
    MaxRetry = 2
    MaxControl = 1
    MaxSend = 1
SPECIFICATION FairSpec
INVARIANTS NothingLeaks WholeHandshake HonestNotRefused PicotlsAsserts ClientMessagesInOrder
PROPERTIES KeyUpdateAnswered CallsReturn
