\* Every plan of MCPtlsConnection; two records of early data may be skipped, and a key
\* is changed after three records.
CONSTANTS
    Plans <- MCPlans
    MaxSkip = 2
    MaxSeq = 3
    SevenDays = 2000
    EarlyDataMaxDelay = 10
    AgeModulus = 4096
SPECIFICATION FairSpec
INVARIANTS TypeOK PtlsAsserts HonestSucceeds ResumesWhenPossible
    EarlyDataAllOrNothing DeliveredInOrder NonceUnique TicketsAgree NeverGarbled
PROPERTIES ImplementsAgreement Settles
CHECK_DEADLOCK FALSE
