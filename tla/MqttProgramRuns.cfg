\* The three programs, and a caller of its own with a connection and two more calls in
\* any order, against a broker and a network that may do anything.
CONSTANTS
    Qos <- AnyQos
    Faults <- AllFaults
    MaxPublish = 3
    Programs <- ProgramNames
    MaxCalls = 2
SPECIFICATION FairSpec
INVARIANTS TypeOK ClientProtocol NothingHeld CleanExit ShownInOrder Aligned SuccessIsSubscribed
PROPERTY Terminates
CHECK_DEADLOCK FALSE
