\* A publisher of QoS 1 whose broker ends the connection instead of answering.
CONSTANTS
    Qos = {1}
    Faults = {"quit"}
    MaxPublish = 0
    Programs = {"publisher"}
    MaxCalls = 0
SPECIFICATION Spec
INVARIANT SureIsTaken
CHECK_DEADLOCK FALSE
