\* Two messages of QoS 2 on one session, nothing goes wrong.
CONSTANTS
    Qos = {2}
    Faults = {}
    MaxPublish = 0
    Programs = {"caller"}
    MaxCalls = 2
SPECIFICATION Spec
INVARIANT EachIsTaken
CHECK_DEADLOCK FALSE
