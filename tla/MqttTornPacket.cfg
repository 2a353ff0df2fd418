\* A caller that asks again after a time-out, nothing goes wrong.
CONSTANTS
    Qos = {0}
    Faults = {}
    MaxPublish = 1
    Programs = {"caller"}
    MaxCalls = 3
SPECIFICATION Spec
INVARIANT ReceivedIsPublished
CHECK_DEADLOCK FALSE
