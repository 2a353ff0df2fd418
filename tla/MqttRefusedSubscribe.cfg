\* A broker that answers the SUBSCRIBE with a refusal.
CONSTANTS
    Qos = {0}
    Faults = {"refuse"}
    MaxPublish = 1
    Programs = {"subscriber"}
    MaxCalls = 0
SPECIFICATION Spec
INVARIANT SuccessIsGranted
CHECK_DEADLOCK FALSE
