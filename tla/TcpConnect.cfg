\* Every combination of up to three addresses and of what becomes of them.
CONSTANTS
    MaxAddr = 3
    Fates = {"nosocket", "nofcntl", "refuses", "at_once", "accepts", "sticks", "resets", "silent"}
SPECIFICATION FairSpec
INVARIANTS TypeOK OnlyTheResultIsOpen FirstThatAnswers
PROPERTY Returns
CHECK_DEADLOCK FALSE
