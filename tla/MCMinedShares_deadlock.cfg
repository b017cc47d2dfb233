SPECIFICATION FairSpec
CONSTANTS
    p1 = p1
    s1 = s1
    NoOne = NoOne
    Procs = {p1}
    Shares = {s1}
    MaxSteps = 1
PROPERTIES
    CallsReturn
CHECK_DEADLOCK FALSE
