SPECIFICATION Spec
CONSTANTS
    Grants <- MCGrants
    TimerF = 8
    Minute = 15
    MaxCSeq = 4
INVARIANT GoneMeansUnbound
CHECK_DEADLOCK FALSE
