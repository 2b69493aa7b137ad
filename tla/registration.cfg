SPECIFICATION Spec
CONSTANTS
    Grants <- MCGrants
    TimerF = 8
    Minute = 15
    MaxCSeq = 4
INVARIANTS TypeOK CSeqsDistinct LastWordHolds BindingKept
CHECK_DEADLOCK FALSE
