SPECIFICATION Spec
CONSTANTS
    Limits <- MCLimits
    Headers <- MCHeaders
    Absent = Absent
    Default = 3
    Grace = 1
    Hour = 6
    SetUp = 1
    Eternity = 10
INVARIANTS TypeOK RefreshedKept OverdueEnds
CHECK_DEADLOCK FALSE
