SPECIFICATION FairSpec
CONSTANTS
    T1 = 1
    T2 = 8
    Timeout = 64
    ProvisionalCap = 1
    Requests <- MCRequests
INVARIANTS TypeOK FirstFinalWins
PROPERTIES LoopServesCaller WaitReturns
CHECK_DEADLOCK FALSE
