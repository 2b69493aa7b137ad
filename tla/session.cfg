SPECIFICATION FairSpec
CONSTANT Configs <- MCConfigs
INVARIANTS TypeOK CallAttended NothingLeftBehind SuccessMeansCall
PROPERTIES ReleaseBeforeRollback SignalEndsRun MaxDurationEndsRun LivesTied KeepsLifecycle
CHECK_DEADLOCK FALSE
