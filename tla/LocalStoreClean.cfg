SPECIFICATION Spec
CONSTANTS
    MaxPerFile = 2
    LOGROTATE_NUM = 2
    MIN_KEEP_LOG_ITEM = 1
    BufSize = 1
    SyncEvery = 2
    MaxBatch = 2
    Instances <- MCFromEmpty
    SyncStarts <- MCSyncStarts
INVARIANT CleanKeepsIndexedData
CHECK_DEADLOCK FALSE
