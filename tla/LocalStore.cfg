SPECIFICATION Spec
CONSTANTS
    MaxPerFile = 2
    LOGROTATE_NUM = 2
    MIN_KEEP_LOG_ITEM = 1
    BufSize = 1
    SyncEvery = 2
    MaxBatch = 2
    Instances <- MCInstances
    SyncStarts <- MCSyncStarts
INVARIANT TypeOK
INVARIANT LogIdsIncrease
INVARIANT LogMatchesQueue
INVARIANT LeaderEndsAgree
INVARIANT LogCleanedFirst
INVARIANT ChannelsSeeCommitted
INVARIANT SearchFindsEntry
PROPERTY QueueStartAdvances
CHECK_DEADLOCK FALSE
