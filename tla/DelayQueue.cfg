SPECIFICATION FairSpec
CONSTANTS
    NumMsgs = 2
    MaxCopies = 2
    MaxWaitingDelayed = 2
    Hour = 1
    Instances <- MCInstances
INVARIANT TypeOK
INVARIANT CountCovers
 
INVARIANT DeferredCounts
PROPERTY ConsumedOnly
PROPERTY DueDelivered
CHECK_DEADLOCK FALSE
