SPECIFICATION Spec
CONSTANTS
    Nodes = {n1, n2, n3}
    None = None
    StartLog = 1
    MaxRetry = 1
    Budgets <- Faults
    MaxPending = 1
    MaxRequests = 1
SYMMETRY Symmetry
INVARIANT TypeOK
INVARIANT AckedKept
INVARIANT AckedApart
INVARIANT NoFork
INVARIANT JoinQuiet
INVARIANT EpochNamesInfo
PROPERTY WriteEpochMoves
CHECK_DEADLOCK FALSE
