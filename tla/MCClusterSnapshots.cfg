CONSTANTS
    Nodes = {n1, n2, n3}
    None = None
    NoOp = None
    NoMessage = NoMessage
    SnapshotThreshold = 1
    RetainEntries = 0
    VoteQuorumDivisor = 2
    MaxValue = 1
    MaxLogIndex = 2
    LargestTerm = 2
    ModelEnabled = FALSE
    Budgets <- MCSnapshotBudgets
SPECIFICATION Spec
SYMMETRY Symmetry
CHECK_DEADLOCK FALSE
INVARIANTS
    AdapterCallsSucceed
    OracleSilent
    PrefixesKept
PROPERTIES
    FailuresLoseNothing
    AppliedStays
