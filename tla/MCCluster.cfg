CONSTANTS
    Nodes = {n1, n2, n3}
    None = None
    NoOp = None
    NoMessage = NoMessage
    SnapshotThreshold = 0
    RetainEntries = 0
    VoteQuorumDivisor = 2
    MaxValue = 1
    MaxLogIndex = 2
    LargestTerm = 2
    ModelEnabled = TRUE
    Budgets <- MCBudgets
SPECIFICATION Spec
SYMMETRY Symmetry
CHECK_DEADLOCK FALSE
INVARIANTS
    ClusterTypeOK
    ReferenceAccepts
    ReferenceMatches
