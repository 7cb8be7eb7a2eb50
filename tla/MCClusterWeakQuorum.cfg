CONSTANTS
    Nodes = {n1, n2, n3, n4}
    None = None
    NoOp = None
    NoMessage = NoMessage
    SnapshotThreshold = 0
    RetainEntries = 0
    VoteQuorumDivisor = 3
    MaxValue = 1
    MaxLogIndex = 1
    LargestTerm = 1
    ModelEnabled = TRUE
    Budgets <- MCWeakQuorumBudgets
SPECIFICATION Spec
SYMMETRY Symmetry
CHECK_DEADLOCK FALSE
INVARIANTS
    OneVotePerTerm
    TwoLeadersReported
    WeakElectionsRefused
