CONSTANTS
    n1 = n1
    n2 = n2
    Nodes = {n1, n2}
    Links <- MCLinks
    Capabilities <- MCCapabilities
    NoNode = NoNode
    NoFailure = NoFailure
    MaxActions = 3
    MaxTicks = 2
    MaxEffects = 3
    MaxQueuedMessages = 2
    MaxUint64 = 3
    MaxBatch = 2
    MaxTime = 3
SPECIFICATION Spec
SYMMETRY MCSymmetry
INVARIANTS TypeOK IdentitiesUnique LinkOrder ObservationFresh TraceAccountsForNetwork
    IdentitiesReplayable TraceContiguous LimitsHold
PROPERTIES TerminatedIsFinal LedgerSpec
