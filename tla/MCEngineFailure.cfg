CONSTANTS
    n1 = n1
    n2 = n2
    Nodes = {n1, n2}
    Links <- MCLinks
    Capabilities <- MCCapabilities
    NoNode = NoNode
    NoFailure = NoFailure
    MaxActions = 3
    MaxTicks = 2
    MaxEffects = 3
    MaxQueuedMessages = 3
    MaxUint64 = 7
    MaxBatch = 2
    MaxTime = 3
    MaxAdvanceTicks = 2
    MaxMessageBatch = 2
    ClampMessageStart = TRUE
    PlanActions <- MCPlanActions
    Sources <- MCSources
    FailOn = {"skipped"}
    MaxConsecutiveNoops = 2
    ModelExecutor = TRUE
SPECIFICATION EngineSpec
INVARIANTS SuccessHasNoFailure
