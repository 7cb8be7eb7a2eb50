CONSTANTS
    ModelStates <- MCModelStates
    SemanticKey <- MCSemanticKey
    Visits <- MCVisitsFew
    MinNewModelStates = 1
    RequireSemanticNovelty = TRUE
    Runs = 3
    Parallelism = 2
    InitialPopulation = 2
    MaxReadyCandidates = 1
    MutationsPerNewState = 2
    MaxMutationsPerCorpus = 2
    RandomSeedInterval = 2
    RandomSeedsPerInterval = 1
    CheckpointEvery = 2
    FailingHooks = {"corpus"}
    MaxInterruptions = 1
    None = None
SPECIFICATION Spec
CHECK_DEADLOCK FALSE
INVARIANTS
    CheckpointRestorable
