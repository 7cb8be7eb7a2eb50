CONSTANTS
    ModelStates <- MCModelStates
    SemanticKey <- MCSemanticKey
    Visits <- MCVisits
    MinNewModelStates = 1
    RequireSemanticNovelty = TRUE
    Runs = 4
    Parallelism = 2
    InitialPopulation = 2
    MaxReadyCandidates = 1
    MutationsPerNewState = 2
    MaxMutationsPerCorpus = 2
    RandomSeedInterval = 2
    RandomSeedsPerInterval = 1
    CheckpointEvery = 2
    FailingHooks = {"run_written", "checkpoint"}
    MaxInterruptions = 2
    None = None
SPECIFICATION Spec
CHECK_DEADLOCK FALSE
INVARIANTS
    TypeOK
    CheckpointRestorable
    CoverageAttributedOnce
    CandidatesConserved
    PeriodicSeedsConserved
PROPERTIES
    DurableProgress
