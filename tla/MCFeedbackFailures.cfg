CONSTANTS
    ModelStates <- MCModelStates
    SemanticKey <- MCSemanticKey
    Visits <- MCVisitsFew
    MinNewModelStates = 1
    RequireSemanticNovelty = TRUE
    Runs = 3
    Parallelism = 2
    InitialPopulation = 2
    MaxReadyCandidates = 1
    MutationsPerNewState = 2
    MaxMutationsPerCorpus = 2
    RandomSeedInterval = 2
    RandomSeedsPerInterval = 1
    CheckpointEvery = 1
    FailingHooks = {"event", "event_written", "corpus", "corpus_written", "run", "run_written", "checkpoint"}
    MaxInterruptions = 2
    None = None
SPECIFICATION FairSpec
CHECK_DEADLOCK FALSE
INVARIANTS
    JournalsUnique
PROPERTIES
    EventsContiguous
    EventuallyCompletes
