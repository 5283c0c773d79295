\* Three callers and two replicas; the bounds of the others are in MCPrograms.
CONSTANTS
    Subjects = {"server", "replicas", "configuration", "decoder", "sampling", "training", "metrics", "batcher", "pool", "memory"}
    Callers = {c1, c2, c3}
    Handlers = {c1, c2}
    ReplicaCount = 2
    Capacities = {1, 2}
    Models = {"tiny", "large"}
    Sizes = {0, 1, 2, 3}
    Defaults <- MCDefaults
    None = None
    Tokens = {0, 1}
    Prompt <- MCPrompt
    Budgets = {3}
    Lookaheads = {1, 2, 4}
    Vocabulary <- MCVocabulary
    Weights = {1, 3}
    TopKs = {0, 1, 2, 3, 4}
    TopPs = {50, 100}
    TrainConfigs <- MCTrainConfigs
    Recorders = {t1, t2}
    Latencies = {1, 2}
    Window = 2
    MaxRecordings = 3
    MaxResets = 1
    Items = {i1, i2, i3}
    Slots = 2
    Closers = {d1, d2}
    BatchLimit = 2
    Hurried = {i1}
    Tasks = {i1, i2, i3}
    TaskSlots = 1
    Joiners = {d1}
    Workers = {w1, w2}
    Addresses = {a1, a2, a3}
    BackendBytes = 12
    MinBlock = 3
    AskedBytes = {1, 4, 5}
    MaxAllocations = 5
SPECIFICATION FairSpec
INVARIANTS
    RotationSpreads
    LaunchKeepsSettings
    SpeculationIsLossless
    AcceptanceExact
    SampledByOwnSettings
    GradientsUsedOnce
    MetricsConsistent
    AcceptedIsHandled
    PoolDrains
    PoolAccounts
PROPERTIES
    FrontKeepsPromise
    HandlersAnswer
CHECK_DEADLOCK FALSE
