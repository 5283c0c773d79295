\* Two requests through the engine, or to a batcher with three blocks or no cache.
CONSTANTS
    r1 = r1
    r2 = r2
    Requests = {r1, r2}
    Shedding = {r2}
    Deadlined = {r1}
    Stoppers = {k1}
    Capacity = 3
    MaxBatch = 3
    Sentinel = Sentinel
    NoRequest = NoRequest
    Seqs = {1, 2, 3, 4, 5, 6}
    TotalBlocks = 3
    BlockSize = 2
    Setups <- MCSetups
    EngineSetups <- MCEngineSetups
    MaxNewTokens <- MCMaxNewTokens
    Cancelling = {r2}
SPECIFICATION EngineFairSpec
INVARIANTS
    BlocksBelongToRunning
    RefusedIsTooBig
    RowsAligned
    CountersAddUp
PROPERTIES
    EarlyRequestsSettle
    StaleRowsLeave
    KeepsServingPromise
    ShutdownSettles
CHECK_DEADLOCK FALSE
