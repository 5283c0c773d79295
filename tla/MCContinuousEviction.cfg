\* Two sequences that fit the cache until one of them grows.
CONSTANTS
    r1 = r1
    r2 = r2
    Requests = {r1, r2}
    Shedding = {r2}
    Deadlined = {}
    Stoppers = {}
    Capacity = 3
    MaxBatch = 3
    Sentinel = Sentinel
    NoRequest = NoRequest
    Seqs = {1, 2, 3, 4, 5, 6}
    TotalBlocks = 2
    BlockSize = 2
    Setups <- MCSetups
    MaxNewTokens <- MCMaxNewTokens
SPECIFICATION Spec
PROPERTIES
    SomeoneKeepsRunning
CHECK_DEADLOCK FALSE
