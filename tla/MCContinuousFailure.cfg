\* A runner that may raise, and nobody who calls shutdown.
CONSTANTS
    r1 = r1
    r2 = r2
    Requests = {r1, r2}
    Shedding = {r2}
    Deadlined = {}
    Stoppers = {}
    Capacity = 3
    MaxBatch = 3
    Sentinel = Sentinel
    NoRequest = NoRequest
    Seqs = {1, 2, 3, 4, 5, 6}
    TotalBlocks = 3
    BlockSize = 2
    Setups <- MCSetups
    MaxNewTokens <- MCMaxNewTokens
SPECIFICATION FairSpec
PROPERTIES
    KeepsServing
CHECK_DEADLOCK FALSE
