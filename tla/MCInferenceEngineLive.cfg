\* Two requests, with a deadline and a caller who may cancel, one of them shed when the
\* queue is full; two workers and one call of shutdown.
CONSTANTS
    Requests = {r1, r2}
    Shedding = {r2}
    Deadlined = {r1, r2}
    Stoppers = {k1}
    Workers = {w1, w2}
    Capacity = 2
    MaxBatch = 2
    Sentinel = Sentinel
    NoRequest = NoRequest
    Cancelling = {r1, r2}
SPECIFICATION FairSpec
PROPERTIES
    FutureSettles
    ShutdownReturns
CHECK_DEADLOCK FALSE
