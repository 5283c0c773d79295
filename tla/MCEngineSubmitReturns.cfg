\* A full queue, blocked clients and one call of shutdown.
CONSTANTS
    Requests = {r1, r2, r3}
    Shedding = {}
    Deadlined = {}
    Stoppers = {k1}
    Workers = {w1}
    Capacity = 1
    MaxBatch = 1
    Sentinel = Sentinel
    NoRequest = NoRequest
    Cancelling = {}
SPECIFICATION FairSpec
PROPERTIES
    SubmitReturns
CHECK_DEADLOCK FALSE
