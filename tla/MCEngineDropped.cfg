\* Two requests with deadlines in one batch.
CONSTANTS
    Requests = {r1, r2}
    Shedding = {}
    Deadlined = {r1, r2}
    Stoppers = {}
    Workers = {w1}
    Capacity = 2
    MaxBatch = 2
    Sentinel = Sentinel
    NoRequest = NoRequest
    Cancelling = {}
SPECIFICATION Spec
INVARIANTS
    DroppedIsNotExecuted
CHECK_DEADLOCK FALSE
