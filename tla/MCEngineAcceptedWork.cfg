\* One call of shutdown; a client is between the test of _stopping and its put.
CONSTANTS
    Requests = {r1, r2}
    Shedding = {}
    Deadlined = {}
    Stoppers = {k1}
    Workers = {w1}
    Capacity = 2
    MaxBatch = 2
    Sentinel = Sentinel
    NoRequest = NoRequest
    Cancelling = {}
SPECIFICATION Spec
INVARIANTS
    AcceptedWorkIsServed
CHECK_DEADLOCK FALSE
