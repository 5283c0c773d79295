\* Two requests, with a deadline and a caller who may cancel, into a queue of two; two
\* threads that may call shutdown at the same time.
CONSTANTS
    Requests = {r1, r2}
    Shedding = {}
    Deadlined = {r1, r2}
    Stoppers = {k1, k2}
    Workers = {w1}
    Capacity = 2
    MaxBatch = 2
    Sentinel = Sentinel
    NoRequest = NoRequest
    Cancelling = {r1, r2}
SYMMETRY Symmetry
SPECIFICATION Spec
INVARIANTS
    TypeOK
    HeldInOnePlace
    NeverLeftPending
    EarlyWorkIsServed
    SettledOnce
CHECK_DEADLOCK FALSE
