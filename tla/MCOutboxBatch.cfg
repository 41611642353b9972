SPECIFICATION Spec
CONSTANTS
    i1 = i1
    i2 = i2
    e1 = e1
    e2 = e2
    Instance = {i1}
    Event = {e1, e2}
    BatchSize = 2
    Concurrency = 1
    Lease = 2
    Backoff <- Backoff13
    Lifetime = 3
    MaxTime = 3
    MaxFaults = 1
SYMMETRY EventSymmetry
INVARIANTS ProcessingHasWorker NoSpuriousDuplicate
