SPECIFICATION FairSpec
CONSTANTS
    i1 = i1
    i2 = i2
    e1 = e1
    e2 = e2
    Instance = {i1, i2}
    Event = {e1}
    BatchSize = 1
    Concurrency = 1
    Lease = 2
    Backoff <- Backoff1
    Lifetime = 3
    MaxTime = 3
    MaxFaults = 1
INVARIANTS TypeOK PayloadKept LeaseExclusive NoSpuriousDuplicate ProcessingHasWorker
PROPERTIES OutboxHandsOn DiesOnlyAtExpiry EveryEventSettles
