SPECIFICATION FairSpec
CONSTANTS
    c1 = c1
    c2 = c2
    c3 = c3
    v = v
    bad = bad
    None = None
    Event = {v, bad}
    Invalid = {bad}
    Verification = {v}
    Copy = {c1, c2, c3}
    MaxRetry = 1
    Limits = {2}
    MaxHanded = 1
    MaxFaults = 1
    MaxRuns = 1
INVARIANTS TypeOK NothingLost EveryCopyAccounted DeadForCause
PROPERTIES QueuesHandOn QuarantineKept EveryMailSettles
CHECK_DEADLOCK FALSE
