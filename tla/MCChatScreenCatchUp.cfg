SPECIFICATION ScreenSpec
CONSTANTS
    me = me
    peer = peer
    q1 = q1
    q2 = q2
    User = {me, peer}
    Message = {1, 2}
    Call = {q1, q2}
    PerMs = 1
    MaxTime = 1
    MaxFaults = 0
SYMMETRY CallSymmetry
INVARIANTS CaughtUp
CHECK_DEADLOCK FALSE
