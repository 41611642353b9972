SPECIFICATION LogSpec
CONSTANTS
    ann = ann
    bob = bob
    q1 = q1
    q2 = q2
    q3 = q3
    User = {ann, bob}
    Message = {1, 2}
    Call = {q1, q2, q3}
    PerMs = 2
    MaxTime = 2
SYMMETRY Symmetry
INVARIANTS LogTypeOK AfterComplete
PROPERTIES CursorForward
CHECK_DEADLOCK FALSE
