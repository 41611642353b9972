SPECIFICATION Spec
CONSTANTS
    q1 = q1
    q2 = q2
    q3 = q3
    Avatar = {1, 2, 3}
    Call = {q1, q2, q3}
    MaxFaults = 1
SYMMETRY Symmetry
INVARIANTS TypeOK RowHasObject ObjectHasRow OneSelected
CHECK_DEADLOCK FALSE
