SPECIFICATION Spec
CONSTANTS
    ann = ann
    bob = bob
    a1 = a1
    b1 = b1
    b2 = b2
    i1 = i1
    i2 = i2
    User = {ann, bob}
    Socket = {a1, b1, b2}
    Watching = {a1}
    Instance = {i1, i2}
    Owner <- OwnerOf
    Home <- HomeOf
    Friends <- AllFriends
    MaxVisits = 2
    MaxAsks = 1
    MaxFaults = 2
CONSTRAINT Bound
INVARIANTS TypeOK SettledIsRight
CHECK_DEADLOCK FALSE
