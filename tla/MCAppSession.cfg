SPECIFICATION Spec
CONSTANTS
    r1 = r1
    r2 = r2
    c1 = c1
    sock = sock
    spl = spl
    Request = {r1, r2}
    Api = {c1}
    Socket = sock
    Splash = spl
    MaxMails = 2
    MaxIssued = 2
    MaxFaults = 1
SYMMETRY Symmetry
INVARIANTS TypeOK OneMailPerCooldown HomeHasSession
PROPERTIES NoMailToVerified SessionKept
CHECK_DEADLOCK FALSE
