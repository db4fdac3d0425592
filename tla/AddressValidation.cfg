CONSTANTS
    c1 = c1
    c2 = c2
    a1 = a1
    a2 = a2
    Procs = {p1}
    Attempts = {c1, c2}
    Addrs = {a1, a2}
    Timeout = 2
    Width = 3
    MaxConnections = 2
    Offered = {"v2"}
    MaxTime = 3
    MaxRestarts = 1
    MaxRetries = 1
SPECIFICATION Spec
SYMMETRY Symmetry
INVARIANTS
    TypeOK
    FreshTokenAccepted
    ClientAgrees
    NewTokenNeedsProof
PROPERTY ValidatedInTime
CHECK_DEADLOCK FALSE
