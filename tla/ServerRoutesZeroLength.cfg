CONSTANTS
    c1 = c1
    c2 = c2
    a1 = a1
    a2 = a2
    Clients = {c1, c2}
    Addrs = {a1, a2}
    AddrOf <- OwnAddress
    ScidLen = 0
    Retry = "split"
    MaxIssued = 0
    MaxConnections = 1
    MaxTaken = 1
    MaxQueued = 1

SPECIFICATION Spec
SYMMETRY SymmetryWithAddress

INVARIANTS
    ServerReadsReachOwner
    HandleReadsReachHandle
