CONSTANTS
    c1 = c1
    c2 = c2
    a1 = a1
    a2 = a2
    Clients = {c1, c2}
    Addrs = {a1}
    AddrOf <- SameAddress
    ScidLen = 8
    Retry = "never"
    MaxIssued = 1
    MaxConnections = 2
    MaxTaken = 8
    MaxQueued = 1
SPECIFICATION Spec
SYMMETRY Symmetry
INVARIANTS
    TypeOK
    NoDanglingRoutes
    RoutesFollowActiveCids
    ServerReadsReachOwner
    HandleReadsReachHandle
    RetiredCidNotReset
