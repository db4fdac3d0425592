CONSTANTS
    c1 = c1
    c2 = c2
    a1 = a1
    a2 = a2
    Clients = {c1}
    Addrs = {a1}
    AddrOf <- OneClient
    ScidLen = 8
    Retry = "never"
    MaxIssued = 1
    MaxConnections = 1
    MaxTaken = 4
    MaxQueued = 2
SPECIFICATION Spec
INVARIANTS
    NoResetForLiveConnection
