CONSTANTS
    Roles = {"client", "handle"}
    MaxEvents = 3
    Versions = {"v2"}
    MaxMoves = 1
    ClientAddrs = {c0, c1}
    FirstAddr = c0

SPECIFICATION PathsSpec

INVARIANT CloseInOwnDatagrams

CHECK_DEADLOCK FALSE
