CONSTANTS
    Roles = {"handle"}
    MaxEvents = 3
    Versions = {"v1"}
    MaxMoves = 1
    ClientAddrs = {c0, c1}
    FirstAddr = c0

SPECIFICATION PathsSpec

INVARIANT CloseFromArrivalAddress

CHECK_DEADLOCK FALSE
