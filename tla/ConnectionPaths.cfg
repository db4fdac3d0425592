CONSTANTS
    Roles = {"client", "handle"}
    MaxEvents = 5
    Versions = {"v1", "v2"}
    MaxMoves = 2
    ClientAddrs = {c0, c1}
    FirstAddr = c0

SPECIFICATION PathsFairSpec

INVARIANTS
    EventsInOrder
    ClosedIsLast
    ClientSendsFromPath
    RemoteAddrIsCurrent

PROPERTIES
    EndIsNoError
    PeerCloseReported
    HandleIdleTimeoutReported

CHECK_DEADLOCK FALSE
