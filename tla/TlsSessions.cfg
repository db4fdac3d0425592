CONSTANTS
    Conns = {k1, k2}
    DnsNames = {"a"}
    IpNames = {"ip"}
    Limits = {1, 2}
SPECIFICATION Spec
SYMMETRY Symmetry
INVARIANTS
    NothingFreedInUse
    NothingLeaked
    IdentityIsLastName
    EarlyDataWithinLimits
    RejectionReported

