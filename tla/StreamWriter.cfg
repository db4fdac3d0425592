CONSTANTS
    Streams = {0, 4}
    MaxBytes = 2
    MaxCredit = 1
    MaxProbes = 1
    Events = {"stop", "close", "drain", "reject"}
SPECIFICATION Spec
INVARIANTS
    NoByteLostOrDuplicated
    FinKeptUntilCarried
    NoPacketLeftOpen
PROPERTY SenderImplemented
