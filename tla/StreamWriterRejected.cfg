CONSTANTS
    Streams = {0, 4}
    MaxBytes = 2
    MaxCredit = 1
    MaxProbes = 1
    Events = {"reject"}
SPECIFICATION Spec
INVARIANTS
    RejectedDataDiscarded
