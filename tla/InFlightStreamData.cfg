CONSTANTS
    Streams = {s1}
    MaxChunk = 3
    MaxBytes = 6
SPECIFICATION Spec
INVARIANTS
    RetransmitSafe
    HeldEndsWhereNgtcp2Does
    RetiredOnlyWhileUnacked
