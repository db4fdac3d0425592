CONSTANTS
    STATELESS_RESET_BURST = 2
    STATELESS_RESET_RATE = 3
    NANOS_PER_SEC = 10
    U64Max = 40
    MaxTime = 14
    MaxStep = 5
    TOKEN_LEN = 3
    MIN_RANDOM_LEN = 2
    MAX_RANDOM_LEN = 4
    CidLengths = {6}
    MaxLen = 9

SPECIFICATION ResetSpec

INVARIANTS
    ResetTypeOK
    RateBound
    NoTimeLost

PROPERTIES
    RecoversAfterSilence
    ResetsShrink
