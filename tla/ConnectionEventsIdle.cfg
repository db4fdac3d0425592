CONSTANTS
    Roles = {"client"}
    MaxEvents = 2
SPECIFICATION FairSpec
PROPERTY
    IdleTimeoutReported
CHECK_DEADLOCK FALSE
