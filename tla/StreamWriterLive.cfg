CONSTANTS
    Streams = {0, 4}
    MaxBytes = 3
    MaxCredit = 1
    MaxProbes = 1
    Events = {}
SPECIFICATION FairSpec
PROPERTIES
    FlushTerminates
    QueueDrains
