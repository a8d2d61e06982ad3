SPECIFICATION Spec
CONSTANTS
    A = A  B = B
    NoFile = NoFile  NoEvent = NoEvent  NoAsk = NoAsk
    Nodes = {A, B}
    Retention = 0
    PageSize = 1
    MaxClock = 1
    MaxEvents = 3
    MaxSplits = 0
    MaxRotations = 0
    MaxFaults = 0
PROPERTY LogsIngested
