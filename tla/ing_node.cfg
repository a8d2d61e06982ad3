SPECIFICATION Spec
CONSTANTS
    A = A  B = B
    NoFile = NoFile  NoEvent = NoEvent  NoAsk = NoAsk
    Nodes = {A}
    Retention = 1
    PageSize = 1
    MaxClock = 3
    MaxEvents = 3
    MaxSplits = 1
    MaxRotations = 1
    MaxFaults = 1
INVARIANTS TypeOK NothingSkipped RowsFollowLog OneRowEver
PROPERTIES PagesAdjoin
