SPECIFICATION Spec
CONSTANTS
    A = A  r1 = r1  r2 = r2
    NoFile = NoFile  NoEvent = NoEvent  NoIndex = NoIndex
    Nodes = {A}
    Readers = {r1, r2}
    Browsers = {r1}
    Home <- BothOnA
    PageSize = 1
    MaxClock = 1
    MaxEvents = 3
    MaxSplits = 1
    MaxRotations = 1
    MaxChanges = 4
INVARIANTS TypeOK IndexMarksLines
PROPERTIES ReadsSucceed NewestReachesEnd PagesAdjoin
