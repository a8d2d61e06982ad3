SPECIFICATION Spec
CONSTANTS
    A = A  B = B  p = p  q = q  x = x  y = y  ex = ex  t1 = t1  t2 = t2
    AnyTag = AnyTag  NoToken = NoToken  Absent = Absent  NoWAF = NoWAF
    Nodes = {A, B}
    Procs = {p, q}
    Home <- OneProcEach
    NFiles = 2
    Lines = {x, y, ex}
    Loadable <- NoDuplicates
    PutTexts <- ReplaceByY
    Tags <- AnyIfMatch
    Proposals <- None
    Tokens = {}
    TTL = 1
    InitialFile <- FilesOnBoth
    InitialDB <- SameRows
    MaxClock = 0
    MaxPuts = 2
    MaxApplies = 0
    MaxGets = 0
    MaxFaults = 0
    MaxCrashes = 0
INVARIANT DiskLoads
