SPECIFICATION Spec
CONSTANTS
    A = A  B = B  p = p  q = q  x = x  y = y  ex = ex  t1 = t1  t2 = t2
    AnyTag = AnyTag  NoToken = NoToken  Absent = Absent  NoWAF = NoWAF
    Nodes = {A}
    Procs = {p, q}
    Home <- BothOnA
    NFiles = 2
    Lines = {x, y, ex}
    Loadable <- NoDuplicates
    PutTexts <- None
    Tags <- AnyIfMatch
    Proposals <- Exclusion
    Tokens = {t1}
    TTL = 1
    InitialFile <- FilesOnA
    InitialDB <- SameRows
    MaxClock = 1
    MaxPuts = 0
    MaxApplies = 1
    MaxGets = 0
    MaxFaults = 0
    MaxCrashes = 0
INVARIANT AppliedStays
