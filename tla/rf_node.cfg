SPECIFICATION FairSpec
CONSTANTS
    A = A  B = B  p = p  q = q  x = x  y = y  ex = ex  t1 = t1  t2 = t2
    AnyTag = AnyTag  NoToken = NoToken  Absent = Absent  NoWAF = NoWAF
    Nodes = {A}
    Procs = {p}
    Home <- OneProc
    NFiles = 2
    Lines = {x, y, ex}
    Loadable <- NoDuplicates
    PutTexts <- ReplaceByEx
    Tags <- AnyOrX
    Proposals <- Exclusion
    Tokens = {t1}
    TTL = 0
    InitialFile <- FilesOnA
    InitialDB <- NoRows
    MaxClock = 1
    MaxPuts = 1
    MaxApplies = 2
    MaxGets = 1
    MaxFaults = 1
    MaxCrashes = 1
INVARIANTS TypeOK BaseFollowsFiles
PROPERTIES AppliesApproved ImplementsApprovals FilesFollowRows
