SPECIFICATION FairSpec
CONSTANTS
    A = A  B = B  p = p  q = q  v0 = v0  v1 = v1  v2 = v2
    Bad = Bad  EmptyRaw = EmptyRaw  Absent = Absent  NoRuntime = NoRuntime  AnyTag = AnyTag
    Nodes = {A, B}
    Procs = {p, q}
    Home <- BothOnA
    Valid = {v0, v1}
    InitialFile <- BrokenFileOnB
    InitialDB = Absent
    MaxPuts = 1
    MaxGets = 1
    MaxFaults = 1
    MaxCrashes = 1
INVARIANTS TypeOK RuntimeFollowsFile BadStaysLocal
PROPERTY FilesConverge
