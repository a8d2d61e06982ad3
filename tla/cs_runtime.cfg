SPECIFICATION FairSpec
CONSTANTS
    A = A  B = B  p = p  q = q  v0 = v0  v1 = v1  v2 = v2
    Bad = Bad  EmptyRaw = EmptyRaw  Absent = Absent  NoRuntime = NoRuntime  AnyTag = AnyTag
    Nodes = {A}
    Procs = {p, q}
    Home <- BothOnA
    Valid = {v0, v1}
    InitialFile <- OneFile
    InitialDB = v0
    MaxPuts = 2
    MaxGets = 0
    MaxFaults = 0
    MaxCrashes = 0
PROPERTY RuntimesConverge
