SPECIFICATION FairSpec
CONSTANTS
    v1 = v1  v2 = v2  p1 = p1  s1 = s1  s2 = s2  r1 = r1  r2 = r2  x1 = x1  x2 = x2
    Bad = Bad  EmptyRaw = EmptyRaw  Missing = Missing  Absent = Absent  AnyTag = AnyTag
    BadExtra = BadExtra  NoExtra = NoExtra  NoLoad = NoLoad  NoRules = NoRules  NoWAF = NoWAF
    Procs = {p1}
    Slots = {s1, s2}
    Requesters = {r1, r2}
    Valid = {EmptyRaw, v1, v2}
    Special = {v1, v2}
    PutTexts = {v2}
    Tags = {v1}
    RowTexts = {v2, Bad}
    EditTexts = {v2, Bad}
    InitialFiles = {v1, Missing}
    InitialRows = {Absent}
    Contents = {x1, x2}
    Budgets <- Scenarios
INVARIANTS TypeOK RulesFollowFile OneOverride
PROPERTIES HotReloaded FileFollowsRow
