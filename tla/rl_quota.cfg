SPECIFICATION Spec
CONSTANTS
    g1 = g1  g2 = g2  l1 = l1  l2 = l2
    alice = alice  bob = bob  jp = jp  us = us
    login = login  home = home  get = get  post = post
    NoIP = NoIP  NoCountry = NoCountry  NoRuntime = NoRuntime
    Workers = {g1, g2}
    Loaders = {l1}
    Configs <- TwoQuotas
    Requests <- MCRequests
    MaxInt = 7
    SweepEvery = 2
    Retain = 2
    MaxClock = 3
    MaxRequests = 4
SYMMETRY Symmetry
INVARIANTS TypeOK QuotaInv
PROPERTIES AdmitsWithinQuota RefusesOnlyOverQuota
