SPECIFICATION FairSpec
CONSTANTS
    r1 = r1
    r2 = r2
    a1 = a1
    a2 = a2
    clean = clean
    Artifacts = {a1, a2}
    Repos = {r1, r2, r3}
    Home <- MCHome
    Reports = {clean}
    Pending = Pending
    InitialRepos = {r1, r2}
    InitialScan <- MCInitialScan
    MaxRetries = 2
    PageSize = 2
    MaxChanges = 3
INVARIANTS
    RetriesOnlyTransient
PROPERTIES
    ImplementsReads
    CallReturns
