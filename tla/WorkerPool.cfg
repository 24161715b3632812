SPECIFICATION FairSpec
CONSTANTS
    Workers = {w1, w2}
    Jobs = {j1, j2, j3, j4}
    Callers = {c1, c2}
    QueueSize = 2
    NoJob = NoJob
INVARIANTS
    BoundedOvertaking
    NilMeansDrained
    NoJobStranded
PROPERTIES
    ImplementsLedger
    AcceptedJobsFinish
    ShutdownReturns
    NoGoroutineLeak
