SPECIFICATION FairSpec
CONSTANTS
    Probes = {p1}
    Checkers <- MCCheckers
    Critical = {"harbor", "rekor"}
    Budget = 5
    ClientTimeout = 3
    Conditions <- MCConditions
INVARIANTS
    ReadyIsEarned
    BlameNeedsReason
PROPERTIES
    ProbeIsAnswered
