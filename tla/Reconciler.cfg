SPECIFICATION FairSpec
CONSTANTS
    Ticker = Ticker
    Direct = {direct}
    NoOne = NoOne
    a1 = a1
    a2 = a2
    Artifacts = {a1, a2}
    Listing <- MCListing
    Projects <- MCProjects
    MaxTicks = 1
INVARIANTS
    OneSweep
    CompletedSweepMissesNothing
    SignedNotProcessed
PROPERTIES
    ImplementsSweeper
    SweepEnds
    StopReturns
