SPECIFICATION Spec
CONSTANTS
    web = web
    sweep = sweep
    image = image
    Calls = {web, sweep}
    Cancellable = {sweep}
    MaxAttempts = 2
    Artifacts = {image}
    ArtifactOf <- MCArtifactOf
    SourceOf <- MCSourceOf
    Threshold = 3
    ScanReports <- MCScanReports
INVARIANTS
    OnlyCleanReachesRekor
    ResignOnlyOnCheckError
    InFlightIsExact
    IssuedIsLogged
