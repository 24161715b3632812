SPECIFICATION Spec
CONSTANTS
    web = web
    sweep = sweep
    image = image
    Calls = {web, again}
    Cancellable = {}
    MaxAttempts = 1
    Artifacts = {image}
    ArtifactOf <- MCArtifactOf
    SourceOf <- MCSourceOf
    Threshold = 3
    ScanReports <- MCScanReports
INVARIANTS
    NoAdditionalSignature
