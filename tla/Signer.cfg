SPECIFICATION FairSignSpec
CONSTANTS
    Calls = {s1, s2}
    Cancellable = {s2}
    MaxAttempts = 2
INVARIANTS
    LogNeedsCertificate
    SigningFailuresCounted
    
    LogIsAccountedFor
PROPERTIES
    SignReturns
