SPECIFICATION Spec
CONSTANTS
    WebhookSecret = "s3cret"
    MaxPayloadSize = 2
    MaxInt64 = 7
    NotJSON = NotJSON
    Workers = {w1}
    QueueSize = 1
    NoJob = NoJob
    Requests = {r1, r2}
    Incoming <- MCValid
    Nothing = Nothing
    Main = Main
    Ticker = Ticker
    NoOne = NoOne
    PageSize = 1
    MaxRestarts = 1
INVARIANT
    AcceptedIsEnqueued
