SPECIFICATION FairSpec
CONSTANTS
    MaxRetries = 4
    BackOffFactor = 1
    MaxDelay = 6
    RetryAfters <- SomeRetryAfters
    Bodies = {"regular", "multipart"}
CHECK_DEADLOCK FALSE
INVARIANTS
    TypeOK
    TransientErrorsRetried
    SettledMeansQuiet
PROPERTIES
    ImplementsRequest
    SendEnds
