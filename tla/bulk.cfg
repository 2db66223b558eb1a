\* Lists of up to three items where two are allowed, one change by the caller.
CONSTANTS
    NaN = NaN
    HashOptions <- SomeHashOptions
    Payloads <- SomePayloads
    Codes = {"NOT_FOUND", "UNHEARD_OF"}
    MaxItems = 3
    MaxBatch = 2
    MaxEdits = 1
    MaxAttempts = 2
SPECIFICATION Spec
INVARIANTS BulkTypeOK ResultsByPosition SentAsGiven
CHECK_DEADLOCK FALSE
