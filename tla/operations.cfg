SPECIFICATION FairOperationSpec
CONSTANTS
    o1 = o1  o2 = o2
    NoOperation = NoOperation
    Operations = {o1, o2}
    Methods = {"createApp", "createModel", "waitForUnlocked"}
    InitialPollingDelay = 1
    MaxPollingDelay = 10
    MasterTimeout = 60
    TimeoutMax = 100
    MayThrow = TRUE
INVARIANTS OperationTypeOK KeepsPolling CompletedIsQuiet BackoffHonoured
PROPERTIES CallSettles ImplementsOperation
CHECK_DEADLOCK FALSE
