CONSTANTS
    Providers = {1, 2}
    Sockets = {1, 2}
    MaxAttempts = 2
    Restores = TRUE
    MaxRequests = 2
    MaxCrashes = 1
    None = None
SPECIFICATION Spec
INVARIANT OneThingUnderWay
PROPERTIES ComesToAResult RestoredOrReported
CHECK_DEADLOCK FALSE
