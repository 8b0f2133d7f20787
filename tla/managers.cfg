SPECIFICATION Spec
CONSTANTS
    LastId = 2
    MaxBody = 1
    MaxWindow = 4
    MaxFrame = 1
    Windows = {4}
    Increments = {1}
    Limits = {2}
    FirstWindow = 4
    FirstLimit = 2
    None = None
    Tasks = {t1, t2}
    t1 = t1
    t2 = t2
    Cache = 1
    MaxReply = 2
    Nobody = Nobody
    GoAways = TRUE
    Resets = TRUE
    Failures = TRUE
    WriteFails = FALSE
    Redirects = TRUE
    Silent = FALSE
    Cancels = TRUE
    Reqs = {1, 2}
    Dynamic = {2}
    Uploads = {2}
    CHANNEL_SIZE = 1
    MaxConcurrent = 1
    Answers <- Responses
    Faults = {"R", "N", "X", "P", "stop", "goaway", "no request", "settings", "cancel", "fin", "close", "timeout", "io", "leave", "body"}
    FaultBudget = 1
    WRAP = 8
INVARIANT DeliveredWhole
INVARIANT AllTold
INVARIANT FlaggedWhenGone
INVARIANT SlotsExact
INVARIANT Contained
CHECK_DEADLOCK FALSE
