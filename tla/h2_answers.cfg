SPECIFICATION FairSpec
CONSTANTS
    LastId = 2
    MaxBody = 1
    MaxWindow = 4
    MaxFrame = 1
    Windows = {4}
    Increments = {1}
    Limits = {1}
    FirstWindow = 4
    FirstLimit = 1
    None = None
    Tasks = {t1, t2}
    t1 = t1
    t2 = t2
    Cache = 1
    MaxReply = 2
    Nobody = Nobody
    GoAways = TRUE
    Resets = TRUE
    Failures = TRUE
    WriteFails = TRUE
    Redirects = FALSE
    Silent = FALSE
    Cancels = TRUE
PROPERTY Answered
CHECK_DEADLOCK FALSE
