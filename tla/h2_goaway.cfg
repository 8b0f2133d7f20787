SPECIFICATION FairSpec
CONSTANTS
    LastId = 2
    MaxBody = 1
    MaxWindow = 4
    MaxFrame = 1
    Windows = {4}
    Increments = {1}
    Limits = {1}
    FirstWindow = 4
    FirstLimit = 1
    None = None
    Tasks = {t1, t2}
    t1 = t1
    t2 = t2
    Cache = 1
    MaxReply = 3
    Nobody = Nobody
    GoAways = TRUE
    Resets = FALSE
    Failures = FALSE
    WriteFails = FALSE
    Redirects = FALSE
    Silent = FALSE
    Cancels = FALSE
PROPERTY GoAwayEnds
CHECK_DEADLOCK FALSE
