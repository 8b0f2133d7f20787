SPECIFICATION ConnSpec
CONSTANTS
    LastId = 3
    MaxBody = 1
    MaxWindow = 4
    MaxFrame = 1
    Windows = {4}
    Increments = {1}
    Limits = {3}
    FirstWindow = 4
    FirstLimit = 3
    None = None
    Tasks = {t1, t2, t3}
    t1 = t1
    t2 = t2
    Cache = 1
    MaxReply = 3
    Nobody = Nobody
    GoAways = FALSE
    Resets = TRUE
    Failures = FALSE
    WriteFails = FALSE
    Redirects = FALSE
    Silent = FALSE
    Cancels = FALSE
    t3 = t3
INVARIANT StreamErrorStaysLocal
CHECK_DEADLOCK FALSE
