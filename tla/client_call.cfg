SPECIFICATION FairSpec
CONSTANTS
    Limit = 3
    Retries = 1
    Total = 2
    PerRequest = 2
    Units = 2
    Hosts = {"a", "b"}
    Home = "a"
    Versions = {"http1", "http2"}
    LastTick = 5
INVARIANT BodyWhole
INVARIANT SecretStays
INVARIANT DoneInTime
PROPERTY Returns
CHECK_DEADLOCK FALSE
