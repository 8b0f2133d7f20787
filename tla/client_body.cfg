SPECIFICATION Spec
CONSTANTS
    Limit = 2
    Retries = 1
    Total = 2
    PerRequest = 1
    Units = 2
    Hosts = {"a", "b"}
    Home = "a"
    Versions = {"http2"}
    LastTick = 5
INVARIANTS
    OneReader
CHECK_DEADLOCK FALSE
