SPECIFICATION Spec
CONSTANTS
    LastId = 2
    MaxBody = 2
    MaxWindow = 1
    MaxFrame = 2
    Windows = {0, 1}
    Increments = {1}
    Limits = {0, 2}
    FirstWindow = 1
    FirstLimit = 2
    None = None
INVARIANT QueuedForReason
INVARIANT NeverDead
INVARIANT OpenedInOrder
PROPERTY WithinLimit
CHECK_DEADLOCK FALSE
