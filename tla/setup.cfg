SPECIFICATION SetupSpec
CONSTANTS
  Threads = {1, 2}
  Nobody = 0
  Plans <- CallPlans
  Retries = 1
  Faults = {"connect", "body", "reset", "close", "leave"}
  FaultBudget = 1
\* A finished request asks for nothing more.
INVARIANT PacketsSent
INVARIANT OwnAnswer
INVARIANT BodyWhole
PROPERTY LeaseSpec
PROPERTY WaiterServed
PROPERTY WorkEnds
CHECK_DEADLOCK FALSE
