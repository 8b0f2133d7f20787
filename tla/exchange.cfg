SPECIFICATION Spec
CONSTANTS
  CHUNK_SIZE = 3
  Base = 2
  HexMax = 200
  TRAILER_SIZE = 30
  Buffers = {1, 2, 4}
  MaxOut = 24
  Rooms = {1, 3, 40}
  Period = 2
  MaxRate = 2
  MinRate = 2
  Interval = 3
  Chunk = 3
  Horizon = 10
\* A message that is read or written to its end, and a call that came back,
\* have no further step.
INVARIANT InputRead
INVARIANT OutputWritten
INVARIANT ReportsTrue
INVARIANT RightPeer
INVARIANT PendingIsWoken
INVARIANT OneConnection
INVARIANT ReachedIfReachable
PROPERTY UriSame
PROPERTY AnswerFresh
CHECK_DEADLOCK FALSE
