SPECIFICATION CodecSpec
CONSTANTS
  Half = 64
  Default = 8
  Configured = 14
  Padding = 0
INVARIANT InputRead
INVARIANT JudgedRight
INVARIANT OutputWritten
INVARIANT TablesInSync
INVARIANT ServerView
INVARIANT WindowRestored
CHECK_DEADLOCK FALSE
