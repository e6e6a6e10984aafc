SPECIFICATION Spec
CONSTANTS
  Span <- MCSpan
  Junk <- MCJunk
  Addr <- MCAddr
  Starts <- DataStarts
  MaxFrames = 1
  PoolSize = 8
INVARIANTS KnownPartsExact
