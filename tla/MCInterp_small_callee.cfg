SPECIFICATION Spec
CONSTANTS
  Span <- MCSpan
  Junk <- MCJunk
  Addr <- MCAddr
  Starts <- SmallCalleeStarts
  MaxFrames = 3
  PoolSize = 27
PROPERTIES ValuesSurviveCalls
