SPECIFICATION FairSpec
CONSTANTS
  Span <- MCSpan
  Junk <- MCJunk
  Addr <- MCAddr
  Starts <- FibStarts
  MaxFrames = 4
  PoolSize = 45
INVARIANTS FibCorrect
PROPERTIES FibTerminates
