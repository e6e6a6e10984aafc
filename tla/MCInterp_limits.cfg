SPECIFICATION Spec
CONSTANTS
  Span <- MCSpan
  Junk <- MCJunk
  Addr <- MCAddr
  Starts <- LimitStarts
  MaxFrames = 3
  PoolSize = 12
INVARIANTS NeverLeavesPool
