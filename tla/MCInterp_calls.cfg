SPECIFICATION Spec
CONSTANTS
  Span <- MCSpan
  Junk <- MCJunk
  Addr <- MCAddr
  Starts <- CallStarts
  MaxFrames = 3
  PoolSize = 27
INVARIANTS TypeOK WindowsOrdered
PROPERTIES SuspendedWindowsUntouched ImplementsActivations
