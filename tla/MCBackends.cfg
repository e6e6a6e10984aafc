SPECIFICATION SpecBoth
CONSTANTS
  Span <- MCSpan
  Junk <- MCJunk
  Addr <- MCAddr
  Starts <- BackendStarts
  MaxFrames = 3
  PoolSize = 24
  CodeAddr <- MCCodeAddr
  Extern <- MCExtern
  Clobber <- MCClobber
INVARIANTS ControlAgrees CodeLinked RegistersHoldValues MemoryAgrees ResultsAgree UsedValuesHeld OthersKept
PROPERTIES ArgumentsArrive
