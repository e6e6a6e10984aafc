SPECIFICATION Spec
CONSTANTS
  Span <- MCSpan
  Junk <- MCJunk
  CodeAddr <- MCCodeAddr
  Extern <- MCExtern
  Clobber = 0
  Operands <- MCOperands
INVARIANT BytesMeanCalls
