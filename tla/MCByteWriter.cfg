SPECIFICATION Spec
CONSTANTS
  Values = {1, 2}
  MaxIndex = 10
INVARIANTS WriterOK ItemsIntact ItemsApart
PROPERTIES StaysInHeap ExecComplete
