SPECIFICATION Spec
CONSTANTS
  Elements = {e1, e2}
  MaxSize = 7
INVARIANT ArrayOK
PROPERTY ImplementsList
