SPECIFICATION Spec
CONSTANTS
  m1 = m1
  m2 = m2
  f1 = f1
  f2 = f2
  f3 = f3
  Modules <- MCModules
  Funcs <- MCFuncs
  MaxInstrs = 1
  MaxJits = 1
INVARIANT ClearsEverything
CHECK_DEADLOCK FALSE
