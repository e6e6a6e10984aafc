SPECIFICATION Spec
CONSTANTS
  Names <- MCNames
  ArgLists <- MCArgLists
  Types = {"i64"}
  Constants <- MCConstants
  Operations = {"EQ"}
  Arrays = {a1}
  MaxArgs = 1
  MaxFuncs = 2
  MaxBlocks = 3
  MaxInstrs = 2
INVARIANTS BuildsWellFormed OneDefinition
PROPERTY OnlyAdds
