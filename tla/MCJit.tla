-------------------------------- MODULE MCJit --------------------------------
(***************************************************************************)
(* Two modules with three functions between them.                          *)
(***************************************************************************)
EXTENDS CowJit, TLC

CONSTANTS m1, m2, f1, f2, f3
MCModules  == {m1, m2}
MCFuncs    == {f1, f2, f3}
MCSymmetry == Permutations(MCModules) \cup Permutations(MCFuncs)
=============================================================================
