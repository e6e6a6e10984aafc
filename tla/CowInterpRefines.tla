-------------------------- MODULE CowInterpRefines --------------------------
(***************************************************************************)
(* The interpreter implements CowActivations: the values of an activation  *)
(* are the pool cells of its window (a cell beyond the pool, which no      *)
(* step of the model reaches, stands for 0).                               *)
(***************************************************************************)
EXTENDS CowInterp

ValuesAt(b, base) ==
  [id \in Ids(prog[b[1]]) |-> IF base + id \in Cells THEN pool[base + id] ELSE 0]

Activation(b, index, base) ==
  [block |-> b, instr_index |-> index, values |-> ValuesAt(b, base)]

\* The suspended activations, as their frames describe them, and the running one.
ActivationStack ==
  [k \in 1 .. (IF block[1] = 0 THEN 0 ELSE Len(frames) + 1) |->
     IF k <= Len(frames)
     THEN Activation(frames[k].block, frames[k].instr_index, frames[k].registers)
     ELSE Activation(block, instr_index, registers)]

Activations ==
  INSTANCE CowActivations
    WITH stack  <- ActivationStack,
         status <- IF status \in {"running", "returned"} THEN status ELSE "aborted"

(***************************************************************************)
(* eval_func keeps the activations of a window-safe program apart: every   *)
(* behaviour is one of CowActivations.                                     *)
(***************************************************************************)
ImplementsActivations == Activations!Spec
=============================================================================
