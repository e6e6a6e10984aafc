--------------------------- MODULE CowActivations ---------------------------
(***************************************************************************)
(* What the interpreter promises of calls, with no pool and no windows:    *)
(* every activation of a function owns its values.  A call gives the       *)
(* callee the values of the argument registers, a return gives the caller  *)
(* the returned value in the call's gen_value, and nothing else crosses    *)
(* from one activation to another.  What an instruction computes is left   *)
(* open, and a run may be aborted at any point (it ran out of frames or    *)
(* registers, divided by zero, ...).                                       *)
(*                                                                         *)
(* Sizes and values are unconstrained functions of ids, so that the module *)
(* can be evaluated step by step on the interpreter's behaviours.          *)
(***************************************************************************)
EXTENDS CowIR, SequencesExt

CONSTANT Starts

VARIABLES
  prog,    \* module->funcs
  stack,   \* the activations, the running one last
  status,  \* running, returned or aborted
  result

vars == <<prog, stack, status, result>>

Fn(act)    == prog[act.block[1]]
Fetch(act) == Fn(act).blocks[act.block[2]][act.instr_index]
Top        == Last(stack)

\* Of act's values at most the one of that id differs in act2.
SameValuesBut(act, act2, id) ==
  /\ DOMAIN act2.values = DOMAIN act.values
  /\ \A v \in DOMAIN act.values : v # id => act2.values[v] = act.values[v]

Untouched(depth) == \A k \in 1 .. depth : stack'[k] = stack[k]
----------------------------------------------------------------------------
Init ==
  \E s \in Starts :
    /\ prog = s.prog /\ result = 0
    /\ \/ \E f \in DOMAIN s.prog :
            /\ Found(s.prog, s.name, f)
            /\ Len(stack) = 1 /\ Top.block = <<f, 1>> /\ Top.instr_index = 1
            /\ DOMAIN Top.values = Ids(s.prog[f])
            /\ \/ status = "aborted"
               \/ /\ status = "running"
                  /\ \A k \in 1 .. s.prog[f].args_count : Top.values[k - 1] = s.values[k]
       \/ NotFound(s.prog, s.name) /\ stack = <<>> /\ status = "returned"

\* The running activation executes an instruction of its own.
Work ==
  /\ status = "running"
  /\ LET i == Fetch(Top) act == stack'[Len(stack)] IN
     /\ i.op \notin {"CALL_FUNC", "RET", "RET_VOID"}
     /\ Len(stack') = Len(stack) /\ Untouched(Len(stack) - 1)
     /\ SameValuesBut(Top, act, i.gen)
     /\ IF i.op \in {"BR", "COND_BR"}
        THEN \E b \in {i.yes, i.no} :
               b # 0 /\ act.block = <<Top.block[1], b>> /\ act.instr_index = 1
        ELSE act.block = Top.block /\ act.instr_index = Top.instr_index + 1
  /\ UNCHANGED <<prog, status, result>>

Call ==
  /\ status = "running"
  /\ LET i == Fetch(Top) new == stack'[Len(stack) + 1] IN
     /\ i.op = "CALL_FUNC"
     /\ Len(stack') = Len(stack) + 1 /\ Untouched(Len(stack))
     /\ new.block = <<i.callee, 1>> /\ new.instr_index = 1
     /\ DOMAIN new.values = Ids(prog[i.callee])
     /\ \A k \in 1 .. prog[i.callee].args_count :
          new.values[k - 1] = Top.values[i.args[k]]
  /\ UNCHANGED <<prog, status, result>>

Return ==
  /\ status = "running" /\ Len(stack) > 1
  /\ LET i == Fetch(Top)
         caller == stack[Len(stack) - 1]
         gen    == Fetch(caller).gen
         resumed == stack'[Len(stack) - 1]
     IN
     /\ i.op \in {"RET", "RET_VOID"}
     /\ Len(stack') = Len(stack) - 1 /\ Untouched(Len(stack) - 2)
     /\ resumed.block = caller.block /\ resumed.instr_index = caller.instr_index + 1
     /\ SameValuesBut(caller, resumed, gen)
     /\ i.op = "RET" => resumed.values[gen] = Top.values[i.left]
  /\ UNCHANGED <<prog, status, result>>

Finish ==
  /\ status = "running" /\ Len(stack) = 1
  /\ LET i == Fetch(Top) IN
     /\ i.op \in {"RET", "RET_VOID"}
     /\ result' = IF i.op = "RET" THEN Top.values[i.left] ELSE 0
  /\ status' = "returned" /\ UNCHANGED <<prog, stack>>

Abort ==
  /\ status = "running" /\ status' = "aborted"
  /\ UNCHANGED <<prog, stack, result>>

Next == Work \/ Call \/ Return \/ Finish \/ Abort

Spec == Init /\ [][Next]_vars
=============================================================================
