------------------------------ MODULE CowX86Gen ------------------------------
(***************************************************************************)
(* The x86-64 code generator: cow_x86_64_jit emits the code of each        *)
(* function of a module, block by block in the order of builder.blocks,    *)
(* giving values registers as it goes, and then fills in the displacements *)
(* of the branches it emitted.                                             *)
(*                                                                         *)
(* A value's register is looked up as the instruction is emitted: the      *)
(* table reflects the instructions emitted before, whichever of them will  *)
(* run before.  placed is a history variable: for every instruction of the *)
(* module, where its code starts and the tables it was emitted with.       *)
(***************************************************************************)
EXTENDS CowIR, CowX86Encoding, SequencesExt, FiniteSets

CONSTANT Programs  \* the modules that are compiled

VARIABLES
  prog,                  \* module->funcs
  at,                    \* what is emitted next: function, block and instruction;
                         \* instruction 0 is the start of the block
  registers,             \* allocator->registers: the value that each slot holds
  registers_xmm,         \* allocator->registers_xmm
  block_offsets_to_set,  \* the branches of the function whose displacement is missing
  code,                  \* per function, the bytes written
  code_offset,           \* per function, the offset of each block begun
  direct_call_offset,    \* per function, the calls that cow_module_jit must patch
  placed,                \* history: where and with which tables instructions were emitted
  overrun                \* an array of the generator was read beyond its end

vars == <<prog, at, registers, registers_xmm, block_offsets_to_set, code, code_offset,
          direct_call_offset, placed, overrun>>

\* NULL in a slot: no value.
Null == Unset

\* The registers of the slots, in the order of allocate_init.  It fills 13 of
\* the 14 integer slots; the last one keeps the register number 0, RAX.
IntRegisters == <<RCX, RDX, RBX, RSI, RDI, R8, R9, 10, 11, 12, 13, 14, 15, RAX>>
XmmRegisters == [k \in 1 .. 15 |-> k]

\* Mutant: those of the other convention, that of Unix.
SystemVRegisters == <<RDI, RSI, RDX, RCX>>
int_registers_for_call   == <<RCX, RDX, R8, R9>>
float_registers_for_call == <<0, 1, 2, 3>>

cow_type_is_decimal(t) == t \in {"f32", "f64"}

fn     == prog[at.func]
Block  == fn.blocks[at.block]
instr  == Block[at.instr]
Decimal(id) == cow_type_is_decimal(TypeOf(fn, id))

\* How many of the first k - 1 of some types are decimal, and how many are not.
FloatsBefore(types, k) == Cardinality({j \in 1 .. k - 1 : cow_type_is_decimal(types[j])})
IntsBefore(types, k)   == Cardinality({j \in 1 .. k - 1 : ~cow_type_is_decimal(types[j])})
----------------------------------------------------------------------------
\* The slot of a value, the first one, or 0 if no slot holds it.
SlotOf(slots, v) == SelectInSeq(slots, LAMBDA s : s = v)

\* get_register_for_value and get_xmm_for_value: 0 if the value has no slot.
RegisterIn(names, k) == IF k = 0 THEN 0 ELSE names[k]
get_register_for_value(v) == RegisterIn(IntRegisters, SlotOf(registers, v))
get_xmm_for_value(v)      == RegisterIn(XmmRegisters, SlotOf(registers_xmm, v))

\* allocate_register and allocate_xmm: the register given, which is 0 when no
\* slot is free, and the table with the value in that slot.
next_register == RegisterIn(IntRegisters, SlotOf(registers, Null))
next_xmm      == RegisterIn(XmmRegisters, SlotOf(registers_xmm, Null))

\* Mutant: the last slot is given although it is taken.
WithReuse(slots, old, v) ==
  IF SlotOf(slots, old) = 0 THEN slots ELSE [slots EXCEPT ![2] = v]
With(slots, old, v) ==
  IF SlotOf(slots, old) = 0 THEN slots ELSE [slots EXCEPT ![SlotOf(slots, old)] = v]

\* assign_arg_to_register: the register that argument k of f is expected in.
\* Arguments that would be on the stack get register 0, and so do none.
arg_reg(f, k) ==
  LET floats == FloatsBefore(f.values, k)
      ints   == IntsBefore(f.values, k)
  IN  IF cow_type_is_decimal(f.values[k])
      THEN IF floats < 4 THEN float_registers_for_call[floats + 1] ELSE 0
      ELSE IF ints < 4 THEN int_registers_for_call[ints + 1] ELSE 0

\* The slots when f is begun: decimal arguments, too, are put into the table of
\* integer registers, the last argument of a register wins.
assign_arg_to_register(f) ==
  [s \in DOMAIN IntRegisters |->
     SelectLastInSubSeq([k \in 1 .. f.args_count |-> arg_reg(f, k)], 1, f.args_count,
                        LAMBDA r : r = IntRegisters[s]) - 1]
----------------------------------------------------------------------------
\* The place and the tables with which function f of program p is begun.
BeginFunc(f) == [func |-> f, block |-> 1, instr |-> 0]
SlotsFor(p, f) ==
  IF f \in DOMAIN p THEN assign_arg_to_register(p[f]) ELSE [s \in DOMAIN IntRegisters |-> Null]
NoXmm == [s \in DOMAIN XmmRegisters |-> Null]

Init ==
  /\ prog \in Programs /\ WellFormed(prog)
  /\ at = BeginFunc(1)
  /\ registers = SlotsFor(prog, 1) /\ registers_xmm = NoXmm
  /\ block_offsets_to_set = <<>>
  /\ code = [f \in DOMAIN prog |-> <<>>]
  /\ code_offset = [f \in DOMAIN prog |-> <<>>]
  /\ direct_call_offset = [f \in DOMAIN prog |-> <<>>]
  /\ placed = [f \in DOMAIN prog |-> <<>>]
  /\ overrun = FALSE

Finished == at.func \notin DOMAIN prog
Emitting == ~Finished /\ ~overrun
current_index == Len(code[at.func])

StartBlock ==
  /\ Emitting /\ at.block \in DOMAIN fn.blocks /\ at.instr = 0
  /\ code_offset' = [code_offset EXCEPT ![at.func] = Append(@, current_index)]
  /\ placed' = [placed EXCEPT ![at.func] = Append(@, <<>>)]
  /\ at' = [at EXCEPT !.instr = 1]
  /\ UNCHANGED <<prog, registers, registers_xmm, block_offsets_to_set, code,
                 direct_call_offset, overrun>>

EndBlock ==
  /\ Emitting /\ at.block \in DOMAIN fn.blocks /\ at.instr = Len(Block) + 1
  /\ at' = [at EXCEPT !.block = @ + 1, !.instr = 0]
  /\ UNCHANGED <<prog, registers, registers_xmm, block_offsets_to_set, code, code_offset,
                 direct_call_offset, placed, overrun>>

Fetched(ops) ==
  /\ Emitting /\ at.block \in DOMAIN fn.blocks /\ at.instr \in DOMAIN Block
  /\ instr.op \in ops

\* What every case of jit_instr does: bytes are written for the instruction.
Emit(bytes) ==
  /\ code' = [code EXCEPT ![at.func] = @ \o bytes]
  /\ placed' = [placed EXCEPT ![at.func][at.block] =
                  Append(@, [start |-> current_index, ints |-> registers, xmms |-> registers_xmm,
                             xmms_after |-> registers_xmm'])]
  /\ at' = [at EXCEPT !.instr = @ + 1]
  /\ UNCHANGED <<prog, code_offset, overrun>>

Put(ints, xmms) == registers' = ints /\ registers_xmm' = xmms
SameTables  == UNCHANGED <<registers, registers_xmm>>
NoBranch    == UNCHANGED block_offsets_to_set
NoCall      == UNCHANGED direct_call_offset
----------------------------------------------------------------------------
ConstXmm ==
  /\ Fetched({"CONST_I32", "CONST_I64"}) /\ Decimal(instr.gen)
  /\ Put(registers, With(registers_xmm, Null, instr.gen))
  /\ Emit(write_mov_xmm_f64(next_xmm, instr.imm))
  /\ NoBranch /\ NoCall

ConstInt ==
  /\ Fetched({"CONST_I32", "CONST_I64", "CONST_PTR"})
  /\ instr.op = "CONST_PTR" \/ ~Decimal(instr.gen)
  /\ Put(With(registers, Null, instr.gen), registers_xmm)
  /\ Emit(write_mov_reg_int64(next_register, instr.imm))
  /\ NoBranch /\ NoCall

\* The result takes over the register of the left operand.
AddXmm ==
  /\ Fetched({"ADD"}) /\ Decimal(instr.left)
  /\ Put(registers, With(registers_xmm, instr.left, instr.gen))
  /\ Emit(write_add_xmm_to_xmm(get_xmm_for_value(instr.left), get_xmm_for_value(instr.right)))
  /\ NoBranch /\ NoCall

\* Mutant: the left operand is not recorded as overwritten.
AddIntKeepsLeft ==
  /\ Fetched({"ADD"}) /\ ~Decimal(instr.left)
  /\ SameTables /\ NoBranch /\ NoCall
  /\ Emit(write_add_reg_to_reg(get_register_for_value(instr.left), get_register_for_value(instr.right)))
AddInt ==
  /\ Fetched({"ADD"}) /\ ~Decimal(instr.left)
  /\ Put(With(registers, instr.left, instr.gen), registers_xmm)
  /\ Emit(write_add_reg_to_reg(get_register_for_value(instr.left), get_register_for_value(instr.right)))
  /\ NoBranch /\ NoCall

\* A load of a decimal goes to an integer register, too.  The address is looked
\* up after the result got its slot.
Load ==
  /\ Fetched({"LOAD"})
  /\ Put(With(registers, Null, instr.gen), registers_xmm)
  /\ Emit(write_mov_mem_to_reg(RegisterIn(IntRegisters, SlotOf(registers', instr.left)), next_register))
  /\ NoBranch /\ NoCall

Store ==
  /\ Fetched({"STORE"})
  /\ SameTables /\ NoBranch /\ NoCall
  /\ Emit(write_mov_reg_to_mem(get_register_for_value(instr.right), get_register_for_value(instr.left)))
----------------------------------------------------------------------------
(***************************************************************************)
(* CALL_PTR.  The convention's registers that the arguments need and that  *)
(* hold values are pushed, the arguments moved, and the registers popped   *)
(* after the call, in the order of the pushes.  The register to save for a *)
(* decimal argument is looked up by the number of integer arguments.       *)
(***************************************************************************)
ArgTypes == [k \in DOMAIN instr.args |-> TypeOf(fn, instr.args[k])]

\* Arguments for which the code reads beyond the four registers of a table.
TooManyArgs ==
  \E k \in DOMAIN ArgTypes :
    \/ IntsBefore(ArgTypes, k) >= 4
    \/ cow_type_is_decimal(ArgTypes[k]) /\ FloatsBefore(ArgTypes, k) >= 4

SavedFor(k) ==
  LET n == IntsBefore(ArgTypes, k) + 1
  IN  IF cow_type_is_decimal(ArgTypes[k])
      THEN [is_xmm |-> TRUE,  reg |-> float_registers_for_call[n]]
      ELSE [is_xmm |-> FALSE, reg |-> int_registers_for_call[n]]

\* is_register_assigned and is_register_assigned_xmm.
Assigned(saved) ==
  IF saved.is_xmm THEN \E s \in DOMAIN XmmRegisters : XmmRegisters[s] = saved.reg /\ registers_xmm[s] # Null
                  ELSE \E s \in DOMAIN IntRegisters : IntRegisters[s] = saved.reg /\ registers[s] # Null

\* setup_arguments_into_registers: args_to_pop, the arguments whose registers are
\* saved.
args_to_pop == {k \in DOMAIN instr.args : Assigned(SavedFor(k))}

PushOf(saved) == IF saved.is_xmm THEN write_push_xmm(saved.reg) ELSE write_push_reg(saved.reg)
PopOf(saved)  == IF saved.is_xmm THEN write_pop_xmm(saved.reg) ELSE write_pop_reg(saved.reg)

Pushes == FlattenSeq([k \in DOMAIN instr.args |->
            IF k \in args_to_pop THEN PushOf(SavedFor(k)) ELSE <<>>])
\* Mutant: nothing is popped.
PopsNone == <<>>
clear_argument == FlattenSeq([k \in DOMAIN instr.args |->
            IF k \in args_to_pop THEN PopOf(SavedFor(k)) ELSE <<>>])

MoveArg(k) ==
  IF cow_type_is_decimal(ArgTypes[k])
  THEN write_mov_xmm_to_xmm(get_xmm_for_value(instr.args[k]),
                            float_registers_for_call[FloatsBefore(ArgTypes, k) + 1])
  ELSE write_mov_reg_to_reg(get_register_for_value(instr.args[k]),
                            int_registers_for_call[IntsBefore(ArgTypes, k) + 1])

\* Mutant: the arguments are moved in reverse order.
MovesReversed == FlattenSeq(Reverse([k \in DOMAIN instr.args |-> MoveArg(k)]))
Moves == FlattenSeq([k \in DOMAIN instr.args |-> MoveArg(k)])

(***************************************************************************)
(* What follows a call: a register for the result, unless the type is void *)
(* - but call_return_type is never written by the builder, so that its     *)
(* value is whatever the allocation held.  After CALL_FUNC a decimal       *)
(* result is stored to memory instead of moved: from_xmm.                  *)
(***************************************************************************)
Leftover == {"void", "i64", "f64"}

ResultMove(t, from_xmm) ==
  CASE t = "void" -> <<>>
    [] t = "i64"  -> write_mov_reg_to_reg(RAX, next_register)
    [] t = "f64"  -> from_xmm

PutResult(t) ==
  Put(IF t = "i64" THEN With(registers, Null, instr.gen) ELSE registers,
      IF t = "f64" THEN With(registers_xmm, Null, instr.gen) ELSE registers_xmm)

CallPtr ==
  /\ Fetched({"CALL_PTR"}) /\ ~TooManyArgs
  /\ \E t \in Leftover :
       /\ PutResult(t)
       /\ Emit(Pushes \o Moves \o push_shadow
               \o write_call_indirect(get_register_for_value(instr.left)) \o pop_shadow
               \o ResultMove(t, write_mov_xmm_to_xmm(XMM0, next_xmm)) \o clear_argument)
  /\ NoBranch /\ NoCall

\* The arguments would be moved into whatever bytes follow the tables.
CallPtrOverrun ==
  /\ Fetched({"CALL_PTR"}) /\ TooManyArgs
  /\ overrun' = TRUE
  /\ UNCHANGED <<prog, at, registers, registers_xmm, block_offsets_to_set, code, code_offset,
                 direct_call_offset, placed>>

\* Passes no arguments and saves no registers.
CallFunc ==
  /\ Fetched({"CALL_FUNC"})
  /\ direct_call_offset' = [direct_call_offset EXCEPT ![at.func] =
       Append(@, [offset |-> current_index + CallAddress, func |-> instr.callee])]
  /\ \E t \in Leftover :
       /\ PutResult(t)
       /\ Emit(write_call_direct \o ResultMove(t, write_mov_reg_to_mem(XMM0, next_xmm)))
  /\ NoBranch
----------------------------------------------------------------------------
Ret ==
  /\ Fetched({"RET"})
  /\ SameTables /\ NoBranch /\ NoCall
  /\ Emit((IF cow_type_is_decimal(fn.return_type)
           THEN write_mov_xmm_to_xmm(get_xmm_for_value(instr.left), XMM0)
           ELSE write_mov_reg_to_reg(get_register_for_value(instr.left), RAX)) \o write_ret)

RetVoid == Fetched({"RET_VOID"}) /\ SameTables /\ NoBranch /\ NoCall /\ Emit(write_ret)

\* A BlockToReplace whose displacement ends n bytes behind the code so far.
ToReplace(block, n) == [block |-> block, offset |-> current_index + n - 4, instr_size |-> 4]

Br ==
  /\ Fetched({"BR"})
  /\ SameTables /\ NoCall
  /\ Emit(write_jmp)
  /\ block_offsets_to_set' = Append(block_offsets_to_set, ToReplace(instr.yes, Len(write_jmp)))

CondBr ==
  /\ Fetched({"COND_BR"})
  /\ SameTables /\ NoCall
  /\ LET test == write_cond_jmp(get_register_for_value(instr.left)) IN
       /\ Emit(test \o write_jmp)
       /\ block_offsets_to_set' = block_offsets_to_set \o
            <<ToReplace(instr.no, Len(test)), ToReplace(instr.yes, Len(test \o write_jmp))>>

\* The opcodes that the switch has no case for.
Skipped ==
  /\ Fetched((BinaryOps \ {"ADD"}) \cup {"NOT", "CONST_I16", "CONST_I8"})
  /\ SameTables /\ NoBranch /\ NoCall /\ Emit(<<>>)
----------------------------------------------------------------------------
\* byte_writer_int32_at.
WrittenAt(bytes, offset, v) ==
  [p \in DOMAIN bytes |-> IF p - offset \in 1 .. 4 THEN <<v, p - offset - 1>> ELSE bytes[p]]

\* Mutant: the displacement is counted from its own first byte.
DisplacementFromStart(r) == code_offset[at.func][r.block] - r.offset
Displacement(r) == code_offset[at.func][r.block] - r.offset - r.instr_size

EmittedAll == Emitting /\ at.block = Len(fn.blocks) + 1

ReplaceOffset ==
  /\ EmittedAll /\ block_offsets_to_set # <<>>
  /\ LET r == Head(block_offsets_to_set) IN
       code' = [code EXCEPT ![at.func] = WrittenAt(@, r.offset, Displacement(r))]
  /\ block_offsets_to_set' = Tail(block_offsets_to_set)
  /\ UNCHANGED <<prog, at, registers, registers_xmm, code_offset, direct_call_offset, placed, overrun>>

NextFunc ==
  /\ EmittedAll /\ block_offsets_to_set = <<>>
  /\ at' = BeginFunc(at.func + 1)
  /\ Put(SlotsFor(prog, at.func + 1), NoXmm)
  /\ UNCHANGED <<prog, block_offsets_to_set, code, code_offset, direct_call_offset, placed, overrun>>

jit_instr ==
  \/ ConstXmm \/ ConstInt \/ AddXmm \/ AddInt \/ Load \/ Store \/ CallPtr \/ CallPtrOverrun
  \/ CallFunc \/ Ret \/ RetVoid \/ Br \/ CondBr \/ Skipped

Generate == StartBlock \/ EndBlock \/ jit_instr \/ ReplaceOffset \/ NextFunc
Done     == ~Emitting /\ UNCHANGED vars

Next == Generate \/ Done
Spec == Init /\ [][Next]_vars
=============================================================================
