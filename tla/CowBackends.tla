----------------------------- MODULE CowBackends -----------------------------
(***************************************************************************)
(* A module run by both back ends: the generator compiles it, the code is  *)
(* copied and its calls are patched, and then the interpreter and the      *)
(* processor execute it in lockstep, one instruction of the module at a    *)
(* time.                                                                   *)
(*                                                                         *)
(* The two do not compute the same: an add is 32 bits wide in machine      *)
(* code, a narrow constant is partly uninitialised in the interpreter, a   *)
(* value is overwritten, not passed, or never generated.  known[id] counts *)
(* the low bit patterns of value id on which the two can be relied upon to *)
(* agree, as in CowReference, until some other value's instruction writes  *)
(* its register again in a loop.  comparable becomes FALSE when execution  *)
(* reaches an instruction after which nothing can be said: one whose       *)
(* registers its encoding cannot name, or an address or a condition on     *)
(* which the two do not agree.                                             *)
(***************************************************************************)
EXTENDS CowInterp

CONSTANTS CodeAddr, Extern, Clobber  \* as in CowX86Machine

VARIABLES
  at, int_slots, xmm_slots, block_offsets_to_set, code, code_offset, direct_call_offset,
  placed, overrun,  \* the generator's, see CowX86Gen
  generated_func,   \* per function, the executable copy of its code
  m,                \* the processor
  known, known_memory, comparable

Modules == {s.prog : s \in Starts}
Gen == INSTANCE CowX86Gen
         WITH Programs <- Modules, registers <- int_slots, registers_xmm <- xmm_slots
Machine == INSTANCE CowX86Machine

gen_vars == <<at, int_slots, xmm_slots, block_offsets_to_set, code, code_offset,
              direct_call_offset, placed, overrun>>
both == <<vars, gen_vars, generated_func, m, known, known_memory, comparable>>

FullWord == Span["i64"]
----------------------------------------------------------------------------
\* The C caller passes the first four arguments in the registers that the
\* Windows convention gives their positions; everything else is left over.
CallerRegs(f) ==
  [r \in Machine!Registers |->
     IF \E k \in 1 .. 4 : k <= f.args_count /\ Machine!ConventionInt[k] = r
     THEN pool[CHOOSE k \in 0 .. 3 : Machine!ConventionInt[k + 1] = r] ELSE Clobber]
CallerXmm(f) ==
  [r \in Machine!Registers |-> IF r < 4 /\ r < f.args_count THEN pool[r] ELSE Clobber]

\* What the generator passes on of the arguments: the first four integers.
KnownArgs(f) ==
  [id \in Ids(f) |-> IF id < f.args_count /\ id < 4 /\ \A j \in 0 .. id : ~Gen!cow_type_is_decimal(TypeOf(f, j))
                     THEN FullWord ELSE 1]
NothingKnown(f) == [id \in Ids(f) |-> 1]

\* Only calls of functions that exist are considered.
InitBoth ==
  /\ Init /\ Gen!Init /\ block[1] # 0
  /\ generated_func = <<>>
  /\ LET f == prog[block[1]] IN
       /\ m = Machine!Enter(block[1], CallerRegs(f), CallerXmm(f), memory)
       /\ known = KnownArgs(f)
  /\ known_memory = [a \in Addr |-> FullWord]
  /\ comparable = TRUE

Generate ==
  /\ generated_func = <<>> /\ Gen!Generate
  /\ UNCHANGED <<block, instr_index, registers, pool, frames, memory, status, result>>
  /\ UNCHANGED <<generated_func, m, known, known_memory, comparable>>

\* Mutant: a call is patched with the code of the function that makes it.
CalleeOfCaller(f, c) == f
CalleeOf(f, c) == c.func

\* A code with the eight bytes at an offset set to an address.
WithAddress(bytes, offset, address) ==
  [p \in DOMAIN bytes |-> IF p - offset \in 1 .. 8 THEN <<address, p - offset - 1>> ELSE bytes[p]]

\* The bytes of function f after the patch pass of cow_module_jit: the address
\* of the callee at each recorded offset, one after another.
Patched(f) ==
  LET calls == direct_call_offset[f]
      patched[n \in 0 .. Len(calls)] ==
        IF n = 0 THEN code[f]
        ELSE WithAddress(patched[n - 1], calls[n].offset, CodeAddr[CalleeOf(f, calls[n])])
  IN  patched[Len(calls)]

\* cow_module_jit after cow_x86_64_jit.
Link ==
  /\ generated_func = <<>> /\ Gen!Finished
  /\ generated_func' = [f \in DOMAIN prog |-> Patched(f)]
  /\ UNCHANGED vars /\ UNCHANGED gen_vars
  /\ UNCHANGED <<m, known, known_memory, comparable>>
----------------------------------------------------------------------------
\* The generator's entry for the interpreter's instruction, and whether there is
\* one for a block and an index.
HasCode(b, j) == j \in DOMAIN placed[b[1]][b[2]]
PlacedAt(b, j) == placed[b[1]][b[2]][j]
Emitted == PlacedAt(block, instr_index)

IntSlot(id) == Gen!SlotOf(Emitted.ints, id)
XmmSlot(id) == Gen!SlotOf(Emitted.xmms, id)
IntReg(id)  == Gen!RegisterIn(Gen!IntRegisters, IntSlot(id))

\* What is known of the register that the instruction's code reads for a value:
\* nothing if the table did not hold the value.
InInt(id) == IF IntSlot(id) = 0 THEN 1 ELSE known[id]
InXmm(id) == IF XmmSlot(id) = 0 THEN 1 ELSE known[id]

\* Registers that every encoding can name: the code sets no REX bit for most.
Nameable(id) == IntSlot(id) # 0 /\ IntReg(id) < 8
InLow(id)    == IF Nameable(id) THEN known[id] ELSE 1
FreeNameable == IntSlot(Unset) # 0 /\ IntReg(Unset) < 8
XmmNameable  == XmmSlot(Unset) # 0 /\ Gen!RegisterIn(Gen!XmmRegisters, XmmSlot(Unset)) < 8
Decimal(id)  == Gen!cow_type_is_decimal(TypeOf(prog[block[1]], id))

SameMemory   == UNCHANGED known_memory

\* The values that some table of the running function, emitted before this
\* instruction or after, has in an integer register, or in an xmm register.
AllTables == UNION {Range(placed[block[1]][b]) : b \in DOMAIN placed[block[1]]}
IntsIn(r) == {t.ints[s] : t \in AllTables, s \in {s \in DOMAIN Gen!IntRegisters : Gen!IntRegisters[s] = r}}
XmmsIn(r) == {t.xmms[s] : t \in AllTables, s \in {s \in DOMAIN Gen!XmmRegisters : Gen!XmmRegisters[s] = r}}

\* The instruction writes the register of the values in lost, one of which may
\* have taken it over when the instruction was executed before: n bit patterns
\* are known of the instruction's own value, and nothing of the others.
Learn(id, n, lost) ==
  known' = [v \in DOMAIN known |-> IF v = id THEN n ELSE IF v \in lost THEN 1 ELSE known[v]]

FreeInts == IntsIn(IntReg(Unset))
FreeXmms == XmmsIn(Gen!RegisterIn(Gen!XmmRegisters, XmmSlot(Unset)))

\* A decimal constant gets to its xmm register by way of RAX.
KnowConst ==
  /\ instr.op \in {"CONST_I64", "CONST_I32", "CONST_PTR"}
  /\ LET in_xmm == Decimal(instr.gen) /\ instr.op # "CONST_PTR" IN
       /\ Learn(instr.gen, Span[ConstWidth[instr.op]],
                IF in_xmm THEN IntsIn(Gen!RAX) \cup FreeXmms ELSE FreeInts)
       /\ comparable' = IF in_xmm THEN XmmNameable ELSE FreeNameable
  /\ SameMemory

\* Floating-point addition is not compared.
KnowAdd ==
  /\ instr.op = "ADD"
  /\ Learn(instr.gen, Min({InInt(instr.left), InLow(instr.right), Span["i32"]}),
           {instr.left} \cup IntsIn(IntReg(instr.left)))
  /\ SameMemory
  /\ comparable' = (~Decimal(instr.left) /\ (IntSlot(instr.left) # 0 => IntReg(instr.left) < 8))

SameAddress == Nameable(instr.left) /\ InInt(instr.left) = FullWord /\ AccessType # "void"

\* What an access of AccessType keeps of what is known: machine code always
\* moves 64 bits.
Narrowed(n) == IF AccessType = "void" THEN 1 ELSE Min({n, Span[AccessWidth[AccessType]]})

KnowLoad ==
  /\ instr.op = "LOAD"
  /\ Learn(instr.gen, IF Reg(instr.left) \in Addr THEN Narrowed(known_memory[Reg(instr.left)]) ELSE 1,
           FreeInts)
  /\ SameMemory
  /\ comparable' = (SameAddress /\ FreeNameable)

KnowStore ==
  /\ instr.op = "STORE"
  /\ known_memory' = [a \in Addr |-> IF a = Reg(instr.left) THEN Narrowed(InInt(instr.right))
                                     ELSE known_memory[a]]
  /\ UNCHANGED known
  /\ comparable' = (SameAddress /\ Nameable(instr.right))

\* The interpreter tests eight bits, machine code 64.
KnowCondBr ==
  /\ instr.op = "COND_BR"
  /\ UNCHANGED known /\ SameMemory
  /\ comparable' = (Nameable(instr.left) /\ InInt(instr.left) = FullWord /\ Reg(instr.left) \in {0, 1})

\* The instructions without machine code, and those that only jump or return.
KnowNothing ==
  /\ instr.op \in Opcodes \ {"CONST_I64", "CONST_I32", "CONST_PTR", "ADD", "LOAD", "STORE",
                             "COND_BR", "CALL_PTR", "CALL_FUNC", "RET", "RET_VOID"}
  /\ known' = IF instr.op \in GenOps THEN [known EXCEPT ![instr.gen] = 1] ELSE known
  /\ SameMemory /\ UNCHANGED comparable
----------------------------------------------------------------------------
\* The integer registers that the arguments of a call are moved to, those that
\* are saved around it, and the registers whose values the callee destroys.
ArgTypes   == [k \in DOMAIN instr.args |-> TypeOf(prog[block[1]], instr.args[k])]
ArgReg(k)  == Gen!int_registers_for_call[Gen!IntsBefore(ArgTypes, k) + 1]
IntArgs    == {k \in DOMAIN instr.args : ~Decimal(instr.args[k])}
InUse(r)   == \E s \in DOMAIN Emitted.ints : Gen!IntRegisters[s] = r /\ Emitted.ints[s] # Unset
Saved      == {r \in {ArgReg(k) : k \in IntArgs} : InUse(r)}
Destroyed  == IF Cardinality(Saved) = 1 THEN Machine!Volatile \ Saved ELSE Machine!Volatile
Moved(k)   == IntReg(instr.args[k]) # ArgReg(k)

\* The interpreter does not execute the call, so that its result is not
\* compared.  Registers saved together come back exchanged.  What stays known is
\* in the table now and in a register that is kept, hence not in the free one
\* that the result is moved to: a value without a slot counts as in RAX.
KnowCallPtr ==
  /\ instr.op = "CALL_PTR"
  /\ known' = [id \in DOMAIN known |->
                 IF id = instr.gen \/ IntReg(id) \in Destroyed \/ XmmSlot(id) # 0 THEN 1 ELSE known[id]]
  /\ SameMemory
  /\ comparable' =
       /\ IntArgs = DOMAIN instr.args
       /\ Nameable(instr.left) /\ InInt(instr.left) = FullWord /\ Reg(instr.left) \in Extern
       /\ \A k \in IntArgs : Moved(k) => ArgReg(k) # IntReg(instr.left)

\* A called function gets no arguments; it uses the same registers as its
\* caller, which afterwards has nothing but the result.
KnowCallFunc ==
  /\ instr.op = "CALL_FUNC"
  /\ known' = NothingKnown(Callee) /\ SameMemory
  /\ comparable' = (Emitted.xmms_after = Emitted.xmms)

KnowRet ==
  /\ instr.op \in {"RET", "RET_VOID"}
  /\ IF frames = <<>> THEN UNCHANGED known
     ELSE LET caller == Last(frames) IN
          known' = [id \in Ids(prog[caller.block[1]]) |->
                      IF id = caller.gen_value_id /\ instr.op = "RET"
                         /\ ~Gen!cow_type_is_decimal(prog[block[1]].return_type)
                      THEN InInt(instr.left) ELSE 1]
  /\ SameMemory /\ UNCHANGED comparable

Know ==
  \/ KnowConst \/ KnowAdd \/ KnowLoad \/ KnowStore \/ KnowCondBr \/ KnowNothing
  \/ KnowCallPtr \/ KnowCallFunc \/ KnowRet
----------------------------------------------------------------------------
\* The offsets at which the processor has reached the interpreter's next
\* instruction.
Place(b, j) == <<b[1], PlacedAt(b, j).start>>
NextPlaces == IF status' = "running" /\ HasCode(block', instr_index')
              THEN {Place(block', instr_index')} ELSE {}

Lockstep ==
  /\ generated_func # <<>> /\ comparable
  /\ HasCode(block, instr_index)
  /\ Know
  /\ Execute
  /\ m' = Machine!Run(generated_func, m, NextPlaces)
  /\ UNCHANGED <<gen_vars, generated_func>>

End ==
  /\ \/ overrun \/ ~comparable \/ status # "running"
     \/ generated_func # <<>> /\ ~HasCode(block, instr_index)
  /\ UNCHANGED both

NextBoth == Generate \/ Link \/ Lockstep \/ End
SpecBoth == InitBoth /\ [][NextBoth]_both
----------------------------------------------------------------------------
Comparing == generated_func # <<>> /\ comparable
AtInstr   == Comparing /\ status = "running" /\ HasCode(block, instr_index)

(***************************************************************************)
(* Control: the processor is at the code of the interpreter's next         *)
(* instruction, as deep in calls and with nothing else left on its stack,  *)
(* and it has returned to its caller when the interpreter has.             *)
(***************************************************************************)
ControlAgrees ==
  /\ AtInstr => /\ m.status = "running" /\ m.rip = Place(block, instr_index)
                /\ Len(m.stack) = Len(frames) + 1
  /\ Comparing /\ status = "returned" => m.status = "returned" /\ m.stack = <<>>

(***************************************************************************)
(* In the linked code of every function, whether it runs or not, each      *)
(* number that was left open when an instruction was emitted is filled in  *)
(* and none has overwritten another: branches lead to where the code of    *)
(* their block begins, direct calls load their callee's address.           *)
(***************************************************************************)
CodeLinked ==
  \A f \in DOMAIN generated_func : \A b \in DOMAIN placed[f] : \A k \in DOMAIN placed[f][b] :
    LET i     == prog[f].blocks[b][k]
        start == placed[f][b][k].start
        Reads(p, n, v) == /\ Machine!IsNumber(generated_func[f], p, n)
                          /\ Machine!NumberAt(generated_func[f], p) = v
        Leads(p, target) == Reads(p, 4, code_offset[f][target] - p - 4)
    IN  /\ i.op = "BR"        => Leads(start + 1, i.yes)
        /\ i.op = "COND_BR"   => Leads(start + 6, i.no) /\ Leads(start + 11, i.yes)
        /\ i.op = "CALL_FUNC" => Reads(start + 2, 8, CodeAddr[i.callee])
        /\ k = 1 => start = code_offset[f][b]

\* The words agree on the part that n bit patterns make out.
Agree(w, v, n) == w % n = v % n

(***************************************************************************)
(* Every register that the generator's table gives a value holds what the  *)
(* interpreter has for it, as far as that is known, and so does memory.    *)
(***************************************************************************)
RegistersHoldValues ==
  AtInstr =>
    /\ \A s \in DOMAIN Gen!IntRegisters : LET id == Emitted.ints[s] IN
         id # Unset => Agree(m.regs[Gen!IntRegisters[s]], Reg(id), known[id])
    /\ \A s \in DOMAIN Gen!XmmRegisters : LET id == Emitted.xmms[s] IN
         id # Unset => Agree(m.xmm[Gen!XmmRegisters[s]], Reg(id), known[id])
MemoryAgrees ==
  Comparing => \A a \in Addr : Agree(m.memory[a], memory[a], known_memory[a])

(***************************************************************************)
(* What the machine code returns to its C caller is what cow_interpret     *)
(* returns, as far as it is known.                                         *)
(***************************************************************************)
ResultsAgree ==
  Comparing /\ status = "returned" /\ instr.op = "RET" =>
    IF Gen!cow_type_is_decimal(prog[block[1]].return_type)
    THEN Agree(m.xmm[Machine!XMM0], result, InXmm(instr.left))
    ELSE Agree(m.regs[Machine!RAX], result, InInt(instr.left))

\* The registers that the tables gave to a value at some instruction, and those
\* that a function called under the Windows convention has to keep.
Given == {Gen!IntRegisters[s] : s \in {s \in DOMAIN Gen!IntRegisters :
            \E f \in DOMAIN placed : \E b \in DOMAIN placed[f] : \E k \in DOMAIN placed[f][b] :
              placed[f][b][k].ints[s] # Unset}}
Nonvolatile == Machine!Registers \ (Machine!Volatile \cup {Machine!RSP})

(***************************************************************************)
(* The code saves no register for its C caller.  It destroys only those    *)
(* that it gave to values: with few values, none that the caller needs.    *)
(***************************************************************************)
OthersKept ==
  Comparing /\ m.status = "returned" => \A r \in Nonvolatile \ Given : m.regs[r] = Clobber

\* The values that an instruction uses.
Uses(i) == (IF i.op \in LeftOps THEN {i.left} ELSE {}) \cup (IF i.op \in RightOps THEN {i.right} ELSE {})

\* The functions that the generator's registers suffice for: one block of integer
\* operations, not more values that take a slot than there are, and none used
\* after it was the left operand of an add, whose result takes its slot.
Compilable(f) ==
  LET b == f.blocks[1]
      New == {k \in DOMAIN b : b[k].op \in {"CONST_I32", "CONST_I64", "CONST_PTR", "LOAD"}}
  IN  /\ Len(f.blocks) = 1 /\ f.args_count <= 4 /\ f.args_count + Cardinality(New) <= 14
      /\ \A id \in Ids(f) : ~Gen!cow_type_is_decimal(TypeOf(f, id))
      /\ \A k \in DOMAIN b : b[k].op \in {"ADD", "STORE", "RET", "RET_VOID"} \/ k \in New
      /\ \A k \in DOMAIN b : \A v \in Uses(b[k]) :
           /\ v < f.args_count \/ \E j \in 1 .. k - 1 : b[j].op \in GenOps /\ b[j].gen = v
           /\ \A j \in 1 .. k - 1 : b[j].op = "ADD" => b[j].left # v

(***************************************************************************)
(* In those functions every value is found in the table whenever it is     *)
(* used, whatever took, left and inherited slots before.                   *)
(***************************************************************************)
UsedValuesHeld ==
  \A f \in DOMAIN prog : Compilable(prog[f]) =>
    \A b \in DOMAIN placed[f] : \A k \in DOMAIN placed[f][b] :
      \A v \in Uses(prog[f].blocks[b][k]) : Gen!SlotOf(placed[f][b][k].ints, v) # 0

\* No argument is overwritten before it is moved.
MovesDisjoint ==
  \A k \in IntArgs : \A j \in IntArgs : j < k /\ Moved(j) => ArgReg(j) # IntReg(instr.args[k])

(***************************************************************************)
(* A function called through a pointer receives its integer arguments in   *)
(* the registers of the convention, unless moving one overwrites another.  *)
(***************************************************************************)
ArgumentsArrive ==
  [][comparable' /\ m.status = "running" /\ Len(m'.received) > Len(m.received) /\ MovesDisjoint =>
       \A k \in IntArgs : Agree(Last(m'.received).ints[k], Reg(instr.args[k]), InInt(instr.args[k]))]_both
=============================================================================
