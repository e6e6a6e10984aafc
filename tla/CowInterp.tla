----------------------------- MODULE CowInterp -----------------------------
(***************************************************************************)
(* cow_interpret and eval_func: the interpreter's fetch-execute loop.      *)
(*                                                                         *)
(* All activations share one pool of registers; `registers` is where the   *)
(* running activation's window starts.  Neither the pool nor the array of  *)
(* call frames is bounds-checked by the code, and a malformed function is  *)
(* not detected.  Where the code would leave the pool, the frames, a       *)
(* block's instructions or the memory its program may use, the model stops *)
(* with a status that names the array left: it says nothing of what the C  *)
(* program does afterwards.                                                *)
(***************************************************************************)
EXTENDS CowEval, SequencesExt

CONSTANTS
  MaxFrames,  \* frames[1200]
  PoolSize,   \* pool_of_registers[5000]
  Addr,       \* the addresses (words) that a program may load from and store to
  Starts      \* the calls of cow_interpret considered, with their surroundings

VARIABLES
  prog,         \* module->funcs
  block,        \* current_block: <<function, block>>
  instr_index,  \* the index, from 1, of current_instr in the block
  registers,    \* the index in the pool that registers points to
  pool,         \* pool_of_registers
  frames,       \* frames[0 .. current_frame - 1]
  memory,       \* what the program's pointers point to
  status,       \* running, or why the loop was left
  result        \* the CowInterpValue returned

vars == <<prog, block, instr_index, registers, pool, frames, memory, status, result>>

Cells == 0 .. PoolSize - 1

CallFrame == [block : Nat \X Nat, instr_index : Nat, gen_value_id : Nat, registers : Nat]

Status == {"running", "returned", "frame_overflow", "pool_overflow", "trap", "bad_access"}

\* A call of cow_interpret: its three arguments, and what the C stack (the
\* uninitialised pool) and the memory hold at that moment.
StartOK(s) ==
  /\ WellFormed(s.prog)
  /\ s.values \in Seq(Word)
  /\ \A f \in DOMAIN s.prog :
       s.prog[f].name = s.name => s.prog[f].args_count <= Len(s.values)
  /\ s.pool \in [Cells -> Word] /\ s.memory \in [Addr -> Word]

ASSUME SizeAssumption   == MaxFrames \in Nat /\ PoolSize \in Nat
ASSUME AddrAssumption   == Addr \subseteq Word
ASSUME StartsAssumption == \A s \in Starts : StartOK(s)
----------------------------------------------------------------------------
\* eval_func up to its loop: the arguments fill the first registers.
Enter(s, f) ==
  LET n == s.prog[f].args_count IN
  /\ block = <<f, 1>>
  /\ pool = [c \in Cells |-> IF c < n THEN s.values[c + 1] ELSE s.pool[c]]
  /\ status = IF n > PoolSize THEN "pool_overflow" ELSE "running"

\* cow_interpret of a name that is not in the module returns a zero value.
Missing(s) == block = <<0, 0>> /\ pool = s.pool /\ status = "returned"

Init ==
  \E s \in Starts :
    /\ prog = s.prog /\ memory = s.memory
    /\ instr_index = 1 /\ registers = 0 /\ frames = <<>> /\ result = 0
    /\ \/ \E f \in DOMAIN s.prog : Found(s.prog, s.name, f) /\ Enter(s, f)
       \/ NotFound(s.prog, s.name) /\ Missing(s)
----------------------------------------------------------------------------
Instrs     == prog[block[1]].blocks[block[2]]
instr      == Instrs[instr_index]
Reg(id)    == pool[registers + id]
Callee     == prog[instr.callee]
\* Mutant: the window moves by one register too few, by the arguments only, or by
\* the values of both functions.
CalleeBaseShort == registers + ValuesSize(Callee) - 1
CalleeBaseArgs  == registers + Callee.args_count
CalleeBaseBoth  == registers + ValuesSize(Callee) + ValuesSize(prog[block[1]])
CalleeBase == registers + ValuesSize(Callee)

\* The registers of the running activation that the instruction touches ...
OwnIds ==
  (IF instr.op \in GenOps \ {"CALL_PTR", "CALL_FUNC"} THEN {instr.gen} ELSE {}) \cup
  (IF instr.op \in LeftOps \ {"CALL_PTR"} THEN {instr.left} ELSE {}) \cup
  (IF instr.op \in RightOps THEN {instr.right} ELSE {}) \cup
  (IF instr.op = "CALL_FUNC"
   THEN {instr.args[k] : k \in DOMAIN instr.args \cap (1 .. Callee.args_count)} ELSE {})

\* ... and the pool cells: a call also fills the callee's arguments, a return
\* the caller's gen_value.
Touched ==
  {registers + id : id \in OwnIds} \cup
  (IF instr.op = "CALL_FUNC" THEN {CalleeBase + k : k \in 0 .. Callee.args_count - 1} ELSE {}) \cup
  (IF instr.op \in {"RET", "RET_VOID"} /\ frames # <<>>
   THEN {Last(frames).registers + Last(frames).gen_value_id} ELSE {})

Fetched(ops) ==
  /\ status = "running"
  /\ instr_index \in DOMAIN Instrs
  /\ instr.op \in ops

Ready(ops) == Fetched(ops) /\ Touched \subseteq Cells

NextInstr == instr_index' = instr_index + 1
SetReg(w) == pool' = [pool EXCEPT ![registers + instr.gen] = w]

\* Mutant: the block after the one that the branch names.
GoToFollowing(b) == block' = <<block[1], b + 1>> /\ instr_index' = 1
GoTo(b) == block' = <<block[1], b>> /\ instr_index' = 1

Stop(why) == status' = why /\ UNCHANGED <<prog, block, instr_index, registers, pool, frames, memory>>
SameCall  == UNCHANGED <<prog, registers, frames, status, result>>
----------------------------------------------------------------------------
Const ==
  /\ Ready(ConstOps)
  /\ \E w \in ConstWords(instr.op, instr.imm) : SetReg(w)
  /\ NextInstr /\ SameCall /\ UNCHANGED <<block, memory>>

Binary ==
  /\ Ready(BinaryOps)
  /\ instr.op \in DivideOps => ~DivTraps(Reg(instr.left), Reg(instr.right))
  /\ \E w \in BinaryWords(instr.op, Reg(instr.left), Reg(instr.right)) : SetReg(w)
  /\ NextInstr /\ SameCall /\ UNCHANGED <<block, memory>>

Trap ==
  /\ Ready(DivideOps)
  /\ DivTraps(Reg(instr.left), Reg(instr.right))
  /\ Stop("trap") /\ UNCHANGED result

Not ==
  /\ Ready({"NOT"})
  /\ SetReg(NotWord(Reg(instr.left)))
  /\ NextInstr /\ SameCall /\ UNCHANGED <<block, memory>>

\* The type that LOAD reads at the address, or STORE writes there.
AccessType == IF instr.op = "LOAD" THEN instr.type
              ELSE TypeOf(prog[block[1]], instr.right)

Load ==
  /\ Ready({"LOAD"})
  /\ AccessType # "void" => Reg(instr.left) \in Addr
  /\ IF AccessType = "void"
     THEN UNCHANGED pool
     ELSE SetReg(LoadWord(AccessType, Reg(instr.gen), memory[Reg(instr.left)]))
  /\ NextInstr /\ SameCall /\ UNCHANGED <<block, memory>>

Store ==
  /\ Ready({"STORE"})
  /\ AccessType # "void" => Reg(instr.left) \in Addr
  /\ IF AccessType = "void"
     THEN UNCHANGED memory
     ELSE memory' = [memory EXCEPT ![Reg(instr.left)] =
                       StoreWord(AccessType, @, Reg(instr.right))]
  /\ NextInstr /\ SameCall /\ UNCHANGED <<block, pool>>

Br ==
  /\ Ready({"BR"})
  /\ GoTo(instr.yes) /\ SameCall /\ UNCHANGED <<pool, memory>>

CondBr ==
  /\ Ready({"COND_BR"})
  /\ \E taken \in Truths(Reg(instr.left)) : GoTo(IF taken THEN instr.yes ELSE instr.no)
  /\ SameCall /\ UNCHANGED <<pool, memory>>

\* Only prints a message: nothing is called and the gen_value is not written.
CallPtr ==
  /\ Ready({"CALL_PTR"})
  /\ NextInstr /\ SameCall /\ UNCHANGED <<block, pool, memory>>
----------------------------------------------------------------------------
(***************************************************************************)
(* The loop that copies the arguments one by one: copied[k] is what        *)
(* argument k receives.  The callee's window may overlap the caller's, so  *)
(* the source of argument k may be the cell of an argument already copied, *)
(* Earlier(k).                                                             *)
(***************************************************************************)
Source(k)  == registers + instr.args[k]
Earlier(k) == Source(k) - CalleeBase + 1

ArgsCopied ==
  LET copied[k \in 1 .. Callee.args_count] ==
        IF Earlier(k) \in 1 .. k - 1 THEN copied[Earlier(k)] ELSE pool[Source(k)]
  IN  copied

CallFunc ==
  /\ Ready({"CALL_FUNC"})
  /\ Len(frames) < MaxFrames
  /\ Callee.args_count <= Len(instr.args)
  /\ frames' = Append(frames, [block |-> block, instr_index |-> instr_index,
                               gen_value_id |-> instr.gen, registers |-> registers])
  /\ block' = <<instr.callee, 1>> /\ instr_index' = 1
  /\ registers' = CalleeBase
  /\ pool' = [c \in Cells |-> IF c - CalleeBase \in 0 .. Callee.args_count - 1
                              THEN ArgsCopied[c - CalleeBase + 1] ELSE pool[c]]
  /\ UNCHANGED <<prog, memory, status, result>>

\* Mutants: the result is written before the caller's registers are restored;
\* the caller resumes at its call instead of after it.
ReturnUnrestored(w) ==
  LET caller == Last(frames) IN
  /\ frames' = Front(frames)
  /\ block' = caller.block /\ instr_index' = caller.instr_index + 1
  /\ registers' = caller.registers
  /\ pool' = [pool EXCEPT ![registers + caller.gen_value_id] = w]
  /\ UNCHANGED <<prog, memory, status, result>>
ReturnToCall(w) ==
  LET caller == Last(frames) IN
  /\ frames' = Front(frames)
  /\ block' = caller.block /\ instr_index' = caller.instr_index
  /\ registers' = caller.registers
  /\ pool' = [pool EXCEPT ![caller.registers + caller.gen_value_id] = w]
  /\ UNCHANGED <<prog, memory, status, result>>

\* Back to the caller, with w in the register of the call's gen_value.
ReturnWith(w) ==
  LET caller == Last(frames) IN
  /\ frames' = Front(frames)
  /\ block' = caller.block /\ instr_index' = caller.instr_index + 1
  /\ registers' = caller.registers
  /\ pool' = [pool EXCEPT ![caller.registers + caller.gen_value_id] = w]
  /\ UNCHANGED <<prog, memory, status, result>>

Ret == Ready({"RET"}) /\ frames # <<>> /\ ReturnWith(Reg(instr.left))

\* The gen_value of a RET_VOID is never set: the pointer dereferenced is
\* uninitialised and the value returned may be anything.
RetVoid == Ready({"RET_VOID"}) /\ frames # <<>> /\ \E w \in Word : ReturnWith(w)

RetFromEntry ==
  /\ Ready({"RET", "RET_VOID"})
  /\ frames = <<>>
  /\ result' = IF instr.op = "RET" THEN Reg(instr.left) ELSE 0
  /\ Stop("returned")
----------------------------------------------------------------------------
\* The frame is filled before the arguments are copied.
FrameOverflow ==
  /\ Fetched({"CALL_FUNC"})
  /\ Len(frames) >= MaxFrames
  /\ Stop("frame_overflow") /\ UNCHANGED result

PoolOverflow ==
  /\ Fetched(Opcodes) /\ ~(Touched \subseteq Cells)
  /\ instr.op = "CALL_FUNC" => Len(frames) < MaxFrames
  /\ Stop("pool_overflow") /\ UNCHANGED result

\* Control falls off the end of a block, a pointer leaves the memory, a call
\* passes fewer arguments than the callee has, or RET_VOID faults.
BadAccess ==
  /\ \/ status = "running" /\ instr_index \notin DOMAIN Instrs
     \/ Ready({"LOAD", "STORE"}) /\ AccessType # "void" /\ Reg(instr.left) \notin Addr
     \/ /\ Ready({"CALL_FUNC"}) /\ Len(frames) < MaxFrames
        /\ Callee.args_count > Len(instr.args)
     \/ Ready({"RET_VOID"}) /\ frames # <<>>
  /\ Stop("bad_access") /\ UNCHANGED result

Stopped == status # "running" /\ UNCHANGED vars

Execute ==
  \/ Const \/ Binary \/ Trap \/ Not \/ Load \/ Store \/ Br \/ CondBr \/ CallPtr
  \/ CallFunc \/ Ret \/ RetVoid \/ RetFromEntry
  \/ FrameOverflow \/ PoolOverflow \/ BadAccess

Next == Execute \/ Stopped

Spec     == Init /\ [][Next]_vars
FairSpec == Spec /\ WF_vars(Next)
----------------------------------------------------------------------------
BlockOK(b) == b[1] \in DOMAIN prog /\ b[2] \in DOMAIN prog[b[1]].blocks

(***************************************************************************)
(* Every variable has its type, and while the loop runs its instruction    *)
(* pointer and every saved frame point into blocks of the module.          *)
(***************************************************************************)
TypeOK ==
  /\ WellFormed(prog)
  /\ block \in Nat \X Nat /\ instr_index \in Nat /\ registers \in Nat
  /\ pool \in [Cells -> Word] /\ memory \in [Addr -> Word]
  /\ frames \in Seq(CallFrame)
  /\ status \in Status /\ result \in Word
  /\ status = "running" => BlockOK(block)
  /\ \A k \in DOMAIN frames :
       /\ BlockOK(frames[k].block)
       /\ frames[k].gen_value_id \in Ids(prog[frames[k].block[1]])

(***************************************************************************)
(* A program is window-safe when no call goes to a function that has fewer *)
(* values than its caller: eval_func moves `registers` by the callee's     *)
(* number of values, so only then does it step over the caller's window.   *)
(***************************************************************************)
WindowSafe(p) ==
  \A f \in DOMAIN p : \A b \in DOMAIN p[f].blocks : \A j \in DOMAIN p[f].blocks[b] :
    LET i == p[f].blocks[b][j]
    IN  i.op = "CALL_FUNC" => ValuesSize(p[i.callee]) >= ValuesSize(p[f])

\* The pool cells that hold the values of the function suspended in frame fr.
WindowEnd(fr) == fr.registers + ValuesSize(prog[fr.block[1]])
Window(fr)    == fr.registers .. WindowEnd(fr) - 1

(***************************************************************************)
(* In a window-safe program the windows of the suspended activations lie   *)
(* below the running one's, and each below those of the calls made later.  *)
(***************************************************************************)
WindowsOrdered ==
  WindowSafe(prog) =>
    \A k \in DOMAIN frames :
      /\ WindowEnd(frames[k]) <= registers
      /\ \A later \in DOMAIN frames : k < later =>
           WindowEnd(frames[k]) <= frames[later].registers

\* The step leaves the windows of all activations that are suspended after it.
KeepsSuspendedWindows ==
  \A k \in DOMAIN frames' : \A c \in Window(frames'[k]) \cap Cells : pool'[c] = pool[c]

(***************************************************************************)
(* No step changes a value of an activation that stays suspended, the      *)
(* caller that a call suspends included.                                   *)
(***************************************************************************)
SuspendedWindowsUntouched == [][WindowSafe(prog) => KeepsSuspendedWindows]_vars

(***************************************************************************)
(* The same without the hypothesis: what main_fib of main.c takes for      *)
(* granted when it adds the results of two calls after the second one.     *)
(***************************************************************************)
ValuesSurviveCalls == [][KeepsSuspendedWindows]_vars

\* V registers for each of MaxFrames + 1 activations fit into the pool, where no
\* function of p has more than V values.
PoolSuffices(p) ==
  \E v \in 0 .. PoolSize :
    /\ \A f \in DOMAIN p : ValuesSize(p[f]) <= v
    /\ v * (MaxFrames + 1) <= PoolSize

(***************************************************************************)
(* The pool is large enough for the deepest stack of calls: with at most V *)
(* values in a function, V registers for each of MaxFrames + 1 activations *)
(* suffice for the loop never to leave the pool.                           *)
(***************************************************************************)
NeverLeavesPool == PoolSuffices(prog) => status # "pool_overflow"
=============================================================================
