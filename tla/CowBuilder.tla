----------------------------- MODULE CowBuilder -----------------------------
(***************************************************************************)
(* The API with which a client builds the functions of a module: the       *)
(* cow_builder_* functions, cow_create_func and the client's own memory,   *)
(* as far as the builder keeps pointers into it.                           *)
(*                                                                         *)
(* The builder checks nothing.  The client modelled here passes each       *)
(* function of the builder values and blocks that the same builder         *)
(* returned and functions of the module; what it builds may still be       *)
(* anything else, such as blocks that end nowhere or values used before    *)
(* they are computed.                                                      *)
(***************************************************************************)
EXTENDS CowIR, SequencesExt, FiniteSets

CONSTANTS
  Names,       \* function names
  ArgLists,    \* the argument types of a created function: sequences of types
  Types,       \* the types given to loads, calls through pointers and functions
  Constants,   \* the <<opcode, type, const_value>> of the cow_builder_const_* calls
  Operations,  \* the binary opcodes used
  Arrays,      \* the client's arrays of call arguments
  MaxArgs,     \* a bound on their length
  MaxFuncs, MaxBlocks, MaxInstrs  \* bounds on the functions, the blocks and the
                                  \* instructions of the module

ASSUME BuilderAssumption ==
  /\ Names \subseteq STRING /\ ArgLists \subseteq Seq(DataTypes) /\ Types \subseteq DataTypes
  /\ Constants \subseteq ConstOps \X DataTypes \X Nat
  /\ Operations \subseteq BinaryOps
  /\ MaxArgs \in Nat

VARIABLES
  funcs,   \* module->funcs, each with its builder
  arrays   \* the client's arrays: handles of the values of one function

vars == <<funcs, arrays>>

\* A CowValue is a pointer: here its place in builder.values, from 1.  What it
\* points to is a record [id, type].  An instruction holds such handles, and
\* of a call's arguments the name of the client's array.
Handles(fn)   == DOMAIN fn.values
NewHandle(fn) == Len(fn.values) + 1

\* Mutants: an instruction put in front of its block; ids that are numbered
\* after the value was added, or from the first value that is no argument.
WithInstrFirst(fn, i)   == [fn EXCEPT !.blocks[fn.current_block] = <<i>> \o @]
WithValueAfter(fn, t)   == [fn EXCEPT !.values = Append(@, [id |-> Len(@) + 1, type |-> t])]
WithValueNoArgs(fn, t)  ==
  [fn EXCEPT !.values = Append(@, [id |-> Len(@) - fn.args_count, type |-> t])]

WithInstr(fn, i) == [fn EXCEPT !.blocks[fn.current_block] = Append(@, i)]
WithValue(fn, t) == [fn EXCEPT !.values = Append(@, [id |-> Len(@), type |-> t])]

Total(Size(_)) == FoldLeft(LAMBDA n, fn : n + Size(fn), 0, funcs)
BlocksOf(fn)   == Len(fn.blocks)
InstrsOf(fn)   == FoldLeft(LAMBDA n, b : n + Len(b), 0, fn.blocks)
Room           == Total(InstrsOf) < MaxInstrs

Emit(f, i) ==
  Room /\ funcs' = [funcs EXCEPT ![f] = WithInstr(@, i)] /\ UNCHANGED arrays

EmitValue(f, i, t) ==
  Room /\ funcs' = [funcs EXCEPT ![f] = WithValue(WithInstr(@, i), t)] /\ UNCHANGED arrays
----------------------------------------------------------------------------
cow_create_func(name, args, ret) ==
  /\ Len(funcs) < MaxFuncs /\ Total(BlocksOf) < MaxBlocks
  /\ funcs' = Append(funcs,
       [name |-> name, args_count |-> Len(args), return_type |-> ret,
        blocks |-> <<<<>>>>, current_block |-> 1,
        values |-> [k \in 1 .. Len(args) |-> [id |-> k - 1, type |-> args[k]]]])
  /\ UNCHANGED arrays

cow_builder_create_block(f) ==
  /\ Total(BlocksOf) < MaxBlocks
  /\ funcs' = [funcs EXCEPT ![f].blocks = Append(@, <<>>)]
  /\ UNCHANGED arrays

cow_builder_set_current_block(f, b) ==
  funcs' = [funcs EXCEPT ![f].current_block = b] /\ UNCHANGED arrays

add_const_instr(f, c) == EmitValue(f, ConstInstr(c[1], NewHandle(funcs[f]), c[3]), c[2])

\* The type of the result is the left operand's, for the comparisons too.
add_op_instr(f, op, left, right) ==
  EmitValue(f, OpInstr(op, NewHandle(funcs[f]), left, right), funcs[f].values[left].type)

cow_builder_not(f, v) ==
  EmitValue(f, NotInstr(NewHandle(funcs[f]), v), funcs[f].values[v].type)

cow_builder_load(f, addr, t) == EmitValue(f, LoadInstr(NewHandle(funcs[f]), addr, t), t)

cow_builder_store(f, addr, v)     == Emit(f, StoreInstr(addr, v))
cow_builder_br(f, b)              == Emit(f, BrInstr(b))
cow_builder_cond_br(f, c, yes, no) == Emit(f, CondBrInstr(c, yes, no))
cow_builder_ret(f, v)             == Emit(f, RetInstr(v))
cow_builder_ret_void(f)           == Emit(f, RetVoidInstr)

\* The instruction keeps the pointer to the client's array.
cow_builder_call_ptr(f, t, p, array) ==
  EmitValue(f, CallPtrInstr(NewHandle(funcs[f]), p, array), t)
cow_builder_call_func(f, callee, array) ==
  EmitValue(f, CallFuncInstr(NewHandle(funcs[f]), callee, array), funcs[callee].return_type)

\* The client allocates an array of arguments for calls of function f, and
\* may write it again, before or after a call that it was passed to.
FillArray(array, f, handles) ==
  /\ \/ arrays[array].func = 0
     \/ arrays[array].func = f /\ Len(arrays[array].handles) = Len(handles)
  /\ arrays' = [arrays EXCEPT ![array] = [func |-> f, handles |-> handles]]
  /\ UNCHANGED funcs
----------------------------------------------------------------------------
Init == funcs = <<>> /\ arrays = [a \in Arrays |-> [func |-> 0, handles |-> <<>>]]

BlockIds(f) == DOMAIN funcs[f].blocks
ValueIds(f) == Handles(funcs[f])

\* The instructions that read no value, and those that read one or two.
BuildPlain(f) ==
  \/ \E c \in Constants : add_const_instr(f, c)
  \/ \E b \in BlockIds(f) : cow_builder_br(f, b)
  \/ cow_builder_ret_void(f)

BuildOn(f, v) ==
  \/ cow_builder_not(f, v)
  \/ cow_builder_ret(f, v)
  \/ \E op \in Operations, right \in ValueIds(f) : add_op_instr(f, op, v, right)
  \/ \E t \in Types : cow_builder_load(f, v, t)
  \/ \E stored \in ValueIds(f) : cow_builder_store(f, v, stored)
  \/ \E yes, no \in BlockIds(f) : cow_builder_cond_br(f, v, yes, no)
  \/ \E t \in Types, a \in Arrays : arrays[a].func = f /\ cow_builder_call_ptr(f, t, v, a)

Next ==
  \/ \E name \in Names, args \in ArgLists, t \in Types : cow_create_func(name, args, t)
  \/ \E f \in DOMAIN funcs : cow_builder_create_block(f)
  \/ \E f \in DOMAIN funcs : \E b \in BlockIds(f) : cow_builder_set_current_block(f, b)
  \/ \E f \in DOMAIN funcs : BuildPlain(f)
  \/ \E f \in DOMAIN funcs : \E v \in ValueIds(f) : BuildOn(f, v)
  \/ \E f, callee \in DOMAIN funcs, a \in Arrays :
       arrays[a].func = f /\ cow_builder_call_func(f, callee, a)
  \/ \E f \in DOMAIN funcs, a \in Arrays, n \in 0 .. MaxArgs :
       \E handles \in [1 .. n -> ValueIds(f)] : FillArray(a, f, handles)

Spec == Init /\ [][Next]_vars
----------------------------------------------------------------------------
(***************************************************************************)
(* The program that the interpreter and the code generator find when they  *)
(* follow the pointers: ids for handles, values for argument arrays.       *)
(***************************************************************************)
Id(fn, h) == IF h = Unset THEN Unset ELSE fn.values[h].id

Calls == {"CALL_PTR", "CALL_FUNC"}

Followed(fn, i) ==
  [i EXCEPT !.gen = Id(fn, @), !.left = Id(fn, @), !.right = Id(fn, @),
            !.args = IF i.op \in Calls
                     THEN [k \in DOMAIN arrays[@].handles |-> Id(fn, arrays[i.args].handles[k])]
                     ELSE <<>>]

Built(fn) ==
  [name |-> fn.name, args_count |-> fn.args_count, return_type |-> fn.return_type,
   values |-> [h \in Handles(fn) |-> fn.values[h].type],
   blocks |-> [b \in DOMAIN fn.blocks |->
                [j \in DOMAIN fn.blocks[b] |-> Followed(fn, fn.blocks[b][j])]]]

Program == [f \in DOMAIN funcs |-> Built(funcs[f])]

(***************************************************************************)
(* What the builder builds from its own handles is always a program that   *)
(* the interpreter can index: every id is below values.size, every branch  *)
(* and call goes somewhere.                                                *)
(***************************************************************************)
BuildsWellFormed == WellFormed(Program)

\* The instructions that generate value h: their blocks and places.
Definitions(fn, h) ==
  UNION {{<<b, j>> : j \in {j \in DOMAIN fn.blocks[b] : fn.blocks[b][j].gen = h}} : b \in DOMAIN fn.blocks}

(***************************************************************************)
(* Every value of a function but its arguments is the gen_value of exactly *)
(* one instruction, in whichever block was current, and no two values have *)
(* one id: no two instructions write one register.                         *)
(***************************************************************************)
OneDefinition ==
  \A f \in DOMAIN funcs : LET fn == funcs[f] IN
    \A h \in Handles(fn) :
      /\ Cardinality(Definitions(fn, h)) = (IF h <= fn.args_count THEN 0 ELSE 1)
      /\ \A g \in Handles(fn) : g # h => fn.values[g].id # fn.values[h].id

\* The step keeps what there was, but for calls whose array it writes.
AddsOnly ==
  LET old == Program new == Program' IN
  \A f \in DOMAIN funcs :
    /\ \A b \in DOMAIN funcs[f].blocks : \A j \in DOMAIN funcs[f].blocks[b] :
         LET i == funcs[f].blocks[b][j] IN
         \/ new[f].blocks[b][j] = old[f].blocks[b][j]
         \/ i.op \in Calls /\ UNCHANGED funcs /\ arrays'[i.args] # arrays[i.args]
    /\ \A h \in Handles(funcs[f]) : new[f].values[h] = old[f].values[h]
    /\ \A name \in Names : Found(old, name, f) => Found(new, name, f)

(***************************************************************************)
(* Building only adds.  No call of the API changes the meaning of an       *)
(* instruction or the type of a value that was built before, or what       *)
(* function a name finds; only the client's writing to an array of call    *)
(* arguments, to which the instruction points, does.                       *)
(***************************************************************************)
OnlyAdds == [][AddsOnly]_vars
=============================================================================
