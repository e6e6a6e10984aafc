------------------------------- MODULE CowIR -------------------------------
(***************************************************************************)
(* The intermediate representation that the builder produces and that the  *)
(* interpreter and the code generator read: modules, functions, blocks,    *)
(* instructions and values.                                                *)
(*                                                                         *)
(* A pointer to a function is its index in module->funcs, a pointer to a   *)
(* block its index in builder.blocks (both from 1, 0 is NULL), a CowValue  *)
(* is its id, which the builder makes its index in builder.values (from 0, *)
(* as in the code).  builder.values is the sequence of the values' types.  *)
(***************************************************************************)
EXTENDS Integers, Sequences

DataTypes == {"void", "i64", "i32", "i16", "i8", "f64", "f32", "ptr"}

ConstOps   == {"CONST_I64", "CONST_I32", "CONST_I16", "CONST_I8", "CONST_PTR"}
ArithOps   == {"ADD", "SUB", "MUL"}
DivideOps  == {"DIV", "IDIV"}
CompareOps == {"EQ", "DIFF", "LARGER", "LARGER_EQ", "SMALLER", "SMALLER_EQ"}
BinaryOps  == ArithOps \cup DivideOps \cup CompareOps

Opcodes == ConstOps \cup BinaryOps \cup
           {"NOT", "LOAD", "STORE", "BR", "COND_BR",
            "CALL_PTR", "CALL_FUNC", "RET", "RET_VOID"}

\* The opcodes whose instruction is given a gen_value, and those that read a
\* first (left, addr, cond, func_ptr, returned) and a second operand.
GenOps   == Opcodes \ {"STORE", "BR", "COND_BR", "RET", "RET_VOID"}
LeftOps  == BinaryOps \cup {"NOT", "LOAD", "STORE", "COND_BR", "CALL_PTR", "RET"}
RightOps == BinaryOps \cup {"STORE"}

\* The id of a CowValue field that the instruction does not use.
Unset == -1

(***************************************************************************)
(* A CowInstr: the union of the C struct is flattened into one record.     *)
(* imm is const_value, left and right the operand values, yes and no the   *)
(* target blocks, args the call's argument values.                         *)
(***************************************************************************)
Instr == [op : Opcodes, gen : Int, left : Int, right : Int, imm : Nat,
          type : DataTypes, callee : Nat, args : Seq(Nat), yes : Nat, no : Nat]

BareInstr(op) == [op |-> op, gen |-> Unset, left |-> Unset, right |-> Unset,
                  imm |-> 0, type |-> "void", callee |-> 0, args |-> <<>>,
                  yes |-> 0, no |-> 0]

\* The instructions that the cow_builder_* functions allocate.
ConstInstr(op, gen, v)      == [BareInstr(op) EXCEPT !.gen = gen, !.imm = v]
OpInstr(op, gen, l, r)      == [BareInstr(op) EXCEPT !.gen = gen, !.left = l, !.right = r]
NotInstr(gen, v)            == [BareInstr("NOT") EXCEPT !.gen = gen, !.left = v]
LoadInstr(gen, addr, t)     == [BareInstr("LOAD") EXCEPT !.gen = gen, !.left = addr, !.type = t]
StoreInstr(addr, v)         == [BareInstr("STORE") EXCEPT !.left = addr, !.right = v]
BrInstr(b)                  == [BareInstr("BR") EXCEPT !.yes = b]
CondBrInstr(c, yes, no)     == [BareInstr("COND_BR") EXCEPT !.left = c, !.yes = yes, !.no = no]
CallPtrInstr(gen, p, args)  == [BareInstr("CALL_PTR") EXCEPT !.gen = gen, !.left = p, !.args = args]
CallFuncInstr(gen, f, args) == [BareInstr("CALL_FUNC") EXCEPT !.gen = gen, !.callee = f, !.args = args]
RetInstr(v)                 == [BareInstr("RET") EXCEPT !.left = v]
RetVoidInstr                == BareInstr("RET_VOID")

\* A _CowFunc as far as execution reads it: values is builder.values.
Function == [name : STRING, args_count : Nat, return_type : DataTypes,
             values : Seq(DataTypes), blocks : Seq(Seq(Instr))]

ValuesSize(fn) == Len(fn.values)
Ids(fn)        == 0 .. ValuesSize(fn) - 1
TypeOf(fn, id) == fn.values[id + 1]

(***************************************************************************)
(* What the builder guarantees of an instruction of function fn of program *)
(* p when its caller passes it values and blocks of fn and functions of p. *)
(***************************************************************************)
InstrOK(p, fn, i) ==
  /\ i.op \in GenOps   => i.gen \in Ids(fn)
  /\ i.op \in LeftOps  => i.left \in Ids(fn)
  /\ i.op \in RightOps => i.right \in Ids(fn)
  /\ \A k \in DOMAIN i.args : i.args[k] \in Ids(fn)
  /\ i.op \in {"BR", "COND_BR"} => i.yes \in DOMAIN fn.blocks
  /\ i.op = "COND_BR"   => i.no \in DOMAIN fn.blocks
  /\ i.op = "CALL_FUNC" => i.callee \in DOMAIN p

FunctionOK(p, fn) ==
  /\ fn.args_count <= ValuesSize(fn)
  /\ fn.blocks # <<>>
  /\ \A b \in DOMAIN fn.blocks : \A j \in DOMAIN fn.blocks[b] :
       InstrOK(p, fn, fn.blocks[b][j])

WellFormed(p) ==
  /\ p \in Seq(Function)
  /\ \A f \in DOMAIN p : FunctionOK(p, p[f])

\* cow_find_function: f is the first function of that name.
Found(p, name, f) ==
  /\ f \in DOMAIN p /\ p[f].name = name
  /\ \A g \in 1 .. f - 1 : p[g].name # name
NotFound(p, name) == \A f \in DOMAIN p : p[f].name # name
=============================================================================
