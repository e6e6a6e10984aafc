---------------------------- MODULE CowX86Meaning ----------------------------
(***************************************************************************)
(* What the write_* functions are for, and the operands for which they     *)
(* write it.  A function's byte writer takes any calls of them one after   *)
(* another; the processor's decoder then reads the bytes back, one         *)
(* instruction at a time.                                                  *)
(*                                                                         *)
(* Most functions mask a register's number, or do not, but set no bit of a *)
(* prefix for it, so that the last eight registers become others.          *)
(***************************************************************************)
EXTENDS CowX86Machine

CONSTANT Operands  \* Operands[k]: the register numbers that the k-th call may get

VARIABLES
  calls,  \* the calls made
  meant,  \* history: the instructions that they ask for
  code,   \* the bytes written
  at,     \* the offset of the next byte read
  seen    \* the instructions read

vars == <<calls, meant, code, at, seen>>

ASSUME OperandsAssumption == Operands \in Seq(SUBSET Registers)

Word64 == 7

\* The functions of two registers, of one, and of none: what each one writes.
Binary(a, b) ==
  [mov_reg_to_mem |-> write_mov_reg_to_mem(a, b), mov_mem_to_reg |-> write_mov_mem_to_reg(a, b),
   mov_reg_to_reg |-> write_mov_reg_to_reg(a, b), mov_xmm_to_xmm |-> write_mov_xmm_to_xmm(a, b),
   mov_reg_to_xmm |-> write_mov_reg_to_xmm(a, b), move_xmm_to_reg |-> write_move_xmm_to_reg(a, b),
   add |-> write_add_reg_to_reg(a, b), sub |-> write_sub_reg_to_reg(a, b),
   mod |-> write_mod_reg_to_reg(a, b), add_xmm |-> write_add_xmm_to_xmm(a, b),
   sub_xmm |-> write_sub_reg_to_reg_xmm(a, b), mul_xmm |-> write_mul_reg_to_reg_xmm(a, b),
   div_xmm |-> write_div_reg_to_reg_xmm(a, b)]
Unary(a) ==
  [push_reg |-> write_push_reg(a), pop_reg |-> write_pop_reg(a),
   push_xmm |-> write_push_xmm(a), pop_xmm |-> write_pop_xmm(a),
   mov_reg_int64 |-> write_mov_reg_int64(a, Word64), mov_xmm_f64 |-> write_mov_xmm_f64(a, Word64),
   div |-> write_div_reg(a), cond_jmp |-> write_cond_jmp(a), call_indirect |-> write_call_indirect(a)]
Nullary ==
  [push_shadow |-> push_shadow, pop_shadow |-> pop_shadow, jmp |-> write_jmp,
   call_direct |-> write_call_direct, ret |-> write_ret]

\* An instruction without its length and width: operation, ModR/M's reg, its rm,
\* and the number.
I(op, reg, rm, imm) == <<op, reg, rm, imm>>

\* The instructions that a call asks for, in the names and comments of gen.c; an
\* rsp is neither pushed nor popped, and nothing is moved to itself.  For the
\* arithmetic on xmm registers the names do not say which of the packed
\* operations is meant: there it is the one that the opcode byte stands for.
Meant(c) ==
  LET a == c.a
      b == c.b
  IN  CASE c.fn = "mov_reg_to_mem"  -> <<I("store", a, b, 0)>>
        [] c.fn = "mov_mem_to_reg"  -> <<I("load", b, a, 0)>>
        [] c.fn = "mov_reg_to_reg"  -> IF a = b THEN <<>> ELSE <<I("mov", a, b, 0)>>
        [] c.fn = "mov_xmm_to_xmm"  -> IF a = b THEN <<>> ELSE <<I("movaps", b, a, 0)>>
        [] c.fn = "mov_reg_to_xmm"  -> <<I("movq_to_xmm", b, a, 0)>>
        [] c.fn = "move_xmm_to_reg" -> <<I("movq_from_xmm", a, b, 0)>>
        [] c.fn \in {"add", "sub"}  -> <<I(c.fn, b, a, 0)>>
        [] c.fn = "mod"             -> <<I("idiv", 0, b, 0)>>
        [] c.fn = "add_xmm"         -> <<I("addpd", a, b, 0)>>
        [] c.fn = "sub_xmm"         -> <<I("subps", a, b, 0)>>
        [] c.fn = "mul_xmm"         -> <<I("mulps", a, b, 0)>>
        [] c.fn = "div_xmm"         -> <<I("divps", a, b, 0)>>
        [] c.fn = "push_reg"        -> IF a = RSP THEN <<>> ELSE <<I("push", 0, a, 0)>>
        [] c.fn = "pop_reg"         -> IF a = RSP THEN <<>> ELSE <<I("pop", 0, a, 0)>>
        [] c.fn = "push_xmm"        -> <<I("sub_imm", 0, RSP, 16), I("movaps_store", a, RSP, 0)>>
        [] c.fn = "pop_xmm"         -> <<I("movaps_load", a, RSP, 0), I("add_imm", 0, RSP, 16)>>
        [] c.fn = "mov_reg_int64"   -> <<I("mov_imm", 0, a, Word64)>>
        [] c.fn = "mov_xmm_f64"     -> <<I("mov_imm", 0, RAX, Word64), I("movq_to_xmm", a, RAX, 0)>>
        [] c.fn = "div"             -> <<I("div", 0, a, 0)>>
        [] c.fn = "cond_jmp"        -> <<I("cmp_imm", 0, a, 0), I("jz", 0, 0, 0)>>
        [] c.fn = "call_indirect"   -> <<I("call", 0, a, 0)>>
        [] c.fn = "push_shadow"     -> <<I("sub_imm", 0, RSP, 32)>>
        [] c.fn = "pop_shadow"      -> <<I("add_imm", 0, RSP, 32)>>
        [] c.fn = "jmp"             -> <<I("jmp", 0, 0, 0)>>
        [] c.fn = "call_direct"     -> <<I("mov_imm", 0, RAX, 0), I("call", 0, RAX, 0)>>
        [] c.fn = "ret"             -> <<I("ret", 0, 0, 0)>>

Writing == Len(calls) < Len(Operands)
Numbers == Operands[Len(calls) + 1]

Write(fn, a, b, bytes) ==
  LET c == [fn |-> fn, a |-> a, b |-> b]
  IN  /\ calls' = Append(calls, c)
      /\ meant' = meant \o Meant(c)
      /\ code' = code \o bytes
      /\ UNCHANGED <<at, seen>>

Init == calls = <<>> /\ meant = <<>> /\ code = <<>> /\ at = 0 /\ seen = <<>>

WriteBinary ==
  /\ Writing
  /\ \E a, b \in Numbers : LET wrote == Binary(a, b) IN
       \E fn \in DOMAIN wrote : Write(fn, a, b, wrote[fn])
WriteUnary ==
  /\ Writing
  /\ \E a \in Numbers : LET wrote == Unary(a) IN
       \E fn \in DOMAIN wrote : Write(fn, a, 0, wrote[fn])
WriteNullary ==
  /\ Writing
  /\ \E fn \in DOMAIN Nullary : Write(fn, 0, 0, Nullary[fn])

\* What cannot be read ends the reading.
Read ==
  /\ ~Writing /\ at < Len(code)
  /\ LET i == Decode(code, at) IN
       /\ seen' = Append(seen, I(i.op, i.reg, i.rm, i.imm))
       /\ at' = IF i.op = "undefined" THEN Len(code) ELSE i.len
  /\ UNCHANGED <<calls, meant, code>>

Finished == ~Writing /\ at >= Len(code)
Done     == Finished /\ UNCHANGED vars

Next == WriteBinary \/ WriteUnary \/ WriteNullary \/ Read \/ Done
Spec == Init /\ [][Next]_vars
----------------------------------------------------------------------------
\* The calls whose operands their function can encode.
Encodable(c) ==
  CASE c.fn \in {"mov_reg_to_reg", "mov_xmm_to_xmm", "push_reg"} \cup DOMAIN Nullary -> TRUE
    [] c.fn \in {"push_xmm", "pop_xmm"} -> FALSE
    [] c.fn = "pop_reg" -> c.a # RSI
    [] c.fn \in {"sub_xmm", "mul_xmm", "div_xmm", "mod"} -> c.b < 8
    [] c.fn = "mov_reg_to_mem" -> c.a < 8 /\ c.b < 8 /\ c.b \notin {RSP, RBP}
    [] c.fn = "mov_mem_to_reg" -> c.a < 8 /\ c.b < 8 /\ c.a \notin {RSP, RBP}
    [] OTHER -> c.a < 8 /\ c.b < 8

(***************************************************************************)
(* The bytes written mean what their functions are for exactly if every    *)
(* call's operands are ones that the function can encode: for the last     *)
(* eight registers, for rsi's pop and for rsp and rbp as addresses most    *)
(* write other instructions, which no instruction after them repairs.      *)
(***************************************************************************)
BytesMeanCalls ==
  Finished => (seen = meant <=> \A k \in DOMAIN calls : Encodable(calls[k]))
=============================================================================
