--------------------------- MODULE CowX86Encoding ---------------------------
(***************************************************************************)
(* The write_* functions of the x86-64 generator: the bytes that each one  *)
(* appends to the function's byte writer, from its operands' numbers.      *)
(*                                                                         *)
(* As in CowByteWriter a byte is a pair <<v, k>>, byte k of the number v   *)
(* that was written; an opcode, prefix or ModR/M byte v is <<v, 0>>.       *)
(***************************************************************************)
EXTENDS Integers, Sequences

\* The registers' numbers (gen.c calls 6 RDI and 7 RSI, Intel the reverse; only
\* the numbers reach the code).
RAX == 0
RCX == 1
RDX == 2
RBX == 3
RSP == 4
RBP == 5
RDI == 6
RSI == 7
R8  == 8
R9  == 9
XMM0 == 0
Registers == 0 .. 15

Opcode(bytes) == [k \in DOMAIN bytes |-> <<bytes[k], 0>>]
Number(v, n)  == [k \in 1 .. n |-> <<v, k - 1>>]

\* The bit of weight w, and C's & and | on bytes, for operands whose bits may
\* overlap.
Bit(n, w) == (n \div w) % 2
And(a, b) ==
  LET both(w) == IF Bit(a, w) = 1 /\ Bit(b, w) = 1 THEN w ELSE 0
  IN  both(1) + both(2) + both(4) + both(8) + both(16) + both(32) + both(64) + both(128)
Or(a, b)  == a + b - And(a, b)

Low(reg)  == reg % 8
High(reg) == reg \div 8

\* A ModR/M byte put together from operands whose high bit was masked off, or not.
ModRM(mod, reg, rm)       == 64 * mod + 8 * Low(reg) + Low(rm)
ModRMUnmasked(mod, reg, rm) == Or(Or(64 * mod, 8 * reg), rm)
----------------------------------------------------------------------------
push_shadow == Opcode(<<\h48, \h83, \hEC, \h20>>)
pop_shadow  == Opcode(<<\h48, \h83, \hC4, \h20>>)

\* The ModR/M byte 04 | xmm << 3 announces a SIB byte, which is not written.
write_push_xmm(xmm) ==
  Opcode(<<\h48, \h83, \hEC, \h10>>) \o Opcode(<<\h48, \h0F, \h29, Or(\h04, 8 * xmm)>>)
write_pop_xmm(xmm) ==
  Opcode(<<\h48, \h0F, \h28, Or(\h04, 8 * xmm)>>) \o Opcode(<<\h48, \h83, \hC4, \h10>>)

write_push_reg(reg) ==
  IF reg = RSP THEN <<>>
  ELSE IF reg < R8 THEN Opcode(<<\h50 + reg>>)
  ELSE Opcode(<<\h41, \h50 + reg - R8>>)

write_pop_reg(reg) ==
  IF reg = RSP THEN <<>>
  ELSE IF reg <= RDI THEN Opcode(<<\h58 + reg>>)
  ELSE Opcode(<<\h41, \h58 + reg - R8>>)

\* Mutant: the constant's register is not put into the opcode.
WriteMovToRax(reg, v)      == Opcode(<<\h48, \hB8>>) \o Number(v, 8)
write_mov_reg_int64(reg, v) == Opcode(<<\h48, \hB8 + Low(reg)>>) \o Number(v, 8)

write_mov_reg_to_mem(src, dst) == Opcode(<<\h48, \h89, ModRM(0, src, dst)>>)
write_mov_mem_to_reg(src, dst) == Opcode(<<\h48, \h8B, ModRM(0, dst, src)>>)

\* Mutant: REX.R and REX.B exchanged.
WriteMovRexSwapped(src, dest) ==
  IF src = dest THEN <<>>
  ELSE Opcode(<<\h48 + High(src) + 4 * High(dest), \h89, ModRM(3, src, dest)>>)
write_mov_reg_to_reg(src, dest) ==
  IF src = dest THEN <<>>
  ELSE Opcode(<<\h48 + 4 * High(src) + High(dest), \h89, ModRM(3, src, dest)>>)

write_mov_xmm_to_xmm(src, dest) ==
  IF src = dest THEN <<>>
  ELSE (IF src >= 8 \/ dest >= 8 THEN Opcode(<<\h40 + 4 * High(dest) + High(src)>>) ELSE <<>>)
       \o Opcode(<<\h0F, \h28, ModRM(3, dest, src)>>)

write_mov_reg_to_xmm(src, xmm)  == Opcode(<<\h66, \h48, \h0F, \h6E, ModRM(3, xmm, src)>>)
write_move_xmm_to_reg(xmm, reg) == Opcode(<<\h66, \h48, \h0F, \h7E, ModRM(3, xmm, reg)>>)
write_mov_xmm_f64(xmm, v) == write_mov_reg_int64(RAX, v) \o write_mov_reg_to_xmm(RAX, xmm)

write_add_reg_to_reg(left, right) == Opcode(<<\h01, ModRMUnmasked(3, right, left)>>)
write_sub_reg_to_reg(left, right) == Opcode(<<\h29, ModRMUnmasked(3, right, left)>>)
write_div_reg(reg)                == Opcode(<<\hF7, ModRMUnmasked(3, 6, reg)>>)
write_mod_reg_to_reg(left, right) == Opcode(<<\hF7, ModRMUnmasked(3, 7, right)>>)

\* The REX prefix comes before the 66 prefix, where the processor ignores it.
write_add_xmm_to_xmm(xmm1, xmm2) ==
  Opcode(<<\h40 + 4 * High(xmm1) + High(xmm2), \h66, \h0F, \h58, ModRM(3, xmm1, xmm2)>>)

\* The three others share their shape: REX.W instead of REX.B for xmm2, and a
\* ModR/M byte whose fields overlap from XMM8 on.
XmmOperation(opcode, xmm1, xmm2) ==
  (IF xmm1 >= 8 \/ xmm2 >= 8 THEN Opcode(<<\h40 + 4 * High(xmm1) + 8 * High(xmm2)>>) ELSE <<>>)
  \o Opcode(<<\h0F, opcode, ModRMUnmasked(3, xmm1, xmm2)>>)
write_sub_reg_to_reg_xmm(xmm1, xmm2) == XmmOperation(\h5C, xmm1, xmm2)
write_mul_reg_to_reg_xmm(xmm1, xmm2) == XmmOperation(\h59, xmm1, xmm2)
write_div_reg_to_reg_xmm(xmm1, xmm2) == XmmOperation(\h5E, xmm1, xmm2)

\* The displacement, the last four bytes, is filled in later.
write_jmp == Opcode(<<\hE9>>) \o Number(0, 4)

\* Mutant: jump if not zero.
WriteCondJmpNotZero(reg) ==
  Opcode(<<\h48, \h83, \hF8 + Low(reg), \h00>>) \o (Opcode(<<\h0F, \h85>>) \o Number(0, 4))
write_cond_jmp(reg) ==
  Opcode(<<\h48, \h83, \hF8 + Low(reg), \h00>>) \o (Opcode(<<\h0F, \h84>>) \o Number(0, 4))

\* F8 | reg and D0 | reg: the low bits of both are clear.
write_call_indirect(reg) == Opcode(<<\h48, \hFF, \hD0 + Low(reg)>>)

\* The address, filled in by cow_module_jit, starts CallAddress bytes in.
write_call_direct == write_mov_reg_int64(RAX, 0) \o write_call_indirect(RAX)
CallAddress == 2

write_ret == Opcode(<<\hC3>>)
=============================================================================
