---------------------------- MODULE CowX86Machine ----------------------------
(***************************************************************************)
(* The processor, as far as generated code uses it, and what such code may *)
(* call: how bytes are read as instructions and what these do.  Nothing    *)
(* here is part of CowVM; it is what the generator's output means.         *)
(*                                                                         *)
(* Words and widths are those of CowEval.  A number of eight bytes is a    *)
(* word as a whole.  Floating-point arithmetic is decoded, not executed.   *)
(***************************************************************************)
EXTENDS CowX86Encoding, CowEval, SequencesExt, FiniteSetsExt

CONSTANTS
  CodeAddr,  \* CodeAddr[f]: the word that is the address of function f's code
  Extern,    \* the words that are addresses of functions outside the module
  Clobber    \* what a function outside the module leaves in a volatile register

----------------------------------------------------------------------------
\* The byte at offset p of a code, if it is known, and otherwise -1: the higher
\* bytes of a number that fits into one are zero.
ByteAt(code, p) ==
  IF p + 1 \notin DOMAIN code \/ code[p + 1][1] \notin 0 .. 255 THEN -1
  ELSE IF code[p + 1][2] = 0 THEN code[p + 1][1] ELSE 0

\* Whether n bytes at p are those of one number, and which.
IsNumber(code, p, n) ==
  /\ p + n <= Len(code)
  /\ \A k \in 1 .. n : code[p + k] = <<code[p + 1][1], k - 1>>
NumberAt(code, p) == code[p + 1][1]

IsRex(byte) == byte \in \h40 .. \h4F

(***************************************************************************)
(* The prefixes of the instruction at p: 66, then REX.  A REX byte before  *)
(* another prefix has no effect.  at is where the opcode is.               *)
(***************************************************************************)
PrefixStart(code, p) == IF IsRex(ByteAt(code, p)) /\ ByteAt(code, p + 1) = \h66 THEN p + 1 ELSE p
HasSize(code, p)     == ByteAt(code, PrefixStart(code, p)) = \h66
RexPlace(code, p)    == IF HasSize(code, p) THEN PrefixStart(code, p) + 1 ELSE PrefixStart(code, p)
RexBits(byte)        == IF IsRex(byte) THEN byte - \h40 ELSE 0

PrefixesAt(code, p) ==
  LET q   == RexPlace(code, p)
      rex == RexBits(ByteAt(code, q))
  IN  [size |-> HasSize(code, p),
       w |-> Bit(rex, 8) = 1, r |-> 8 * Bit(rex, 4), b |-> 8 * Bit(rex, 1),
       at |-> IF IsRex(ByteAt(code, q)) THEN q + 1 ELSE q]

Undefined == [op |-> "undefined", wide |-> FALSE, reg |-> 0, rm |-> 0, imm |-> 0, len |-> 0]
Instruction(op, wide, reg, rm, imm, len) ==
  [op |-> op, wide |-> wide, reg |-> reg, rm |-> rm, imm |-> imm, len |-> len]

\* The operations of opcode groups, by the extension in ModR/M's reg field, and
\* of the SSE opcodes.
Group83  == [k \in {0, 5, 7} |-> CASE k = 0 -> "add_imm" [] k = 5 -> "sub_imm" [] k = 7 -> "cmp_imm"]
GroupF7  == [k \in {6, 7} |-> IF k = 6 THEN "div" ELSE "idiv"]
GroupFF  == [k \in {2} |-> "call"]
SseOps   == {\h58, \h59, \h5C, \h5E}
Packed   == [op \in SseOps |-> CASE op = \h58 -> "addps" [] op = \h59 -> "mulps"
                               [] op = \h5C -> "subps" [] op = \h5E -> "divps"]
PackedDouble == [op \in SseOps |-> CASE op = \h58 -> "addpd" [] op = \h59 -> "mulpd"
                                     [] op = \h5C -> "subpd" [] op = \h5E -> "divpd"]

\* An instruction with a ModR/M byte at p: between registers (mod 3), or
\* through the address in a register (mod 0); rm 4 and 5 mean something else.
WithModRM(code, x, p, direct, through) ==
  LET byte == ByteAt(code, p)
      mod  == byte \div 64
      reg  == ((byte \div 8) % 8) + x.r
      rm   == (byte % 8) + x.b
  IN  CASE byte = -1 -> Undefined
        [] mod = 3 /\ direct # "none" -> Instruction(direct, x.w, reg, rm, 0, p + 1)
        [] mod = 0 /\ through # "none" /\ rm % 8 \notin {4, 5} ->
             Instruction(through, x.w, reg, rm, 0, p + 1)
        [] mod = 0 /\ through # "none" /\ rm % 8 = 4 /\ ByteAt(code, p + 1) = \h24 ->
             Instruction(through, x.w, reg, RSP, 0, p + 2)
        [] OTHER -> Undefined

\* The same when ModR/M's reg field selects one of a group of operations.
InGroup(code, x, p, ops) ==
  LET i == WithModRM(code, x, p, "group", "none")
      k == i.reg % 8
  IN  IF i.op = "group" /\ k \in DOMAIN ops THEN Instruction(ops[k], i.wide, 0, i.rm, i.imm, i.len) ELSE Undefined

WithImm(i, imm, n) ==
  IF i.op = "undefined" THEN i ELSE Instruction(i.op, i.wide, i.reg, i.rm, imm, i.len + n)

\* The two-byte opcodes, 0F and the byte at p.
DecodeEscape(code, x, p) ==
  LET op == ByteAt(code, p)
  IN  CASE op = \h84 /\ IsNumber(code, p + 1, 4) ->
             Instruction("jz", FALSE, 0, 0, NumberAt(code, p + 1), p + 5)
        [] op = \h28 /\ ~x.size -> WithModRM(code, x, p + 1, "movaps", "movaps_load")
        [] op = \h29 /\ ~x.size -> WithModRM(code, x, p + 1, "none", "movaps_store")
        [] op \in SseOps -> WithModRM(code, x, p + 1, IF x.size THEN PackedDouble[op] ELSE Packed[op], "none")
        [] op = \h6E /\ x.size /\ x.w -> WithModRM(code, x, p + 1, "movq_to_xmm", "none")
        [] op = \h7E /\ x.size /\ x.w -> WithModRM(code, x, p + 1, "movq_from_xmm", "none")
        [] OTHER -> Undefined

\* The instruction with prefixes x and the opcode op, what follows it being at q.
DecodeOpcode(code, x, op, q) ==
  CASE op \in \h50 .. \h57 -> Instruction("push", TRUE, 0, op - \h50 + x.b, 0, q)
    [] op \in \h58 .. \h5F -> Instruction("pop", TRUE, 0, op - \h58 + x.b, 0, q)
    [] op \in \hB8 .. \hBF /\ x.w /\ IsNumber(code, q, 8) ->
         Instruction("mov_imm", TRUE, 0, op - \hB8 + x.b, NumberAt(code, q), q + 8)
    [] op = \h89 -> WithModRM(code, x, q, "mov", "store")
    [] op = \h8B -> WithModRM(code, x, q, "none", "load")
    [] op = \h01 -> WithModRM(code, x, q, "add", "none")
    [] op = \h29 -> WithModRM(code, x, q, "sub", "none")
    [] op = \hF7 -> InGroup(code, x, q, GroupF7)
    [] op = \h83 /\ ByteAt(code, q + 1) # -1 ->
         WithImm(InGroup(code, x, q, Group83), ByteAt(code, q + 1), 1)
    [] op = \hFF -> InGroup(code, x, q, GroupFF)
    [] op = \hE9 /\ IsNumber(code, q, 4) ->
         Instruction("jmp", FALSE, 0, 0, NumberAt(code, q), q + 4)
    [] op = \hC3 -> Instruction("ret", FALSE, 0, 0, 0, q)
    [] op = \h0F -> DecodeEscape(code, x, q)
    [] OTHER -> Undefined

\* The instruction at p; its len is where the next one begins.
Decode(code, p) ==
  LET x == PrefixesAt(code, p) IN DecodeOpcode(code, x, ByteAt(code, x.at), x.at + 1)
----------------------------------------------------------------------------
(***************************************************************************)
(* The machine's state is a record: rip is <<function, offset>>, stack     *)
(* holds the 8-byte slots pushed, the last on top: <<0, w>> is a word,     *)
(* anything else a return address.  received lists the register arguments  *)
(* that calls out of the module passed.                                    *)
(***************************************************************************)
ToCaller == <<-1, 0>>
Slot(w)  == <<0, w>>

Enter(f, regs, xmm, memory) ==
  [rip |-> <<f, 0>>, regs |-> regs, xmm |-> xmm, stack |-> <<ToCaller>>,
   memory |-> memory, zero |-> FALSE, received |-> <<>>, status |-> "running"]

\* The registers that a called function may change, and that pass arguments, in
\* the Windows convention that gen.c:61 follows.
Volatile     == {RAX, RCX, RDX, R8, R9, 10, 11}
VolatileXmm  == 0 .. 5
ConventionInt == <<RCX, RDX, R8, R9>>
ConventionXmm == <<0, 1, 2, 3>>

ExternCall(m) ==
  [m EXCEPT !.received = Append(@, [ints  |-> [k \in 1 .. 4 |-> m.regs[ConventionInt[k]]],
                                    xmms  |-> [k \in 1 .. 4 |-> m.xmm[ConventionXmm[k]]]]),
            !.regs = [r \in Registers |-> IF r \in Volatile THEN Clobber ELSE @[r]],
            !.xmm  = [r \in Registers |-> IF r \in VolatileXmm THEN Clobber ELSE @[r]]]

Call(m, address) ==
  IF \E f \in DOMAIN CodeAddr : CodeAddr[f] = address
  THEN [m EXCEPT !.stack = Append(@, m.rip),
                 !.rip = <<CHOOSE f \in DOMAIN CodeAddr : CodeAddr[f] = address, 0>>]
  ELSE IF address \in Extern THEN ExternCall(m)
  ELSE [m EXCEPT !.status = "wild"]

Ret(m) ==
  LET to == Last(m.stack)
      popped == [m EXCEPT !.stack = Front(@)]
  IN  IF m.stack = <<>> \/ to[1] = 0 THEN [m EXCEPT !.status = "wild"]
      ELSE IF to = ToCaller THEN [popped EXCEPT !.status = "returned"]
      ELSE [popped EXCEPT !.rip = to]

Full64 == Span["i64"]
Full32 == Span["i32"]

\* rsp is only moved by whole slots; what a subtraction uncovers is not a value.
Reserve(stack, n) == stack \o [k \in 1 .. n |-> Slot(Clobber)]
Release(stack, n) == SubSeq(stack, 1, Len(stack) - n)

\* The step that instruction i makes; m.rip is already behind it.
Executed(m, i) ==
  LET Set(r, w) == [m EXCEPT !.regs[r] = w]
      Wild      == [m EXCEPT !.status = "wild"]
      width     == IF i.wide THEN Full64 ELSE Full32
      Jump      == [m EXCEPT !.rip[2] = @ + i.imm]
  IN  CASE i.op = "push"    -> [m EXCEPT !.stack = Append(@, Slot(m.regs[i.rm]))]
        [] i.op = "pop"     -> IF m.stack = <<>> \/ Last(m.stack)[1] # 0 THEN Wild
                               ELSE [Set(i.rm, Last(m.stack)[2]) EXCEPT !.stack = Front(@)]
        [] i.op = "mov_imm" -> Set(i.rm, i.imm % Full64)
        [] i.op = "mov"     -> Set(i.rm, m.regs[i.reg])
        [] i.op = "add"     -> Set(i.rm, (m.regs[i.rm] + m.regs[i.reg]) % width)
        [] i.op = "load"    -> IF m.regs[i.rm] \in DOMAIN m.memory
                               THEN Set(i.reg, m.memory[m.regs[i.rm]]) ELSE Wild
        [] i.op = "store"   -> IF m.regs[i.rm] \in DOMAIN m.memory
                               THEN [m EXCEPT !.memory[m.regs[i.rm]] = m.regs[i.reg]] ELSE Wild
        [] i.op = "cmp_imm" -> [m EXCEPT !.zero = (m.regs[i.rm] = i.imm)]
        [] i.op = "jz"      -> IF m.zero THEN Jump ELSE m
        [] i.op = "jmp"     -> Jump
        [] i.op = "call"    -> Call(m, m.regs[i.rm])
        [] i.op = "ret"     -> Ret(m)
        [] i.op = "sub_imm" /\ i.rm = RSP -> [m EXCEPT !.stack = Reserve(@, i.imm \div 8)]
        [] i.op = "add_imm" /\ i.rm = RSP -> [m EXCEPT !.stack = Release(@, i.imm \div 8)]
        [] i.op = "movaps"  -> [m EXCEPT !.xmm[i.reg] = m.xmm[i.rm]]
        [] i.op = "movq_to_xmm" -> [m EXCEPT !.xmm[i.reg] = m.regs[i.rm]]
        [] OTHER -> Wild

Step(code, m) ==
  LET i == Decode(code[m.rip[1]], m.rip[2])
  IN  IF m.status # "running" THEN m
      ELSE IF i.op = "undefined" THEN [m EXCEPT !.status = "wild"]
      ELSE Executed([m EXCEPT !.rip[2] = i.len], i)

\* The machine when it first reaches one of the places, or after Fuel steps.
Fuel == 24
Run(code, m, places) ==
  FoldLeft(LAMBDA s, k : IF s.rip \in places THEN s ELSE Step(code, s), m, [k \in 1 .. Fuel |-> k])
=============================================================================
