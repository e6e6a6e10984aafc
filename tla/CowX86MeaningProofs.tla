------------------------- MODULE CowX86MeaningProofs -------------------------
(***************************************************************************)
(* The bytes of the write_* functions, read back by the processor: what    *)
(* prefixes, ModR/M and opcodes decode to; what each function's bytes are  *)
(* read as, wherever they stand; the chain that the bytes of all calls     *)
(* form; and reading it.                                                   *)
(***************************************************************************)
EXTENDS CowX86Meaning, SequenceTheorems, TLAPS

Codes == Seq(Int \X Int)

LEMMA ByteRange ==
  ASSUME NEW text \in Codes, NEW p \in Nat
  PROVE  ByteAt(text, p) \in -1 .. 255
BY DEF ByteAt, Codes

LEMMA ByteIs ==
  ASSUME NEW text \in Codes, NEW p \in Nat, NEW v \in 0 .. 255,
         p + 1 <= Len(text), text[p + 1] = <<v, 0>>
  PROVE  ByteAt(text, p) = v
BY DEF ByteAt, Codes

LEMMA ByteIsNot ==
  ASSUME NEW text \in Codes, NEW p \in Nat, p + 1 <= Len(text) => text[p + 1] # <<36, 0>>
  PROVE  ByteAt(text, p) # 36
BY DEF ByteAt, Codes

LEMMA Bits ==
  ASSUME NEW n \in 0 .. 15
  PROVE  Bit(n, 8) \in 0 .. 1 /\ Bit(n, 4) \in 0 .. 1 /\ Bit(n, 1) \in 0 .. 1
BY DEF Bit

\* The prefixes that the functions write: none, REX with bits n, REX.W, 66 with
\* REX.W, and 66 after a REX that has no effect.
X(size, w, r, b, p) == [size |-> size, w |-> w, r |-> r, b |-> b, at |-> p]
XPlain(p)   == X(FALSE, FALSE, 0, 0, p)
XRex(n, p)  == X(FALSE, Bit(n, 8) = 1, 8 * Bit(n, 4), 8 * Bit(n, 1), p)
XSized(p)   == X(TRUE, TRUE, 0, 0, p)
XIgnored(p) == X(TRUE, FALSE, 0, 0, p)

LEMMA XFields ==
  /\ \A p : XPlain(p).at = p /\ XPlain(p).size = FALSE /\ XPlain(p).r = 0 /\ XPlain(p).b = 0
  /\ \A n, p : /\ XRex(n, p).at = p /\ XRex(n, p).size = FALSE
               /\ XRex(n, p).r = 8 * Bit(n, 4) /\ XRex(n, p).b = 8 * Bit(n, 1)
  /\ \A p : XRex(8, p).w = TRUE /\ XRex(8, p).r = 0 /\ XRex(8, p).b = 0
  /\ \A p : XSized(p).at = p /\ XSized(p).size = TRUE /\ XSized(p).w = TRUE /\ XSized(p).r = 0 /\ XSized(p).b = 0
  /\ \A p : XIgnored(p).at = p /\ XIgnored(p).size = TRUE /\ XIgnored(p).r = 0 /\ XIgnored(p).b = 0
<1>1. \A p : XPlain(p).at = p /\ XPlain(p).size = FALSE /\ XPlain(p).r = 0 /\ XPlain(p).b = 0
  BY DEF XPlain, X
<1>2. \A n, p : /\ XRex(n, p).at = p /\ XRex(n, p).size = FALSE
                /\ XRex(n, p).r = 8 * Bit(n, 4) /\ XRex(n, p).b = 8 * Bit(n, 1)
  BY DEF XRex, X
<1>3. \A p : XRex(8, p).w = TRUE /\ XRex(8, p).r = 0 /\ XRex(8, p).b = 0
  <2>1. Bit(8, 8) = 1 /\ 8 * Bit(8, 4) = 0 /\ 8 * Bit(8, 1) = 0 BY DEF Bit
  <2> QED BY <2>1 DEF XRex, X
<1>4. \A p : XSized(p).at = p /\ XSized(p).size = TRUE /\ XSized(p).w = TRUE /\ XSized(p).r = 0 /\ XSized(p).b = 0
  BY DEF XSized, X
<1>5. \A p : XIgnored(p).at = p /\ XIgnored(p).size = TRUE /\ XIgnored(p).r = 0 /\ XIgnored(p).b = 0
  BY DEF XIgnored, X
<1> QED BY <1>1, <1>2, <1>3, <1>4, <1>5

LEMMA NoPrefix ==
  ASSUME NEW text, NEW p \in Nat, ByteAt(text, p) \in Int,
         ByteAt(text, p) # 102, ~ByteAt(text, p) \in 64 .. 79
  PROVE  PrefixesAt(text, p) = XPlain(p)
<1>1. Bit(0, 8) # 1 /\ 8 * Bit(0, 4) = 0 /\ 8 * Bit(0, 1) = 0 BY DEF Bit
<1>2. ~IsRex(ByteAt(text, p)) BY DEF IsRex
<1>3. PrefixStart(text, p) = p BY <1>2 DEF PrefixStart
<1>4. HasSize(text, p) = FALSE BY <1>3 DEF HasSize
<1>5. RexPlace(text, p) = p BY <1>3, <1>4 DEF RexPlace
<1>6. RexBits(ByteAt(text, p)) = 0 BY <1>2 DEF RexBits
<1> QED BY <1>1, <1>2, <1>4, <1>5, <1>6 DEF PrefixesAt, X, XPlain

LEMMA RexPrefix ==
  ASSUME NEW text, NEW p \in Nat, NEW n \in 0 .. 15,
         ByteAt(text, p) = 64 + n, ByteAt(text, p + 1) # 102
  PROVE  PrefixesAt(text, p) = XRex(n, p + 1)
<1>1. IsRex(ByteAt(text, p)) /\ ByteAt(text, p) # 102 /\ ByteAt(text, p) - 64 = n BY DEF IsRex
<1>3. PrefixStart(text, p) = p BY DEF PrefixStart
<1>4. HasSize(text, p) = FALSE BY <1>1, <1>3 DEF HasSize
<1>5. RexPlace(text, p) = p BY <1>3, <1>4 DEF RexPlace
<1>6. RexBits(ByteAt(text, p)) = n BY <1>1 DEF RexBits
<1> QED BY <1>1, <1>4, <1>5, <1>6 DEF PrefixesAt, X, XRex

LEMMA SizePrefix ==
  ASSUME NEW text, NEW p \in Nat, ByteAt(text, p) = 102, ByteAt(text, p + 1) = 72
  PROVE  PrefixesAt(text, p) = XSized(p + 2)
<1>1. Bit(8, 8) = 1 /\ 8 * Bit(8, 4) = 0 /\ 8 * Bit(8, 1) = 0 BY DEF Bit
<1>2. ~IsRex(ByteAt(text, p)) /\ IsRex(ByteAt(text, p + 1)) /\ ByteAt(text, p + 1) - 64 = 8 BY DEF IsRex
<1>3. PrefixStart(text, p) = p BY <1>2 DEF PrefixStart
<1>4. HasSize(text, p) BY <1>3 DEF HasSize
<1>5. RexPlace(text, p) = p + 1 BY <1>3, <1>4 DEF RexPlace
<1>6. RexBits(ByteAt(text, p + 1)) = 8 BY <1>2 DEF RexBits
<1>7. p + 1 + 1 = p + 2 OBVIOUS
<1> QED BY <1>1, <1>2, <1>4, <1>5, <1>6, <1>7 DEF PrefixesAt, X, XSized

LEMMA IgnoredRexPrefix ==
  ASSUME NEW text, NEW p \in Nat,
         ByteAt(text, p) \in 64 .. 79, ByteAt(text, p + 1) = 102, ByteAt(text, p + 2) = 15
  PROVE  PrefixesAt(text, p) = XIgnored(p + 2)
<1>1. Bit(0, 8) # 1 /\ 8 * Bit(0, 4) = 0 /\ 8 * Bit(0, 1) = 0 BY DEF Bit
<1>2. IsRex(ByteAt(text, p)) /\ ~IsRex(ByteAt(text, p + 2)) BY DEF IsRex
<1>3. PrefixStart(text, p) = p + 1 BY <1>2 DEF PrefixStart
<1>4. HasSize(text, p) BY <1>3 DEF HasSize
<1>5. RexPlace(text, p) = p + 2 BY <1>3, <1>4 DEF RexPlace
<1>6. RexBits(ByteAt(text, p + 2)) = 0 BY <1>2 DEF RexBits
<1> QED BY <1>1, <1>2, <1>4, <1>5, <1>6 DEF PrefixesAt, X, XIgnored

LEMMA LowRange ==
  ASSUME NEW r \in Registers
  PROVE  /\ Low(r) \in 0 .. 7 /\ High(r) \in {0, 1} /\ r = 8 * High(r) + Low(r)
         /\ Low(r) % 8 = Low(r) /\ Low(r) + 0 = Low(r)
BY DEF Registers, Low, High

LEMMA ModRMFields ==
  ASSUME NEW m \in {0, 3}, NEW r \in Registers, NEW k \in Registers
  PROVE  /\ ModRM(m, r, k) \in 0 .. 255 /\ ModRM(m, r, k) # -1 /\ ModRM(m, r, k) \div 64 = m
         /\ (ModRM(m, r, k) \div 8) % 8 = Low(r) /\ ModRM(m, r, k) % 8 = Low(k)
BY LowRange DEF ModRM

\* An operation with a ModR/M byte.
LEMMA BetweenRegisters ==
  ASSUME NEW text, NEW p \in Nat, NEW direct, NEW through, direct # "none",
         NEW x, x.r \in Int, x.b \in Int,
         NEW r \in Registers, NEW k \in Registers, ByteAt(text, p) = ModRM(3, r, k)
  PROVE  WithModRM(text, x, p, direct, through)
           = Instruction(direct, x.w, Low(r) + x.r, Low(k) + x.b, 0, p + 1)
<1>1. /\ ModRM(3, r, k) # -1 /\ ModRM(3, r, k) \div 64 = 3
      /\ (ModRM(3, r, k) \div 8) % 8 = Low(r) /\ ModRM(3, r, k) % 8 = Low(k)
  BY ModRMFields
<1> QED BY <1>1 DEF WithModRM

LEMMA ThroughRegister ==
  ASSUME NEW text, NEW p \in Nat, NEW direct, NEW through, through # "none",
         NEW x, x.r \in Int, x.b = 0,
         NEW r \in Registers, NEW k \in Registers, ByteAt(text, p) = ModRM(0, r, k),
         Low(k) \notin {4, 5}
  PROVE  WithModRM(text, x, p, direct, through)
           = Instruction(through, x.w, Low(r) + x.r, Low(k), 0, p + 1)
<1> DEFINE byte == ModRM(0, r, k)
<1>1. /\ byte # -1 /\ byte \div 64 = 0
      /\ (byte \div 8) % 8 = Low(r) /\ byte % 8 = Low(k)
  BY ModRMFields
<1>2. ByteAt(text, p) = byte OBVIOUS
<1> HIDE DEF byte
<1>3. Low(k) + 0 = Low(k) /\ Low(k) % 8 = Low(k) BY LowRange
<1>4. ~(0 = 3) OBVIOUS
<1> QED BY <1>1, <1>2, <1>3, <1>4 DEF WithModRM

LEMMA NotThroughRegister ==
  ASSUME NEW text, NEW p \in Nat, NEW direct, NEW through,
         NEW x, x.b = 0,
         NEW r \in Registers, NEW k \in Registers, ByteAt(text, p) = ModRM(0, r, k),
         Low(k) \in {4, 5}, Low(k) = 4 => ByteAt(text, p + 1) # 36
  PROVE  WithModRM(text, x, p, direct, through) = Undefined
<1> DEFINE byte == ModRM(0, r, k)
<1>1. /\ byte # -1 /\ byte \div 64 = 0 /\ byte % 8 = Low(k)
  BY ModRMFields
<1>2. ByteAt(text, p) = byte OBVIOUS
<1> HIDE DEF byte
<1>3. Low(k) + 0 = Low(k) /\ Low(k) % 8 = Low(k) BY LowRange
<1>4. ~(0 = 3) OBVIOUS
<1>5. ~(Low(k) \notin {4, 5}) /\ ~(Low(k) = 4 /\ ByteAt(text, p + 1) = 36) OBVIOUS
<1> QED BY <1>1, <1>2, <1>3, <1>4, <1>5 DEF WithModRM

LEMMA UnmaskedIs ==
  ASSUME NEW r \in Registers, NEW k \in 0 .. 7
  PROVE  ModRMUnmasked(3, r, k) = ModRM(3, r, k)
<1> DEFINE y == 192 + 8 * Low(r)
<1>1. Or(64 * 3, 8 * r) = y
  <2>1. CASE r \in 0 .. 7
    BY <2>1 DEF Or, And, Bit, Low
  <2>2. CASE r \in 8 .. 15
    BY <2>2 DEF Or, And, Bit, Low
  <2> QED BY <2>1, <2>2 DEF Registers
<1>2. And(y, k) = 0
  BY LowRange DEF And, Bit
<1>3. Low(k) = k BY DEF Low
<1> QED BY <1>1, <1>2, <1>3, LowRange DEF ModRMUnmasked, Or, ModRM

\* Without a bit in a prefix rm is one of the first eight registers.
LEMMA LowRegister ==
  ASSUME NEW text \in Codes, NEW p \in Nat, NEW direct, NEW through, NEW x, x.b = 0
  PROVE  WithModRM(text, x, p, direct, through).rm < 8
<1> DEFINE byte == ByteAt(text, p)
           reg  == (byte \div 8) % 8
           rm   == byte % 8
           i    == WithModRM(text, x, p, direct, through)
<1>1. byte \in -1 .. 255 BY ByteRange
<1> HIDE DEF byte
<1>2. rm \in 0 .. 7 /\ rm + x.b = rm BY <1>1
<1> HIDE DEF reg, rm
<1> DEFINE Fields(op, m, n) == Instruction(op, x.w, reg + x.r, m, 0, n)
<1>3. \/ i = Undefined
      \/ \E op, n : i = Fields(op, rm + x.b, n) \/ i = Fields(op, 4, n)
  <2> DEFINE m == byte \div 64
             Defined == m = 0 /\ through # "none" /\ (rm + x.b) % 8 = 4 /\ ByteAt(text, p + 1) = 36
  <2>0. (m = 0 => byte # -1) /\ (m = 3 => byte # -1) /\ ~(m = 0 /\ m = 3) BY <1>1
  <2>1. CASE byte = -1 BY <2>0, <2>1 DEF WithModRM, byte
  <2>2. CASE byte # -1 /\ m = 3 /\ direct # "none" BY <2>0, <2>2 DEF WithModRM, byte, rm, reg
  <2>3. CASE m = 0 /\ through # "none" /\ (rm + x.b) % 8 \notin {4, 5}
    BY <2>0, <2>3 DEF WithModRM, byte, rm, reg
  <2>4. CASE Defined
    <3>1. ~((rm + x.b) % 8 \notin {4, 5}) BY <2>4
    <3> QED BY <2>0, <2>4, <3>1 DEF WithModRM, byte, rm, reg, RSP
  <2>5. CASE /\ byte # -1 /\ ~(m = 3 /\ direct # "none")
             /\ ~(m = 0 /\ through # "none" /\ (rm + x.b) % 8 \notin {4, 5}) /\ ~Defined
    BY <2>5 DEF WithModRM, byte, rm, reg
  <2> QED BY <2>1, <2>2, <2>3, <2>4, <2>5
<1>4. \A op, m, n : Fields(op, m, n).rm = m BY DEF Instruction
<1> HIDE DEF Fields
<1> HIDE DEF i
<1>5. i = Undefined \/ i.rm \in {rm + x.b, 4} BY <1>3, <1>4
<1>6. Undefined.rm = 0 BY DEF Undefined
<1>7. i.rm < 8 BY <1>2, <1>5, <1>6
<1> QED BY <1>7 DEF i

LEMMA LowRegisterOfGroup ==
  ASSUME NEW text \in Codes, NEW p \in Nat, NEW x, x.b = 0, NEW ops
  PROVE  InGroup(text, x, p, ops).rm < 8
<1> DEFINE i == WithModRM(text, x, p, "group", "none")
           g == InGroup(text, x, p, ops)
<1>1. i.rm < 8 BY LowRegister
<1>2. \A op, w, imm, n : Instruction(op, w, 0, i.rm, imm, n).rm = i.rm BY DEF Instruction
<1>3. Undefined.rm = 0 BY DEF Undefined
<1>4. g = Instruction(ops[i.reg % 8], i.wide, 0, i.rm, i.imm, i.len) \/ g = Undefined BY DEF InGroup
<1> HIDE DEF i, g
<1>5. g.rm < 8 BY <1>1, <1>2, <1>3, <1>4
<1> QED BY <1>5 DEF g

----------------------------------------------------------------------------
\* An instruction as the model's histories have it.
Tuple(i) == I(i.op, i.reg, i.rm, i.imm)

LEMMA TupleIs ==
  ASSUME NEW op, NEW w, NEW reg, NEW rm, NEW imm, NEW n
  PROVE  /\ Tuple(Instruction(op, w, reg, rm, imm, n)) = I(op, reg, rm, imm)
         /\ Instruction(op, w, reg, rm, imm, n).len = n
<1> DEFINE i == Instruction(op, w, reg, rm, imm, n)
<1>1. i.op = op /\ i.reg = reg /\ i.rm = rm /\ i.imm = imm /\ i.len = n BY DEF Instruction
<1> HIDE DEF i
<1>2. Tuple(i) = I(op, reg, rm, imm) BY <1>1 DEF Tuple
<1> QED BY <1>1, <1>2 DEF i

\* The same with a width that is known.
Wide(op, reg, rm, imm, n)   == Instruction(op, TRUE, reg, rm, imm, n)
Narrow(op, reg, rm, imm, n) == Instruction(op, FALSE, reg, rm, imm, n)

LEMMA WidthKnown ==
  ASSUME NEW op, NEW reg, NEW rm, NEW imm, NEW n
  PROVE  /\ Tuple(Wide(op, reg, rm, imm, n)) = I(op, reg, rm, imm) /\ Wide(op, reg, rm, imm, n).len = n
         /\ Tuple(Narrow(op, reg, rm, imm, n)) = I(op, reg, rm, imm) /\ Narrow(op, reg, rm, imm, n).len = n
<1>1. Tuple(Wide(op, reg, rm, imm, n)) = I(op, reg, rm, imm) /\ Wide(op, reg, rm, imm, n).len = n
  <2> DEFINE i == Wide(op, reg, rm, imm, n)
  <2>1. i.op = op /\ i.reg = reg /\ i.rm = rm /\ i.imm = imm /\ i.len = n BY DEF Wide, Instruction
  <2> HIDE DEF i
  <2>2. Tuple(i) = I(op, reg, rm, imm) BY <2>1 DEF Tuple
  <2> QED BY <2>1, <2>2 DEF i
<1>2. Tuple(Narrow(op, reg, rm, imm, n)) = I(op, reg, rm, imm) /\ Narrow(op, reg, rm, imm, n).len = n
  <2> DEFINE i == Narrow(op, reg, rm, imm, n)
  <2>1. i.op = op /\ i.reg = reg /\ i.rm = rm /\ i.imm = imm /\ i.len = n BY DEF Narrow, Instruction
  <2> HIDE DEF i
  <2>2. Tuple(i) = I(op, reg, rm, imm) BY <2>1 DEF Tuple
  <2> QED BY <2>1, <2>2 DEF i
<1> QED BY <1>1, <1>2

\* What is decoded for each opcode.
LEMMA DecodeShort ==
  ASSUME NEW text, NEW x, x.b \in Int, NEW q, NEW r \in 0 .. 7
  PROVE  /\ Tuple(DecodeOpcode(text, x, 80 + r, q)) = I("push", 0, r + x.b, 0)
         /\ DecodeOpcode(text, x, 80 + r, q).len = q
         /\ Tuple(DecodeOpcode(text, x, 88 + r, q)) = I("pop", 0, r + x.b, 0)
         /\ DecodeOpcode(text, x, 88 + r, q).len = q
         /\ Tuple(DecodeOpcode(text, x, 195, q)) = I("ret", 0, 0, 0)
         /\ DecodeOpcode(text, x, 195, q).len = q
<1>1. DecodeOpcode(text, x, 80 + r, q) = Wide("push", 0, r + x.b, 0, q)
  <2> DEFINE op == 80 + r
  <2>1. op \in 80 .. 87 /\ op - 80 = r /\ op \in Int OBVIOUS
  <2> HIDE DEF op
  <2>2. /\ ~(op \in 88 .. 95) /\ ~(op \in 184 .. 191) /\ op # 137 /\ op # 139 /\ op # 1 /\ op # 41
        /\ op # 247 /\ op # 131 /\ op # 255 /\ op # 233 /\ op # 195 /\ op # 15
    BY <2>1
  <2>a. op \in 80 .. 87 BY <2>1
  <2>3. DecodeOpcode(text, x, op, q) = Wide("push", 0, op - 80 + x.b, 0, q)
    BY <2>a, <2>2, ZenonT(30) DEF DecodeOpcode, Wide
  <2>4. op - 80 + x.b = r + x.b BY <2>1
  <2> QED BY <2>3, <2>4 DEF op
<1>2. DecodeOpcode(text, x, 88 + r, q) = Wide("pop", 0, r + x.b, 0, q)
  <2> DEFINE op == 88 + r
  <2>1. op \in 88 .. 95 /\ op - 88 = r /\ op \in Int OBVIOUS
  <2> HIDE DEF op
  <2>2. /\ ~(op \in 80 .. 87) /\ ~(op \in 184 .. 191) /\ op # 137 /\ op # 139 /\ op # 1 /\ op # 41
        /\ op # 247 /\ op # 131 /\ op # 255 /\ op # 233 /\ op # 195 /\ op # 15
    BY <2>1
  <2>a. op \in 88 .. 95 BY <2>1
  <2>3. DecodeOpcode(text, x, op, q) = Wide("pop", 0, op - 88 + x.b, 0, q)
    BY <2>a, <2>2, ZenonT(30) DEF DecodeOpcode, Wide
  <2>4. op - 88 + x.b = r + x.b BY <2>1
  <2> QED BY <2>3, <2>4 DEF op
<1>3. DecodeOpcode(text, x, 195, q) = Narrow("ret", 0, 0, 0, q)
  BY DEF DecodeOpcode, Narrow
<1> QED BY <1>1, <1>2, <1>3, WidthKnown

IsLow(r)  == r \in 0 .. 7
IsWide(x) == x.w = TRUE

LEMMA MovImmOpcode ==
  ASSUME NEW text, NEW x, NEW q, NEW op, IsWide(x), IsNumber(text, q, 8), op \in 184 .. 191,
         /\ ~(op \in 80 .. 87) /\ ~(op \in 88 .. 95) /\ op # 137 /\ op # 139 /\ op # 1 /\ op # 41
         /\ op # 247 /\ op # 131 /\ op # 255 /\ op # 233 /\ op # 195 /\ op # 15
  PROVE  DecodeOpcode(text, x, op, q) = Wide("mov_imm", 0, op - 184 + x.b, NumberAt(text, q), q + 8)
<1>1. x.w = TRUE /\ IsNumber(text, q, 8) BY DEF IsWide
<1> QED BY <1>1, ZenonT(30) DEF DecodeOpcode, Wide

LEMMA DecodeMovImm ==
  ASSUME NEW text, NEW x, x.b = 0, IsWide(x), NEW q, NEW r, IsLow(r), IsNumber(text, q, 8)
  PROVE  /\ Tuple(DecodeOpcode(text, x, 184 + r, q)) = I("mov_imm", 0, r, NumberAt(text, q))
         /\ DecodeOpcode(text, x, 184 + r, q).len = q + 8
<1> DEFINE op == 184 + r
<1>0. r \in 0 .. 7 BY DEF IsLow
<1>1. op \in 184 .. 191 /\ op - 184 = r /\ op \in Int BY <1>0
<1> SUFFICES /\ Tuple(DecodeOpcode(text, x, op, q)) = I("mov_imm", 0, r, NumberAt(text, q))
             /\ DecodeOpcode(text, x, op, q).len = q + 8
  OBVIOUS
<1> HIDE DEF op
<1>2. /\ ~(op \in 80 .. 87) /\ ~(op \in 88 .. 95) /\ op # 137 /\ op # 139 /\ op # 1 /\ op # 41
      /\ op # 247 /\ op # 131 /\ op # 255 /\ op # 233 /\ op # 195 /\ op # 15
  BY <1>1
<1>3. op \in 184 .. 191 BY <1>1
<1>5. DecodeOpcode(text, x, op, q) = Wide("mov_imm", 0, op - 184 + x.b, NumberAt(text, q), q + 8)
  BY <1>2, <1>3, MovImmOpcode
<1>6. op - 184 + x.b = r BY <1>0, <1>1
<1>7. DecodeOpcode(text, x, op, q) = Wide("mov_imm", 0, r, NumberAt(text, q), q + 8) BY <1>5, <1>6
<1> QED BY <1>7, WidthKnown

LEMMA DecodeJmp ==
  ASSUME NEW text, NEW x, NEW q, IsNumber(text, q, 4)
  PROVE  /\ Tuple(DecodeOpcode(text, x, 233, q)) = I("jmp", 0, 0, NumberAt(text, q))
         /\ DecodeOpcode(text, x, 233, q).len = q + 4
<1>1. DecodeOpcode(text, x, 233, q) = Narrow("jmp", 0, 0, NumberAt(text, q), q + 4) BY DEF DecodeOpcode, Narrow
<1> QED BY <1>1, WidthKnown

LEMMA DecodeModRM ==
  ASSUME NEW text, NEW x, NEW q
  PROVE  /\ DecodeOpcode(text, x, 137, q) = WithModRM(text, x, q, "mov", "store")
         /\ DecodeOpcode(text, x, 139, q) = WithModRM(text, x, q, "none", "load")
         /\ DecodeOpcode(text, x, 1, q) = WithModRM(text, x, q, "add", "none")
         /\ DecodeOpcode(text, x, 41, q) = WithModRM(text, x, q, "sub", "none")
         /\ DecodeOpcode(text, x, 247, q) = InGroup(text, x, q, GroupF7)
         /\ DecodeOpcode(text, x, 255, q) = InGroup(text, x, q, GroupFF)
         /\ DecodeOpcode(text, x, 15, q) = DecodeEscape(text, x, q)
         /\ ByteAt(text, q + 1) # -1 =>
              DecodeOpcode(text, x, 131, q) = WithImm(InGroup(text, x, q, Group83), ByteAt(text, q + 1), 1)
<1>1. DecodeOpcode(text, x, 137, q) = WithModRM(text, x, q, "mov", "store") BY DEF DecodeOpcode
<1>2. DecodeOpcode(text, x, 139, q) = WithModRM(text, x, q, "none", "load") BY DEF DecodeOpcode
<1>3. DecodeOpcode(text, x, 1, q) = WithModRM(text, x, q, "add", "none") BY DEF DecodeOpcode
<1>4. DecodeOpcode(text, x, 41, q) = WithModRM(text, x, q, "sub", "none") BY DEF DecodeOpcode
<1>5. DecodeOpcode(text, x, 247, q) = InGroup(text, x, q, GroupF7) BY DEF DecodeOpcode
<1>6. DecodeOpcode(text, x, 255, q) = InGroup(text, x, q, GroupFF) BY DEF DecodeOpcode
<1>7. DecodeOpcode(text, x, 15, q) = DecodeEscape(text, x, q) BY DEF DecodeOpcode
<1>8. CASE ByteAt(text, q + 1) # -1 BY <1>8 DEF DecodeOpcode
<1> QED BY <1>1, <1>2, <1>3, <1>4, <1>5, <1>6, <1>7, <1>8

Unsized(x)   == x.size = FALSE
Sized(x)     == x.size = TRUE
SizedWide(x) == x.size = TRUE /\ x.w = TRUE

LEMMA DecodeSse ==
  ASSUME NEW text, NEW x, NEW p \in Nat
  PROVE  /\ ByteAt(text, p) = 40 /\ Unsized(x) => DecodeEscape(text, x, p) = WithModRM(text, x, p + 1, "movaps", "movaps_load")
         /\ ByteAt(text, p) = 41 /\ Unsized(x) => DecodeEscape(text, x, p) = WithModRM(text, x, p + 1, "none", "movaps_store")
         /\ ByteAt(text, p) = 88 /\ Sized(x) => DecodeEscape(text, x, p) = WithModRM(text, x, p + 1, "addpd", "none")
         /\ ByteAt(text, p) = 89 /\ Unsized(x) => DecodeEscape(text, x, p) = WithModRM(text, x, p + 1, "mulps", "none")
         /\ ByteAt(text, p) = 92 /\ Unsized(x) => DecodeEscape(text, x, p) = WithModRM(text, x, p + 1, "subps", "none")
         /\ ByteAt(text, p) = 94 /\ Unsized(x) => DecodeEscape(text, x, p) = WithModRM(text, x, p + 1, "divps", "none")
         /\ ByteAt(text, p) = 110 /\ SizedWide(x) => DecodeEscape(text, x, p) = WithModRM(text, x, p + 1, "movq_to_xmm", "none")
         /\ ByteAt(text, p) = 126 /\ SizedWide(x) => DecodeEscape(text, x, p) = WithModRM(text, x, p + 1, "movq_from_xmm", "none")
<1>1. ByteAt(text, p) = 40 /\ Unsized(x) => DecodeEscape(text, x, p) = WithModRM(text, x, p + 1, "movaps", "movaps_load")
  BY DEF DecodeEscape, SseOps, Unsized, Sized, SizedWide
<1>2. ByteAt(text, p) = 41 /\ Unsized(x) => DecodeEscape(text, x, p) = WithModRM(text, x, p + 1, "none", "movaps_store")
  BY DEF DecodeEscape, SseOps, Unsized, Sized, SizedWide
<1>3. ByteAt(text, p) = 88 /\ Sized(x) => DecodeEscape(text, x, p) = WithModRM(text, x, p + 1, "addpd", "none")
  BY DEF DecodeEscape, SseOps, Unsized, Sized, SizedWide, PackedDouble
<1>4. ByteAt(text, p) = 89 /\ Unsized(x) => DecodeEscape(text, x, p) = WithModRM(text, x, p + 1, "mulps", "none")
  BY DEF DecodeEscape, SseOps, Unsized, Sized, SizedWide, Packed
<1>5. ByteAt(text, p) = 92 /\ Unsized(x) => DecodeEscape(text, x, p) = WithModRM(text, x, p + 1, "subps", "none")
  BY DEF DecodeEscape, SseOps, Unsized, Sized, SizedWide, Packed
<1>6. ByteAt(text, p) = 94 /\ Unsized(x) => DecodeEscape(text, x, p) = WithModRM(text, x, p + 1, "divps", "none")
  BY DEF DecodeEscape, SseOps, Unsized, Sized, SizedWide, Packed
<1>7. ByteAt(text, p) = 110 /\ SizedWide(x) => DecodeEscape(text, x, p) = WithModRM(text, x, p + 1, "movq_to_xmm", "none")
  BY DEF DecodeEscape, SseOps, Unsized, Sized, SizedWide
<1>8. ByteAt(text, p) = 126 /\ SizedWide(x) => DecodeEscape(text, x, p) = WithModRM(text, x, p + 1, "movq_from_xmm", "none")
  BY DEF DecodeEscape, SseOps, Unsized, Sized, SizedWide
<1> QED BY <1>1, <1>2, <1>3, <1>4, <1>5, <1>6, <1>7, <1>8

LEMMA DecodeJz ==
  ASSUME NEW text, NEW x, NEW p \in Nat, ByteAt(text, p) = 132, IsNumber(text, p + 1, 4)
  PROVE  /\ Tuple(DecodeEscape(text, x, p)) = I("jz", 0, 0, NumberAt(text, p + 1))
         /\ DecodeEscape(text, x, p).len = p + 5
<1>1. DecodeEscape(text, x, p) = Narrow("jz", 0, 0, NumberAt(text, p + 1), p + 5)
  BY DEF DecodeEscape, SseOps, Narrow
<1> QED BY <1>1, WidthKnown

LEMMA GroupOf ==
  ASSUME NEW text, NEW x, NEW p, NEW ops, NEW w, NEW k, k % 8 = k, NEW r, NEW n, k \in DOMAIN ops,
         WithModRM(text, x, p, "group", "none") = Instruction("group", w, k, r, 0, n)
  PROVE  InGroup(text, x, p, ops) = Instruction(ops[k], w, 0, r, 0, n)
<1>2. LET i == Instruction("group", w, k, r, 0, n)
      IN  i.op = "group" /\ i.wide = w /\ i.reg = k /\ i.rm = r /\ i.imm = 0 /\ i.len = n
  BY DEF Instruction
<1> QED BY <1>2 DEF InGroup

LEMMA Groups ==
  /\ 0 \in DOMAIN Group83 /\ Group83[0] = "add_imm"
  /\ 5 \in DOMAIN Group83 /\ Group83[5] = "sub_imm"
  /\ 7 \in DOMAIN Group83 /\ Group83[7] = "cmp_imm"
  /\ 6 \in DOMAIN GroupF7 /\ GroupF7[6] = "div"
  /\ 7 \in DOMAIN GroupF7 /\ GroupF7[7] = "idiv"
  /\ 2 \in DOMAIN GroupFF /\ GroupFF[2] = "call"
BY DEF Group83, GroupF7, GroupFF

----------------------------------------------------------------------------
\* A text has the bytes at p, and in Stands what follows is not a SIB byte.
Has(text, p, bytes) ==
  /\ text \in Codes /\ p \in Nat /\ p + Len(bytes) <= Len(text)
  /\ \A k \in 1 .. Len(bytes) : text[p + k] = bytes[k]
Stands(text, p, bytes) == Has(text, p, bytes) /\ ByteAt(text, p + Len(bytes)) # 36

LEMMA OpcodeBytes ==
  ASSUME NEW bytes \in Seq(0 .. 255)
  PROVE  /\ Opcode(bytes) \in Codes /\ Len(Opcode(bytes)) = Len(bytes)
         /\ \A k \in 1 .. Len(bytes) : Opcode(bytes)[k] = <<bytes[k], 0>>
<1>1. Opcode(bytes) = [k \in 1 .. Len(bytes) |-> <<bytes[k], 0>>] BY DEF Opcode
<1>2. \A k \in 1 .. Len(bytes) : bytes[k] \in 0 .. 255 BY ElementOfSeq
<1>3. \A k \in 1 .. Len(bytes) : <<bytes[k], 0>> \in Int \X Int BY <1>2
<1> QED BY <1>1, <1>3 DEF Codes

LEMMA OpcodeAt ==
  ASSUME NEW bytes \in Seq(0 .. 255), NEW text, NEW p, Has(text, p, Opcode(bytes))
  PROVE  \A k \in 1 .. Len(bytes) : ByteAt(text, p + (k - 1)) = bytes[k]
<1> TAKE k \in 1 .. Len(bytes)
<1>1. text \in Codes /\ p \in Nat /\ p + Len(bytes) <= Len(text) /\ text[p + k] = <<bytes[k], 0>>
  BY OpcodeBytes DEF Has
<1>2. p + (k - 1) \in Nat /\ p + (k - 1) + 1 = p + k BY <1>1
<1>3. bytes[k] \in 0 .. 255 BY ElementOfSeq
<1>4. p + k <= Len(text) BY <1>1
<1> QED BY <1>1, <1>2, <1>3, <1>4, ByteIs

LEMMA NumberBytes ==
  ASSUME NEW v \in Int, NEW n \in Nat
  PROVE  /\ Number(v, n) \in Codes /\ Len(Number(v, n)) = n
         /\ \A k \in 1 .. n : Number(v, n)[k] = <<v, k - 1>>
BY DEF Number, Codes

LEMMA NumberAt_ ==
  ASSUME NEW v \in Int, NEW n \in Nat \ {0}, NEW text, NEW p, Has(text, p, Number(v, n))
  PROVE  IsNumber(text, p, n) /\ NumberAt(text, p) = v
<1>1. \A k \in 1 .. n : text[p + k] = <<v, k - 1>> BY NumberBytes DEF Has
<1>2. p + n <= Len(text) BY NumberBytes DEF Has
<1>3. text[p + 1] = <<v, 0>> BY <1>1
<1> QED BY <1>1, <1>2, <1>3 DEF IsNumber, NumberAt

LEMMA Joined ==
  ASSUME NEW a \in Codes, NEW b \in Codes
  PROVE  /\ a \o b \in Codes /\ Len(a \o b) = Len(a) + Len(b)
         /\ \A text, p : Has(text, p, a \o b) => Has(text, p, a) /\ Has(text, p + Len(a), b)
<1>1. a \o b \in Codes /\ Len(a \o b) = Len(a) + Len(b) BY ConcatProperties DEF Codes
<1>2. /\ \A k \in 1 .. Len(a) : (a \o b)[k] = a[k]
      /\ \A k \in 1 .. Len(b) : (a \o b)[Len(a) + k] = b[k]
  BY ConcatProperties DEF Codes
<1>3. Len(a) \in Nat /\ Len(b) \in Nat BY DEF Codes
<1>4. ASSUME NEW text, NEW p, Has(text, p, a \o b)
      PROVE  Has(text, p, a) /\ Has(text, p + Len(a), b)
  <2>1. text \in Codes /\ p \in Nat /\ Len(text) \in Nat BY <1>4 DEF Has, Codes
  <2>2. p + (Len(a) + Len(b)) <= Len(text) BY <1>1, <1>4 DEF Has
  <2>3. \A k \in 1 .. Len(a) + Len(b) : text[p + k] = (a \o b)[k] BY <1>1, <1>4 DEF Has
  <2>4. \A k \in 1 .. Len(a) : text[p + k] = a[k] BY <1>2, <1>3, <2>3
  <2>5. ASSUME NEW k \in 1 .. Len(b) PROVE text[p + Len(a) + k] = b[k]
    <3>1. Len(a) + k \in 1 .. Len(a) + Len(b) /\ p + Len(a) + k = p + (Len(a) + k) BY <1>3, <2>1
    <3> QED BY <1>2, <2>3, <3>1
  <2>6. p + Len(a) <= Len(text) /\ p + Len(a) + Len(b) <= Len(text) /\ p + Len(a) \in Nat
    BY <1>3, <2>1, <2>2
  <2> QED BY <2>1, <2>4, <2>5, <2>6 DEF Has
<1> QED BY <1>1, <1>4

\* The instruction that starts n bytes into the bytes is i and ends m bytes into
\* them, or is another one, wherever the bytes are.
ReadsAs(bytes, n, i, m) ==
  /\ n \in Nat /\ n < Len(bytes) /\ m \in Nat /\ m <= Len(bytes) /\ i[1] # "undefined"
  /\ \A text, p : Stands(text, p, bytes) =>
        Tuple(Decode(text, p + n)) = i /\ Decode(text, p + n).len = p + m
Misread(bytes, n, i) ==
  /\ n \in Nat /\ n < Len(bytes)
  /\ \A text, p : Stands(text, p, bytes) => Tuple(Decode(text, p + n)) # i

LEMMA Appended ==
  ASSUME NEW c \in Codes, NEW bytes \in Codes, ByteAt(bytes, 0) # 36
  PROVE  /\ \A n, i, m : ReadsAs(c, n, i, m) => ReadsAs(c \o bytes, n, i, m)
         /\ \A n, i : Misread(c, n, i) => Misread(c \o bytes, n, i)
<1>1. ASSUME NEW text, NEW p, Stands(text, p, c \o bytes) PROVE Stands(text, p, c)
  <2>1. Has(text, p, c) /\ Has(text, p + Len(c), bytes) BY <1>1, Joined DEF Stands
  <2>2. CASE bytes = <<>>
    <3>1. Len(c \o bytes) = Len(c) BY <2>2, Joined DEF Codes
    <3> QED BY <1>1, <2>1, <3>1 DEF Stands
  <2>3. CASE bytes # <<>>
    <3>1. Len(bytes) >= 1 /\ Len(bytes) \in Nat /\ Len(c) \in Nat BY <2>3 DEF Codes
    <3>2. text[p + Len(c) + 1] = bytes[1] /\ p + Len(c) + Len(bytes) <= Len(text) /\ p + Len(c) \in Nat
      BY <2>1, <3>1 DEF Has
    <3>3. text \in Codes /\ Len(text) \in Nat BY <2>1 DEF Has, Codes
    <3>4. p + Len(c) + 1 \in 1 .. Len(text) /\ 0 + 1 = 1 BY <3>1, <3>2, <3>3
    <3>5. DOMAIN text = 1 .. Len(text) /\ DOMAIN bytes = 1 .. Len(bytes) BY DEF Codes, Has
    <3>6. 1 \in DOMAIN bytes /\ p + Len(c) + 1 \in DOMAIN text BY <3>1, <3>4, <3>5
    <3>7. ByteAt(text, p + Len(c)) = ByteAt(bytes, 0) BY <3>2, <3>4, <3>6 DEF ByteAt
    <3> QED BY <2>1, <3>7 DEF Stands
  <2> QED BY <2>2, <2>3
<1>2. Len(c \o bytes) >= Len(c) /\ Len(c) \in Nat /\ Len(c \o bytes) \in Nat BY Joined DEF Codes
<1>3. ASSUME NEW n, NEW i, NEW m, ReadsAs(c, n, i, m) PROVE ReadsAs(c \o bytes, n, i, m)
  BY <1>1, <1>2, <1>3 DEF ReadsAs
<1>4. ASSUME NEW n, NEW i, Misread(c, n, i) PROVE Misread(c \o bytes, n, i)
  BY <1>1, <1>2, <1>4 DEF Misread
<1> QED BY <1>3, <1>4

LEMMA Prepended ==
  ASSUME NEW c \in Codes, NEW bytes \in Codes
  PROVE  /\ \A n, i, m : ReadsAs(bytes, n, i, m) => ReadsAs(c \o bytes, Len(c) + n, i, Len(c) + m)
         /\ \A n, i : Misread(bytes, n, i) => Misread(c \o bytes, Len(c) + n, i)
<1>1. Len(c \o bytes) = Len(c) + Len(bytes) /\ Len(c) \in Nat /\ Len(bytes) \in Nat BY Joined DEF Codes
<1>2. ASSUME NEW text, NEW p, Stands(text, p, c \o bytes)
      PROVE  p \in Nat /\ Stands(text, p + Len(c), bytes)
  <2>1. Has(text, p + Len(c), bytes) BY <1>2, Joined DEF Stands
  <2>2. p \in Nat BY <1>2 DEF Stands, Has
  <2>3. p + Len(c \o bytes) = p + Len(c) + Len(bytes) BY <1>1, <2>2
  <2> QED BY <1>2, <2>1, <2>2, <2>3 DEF Stands
<1>3. ASSUME NEW n, NEW i, NEW m, ReadsAs(bytes, n, i, m)
      PROVE  ReadsAs(c \o bytes, Len(c) + n, i, Len(c) + m)
  <2>1. n \in Nat /\ n < Len(bytes) /\ m \in Nat /\ m <= Len(bytes) /\ i[1] # "undefined" BY <1>3 DEF ReadsAs
  <2>2. Len(c) + n \in Nat /\ Len(c) + n < Len(c \o bytes) /\ Len(c) + m \in Nat /\ Len(c) + m <= Len(c \o bytes)
    BY <1>1, <2>1
  <2>3. ASSUME NEW text, NEW p, Stands(text, p, c \o bytes)
        PROVE  /\ Tuple(Decode(text, p + (Len(c) + n))) = i
               /\ Decode(text, p + (Len(c) + n)).len = p + (Len(c) + m)
    <3>1. p \in Nat /\ Stands(text, p + Len(c), bytes) BY <1>2, <2>3
    <3>2. p + (Len(c) + n) = p + Len(c) + n /\ p + (Len(c) + m) = p + Len(c) + m BY <1>1, <2>1, <3>1
    <3>3. Tuple(Decode(text, p + Len(c) + n)) = i /\ Decode(text, p + Len(c) + n).len = p + Len(c) + m
      BY <1>3, <3>1 DEF ReadsAs
    <3> QED BY <3>2, <3>3
  <2> QED BY <2>1, <2>2, <2>3 DEF ReadsAs
<1>4. ASSUME NEW n, NEW i, Misread(bytes, n, i) PROVE Misread(c \o bytes, Len(c) + n, i)
  <2>1. n \in Nat /\ n < Len(bytes) BY <1>4 DEF Misread
  <2>2. Len(c) + n \in Nat /\ Len(c) + n < Len(c \o bytes) BY <1>1, <2>1
  <2>3. ASSUME NEW text, NEW p, Stands(text, p, c \o bytes)
        PROVE  Tuple(Decode(text, p + (Len(c) + n))) # i
    <3>1. p \in Nat /\ Stands(text, p + Len(c), bytes) BY <1>2, <2>3
    <3>2. p + (Len(c) + n) = p + Len(c) + n BY <1>1, <2>1, <3>1
    <3>3. Tuple(Decode(text, p + Len(c) + n)) # i BY <1>4, <3>1 DEF Misread
    <3> QED BY <3>2, <3>3
  <2> QED BY <2>1, <2>2, <2>3 DEF Misread
<1> QED BY <1>3, <1>4

----------------------------------------------------------------------------
\* Bytes that are one or two instructions, as they are meant or not.
Right(bytes, m) ==
  \/ m = <<>> /\ bytes = <<>>
  \/ \E i : m = <<i>> /\ ReadsAs(bytes, 0, i, Len(bytes))
  \/ \E i, j, n : m = <<i, j>> /\ ReadsAs(bytes, 0, i, n) /\ ReadsAs(bytes, n, j, Len(bytes))
Wrong(bytes, m) ==
  \/ \E i : m = <<i>> /\ Misread(bytes, 0, i)
  \/ \E i, j : m = <<i, j>> /\ Misread(bytes, 0, i)
  \/ \E i, j, n : m = <<i, j>> /\ ReadsAs(bytes, 0, i, n) /\ Misread(bytes, n, j)

LEMMA OneInstruction ==
  ASSUME NEW bytes \in Codes, bytes # <<>>, NEW i, i[1] # "undefined",
         \A text, p : Stands(text, p, bytes) =>
           Tuple(Decode(text, p)) = i /\ Decode(text, p).len = p + Len(bytes)
  PROVE  /\ Right(bytes, <<i>>)
         /\ \A j : j # i => Wrong(bytes, <<j>>)
<1>1. 0 \in Nat /\ 0 < Len(bytes) /\ Len(bytes) \in Nat /\ Len(bytes) <= Len(bytes) BY DEF Codes
<1>2. \A text, p : Stands(text, p, bytes) => p + 0 = p BY DEF Stands, Has
<1>3. ReadsAs(bytes, 0, i, Len(bytes)) BY <1>1, <1>2 DEF ReadsAs
<1>4. ASSUME NEW j, j # i PROVE Misread(bytes, 0, j) BY <1>1, <1>2, <1>4 DEF Misread
<1> QED BY <1>3, <1>4 DEF Right, Wrong

LEMMA NotThisInstruction ==
  ASSUME NEW bytes \in Codes, bytes # <<>>, NEW j,
         \A text, p : Stands(text, p, bytes) => Tuple(Decode(text, p)) # j
  PROVE  Wrong(bytes, <<j>>)
<1>1. 0 \in Nat /\ 0 < Len(bytes) BY DEF Codes
<1>2. \A text, p : Stands(text, p, bytes) => p + 0 = p BY DEF Stands, Has
<1>3. Misread(bytes, 0, j) BY <1>1, <1>2 DEF Misread
<1> QED BY <1>3 DEF Wrong

LEMMA OneRead ==
  ASSUME NEW bytes, NEW i
  PROVE  /\ Right(bytes, <<i>>) <=> ReadsAs(bytes, 0, i, Len(bytes))
         /\ Wrong(bytes, <<i>>) <=> Misread(bytes, 0, i)
<1>1. \A j, k : <<i>> # <<j, k>> /\ <<i>> # <<>> OBVIOUS
<1>2. \A j : <<i>> = <<j>> => i = j OBVIOUS
<1>3. Right(bytes, <<i>>) <=> ReadsAs(bytes, 0, i, Len(bytes)) BY <1>1, <1>2 DEF Right
<1>4. Wrong(bytes, <<i>>) <=> Misread(bytes, 0, i) BY <1>1, <1>2 DEF Wrong
<1> QED BY <1>3, <1>4

LEMMA TwoInstructions ==
  ASSUME NEW a \in Codes, NEW b \in Codes, ByteAt(b, 0) # 36, NEW i, NEW j
  PROVE  /\ Right(a, <<i>>) /\ Right(b, <<j>>) => Right(a \o b, <<i, j>>)
         /\ Wrong(a, <<i>>) => Wrong(a \o b, <<i, j>>)
         /\ Right(a, <<i>>) /\ Wrong(b, <<j>>) => Wrong(a \o b, <<i, j>>)
<1>1. Len(a) + 0 = Len(a) /\ Len(a) + Len(b) = Len(a \o b) BY Joined DEF Codes
<1>2. Right(a, <<i>>) => ReadsAs(a \o b, 0, i, Len(a)) BY OneRead, Appended
<1>3. Wrong(a, <<i>>) => Misread(a \o b, 0, i) BY OneRead, Appended
<1>4. Right(b, <<j>>) => ReadsAs(a \o b, Len(a), j, Len(a \o b)) BY <1>1, OneRead, Prepended
<1>5. Wrong(b, <<j>>) => Misread(a \o b, Len(a), j) BY <1>1, OneRead, Prepended
<1>6. ASSUME NEW n, ReadsAs(a \o b, 0, i, n), ReadsAs(a \o b, n, j, Len(a \o b))
      PROVE  Right(a \o b, <<i, j>>)
  BY <1>6 DEF Right
<1>7. ASSUME NEW n, ReadsAs(a \o b, 0, i, n), Misread(a \o b, n, j)
      PROVE  Wrong(a \o b, <<i, j>>)
  BY <1>7 DEF Wrong
<1>8. ASSUME Misread(a \o b, 0, i) PROVE Wrong(a \o b, <<i, j>>) BY <1>8 DEF Wrong
<1> QED BY <1>2, <1>3, <1>4, <1>5, <1>6, <1>7, <1>8

----------------------------------------------------------------------------
\* The bytes of an Opcode.
LEMMA BytesAt ==
  ASSUME NEW bytes \in Seq(0 .. 255), bytes # <<>>
  PROVE  /\ Opcode(bytes) \in Codes /\ Opcode(bytes) # <<>> /\ ByteAt(Opcode(bytes), 0) = bytes[1]
         /\ \A text, p : Has(text, p, Opcode(bytes)) =>
              p \in Nat /\ \A k \in 1 .. Len(bytes) : ByteAt(text, p + (k - 1)) = bytes[k]
<1> DEFINE o == Opcode(bytes)
<1>1. o \in Codes /\ Len(o) = Len(bytes) /\ Len(bytes) \in Nat /\ Len(bytes) >= 1 BY OpcodeBytes
<1>2. Has(o, 0, o)
  <2>1. \A k \in 1 .. Len(o) : 0 + k = k BY <1>1
  <2> HIDE DEF o
  <2> QED BY <1>1, <2>1 DEF Has
<1>3. ByteAt(o, 0 + (1 - 1)) = bytes[1] BY <1>1, <1>2, OpcodeAt
<1>4. 0 + (1 - 1) = 0 OBVIOUS
<1>5. \A text, p : Has(text, p, o) => p \in Nat BY DEF Has
<1>6. o # <<>> BY <1>1
<1> QED BY <1>1, <1>3, <1>4, <1>5, <1>6, OpcodeAt

Bytes1(a)             == Opcode(<<a>>)
Bytes2(a, b)          == Opcode(<<a, b>>)
Bytes3(a, b, c)       == Opcode(<<a, b, c>>)
Bytes4(a, b, c, d)    == Opcode(<<a, b, c, d>>)
Bytes5(a, b, c, d, e) == Opcode(<<a, b, c, d, e>>)

IsByte(a) == a \in 0 .. 255

LEMMA OneByte ==
  ASSUME NEW a, IsByte(a)
  PROVE  /\ Bytes1(a) \in Codes /\ Bytes1(a) # <<>>
         /\ Len(Bytes1(a)) = 1 /\ ByteAt(Bytes1(a), 0) = a
<1> DEFINE s == <<a>>
<1>1. s \in Seq(0 .. 255) /\ s # <<>> /\ Len(s) = 1 /\ s[1] = a BY DEF IsByte
<1> HIDE DEF s
<1>2. Opcode(s) \in Codes /\ Opcode(s) # <<>> /\ Len(Opcode(s)) = 1 /\ ByteAt(Opcode(s), 0) = a
  BY <1>1, BytesAt, OpcodeBytes
<1> QED BY <1>2 DEF s, Bytes1

LEMMA OneByteAt ==
  ASSUME NEW a, IsByte(a),
         NEW text, NEW p, Has(text, p, Bytes1(a))
  PROVE  p \in Nat /\ ByteAt(text, p) = a
<1> DEFINE s == <<a>>
<1>1. /\ s \in Seq(0 .. 255) /\ s # <<>> /\ Len(s) = 1
      /\ s[1] = a
  BY DEF IsByte
<1>2. 1 \in 1 .. 1 OBVIOUS
<1>3. Has(text, p, Opcode(s)) BY DEF Bytes1
<1> HIDE DEF s
<1>4. p \in Nat /\ \A k \in 1 .. Len(s) : ByteAt(text, p + (k - 1)) = s[k] BY <1>1, <1>3, BytesAt
<1>5. p + (1 - 1) = p
  BY <1>4
<1> QED BY <1>1, <1>2, <1>4, <1>5

LEMMA TwoBytes ==
  ASSUME NEW a, NEW b, IsByte(a), IsByte(b)
  PROVE  /\ Bytes2(a, b) \in Codes /\ Bytes2(a, b) # <<>>
         /\ Len(Bytes2(a, b)) = 2 /\ ByteAt(Bytes2(a, b), 0) = a
<1> DEFINE s == <<a, b>>
<1>1. s \in Seq(0 .. 255) /\ s # <<>> /\ Len(s) = 2 /\ s[1] = a BY DEF IsByte
<1> HIDE DEF s
<1>2. Opcode(s) \in Codes /\ Opcode(s) # <<>> /\ Len(Opcode(s)) = 2 /\ ByteAt(Opcode(s), 0) = a
  BY <1>1, BytesAt, OpcodeBytes
<1> QED BY <1>2 DEF s, Bytes2

LEMMA TwoBytesAt ==
  ASSUME NEW a, NEW b, IsByte(a), IsByte(b),
         NEW text, NEW p, Has(text, p, Bytes2(a, b))
  PROVE  p \in Nat /\ ByteAt(text, p) = a /\ ByteAt(text, p + 1) = b
<1> DEFINE s == <<a, b>>
<1>1. /\ s \in Seq(0 .. 255) /\ s # <<>> /\ Len(s) = 2
      /\ s[1] = a /\ s[2] = b
  BY DEF IsByte
<1>2. 1 \in 1 .. 2 /\ 2 \in 1 .. 2 OBVIOUS
<1>3. Has(text, p, Opcode(s)) BY DEF Bytes2
<1> HIDE DEF s
<1>4. p \in Nat /\ \A k \in 1 .. Len(s) : ByteAt(text, p + (k - 1)) = s[k] BY <1>1, <1>3, BytesAt
<1>5. p + (1 - 1) = p /\ p + (2 - 1) = p + 1
  BY <1>4
<1> QED BY <1>1, <1>2, <1>4, <1>5

LEMMA ThreeBytes ==
  ASSUME NEW a, NEW b, NEW c, IsByte(a), IsByte(b), IsByte(c)
  PROVE  /\ Bytes3(a, b, c) \in Codes /\ Bytes3(a, b, c) # <<>>
         /\ Len(Bytes3(a, b, c)) = 3 /\ ByteAt(Bytes3(a, b, c), 0) = a
<1> DEFINE s == <<a, b, c>>
<1>1. s \in Seq(0 .. 255) /\ s # <<>> /\ Len(s) = 3 /\ s[1] = a BY DEF IsByte
<1> HIDE DEF s
<1>2. Opcode(s) \in Codes /\ Opcode(s) # <<>> /\ Len(Opcode(s)) = 3 /\ ByteAt(Opcode(s), 0) = a
  BY <1>1, BytesAt, OpcodeBytes
<1> QED BY <1>2 DEF s, Bytes3

LEMMA ThreeBytesAt ==
  ASSUME NEW a, NEW b, NEW c, IsByte(a), IsByte(b), IsByte(c),
         NEW text, NEW p, Has(text, p, Bytes3(a, b, c))
  PROVE  p \in Nat /\ ByteAt(text, p) = a /\ ByteAt(text, p + 1) = b /\ ByteAt(text, p + 2) = c
<1> DEFINE s == <<a, b, c>>
<1>1. /\ s \in Seq(0 .. 255) /\ s # <<>> /\ Len(s) = 3
      /\ s[1] = a /\ s[2] = b /\ s[3] = c
  BY DEF IsByte
<1>2. 1 \in 1 .. 3 /\ 2 \in 1 .. 3 /\ 3 \in 1 .. 3 OBVIOUS
<1>3. Has(text, p, Opcode(s)) BY DEF Bytes3
<1> HIDE DEF s
<1>4. p \in Nat /\ \A k \in 1 .. Len(s) : ByteAt(text, p + (k - 1)) = s[k] BY <1>1, <1>3, BytesAt
<1>5. p + (1 - 1) = p /\ p + (2 - 1) = p + 1 /\ p + (3 - 1) = p + 2
  BY <1>4
<1> QED BY <1>1, <1>2, <1>4, <1>5

LEMMA FourBytes ==
  ASSUME NEW a, NEW b, NEW c, NEW d, IsByte(a), IsByte(b), IsByte(c), IsByte(d)
  PROVE  /\ Bytes4(a, b, c, d) \in Codes /\ Bytes4(a, b, c, d) # <<>>
         /\ Len(Bytes4(a, b, c, d)) = 4 /\ ByteAt(Bytes4(a, b, c, d), 0) = a
<1> DEFINE s == <<a, b, c, d>>
<1>1. s \in Seq(0 .. 255) /\ s # <<>> /\ Len(s) = 4 /\ s[1] = a BY DEF IsByte
<1> HIDE DEF s
<1>2. Opcode(s) \in Codes /\ Opcode(s) # <<>> /\ Len(Opcode(s)) = 4 /\ ByteAt(Opcode(s), 0) = a
  BY <1>1, BytesAt, OpcodeBytes
<1> QED BY <1>2 DEF s, Bytes4

LEMMA FourBytesAt ==
  ASSUME NEW a, NEW b, NEW c, NEW d, IsByte(a), IsByte(b), IsByte(c), IsByte(d),
         NEW text, NEW p, Has(text, p, Bytes4(a, b, c, d))
  PROVE  /\ p \in Nat /\ ByteAt(text, p) = a /\ ByteAt(text, p + 1) = b /\ ByteAt(text, p + 2) = c
         /\ ByteAt(text, p + 3) = d
<1> DEFINE s == <<a, b, c, d>>
<1>1. /\ s \in Seq(0 .. 255) /\ s # <<>> /\ Len(s) = 4
      /\ s[1] = a /\ s[2] = b /\ s[3] = c /\ s[4] = d
  BY DEF IsByte
<1>2. 1 \in 1 .. 4 /\ 2 \in 1 .. 4 /\ 3 \in 1 .. 4 /\ 4 \in 1 .. 4 OBVIOUS
<1>3. Has(text, p, Opcode(s)) BY DEF Bytes4
<1> HIDE DEF s
<1>4. p \in Nat /\ \A k \in 1 .. Len(s) : ByteAt(text, p + (k - 1)) = s[k] BY <1>1, <1>3, BytesAt
<1>5. p + (1 - 1) = p /\ p + (2 - 1) = p + 1 /\ p + (3 - 1) = p + 2 /\ p + (4 - 1) = p + 3
  BY <1>4
<1> QED BY <1>1, <1>2, <1>4, <1>5

LEMMA FiveBytes ==
  ASSUME NEW a, NEW b, NEW c, NEW d, NEW e, IsByte(a), IsByte(b), IsByte(c), IsByte(d), IsByte(e)
  PROVE  /\ Bytes5(a, b, c, d, e) \in Codes /\ Bytes5(a, b, c, d, e) # <<>>
         /\ Len(Bytes5(a, b, c, d, e)) = 5 /\ ByteAt(Bytes5(a, b, c, d, e), 0) = a
<1> DEFINE s == <<a, b, c, d, e>>
<1>1. s \in Seq(0 .. 255) /\ s # <<>> /\ Len(s) = 5 /\ s[1] = a BY DEF IsByte
<1> HIDE DEF s
<1>2. Opcode(s) \in Codes /\ Opcode(s) # <<>> /\ Len(Opcode(s)) = 5 /\ ByteAt(Opcode(s), 0) = a
  BY <1>1, BytesAt, OpcodeBytes
<1> QED BY <1>2 DEF s, Bytes5

LEMMA FiveBytesAt ==
  ASSUME NEW a, NEW b, NEW c, NEW d, NEW e, IsByte(a), IsByte(b), IsByte(c), IsByte(d), IsByte(e),
         NEW text, NEW p, Has(text, p, Bytes5(a, b, c, d, e))
  PROVE  /\ p \in Nat /\ ByteAt(text, p) = a /\ ByteAt(text, p + 1) = b /\ ByteAt(text, p + 2) = c
         /\ ByteAt(text, p + 3) = d /\ ByteAt(text, p + 4) = e
<1> DEFINE s == <<a, b, c, d, e>>
<1>1. /\ s \in Seq(0 .. 255) /\ s # <<>> /\ Len(s) = 5
      /\ s[1] = a /\ s[2] = b /\ s[3] = c /\ s[4] = d /\ s[5] = e
  BY DEF IsByte
<1>2. 1 \in 1 .. 5 /\ 2 \in 1 .. 5 /\ 3 \in 1 .. 5 /\ 4 \in 1 .. 5 /\ 5 \in 1 .. 5 OBVIOUS
<1>3. Has(text, p, Opcode(s)) BY DEF Bytes5
<1> HIDE DEF s
<1>4. p \in Nat /\ \A k \in 1 .. Len(s) : ByteAt(text, p + (k - 1)) = s[k] BY <1>1, <1>3, BytesAt
<1>5. p + (1 - 1) = p /\ p + (2 - 1) = p + 1 /\ p + (3 - 1) = p + 2 /\ p + (4 - 1) = p + 3 /\ p + (5 - 1) = p + 4
  BY <1>4
<1> QED BY <1>1, <1>2, <1>4, <1>5

----------------------------------------------------------------------------
\* A call, what it asks for and for which operands it is encodable.
C(fn, a, b) == [fn |-> fn, a |-> a, b |-> b]

LEMMA NullaryDomain == DOMAIN Nullary = {"push_shadow", "pop_shadow", "jmp", "call_direct", "ret"}
BY DEF Nullary

LEMMA MeantIs ==
  ASSUME NEW a, NEW b
  PROVE  /\ Meant(C("mov_reg_to_mem", a, b)) = <<I("store", a, b, 0)>>
         /\ Meant(C("mov_mem_to_reg", a, b)) = <<I("load", b, a, 0)>>
         /\ Meant(C("mov_reg_to_reg", a, b)) = (IF a = b THEN <<>> ELSE <<I("mov", a, b, 0)>>)
         /\ Meant(C("mov_xmm_to_xmm", a, b)) = (IF a = b THEN <<>> ELSE <<I("movaps", b, a, 0)>>)
         /\ Meant(C("mov_reg_to_xmm", a, b)) = <<I("movq_to_xmm", b, a, 0)>>
         /\ Meant(C("move_xmm_to_reg", a, b)) = <<I("movq_from_xmm", a, b, 0)>>
         /\ Meant(C("add", a, b)) = <<I("add", b, a, 0)>>
         /\ Meant(C("sub", a, b)) = <<I("sub", b, a, 0)>>
         /\ Meant(C("mod", a, b)) = <<I("idiv", 0, b, 0)>>
         /\ Meant(C("add_xmm", a, b)) = <<I("addpd", a, b, 0)>>
         /\ Meant(C("sub_xmm", a, b)) = <<I("subps", a, b, 0)>>
         /\ Meant(C("mul_xmm", a, b)) = <<I("mulps", a, b, 0)>>
         /\ Meant(C("div_xmm", a, b)) = <<I("divps", a, b, 0)>>
         /\ Meant(C("push_reg", a, b)) = (IF a = RSP THEN <<>> ELSE <<I("push", 0, a, 0)>>)
         /\ Meant(C("pop_reg", a, b)) = (IF a = RSP THEN <<>> ELSE <<I("pop", 0, a, 0)>>)
         /\ Meant(C("push_xmm", a, b)) = <<I("sub_imm", 0, RSP, 16), I("movaps_store", a, RSP, 0)>>
         /\ Meant(C("pop_xmm", a, b)) = <<I("movaps_load", a, RSP, 0), I("add_imm", 0, RSP, 16)>>
         /\ Meant(C("mov_reg_int64", a, b)) = <<I("mov_imm", 0, a, Word64)>>
         /\ Meant(C("mov_xmm_f64", a, b)) = <<I("mov_imm", 0, RAX, Word64), I("movq_to_xmm", a, RAX, 0)>>
         /\ Meant(C("div", a, b)) = <<I("div", 0, a, 0)>>
         /\ Meant(C("cond_jmp", a, b)) = <<I("cmp_imm", 0, a, 0), I("jz", 0, 0, 0)>>
         /\ Meant(C("call_indirect", a, b)) = <<I("call", 0, a, 0)>>
         /\ Meant(C("push_shadow", a, b)) = <<I("sub_imm", 0, RSP, 32)>>
         /\ Meant(C("pop_shadow", a, b)) = <<I("add_imm", 0, RSP, 32)>>
         /\ Meant(C("jmp", a, b)) = <<I("jmp", 0, 0, 0)>>
         /\ Meant(C("call_direct", a, b)) = <<I("mov_imm", 0, RAX, 0), I("call", 0, RAX, 0)>>
         /\ Meant(C("ret", a, b)) = <<I("ret", 0, 0, 0)>>
<1>1. Meant(C("mov_reg_to_mem", a, b)) = <<I("store", a, b, 0)>>
  BY DEF Meant, C
<1>2. Meant(C("mov_mem_to_reg", a, b)) = <<I("load", b, a, 0)>>
  BY DEF Meant, C
<1>3. Meant(C("mov_reg_to_reg", a, b)) = (IF a = b THEN <<>> ELSE <<I("mov", a, b, 0)>>)
  BY DEF Meant, C
<1>4. Meant(C("mov_xmm_to_xmm", a, b)) = (IF a = b THEN <<>> ELSE <<I("movaps", b, a, 0)>>)
  BY DEF Meant, C
<1>5. Meant(C("mov_reg_to_xmm", a, b)) = <<I("movq_to_xmm", b, a, 0)>>
  BY DEF Meant, C
<1>6. Meant(C("move_xmm_to_reg", a, b)) = <<I("movq_from_xmm", a, b, 0)>>
  BY DEF Meant, C
<1>7. Meant(C("add", a, b)) = <<I("add", b, a, 0)>>
  BY DEF Meant, C
<1>8. Meant(C("sub", a, b)) = <<I("sub", b, a, 0)>>
  BY DEF Meant, C
<1>9. Meant(C("mod", a, b)) = <<I("idiv", 0, b, 0)>>
  BY DEF Meant, C
<1>10. Meant(C("add_xmm", a, b)) = <<I("addpd", a, b, 0)>>
  BY DEF Meant, C
<1>11. Meant(C("sub_xmm", a, b)) = <<I("subps", a, b, 0)>>
  BY DEF Meant, C
<1>12. Meant(C("mul_xmm", a, b)) = <<I("mulps", a, b, 0)>>
  BY DEF Meant, C
<1>13. Meant(C("div_xmm", a, b)) = <<I("divps", a, b, 0)>>
  BY DEF Meant, C
<1>14. Meant(C("push_reg", a, b)) = (IF a = RSP THEN <<>> ELSE <<I("push", 0, a, 0)>>)
  BY DEF Meant, C
<1>15. Meant(C("pop_reg", a, b)) = (IF a = RSP THEN <<>> ELSE <<I("pop", 0, a, 0)>>)
  BY DEF Meant, C
<1>16. Meant(C("push_xmm", a, b)) = <<I("sub_imm", 0, RSP, 16), I("movaps_store", a, RSP, 0)>>
  BY DEF Meant, C
<1>17. Meant(C("pop_xmm", a, b)) = <<I("movaps_load", a, RSP, 0), I("add_imm", 0, RSP, 16)>>
  BY DEF Meant, C
<1>18. Meant(C("mov_reg_int64", a, b)) = <<I("mov_imm", 0, a, Word64)>>
  BY DEF Meant, C
<1>19. Meant(C("mov_xmm_f64", a, b)) = <<I("mov_imm", 0, RAX, Word64), I("movq_to_xmm", a, RAX, 0)>>
  BY DEF Meant, C
<1>20. Meant(C("div", a, b)) = <<I("div", 0, a, 0)>>
  BY DEF Meant, C
<1>21. Meant(C("cond_jmp", a, b)) = <<I("cmp_imm", 0, a, 0), I("jz", 0, 0, 0)>>
  BY DEF Meant, C
<1>22. Meant(C("call_indirect", a, b)) = <<I("call", 0, a, 0)>>
  BY DEF Meant, C
<1>23. Meant(C("push_shadow", a, b)) = <<I("sub_imm", 0, RSP, 32)>>
  BY DEF Meant, C
<1>24. Meant(C("pop_shadow", a, b)) = <<I("add_imm", 0, RSP, 32)>>
  BY DEF Meant, C
<1>25. Meant(C("jmp", a, b)) = <<I("jmp", 0, 0, 0)>>
  BY DEF Meant, C
<1>26. Meant(C("call_direct", a, b)) = <<I("mov_imm", 0, RAX, 0), I("call", 0, RAX, 0)>>
  BY DEF Meant, C
<1>27. Meant(C("ret", a, b)) = <<I("ret", 0, 0, 0)>>
  BY DEF Meant, C
<1> QED BY <1>1, <1>2, <1>3, <1>4, <1>5, <1>6, <1>7, <1>8, <1>9, <1>10, <1>11, <1>12, <1>13, <1>14, <1>15, <1>16, <1>17, <1>18, <1>19, <1>20, <1>21, <1>22, <1>23, <1>24, <1>25, <1>26, <1>27

LEMMA EncodableIs ==
  ASSUME NEW a, NEW b
  PROVE  /\ Encodable(C("mov_reg_to_mem", a, b)) = (a < 8 /\ b < 8 /\ b \notin {RSP, RBP})
         /\ Encodable(C("mov_mem_to_reg", a, b)) = (a < 8 /\ b < 8 /\ a \notin {RSP, RBP})
         /\ Encodable(C("mov_reg_to_reg", a, b)) = TRUE
         /\ Encodable(C("mov_xmm_to_xmm", a, b)) = TRUE
         /\ Encodable(C("mov_reg_to_xmm", a, b)) = (a < 8 /\ b < 8)
         /\ Encodable(C("move_xmm_to_reg", a, b)) = (a < 8 /\ b < 8)
         /\ Encodable(C("add", a, b)) = (a < 8 /\ b < 8)
         /\ Encodable(C("sub", a, b)) = (a < 8 /\ b < 8)
         /\ Encodable(C("mod", a, b)) = (b < 8)
         /\ Encodable(C("add_xmm", a, b)) = (a < 8 /\ b < 8)
         /\ Encodable(C("sub_xmm", a, b)) = (b < 8)
         /\ Encodable(C("mul_xmm", a, b)) = (b < 8)
         /\ Encodable(C("div_xmm", a, b)) = (b < 8)
         /\ Encodable(C("push_reg", a, b)) = TRUE
         /\ Encodable(C("pop_reg", a, b)) = (a # RSI)
         /\ Encodable(C("push_xmm", a, b)) = FALSE
         /\ Encodable(C("pop_xmm", a, b)) = FALSE
         /\ Encodable(C("mov_reg_int64", a, b)) = (a < 8 /\ b < 8)
         /\ Encodable(C("mov_xmm_f64", a, b)) = (a < 8 /\ b < 8)
         /\ Encodable(C("div", a, b)) = (a < 8 /\ b < 8)
         /\ Encodable(C("cond_jmp", a, b)) = (a < 8 /\ b < 8)
         /\ Encodable(C("call_indirect", a, b)) = (a < 8 /\ b < 8)
         /\ Encodable(C("push_shadow", a, b)) = TRUE
         /\ Encodable(C("pop_shadow", a, b)) = TRUE
         /\ Encodable(C("jmp", a, b)) = TRUE
         /\ Encodable(C("call_direct", a, b)) = TRUE
         /\ Encodable(C("ret", a, b)) = TRUE
<1>1. Encodable(C("mov_reg_to_mem", a, b)) = (a < 8 /\ b < 8 /\ b \notin {RSP, RBP})
  BY NullaryDomain DEF Encodable, C
<1>2. Encodable(C("mov_mem_to_reg", a, b)) = (a < 8 /\ b < 8 /\ a \notin {RSP, RBP})
  BY NullaryDomain DEF Encodable, C
<1>3. Encodable(C("mov_reg_to_reg", a, b)) = TRUE
  BY NullaryDomain DEF Encodable, C
<1>4. Encodable(C("mov_xmm_to_xmm", a, b)) = TRUE
  BY NullaryDomain DEF Encodable, C
<1>5. Encodable(C("mov_reg_to_xmm", a, b)) = (a < 8 /\ b < 8)
  BY NullaryDomain DEF Encodable, C
<1>6. Encodable(C("move_xmm_to_reg", a, b)) = (a < 8 /\ b < 8)
  BY NullaryDomain DEF Encodable, C
<1>7. Encodable(C("add", a, b)) = (a < 8 /\ b < 8)
  BY NullaryDomain DEF Encodable, C
<1>8. Encodable(C("sub", a, b)) = (a < 8 /\ b < 8)
  BY NullaryDomain DEF Encodable, C
<1>9. Encodable(C("mod", a, b)) = (b < 8)
  BY NullaryDomain DEF Encodable, C
<1>10. Encodable(C("add_xmm", a, b)) = (a < 8 /\ b < 8)
  BY NullaryDomain DEF Encodable, C
<1>11. Encodable(C("sub_xmm", a, b)) = (b < 8)
  BY NullaryDomain DEF Encodable, C
<1>12. Encodable(C("mul_xmm", a, b)) = (b < 8)
  BY NullaryDomain DEF Encodable, C
<1>13. Encodable(C("div_xmm", a, b)) = (b < 8)
  BY NullaryDomain DEF Encodable, C
<1>14. Encodable(C("push_reg", a, b)) = TRUE
  BY NullaryDomain DEF Encodable, C
<1>15. Encodable(C("pop_reg", a, b)) = (a # RSI)
  BY NullaryDomain DEF Encodable, C
<1>16. Encodable(C("push_xmm", a, b)) = FALSE
  BY NullaryDomain DEF Encodable, C
<1>17. Encodable(C("pop_xmm", a, b)) = FALSE
  BY NullaryDomain DEF Encodable, C
<1>18. Encodable(C("mov_reg_int64", a, b)) = (a < 8 /\ b < 8)
  BY NullaryDomain DEF Encodable, C
<1>19. Encodable(C("mov_xmm_f64", a, b)) = (a < 8 /\ b < 8)
  BY NullaryDomain DEF Encodable, C
<1>20. Encodable(C("div", a, b)) = (a < 8 /\ b < 8)
  BY NullaryDomain DEF Encodable, C
<1>21. Encodable(C("cond_jmp", a, b)) = (a < 8 /\ b < 8)
  BY NullaryDomain DEF Encodable, C
<1>22. Encodable(C("call_indirect", a, b)) = (a < 8 /\ b < 8)
  BY NullaryDomain DEF Encodable, C
<1>23. Encodable(C("push_shadow", a, b)) = TRUE
  BY NullaryDomain DEF Encodable, C
<1>24. Encodable(C("pop_shadow", a, b)) = TRUE
  BY NullaryDomain DEF Encodable, C
<1>25. Encodable(C("jmp", a, b)) = TRUE
  BY NullaryDomain DEF Encodable, C
<1>26. Encodable(C("call_direct", a, b)) = TRUE
  BY NullaryDomain DEF Encodable, C
<1>27. Encodable(C("ret", a, b)) = TRUE
  BY NullaryDomain DEF Encodable, C
<1> QED BY <1>1, <1>2, <1>3, <1>4, <1>5, <1>6, <1>7, <1>8, <1>9, <1>10, <1>11, <1>12, <1>13, <1>14, <1>15, <1>16, <1>17, <1>18, <1>19, <1>20, <1>21, <1>22, <1>23, <1>24, <1>25, <1>26, <1>27

----------------------------------------------------------------------------
\* What each function writes, for all operands.
Written(bytes, c) ==
  /\ bytes \in Codes /\ ByteAt(bytes, 0) # 36
  /\ Encodable(c) => Right(bytes, Meant(c))
  /\ ~Encodable(c) => Wrong(bytes, Meant(c))

LEMMA TupleFields ==
  /\ \A op, reg, rm, imm : I(op, reg, rm, imm)[1] = op
  /\ \A op, reg, rm, imm, op2, reg2, rm2, imm2 :
       I(op, reg, rm, imm) = I(op2, reg2, rm2, imm2) <=> op = op2 /\ reg = reg2 /\ rm = rm2 /\ imm = imm2
BY DEF I

\* The bytes are the one instruction i, wherever they are.
Is(bytes, i) ==
  /\ bytes \in Codes /\ bytes # <<>> /\ ByteAt(bytes, 0) # 36 /\ i[1] # "undefined"
  /\ \A text, p : Stands(text, p, bytes) =>
       Tuple(Decode(text, p)) = i /\ Decode(text, p).len = p + Len(bytes)

LEMMA Exact ==
  ASSUME NEW bytes, NEW i, Is(bytes, i), NEW c, NEW j, Meant(c) = <<j>>, Encodable(c) <=> i = j
  PROVE  Written(bytes, c)
<1>1. Right(bytes, <<i>>) /\ \A k : k # i => Wrong(bytes, <<k>>) BY OneInstruction DEF Is
<1>2. bytes \in Codes /\ ByteAt(bytes, 0) # 36 BY DEF Is
<1> QED BY <1>1, <1>2 DEF Written

LEMMA DecodePlain ==
  ASSUME NEW text, NEW p \in Nat, ByteAt(text, p) \in Nat, ByteAt(text, p) # 102, ~(ByteAt(text, p) \in 64 .. 79)
  PROVE  Decode(text, p) = DecodeOpcode(text, XPlain(p), ByteAt(text, p), p + 1)
<1>1. PrefixesAt(text, p) = XPlain(p) BY NoPrefix
<1> QED BY <1>1, XFields DEF Decode

LEMMA DecodeRex ==
  ASSUME NEW text, NEW p \in Nat, NEW n \in 0 .. 15, ByteAt(text, p) = 64 + n, ByteAt(text, p + 1) # 102
  PROVE  Decode(text, p) = DecodeOpcode(text, XRex(n, p + 1), ByteAt(text, p + 1), p + 2)
<1>1. PrefixesAt(text, p) = XRex(n, p + 1) BY RexPrefix
<1>2. p + 1 + 1 = p + 2 OBVIOUS
<1> QED BY <1>1, <1>2, XFields DEF Decode

LEMMA DecodeWide ==
  ASSUME NEW text, NEW p \in Nat, ByteAt(text, p) = 72, ByteAt(text, p + 1) # 102
  PROVE  Decode(text, p) = DecodeOpcode(text, XRex(8, p + 1), ByteAt(text, p + 1), p + 2)
<1>1. 8 \in 0 .. 15 /\ 64 + 8 = 72 OBVIOUS
<1> QED BY <1>1, DecodeRex

LEMMA DecodeSized ==
  ASSUME NEW text, NEW p \in Nat, ByteAt(text, p) = 102, ByteAt(text, p + 1) = 72, ByteAt(text, p + 2) = 15
  PROVE  Decode(text, p) = DecodeEscape(text, XSized(p + 2), p + 3)
<1>1. PrefixesAt(text, p) = XSized(p + 2) BY SizePrefix
<1>2. p + 2 + 1 = p + 3 OBVIOUS
<1>3. Decode(text, p) = DecodeOpcode(text, XSized(p + 2), 15, p + 3) BY <1>1, <1>2, XFields DEF Decode
<1>4. \A x, q : DecodeOpcode(text, x, 15, q) = DecodeEscape(text, x, q) BY DecodeModRM
<1> QED BY <1>3, <1>4

LEMMA DecodeIgnored ==
  ASSUME NEW text, NEW p \in Nat,
         ByteAt(text, p) \in 64 .. 79, ByteAt(text, p + 1) = 102, ByteAt(text, p + 2) = 15
  PROVE  Decode(text, p) = DecodeEscape(text, XIgnored(p + 2), p + 3)
<1>1. PrefixesAt(text, p) = XIgnored(p + 2) BY IgnoredRexPrefix
<1>2. p + 2 + 1 = p + 3 OBVIOUS
<1>3. Decode(text, p) = DecodeOpcode(text, XIgnored(p + 2), 15, p + 3) BY <1>1, <1>2, XFields DEF Decode
<1>4. \A x, q : DecodeOpcode(text, x, 15, q) = DecodeEscape(text, x, q) BY DecodeModRM
<1> QED BY <1>3, <1>4

LEMMA LowIs ==
  ASSUME NEW r \in Registers
  PROVE  /\ r < 8 <=> Low(r) = r
         /\ Low(r) \in Registers /\ Low(r) \in 0 .. 7 /\ Low(r) + 0 = Low(r) /\ Low(r) + 8 * High(r) = r
BY DEF Registers, Low, High

\* mov_reg_to_mem and mov_mem_to_reg: through the address in a register.
LEMMA Through ==
  ASSUME NEW op \in {137, 139}, NEW name, name # "undefined", name # "none", NEW direct,
         \A text, x, q : DecodeOpcode(text, x, op, q) = WithModRM(text, x, q, direct, name),
         NEW r \in Registers, NEW k \in Registers, NEW c, Meant(c) = <<I(name, r, k, 0)>>,
         Encodable(c) <=> r < 8 /\ k < 8 /\ k \notin {4, 5}
  PROVE  Written(Bytes3(72, op, ModRM(0, r, k)), c)
<1> DEFINE m == ModRM(0, r, k)
           bytes == Bytes3(72, op, m)
<1>1. m \in 0 .. 255 BY ModRMFields
<1>a. IsByte(72) /\ IsByte(op) /\ IsByte(m) /\ op # 102 BY <1>1 DEF IsByte
<1>2. /\ bytes \in Codes /\ bytes # <<>> /\ Len(bytes) = 3 /\ ByteAt(bytes, 0) = 72
      /\ \A text, p : Has(text, p, bytes) =>
           p \in Nat /\ ByteAt(text, p) = 72 /\ ByteAt(text, p + 1) = op /\ ByteAt(text, p + 2) = m
  <2> HIDE DEF m
  <2>1. bytes \in Codes /\ bytes # <<>> /\ Len(bytes) = 3 /\ ByteAt(bytes, 0) = 72 BY <1>a, ThreeBytes
  <2>2. ASSUME NEW text, NEW p, Has(text, p, bytes)
        PROVE  p \in Nat /\ ByteAt(text, p) = 72 /\ ByteAt(text, p + 1) = op /\ ByteAt(text, p + 2) = m
    BY <1>a, <2>2, ThreeBytesAt
  <2> QED BY <2>1, <2>2
<1>b. m = ModRM(0, r, k) OBVIOUS
<1> SUFFICES Written(bytes, c) OBVIOUS
<1> HIDE DEF bytes, m
<1>3. ASSUME NEW text, NEW p, Stands(text, p, bytes)
      PROVE  /\ p \in Nat /\ p + 2 \in Nat /\ p + 2 + 1 = p + 3 /\ ByteAt(text, p + 3) # 36
             /\ ByteAt(text, p + 2) = ModRM(0, r, k)
             /\ Decode(text, p) = WithModRM(text, XRex(8, p + 1), p + 2, direct, name)
  <2>1. Has(text, p, bytes) /\ ByteAt(text, p + 3) # 36 BY <1>2, <1>3 DEF Stands
  <2>2. p \in Nat /\ ByteAt(text, p) = 72 /\ ByteAt(text, p + 1) = op /\ ByteAt(text, p + 2) = m
    BY <1>2, <2>1
  <2>3. p + 2 \in Nat /\ p + 2 + 1 = p + 3 BY <2>2
  <2>4. Decode(text, p) = DecodeOpcode(text, XRex(8, p + 1), ByteAt(text, p + 1), p + 2)
    BY <1>a, <2>2, DecodeWide
  <2> QED BY <1>b, <2>1, <2>2, <2>3, <2>4
<1>4. CASE Low(k) \notin {4, 5}
  <2> DEFINE i == I(name, Low(r), Low(k), 0)
  <2>1. ASSUME NEW text, NEW p, Stands(text, p, bytes)
        PROVE  Tuple(Decode(text, p)) = i /\ Decode(text, p).len = p + Len(bytes)
    <3> DEFINE x == XRex(8, p + 1)
    <3>1. x.r = 0 /\ x.b = 0 BY XFields
    <3>2. p + 2 \in Nat /\ ByteAt(text, p + 2) = ModRM(0, r, k) BY <1>3, <2>1
    <3>3. Decode(text, p) = WithModRM(text, x, p + 2, direct, name) BY <1>3, <2>1
    <3> HIDE DEF x
    <3>4. x.r \in Int BY <3>1
    <3>5. WithModRM(text, x, p + 2, direct, name)
            = Instruction(name, x.w, Low(r) + x.r, Low(k), 0, p + 2 + 1)
      BY <1>4, <3>1, <3>2, <3>4, ThroughRegister
    <3>6. Low(r) + x.r = Low(r) /\ p + 2 + 1 = p + 3 BY <1>3, <2>1, <3>1, LowIs
    <3> QED BY <1>2, <3>3, <3>5, <3>6, TupleIs
  <2>2. i[1] # "undefined" BY TupleFields
  <2>3. Encodable(c) <=> i = I(name, r, k, 0)
    <3>1. i = I(name, r, k, 0) <=> Low(r) = r /\ Low(k) = k BY TupleFields
    <3>2. Low(k) = k => k \notin {4, 5} BY <1>4
    <3> QED BY <3>1, <3>2, LowIs
  <2>4. ByteAt(bytes, 0) # 36 BY <1>2
  <2> HIDE DEF i
  <2>5. Is(bytes, i) BY <1>2, <2>1, <2>2, <2>4 DEF Is
  <2> QED BY <2>3, <2>5, Exact
<1>5. CASE Low(k) \in {4, 5}
  <2>1. ~Encodable(c) BY <1>5, LowIs
  <2>2. ASSUME NEW text, NEW p, Stands(text, p, bytes)
        PROVE  Tuple(Decode(text, p)) # I(name, r, k, 0)
    <3> DEFINE x == XRex(8, p + 1)
    <3>1. x.b = 0 BY XFields
    <3>2. p + 2 \in Nat /\ ByteAt(text, p + 2) = ModRM(0, r, k) /\ ByteAt(text, p + 2 + 1) # 36 BY <1>3, <2>2
    <3>3. Decode(text, p) = WithModRM(text, x, p + 2, direct, name) BY <1>3, <2>2
    <3> HIDE DEF x
    <3>4. Decode(text, p) = Undefined BY <1>5, <3>1, <3>2, <3>3, NotThroughRegister
    <3>5. Tuple(Undefined)[1] = "undefined" BY DEF Tuple, Undefined, I
    <3> QED BY <3>4, <3>5, TupleFields
  <2>3. Wrong(bytes, <<I(name, r, k, 0)>>) BY <1>2, <2>2, NotThisInstruction
  <2>4. ByteAt(bytes, 0) # 36 BY <1>2
  <2> QED BY <1>2, <2>1, <2>3, <2>4 DEF Written
<1> QED BY <1>4, <1>5

LEMMA StoreLoadWritten ==
  ASSUME NEW a \in Registers, NEW b \in Registers
  PROVE  /\ Written(write_mov_reg_to_mem(a, b), C("mov_reg_to_mem", a, b))
         /\ Written(write_mov_mem_to_reg(a, b), C("mov_mem_to_reg", a, b))
<1>1. Written(write_mov_reg_to_mem(a, b), C("mov_reg_to_mem", a, b))
  <2>1. \A text, x, q : DecodeOpcode(text, x, 137, q) = WithModRM(text, x, q, "mov", "store") BY DecodeModRM
  <2>2. Meant(C("mov_reg_to_mem", a, b)) = <<I("store", a, b, 0)>> BY MeantIs
  <2>3. Encodable(C("mov_reg_to_mem", a, b)) <=> a < 8 /\ b < 8 /\ b \notin {4, 5} BY EncodableIs DEF RSP, RBP
  <2>4. Written(Bytes3(72, 137, ModRM(0, a, b)), C("mov_reg_to_mem", a, b)) BY <2>1, <2>2, <2>3, Through
  <2> QED BY <2>4 DEF write_mov_reg_to_mem, Bytes3
<1>2. Written(write_mov_mem_to_reg(a, b), C("mov_mem_to_reg", a, b))
  <2>1. \A text, x, q : DecodeOpcode(text, x, 139, q) = WithModRM(text, x, q, "none", "load") BY DecodeModRM
  <2>2. Meant(C("mov_mem_to_reg", a, b)) = <<I("load", b, a, 0)>> BY MeantIs
  <2>3. Encodable(C("mov_mem_to_reg", a, b)) <=> b < 8 /\ a < 8 /\ a \notin {4, 5} BY EncodableIs DEF RSP, RBP
  <2>4. Written(Bytes3(72, 139, ModRM(0, b, a)), C("mov_mem_to_reg", a, b)) BY <2>1, <2>2, <2>3, Through
  <2> QED BY <2>4 DEF write_mov_mem_to_reg, Bytes3
<1> QED BY <1>1, <1>2

\* An instruction between registers, off bytes into which its ModR/M byte is.
LEMMA Direct ==
  ASSUME NEW bytes \in Codes, bytes # <<>>, ByteAt(bytes, 0) # 36, NEW off \in Nat, Len(bytes) = off + 1,
         NEW r \in Registers, NEW k \in Registers, NEW xr \in Int, NEW xb \in Int,
         NEW name, name # "undefined", name # "none", NEW through,
         \A text, p : Stands(text, p, bytes) =>
           \E x : /\ x.r = xr /\ x.b = xb /\ ByteAt(text, p + off) = ModRM(3, r, k)
                  /\ Decode(text, p) = WithModRM(text, x, p + off, name, through)
  PROVE  Is(bytes, I(name, Low(r) + xr, Low(k) + xb, 0))
<1> DEFINE i == I(name, Low(r) + xr, Low(k) + xb, 0)
<1>1. ASSUME NEW text, NEW p, Stands(text, p, bytes)
      PROVE  Tuple(Decode(text, p)) = i /\ Decode(text, p).len = p + Len(bytes)
  <2>1. p \in Nat BY <1>1 DEF Stands, Has
  <2>2. PICK x : /\ x.r = xr /\ x.b = xb /\ ByteAt(text, p + off) = ModRM(3, r, k)
                 /\ Decode(text, p) = WithModRM(text, x, p + off, name, through)
    BY <1>1
  <2>3. p + off \in Nat /\ p + off + 1 = p + Len(bytes) BY <2>1
  <2>4. x.r \in Int /\ x.b \in Int BY <2>2
  <2>5. WithModRM(text, x, p + off, name, through)
          = Instruction(name, x.w, Low(r) + x.r, Low(k) + x.b, 0, p + off + 1)
    BY <2>2, <2>3, <2>4, BetweenRegisters
  <2> QED BY <2>2, <2>3, <2>5, TupleIs
<1>2. i[1] # "undefined" BY TupleFields
<1> HIDE DEF i
<1>3. Is(bytes, i) BY <1>1, <1>2 DEF Is
<1> QED BY <1>3 DEF i

\* The same when the operation is one of a group.
LEMMA DirectGroup ==
  ASSUME NEW bytes \in Codes, bytes # <<>>, ByteAt(bytes, 0) # 36, NEW off \in Nat, Len(bytes) = off + 1,
         NEW g \in 0 .. 7, NEW k \in Registers, NEW ops, g \in DOMAIN ops, ops[g] # "undefined",
         \A text, p : Stands(text, p, bytes) =>
           \E x : /\ x.r = 0 /\ x.b = 0 /\ ByteAt(text, p + off) = ModRM(3, g, k)
                  /\ Decode(text, p) = InGroup(text, x, p + off, ops)
  PROVE  Is(bytes, I(ops[g], 0, Low(k), 0))
<1> DEFINE i == I(ops[g], 0, Low(k), 0)
<1>1. ASSUME NEW text, NEW p, Stands(text, p, bytes)
      PROVE  Tuple(Decode(text, p)) = i /\ Decode(text, p).len = p + Len(bytes)
  <2>1. p \in Nat BY <1>1 DEF Stands, Has
  <2>2. PICK x : /\ x.r = 0 /\ x.b = 0 /\ ByteAt(text, p + off) = ModRM(3, g, k)
                 /\ Decode(text, p) = InGroup(text, x, p + off, ops)
    BY <1>1
  <2>3. p + off \in Nat /\ p + off + 1 = p + Len(bytes) BY <2>1
  <2>4. x.r \in Int /\ x.b \in Int BY <2>2
  <2>5. g \in Registers /\ Low(g) = g BY DEF Registers, Low
  <2>6. "group" # "none" OBVIOUS
  <2>7. WithModRM(text, x, p + off, "group", "none")
          = Instruction("group", x.w, Low(g) + x.r, Low(k) + x.b, 0, p + off + 1)
    BY <2>2, <2>3, <2>4, <2>5, <2>6, BetweenRegisters
  <2>8. Low(g) + x.r = g /\ Low(k) + x.b = Low(k) BY <2>2, <2>5, LowIs
  <2>a. WithModRM(text, x, p + off, "group", "none") = Instruction("group", x.w, g, Low(k), 0, p + off + 1)
    BY <2>7, <2>8
  <2>b. g % 8 = g OBVIOUS
  <2>9. InGroup(text, x, p + off, ops) = Instruction(ops[g], x.w, 0, Low(k), 0, p + off + 1)
    BY <2>a, <2>b, GroupOf
  <2> QED BY <2>2, <2>3, <2>9, TupleIs
<1>2. i[1] # "undefined" BY TupleFields
<1> HIDE DEF i
<1>3. Is(bytes, i) BY <1>1, <1>2 DEF Is
<1> QED BY <1>3 DEF i

\* An instruction whose prefix has no bit for a register among the last eight.
LEMMA Unprefixed ==
  ASSUME NEW bytes \in Codes, bytes # <<>>, ByteAt(bytes, 0) # 36,
         NEW c, NEW j, Meant(c) = <<j>>, ~Encodable(c), j[3] \in Nat, j[3] >= 8,
         \A text, p : Stands(text, p, bytes) => Decode(text, p).rm < 8
  PROVE  Written(bytes, c)
<1>1. ASSUME NEW text, NEW p, Stands(text, p, bytes)
      PROVE  Tuple(Decode(text, p)) # j
  <2>1. Decode(text, p).rm < 8 BY <1>1
  <2>2. Tuple(Decode(text, p))[3] = Decode(text, p).rm BY DEF Tuple, I
  <2>3. ~(j[3] < 8) OBVIOUS
  <2> QED BY <2>1, <2>2, <2>3
<1>2. Wrong(bytes, <<j>>) BY <1>1, NotThisInstruction
<1> QED BY <1>2 DEF Written

LEMMA NothingWritten ==
  ASSUME NEW c, Meant(c) = <<>>, Encodable(c)
  PROVE  Written(<<>>, c)
<1>1. <<>> \in Codes BY DEF Codes
<1>2. ByteAt(<<>>, 0) # 36 BY DEF ByteAt
<1> QED BY <1>1, <1>2 DEF Written, Right

LEMMA RexOf ==
  ASSUME NEW a \in Registers, NEW b \in Registers
  PROVE  /\ 8 + 4 * High(a) + High(b) \in 0 .. 15 /\ 4 * High(a) + High(b) \in 0 .. 15
         /\ 4 * High(a) + 8 * High(b) \in 0 .. 15
         /\ Bit(8 + 4 * High(a) + High(b), 4) = High(a) /\ Bit(8 + 4 * High(a) + High(b), 1) = High(b)
         /\ Bit(4 * High(a) + High(b), 4) = High(a) /\ Bit(4 * High(a) + High(b), 1) = High(b)
         /\ Bit(4 * High(a) + 8 * High(b), 4) = High(a) /\ Bit(4 * High(a) + 8 * High(b), 1) = 0
<1> DEFINE h == High(a)
           g == High(b)
<1>1. h \in {0, 1} /\ g \in {0, 1} BY LowRange
<1> SUFFICES /\ 8 + 4 * h + g \in 0 .. 15 /\ 4 * h + g \in 0 .. 15
             /\ 4 * h + 8 * g \in 0 .. 15
             /\ Bit(8 + 4 * h + g, 4) = h /\ Bit(8 + 4 * h + g, 1) = g
             /\ Bit(4 * h + g, 4) = h /\ Bit(4 * h + g, 1) = g
             /\ Bit(4 * h + 8 * g, 4) = h /\ Bit(4 * h + 8 * g, 1) = 0
  OBVIOUS
<1> HIDE DEF h, g
<1> QED BY <1>1 DEF Bit

LEMMA MovWritten ==
  ASSUME NEW a \in Registers, NEW b \in Registers
  PROVE  Written(write_mov_reg_to_reg(a, b), C("mov_reg_to_reg", a, b))
<1> DEFINE c == C("mov_reg_to_reg", a, b)
<1>1. Encodable(c) BY EncodableIs
<1>2. CASE a = b
  <2>1. Meant(c) = <<>> BY <1>2, MeantIs
  <2> QED BY <1>1, <1>2, <2>1, NothingWritten DEF write_mov_reg_to_reg
<1>3. CASE a # b
  <2>1. Meant(c) = <<I("mov", a, b, 0)>> BY <1>3, MeantIs
  <2> DEFINE n == 8 + 4 * High(a) + High(b)
             m == ModRM(3, a, b)
             bytes == Bytes3(64 + n, 137, m)
  <2>2. n \in 0 .. 15 /\ Bit(n, 4) = High(a) /\ Bit(n, 1) = High(b) BY RexOf
  <2>3. 72 + 4 * High(a) + High(b) = 64 + n BY LowRange
  <2>4. write_mov_reg_to_reg(a, b) = bytes BY <1>3, <2>3 DEF write_mov_reg_to_reg, Bytes3
  <2>5. m \in 0 .. 255 /\ m = ModRM(3, a, b) BY ModRMFields
  <2> HIDE DEF n, m, c
  <2>6. IsByte(64 + n) /\ IsByte(137) /\ IsByte(m) /\ 64 + n # 36 BY <2>2, <2>5 DEF IsByte
  <2>7. bytes \in Codes /\ bytes # <<>> /\ Len(bytes) = 3 /\ ByteAt(bytes, 0) # 36 BY <2>6, ThreeBytes
  <2>8. ASSUME NEW text, NEW p, Stands(text, p, bytes)
        PROVE  \E x : /\ x.r = 8 * High(a) /\ x.b = 8 * High(b) /\ ByteAt(text, p + 2) = ModRM(3, a, b)
                      /\ Decode(text, p) = WithModRM(text, x, p + 2, "mov", "store")
    <3>1. Has(text, p, bytes) BY <2>8 DEF Stands
    <3>2. p \in Nat /\ ByteAt(text, p) = 64 + n /\ ByteAt(text, p + 1) = 137 /\ ByteAt(text, p + 2) = m
      BY <2>6, <3>1, ThreeBytesAt
    <3>3. ByteAt(text, p + 1) # 102 BY <3>2
    <3>4. Decode(text, p) = DecodeOpcode(text, XRex(n, p + 1), 137, p + 2) BY <2>2, <3>2, <3>3, DecodeRex
    <3>5. Decode(text, p) = WithModRM(text, XRex(n, p + 1), p + 2, "mov", "store") BY <3>4, DecodeModRM
    <3>6. XRex(n, p + 1).r = 8 * High(a) /\ XRex(n, p + 1).b = 8 * High(b) BY <2>2, XFields
    <3> QED BY <2>5, <3>2, <3>5, <3>6
  <2>9. 8 * High(a) \in Int /\ 8 * High(b) \in Int /\ 3 = 2 + 1 /\ 2 \in Nat BY LowRange
  <2>10. "mov" # "undefined" /\ "mov" # "none" OBVIOUS
  <2> HIDE DEF bytes
  <2>11. Is(bytes, I("mov", Low(a) + 8 * High(a), Low(b) + 8 * High(b), 0))
    BY <2>7, <2>8, <2>9, <2>10, Direct
  <2>12. Is(bytes, I("mov", a, b, 0)) BY <2>11, LowIs
  <2>13. Written(bytes, c) BY <1>1, <2>1, <2>12, Exact DEF c
  <2> QED BY <2>4, <2>13 DEF c
<1> QED BY <1>2, <1>3

LEMMA MovapsWritten ==
  ASSUME NEW a \in Registers, NEW b \in Registers
  PROVE  Written(write_mov_xmm_to_xmm(a, b), C("mov_xmm_to_xmm", a, b))
<1> DEFINE c == C("mov_xmm_to_xmm", a, b)
           n == 4 * High(b) + High(a)
           m == ModRM(3, b, a)
<1>1. Encodable(c) BY EncodableIs
<1>2. n \in 0 .. 15 /\ Bit(n, 4) = High(b) /\ Bit(n, 1) = High(a) BY RexOf
<1>3. m \in 0 .. 255 /\ m = ModRM(3, b, a) BY ModRMFields
<1>4. 64 + 4 * High(b) + High(a) = 64 + n BY LowRange
<1>5. CASE a = b
  <2>1. Meant(c) = <<>> BY <1>5, MeantIs
  <2> QED BY <1>1, <1>5, <2>1, NothingWritten DEF write_mov_xmm_to_xmm
<1>6. CASE a # b /\ (a >= 8 \/ b >= 8)
  <2> DEFINE rex == Opcode(<<64 + n>>)
             rest == Opcode(<<15, 40, m>>)
             bytes == Bytes4(64 + n, 15, 40, m)
  <2>1. Meant(c) = <<I("movaps", b, a, 0)>> BY <1>6, MeantIs
  <2>2. rex \o rest = bytes BY DEF Opcode, Bytes4
  <2>3. write_mov_xmm_to_xmm(a, b) = bytes BY <1>4, <1>6, <2>2 DEF write_mov_xmm_to_xmm
  <2> HIDE DEF n, m, c
  <2>4. IsByte(64 + n) /\ IsByte(15) /\ IsByte(40) /\ IsByte(m) /\ 64 + n # 36 BY <1>2, <1>3 DEF IsByte
  <2>5. bytes \in Codes /\ bytes # <<>> /\ Len(bytes) = 4 /\ ByteAt(bytes, 0) # 36 BY <2>4, FourBytes
  <2>6. ASSUME NEW text, NEW p, Stands(text, p, bytes)
        PROVE  \E x : /\ x.r = 8 * High(b) /\ x.b = 8 * High(a) /\ ByteAt(text, p + 3) = ModRM(3, b, a)
                      /\ Decode(text, p) = WithModRM(text, x, p + 3, "movaps", "movaps_load")
    <3>1. Has(text, p, bytes) BY <2>6 DEF Stands
    <3>2. /\ p \in Nat /\ ByteAt(text, p) = 64 + n /\ ByteAt(text, p + 1) = 15 /\ ByteAt(text, p + 2) = 40
          /\ ByteAt(text, p + 3) = m
      BY <2>4, <3>1, FourBytesAt
    <3>3. ByteAt(text, p + 1) # 102 /\ p + 2 \in Nat /\ p + 2 + 1 = p + 3 BY <3>2
    <3>4. Decode(text, p) = DecodeOpcode(text, XRex(n, p + 1), 15, p + 2) BY <1>2, <3>2, <3>3, DecodeRex
    <3>5. Decode(text, p) = DecodeEscape(text, XRex(n, p + 1), p + 2) BY <3>4, DecodeModRM
    <3>6. Unsized(XRex(n, p + 1)) /\ XRex(n, p + 1).r = 8 * High(b) /\ XRex(n, p + 1).b = 8 * High(a)
      BY <1>2, XFields DEF Unsized
    <3>7. Decode(text, p) = WithModRM(text, XRex(n, p + 1), p + 3, "movaps", "movaps_load")
      BY <3>2, <3>3, <3>5, <3>6, DecodeSse
    <3> QED BY <1>3, <3>2, <3>6, <3>7
  <2>7. 8 * High(b) \in Int /\ 8 * High(a) \in Int /\ 4 = 3 + 1 /\ 3 \in Nat BY LowRange
  <2>8. "movaps" # "undefined" /\ "movaps" # "none" OBVIOUS
  <2> HIDE DEF bytes
  <2>9. Is(bytes, I("movaps", Low(b) + 8 * High(b), Low(a) + 8 * High(a), 0))
    BY <2>5, <2>6, <2>7, <2>8, Direct
  <2>10. Is(bytes, I("movaps", b, a, 0)) BY <2>9, LowIs
  <2>11. Written(bytes, c) BY <1>1, <2>1, <2>10, Exact DEF c
  <2> QED BY <2>3, <2>11 DEF c
<1>7. CASE a # b /\ ~(a >= 8 \/ b >= 8)
  <2> DEFINE bytes == Bytes3(15, 40, m)
             rest == Opcode(<<15, 40, m>>)
  <2>1. Meant(c) = <<I("movaps", b, a, 0)>> BY <1>7, MeantIs
  <2>2. <<>> \o rest = bytes BY DEF Opcode, Bytes3
  <2>3. write_mov_xmm_to_xmm(a, b) = bytes BY <1>7, <2>2 DEF write_mov_xmm_to_xmm
  <2> HIDE DEF n, m, c
  <2>4. IsByte(15) /\ IsByte(40) /\ IsByte(m) BY <1>3 DEF IsByte
  <2>5. bytes \in Codes /\ bytes # <<>> /\ Len(bytes) = 3 /\ ByteAt(bytes, 0) # 36 BY <2>4, ThreeBytes
  <2>6. ASSUME NEW text, NEW p, Stands(text, p, bytes)
        PROVE  \E x : /\ x.r = 0 /\ x.b = 0 /\ ByteAt(text, p + 2) = ModRM(3, b, a)
                      /\ Decode(text, p) = WithModRM(text, x, p + 2, "movaps", "movaps_load")
    <3>1. Has(text, p, bytes) BY <2>6 DEF Stands
    <3>2. p \in Nat /\ ByteAt(text, p) = 15 /\ ByteAt(text, p + 1) = 40 /\ ByteAt(text, p + 2) = m
      BY <2>4, <3>1, ThreeBytesAt
    <3>3. p + 1 \in Nat /\ p + 1 + 1 = p + 2 BY <3>2
    <3>4. Decode(text, p) = DecodeOpcode(text, XPlain(p), 15, p + 1) BY <3>2, DecodePlain
    <3>5. Decode(text, p) = DecodeEscape(text, XPlain(p), p + 1) BY <3>4, DecodeModRM
    <3>6. Unsized(XPlain(p)) /\ XPlain(p).r = 0 /\ XPlain(p).b = 0 BY XFields DEF Unsized
    <3>7. Decode(text, p) = WithModRM(text, XPlain(p), p + 2, "movaps", "movaps_load")
      BY <3>2, <3>3, <3>5, <3>6, DecodeSse
    <3> QED BY <1>3, <3>2, <3>6, <3>7
  <2>7. 0 \in Int /\ 3 = 2 + 1 /\ 2 \in Nat OBVIOUS
  <2>8. "movaps" # "undefined" /\ "movaps" # "none" OBVIOUS
  <2> HIDE DEF bytes
  <2>9. Is(bytes, I("movaps", Low(b) + 0, Low(a) + 0, 0))
    BY <2>5, <2>6, <2>7, <2>8, Direct
  <2>a. a < 8 /\ b < 8 BY <1>7 DEF Registers
  <2>10. Is(bytes, I("movaps", b, a, 0)) BY <2>9, <2>a, LowIs
  <2>11. Written(bytes, c) BY <1>1, <2>1, <2>10, Exact DEF c
  <2> QED BY <2>3, <2>11 DEF c
<1> QED BY <1>5, <1>6, <1>7

LEMMA MovqToXmmWritten ==
  ASSUME NEW a \in Registers, NEW b \in Registers
  PROVE  Written(write_mov_reg_to_xmm(a, b), C("mov_reg_to_xmm", a, b))
<1> DEFINE c == C("mov_reg_to_xmm", a, b)
           m == ModRM(3, b, a)
           bytes == Bytes5(102, 72, 15, 110, m)
<1>1. Meant(c) = <<I("movq_to_xmm", b, a, 0)>> BY MeantIs
<1>a. (Encodable(c) <=> a < 8 /\ b < 8) BY EncodableIs
<1>2. m \in 0 .. 255 /\ m = ModRM(3, b, a) BY ModRMFields
<1>3. write_mov_reg_to_xmm(a, b) = bytes BY DEF write_mov_reg_to_xmm, Bytes5
<1> HIDE DEF m, c
<1>4. IsByte(102) /\ IsByte(72) /\ IsByte(15) /\ IsByte(110) /\ IsByte(m) BY <1>2 DEF IsByte
<1>5. bytes \in Codes /\ bytes # <<>> /\ Len(bytes) = 5 /\ ByteAt(bytes, 0) # 36 BY <1>4, FiveBytes
<1>6. ASSUME NEW text, NEW p, Stands(text, p, bytes)
      PROVE  \E x : /\ x.r = 0 /\ x.b = 0 /\ ByteAt(text, p + 4) = ModRM(3, b, a)
                    /\ Decode(text, p) = WithModRM(text, x, p + 4, "movq_to_xmm", "none")
  <2>1. Has(text, p, bytes) BY <1>6 DEF Stands
  <2>2. /\ p \in Nat /\ ByteAt(text, p) = 102 /\ ByteAt(text, p + 1) = 72 /\ ByteAt(text, p + 2) = 15
        /\ ByteAt(text, p + 3) = 110 /\ ByteAt(text, p + 4) = m
    BY <1>4, <2>1, FiveBytesAt
  <2>3. p + 3 \in Nat /\ p + 3 + 1 = p + 4 BY <2>2
  <2>4. Decode(text, p) = DecodeEscape(text, XSized(p + 2), p + 3) BY <2>2, DecodeSized
  <2>5. SizedWide(XSized(p + 2)) /\ XSized(p + 2).r = 0 /\ XSized(p + 2).b = 0
    BY XFields DEF SizedWide
  <2>6. Decode(text, p) = WithModRM(text, XSized(p + 2), p + 4, "movq_to_xmm", "none")
    BY <2>2, <2>3, <2>4, <2>5, DecodeSse
  <2> QED BY <1>2, <2>2, <2>5, <2>6
<1>7. 0 \in Int /\ 5 = 4 + 1 /\ 4 \in Nat OBVIOUS
<1>8. "movq_to_xmm" # "undefined" /\ "movq_to_xmm" # "none" OBVIOUS
<1> HIDE DEF bytes
<1>9. Is(bytes, I("movq_to_xmm", Low(b) + 0, Low(a) + 0, 0)) BY <1>5, <1>6, <1>7, <1>8, Direct
<1> DEFINE i == I("movq_to_xmm", Low(b), Low(a), 0)
           j == I("movq_to_xmm", b, a, 0)
<1>10. Is(bytes, i) BY <1>9, LowIs
<1>11. i = j <=> Low(b) = b /\ Low(a) = a BY TupleFields
<1>12. Encodable(c) <=> i = j BY <1>a, <1>11, LowIs
<1> HIDE DEF i, j
<1>13. Meant(c) = <<j>> BY <1>1 DEF j
<1>14. Written(bytes, c) BY <1>10, <1>12, <1>13, Exact
<1> QED BY <1>3, <1>14 DEF c

LEMMA MovqFromXmmWritten ==
  ASSUME NEW a \in Registers, NEW b \in Registers
  PROVE  Written(write_move_xmm_to_reg(a, b), C("move_xmm_to_reg", a, b))
<1> DEFINE c == C("move_xmm_to_reg", a, b)
           m == ModRM(3, a, b)
           bytes == Bytes5(102, 72, 15, 126, m)
<1>1. Meant(c) = <<I("movq_from_xmm", a, b, 0)>> BY MeantIs
<1>a. (Encodable(c) <=> a < 8 /\ b < 8) BY EncodableIs
<1>2. m \in 0 .. 255 /\ m = ModRM(3, a, b) BY ModRMFields
<1>3. write_move_xmm_to_reg(a, b) = bytes BY DEF write_move_xmm_to_reg, Bytes5
<1> HIDE DEF m, c
<1>4. IsByte(102) /\ IsByte(72) /\ IsByte(15) /\ IsByte(126) /\ IsByte(m) BY <1>2 DEF IsByte
<1>5. bytes \in Codes /\ bytes # <<>> /\ Len(bytes) = 5 /\ ByteAt(bytes, 0) # 36 BY <1>4, FiveBytes
<1>6. ASSUME NEW text, NEW p, Stands(text, p, bytes)
      PROVE  \E x : /\ x.r = 0 /\ x.b = 0 /\ ByteAt(text, p + 4) = ModRM(3, a, b)
                    /\ Decode(text, p) = WithModRM(text, x, p + 4, "movq_from_xmm", "none")
  <2>1. Has(text, p, bytes) BY <1>6 DEF Stands
  <2>2. /\ p \in Nat /\ ByteAt(text, p) = 102 /\ ByteAt(text, p + 1) = 72 /\ ByteAt(text, p + 2) = 15
        /\ ByteAt(text, p + 3) = 126 /\ ByteAt(text, p + 4) = m
    BY <1>4, <2>1, FiveBytesAt
  <2>3. p + 3 \in Nat /\ p + 3 + 1 = p + 4 BY <2>2
  <2>4. Decode(text, p) = DecodeEscape(text, XSized(p + 2), p + 3) BY <2>2, DecodeSized
  <2>5. SizedWide(XSized(p + 2)) /\ XSized(p + 2).r = 0 /\ XSized(p + 2).b = 0
    BY XFields DEF SizedWide
  <2>6. Decode(text, p) = WithModRM(text, XSized(p + 2), p + 4, "movq_from_xmm", "none")
    BY <2>2, <2>3, <2>4, <2>5, DecodeSse
  <2> QED BY <1>2, <2>2, <2>5, <2>6
<1>7. 0 \in Int /\ 5 = 4 + 1 /\ 4 \in Nat OBVIOUS
<1>8. "movq_from_xmm" # "undefined" /\ "movq_from_xmm" # "none" OBVIOUS
<1> HIDE DEF bytes
<1>9. Is(bytes, I("movq_from_xmm", Low(a) + 0, Low(b) + 0, 0)) BY <1>5, <1>6, <1>7, <1>8, Direct
<1> DEFINE i == I("movq_from_xmm", Low(a), Low(b), 0)
           j == I("movq_from_xmm", a, b, 0)
<1>10. Is(bytes, i) BY <1>9, LowIs
<1>11. i = j <=> Low(a) = a /\ Low(b) = b BY TupleFields
<1>12. Encodable(c) <=> i = j BY <1>a, <1>11, LowIs
<1> HIDE DEF i, j
<1>13. Meant(c) = <<j>> BY <1>1 DEF j
<1>14. Written(bytes, c) BY <1>10, <1>12, <1>13, Exact
<1> QED BY <1>3, <1>14 DEF c

LEMMA UnmaskedRange ==
  ASSUME NEW r \in Registers, NEW k \in Registers
  PROVE  ModRMUnmasked(3, r, k) \in 0 .. 255
<1> DEFINE l == Low(r)
           y == 192 + 8 * l
<1>1. Or(64 * 3, 8 * r) = y
  <2>1. CASE r \in 0 .. 7
    BY <2>1 DEF Or, And, Bit, Low
  <2>2. CASE r \in 8 .. 15
    BY <2>2 DEF Or, And, Bit, Low
  <2> QED BY <2>1, <2>2 DEF Registers
<1>2. l \in 0 .. 7 BY LowRange
<1> HIDE DEF l
<1>3. Or(y, k) \in 0 .. 255
  <2>1. CASE k \in 0 .. 7 BY <1>2, <2>1 DEF Or, And, Bit
  <2>2. CASE k \in 8 .. 15 BY <1>2, <2>2 DEF Or, And, Bit
  <2> QED BY <2>1, <2>2 DEF Registers
<1> QED BY <1>1, <1>3 DEF ModRMUnmasked


LEMMA AddWritten ==
  ASSUME NEW a \in Registers, NEW b \in Registers
  PROVE  Written(write_add_reg_to_reg(a, b), C("add", a, b))
<1> DEFINE c == C("add", a, b)
           m == ModRMUnmasked(3, b, a)
           bytes == Bytes2(1, m)
           i == I("add", Low(b), Low(a), 0)
           j == I("add", b, a, 0)
<1>1. Meant(c) = <<j>> BY MeantIs
<1>2. Encodable(c) <=> a < 8 /\ b < 8 BY EncodableIs
<1>3. m \in 0 .. 255 BY UnmaskedRange
<1>4. write_add_reg_to_reg(a, b) = bytes BY DEF write_add_reg_to_reg, Bytes2
<1>5. a < 8 => m = ModRM(3, b, a) BY UnmaskedIs DEF Registers
<1> HIDE DEF m, c
<1>6. IsByte(1) /\ IsByte(m) BY <1>3 DEF IsByte
<1>7. bytes \in Codes /\ bytes # <<>> /\ Len(bytes) = 2 /\ ByteAt(bytes, 0) # 36 BY <1>6, TwoBytes
<1>8. ASSUME NEW text, NEW p, Stands(text, p, bytes)
      PROVE  /\ p + 1 \in Nat /\ text \in Codes /\ XPlain(p).r = 0 /\ XPlain(p).b = 0
             /\ ByteAt(text, p + 1) = m
             /\ Decode(text, p) = WithModRM(text, XPlain(p), p + 1, "add", "none")
  <2>1. Has(text, p, bytes) /\ text \in Codes BY <1>8 DEF Stands, Has
  <2>2. p \in Nat /\ ByteAt(text, p) = 1 /\ ByteAt(text, p + 1) = m BY <1>6, <2>1, TwoBytesAt
  <2>3. Decode(text, p) = DecodeOpcode(text, XPlain(p), 1, p + 1) BY <2>2, DecodePlain
  <2>4. Decode(text, p) = WithModRM(text, XPlain(p), p + 1, "add", "none") BY <2>3, DecodeModRM
  <2> QED BY <2>1, <2>2, <2>4, XFields
<1>9. 0 \in Int /\ 2 = 1 + 1 /\ 1 \in Nat OBVIOUS
<1>10. "add" # "undefined" /\ "add" # "none" OBVIOUS
<1> HIDE DEF bytes
<1>11. CASE a < 8
  <2>0. ASSUME NEW text, NEW p, Stands(text, p, bytes)
        PROVE  \E x : /\ x.r = 0 /\ x.b = 0 /\ ByteAt(text, p + 1) = ModRM(3, b, a)
                      /\ Decode(text, p) = WithModRM(text, x, p + 1, "add", "none")
    BY <1>5, <1>8, <1>11, <2>0
  <2>1. Is(bytes, I("add", Low(b) + 0, Low(a) + 0, 0)) BY <1>7, <1>9, <1>10, <2>0, Direct
  <2>2. Is(bytes, i) BY <2>1, LowIs
  <2>3. i = j <=> Low(b) = b /\ Low(a) = a BY TupleFields
  <2>4. Encodable(c) <=> i = j BY <1>2, <2>3, LowIs
  <2> HIDE DEF i, j
  <2>5. Written(bytes, c) BY <1>1, <2>2, <2>4, Exact
  <2> QED BY <1>4, <2>5 DEF c
<1>12. CASE a >= 8
  <2>1. ~Encodable(c) BY <1>2, <1>12 DEF Registers
  <2>2. j[3] \in Nat /\ j[3] >= 8 BY <1>12 DEF I, Registers
  <2>3. \A text, p : Stands(text, p, bytes) => Decode(text, p).rm < 8 BY <1>8, LowRegister
  <2> HIDE DEF j
  <2>4. Written(bytes, c) BY <1>1, <1>7, <2>1, <2>2, <2>3, Unprefixed
  <2> QED BY <1>4, <2>4 DEF c
<1> QED BY <1>11, <1>12 DEF Registers

LEMMA SubWritten ==
  ASSUME NEW a \in Registers, NEW b \in Registers
  PROVE  Written(write_sub_reg_to_reg(a, b), C("sub", a, b))
<1> DEFINE c == C("sub", a, b)
           m == ModRMUnmasked(3, b, a)
           bytes == Bytes2(41, m)
           i == I("sub", Low(b), Low(a), 0)
           j == I("sub", b, a, 0)
<1>1. Meant(c) = <<j>> BY MeantIs
<1>2. Encodable(c) <=> a < 8 /\ b < 8 BY EncodableIs
<1>3. m \in 0 .. 255 BY UnmaskedRange
<1>4. write_sub_reg_to_reg(a, b) = bytes BY DEF write_sub_reg_to_reg, Bytes2
<1>5. a < 8 => m = ModRM(3, b, a) BY UnmaskedIs DEF Registers
<1> HIDE DEF m, c
<1>6. IsByte(41) /\ IsByte(m) BY <1>3 DEF IsByte
<1>7. bytes \in Codes /\ bytes # <<>> /\ Len(bytes) = 2 /\ ByteAt(bytes, 0) # 36 BY <1>6, TwoBytes
<1>8. ASSUME NEW text, NEW p, Stands(text, p, bytes)
      PROVE  /\ p + 1 \in Nat /\ text \in Codes /\ XPlain(p).r = 0 /\ XPlain(p).b = 0
             /\ ByteAt(text, p + 1) = m
             /\ Decode(text, p) = WithModRM(text, XPlain(p), p + 1, "sub", "none")
  <2>1. Has(text, p, bytes) /\ text \in Codes BY <1>8 DEF Stands, Has
  <2>2. p \in Nat /\ ByteAt(text, p) = 41 /\ ByteAt(text, p + 1) = m BY <1>6, <2>1, TwoBytesAt
  <2>3. Decode(text, p) = DecodeOpcode(text, XPlain(p), 41, p + 1) BY <2>2, DecodePlain
  <2>4. Decode(text, p) = WithModRM(text, XPlain(p), p + 1, "sub", "none") BY <2>3, DecodeModRM
  <2> QED BY <2>1, <2>2, <2>4, XFields
<1>9. 0 \in Int /\ 2 = 1 + 1 /\ 1 \in Nat OBVIOUS
<1>10. "sub" # "undefined" /\ "sub" # "none" OBVIOUS
<1> HIDE DEF bytes
<1>11. CASE a < 8
  <2>0. ASSUME NEW text, NEW p, Stands(text, p, bytes)
        PROVE  \E x : /\ x.r = 0 /\ x.b = 0 /\ ByteAt(text, p + 1) = ModRM(3, b, a)
                      /\ Decode(text, p) = WithModRM(text, x, p + 1, "sub", "none")
    BY <1>5, <1>8, <1>11, <2>0
  <2>1. Is(bytes, I("sub", Low(b) + 0, Low(a) + 0, 0)) BY <1>7, <1>9, <1>10, <2>0, Direct
  <2>2. Is(bytes, i) BY <2>1, LowIs
  <2>3. i = j <=> Low(b) = b /\ Low(a) = a BY TupleFields
  <2>4. Encodable(c) <=> i = j BY <1>2, <2>3, LowIs
  <2> HIDE DEF i, j
  <2>5. Written(bytes, c) BY <1>1, <2>2, <2>4, Exact
  <2> QED BY <1>4, <2>5 DEF c
<1>12. CASE a >= 8
  <2>1. ~Encodable(c) BY <1>2, <1>12 DEF Registers
  <2>2. j[3] \in Nat /\ j[3] >= 8 BY <1>12 DEF I, Registers
  <2>3. \A text, p : Stands(text, p, bytes) => Decode(text, p).rm < 8 BY <1>8, LowRegister
  <2> HIDE DEF j
  <2>4. Written(bytes, c) BY <1>1, <1>7, <2>1, <2>2, <2>3, Unprefixed
  <2> QED BY <1>4, <2>4 DEF c
<1> QED BY <1>11, <1>12 DEF Registers

LEMMA AddpdWritten ==
  ASSUME NEW a \in Registers, NEW b \in Registers
  PROVE  Written(write_add_xmm_to_xmm(a, b), C("add_xmm", a, b))
<1> DEFINE c == C("add_xmm", a, b)
           n == 4 * High(a) + High(b)
           m == ModRM(3, a, b)
           bytes == Bytes5(64 + n, 102, 15, 88, m)
           i == I("addpd", Low(a), Low(b), 0)
           j == I("addpd", a, b, 0)
<1>1. Meant(c) = <<j>> BY MeantIs
<1>2. Encodable(c) <=> a < 8 /\ b < 8 BY EncodableIs
<1>3. n \in 0 .. 15 BY RexOf
<1>4. m \in 0 .. 255 /\ m = ModRM(3, a, b) BY ModRMFields
<1>5. 64 + 4 * High(a) + High(b) = 64 + n BY LowRange
<1>6. write_add_xmm_to_xmm(a, b) = bytes BY <1>5 DEF write_add_xmm_to_xmm, Bytes5
<1> HIDE DEF m, n, c
<1>7. /\ IsByte(64 + n) /\ IsByte(102) /\ IsByte(15) /\ IsByte(88) /\ IsByte(m)
      /\ 64 + n # 36 /\ 64 + n \in 64 .. 79
  BY <1>3, <1>4 DEF IsByte
<1>8. bytes \in Codes /\ bytes # <<>> /\ Len(bytes) = 5 /\ ByteAt(bytes, 0) # 36 BY <1>7, FiveBytes
<1>9. ASSUME NEW text, NEW p, Stands(text, p, bytes)
      PROVE  \E x : /\ x.r = 0 /\ x.b = 0 /\ ByteAt(text, p + 4) = ModRM(3, a, b)
                    /\ Decode(text, p) = WithModRM(text, x, p + 4, "addpd", "none")
  <2>1. Has(text, p, bytes) BY <1>9 DEF Stands
  <2>2. /\ p \in Nat /\ ByteAt(text, p) = 64 + n /\ ByteAt(text, p + 1) = 102 /\ ByteAt(text, p + 2) = 15
        /\ ByteAt(text, p + 3) = 88 /\ ByteAt(text, p + 4) = m
    BY <1>7, <2>1, FiveBytesAt
  <2>3. p + 3 \in Nat /\ p + 3 + 1 = p + 4 BY <2>2
  <2>4. Decode(text, p) = DecodeEscape(text, XIgnored(p + 2), p + 3) BY <1>7, <2>2, DecodeIgnored
  <2>5. Sized(XIgnored(p + 2)) /\ XIgnored(p + 2).r = 0 /\ XIgnored(p + 2).b = 0 BY XFields DEF Sized
  <2>6. Decode(text, p) = WithModRM(text, XIgnored(p + 2), p + 4, "addpd", "none")
    BY <2>2, <2>3, <2>4, <2>5, DecodeSse
  <2> QED BY <1>4, <2>2, <2>5, <2>6
<1>10. 0 \in Int /\ 5 = 4 + 1 /\ 4 \in Nat OBVIOUS
<1>11. "addpd" # "undefined" /\ "addpd" # "none" OBVIOUS
<1> HIDE DEF bytes
<1>12. Is(bytes, I("addpd", Low(a) + 0, Low(b) + 0, 0)) BY <1>8, <1>9, <1>10, <1>11, Direct
<1>13. Is(bytes, i) BY <1>12, LowIs
<1>14. i = j <=> Low(a) = a /\ Low(b) = b BY TupleFields
<1>15. Encodable(c) <=> i = j BY <1>2, <1>14, LowIs
<1> HIDE DEF i, j
<1>16. Written(bytes, c) BY <1>1, <1>13, <1>15, Exact
<1> QED BY <1>6, <1>16 DEF c

\* The other three operations on xmm registers.
LEMMA XmmOperationWritten ==
  ASSUME NEW a \in Registers, NEW b \in Registers, NEW op, IsByte(op), NEW name,
         name # "undefined", name # "none", NEW c, Meant(c) = <<I(name, a, b, 0)>>, Encodable(c) <=> b < 8,
         \A text, x : \A p \in Nat : ByteAt(text, p) = op /\ Unsized(x) =>
           DecodeEscape(text, x, p) = WithModRM(text, x, p + 1, name, "none")
  PROVE  Written(XmmOperation(op, a, b), c)
<1> DEFINE n == 4 * High(a) + 8 * High(b)
           m == ModRMUnmasked(3, a, b)
           j == I(name, a, b, 0)
<1>1. n \in 0 .. 15 /\ Bit(n, 4) = High(a) /\ Bit(n, 1) = 0 BY RexOf
<1>2. m \in 0 .. 255 BY UnmaskedRange
<1>3. b < 8 => m = ModRM(3, a, b) BY UnmaskedIs DEF Registers
<1>4. 64 + 4 * High(a) + 8 * High(b) = 64 + n BY LowRange
<1>5. j[3] = b /\ j[3] \in Nat BY DEF I, Registers
<1>6. b < 8 \/ b >= 8 BY DEF Registers
<1>7. 8 * High(a) \in Int /\ 0 \in Int /\ 4 = 3 + 1 /\ 3 \in Nat /\ 3 = 2 + 1 /\ 2 \in Nat BY LowRange
<1>8. b < 8 => Low(a) + 8 * High(a) = a /\ Low(b) + 0 = b BY LowIs
<1>9. CASE a >= 8 \/ b >= 8
  <2> DEFINE rex == Opcode(<<64 + n>>)
             rest == Opcode(<<15, op, m>>)
             bytes == Bytes4(64 + n, 15, op, m)
  <2>1. rex \o rest = bytes BY DEF Opcode, Bytes4
  <2>2. XmmOperation(op, a, b) = bytes BY <1>4, <1>9, <2>1 DEF XmmOperation
  <2> HIDE DEF n, m
  <2>3. IsByte(64 + n) /\ IsByte(15) /\ IsByte(m) /\ 64 + n # 36 BY <1>1, <1>2 DEF IsByte
  <2>4. bytes \in Codes /\ bytes # <<>> /\ Len(bytes) = 4 /\ ByteAt(bytes, 0) # 36 BY <2>3, FourBytes
  <2>5. ASSUME NEW text, NEW p, Stands(text, p, bytes)
        PROVE  /\ p + 3 \in Nat /\ text \in Codes
               /\ XRex(n, p + 1).r = 8 * High(a) /\ XRex(n, p + 1).b = 0 /\ ByteAt(text, p + 3) = m
               /\ Decode(text, p) = WithModRM(text, XRex(n, p + 1), p + 3, name, "none")
    <3>1. Has(text, p, bytes) /\ text \in Codes BY <2>5 DEF Stands, Has
    <3>2. /\ p \in Nat /\ ByteAt(text, p) = 64 + n /\ ByteAt(text, p + 1) = 15 /\ ByteAt(text, p + 2) = op
          /\ ByteAt(text, p + 3) = m
      BY <2>3, <3>1, FourBytesAt
    <3>3. ByteAt(text, p + 1) # 102 /\ p + 2 \in Nat /\ p + 2 + 1 = p + 3 BY <3>2
    <3>4. Decode(text, p) = DecodeOpcode(text, XRex(n, p + 1), 15, p + 2) BY <1>1, <3>2, <3>3, DecodeRex
    <3>5. Decode(text, p) = DecodeEscape(text, XRex(n, p + 1), p + 2) BY <3>4, DecodeModRM
    <3>6. XRex(n, p + 1).r = 8 * High(a) /\ XRex(n, p + 1).b = 0 BY <1>1, XFields
    <3>7. Unsized(XRex(n, p + 1)) BY XFields DEF Unsized
    <3>8. Decode(text, p) = WithModRM(text, XRex(n, p + 1), p + 3, name, "none")
      BY <3>2, <3>3, <3>5, <3>7
    <3> QED BY <3>1, <3>2, <3>6, <3>8
  <2> HIDE DEF bytes
  <2>6. CASE b < 8
    <3>0. ASSUME NEW text, NEW p, Stands(text, p, bytes)
          PROVE  \E x : /\ x.r = 8 * High(a) /\ x.b = 0 /\ ByteAt(text, p + 3) = ModRM(3, a, b)
                        /\ Decode(text, p) = WithModRM(text, x, p + 3, name, "none")
      BY <1>3, <2>5, <2>6, <3>0
    <3>1. Is(bytes, I(name, Low(a) + 8 * High(a), Low(b) + 0, 0)) BY <1>7, <2>4, <3>0, Direct
    <3>2. Is(bytes, j) BY <1>8, <2>6, <3>1
    <3>3. Written(bytes, c) BY <2>6, <3>2, Exact
    <3> QED BY <2>2, <3>3
  <2>7. CASE b >= 8
    <3>1. ~Encodable(c) BY <2>7 DEF Registers
    <3>2. \A text, p : Stands(text, p, bytes) => Decode(text, p).rm < 8 BY <2>5, LowRegister
    <3>3. Meant(c) = <<j>> OBVIOUS
    <3> HIDE DEF j
    <3>4. Written(bytes, c) BY <1>5, <2>4, <2>7, <3>1, <3>2, <3>3, Unprefixed
    <3> QED BY <2>2, <3>4
  <2> QED BY <1>6, <2>6, <2>7
<1>10. CASE ~(a >= 8 \/ b >= 8)
  <2> DEFINE bytes == Bytes3(15, op, m)
             rest == Opcode(<<15, op, m>>)
  <2>1. <<>> \o rest = bytes BY DEF Opcode, Bytes3
  <2>2. XmmOperation(op, a, b) = bytes BY <1>10, <2>1 DEF XmmOperation
  <2> HIDE DEF m
  <2>3. IsByte(15) /\ IsByte(m) BY <1>2 DEF IsByte
  <2>4. bytes \in Codes /\ bytes # <<>> /\ Len(bytes) = 3 /\ ByteAt(bytes, 0) # 36 BY <2>3, ThreeBytes
  <2>5. a < 8 /\ b < 8 BY <1>10 DEF Registers
  <2>6. ASSUME NEW text, NEW p, Stands(text, p, bytes)
        PROVE  \E x : /\ x.r = 0 /\ x.b = 0 /\ ByteAt(text, p + 2) = ModRM(3, a, b)
                      /\ Decode(text, p) = WithModRM(text, x, p + 2, name, "none")
    <3>1. Has(text, p, bytes) BY <2>6 DEF Stands
    <3>2. p \in Nat /\ ByteAt(text, p) = 15 /\ ByteAt(text, p + 1) = op /\ ByteAt(text, p + 2) = m
      BY <2>3, <3>1, ThreeBytesAt
    <3>3. p + 1 \in Nat /\ p + 1 + 1 = p + 2 BY <3>2
    <3>4. Decode(text, p) = DecodeOpcode(text, XPlain(p), 15, p + 1) BY <3>2, DecodePlain
    <3>5. Decode(text, p) = DecodeEscape(text, XPlain(p), p + 1) BY <3>4, DecodeModRM
    <3>6. XPlain(p).r = 0 /\ XPlain(p).b = 0 BY XFields
    <3>7. Unsized(XPlain(p)) BY XFields DEF Unsized
    <3>8. Decode(text, p) = WithModRM(text, XPlain(p), p + 2, name, "none") BY <3>2, <3>3, <3>5, <3>7
    <3> QED BY <1>3, <2>5, <3>2, <3>6, <3>8
  <2> HIDE DEF bytes
  <2>7. Is(bytes, I(name, Low(a) + 0, Low(b) + 0, 0)) BY <1>7, <2>4, <2>6, Direct
  <2>8. Is(bytes, j) BY <2>5, <2>7, LowIs
  <2>9. Written(bytes, c) BY <2>5, <2>8, Exact
  <2> QED BY <2>2, <2>9
<1> QED BY <1>9, <1>10

LEMMA XmmWritten ==
  ASSUME NEW a \in Registers, NEW b \in Registers
  PROVE  /\ Written(write_sub_reg_to_reg_xmm(a, b), C("sub_xmm", a, b))
         /\ Written(write_mul_reg_to_reg_xmm(a, b), C("mul_xmm", a, b))
         /\ Written(write_div_reg_to_reg_xmm(a, b), C("div_xmm", a, b))
<1>1. IsByte(92) /\ IsByte(89) /\ IsByte(94) BY DEF IsByte
<1>2. Written(XmmOperation(92, a, b), C("sub_xmm", a, b))
  <2>1. Meant(C("sub_xmm", a, b)) = <<I("subps", a, b, 0)>> BY MeantIs
  <2>2. Encodable(C("sub_xmm", a, b)) <=> b < 8 BY NullaryDomain DEF Encodable, C
  <2>3. \A text, x : \A p \in Nat : ByteAt(text, p) = 92 /\ Unsized(x) =>
           DecodeEscape(text, x, p) = WithModRM(text, x, p + 1, "subps", "none")
    BY DecodeSse
  <2>4. "subps" # "undefined" /\ "subps" # "none" OBVIOUS
  <2> QED BY <1>1, <2>1, <2>2, <2>3, <2>4, XmmOperationWritten
<1>3. Written(XmmOperation(89, a, b), C("mul_xmm", a, b))
  <2>1. Meant(C("mul_xmm", a, b)) = <<I("mulps", a, b, 0)>> BY MeantIs
  <2>2. Encodable(C("mul_xmm", a, b)) <=> b < 8 BY NullaryDomain DEF Encodable, C
  <2>3. \A text, x : \A p \in Nat : ByteAt(text, p) = 89 /\ Unsized(x) =>
           DecodeEscape(text, x, p) = WithModRM(text, x, p + 1, "mulps", "none")
    BY DecodeSse
  <2>4. "mulps" # "undefined" /\ "mulps" # "none" OBVIOUS
  <2> QED BY <1>1, <2>1, <2>2, <2>3, <2>4, XmmOperationWritten
<1>4. Written(XmmOperation(94, a, b), C("div_xmm", a, b))
  <2>1. Meant(C("div_xmm", a, b)) = <<I("divps", a, b, 0)>> BY MeantIs
  <2>2. Encodable(C("div_xmm", a, b)) <=> b < 8 BY NullaryDomain DEF Encodable, C
  <2>3. \A text, x : \A p \in Nat : ByteAt(text, p) = 94 /\ Unsized(x) =>
           DecodeEscape(text, x, p) = WithModRM(text, x, p + 1, "divps", "none")
    BY DecodeSse
  <2>4. "divps" # "undefined" /\ "divps" # "none" OBVIOUS
  <2> QED BY <1>1, <2>1, <2>2, <2>3, <2>4, XmmOperationWritten
<1> QED BY <1>2, <1>3, <1>4 DEF write_sub_reg_to_reg_xmm, write_mul_reg_to_reg_xmm, write_div_reg_to_reg_xmm

\* A division: an operation of group F7, its register not masked.
LEMMA Division ==
  ASSUME NEW g \in {6, 7}, NEW k \in Registers, NEW c, Meant(c) = <<I(GroupF7[g], 0, k, 0)>>, Encodable(c) <=> k < 8
  PROVE  Written(Bytes2(247, ModRMUnmasked(3, g, k)), c)
<1> DEFINE m == ModRMUnmasked(3, g, k)
           bytes == Bytes2(247, m)
           j == I(GroupF7[g], 0, k, 0)
<1>0. g \in Registers /\ g \in 0 .. 7 /\ g \in DOMAIN GroupF7 /\ GroupF7[g] # "undefined" BY Groups DEF Registers
<1>1. m \in 0 .. 255 BY <1>0, UnmaskedRange
<1>2. k < 8 => m = ModRM(3, g, k) BY <1>0, UnmaskedIs DEF Registers
<1> SUFFICES Written(bytes, c) OBVIOUS
<1> HIDE DEF m
<1>3. IsByte(247) /\ IsByte(m) BY <1>1 DEF IsByte
<1>4. bytes \in Codes /\ bytes # <<>> /\ Len(bytes) = 2 /\ ByteAt(bytes, 0) # 36 BY <1>3, TwoBytes
<1>5. ASSUME NEW text, NEW p, Stands(text, p, bytes)
      PROVE  /\ p + 1 \in Nat /\ text \in Codes /\ XPlain(p).r = 0 /\ XPlain(p).b = 0
             /\ ByteAt(text, p + 1) = m
             /\ Decode(text, p) = InGroup(text, XPlain(p), p + 1, GroupF7)
  <2>1. Has(text, p, bytes) /\ text \in Codes BY <1>5 DEF Stands, Has
  <2>2. p \in Nat /\ ByteAt(text, p) = 247 /\ ByteAt(text, p + 1) = m BY <1>3, <2>1, TwoBytesAt
  <2>3. Decode(text, p) = DecodeOpcode(text, XPlain(p), 247, p + 1) BY <2>2, DecodePlain
  <2>4. Decode(text, p) = InGroup(text, XPlain(p), p + 1, GroupF7) BY <2>3, DecodeModRM
  <2> QED BY <2>1, <2>2, <2>4, XFields
<1>6. 2 = 1 + 1 /\ 1 \in Nat OBVIOUS
<1> HIDE DEF bytes
<1>7. CASE k < 8
  <2>1. ASSUME NEW text, NEW p, Stands(text, p, bytes)
        PROVE  \E x : /\ x.r = 0 /\ x.b = 0 /\ ByteAt(text, p + 1) = ModRM(3, g, k)
                      /\ Decode(text, p) = InGroup(text, x, p + 1, GroupF7)
    BY <1>2, <1>5, <1>7, <2>1
  <2>2. Is(bytes, I(GroupF7[g], 0, Low(k), 0)) BY <1>0, <1>4, <1>6, <2>1, DirectGroup
  <2>3. Is(bytes, j) BY <1>7, <2>2, LowIs
  <2>4. Encodable(c) BY <1>7
  <2> QED BY <2>3, <2>4, Exact
<1>8. CASE k >= 8
  <2>1. ~Encodable(c) BY <1>8 DEF Registers
  <2>2. j[3] \in Nat /\ j[3] >= 8 BY <1>8 DEF I, Registers
  <2>3. \A text, p : Stands(text, p, bytes) => Decode(text, p).rm < 8 BY <1>5, LowRegisterOfGroup
  <2>4. Meant(c) = <<j>> OBVIOUS
  <2> HIDE DEF j
  <2> QED BY <1>4, <2>1, <2>2, <2>3, <2>4, Unprefixed
<1> QED BY <1>7, <1>8 DEF Registers

LEMMA DivisionWritten ==
  ASSUME NEW a \in Registers, NEW b \in Registers
  PROVE  /\ Written(write_mod_reg_to_reg(a, b), C("mod", a, b))
         /\ Written(write_div_reg(a), C("div", a, 0))
<1>1. Written(write_mod_reg_to_reg(a, b), C("mod", a, b))
  <2>1. Meant(C("mod", a, b)) = <<I(GroupF7[7], 0, b, 0)>> BY MeantIs, Groups
  <2>2. Encodable(C("mod", a, b)) <=> b < 8 BY NullaryDomain DEF Encodable, C
  <2> QED BY <2>1, <2>2, Division DEF write_mod_reg_to_reg, Bytes2
<1>2. Written(write_div_reg(a), C("div", a, 0))
  <2>1. Meant(C("div", a, 0)) = <<I(GroupF7[6], 0, a, 0)>> BY MeantIs, Groups
  <2>2. Encodable(C("div", a, 0)) <=> a < 8 /\ 0 < 8 BY NullaryDomain DEF Encodable, C
  <2>3. Encodable(C("div", a, 0)) <=> a < 8 BY <2>2
  <2> QED BY <2>1, <2>3, Division DEF write_div_reg, Bytes2
<1> QED BY <1>1, <1>2

\* One opcode byte, alone or after REX.B.
LEMMA Short ==
  ASSUME NEW v, IsByte(v), v \notin 64 .. 79, v # 102, v # 36, NEW i, i[1] # "undefined",
         \A text, x, q : x.b = 0 => Tuple(DecodeOpcode(text, x, v, q)) = i /\ DecodeOpcode(text, x, v, q).len = q
  PROVE  Is(Bytes1(v), i)
<1> DEFINE bytes == Bytes1(v)
<1>1. bytes \in Codes /\ bytes # <<>> /\ Len(bytes) = 1 /\ ByteAt(bytes, 0) = v BY OneByte
<1>2. ASSUME NEW text, NEW p, Stands(text, p, bytes)
      PROVE  Tuple(Decode(text, p)) = i /\ Decode(text, p).len = p + Len(bytes)
  <2>1. Has(text, p, bytes) BY <1>2 DEF Stands
  <2>2. p \in Nat /\ ByteAt(text, p) = v BY <2>1, OneByteAt
  <2>3. v \in Nat BY DEF IsByte
  <2>4. Decode(text, p) = DecodeOpcode(text, XPlain(p), v, p + 1) BY <2>2, <2>3, DecodePlain
  <2>5. XPlain(p).b = 0 BY XFields
  <2> QED BY <1>1, <2>4, <2>5
<1> HIDE DEF bytes
<1>3. Is(bytes, i) BY <1>1, <1>2 DEF Is
<1> QED BY <1>3 DEF bytes

LEMMA ShortExtended ==
  ASSUME NEW v, IsByte(v), v # 102, NEW i, i[1] # "undefined",
         \A text, x, q : x.b = 8 => Tuple(DecodeOpcode(text, x, v, q)) = i /\ DecodeOpcode(text, x, v, q).len = q
  PROVE  Is(Bytes2(65, v), i)
<1> DEFINE bytes == Bytes2(65, v)
<1>0. IsByte(65) BY DEF IsByte
<1>1. bytes \in Codes /\ bytes # <<>> /\ Len(bytes) = 2 /\ ByteAt(bytes, 0) # 36 BY <1>0, TwoBytes
<1>2. ASSUME NEW text, NEW p, Stands(text, p, bytes)
      PROVE  Tuple(Decode(text, p)) = i /\ Decode(text, p).len = p + Len(bytes)
  <2>1. Has(text, p, bytes) BY <1>2 DEF Stands
  <2>2. p \in Nat /\ ByteAt(text, p) = 65 /\ ByteAt(text, p + 1) = v BY <1>0, <2>1, TwoBytesAt
  <2>3. 1 \in 0 .. 15 /\ 65 = 64 + 1 OBVIOUS
  <2>4. Decode(text, p) = DecodeOpcode(text, XRex(1, p + 1), v, p + 2) BY <2>2, <2>3, DecodeRex
  <2>5. Bit(1, 1) = 1 BY DEF Bit
  <2> DEFINE x == XRex(1, p + 1)
             q == p + 2
  <2>6. x.b = 8 BY <2>5, XFields
  <2>7. Decode(text, p) = DecodeOpcode(text, x, v, q) /\ p + Len(bytes) = q BY <1>1, <2>4
  <2> HIDE DEF x, q
  <2> QED BY <2>6, <2>7
<1> HIDE DEF bytes
<1>3. Is(bytes, i) BY <1>1, <1>2 DEF Is
<1> QED BY <1>3 DEF bytes

LEMMA PushAndPop ==
  ASSUME NEW r \in 0 .. 7
  PROVE  /\ Is(Bytes1(80 + r), I("push", 0, r, 0)) /\ Is(Bytes2(65, 80 + r), I("push", 0, r + 8, 0))
         /\ Is(Bytes1(88 + r), I("pop", 0, r, 0)) /\ Is(Bytes2(65, 88 + r), I("pop", 0, r + 8, 0))
<1>1. /\ IsByte(80 + r) /\ 80 + r \notin 64 .. 79 /\ 80 + r # 102 /\ 80 + r # 36
      /\ IsByte(88 + r) /\ 88 + r \notin 64 .. 79 /\ 88 + r # 102 /\ 88 + r # 36
  BY DEF IsByte
<1>2. \A n, op : n \in Int => I(op, 0, n, 0)[1] = op BY TupleFields
<1>3. ASSUME NEW text, NEW x, NEW q, NEW b \in Int, x.b = b
      PROVE  /\ Tuple(DecodeOpcode(text, x, 80 + r, q)) = I("push", 0, r + b, 0)
             /\ DecodeOpcode(text, x, 80 + r, q).len = q
             /\ Tuple(DecodeOpcode(text, x, 88 + r, q)) = I("pop", 0, r + b, 0)
             /\ DecodeOpcode(text, x, 88 + r, q).len = q
  BY <1>3, DecodeShort
<1>4. r + 0 = r /\ 0 \in Int /\ 8 \in Int /\ "push" # "undefined" /\ "pop" # "undefined" OBVIOUS
<1> DEFINE u == 80 + r
           v == 88 + r
<1>5. \A text, x, q : x.b = 0 =>
        /\ Tuple(DecodeOpcode(text, x, u, q)) = I("push", 0, r, 0)
        /\ DecodeOpcode(text, x, u, q).len = q
        /\ Tuple(DecodeOpcode(text, x, v, q)) = I("pop", 0, r, 0)
        /\ DecodeOpcode(text, x, v, q).len = q
  BY <1>3, <1>4
<1>6. \A text, x, q : x.b = 8 =>
        /\ Tuple(DecodeOpcode(text, x, u, q)) = I("push", 0, r + 8, 0)
        /\ DecodeOpcode(text, x, u, q).len = q
        /\ Tuple(DecodeOpcode(text, x, v, q)) = I("pop", 0, r + 8, 0)
        /\ DecodeOpcode(text, x, v, q).len = q
  BY <1>3, <1>4
<1>7. \A n : I("push", 0, n, 0)[1] # "undefined" /\ I("pop", 0, n, 0)[1] # "undefined" BY <1>4, TupleFields
<1> SUFFICES /\ Is(Bytes1(u), I("push", 0, r, 0)) /\ Is(Bytes2(65, u), I("push", 0, r + 8, 0))
             /\ Is(Bytes1(v), I("pop", 0, r, 0)) /\ Is(Bytes2(65, v), I("pop", 0, r + 8, 0))
  OBVIOUS
<1>a. /\ IsByte(u) /\ u \notin 64 .. 79 /\ u # 102 /\ u # 36
      /\ IsByte(v) /\ v \notin 64 .. 79 /\ v # 102 /\ v # 36
  BY <1>1
<1> HIDE DEF u, v
<1>8. Is(Bytes1(u), I("push", 0, r, 0)) BY <1>a, <1>5, <1>7, Short
<1>9. Is(Bytes2(65, u), I("push", 0, r + 8, 0)) BY <1>a, <1>6, <1>7, ShortExtended
<1>10. Is(Bytes1(v), I("pop", 0, r, 0)) BY <1>a, <1>5, <1>7, Short
<1>11. Is(Bytes2(65, v), I("pop", 0, r + 8, 0)) BY <1>a, <1>6, <1>7, ShortExtended
<1> QED BY <1>8, <1>9, <1>10, <1>11

LEMMA RetIs == Is(Bytes1(195), I("ret", 0, 0, 0))
<1>1. IsByte(195) BY DEF IsByte
<1>2. ASSUME NEW text, NEW x, NEW q, x.b = 0
      PROVE  Tuple(DecodeOpcode(text, x, 195, q)) = I("ret", 0, 0, 0) /\ DecodeOpcode(text, x, 195, q).len = q
  <2>1. 0 \in 0 .. 7 /\ x.b \in Int BY <1>2
  <2> QED BY <2>1, DecodeShort
<1>3. I("ret", 0, 0, 0)[1] # "undefined" BY TupleFields
<1> QED BY <1>1, <1>2, <1>3, Short

LEMMA PushWritten ==
  ASSUME NEW a \in Registers
  PROVE  Written(write_push_reg(a), C("push_reg", a, 0))
<1> DEFINE c == C("push_reg", a, 0)
<1>1. Encodable(c) BY NullaryDomain DEF Encodable, C
<1>2. Meant(c) = (IF a = RSP THEN <<>> ELSE <<I("push", 0, a, 0)>>) BY MeantIs
<1> SUFFICES Written(write_push_reg(a), c) OBVIOUS
<1> HIDE DEF c
<1>3. CASE a = RSP
  <2>1. Meant(c) = <<>> BY <1>2, <1>3
  <2>2. write_push_reg(a) = <<>> BY <1>3 DEF write_push_reg
  <2> QED BY <1>1, <2>1, <2>2, NothingWritten
<1>4. CASE a # RSP /\ a < 8
  <2>1. a \in 0 .. 7 BY <1>4 DEF Registers
  <2>2. Meant(c) = <<I("push", 0, a, 0)>> BY <1>2, <1>4
  <2>3. write_push_reg(a) = Bytes1(80 + a) BY <1>4 DEF write_push_reg, R8, Bytes1
  <2> QED BY <1>1, <2>1, <2>2, <2>3, PushAndPop, Exact
<1>5. CASE a # RSP /\ ~(a < 8)
  <2> DEFINE r == a - 8
  <2>1. r \in 0 .. 7 /\ r + 8 = a /\ 80 + a - 8 = 80 + r BY <1>5 DEF Registers
  <2>2. Meant(c) = <<I("push", 0, a, 0)>> BY <1>2, <1>5
  <2>3. write_push_reg(a) = Bytes2(65, 80 + r) BY <1>5, <2>1 DEF write_push_reg, R8, Bytes2
  <2> HIDE DEF r
  <2> QED BY <1>1, <2>1, <2>2, <2>3, PushAndPop, Exact
<1> QED BY <1>3, <1>4, <1>5

LEMMA PopWritten ==
  ASSUME NEW a \in Registers
  PROVE  Written(write_pop_reg(a), C("pop_reg", a, 0))
<1> DEFINE c == C("pop_reg", a, 0)
<1>1. Encodable(c) <=> a # 7 BY NullaryDomain DEF Encodable, C, RSI
<1>2. Meant(c) = (IF a = RSP THEN <<>> ELSE <<I("pop", 0, a, 0)>>) BY MeantIs
<1> SUFFICES Written(write_pop_reg(a), c) OBVIOUS
<1> HIDE DEF c
<1>3. CASE a = RSP
  <2>1. Meant(c) = <<>> /\ Encodable(c) BY <1>1, <1>2, <1>3 DEF RSP
  <2>2. write_pop_reg(a) = <<>> BY <1>3 DEF write_pop_reg
  <2> QED BY <2>1, <2>2, NothingWritten
<1>4. CASE a # RSP /\ a <= 6
  <2>1. a \in 0 .. 7 /\ a # 7 BY <1>4 DEF Registers
  <2>2. Meant(c) = <<I("pop", 0, a, 0)>> BY <1>2, <1>4
  <2>3. write_pop_reg(a) = Bytes1(88 + a) BY <1>4 DEF write_pop_reg, RDI, Bytes1
  <2> QED BY <1>1, <2>1, <2>2, <2>3, PushAndPop, Exact
<1>5. CASE a # RSP /\ a >= 8
  <2> DEFINE r == a - 8
  <2>1. r \in 0 .. 7 /\ r + 8 = a /\ 88 + a - 8 = 88 + r /\ ~(a <= 6) /\ a # 7 BY <1>5 DEF Registers
  <2>2. Meant(c) = <<I("pop", 0, a, 0)>> BY <1>2, <1>5
  <2>3. write_pop_reg(a) = Bytes2(65, 88 + r) BY <1>5, <2>1 DEF write_pop_reg, R8, RDI, Bytes2
  <2> HIDE DEF r
  <2> QED BY <1>1, <2>1, <2>2, <2>3, PushAndPop, Exact
<1>6. CASE a = 7
  <2>1. a # RSP /\ ~(a <= 6) /\ 88 + a - 8 = 80 + 7 BY <1>6 DEF RSP
  <2>2. Meant(c) = <<I("pop", 0, a, 0)>> BY <1>2, <2>1
  <2>3. write_pop_reg(a) = Bytes2(65, 80 + 7) BY <2>1 DEF write_pop_reg, R8, RDI, Bytes2
  <2>4. 7 \in 0 .. 7 OBVIOUS
  <2>5. Is(Bytes2(65, 80 + 7), I("push", 0, 7 + 8, 0)) BY <2>4, PushAndPop
  <2>6. I("push", 0, 7 + 8, 0) # I("pop", 0, a, 0) BY TupleFields
  <2> QED BY <1>1, <1>6, <2>2, <2>3, <2>5, <2>6, Exact
<1> QED BY <1>3, <1>4, <1>5, <1>6 DEF Registers

LEMMA RetWritten == Written(write_ret, C("ret", 0, 0))
<1>1. Encodable(C("ret", 0, 0)) BY NullaryDomain DEF Encodable, C
<1>2. Meant(C("ret", 0, 0)) = <<I("ret", 0, 0, 0)>> BY MeantIs
<1>3. Is(write_ret, I("ret", 0, 0, 0)) BY RetIs DEF write_ret, Bytes1
<1> QED BY <1>1, <1>2, <1>3, Exact

\* An opcode of group 83, with a number of one byte behind the ModR/M byte.
LEMMA ImmOf ==
  ASSUME NEW op, op # "undefined", NEW w, NEW r, NEW v, NEW n
  PROVE  WithImm(Instruction(op, w, 0, r, 0, n), v, 1) = Instruction(op, w, 0, r, v, n + 1)
<1> DEFINE i == Instruction(op, w, 0, r, 0, n)
<1>1. i.op = op /\ i.wide = w /\ i.reg = 0 /\ i.rm = r /\ i.len = n BY DEF Instruction
<1> HIDE DEF i
<1>2. WithImm(i, v, 1) = Instruction(op, w, 0, r, v, n + 1) BY <1>1 DEF WithImm
<1> QED BY <1>2 DEF i

LEMMA Immediate ==
  ASSUME NEW g \in 0 .. 7, g \in DOMAIN Group83, Group83[g] # "undefined", NEW k \in Registers, NEW v, IsByte(v)
  PROVE  Is(Bytes4(72, 131, ModRM(3, g, k), v), I(Group83[g], 0, Low(k), v))
<1> DEFINE m == ModRM(3, g, k)
           bytes == Bytes4(72, 131, m, v)
           i == I(Group83[g], 0, Low(k), v)
<1>0. g \in Registers /\ Low(g) = g /\ g % 8 = g BY DEF Registers, Low
<1>1. m \in 0 .. 255 /\ m = ModRM(3, g, k) BY <1>0, ModRMFields
<1>2. i[1] # "undefined" BY TupleFields
<1> SUFFICES Is(bytes, i) OBVIOUS
<1> HIDE DEF m
<1>3. IsByte(72) /\ IsByte(131) /\ IsByte(m) BY <1>1 DEF IsByte
<1>4. bytes \in Codes /\ bytes # <<>> /\ Len(bytes) = 4 /\ ByteAt(bytes, 0) # 36 BY <1>3, FourBytes
<1>5. ASSUME NEW text, NEW p, Stands(text, p, bytes)
      PROVE  Tuple(Decode(text, p)) = i /\ Decode(text, p).len = p + Len(bytes)
  <2>1. Has(text, p, bytes) BY <1>5 DEF Stands
  <2>2. /\ p \in Nat /\ ByteAt(text, p) = 72 /\ ByteAt(text, p + 1) = 131 /\ ByteAt(text, p + 2) = m
        /\ ByteAt(text, p + 3) = v
    BY <1>3, <2>1, FourBytesAt
  <2>3. p + 2 \in Nat /\ p + 2 + 1 = p + 3 /\ p + 3 + 1 = p + 4 /\ v # -1 /\ ByteAt(text, p + 1) # 102
    BY <2>2 DEF IsByte
  <2>4. Decode(text, p) = DecodeOpcode(text, XRex(8, p + 1), 131, p + 2) BY <2>2, <2>3, DecodeWide
  <2> DEFINE x == XRex(8, p + 1)
             q == p + 2
             d == InGroup(text, x, q, Group83)
  <2>5. x.r = 0 /\ x.b = 0 BY XFields
  <2>6. Decode(text, p) = DecodeOpcode(text, x, 131, q) BY <2>4
  <2>a. q \in Nat /\ q + 1 = p + 3 BY <2>2
  <2>b. ByteAt(text, q) = m BY <2>2
  <2>c. ByteAt(text, q) = ModRM(3, g, k) BY <1>1, <2>b
  <2>d. ByteAt(text, q + 1) = v /\ ByteAt(text, q + 1) # -1 BY <2>2, <2>3, <2>a
  <2>e. q + 1 + 1 = p + Len(bytes) BY <1>4, <2>3, <2>a
  <2>7. q \in Nat /\ ByteAt(text, q) = ModRM(3, g, k) /\ ByteAt(text, q + 1) = v /\ ByteAt(text, q + 1) # -1
        /\ q + 1 + 1 = p + Len(bytes)
    BY <2>a, <2>c, <2>d, <2>e
  <2> HIDE DEF x, q
  <2>8. Decode(text, p) = WithImm(d, v, 1) BY <2>6, <2>7, DecodeModRM
  <2>9. "group" # "none" /\ x.r \in Int /\ x.b \in Int BY <2>5
  <2>10. WithModRM(text, x, q, "group", "none") = Instruction("group", x.w, Low(g) + x.r, Low(k) + x.b, 0, q + 1)
    BY <1>0, <2>7, <2>9, BetweenRegisters
  <2>11. Low(g) + x.r = g /\ Low(k) + x.b = Low(k) BY <1>0, <2>5, LowIs
  <2>12. WithModRM(text, x, q, "group", "none") = Instruction("group", x.w, g, Low(k), 0, q + 1) BY <2>10, <2>11
  <2>13. d = Instruction(Group83[g], x.w, 0, Low(k), 0, q + 1) BY <1>0, <2>12, GroupOf
  <2> HIDE DEF d
  <2>14. Decode(text, p) = Instruction(Group83[g], x.w, 0, Low(k), v, q + 1 + 1) BY <2>8, <2>13, ImmOf
  <2> QED BY <2>7, <2>14, TupleIs
<1> HIDE DEF bytes, i
<1> QED BY <1>2, <1>4, <1>5 DEF Is

LEMMA ShadowIs ==
  /\ Is(Bytes4(72, 131, 236, 32), I("sub_imm", 0, RSP, 32)) /\ Is(Bytes4(72, 131, 236, 16), I("sub_imm", 0, RSP, 16))
  /\ Is(Bytes4(72, 131, 196, 32), I("add_imm", 0, RSP, 32)) /\ Is(Bytes4(72, 131, 196, 16), I("add_imm", 0, RSP, 16))
<1>1. IsByte(32) /\ IsByte(16) BY DEF IsByte
<1>2. 4 \in Registers /\ Low(4) = 4 /\ RSP = 4 BY DEF Registers, Low, RSP
<1>3. ModRM(3, 5, 4) = 236 /\ ModRM(3, 0, 4) = 196 BY DEF ModRM, Low
<1>4. 0 \in 0 .. 7 /\ 5 \in 0 .. 7 /\ "sub_imm" # "undefined" /\ "add_imm" # "undefined" OBVIOUS
<1>5. ASSUME NEW v, IsByte(v)
      PROVE  Is(Bytes4(72, 131, ModRM(3, 5, 4), v), I("sub_imm", 0, 4, v))
  <2>1. 5 \in DOMAIN Group83 /\ Group83[5] = "sub_imm" BY Groups
  <2>2. Is(Bytes4(72, 131, ModRM(3, 5, 4), v), I(Group83[5], 0, Low(4), v)) BY <1>2, <1>4, <1>5, <2>1, Immediate
  <2> QED BY <1>2, <2>1, <2>2
<1>6. ASSUME NEW v, IsByte(v)
      PROVE  Is(Bytes4(72, 131, ModRM(3, 0, 4), v), I("add_imm", 0, 4, v))
  <2>1. 0 \in DOMAIN Group83 /\ Group83[0] = "add_imm" BY Groups
  <2>2. Is(Bytes4(72, 131, ModRM(3, 0, 4), v), I(Group83[0], 0, Low(4), v)) BY <1>2, <1>4, <1>6, <2>1, Immediate
  <2> QED BY <1>2, <2>1, <2>2
<1>7. /\ Is(Bytes4(72, 131, 236, 32), I("sub_imm", 0, 4, 32)) /\ Is(Bytes4(72, 131, 236, 16), I("sub_imm", 0, 4, 16))
  BY <1>1, <1>3, <1>5
<1>8. /\ Is(Bytes4(72, 131, 196, 32), I("add_imm", 0, 4, 32)) /\ Is(Bytes4(72, 131, 196, 16), I("add_imm", 0, 4, 16))
  BY <1>1, <1>3, <1>6
<1> QED BY <1>2, <1>7, <1>8

LEMMA ShadowWritten ==
  /\ Written(push_shadow, C("push_shadow", 0, 0))
  /\ Written(pop_shadow, C("pop_shadow", 0, 0))
<1>1. Written(push_shadow, C("push_shadow", 0, 0))
  <2>1. Encodable(C("push_shadow", 0, 0)) BY NullaryDomain DEF Encodable, C
  <2>2. Meant(C("push_shadow", 0, 0)) = <<I("sub_imm", 0, RSP, 32)>> BY MeantIs
  <2>3. Is(push_shadow, I("sub_imm", 0, RSP, 32)) BY ShadowIs DEF push_shadow, Bytes4
  <2> QED BY <2>1, <2>2, <2>3, Exact
<1>2. Written(pop_shadow, C("pop_shadow", 0, 0))
  <2>1. Encodable(C("pop_shadow", 0, 0)) BY NullaryDomain DEF Encodable, C
  <2>2. Meant(C("pop_shadow", 0, 0)) = <<I("add_imm", 0, RSP, 32)>> BY MeantIs
  <2>3. Is(pop_shadow, I("add_imm", 0, RSP, 32)) BY ShadowIs DEF pop_shadow, Bytes4
  <2> QED BY <2>1, <2>2, <2>3, Exact
<1> QED BY <1>1, <1>2

\* Two instructions one after the other.
LEMMA IsRight ==
  ASSUME NEW bytes, NEW i, Is(bytes, i)
  PROVE  /\ bytes \in Codes /\ bytes # <<>> /\ ByteAt(bytes, 0) # 36 /\ Right(bytes, <<i>>)
         /\ \A j : j # i => Wrong(bytes, <<j>>)
<1>1. Right(bytes, <<i>>) /\ \A j : j # i => Wrong(bytes, <<j>>) BY OneInstruction DEF Is
<1> QED BY <1>1 DEF Is

LEMMA JoinedFirst ==
  ASSUME NEW a \in Codes, NEW b \in Codes, a # <<>>
  PROVE  a \o b # <<>> /\ ByteAt(a \o b, 0) = ByteAt(a, 0)
<1>1. Len(a) \in Nat /\ Len(a) >= 1 /\ Len(b) \in Nat BY DEF Codes
<1>2. a \o b \in Codes /\ Len(a \o b) = Len(a) + Len(b) BY Joined
<1>3. (a \o b)[1] = a[1] BY <1>1, ConcatProperties DEF Codes
<1>4. DOMAIN a = 1 .. Len(a) /\ DOMAIN (a \o b) = 1 .. Len(a \o b) BY <1>2 DEF Codes
<1>5. 0 + 1 = 1 /\ 1 \in DOMAIN a /\ 1 \in DOMAIN (a \o b) BY <1>1, <1>2, <1>4
<1> DEFINE ab == a \o b
<1>6. ab[1] = a[1] /\ 1 \in DOMAIN ab BY <1>3, <1>5
<1> HIDE DEF ab
<1>7. ByteAt(ab, 0) = ByteAt(a, 0) BY <1>5, <1>6 DEF ByteAt
<1>8. ab # <<>> BY <1>6
<1> QED BY <1>7, <1>8 DEF ab

LEMMA BothWritten ==
  ASSUME NEW a \in Codes, a # <<>>, ByteAt(a, 0) # 36, NEW b \in Codes, ByteAt(b, 0) # 36,
         NEW c, NEW i, NEW j, Meant(c) = <<i, j>>,
         Encodable(c) => Right(a, <<i>>) /\ Right(b, <<j>>),
         ~Encodable(c) => Wrong(a, <<i>>) \/ (Right(a, <<i>>) /\ Wrong(b, <<j>>))
  PROVE  Written(a \o b, c)
<1>1. a \o b \in Codes /\ ByteAt(a \o b, 0) # 36 BY Joined, JoinedFirst
<1>2. Encodable(c) => Right(a \o b, <<i, j>>) BY TwoInstructions
<1>3. ~Encodable(c) => Wrong(a \o b, <<i, j>>) BY TwoInstructions
<1> QED BY <1>1, <1>2, <1>3 DEF Written

\* An instruction of two parts, such as an opcode and a number.
LEMMA Parts ==
  ASSUME NEW a \in Codes, a # <<>>, ByteAt(a, 0) # 36, NEW b \in Codes, NEW i, i[1] # "undefined",
         \A text, p : Has(text, p, a) /\ Has(text, p + Len(a), b) /\ p \in Nat =>
           Tuple(Decode(text, p)) = i /\ Decode(text, p).len = p + Len(a) + Len(b)
  PROVE  Is(a \o b, i)
<1> DEFINE bytes == a \o b
<1>1. Len(a) \in Nat /\ Len(b) \in Nat BY DEF Codes
<1>2. bytes \in Codes /\ Len(bytes) = Len(a) + Len(b) /\ bytes # <<>> /\ ByteAt(bytes, 0) # 36
  BY Joined, JoinedFirst
<1>3. ASSUME NEW text, NEW p, Stands(text, p, bytes)
      PROVE  Tuple(Decode(text, p)) = i /\ Decode(text, p).len = p + Len(bytes)
  <2>1. Has(text, p, a) /\ Has(text, p + Len(a), b) BY <1>3, Joined DEF Stands
  <2>2. p \in Nat BY <2>1 DEF Has
  <2>4. Tuple(Decode(text, p)) = i /\ Decode(text, p).len = p + Len(a) + Len(b) BY <2>1, <2>2
  <2>5. p + Len(a) + Len(b) = p + Len(bytes) BY <1>1, <1>2, <2>2
  <2> QED BY <2>4, <2>5
<1> HIDE DEF bytes
<1>4. Is(bytes, i) BY <1>2, <1>3 DEF Is
<1> QED BY <1>4 DEF bytes

LEMMA MovImmIs ==
  ASSUME NEW k \in Registers, NEW v \in Int
  PROVE  Is(write_mov_reg_int64(k, v), I("mov_imm", 0, Low(k), v))
<1> DEFINE r == Low(k)
           op == 184 + r
           a == Bytes2(72, op)
           i == I("mov_imm", 0, r, v)
<1>1. r \in 0 .. 7 /\ r + 0 = r BY LowIs
<1>2. write_mov_reg_int64(k, v) = a \o Number(v, 8) BY DEF write_mov_reg_int64, Bytes2
<1> HIDE DEF r
<1>3. IsByte(72) /\ IsByte(op) /\ op # 102 BY <1>1 DEF IsByte
<1>4. a \in Codes /\ a # <<>> /\ Len(a) = 2 /\ ByteAt(a, 0) # 36 BY <1>3, TwoBytes
<1> DEFINE b == Number(v, 8)
<1>b. b \in Codes /\ Len(b) = 8 BY NumberBytes
<1>5. ASSUME NEW text, NEW p, Has(text, p, a), Has(text, p + Len(a), b), p \in Nat
      PROVE  Tuple(Decode(text, p)) = i /\ Decode(text, p).len = p + Len(a) + Len(b)
  <2>1. ByteAt(text, p) = 72 /\ ByteAt(text, p + 1) = op BY <1>3, <1>5, TwoBytesAt
  <2>2. Decode(text, p) = DecodeOpcode(text, XRex(8, p + 1), op, p + 2) BY <1>3, <1>5, <2>1, DecodeWide
  <2> DEFINE x == XRex(8, p + 1)
             q == p + 2
  <2>3. IsWide(x) /\ x.b = 0 BY XFields DEF IsWide
  <2>4. Decode(text, p) = DecodeOpcode(text, x, 184 + r, q) BY <2>2
  <2>a. Has(text, q, Number(v, 8)) BY <1>4, <1>5
  <2>5. IsNumber(text, q, 8) /\ NumberAt(text, q) = v BY <2>a, NumberAt_
  <2>6. IsLow(r) BY <1>1 DEF IsLow
  <2> HIDE DEF x, q
  <2>7. /\ Tuple(DecodeOpcode(text, x, 184 + r, q)) = I("mov_imm", 0, r, NumberAt(text, q))
        /\ DecodeOpcode(text, x, 184 + r, q).len = q + 8
    BY <2>3, <2>5, <2>6, DecodeMovImm
  <2>9. Tuple(Decode(text, p)) = i /\ Decode(text, p).len = q + 8 BY <2>4, <2>5, <2>7
  <2> QED BY <1>4, <1>b, <2>9 DEF q
<1>6. i[1] # "undefined" BY TupleFields
<1> HIDE DEF a, b, i
<1>8. Is(a \o b, i) BY <1>4, <1>b, <1>5, <1>6, Parts
<1> QED BY <1>2, <1>8 DEF b, i, r

LEMMA JumpIs ==
  /\ Is(write_jmp, I("jmp", 0, 0, 0))
  /\ Is(Opcode(<<15, 132>>) \o Number(0, 4), I("jz", 0, 0, 0))
<1>1. Is(Bytes1(233) \o Number(0, 4), I("jmp", 0, 0, 0))
  <2> DEFINE a == Bytes1(233)
             b == Number(0, 4)
             i == I("jmp", 0, 0, 0)
  <2>a. \A v \in Int : Number(v, 4) \in Codes /\ Len(Number(v, 4)) = 4 BY NumberBytes
  <2>b. b \in Codes /\ Len(b) = 4 BY <2>a
  <2>1. IsByte(233) BY DEF IsByte
  <2>2. a \in Codes /\ a # <<>> /\ Len(a) = 1 /\ ByteAt(a, 0) # 36 BY <2>1, OneByte
  <2>3. ASSUME NEW text, NEW p, Has(text, p, a), Has(text, p + Len(a), b), p \in Nat
        PROVE  Tuple(Decode(text, p)) = i /\ Decode(text, p).len = p + Len(a) + Len(b)
    <3>1. ByteAt(text, p) = 233 BY <2>1, <2>3, OneByteAt
    <3>2. Decode(text, p) = DecodeOpcode(text, XPlain(p), 233, p + 1) BY <2>3, <3>1, DecodePlain
    <3> DEFINE x == XPlain(p)
               q == p + 1
    <3>3. Has(text, q, Number(0, 4)) BY <2>2, <2>3
    <3>4. Decode(text, p) = DecodeOpcode(text, x, 233, q) /\ IsNumber(text, q, 4) /\ NumberAt(text, q) = 0
      BY <3>2, <3>3, NumberAt_
    <3> HIDE DEF x, q
    <3>5. /\ Tuple(DecodeOpcode(text, x, 233, q)) = I("jmp", 0, 0, NumberAt(text, q))
          /\ DecodeOpcode(text, x, 233, q).len = q + 4
      BY <3>4, DecodeJmp
    <3>6. Tuple(Decode(text, p)) = i /\ Decode(text, p).len = q + 4 BY <3>4, <3>5
    <3> QED BY <2>2, <2>b, <3>6 DEF q
  <2>4. i[1] # "undefined" BY TupleFields
  <2> HIDE DEF a, b, i
  <2>6. Is(a \o b, i) BY <2>2, <2>b, <2>3, <2>4, Parts
  <2> QED BY <2>6 DEF a, b, i
<1>2. Is(Bytes2(15, 132) \o Number(0, 4), I("jz", 0, 0, 0))
  <2> DEFINE a == Bytes2(15, 132)
             b == Number(0, 4)
             i == I("jz", 0, 0, 0)
  <2>a. \A v \in Int : Number(v, 4) \in Codes /\ Len(Number(v, 4)) = 4 BY NumberBytes
  <2>b. b \in Codes /\ Len(b) = 4 BY <2>a
  <2>1. IsByte(15) /\ IsByte(132) BY DEF IsByte
  <2>2. a \in Codes /\ a # <<>> /\ Len(a) = 2 /\ ByteAt(a, 0) # 36 BY <2>1, TwoBytes
  <2>3. ASSUME NEW text, NEW p, Has(text, p, a), Has(text, p + Len(a), b), p \in Nat
        PROVE  Tuple(Decode(text, p)) = i /\ Decode(text, p).len = p + Len(a) + Len(b)
    <3>1. ByteAt(text, p) = 15 /\ ByteAt(text, p + 1) = 132 BY <2>1, <2>3, TwoBytesAt
    <3>0. ByteAt(text, p) \in Nat /\ ByteAt(text, p) # 102 /\ ~(ByteAt(text, p) \in 64 .. 79) BY <3>1
    <3>b. p \in Nat /\ ByteAt(text, p) = 15 BY <2>3, <3>1
    <3>2. Decode(text, p) = DecodeOpcode(text, XPlain(p), 15, p + 1) BY <3>0, <3>b, DecodePlain
    <3> DEFINE x == XPlain(p)
               q == p + 1
    <3>3. Decode(text, p) = DecodeEscape(text, x, q) BY <3>2, DecodeModRM
    <3>4. q \in Nat /\ q + 1 = p + 2 /\ q + 5 = p + 2 + 4 BY <2>3
    <3>5. ByteAt(text, q) = 132 BY <3>1
    <3>a. Has(text, q + 1, Number(0, 4)) BY <2>2, <2>3, <3>4
    <3>6. IsNumber(text, q + 1, 4) /\ NumberAt(text, q + 1) = 0 BY <3>a, NumberAt_
    <3> HIDE DEF x, q
    <3>7. Tuple(Decode(text, p)) = i /\ Decode(text, p).len = q + 5 BY <3>3, <3>4, <3>5, <3>6, DecodeJz
    <3> QED BY <2>2, <2>b, <3>4, <3>7
  <2>4. i[1] # "undefined" BY TupleFields
  <2> HIDE DEF a, b, i
  <2>6. Is(a \o b, i) BY <2>2, <2>b, <2>3, <2>4, Parts
  <2> QED BY <2>6 DEF a, b, i
<1> QED BY <1>1, <1>2 DEF write_jmp, Bytes1, Bytes2

LEMMA JmpWritten == Written(write_jmp, C("jmp", 0, 0))
<1>1. Encodable(C("jmp", 0, 0)) BY NullaryDomain DEF Encodable, C
<1>2. Meant(C("jmp", 0, 0)) = <<I("jmp", 0, 0, 0)>> BY MeantIs
<1> QED BY <1>1, <1>2, JumpIs, Exact

LEMMA MovImmWritten ==
  ASSUME NEW a \in Registers
  PROVE  Written(write_mov_reg_int64(a, Word64), C("mov_reg_int64", a, 0))
<1>1. Encodable(C("mov_reg_int64", a, 0)) <=> a < 8 BY NullaryDomain DEF Encodable, C
<1>2. Meant(C("mov_reg_int64", a, 0)) = <<I("mov_imm", 0, a, Word64)>> BY MeantIs
<1>3. Word64 \in Int BY DEF Word64
<1>4. Is(write_mov_reg_int64(a, Word64), I("mov_imm", 0, Low(a), Word64)) BY <1>3, MovImmIs
<1>5. I("mov_imm", 0, Low(a), Word64) = I("mov_imm", 0, a, Word64) <=> Low(a) = a BY TupleFields
<1>6. Low(a) = a <=> a < 8 BY LowIs
<1> QED BY <1>1, <1>2, <1>4, <1>5, <1>6, Exact

LEMMA MovF64Written ==
  ASSUME NEW a \in Registers
  PROVE  Written(write_mov_xmm_f64(a, Word64), C("mov_xmm_f64", a, 0))
<1> DEFINE c == C("mov_xmm_f64", a, 0)
           d == C("mov_reg_to_xmm", 0, a)
           first  == write_mov_reg_int64(0, Word64)
           second == write_mov_reg_to_xmm(0, a)
           i == I("mov_imm", 0, 0, Word64)
           j == I("movq_to_xmm", a, 0, 0)
<1>1. Encodable(c) <=> a < 8 BY NullaryDomain DEF Encodable, C
<1>2. Meant(c) = <<i, j>> BY MeantIs DEF RAX
<1>3. 0 \in Registers /\ Low(0) = 0 /\ Word64 \in Int BY DEF Registers, Low, Word64
<1>4. Is(first, i)
  <2>1. Is(write_mov_reg_int64(0, Word64), I("mov_imm", 0, Low(0), Word64)) BY <1>3, MovImmIs
  <2> QED BY <1>3, <2>1
<1>5. Encodable(d) <=> a < 8 BY NullaryDomain DEF Encodable, C
<1>6. Meant(d) = <<j>> BY MeantIs
<1>7. Written(second, d) BY <1>3, MovqToXmmWritten
<1>8. write_mov_xmm_f64(a, Word64) = first \o second BY DEF write_mov_xmm_f64, RAX
<1> SUFFICES Written(first \o second, c) BY <1>8
<1> HIDE DEF c, d, first, second, i, j
<1>9. first \in Codes /\ first # <<>> /\ ByteAt(first, 0) # 36 /\ Right(first, <<i>>) BY <1>4, IsRight
<1>10. /\ second \in Codes /\ ByteAt(second, 0) # 36
       /\ (Encodable(d) => Right(second, <<j>>)) /\ (~Encodable(d) => Wrong(second, <<j>>))
  BY <1>6, <1>7 DEF Written
<1> QED BY <1>1, <1>2, <1>5, <1>9, <1>10, BothWritten

LEMMA CondJmpWritten ==
  ASSUME NEW a \in Registers
  PROVE  Written(write_cond_jmp(a), C("cond_jmp", a, 0))
<1> DEFINE c == C("cond_jmp", a, 0)
           first  == Bytes4(72, 131, ModRM(3, 7, a), 0)
           second == Opcode(<<15, 132>>) \o Number(0, 4)
           i == I("cmp_imm", 0, a, 0)
           j == I("jz", 0, 0, 0)
           k == I("cmp_imm", 0, Low(a), 0)
<1>1. Encodable(c) <=> a < 8 BY NullaryDomain DEF Encodable, C
<1>2. Meant(c) = <<i, j>> BY MeantIs
<1>3. Is(first, k)
  <2>1. 7 \in DOMAIN Group83 /\ Group83[7] = "cmp_imm" /\ "cmp_imm" # "undefined" /\ 7 \in 0 .. 7 BY Groups
  <2>2. IsByte(0) BY DEF IsByte
  <2>3. Is(first, I(Group83[7], 0, Low(a), 0)) BY <2>1, <2>2, Immediate
  <2> QED BY <2>1, <2>3
<1>4. Is(second, j) BY JumpIs
<1>5. 248 + Low(a) = ModRM(3, 7, a) BY LowIs DEF ModRM, Low
<1>6. write_cond_jmp(a) = first \o second BY <1>5 DEF write_cond_jmp, Bytes4
<1>7. (Encodable(c) <=> k = i)
  <2>1. k = i <=> Low(a) = a BY TupleFields
  <2>2. Low(a) = a <=> a < 8 BY LowIs
  <2> QED BY <1>1, <2>1, <2>2
<1> SUFFICES Written(first \o second, c) BY <1>6
<1> HIDE DEF c, first, second, i, j, k
<1>8. /\ first \in Codes /\ first # <<>> /\ ByteAt(first, 0) # 36
      /\ Right(first, <<k>>) /\ (i # k => Wrong(first, <<i>>))
  BY <1>3, IsRight
<1>9. second \in Codes /\ ByteAt(second, 0) # 36 /\ Right(second, <<j>>) BY <1>4, IsRight
<1> QED BY <1>2, <1>7, <1>8, <1>9, BothWritten

LEMMA CallIs ==
  ASSUME NEW a \in Registers
  PROVE  Is(write_call_indirect(a), I("call", 0, Low(a), 0))
<1> DEFINE m == ModRM(3, 2, a)
           bytes == Bytes3(72, 255, m)
<1>0. 2 \in Registers /\ 2 \in DOMAIN GroupFF /\ GroupFF[2] = "call" /\ "call" # "undefined" /\ 2 \in 0 .. 7
  BY Groups DEF Registers
<1>1. m \in 0 .. 255 /\ m = ModRM(3, 2, a) BY <1>0, ModRMFields
<1>2. 208 + Low(a) = m BY LowIs DEF ModRM, Low
<1>3. write_call_indirect(a) = bytes BY <1>2 DEF write_call_indirect, Bytes3
<1> HIDE DEF m
<1>4. IsByte(72) /\ IsByte(255) /\ IsByte(m) BY <1>1 DEF IsByte
<1>5. bytes \in Codes /\ bytes # <<>> /\ Len(bytes) = 3 /\ ByteAt(bytes, 0) # 36 BY <1>4, ThreeBytes
<1>6. ASSUME NEW text, NEW p, Stands(text, p, bytes)
      PROVE  \E x : /\ x.r = 0 /\ x.b = 0 /\ ByteAt(text, p + 2) = ModRM(3, 2, a)
                    /\ Decode(text, p) = InGroup(text, x, p + 2, GroupFF)
  <2>1. Has(text, p, bytes) BY <1>6 DEF Stands
  <2>2. p \in Nat /\ ByteAt(text, p) = 72 /\ ByteAt(text, p + 1) = 255 /\ ByteAt(text, p + 2) = m
    BY <1>4, <2>1, ThreeBytesAt
  <2>3. ByteAt(text, p + 1) # 102 BY <2>2
  <2>4. Decode(text, p) = DecodeOpcode(text, XRex(8, p + 1), 255, p + 2) BY <2>2, <2>3, DecodeWide
  <2>5. Decode(text, p) = InGroup(text, XRex(8, p + 1), p + 2, GroupFF) BY <2>4, DecodeModRM
  <2>6. XRex(8, p + 1).r = 0 /\ XRex(8, p + 1).b = 0 BY XFields
  <2> QED BY <1>1, <2>2, <2>5, <2>6
<1>7. 3 = 2 + 1 /\ 2 \in Nat OBVIOUS
<1> HIDE DEF bytes
<1>8. Is(bytes, I(GroupFF[2], 0, Low(a), 0)) BY <1>0, <1>5, <1>6, <1>7, DirectGroup
<1> QED BY <1>0, <1>3, <1>8

LEMMA CallWritten ==
  ASSUME NEW a \in Registers
  PROVE  Written(write_call_indirect(a), C("call_indirect", a, 0))
<1>1. Encodable(C("call_indirect", a, 0)) <=> a < 8 BY NullaryDomain DEF Encodable, C
<1>2. Meant(C("call_indirect", a, 0)) = <<I("call", 0, a, 0)>> BY MeantIs
<1>3. I("call", 0, Low(a), 0) = I("call", 0, a, 0) <=> Low(a) = a BY TupleFields
<1>4. Low(a) = a <=> a < 8 BY LowIs
<1> QED BY <1>1, <1>2, <1>3, <1>4, CallIs, Exact

LEMMA CallDirectWritten == Written(write_call_direct, C("call_direct", 0, 0))
<1> DEFINE c == C("call_direct", 0, 0)
           first  == write_mov_reg_int64(0, 0)
           second == write_call_indirect(0)
           i == I("mov_imm", 0, 0, 0)
           j == I("call", 0, 0, 0)
<1>1. Encodable(c) BY NullaryDomain DEF Encodable, C
<1>2. Meant(c) = <<i, j>> BY MeantIs DEF RAX
<1>3. 0 \in Registers /\ Low(0) = 0 /\ 0 \in Int BY DEF Registers, Low
<1>4. Is(first, i)
  <2>1. Is(write_mov_reg_int64(0, 0), I("mov_imm", 0, Low(0), 0)) BY <1>3, MovImmIs
  <2> QED BY <1>3, <2>1
<1>5. Is(second, j)
  <2>1. Is(write_call_indirect(0), I("call", 0, Low(0), 0)) BY <1>3, CallIs
  <2> QED BY <1>3, <2>1
<1>6. write_call_direct = first \o second BY DEF write_call_direct, RAX
<1> SUFFICES Written(first \o second, c) BY <1>6
<1> HIDE DEF c, first, second, i, j
<1>7. first \in Codes /\ first # <<>> /\ ByteAt(first, 0) # 36 /\ Right(first, <<i>>) BY <1>4, IsRight
<1>8. second \in Codes /\ ByteAt(second, 0) # 36 /\ Right(second, <<j>>) BY <1>5, IsRight
<1> QED BY <1>1, <1>2, <1>7, <1>8, BothWritten

\* The saving and restoring of an xmm register, whose ModR/M byte 04 | xmm << 3
\* is read with the byte behind it, or as no mode that the processor has here.
LEMMA OrFour ==
  ASSUME NEW x \in Registers
  PROVE  /\ Or(4, 8 * x) \in 0 .. 255
         /\ x < 8 => Or(4, 8 * x) = ModRM(0, x, 4)
         /\ x >= 8 => Or(4, 8 * x) \div 64 = 1
<1>1. And(4, 8 * x) = 0
  <2>1. Bit(4, 1) = 0 /\ Bit(4, 2) = 0 /\ Bit(4, 8) = 0 /\ Bit(4, 16) = 0 /\ Bit(4, 32) = 0 /\ Bit(4, 64) = 0
        /\ Bit(4, 128) = 0
    BY DEF Bit
  <2>2. Bit(8 * x, 4) = 0 BY DEF Bit, Registers
  <2> QED BY <2>1, <2>2 DEF And
<1>2. Or(4, 8 * x) = 4 + 8 * x BY <1>1 DEF Or, Registers
<1>3. x < 8 => ModRM(0, x, 4) = 4 + 8 * x BY DEF ModRM, Low, Registers
<1>4. 4 + 8 * x \in 0 .. 255 /\ (x >= 8 => (4 + 8 * x) \div 64 = 1) BY DEF Registers
<1> QED BY <1>2, <1>3, <1>4

LEMMA NoSuchMode ==
  ASSUME NEW text, NEW x, NEW p, NEW direct, NEW through,
         NEW byte, ByteAt(text, p) = byte, byte # -1, byte \div 64 = 1
  PROVE  WithModRM(text, x, p, direct, through) = Undefined
<1>1. ~(1 = 3) /\ ~(1 = 0) OBVIOUS
<1> QED BY <1>1 DEF WithModRM

LEMMA NoSib ==
  ASSUME NEW x \in Registers, NEW op, IsByte(op), NEW name, name # "undefined", NEW direct, NEW through,
         \A text, y : \A p \in Nat : ByteAt(text, p) = op /\ Unsized(y) =>
           DecodeEscape(text, y, p) = WithModRM(text, y, p + 1, direct, through)
  PROVE  Wrong(Bytes4(72, 15, op, Or(4, 8 * x)), <<I(name, x, 4, 0)>>)
<1> DEFINE m == Or(4, 8 * x)
           bytes == Bytes4(72, 15, op, m)
           j == I(name, x, 4, 0)
<1>1. m \in 0 .. 255 /\ (x < 8 => m = ModRM(0, x, 4)) /\ (x >= 8 => m \div 64 = 1) BY OrFour
<1> SUFFICES Wrong(bytes, <<j>>) OBVIOUS
<1> HIDE DEF m
<1>2. IsByte(72) /\ IsByte(15) /\ IsByte(m) /\ m # -1 BY <1>1 DEF IsByte
<1>3. bytes \in Codes /\ bytes # <<>> /\ Len(bytes) = 4 BY <1>2, FourBytes
<1>4. ASSUME NEW text, NEW p, Stands(text, p, bytes)
      PROVE  Tuple(Decode(text, p)) # j
  <2>1. Has(text, p, bytes) /\ ByteAt(text, p + 4) # 36 BY <1>3, <1>4 DEF Stands
  <2>2. /\ p \in Nat /\ ByteAt(text, p) = 72 /\ ByteAt(text, p + 1) = 15 /\ ByteAt(text, p + 2) = op
        /\ ByteAt(text, p + 3) = m
    BY <1>2, <2>1, FourBytesAt
  <2>3. p + 2 \in Nat /\ p + 2 + 1 = p + 3 /\ p + 3 \in Nat /\ p + 3 + 1 = p + 4 /\ ByteAt(text, p + 1) # 102
    BY <2>2
  <2>4. Decode(text, p) = DecodeOpcode(text, XRex(8, p + 1), 15, p + 2) BY <2>2, <2>3, DecodeWide
  <2>5. Decode(text, p) = DecodeEscape(text, XRex(8, p + 1), p + 2) BY <2>4, DecodeModRM
  <2> DEFINE y == XRex(8, p + 1)
             q == p + 3
  <2>6. Unsized(y) /\ y.b = 0 BY XFields DEF Unsized
  <2>7. Decode(text, p) = WithModRM(text, y, q, direct, through) BY <2>2, <2>3, <2>5, <2>6
  <2>8. q \in Nat /\ ByteAt(text, q) = m /\ ByteAt(text, q + 1) # 36 BY <2>1, <2>2, <2>3
  <2> HIDE DEF y, q
  <2>9. ASSUME x < 8 PROVE Decode(text, p) = Undefined
    <3>1. 4 \in Registers /\ Low(4) = 4 /\ Low(4) \in {4, 5} BY DEF Registers, Low
    <3>2. ByteAt(text, q) = ModRM(0, x, 4) BY <1>1, <2>8, <2>9
    <3>3. WithModRM(text, y, q, direct, through) = Undefined
      BY <2>6, <2>8, <3>1, <3>2, NotThroughRegister
    <3> QED BY <2>7, <3>3
  <2>10. ASSUME x >= 8 PROVE Decode(text, p) = Undefined
    <3>1. m \div 64 = 1 BY <1>1, <2>10
    <3>2. WithModRM(text, y, q, direct, through) = Undefined BY <1>2, <2>8, <3>1, NoSuchMode
    <3> QED BY <2>7, <3>2
  <2>11. Decode(text, p) = Undefined BY <2>9, <2>10 DEF Registers
  <2>12. Tuple(Undefined)[1] = "undefined" /\ j[1] = name BY DEF Tuple, Undefined, I
  <2> QED BY <2>11, <2>12
<1> HIDE DEF bytes, j
<1> QED BY <1>3, <1>4, NotThisInstruction

LEMMA SaveXmmWritten ==
  ASSUME NEW a \in Registers
  PROVE  /\ Written(write_push_xmm(a), C("push_xmm", a, 0))
         /\ Written(write_pop_xmm(a), C("pop_xmm", a, 0))
<1>0. IsByte(72) /\ IsByte(15) /\ IsByte(40) /\ IsByte(41) /\ IsByte(Or(4, 8 * a)) BY OrFour DEF IsByte
<1> DEFINE move(op) == Bytes4(72, 15, op, Or(4, 8 * a))
<1>1. /\ move(40) \in Codes /\ move(40) # <<>> /\ ByteAt(move(40), 0) # 36
      /\ move(41) \in Codes /\ move(41) # <<>> /\ ByteAt(move(41), 0) # 36
  BY <1>0, FourBytes
<1>2. Written(write_push_xmm(a), C("push_xmm", a, 0))
  <2> DEFINE c == C("push_xmm", a, 0)
             first  == Bytes4(72, 131, 236, 16)
             second == move(41)
             i == I("sub_imm", 0, RSP, 16)
             j == I("movaps_store", a, RSP, 0)
  <2>1. ~Encodable(c) BY NullaryDomain DEF Encodable, C
  <2>2. Meant(c) = <<i, j>> BY MeantIs
  <2>3. Is(first, i) BY ShadowIs
  <2>4. \A text, y : \A p \in Nat : ByteAt(text, p) = 41 /\ Unsized(y) =>
           DecodeEscape(text, y, p) = WithModRM(text, y, p + 1, "none", "movaps_store")
    BY DecodeSse
  <2>5. "movaps_store" # "undefined" OBVIOUS
  <2>6. Wrong(second, <<I("movaps_store", a, 4, 0)>>) BY <1>0, <2>4, <2>5, NoSib
  <2>7. Wrong(second, <<j>>) BY <2>6 DEF RSP
  <2>8. write_push_xmm(a) = first \o second BY DEF write_push_xmm, Bytes4
  <2>9. second \in Codes /\ ByteAt(second, 0) # 36 BY <1>1
  <2> SUFFICES Written(first \o second, c) BY <2>8
  <2> HIDE DEF c, first, second, i, j
  <2>10. first \in Codes /\ first # <<>> /\ ByteAt(first, 0) # 36 /\ Right(first, <<i>>) BY <2>3, IsRight
  <2> QED BY <2>1, <2>2, <2>7, <2>9, <2>10, BothWritten
<1>3. Written(write_pop_xmm(a), C("pop_xmm", a, 0))
  <2> DEFINE c == C("pop_xmm", a, 0)
             first  == move(40)
             second == Bytes4(72, 131, 196, 16)
             i == I("movaps_load", a, RSP, 0)
             j == I("add_imm", 0, RSP, 16)
  <2>1. ~Encodable(c) BY NullaryDomain DEF Encodable, C
  <2>2. Meant(c) = <<i, j>> BY MeantIs
  <2>3. Is(second, j) BY ShadowIs
  <2>4. \A text, y : \A p \in Nat : ByteAt(text, p) = 40 /\ Unsized(y) =>
           DecodeEscape(text, y, p) = WithModRM(text, y, p + 1, "movaps", "movaps_load")
    BY DecodeSse
  <2>5. "movaps_load" # "undefined" OBVIOUS
  <2>6. Wrong(first, <<I("movaps_load", a, 4, 0)>>) BY <1>0, <2>4, <2>5, NoSib
  <2>7. Wrong(first, <<i>>) BY <2>6 DEF RSP
  <2>8. write_pop_xmm(a) = first \o second BY DEF write_pop_xmm, Bytes4
  <2>9. first \in Codes /\ first # <<>> /\ ByteAt(first, 0) # 36 BY <1>1
  <2> SUFFICES Written(first \o second, c) BY <2>8
  <2> HIDE DEF c, first, second, i, j
  <2>10. second \in Codes /\ ByteAt(second, 0) # 36 BY <2>3, IsRight
  <2> QED BY <2>1, <2>2, <2>7, <2>9, <2>10, BothWritten
<1> QED BY <1>2, <1>3

----------------------------------------------------------------------------
\* All the functions.
LEMMA BinaryWritten ==
  ASSUME NEW a \in Registers, NEW b \in Registers, NEW fn \in DOMAIN Binary(a, b)
  PROVE  Written(Binary(a, b)[fn], C(fn, a, b))
<1>1. fn \in {"mov_reg_to_mem", "mov_mem_to_reg", "mov_reg_to_reg", "mov_xmm_to_xmm", "mov_reg_to_xmm",
              "move_xmm_to_reg", "add", "sub", "mod", "add_xmm", "sub_xmm", "mul_xmm", "div_xmm"}
  BY DEF Binary
<1>2. /\ Binary(a, b)["mov_reg_to_mem"] = write_mov_reg_to_mem(a, b)
      /\ Binary(a, b)["mov_mem_to_reg"] = write_mov_mem_to_reg(a, b)
      /\ Binary(a, b)["mov_reg_to_reg"] = write_mov_reg_to_reg(a, b)
      /\ Binary(a, b)["mov_xmm_to_xmm"] = write_mov_xmm_to_xmm(a, b)
      /\ Binary(a, b)["mov_reg_to_xmm"] = write_mov_reg_to_xmm(a, b)
      /\ Binary(a, b)["move_xmm_to_reg"] = write_move_xmm_to_reg(a, b)
      /\ Binary(a, b)["add"] = write_add_reg_to_reg(a, b)
      /\ Binary(a, b)["sub"] = write_sub_reg_to_reg(a, b)
      /\ Binary(a, b)["mod"] = write_mod_reg_to_reg(a, b)
      /\ Binary(a, b)["add_xmm"] = write_add_xmm_to_xmm(a, b)
      /\ Binary(a, b)["sub_xmm"] = write_sub_reg_to_reg_xmm(a, b)
      /\ Binary(a, b)["mul_xmm"] = write_mul_reg_to_reg_xmm(a, b)
      /\ Binary(a, b)["div_xmm"] = write_div_reg_to_reg_xmm(a, b)
  BY DEF Binary
<1>3. /\ Written(Binary(a, b)["mov_reg_to_mem"], C("mov_reg_to_mem", a, b))
      /\ Written(Binary(a, b)["mov_mem_to_reg"], C("mov_mem_to_reg", a, b))
      /\ Written(Binary(a, b)["mov_reg_to_reg"], C("mov_reg_to_reg", a, b))
      /\ Written(Binary(a, b)["mov_xmm_to_xmm"], C("mov_xmm_to_xmm", a, b))
      /\ Written(Binary(a, b)["mov_reg_to_xmm"], C("mov_reg_to_xmm", a, b))
      /\ Written(Binary(a, b)["move_xmm_to_reg"], C("move_xmm_to_reg", a, b))
  BY <1>2, StoreLoadWritten, MovWritten, MovapsWritten, MovqToXmmWritten, MovqFromXmmWritten
<1>4. /\ Written(Binary(a, b)["add"], C("add", a, b))
      /\ Written(Binary(a, b)["sub"], C("sub", a, b))
      /\ Written(Binary(a, b)["mod"], C("mod", a, b))
      /\ Written(Binary(a, b)["add_xmm"], C("add_xmm", a, b))
      /\ Written(Binary(a, b)["sub_xmm"], C("sub_xmm", a, b))
      /\ Written(Binary(a, b)["mul_xmm"], C("mul_xmm", a, b))
      /\ Written(Binary(a, b)["div_xmm"], C("div_xmm", a, b))
  BY <1>2, AddWritten, SubWritten, DivisionWritten, AddpdWritten, XmmWritten
<1> QED BY <1>1, <1>3, <1>4

LEMMA UnaryWritten ==
  ASSUME NEW a \in Registers, NEW fn \in DOMAIN Unary(a)
  PROVE  Written(Unary(a)[fn], C(fn, a, 0))
<1>1. fn \in {"push_reg", "pop_reg", "push_xmm", "pop_xmm", "mov_reg_int64", "mov_xmm_f64", "div", "cond_jmp",
              "call_indirect"}
  BY DEF Unary
<1>2. /\ Unary(a)["push_reg"] = write_push_reg(a)
      /\ Unary(a)["pop_reg"] = write_pop_reg(a)
      /\ Unary(a)["push_xmm"] = write_push_xmm(a)
      /\ Unary(a)["pop_xmm"] = write_pop_xmm(a)
      /\ Unary(a)["mov_reg_int64"] = write_mov_reg_int64(a, Word64)
      /\ Unary(a)["mov_xmm_f64"] = write_mov_xmm_f64(a, Word64)
      /\ Unary(a)["div"] = write_div_reg(a)
      /\ Unary(a)["cond_jmp"] = write_cond_jmp(a)
      /\ Unary(a)["call_indirect"] = write_call_indirect(a)
  BY DEF Unary
<1>3. 0 \in Registers BY DEF Registers
<1>4. Written(write_div_reg(a), C("div", a, 0)) BY <1>3, DivisionWritten
<1>5. /\ Written(Unary(a)["push_reg"], C("push_reg", a, 0))
      /\ Written(Unary(a)["pop_reg"], C("pop_reg", a, 0))
      /\ Written(Unary(a)["push_xmm"], C("push_xmm", a, 0))
      /\ Written(Unary(a)["pop_xmm"], C("pop_xmm", a, 0))
      /\ Written(Unary(a)["mov_reg_int64"], C("mov_reg_int64", a, 0))
      /\ Written(Unary(a)["mov_xmm_f64"], C("mov_xmm_f64", a, 0))
      /\ Written(Unary(a)["div"], C("div", a, 0))
      /\ Written(Unary(a)["cond_jmp"], C("cond_jmp", a, 0))
      /\ Written(Unary(a)["call_indirect"], C("call_indirect", a, 0))
  BY <1>2, <1>4, PushWritten, PopWritten, SaveXmmWritten, MovImmWritten, MovF64Written, CondJmpWritten, CallWritten
<1> QED BY <1>1, <1>5

LEMMA NullaryWritten ==
  ASSUME NEW fn \in DOMAIN Nullary
  PROVE  Written(Nullary[fn], C(fn, 0, 0))
<1>1. fn \in {"push_shadow", "pop_shadow", "jmp", "call_direct", "ret"} BY NullaryDomain
<1>2. /\ Nullary["push_shadow"] = push_shadow /\ Nullary["pop_shadow"] = pop_shadow
      /\ Nullary["jmp"] = write_jmp /\ Nullary["call_direct"] = write_call_direct /\ Nullary["ret"] = write_ret
  BY DEF Nullary
<1>3. /\ Written(Nullary["push_shadow"], C("push_shadow", 0, 0))
      /\ Written(Nullary["pop_shadow"], C("pop_shadow", 0, 0))
      /\ Written(Nullary["jmp"], C("jmp", 0, 0))
      /\ Written(Nullary["call_direct"], C("call_direct", 0, 0))
      /\ Written(Nullary["ret"], C("ret", 0, 0))
  BY <1>2, ShadowWritten, JmpWritten, CallDirectWritten, RetWritten
<1> QED BY <1>1, <1>3

----------------------------------------------------------------------------
\* Sequences of any elements.
IsSeq(q) == \E S : q \in Seq(S)

LEMMA SeqAppend ==
  ASSUME NEW q, IsSeq(q), NEW e
  PROVE  /\ IsSeq(Append(q, e)) /\ Len(q) \in Nat /\ Len(Append(q, e)) = Len(q) + 1
         /\ Append(q, e)[Len(q) + 1] = e /\ \A k \in 1 .. Len(q) : Append(q, e)[k] = q[k]
<1>1. PICK S : q \in Seq(S) BY DEF IsSeq
<1> DEFINE T == S \cup {e}
<1>2. q \in Seq(T) /\ e \in T
  <2>1. \A k \in 1 .. Len(q) : q[k] \in T BY <1>1, ElementOfSeq
  <2> QED BY <1>1, <2>1
<1> HIDE DEF T
<1>3. /\ Append(q, e) \in Seq(T) /\ Len(q) \in Nat /\ Len(Append(q, e)) = Len(q) + 1
      /\ Append(q, e)[Len(q) + 1] = e /\ \A k \in 1 .. Len(q) : Append(q, e)[k] = q[k]
  BY <1>2, AppendProperties
<1> QED BY <1>3 DEF IsSeq

LEMMA SeqJoin ==
  ASSUME NEW q, IsSeq(q), NEW r, IsSeq(r)
  PROVE  /\ IsSeq(q \o r) /\ Len(q) \in Nat /\ Len(r) \in Nat /\ Len(q \o r) = Len(q) + Len(r)
         /\ \A k \in 1 .. Len(q) : (q \o r)[k] = q[k]
         /\ \A k \in 1 .. Len(r) : (q \o r)[Len(q) + k] = r[k]
<1>1. PICK S : q \in Seq(S) BY DEF IsSeq
<1>2. PICK R : r \in Seq(R) BY DEF IsSeq
<1> DEFINE T == S \cup R
<1>3. q \in Seq(T) /\ r \in Seq(T)
  <2>1. \A k \in 1 .. Len(q) : q[k] \in T BY <1>1, ElementOfSeq
  <2>2. \A k \in 1 .. Len(r) : r[k] \in T BY <1>2, ElementOfSeq
  <2> QED BY <1>1, <1>2, <2>1, <2>2
<1> HIDE DEF T
<1>4. /\ q \o r \in Seq(T) /\ Len(q) \in Nat /\ Len(r) \in Nat /\ Len(q \o r) = Len(q) + Len(r)
      /\ \A k \in 1 .. Len(q) : (q \o r)[k] = q[k]
  BY <1>3, ConcatProperties
<1>5. \A k \in 1 .. Len(r) : (q \o r)[Len(q) + k] = r[k] BY <1>3, <1>4
<1> QED BY <1>4, <1>5 DEF IsSeq

LEMMA SeqJoinAt ==
  ASSUME NEW q, IsSeq(q), NEW r, IsSeq(r), NEW k, k \in 1 .. Len(r)
  PROVE  (q \o r)[Len(q) + k] = r[k]
<1>1. \A j \in 1 .. Len(r) : (q \o r)[Len(q) + j] = r[j] BY SeqJoin
<1> QED BY <1>1

LEMMA JoinedAt ==
  ASSUME NEW q, IsSeq(q), NEW r, IsSeq(r)
  PROVE  /\ IsSeq(q \o r) /\ Len(q \o r) = Len(q) + Len(r)
         /\ Len(r) = 1 => (q \o r)[Len(q) + 1] = r[1]
         /\ Len(r) = 2 => (q \o r)[Len(q) + 1] = r[1] /\ (q \o r)[Len(q) + 2] = r[2]
<1>1. IsSeq(q \o r) /\ Len(q \o r) = Len(q) + Len(r) BY SeqJoin
<1>2. ASSUME Len(r) = 1 PROVE (q \o r)[Len(q) + 1] = r[1]
  <2>1. 1 \in 1 .. Len(r) BY <1>2
  <2> QED BY <2>1, SeqJoinAt
<1>3. ASSUME Len(r) = 2 PROVE (q \o r)[Len(q) + 1] = r[1] /\ (q \o r)[Len(q) + 2] = r[2]
  <2>1. 1 \in 1 .. Len(r) /\ 2 \in 1 .. Len(r) BY <1>3
  <2>2. (q \o r)[Len(q) + 1] = r[1] BY <2>1, SeqJoinAt
  <2>3. (q \o r)[Len(q) + 2] = r[2] BY <2>1, SeqJoinAt
  <2> QED BY <2>2, <2>3
<1> QED BY <1>1, <1>2, <1>3

\* The instructions m, from the first on, stand in the text at the offsets s.
Chain(text, m, s) ==
  /\ s \in Seq(Nat) /\ s # <<>> /\ s[1] = 0 /\ Len(s) <= Len(m) + 1
  /\ \A k \in 1 .. Len(s) - 1 : ReadsAs(text, s[k], m[k], s[k + 1])
\* All of them, and nothing else; or all before one that is not read as meant.
Whole(text, m, s) == Chain(text, m, s) /\ Len(s) = Len(m) + 1 /\ s[Len(s)] = Len(text)
Broken(text, m, s) == Chain(text, m, s) /\ Len(s) <= Len(m) /\ Misread(text, s[Len(s)], m[Len(s)])

LEMMA ChainGrows ==
  ASSUME NEW text \in Codes, NEW m, IsSeq(m), NEW s, Chain(text, m, s),
         NEW bytes \in Codes, ByteAt(bytes, 0) # 36, NEW m2, IsSeq(m2)
  PROVE  Chain(text \o bytes, m \o m2, s)
<1>1. /\ Len(m) \in Nat /\ Len(m2) \in Nat /\ Len(m \o m2) = Len(m) + Len(m2)
      /\ \A k \in 1 .. Len(m) : (m \o m2)[k] = m[k]
  BY SeqJoin
<1>2. s \in Seq(Nat) /\ s # <<>> /\ s[1] = 0 /\ Len(s) <= Len(m) + 1 /\ Len(s) \in Nat BY DEF Chain
<1>3. ASSUME NEW k \in 1 .. Len(s) - 1
      PROVE  ReadsAs(text \o bytes, s[k], (m \o m2)[k], s[k + 1])
  <2>1. ReadsAs(text, s[k], m[k], s[k + 1]) BY DEF Chain
  <2>2. k \in 1 .. Len(m) BY <1>1, <1>2
  <2>3. (m \o m2)[k] = m[k] BY <1>1, <2>2
  <2>4. ReadsAs(text \o bytes, s[k], m[k], s[k + 1]) BY <2>1, Appended
  <2> QED BY <2>3, <2>4
<1>4. Len(s) <= Len(m \o m2) + 1 BY <1>1, <1>2
<1> QED BY <1>2, <1>3, <1>4 DEF Chain

LEMMA ChainStep ==
  ASSUME NEW text, NEW m, IsSeq(m), NEW s, Chain(text, m, s), Len(s) <= Len(m),
         NEW n, ReadsAs(text, s[Len(s)], m[Len(s)], n)
  PROVE  Chain(text, m, Append(s, n)) /\ Len(Append(s, n)) = Len(s) + 1 /\ Append(s, n)[Len(s) + 1] = n
<1> DEFINE t == Append(s, n)
<1>1. s \in Seq(Nat) /\ s # <<>> /\ s[1] = 0 /\ Len(s) \in Nat /\ Len(s) >= 1 BY DEF Chain
<1>2. n \in Nat BY DEF ReadsAs
<1>3. /\ t \in Seq(Nat) /\ Len(t) = Len(s) + 1 /\ t[Len(s) + 1] = n
      /\ \A k \in 1 .. Len(s) : t[k] = s[k]
  BY <1>1, <1>2, AppendProperties
<1> HIDE DEF t
<1>4. Len(m) \in Nat BY SeqAppend
<1>5. t # <<>> /\ t[1] = 0 /\ Len(t) <= Len(m) + 1 BY <1>1, <1>3, <1>4
<1>6. ASSUME NEW k \in 1 .. Len(t) - 1
      PROVE  ReadsAs(text, t[k], m[k], t[k + 1])
  <2>1. CASE k = Len(s)
    <3>1. t[k] = s[Len(s)] /\ t[k + 1] = n BY <1>1, <1>3, <2>1
    <3> QED BY <2>1, <3>1
  <2>2. CASE k # Len(s)
    <3>1. k \in 1 .. Len(s) - 1 /\ k \in 1 .. Len(s) /\ k + 1 \in 1 .. Len(s) BY <1>1, <1>3, <2>2
    <3>2. t[k] = s[k] /\ t[k + 1] = s[k + 1] BY <1>3, <3>1
    <3>3. ReadsAs(text, s[k], m[k], s[k + 1]) BY <3>1 DEF Chain
    <3> QED BY <3>2, <3>3
  <2> QED BY <2>1, <2>2
<1>7. Chain(text, m, t) BY <1>3, <1>5, <1>6 DEF Chain
<1> QED BY <1>3, <1>7 DEF t

LEMMA BrokenStays ==
  ASSUME NEW text \in Codes, NEW m, IsSeq(m), NEW s, Broken(text, m, s),
         NEW bytes \in Codes, ByteAt(bytes, 0) # 36, NEW m2, IsSeq(m2)
  PROVE  Broken(text \o bytes, m \o m2, s)
<1>1. Chain(text, m, s) /\ Len(s) <= Len(m) /\ Misread(text, s[Len(s)], m[Len(s)]) BY DEF Broken
<1>2. Chain(text \o bytes, m \o m2, s) BY <1>1, ChainGrows
<1>3. Len(s) \in Nat /\ Len(s) >= 1 BY <1>1 DEF Chain
<1>4. /\ Len(m) \in Nat /\ Len(m2) \in Nat /\ Len(m \o m2) = Len(m) + Len(m2)
      /\ \A k \in 1 .. Len(m) : (m \o m2)[k] = m[k]
  BY SeqJoin
<1>5. Len(s) \in 1 .. Len(m) /\ Len(s) <= Len(m \o m2) BY <1>1, <1>3, <1>4
<1>6. (m \o m2)[Len(s)] = m[Len(s)] BY <1>4, <1>5
<1>7. Misread(text \o bytes, s[Len(s)], m[Len(s)]) BY <1>1, Appended
<1> QED BY <1>2, <1>5, <1>6, <1>7 DEF Broken

LEMMA ShortSequences ==
  ASSUME NEW i, NEW j
  PROVE  /\ IsSeq(<<>>) /\ Len(<<>>) = 0
         /\ IsSeq(<<i>>) /\ Len(<<i>>) = 1 /\ <<i>>[1] = i
         /\ IsSeq(<<i, j>>) /\ Len(<<i, j>>) = 2 /\ <<i, j>>[1] = i /\ <<i, j>>[2] = j
<1>1. <<>> \in Seq({i}) /\ <<i>> \in Seq({i}) /\ <<i, j>> \in Seq({i, j}) OBVIOUS
<1> QED BY <1>1 DEF IsSeq

LEMMA MeantIsSeq ==
  ASSUME NEW bytes, NEW m
  PROVE  /\ Right(bytes, m) => IsSeq(m)
         /\ Wrong(bytes, m) => IsSeq(m)
<1>1. IsSeq(<<>>) /\ (\A i : IsSeq(<<i>>)) /\ (\A i, j : IsSeq(<<i, j>>)) BY ShortSequences
<1>2. ASSUME Right(bytes, m) PROVE IsSeq(m)
  <2>1. m = <<>> \/ (\E i : m = <<i>>) \/ (\E i, j : m = <<i, j>>) BY <1>2 DEF Right
  <2> QED BY <1>1, <2>1
<1>3. ASSUME Wrong(bytes, m) PROVE IsSeq(m)
  <2>1. (\E i : m = <<i>>) \/ (\E i, j : m = <<i, j>>) BY <1>3 DEF Wrong
  <2> QED BY <1>1, <2>1
<1> QED BY <1>2, <1>3

LEMMA RightExtends ==
  ASSUME NEW text \in Codes, NEW m, IsSeq(m), NEW s, Whole(text, m, s),
         NEW bytes \in Codes, ByteAt(bytes, 0) # 36, NEW m2, Right(bytes, m2)
  PROVE  IsSeq(m2) /\ \E t : Whole(text \o bytes, m \o m2, t)
<1> DEFINE L == Len(text)
           to == text \o bytes
<1>1. Chain(text, m, s) /\ Len(s) = Len(m) + 1 /\ s[Len(s)] = L BY DEF Whole
<1>2. L \in Nat /\ Len(bytes) \in Nat /\ Len(to) = L + Len(bytes) /\ L + 0 = L /\ to \in Codes
  BY Joined DEF Codes
<1>3. Len(m) \in Nat BY SeqAppend
<1> SUFFICES IsSeq(m2) /\ \E t : Whole(to, m \o m2, t) OBVIOUS
<1> HIDE DEF L, to
<1>4. CASE m2 = <<>> /\ bytes = <<>>
  <2>1. to = text /\ m \o m2 = m
    <3>1. PICK S : m \in Seq(S) BY DEF IsSeq
    <3> QED BY <1>4, <3>1 DEF to, L, Codes
  <2>2. IsSeq(m2) BY <1>4, ShortSequences
  <2> QED BY <2>1, <2>2
<1>5. ASSUME NEW i, m2 = <<i>>, ReadsAs(bytes, 0, i, Len(bytes))
      PROVE  IsSeq(m2) /\ \E t : Whole(to, m \o m2, t)
  <2>1. IsSeq(m2) /\ Len(m2) = 1 /\ m2[1] = i BY <1>5, ShortSequences
  <2> DEFINE mm == m \o m2
             t == Append(s, L + Len(bytes))
  <2>2. Chain(to, mm, s) BY <1>1, <2>1, ChainGrows DEF to
  <2>3. IsSeq(mm) /\ Len(mm) = Len(m) + 1 /\ mm[Len(m) + 1] = i
    BY <2>1, JoinedAt
  <2> HIDE DEF mm
  <2>4. ReadsAs(to, L + 0, i, L + Len(bytes)) BY <1>5, Prepended DEF to, L
  <2>5. ReadsAs(to, s[Len(s)], mm[Len(s)], L + Len(bytes)) BY <1>1, <1>2, <2>3, <2>4
  <2>6. Len(s) <= Len(mm) BY <1>1, <1>3, <2>3
  <2>7. Chain(to, mm, t) /\ Len(t) = Len(s) + 1 /\ t[Len(s) + 1] = L + Len(bytes)
    BY <2>2, <2>3, <2>5, <2>6, ChainStep
  <2> HIDE DEF t
  <2>8. Whole(to, mm, t) BY <1>1, <1>2, <1>3, <2>3, <2>7 DEF Whole
  <2> QED BY <2>1, <2>8 DEF mm
<1>6. ASSUME NEW i, NEW j, NEW n, m2 = <<i, j>>, ReadsAs(bytes, 0, i, n), ReadsAs(bytes, n, j, Len(bytes))
      PROVE  IsSeq(m2) /\ \E t : Whole(to, m \o m2, t)
  <2>1. IsSeq(m2) /\ Len(m2) = 2 /\ m2[1] = i /\ m2[2] = j BY <1>6, ShortSequences
  <2> DEFINE mm == m \o m2
             t == Append(s, L + n)
             u == Append(t, L + Len(bytes))
  <2>2. Chain(to, mm, s) BY <1>1, <2>1, ChainGrows DEF to
  <2>3. IsSeq(mm) /\ Len(mm) = Len(m) + 2 /\ mm[Len(m) + 1] = i /\ mm[Len(m) + 2] = j
    BY <2>1, JoinedAt
  <2> HIDE DEF mm
  <2>4. ReadsAs(to, L + 0, i, L + n) /\ ReadsAs(to, L + n, j, L + Len(bytes)) BY <1>6, Prepended DEF to, L
  <2>5. ReadsAs(to, s[Len(s)], mm[Len(s)], L + n) BY <1>1, <1>2, <2>3, <2>4
  <2>6. Len(s) <= Len(mm) BY <1>1, <1>3, <2>3
  <2>7. Chain(to, mm, t) /\ Len(t) = Len(s) + 1 /\ t[Len(s) + 1] = L + n
    BY <2>2, <2>3, <2>5, <2>6, ChainStep
  <2> HIDE DEF t
  <2>8. Len(t) = Len(m) + 2 /\ Len(t) <= Len(mm) /\ t[Len(t)] = L + n /\ mm[Len(t)] = j
    BY <1>1, <1>3, <2>3, <2>7
  <2>9. ReadsAs(to, t[Len(t)], mm[Len(t)], L + Len(bytes)) BY <2>4, <2>8
  <2>10. Chain(to, mm, u) /\ Len(u) = Len(t) + 1 /\ u[Len(t) + 1] = L + Len(bytes)
    BY <2>3, <2>7, <2>8, <2>9, ChainStep
  <2> HIDE DEF u
  <2>11. Whole(to, mm, u) BY <1>2, <1>3, <2>3, <2>8, <2>10 DEF Whole
  <2> QED BY <2>1, <2>11 DEF mm
<1> QED BY <1>4, <1>5, <1>6 DEF Right

LEMMA WrongBreaks ==
  ASSUME NEW text \in Codes, NEW m, IsSeq(m), NEW s, Whole(text, m, s),
         NEW bytes \in Codes, ByteAt(bytes, 0) # 36, NEW m2, Wrong(bytes, m2)
  PROVE  IsSeq(m2) /\ \E t : Broken(text \o bytes, m \o m2, t)
<1> DEFINE L == Len(text)
           to == text \o bytes
<1>1. Chain(text, m, s) /\ Len(s) = Len(m) + 1 /\ s[Len(s)] = L BY DEF Whole
<1>2. L \in Nat /\ L + 0 = L BY DEF Codes
<1>3. Len(m) \in Nat BY SeqAppend
<1> SUFFICES IsSeq(m2) /\ \E t : Broken(to, m \o m2, t) OBVIOUS
<1> HIDE DEF L, to
<1>4. ASSUME IsSeq(m2), Len(m2) >= 1, Len(m2) \in Nat, Misread(bytes, 0, m2[1])
      PROVE  \E t : Broken(to, m \o m2, t)
  <2> DEFINE mm == m \o m2
  <2>2. Chain(to, mm, s) BY <1>1, <1>4, ChainGrows DEF to
  <2>3. IsSeq(mm) /\ Len(mm) = Len(m) + Len(m2) /\ mm[Len(m) + 1] = m2[1]
    <3>1. 1 \in 1 .. Len(m2) BY <1>4
    <3> QED BY <1>4, <3>1, SeqJoin
  <2> HIDE DEF mm
  <2>4. Misread(to, L + 0, m2[1]) BY <1>4, Prepended DEF to, L
  <2>5. Misread(to, s[Len(s)], mm[Len(s)]) BY <1>1, <1>2, <2>3, <2>4
  <2>6. Len(s) <= Len(mm) BY <1>1, <1>3, <1>4, <2>3
  <2>7. Broken(to, mm, s) BY <2>2, <2>5, <2>6 DEF Broken
  <2> QED BY <2>7 DEF mm
<1>5. ASSUME NEW i, m2 = <<i>>, Misread(bytes, 0, i)
      PROVE  IsSeq(m2) /\ \E t : Broken(to, m \o m2, t)
  <2>1. IsSeq(m2) /\ Len(m2) = 1 /\ m2[1] = i BY <1>5, ShortSequences
  <2> QED BY <1>4, <1>5, <2>1
<1>6. ASSUME NEW i, NEW j, m2 = <<i, j>>, Misread(bytes, 0, i)
      PROVE  IsSeq(m2) /\ \E t : Broken(to, m \o m2, t)
  <2>1. IsSeq(m2) /\ Len(m2) = 2 /\ m2[1] = i BY <1>6, ShortSequences
  <2> QED BY <1>4, <1>6, <2>1
<1>7. ASSUME NEW i, NEW j, NEW n, m2 = <<i, j>>, ReadsAs(bytes, 0, i, n), Misread(bytes, n, j)
      PROVE  IsSeq(m2) /\ \E t : Broken(to, m \o m2, t)
  <2>1. IsSeq(m2) /\ Len(m2) = 2 /\ m2[1] = i /\ m2[2] = j BY <1>7, ShortSequences
  <2> DEFINE mm == m \o m2
             t == Append(s, L + n)
  <2>2. Chain(to, mm, s) BY <1>1, <2>1, ChainGrows DEF to
  <2>3. IsSeq(mm) /\ Len(mm) = Len(m) + 2 /\ mm[Len(m) + 1] = i /\ mm[Len(m) + 2] = j
    BY <2>1, JoinedAt
  <2> HIDE DEF mm
  <2>4. ReadsAs(to, L + 0, i, L + n) /\ Misread(to, L + n, j) BY <1>7, Prepended DEF to, L
  <2>5. ReadsAs(to, s[Len(s)], mm[Len(s)], L + n) BY <1>1, <1>2, <2>3, <2>4
  <2>6. Len(s) <= Len(mm) BY <1>1, <1>3, <2>3
  <2>7. Chain(to, mm, t) /\ Len(t) = Len(s) + 1 /\ t[Len(s) + 1] = L + n
    BY <2>2, <2>3, <2>5, <2>6, ChainStep
  <2> HIDE DEF t
  <2>8. Len(t) <= Len(mm) /\ t[Len(t)] = L + n /\ mm[Len(t)] = j BY <1>1, <1>3, <2>3, <2>7
  <2>9. Broken(to, mm, t) BY <2>4, <2>7, <2>8 DEF Broken
  <2> QED BY <2>1, <2>9 DEF mm
<1> QED BY <1>5, <1>6, <1>7 DEF Wrong

----------------------------------------------------------------------------
\* The bytes written so far are the instructions meant, up to the first that
\* its function cannot encode; what is read follows them as far.
AllEncodable == \A k \in DOMAIN calls : Encodable(calls[k])

TypeOK ==
  /\ IsSeq(calls) /\ IsSeq(meant) /\ IsSeq(seen) /\ code \in Codes
  /\ Writing => seen = <<>> /\ at = 0
Stage(s) ==
  /\ AllEncodable => Whole(code, meant, s)
  /\ ~AllEncodable => Broken(code, meant, s)
Followed(s) ==
  \/ Len(seen) < Len(s) /\ at = s[Len(seen) + 1] /\ \A k \in 1 .. Len(seen) : seen[k] = meant[k]
  \/ Len(s) <= Len(meant) /\ Len(s) <= Len(seen) /\ seen[Len(s)] # meant[Len(s)]
Inv == TypeOK /\ \E s : Stage(s) /\ Followed(s)

LEMMA SeqDomain ==
  ASSUME NEW q, IsSeq(q)
  PROVE  DOMAIN q = 1 .. Len(q) /\ Len(q) \in Nat
BY DEF IsSeq

LEMMA StageIsChain ==
  ASSUME NEW s, Stage(s)
  PROVE  s \in Seq(Nat) /\ s # <<>> /\ s[1] = 0 /\ Len(s) \in Nat /\ Len(s) >= 1 /\ Chain(code, meant, s)
<1>1. Chain(code, meant, s) BY DEF Stage, Whole, Broken
<1> QED BY <1>1 DEF Chain

LEMMA InitInv == Init => Inv
<1> SUFFICES ASSUME Init PROVE Inv OBVIOUS
<1>1. calls = <<>> /\ meant = <<>> /\ code = <<>> /\ at = 0 /\ seen = <<>> BY DEF Init
<1>2. TypeOK
  <2>1. IsSeq(<<>>) BY ShortSequences
  <2>2. <<>> \in Codes BY DEF Codes
  <2> QED BY <1>1, <2>1, <2>2 DEF TypeOK
<1> DEFINE s == <<0>>
<1>3. s \in Seq(Nat) /\ s # <<>> /\ s[1] = 0 /\ Len(s) = 1 OBVIOUS
<1>4. Len(<<>>) = 0 /\ Len(s) - 1 = 0 BY <1>3
<1> HIDE DEF s
<1>5. Chain(code, meant, s) BY <1>1, <1>3, <1>4 DEF Chain
<1>6. Whole(code, meant, s) BY <1>1, <1>3, <1>4, <1>5 DEF Whole
<1>7. AllEncodable BY <1>1 DEF AllEncodable
<1>8. Stage(s) BY <1>6, <1>7 DEF Stage
<1>9. Followed(s) BY <1>1, <1>3, <1>4 DEF Followed
<1> QED BY <1>2, <1>8, <1>9 DEF Inv

LEMMA WriteInv ==
  ASSUME Inv, Writing, NEW fn, NEW a, NEW b, NEW bytes, Written(bytes, C(fn, a, b)), Write(fn, a, b, bytes)
  PROVE  Inv'
<1> DEFINE c == C(fn, a, b)
           m2 == Meant(c)
<1>1. calls' = Append(calls, c) /\ meant' = meant \o m2 /\ code' = code \o bytes /\ at' = at /\ seen' = seen
  BY DEF Write, C
<1>2. /\ bytes \in Codes /\ ByteAt(bytes, 0) # 36
      /\ Encodable(c) => Right(bytes, m2)
      /\ ~Encodable(c) => Wrong(bytes, m2)
  BY DEF Written
<1> HIDE DEF c, m2
<1>3. IsSeq(calls) /\ IsSeq(meant) /\ IsSeq(seen) /\ code \in Codes /\ seen = <<>> /\ at = 0
  BY DEF Inv, TypeOK
<1>4. AllEncodable' <=> AllEncodable /\ Encodable(c)
  <2>1. /\ IsSeq(calls') /\ Len(calls) \in Nat /\ Len(calls') = Len(calls) + 1
        /\ calls'[Len(calls) + 1] = c /\ \A k \in 1 .. Len(calls) : calls'[k] = calls[k]
    BY <1>1, <1>3, SeqAppend
  <2>2. DOMAIN calls = 1 .. Len(calls) /\ DOMAIN calls' = 1 .. Len(calls) + 1
    BY <1>3, <2>1, SeqDomain
  <2>3. 1 .. Len(calls) + 1 = (1 .. Len(calls)) \cup {Len(calls) + 1} BY <2>1
  <2> QED BY <2>1, <2>2, <2>3 DEF AllEncodable
<1>5. PICK s : Stage(s) BY DEF Inv
<1>6. IsSeq(m2) /\ \E t : Stage(t)'
  <2>1. CASE AllEncodable /\ Encodable(c)
    <3>1. Whole(code, meant, s) BY <1>5, <2>1 DEF Stage
    <3>2. IsSeq(m2) /\ \E t : Whole(code \o bytes, meant \o m2, t) BY <1>2, <1>3, <2>1, <3>1, RightExtends
    <3> QED BY <1>1, <1>4, <2>1, <3>2 DEF Stage
  <2>2. CASE AllEncodable /\ ~Encodable(c)
    <3>1. Whole(code, meant, s) BY <1>5, <2>2 DEF Stage
    <3>2. IsSeq(m2) /\ \E t : Broken(code \o bytes, meant \o m2, t) BY <1>2, <1>3, <2>2, <3>1, WrongBreaks
    <3> QED BY <1>1, <1>4, <2>2, <3>2 DEF Stage
  <2>3. CASE ~AllEncodable
    <3>1. Broken(code, meant, s) BY <1>5, <2>3 DEF Stage
    <3>2. IsSeq(m2)
      BY <1>2, MeantIsSeq
    <3>3. Broken(code \o bytes, meant \o m2, s) BY <1>2, <1>3, <3>1, <3>2, BrokenStays
    <3> QED BY <1>1, <1>4, <2>3, <3>2, <3>3 DEF Stage
  <2> QED BY <2>1, <2>2, <2>3
<1>7. PICK t : Stage(t)' BY <1>6
<1>8. Followed(t)'
  <2>1. Chain(code', meant', t) BY <1>7 DEF Stage, Whole, Broken
  <2>2. t \in Seq(Nat) /\ t # <<>> /\ t[1] = 0 BY <2>1 DEF Chain
  <2>3. Len(t) > 0 /\ Len(seen') = 0 /\ t[Len(seen') + 1] = 0 BY <1>1, <1>3, <2>2
  <2> QED BY <1>1, <1>3, <2>3 DEF Followed
<1>9. TypeOK'
  <2>1. IsSeq(calls') BY <1>1, <1>3, SeqAppend
  <2>2. IsSeq(meant') BY <1>1, <1>3, <1>6, SeqJoin
  <2>3. code' \in Codes BY <1>1, <1>2, <1>3, Joined
  <2> QED BY <1>1, <1>3, <2>1, <2>2, <2>3 DEF TypeOK
<1> QED BY <1>7, <1>8, <1>9 DEF Inv

LEMMA SameElements ==
  ASSUME NEW S, NEW R, NEW q \in Seq(S), NEW r \in Seq(R), Len(q) = Len(r),
         \A j \in 1 .. Len(q) : q[j] = r[j]
  PROVE  q = r
<1>1. q = [j \in 1 .. Len(q) |-> q[j]] /\ r = [j \in 1 .. Len(r) |-> r[j]] OBVIOUS
<1> QED BY <1>1

\* A code is read as the text that it is.
LEMMA StandsItself ==
  ASSUME NEW text \in Codes
  PROVE  Stands(text, 0, text)
<1>1. Len(text) \in Nat /\ 0 + Len(text) = Len(text) /\ DOMAIN text = 1 .. Len(text) BY DEF Codes
<1>2. Len(text) + 1 \notin DOMAIN text BY <1>1
<1>3. ByteAt(text, Len(text)) = -1 BY <1>2 DEF ByteAt
<1>4. \A k \in 1 .. Len(text) : text[0 + k] = text[k] BY <1>1
<1>5. Has(text, 0, text) BY <1>1, <1>4 DEF Has
<1> QED BY <1>1, <1>3, <1>5 DEF Stands

LEMMA ReadHere ==
  ASSUME NEW text \in Codes, NEW n, NEW i
  PROVE  /\ \A m : ReadsAs(text, n, i, m) =>
              Tuple(Decode(text, n)) = i /\ Decode(text, n).len = m /\ i[1] # "undefined" /\ n < Len(text)
         /\ Misread(text, n, i) => Tuple(Decode(text, n)) # i /\ n < Len(text)
<1>1. Stands(text, 0, text) BY StandsItself
<1>2. ASSUME NEW m, ReadsAs(text, n, i, m)
      PROVE  Tuple(Decode(text, n)) = i /\ Decode(text, n).len = m /\ i[1] # "undefined" /\ n < Len(text)
  <2>1. n \in Nat /\ m \in Nat /\ i[1] # "undefined" /\ n < Len(text) BY <1>2 DEF ReadsAs
  <2>2. 0 + n = n /\ 0 + m = m BY <2>1
  <2>3. Tuple(Decode(text, 0 + n)) = i /\ Decode(text, 0 + n).len = 0 + m BY <1>1, <1>2 DEF ReadsAs
  <2> QED BY <2>1, <2>2, <2>3
<1>3. ASSUME Misread(text, n, i) PROVE Tuple(Decode(text, n)) # i /\ n < Len(text)
  <2>1. n \in Nat /\ n < Len(text) BY <1>3 DEF Misread
  <2>2. 0 + n = n BY <2>1
  <2>3. Tuple(Decode(text, 0 + n)) # i BY <1>1, <1>3 DEF Misread
  <2> QED BY <2>1, <2>2, <2>3
<1> QED BY <1>2, <1>3

LEMMA ReadInv ==
  ASSUME Inv, Read
  PROVE  Inv'
<1> DEFINE d == Decode(code, at)
           i == Tuple(d)
<1>1. /\ ~Writing /\ at < Len(code) /\ seen' = Append(seen, i)
      /\ d.op # "undefined" => at' = d.len
      /\ calls' = calls /\ meant' = meant /\ code' = code
  BY DEF Read, Tuple
<1>2. i[1] = d.op BY DEF Tuple, I
<1>3. IsSeq(calls) /\ IsSeq(meant) /\ IsSeq(seen) /\ code \in Codes BY DEF Inv, TypeOK
<1>4. PICK s : Stage(s) /\ Followed(s) BY DEF Inv
<1>5. s \in Seq(Nat) /\ s # <<>> /\ s[1] = 0 /\ Len(s) \in Nat /\ Len(s) >= 1 /\ Chain(code, meant, s)
  BY <1>4, StageIsChain
<1> DEFINE k == Len(seen) + 1
<1>6. /\ IsSeq(seen') /\ Len(seen) \in Nat /\ Len(seen') = k /\ seen'[k] = i
      /\ \A j \in 1 .. Len(seen) : seen'[j] = seen[j]
  BY <1>1, <1>3, SeqAppend
<1> HIDE DEF i
<1>7. Followed(s)'
  <2>1. CASE Len(seen) < Len(s) /\ at = s[k] /\ (\A j \in 1 .. Len(seen) : seen[j] = meant[j]) /\ k < Len(s)
    <3>1. ReadsAs(code, s[k], meant[k], s[k + 1])
      <4>1. k \in 1 .. Len(s) - 1 BY <1>5, <1>6, <2>1
      <4> QED BY <1>5, <4>1 DEF Chain
    <3>2. i = meant[k] /\ d.len = s[k + 1] /\ meant[k][1] # "undefined"
      BY <1>3, <2>1, <3>1, ReadHere DEF i
    <3>3. at' = s[k + 1] BY <1>1, <1>2, <3>2
    <3>4. \A j \in 1 .. k : seen'[j] = meant[j]
      <4>1. 1 .. k = (1 .. Len(seen)) \cup {k} BY <1>6
      <4> QED BY <1>6, <2>1, <3>2, <4>1
    <3> HIDE DEF k
    <3> QED BY <1>1, <1>6, <2>1, <3>3, <3>4 DEF Followed
  <2>2. CASE Len(seen) < Len(s) /\ at = s[k] /\ ~(k < Len(s))
    <3>1. k = Len(s) BY <1>5, <1>6, <2>2
    <3>2. CASE AllEncodable
      <4>1. s[Len(s)] = Len(code) BY <1>4, <3>2 DEF Stage, Whole
      <4>2. Len(code) \in Nat BY <1>3 DEF Codes
      <4> QED BY <1>1, <2>2, <3>1, <4>1, <4>2
    <3>3. CASE ~AllEncodable
      <4>1. Len(s) <= Len(meant) /\ Misread(code, s[Len(s)], meant[Len(s)]) BY <1>4, <3>3 DEF Stage, Broken
      <4>2. i # meant[Len(s)] BY <1>3, <2>2, <3>1, <4>1, ReadHere DEF i
      <4>3. Len(s) <= Len(seen') /\ seen'[Len(s)] # meant[Len(s)] BY <1>5, <1>6, <3>1, <4>2
      <4> QED BY <1>1, <4>1, <4>3 DEF Followed
    <3> QED BY <3>2, <3>3
  <2>3. CASE Len(s) <= Len(meant) /\ Len(s) <= Len(seen) /\ seen[Len(s)] # meant[Len(s)]
    <3>1. Len(s) \in 1 .. Len(seen) /\ Len(s) <= Len(seen') BY <1>5, <1>6, <2>3
    <3>2. seen'[Len(s)] # meant[Len(s)] BY <1>6, <2>3, <3>1
    <3> QED BY <1>1, <2>3, <3>1, <3>2 DEF Followed
  <2> QED BY <1>4, <2>1, <2>2, <2>3 DEF Followed
<1>8. Stage(s)' BY <1>1, <1>4 DEF Stage, AllEncodable
<1>9. TypeOK'
  <2>1. ~Writing' BY <1>1 DEF Writing
  <2> QED BY <1>1, <1>3, <1>6, <2>1 DEF TypeOK
<1> QED BY <1>7, <1>8, <1>9 DEF Inv

LEMMA NextInv == Inv /\ [Next]_vars => Inv'
<1> SUFFICES ASSUME Inv, [Next]_vars PROVE Inv' OBVIOUS
<1>0. ASSUME Writing PROVE Numbers \subseteq Registers
  <2>1. IsSeq(calls) BY DEF Inv, TypeOK
  <2>2. Len(calls) \in Nat BY <2>1, SeqDomain
  <2>3. Operands \in Seq(SUBSET Registers) /\ Len(Operands) \in Nat BY OperandsAssumption
  <2>4. Len(calls) + 1 \in 1 .. Len(Operands) BY <1>0, <2>2, <2>3 DEF Writing
  <2>5. Operands[Len(calls) + 1] \in SUBSET Registers BY <2>3, <2>4, ElementOfSeq
  <2> QED BY <2>5 DEF Numbers
<1>1. CASE WriteBinary
  <2>1. Writing BY <1>1 DEF WriteBinary
  <2>a. PICK a \in Numbers, b \in Numbers : \E fn \in DOMAIN Binary(a, b) : Write(fn, a, b, Binary(a, b)[fn])
    BY <1>1 DEF WriteBinary
  <2>2. PICK fn \in DOMAIN Binary(a, b) : Write(fn, a, b, Binary(a, b)[fn]) BY <2>a
  <2>3. a \in Registers /\ b \in Registers BY <1>0, <2>1
  <2>4. Written(Binary(a, b)[fn], C(fn, a, b)) BY <2>3, BinaryWritten
  <2> QED BY <2>1, <2>2, <2>4, WriteInv
<1>2. CASE WriteUnary
  <2>1. Writing BY <1>2 DEF WriteUnary
  <2>a. PICK a \in Numbers : \E fn \in DOMAIN Unary(a) : Write(fn, a, 0, Unary(a)[fn])
    BY <1>2 DEF WriteUnary
  <2>2. PICK fn \in DOMAIN Unary(a) : Write(fn, a, 0, Unary(a)[fn]) BY <2>a
  <2>3. a \in Registers BY <1>0, <2>1
  <2>4. Written(Unary(a)[fn], C(fn, a, 0)) BY <2>3, UnaryWritten
  <2> QED BY <2>1, <2>2, <2>4, WriteInv
<1>3. CASE WriteNullary
  <2>1. Writing BY <1>3 DEF WriteNullary
  <2>2. PICK fn \in DOMAIN Nullary : Write(fn, 0, 0, Nullary[fn]) BY <1>3 DEF WriteNullary
  <2>3. Written(Nullary[fn], C(fn, 0, 0)) BY NullaryWritten
  <2> QED BY <2>1, <2>2, <2>3, WriteInv
<1>4. CASE Read BY <1>4, ReadInv
<1>5. CASE UNCHANGED vars
  <2>1. /\ calls' = calls /\ meant' = meant /\ code' = code /\ at' = at /\ seen' = seen
    BY <1>5 DEF vars
  <2> QED BY <2>1 DEF Inv, TypeOK, Stage, Followed, AllEncodable, Writing
<1>6. CASE Done BY <1>5, <1>6 DEF Done
<1> QED BY <1>1, <1>2, <1>3, <1>4, <1>5, <1>6 DEF Next

LEMMA InvReadsBack == Inv => BytesMeanCalls
<1> SUFFICES ASSUME Inv, Finished PROVE seen = meant <=> AllEncodable
  BY DEF BytesMeanCalls, AllEncodable
<1>1. at >= Len(code) BY DEF Finished
<1>2. IsSeq(meant) /\ IsSeq(seen) /\ code \in Codes BY DEF Inv, TypeOK
<1>3. PICK s : Stage(s) /\ Followed(s) BY DEF Inv
<1>4. s \in Seq(Nat) /\ Len(s) \in Nat /\ Len(s) >= 1 /\ Chain(code, meant, s) BY <1>3, StageIsChain
<1>5. Len(seen) \in Nat /\ Len(meant) \in Nat /\ Len(code) \in Nat BY <1>2, SeqDomain DEF Codes
<1> DEFINE k == Len(seen) + 1
<1>6. ASSUME Len(seen) < Len(s), at = s[k]
      PROVE  k = Len(s)
  <2>1. SUFFICES ASSUME k < Len(s) PROVE FALSE BY <1>4, <1>5, <1>6
  <2>2. k \in 1 .. Len(s) - 1 BY <1>4, <1>5, <2>1
  <2>3. ReadsAs(code, s[k], meant[k], s[k + 1]) BY <1>4, <2>2 DEF Chain
  <2>4. s[k] < Len(code) /\ s[k] \in Nat BY <2>3 DEF ReadsAs
  <2> QED BY <1>1, <1>5, <1>6, <2>4
<1>7. CASE AllEncodable
  <2>1. Len(s) = Len(meant) + 1 BY <1>3, <1>7 DEF Stage, Whole
  <2>2. Len(seen) < Len(s) /\ at = s[k] /\ \A j \in 1 .. Len(seen) : seen[j] = meant[j]
    BY <1>3, <1>5, <2>1 DEF Followed
  <2>3. Len(seen) = Len(meant) BY <1>5, <1>6, <2>1, <2>2
  <2>4. seen = meant
    <3>1. PICK S : seen \in Seq(S) BY <1>2 DEF IsSeq
    <3>2. PICK R : meant \in Seq(R) BY <1>2 DEF IsSeq
    <3> QED BY <2>2, <2>3, <3>1, <3>2, SameElements
  <2> QED BY <1>7, <2>4
<1>8. CASE ~AllEncodable
  <2>1. Len(s) <= Len(meant) /\ Misread(code, s[Len(s)], meant[Len(s)]) BY <1>3, <1>8 DEF Stage, Broken
  <2>2. s[Len(s)] < Len(code) /\ s[Len(s)] \in Nat BY <2>1 DEF Misread
  <2>3. ~(Len(seen) < Len(s) /\ at = s[k])
    <3>1. SUFFICES ASSUME Len(seen) < Len(s), at = s[k] PROVE FALSE OBVIOUS
    <3>2. at = s[Len(s)] BY <1>6, <3>1
    <3> QED BY <1>1, <1>5, <2>2, <3>2
  <2>4. seen[Len(s)] # meant[Len(s)] BY <1>3, <2>3 DEF Followed
  <2> QED BY <1>8, <2>4
<1> QED BY <1>7, <1>8

\* The bytes that any calls of the write_* functions of gen.c write, one after
\* another, are read back as the instructions that the calls are for exactly if
\* each one's operands are ones that the function can encode; for any operands
\* and any number of calls.
THEOREM BytesReadBack == Spec => []BytesMeanCalls
<1>1. Spec => []Inv BY InitInv, NextInv, PTL DEF Spec
<1> QED BY <1>1, InvReadsBack, PTL
=============================================================================
