-------------------------- MODULE CowBackendsProofs --------------------------
(***************************************************************************)
(* The generator's table of registers: in every function that it is large  *)
(* enough for, each value that an instruction uses is in a slot.  And the  *)
(* numbers that it leaves open in the code of branches and direct calls:   *)
(* in the linked code of every module they are filled in.                  *)
(***************************************************************************)
EXTENDS CowBackends, FiniteSetTheorems, SequenceTheorems, WellFoundedInduction, TLAPS

Slots  == 1 .. 14
Tables == [Slots -> Int]

LEMMA LeastNat ==
  ASSUME NEW T, T \subseteq Nat, T # {}
  PROVE  \E x \in T : \A y \in T : x <= y
<1>1. PICK x \in T : \A y \in T : ~(<<y, x>> \in OpToRel(<, Nat)) BY WFMin, NatLessThanWellFounded
<1>2. \A y \in T : ~(y < x) BY <1>1 DEF OpToRel
<1> QED BY <1>2

LEMMA GreatestNat ==
  ASSUME NEW n \in Nat, NEW T, T \subseteq 0 .. n, T # {}
  PROVE  \E x \in T : \A y \in T : x >= y
<1> DEFINE U == {n - x : x \in T}
<1>0. \A x \in T : n - x \in Nat OBVIOUS
<1>1. U \subseteq Nat /\ U # {} BY <1>0
<1>2. \E u \in U : \A v \in U : u <= v
  <2> HIDE DEF U
  <2> QED BY <1>1, LeastNat
<1>3. PICK x \in T : \A v \in U : n - x <= v BY <1>2
<1>4. \A y \in T : n - x <= n - y BY <1>3
<1>5. \A y \in T : x \in Int /\ y \in Int /\ n \in Int OBVIOUS
<1> QED BY <1>4, <1>5

LEMMA SeqOfFunction ==
  ASSUME NEW S, NEW n \in Nat, NEW y \in [1 .. n -> S]
  PROVE  y \in Seq(S) /\ Len(y) = n
<1>1. \E k \in Nat : y \in [1 .. k -> S] OBVIOUS
<1>2. y \in Seq(S) BY <1>1, SeqDef
<1> DEFINE k == Len(y)
<1>3. k \in Nat /\ DOMAIN y = 1 .. k BY <1>2, LenProperties
<1>4. DOMAIN y = 1 .. n OBVIOUS
<1> HIDE DEF k
<1>5. (n >= 1 => n \in 1 .. k) /\ (k >= 1 => k \in 1 .. n) BY <1>3, <1>4
<1>6. k = n BY <1>3, <1>5
<1> QED BY <1>2, <1>6 DEF k

\* The first slot that holds v, or 0 if there is none.
LEMMA SlotFacts ==
  ASSUME NEW slots \in Tables, NEW v
  PROVE  \/ Gen!SlotOf(slots, v) = 0 /\ \A s \in Slots : slots[s] # v
         \/ Gen!SlotOf(slots, v) \in Slots /\ slots[Gen!SlotOf(slots, v)] = v
<1> DEFINE I == {i \in 1 .. Len(slots) : slots[i] = v}
<1>1. slots \in Seq(Int) /\ Len(slots) = 14
  <2>1. slots \in [1 .. 14 -> Int] /\ 14 \in Nat BY DEF Tables, Slots
  <2> DEFINE n == 14
  <2>2. slots \in [1 .. n -> Int] /\ n \in Nat BY <2>1
  <2> HIDE DEF n
  <2>3. slots \in Seq(Int) /\ Len(slots) = n BY <2>2, SeqOfFunction
  <2> QED BY <2>3 DEF n
<1>2. I = {i \in Slots : slots[i] = v} BY <1>1 DEF Slots
<1>3. Gen!SlotOf(slots, v) = IF I # {} THEN Min(I) ELSE 0
  BY DEF Gen!SlotOf, Gen!SelectInSeq, Min, Gen!Min
<1> HIDE DEF I
<1>4. CASE I = {} BY <1>2, <1>3, <1>4
<1>5. CASE I # {}
  <2>1. I \subseteq Nat BY <1>2 DEF Slots
  <2>2. \E x \in I : \A y \in I : x <= y BY <1>5, <2>1, LeastNat
  <2>3. Min(I) \in I BY <2>2 DEF Min
  <2> QED BY <1>2, <1>3, <1>5, <2>3
<1> QED BY <1>4, <1>5

\* A value takes the slot of another, if that has one.
LEMMA WithFacts ==
  ASSUME NEW slots \in Tables, NEW old, NEW v \in Int
  PROVE  /\ Gen!With(slots, old, v) \in Tables
         /\ (\A s \in Slots : slots[s] # old) => Gen!With(slots, old, v) = slots
         /\ (\E s \in Slots : slots[s] = old) =>
              \E s \in Slots : slots[s] = old /\ Gen!With(slots, old, v) = [slots EXCEPT ![s] = v]
<1> DEFINE k == Gen!SlotOf(slots, old)
<1>1. Gen!With(slots, old, v) = IF k = 0 THEN slots ELSE [slots EXCEPT ![k] = v] BY DEF Gen!With
<1>2. \/ k = 0 /\ \A s \in Slots : slots[s] # old
      \/ k \in Slots /\ slots[k] = old
  BY SlotFacts
<1> HIDE DEF k
<1>3. k \in Slots => k # 0 BY DEF Slots
<1>4. Gen!With(slots, old, v) \in Tables BY <1>1, <1>2 DEF Tables
<1> QED BY <1>1, <1>2, <1>3, <1>4
----------------------------------------------------------------------------
(***************************************************************************)
(* The table with which a function is begun: every argument of a function  *)
(* without decimals that has at most four has a slot of its own.           *)
(***************************************************************************)
LastOf(regs, n, r) ==
  LET I == {i \in 1 .. n : regs[i] = r} IN IF I # {} THEN Max(I) ELSE 0

LEMMA LastOfFacts ==
  ASSUME NEW regs, NEW n \in Nat, NEW r
  PROVE  \/ LastOf(regs, n, r) = 0 /\ \A i \in 1 .. n : regs[i] # r
         \/ LastOf(regs, n, r) \in 1 .. n /\ regs[LastOf(regs, n, r)] = r
<1> DEFINE I == {i \in 1 .. n : regs[i] = r}
<1>1. LastOf(regs, n, r) = IF I # {} THEN Max(I) ELSE 0 BY DEF LastOf
<1>2. CASE I = {} BY <1>1, <1>2
<1>3. CASE I # {}
  <2>1. I \subseteq 0 .. n OBVIOUS
  <2>2. \A x \in I : x \in 1 .. n /\ regs[x] = r OBVIOUS
  <2> HIDE DEF I
  <2>3. \E x \in I : \A y \in I : x >= y BY <1>3, <2>1, GreatestNat
  <2>4. Max(I) \in I BY <2>3 DEF Max
  <2> QED BY <1>1, <1>3, <2>2, <2>4
<1> QED BY <1>2, <1>3

LEMMA ArgSlots ==
  ASSUME NEW f \in Function
  PROVE  LET regs == [k \in 1 .. f.args_count |-> Gen!arg_reg(f, k)]
         IN  /\ DOMAIN Gen!IntRegisters = Slots
             /\ Gen!assign_arg_to_register(f) =
                  [s \in Slots |-> LastOf(regs, f.args_count, Gen!IntRegisters[s]) - 1]
             /\ Gen!assign_arg_to_register(f) \in Tables
<1> DEFINE regs == [k \in 1 .. f.args_count |-> Gen!arg_reg(f, k)]  n == f.args_count
<1>1. DOMAIN Gen!IntRegisters = Slots BY DEF Gen!IntRegisters, Slots
<1>2. n \in Nat BY DEF Function
<1>3. Gen!assign_arg_to_register(f) = [s \in Slots |-> LastOf(regs, n, Gen!IntRegisters[s]) - 1]
  BY <1>1 DEF Gen!assign_arg_to_register, Gen!SelectLastInSubSeq, LastOf, Max, Gen!Max
<1> HIDE DEF regs, n
<1>4. \A s \in Slots : LastOf(regs, n, Gen!IntRegisters[s]) \in Int
  <2>1. TAKE s \in Slots
  <2> DEFINE r == Gen!IntRegisters[s]
  <2> HIDE DEF r
  <2>2. LastOf(regs, n, r) = 0 \/ LastOf(regs, n, r) \in 1 .. n BY <1>2, LastOfFacts
  <2> QED BY <2>2 DEF r
<1>5. Gen!assign_arg_to_register(f) \in Tables BY <1>3, <1>4 DEF Tables
<1> QED BY <1>1, <1>3, <1>5 DEF regs, n

Used(slots)     == {s \in Slots : slots[s] # Unset}
Holds0(slots, v) == \E s \in Slots : slots[s] = v

\* An Int table of a function that has no decimals and at most four arguments.
LEMMA ArgsHeld ==
  ASSUME NEW f \in Function, f.args_count <= 4, f.args_count <= ValuesSize(f),
         \A id \in Ids(f) : ~Gen!cow_type_is_decimal(TypeOf(f, id))
  PROVE  LET slots == Gen!assign_arg_to_register(f)
         IN  /\ \A v \in 0 .. f.args_count - 1 : Holds0(slots, v)
             /\ IsFiniteSet(Used(slots)) /\ Cardinality(Used(slots)) <= f.args_count
<1> DEFINE n == f.args_count  slots == Gen!assign_arg_to_register(f)
           regs == [k \in 1 .. n |-> Gen!arg_reg(f, k)]
<1>1. n \in Nat /\ n <= 4 /\ n <= Len(f.values) /\ Len(f.values) \in Nat
  BY DEF Function, ValuesSize
<1>2. \A k \in 1 .. n : ~Gen!cow_type_is_decimal(f.values[k])
  <2>1. TAKE k \in 1 .. n
  <2>2. k - 1 \in Ids(f) /\ (k - 1) + 1 = k BY <1>1 DEF Ids, ValuesSize
  <2> QED BY <2>2 DEF TypeOf
<1>3. \A k \in 1 .. n : Gen!IntsBefore(f.values, k) = k - 1
  <2>1. TAKE k \in 1 .. n
  <2> DEFINE before == {j \in 1 .. k - 1 : ~Gen!cow_type_is_decimal(f.values[j])}
  <2>2. before = 1 .. k - 1 BY <1>1, <1>2
  <2>3. Cardinality(1 .. k - 1) = k - 1
    <3>1. 1 \in Int /\ k - 1 \in Int /\ k >= 1 BY <1>1
    <3> QED BY <3>1, FS_Interval
  <2>4. Gen!IntsBefore(f.values, k) = Cardinality(before)
    BY DEF Gen!IntsBefore, Gen!Cardinality, Cardinality
  <2> QED BY <2>2, <2>3, <2>4
<1>4. \A k \in 1 .. n : regs[k] = Gen!int_registers_for_call[k]
  <2>1. TAKE k \in 1 .. n
  <2>2. Gen!IntsBefore(f.values, k) = k - 1 /\ ~Gen!cow_type_is_decimal(f.values[k]) BY <1>2, <1>3
  <2>3. k - 1 < 4 /\ (k - 1) + 1 = k BY <1>1
  <2>4. Gen!arg_reg(f, k) = Gen!int_registers_for_call[k] BY <2>2, <2>3 DEF Gen!arg_reg
  <2> QED BY <2>4
<1>5. /\ \A s \in Slots : slots[s] = LastOf(regs, n, Gen!IntRegisters[s]) - 1
      /\ slots \in Tables
  BY ArgSlots
<1> HIDE DEF regs, slots, n
\* Every register of the convention is that of a slot; no two slots share one.
<1>6. \A k \in 1 .. n : \E s \in Slots : Gen!IntRegisters[s] = Gen!int_registers_for_call[k]
  <2>1. TAKE k \in 1 .. n
  <2>2. k \in {1, 2, 3, 4} BY <1>1
  <2>3. 1 \in Slots /\ 2 \in Slots /\ 6 \in Slots /\ 7 \in Slots BY DEF Slots
  <2> QED BY <2>2, <2>3 DEF Gen!IntRegisters, Gen!int_registers_for_call
<1>7. \A j, k \in 1 .. n : Gen!int_registers_for_call[j] = Gen!int_registers_for_call[k] => j = k
  <2>1. \A k \in 1 .. n : k \in {1, 2, 3, 4} BY <1>1
  <2> QED BY <2>1 DEF Gen!int_registers_for_call, Gen!RCX, Gen!RDX, Gen!R8, Gen!R9
<1>8. \A s, t \in Slots : Gen!IntRegisters[s] = Gen!IntRegisters[t] => s = t
  BY DEF Slots, Gen!IntRegisters, Gen!RCX, Gen!RDX, Gen!RBX, Gen!RSI, Gen!RDI, Gen!R8, Gen!R9, Gen!RAX
<1>9. \A v \in 0 .. n - 1 : Holds0(slots, v)
  <2>1. TAKE v \in 0 .. n - 1
  <2>2. v + 1 \in 1 .. n BY <1>1
  <2>3. PICK s \in Slots : Gen!IntRegisters[s] = Gen!int_registers_for_call[v + 1] BY <1>6, <2>2
  <2> DEFINE r == Gen!IntRegisters[s]
  <2>4. regs[v + 1] = r BY <1>4, <2>2, <2>3
  <2> HIDE DEF r
  <2>5. LastOf(regs, n, r) \in 1 .. n /\ regs[LastOf(regs, n, r)] = r
    BY <1>1, <2>2, <2>4, LastOfFacts
  <2>6. LastOf(regs, n, r) = v + 1 BY <1>4, <1>7, <2>2, <2>4, <2>5
  <2>7. slots[s] = v BY <1>1, <1>5, <2>6 DEF r
  <2> QED BY <2>7 DEF Holds0
<1>10. \A s \in Used(slots) : slots[s] \in 0 .. n - 1 /\ regs[slots[s] + 1] = Gen!IntRegisters[s]
  <2>1. TAKE s \in Used(slots)
  <2> DEFINE r == Gen!IntRegisters[s]  l == LastOf(regs, n, r)
  <2>2. s \in Slots /\ l - 1 # -1 /\ slots[s] = l - 1 BY <1>5 DEF Used, Unset
  <2> HIDE DEF r
  <2>3. l = 0 \/ (l \in 1 .. n /\ regs[l] = r) BY <1>1, LastOfFacts
  <2> HIDE DEF l
  <2>4. l \in 1 .. n /\ regs[l] = r /\ (l - 1) + 1 = l /\ l - 1 \in 0 .. n - 1 BY <1>1, <2>2, <2>3
  <2> QED BY <2>2, <2>4 DEF r
<1>11. IsFiniteSet(Used(slots)) /\ Cardinality(Used(slots)) <= n
  <2> DEFINE U == Used(slots)  to == [s \in U |-> slots[s]]
  <2>1. \A s, t \in U : slots[s] = slots[t] => s = t BY <1>8, <1>10 DEF Used
  <2>2. to \in [U -> 0 .. n - 1] BY <1>10
  <2>3. to \in Injection(U, 0 .. n - 1)
    <3> HIDE DEF U
    <3> QED BY <2>1, <2>2 DEF Injection, IsInjective
  <2>4. IsFiniteSet(0 .. n - 1) /\ Cardinality(0 .. n - 1) = n
    <3>1. 0 \in Int /\ n - 1 \in Int /\ (0 > n - 1 => n = 0) /\ (n - 1) - 0 + 1 = n BY <1>1
    <3> QED BY <3>1, FS_Interval
  <2> HIDE DEF U, to
  <2> QED BY <2>3, <2>4, FS_Injection DEF U
<1> QED BY <1>9, <1>11 DEF n, slots
----------------------------------------------------------------------------
(***************************************************************************)
(* What the table holds before the k-th instruction of a compilable        *)
(* function: the arguments and the values generated so far, except those   *)
(* that a sum has overwritten; and no more slots are taken than there were *)
(* arguments and instructions that take one.                               *)
(***************************************************************************)
NewOps == {"CONST_I32", "CONST_I64", "CONST_PTR", "LOAD"}
NewBefore(f, k) == {j \in 1 .. k - 1 : j \in DOMAIN f.blocks[1] /\ f.blocks[1][j].op \in NewOps}

Generated(f, k, v) ==
  \/ v \in 0 .. f.args_count - 1
  \/ \E j \in 1 .. k - 1 : f.blocks[1][j].op \in GenOps /\ f.blocks[1][j].gen = v
Overwritten(f, k, v) == \E j \in 1 .. k - 1 : f.blocks[1][j].op = "ADD" /\ f.blocks[1][j].left = v

TableOK(f, k, slots) ==
  /\ \A v : Generated(f, k, v) /\ ~Overwritten(f, k, v) => Holds0(slots, v)
  /\ IsFiniteSet(Used(slots))
  /\ Cardinality(Used(slots)) <= f.args_count + Cardinality(NewBefore(f, k))

LEMMA NewFacts ==
  ASSUME NEW f \in Function, NEW k \in Nat, k >= 1
  PROVE  /\ IsFiniteSet(NewBefore(f, k)) /\ Cardinality(NewBefore(f, k)) \in Nat
         /\ NewBefore(f, 1) = {}
         /\ k \in DOMAIN f.blocks[1] /\ f.blocks[1][k].op \in NewOps =>
              /\ Cardinality(NewBefore(f, k + 1)) = Cardinality(NewBefore(f, k)) + 1
         /\ Cardinality(NewBefore(f, k)) <= Cardinality(NewBefore(f, k + 1))
<1>0. \A j \in Nat : IsFiniteSet(NewBefore(f, j)) /\ Cardinality(NewBefore(f, j)) \in Nat
  <2>1. TAKE j \in Nat
  <2>2. IsFiniteSet(1 .. j - 1) BY FS_Interval
  <2>3. NewBefore(f, j) \in SUBSET (1 .. j - 1) BY DEF NewBefore
  <2>4. IsFiniteSet(NewBefore(f, j)) BY <2>2, <2>3, FS_Subset
  <2> QED BY <2>4, FS_CardinalityType
<1>1. NewBefore(f, 1) = {} BY DEF NewBefore
<1>2. ASSUME k \in DOMAIN f.blocks[1], f.blocks[1][k].op \in NewOps
      PROVE  Cardinality(NewBefore(f, k + 1)) = Cardinality(NewBefore(f, k)) + 1
  <2>1. NewBefore(f, k + 1) = NewBefore(f, k) \cup {k} BY <1>2 DEF NewBefore
  <2>2. k \notin NewBefore(f, k) BY DEF NewBefore
  <2> QED BY <1>0, <2>1, <2>2, FS_AddElement
<1>3. Cardinality(NewBefore(f, k)) <= Cardinality(NewBefore(f, k + 1))
  <2>1. NewBefore(f, k) \in SUBSET NewBefore(f, k + 1) BY DEF NewBefore
  <2>2. IsFiniteSet(NewBefore(f, k + 1)) BY <1>0
  <2> QED BY <2>1, <2>2, FS_Subset
<1> QED BY <1>0, <1>1, <1>2, <1>3

\* What Compilable says, one part at a time.
LEMMA CompilableFacts ==
  ASSUME NEW p, WellFormed(p), NEW i \in DOMAIN p, NEW f, f = p[i], Compilable(f)
  PROVE  /\ f \in Function /\ DOMAIN f.blocks = {1} /\ f.blocks[1] \in Seq(Instr)
         /\ f.args_count \in Nat /\ f.args_count <= 4 /\ f.args_count <= ValuesSize(f)
         /\ \A id \in Ids(f) : ~Gen!cow_type_is_decimal(TypeOf(f, id))
         /\ \A k \in DOMAIN f.blocks[1] :
              /\ InstrOK(p, f, f.blocks[1][k]) /\ f.blocks[1][k] \in Instr /\ k \in Nat /\ k >= 1
              /\ f.blocks[1][k].op \in {"ADD", "STORE", "RET", "RET_VOID"} \cup NewOps
              /\ f.blocks[1][k].op \in NewOps => f.args_count + Cardinality(NewBefore(f, k)) < 14
              /\ \A v \in Uses(f.blocks[1][k]) : Generated(f, k, v) /\ ~Overwritten(f, k, v)
<1> DEFINE b == f.blocks[1]
           New == {k \in DOMAIN b : b[k].op \in NewOps}
<1>1. p \in Seq(Function) /\ FunctionOK(p, f) /\ f \in Function BY DEF WellFormed
<1>2. f.blocks \in Seq(Seq(Instr)) /\ Len(f.blocks) = 1 BY <1>1 DEF Function, Compilable
<1>3. DOMAIN f.blocks = {1} /\ b \in Seq(Instr) BY <1>2
<1>4. /\ f.args_count \in Nat /\ f.args_count <= 4 /\ f.args_count <= ValuesSize(f)
      /\ \A id \in Ids(f) : ~Gen!cow_type_is_decimal(TypeOf(f, id))
  BY <1>1 DEF Compilable, Function, FunctionOK
<1>5. f.args_count + Cardinality(New) <= 14 BY DEF Compilable, NewOps
<1>6. \A k \in DOMAIN b : b[k].op \in {"ADD", "STORE", "RET", "RET_VOID"} \cup NewOps
  BY DEF Compilable, NewOps
<1>7. \A k \in DOMAIN b : \A v \in Uses(b[k]) :
        /\ v < f.args_count \/ \E j \in 1 .. k - 1 : b[j].op \in GenOps /\ b[j].gen = v
        /\ \A j \in 1 .. k - 1 : b[j].op = "ADD" => b[j].left # v
  BY DEF Compilable
<1>8. ASSUME NEW k \in DOMAIN b
      PROVE  /\ InstrOK(p, f, b[k]) /\ b[k] \in Instr /\ k \in Nat /\ k >= 1
             /\ b[k].op \in {"ADD", "STORE", "RET", "RET_VOID"} \cup NewOps
             /\ b[k].op \in NewOps => f.args_count + Cardinality(NewBefore(f, k)) < 14
             /\ \A v \in Uses(b[k]) : Generated(f, k, v) /\ ~Overwritten(f, k, v)
  <2>1. InstrOK(p, f, b[k]) /\ b[k] \in Instr /\ k \in Nat /\ k >= 1
    <3>1. InstrOK(p, f, b[k]) BY <1>1, <1>3 DEF FunctionOK
    <3>2. b[k] \in Instr /\ k \in Nat /\ k >= 1
      <4> HIDE DEF b
      <4> QED BY <1>3
    <3> QED BY <3>1, <3>2
  <2>2. ASSUME b[k].op \in NewOps PROVE f.args_count + Cardinality(NewBefore(f, k)) < 14
    <3>1. IsFiniteSet(New)
      <4>1. DOMAIN b = 1 .. Len(b) /\ Len(b) \in Nat BY <1>3
      <4>2. IsFiniteSet(1 .. Len(b)) BY <4>1, FS_Interval
      <4>3. New \in SUBSET (1 .. Len(b)) BY <4>1
      <4> QED BY <4>2, <4>3, FS_Subset
    <3>2. NewBefore(f, k + 1) \in SUBSET New
      BY DEF NewBefore
    <3>3. Cardinality(NewBefore(f, k + 1)) <= Cardinality(New) BY <3>1, <3>2, FS_Subset
    <3>4. Cardinality(NewBefore(f, k + 1)) = Cardinality(NewBefore(f, k)) + 1
          /\ Cardinality(NewBefore(f, k)) \in Nat
      BY <1>1, <2>1, <2>2, NewFacts
    <3>5. Cardinality(New) \in Nat BY <3>1, FS_CardinalityType
    <3> QED BY <1>4, <1>5, <3>3, <3>4, <3>5
  <2>3. ASSUME NEW v \in Uses(b[k]) PROVE Generated(f, k, v) /\ ~Overwritten(f, k, v)
    <3>1. v \in Ids(f) BY <2>1, <2>3 DEF InstrOK, Uses
    <3>2. v \in Int /\ v >= 0
      <4>1. Len(f.values) \in Nat BY <1>1 DEF Function
      <4> QED BY <3>1, <4>1 DEF Ids, ValuesSize
    <3>3. v < f.args_count => v \in 0 .. f.args_count - 1 BY <1>4, <3>2
    <3> QED BY <1>7, <2>3, <3>3 DEF Generated, Overwritten
  <2> QED BY <1>6, <2>1, <2>2, <2>3
<1> QED BY <1>1, <1>3, <1>4, <1>8

\* The table with which a compilable function is begun.
LEMMA TableInit ==
  ASSUME NEW p, WellFormed(p), NEW i \in DOMAIN p, NEW f, f = p[i], Compilable(f)
  PROVE  TableOK(f, 1, Gen!assign_arg_to_register(f))
<1> DEFINE slots == Gen!assign_arg_to_register(f)
<1>1. /\ f \in Function /\ f.args_count \in Nat /\ f.args_count <= 4 /\ f.args_count <= ValuesSize(f)
      /\ \A id \in Ids(f) : ~Gen!cow_type_is_decimal(TypeOf(f, id))
  BY CompilableFacts
<1>2. /\ \A v \in 0 .. f.args_count - 1 : Holds0(slots, v)
      /\ IsFiniteSet(Used(slots)) /\ Cardinality(Used(slots)) <= f.args_count
  BY <1>1, ArgsHeld
<1> HIDE DEF slots
<1>3. NewBefore(f, 1) = {} /\ Cardinality({}) = 0 BY <1>1, NewFacts, FS_EmptySet
<1>4. Cardinality(Used(slots)) \in Nat BY <1>2, FS_CardinalityType
<1>5. \A v : Generated(f, 1, v) => v \in 0 .. f.args_count - 1 BY DEF Generated
<1>6. TableOK(f, 1, slots) BY <1>1, <1>2, <1>3, <1>4, <1>5 DEF TableOK
<1> QED BY <1>6 DEF slots

\* An instruction that takes a free slot: there is one.
LEMMA TableNew ==
  ASSUME NEW p, WellFormed(p), NEW i \in DOMAIN p, NEW f, f = p[i], Compilable(f),
         NEW k \in DOMAIN f.blocks[1], f.blocks[1][k].op \in NewOps,
         NEW slots \in Tables, TableOK(f, k, slots)
  PROVE  TableOK(f, k + 1, Gen!With(slots, Unset, f.blocks[1][k].gen))
<1> DEFINE g == f.blocks[1][k].gen  next == Gen!With(slots, Unset, g)
<1>1. /\ f \in Function /\ f.args_count \in Nat /\ k \in Nat /\ k >= 1
      /\ InstrOK(p, f, f.blocks[1][k]) /\ f.blocks[1][k] \in Instr
      /\ f.args_count + Cardinality(NewBefore(f, k)) < 14
  BY CompilableFacts
<1>2. g \in Int BY <1>1 DEF Instr
<1>3. /\ Cardinality(NewBefore(f, k + 1)) = Cardinality(NewBefore(f, k)) + 1
      /\ Cardinality(NewBefore(f, k)) \in Nat
  BY <1>1, NewFacts
<1>4. f.blocks[1][k].op # "ADD" BY DEF NewOps
<1>5. /\ \A v : Generated(f, k, v) /\ ~Overwritten(f, k, v) => Holds0(slots, v)
      /\ IsFiniteSet(Used(slots))
      /\ Cardinality(Used(slots)) <= f.args_count + Cardinality(NewBefore(f, k))
  BY DEF TableOK
<1>6. Cardinality(Used(slots)) \in Nat BY <1>5, FS_CardinalityType
<1>7. \A v : Generated(f, k + 1, v) => Generated(f, k, v) \/ v = g
  BY <1>1 DEF Generated
<1>8. \A v : Overwritten(f, k, v) => Overwritten(f, k + 1, v)
  BY <1>1 DEF Overwritten
<1>9. \E s \in Slots : slots[s] = Unset
  <2>1. SUFFICES ASSUME \A s \in Slots : slots[s] # Unset PROVE FALSE
    OBVIOUS
  <2>2. Used(slots) = 1 .. 14 BY <2>1 DEF Used, Slots
  <2>3. Cardinality(1 .. 14) = 14
    <3> DEFINE n == 14
    <3>1. n \in Int /\ 1 \in Int /\ ~ 1 > n /\ n - 1 + 1 = n OBVIOUS
    <3> HIDE DEF n
    <3>2. Cardinality(1 .. n) = n BY <3>1, FS_Interval
    <3> QED BY <3>2 DEF n
  <2> QED BY <1>1, <1>3, <1>5, <2>2, <2>3
<1> HIDE DEF g
<1>10. PICK s \in Slots : slots[s] = Unset /\ next = [slots EXCEPT ![s] = g]
  BY <1>2, <1>9, WithFacts
<1> HIDE DEF next
<1>11. \A t \in Slots : next[t] = IF t = s THEN g ELSE slots[t] BY <1>10 DEF Tables
<1>12. \A v : v # Unset /\ Holds0(slots, v) => Holds0(next, v) BY <1>10, <1>11 DEF Holds0
<1>13. Holds0(next, g) BY <1>11 DEF Holds0
<1>14. \A v : Generated(f, k, v) => v # Unset
  <2>1. TAKE v
  <2>2. HAVE Generated(f, k, v)
  <2>3. CASE v \in 0 .. f.args_count - 1 BY <1>1, <2>3 DEF Unset
  <2>4. ASSUME NEW j \in 1 .. k - 1, f.blocks[1][j].op \in GenOps, f.blocks[1][j].gen = v
        PROVE  v # Unset
    <3>1. f.blocks[1] \in Seq(Instr) BY CompilableFacts
    <3>2. j \in DOMAIN f.blocks[1] BY <1>1, <3>1
    <3>3. InstrOK(p, f, f.blocks[1][j]) BY <3>2, CompilableFacts
    <3>4. v \in Ids(f) /\ Len(f.values) \in Nat BY <1>1, <2>4, <3>3 DEF InstrOK, Function
    <3> QED BY <3>4 DEF Ids, ValuesSize, Unset
  <2> QED BY <2>2, <2>3, <2>4 DEF Generated
<1>15. \A v : Generated(f, k + 1, v) /\ ~Overwritten(f, k + 1, v) => Holds0(next, v)
  BY <1>5, <1>7, <1>8, <1>12, <1>13, <1>14
<1>16. IsFiniteSet(Used(next)) /\ Cardinality(Used(next)) <= Cardinality(Used(slots)) + 1
  <2>1. Used(next) \in SUBSET (Used(slots) \cup {s}) BY <1>11 DEF Used
  <2>2. IsFiniteSet(Used(slots) \cup {s}) /\ Cardinality(Used(slots) \cup {s}) \in Nat
        /\ Cardinality(Used(slots) \cup {s}) <= Cardinality(Used(slots)) + 1
    <3> DEFINE U == Used(slots)
    <3>1. IsFiniteSet(U) /\ Cardinality(U) \in Nat BY <1>5, <1>6
    <3> HIDE DEF U
    <3>2. /\ IsFiniteSet(U \cup {s})
          /\ Cardinality(U \cup {s}) = IF s \in U THEN Cardinality(U) ELSE Cardinality(U) + 1
      BY <3>1, FS_AddElement
    <3>3. Cardinality(U \cup {s}) \in Nat BY <3>2, FS_CardinalityType
    <3>4. Cardinality(U \cup {s}) <= Cardinality(U) + 1 BY <3>1, <3>2
    <3> QED BY <3>2, <3>3, <3>4 DEF U
  <2>3. IsFiniteSet(Used(next)) /\ Cardinality(Used(next)) <= Cardinality(Used(slots) \cup {s})
    BY <2>1, <2>2, FS_Subset
  <2>4. Cardinality(Used(next)) \in Nat BY <2>3, FS_CardinalityType
  <2> QED BY <1>6, <2>2, <2>3, <2>4
<1>17. Cardinality(Used(next)) \in Nat BY <1>16, FS_CardinalityType
<1>18. Cardinality(Used(next)) <= f.args_count + Cardinality(NewBefore(f, k + 1))
  BY <1>1, <1>3, <1>5, <1>6, <1>16, <1>17
<1>19. TableOK(f, k + 1, next) BY <1>15, <1>16, <1>18 DEF TableOK
<1> QED BY <1>19 DEF next, g

\* A sum takes the slot of its left operand, which is not used again.
LEMMA TableAdd ==
  ASSUME NEW p, WellFormed(p), NEW i \in DOMAIN p, NEW f, f = p[i], Compilable(f),
         NEW k \in DOMAIN f.blocks[1], f.blocks[1][k].op = "ADD",
         NEW slots \in Tables, TableOK(f, k, slots)
  PROVE  TableOK(f, k + 1, Gen!With(slots, f.blocks[1][k].left, f.blocks[1][k].gen))
<1> DEFINE g == f.blocks[1][k].gen  l == f.blocks[1][k].left  next == Gen!With(slots, l, g)
<1>1. /\ f \in Function /\ f.args_count \in Nat /\ k \in Nat /\ k >= 1
      /\ InstrOK(p, f, f.blocks[1][k]) /\ f.blocks[1][k] \in Instr
      /\ \A v \in Uses(f.blocks[1][k]) : Generated(f, k, v) /\ ~Overwritten(f, k, v)
  BY CompilableFacts
<1>2. g \in Int /\ l \in Ids(f) /\ l # Unset
  <2>1. f.blocks[1][k].op \in LeftOps BY DEF LeftOps, BinaryOps, ArithOps
  <2>2. Len(f.values) \in Nat BY <1>1 DEF Function
  <2>3. l \in Ids(f) BY <1>1, <2>1 DEF InstrOK
  <2>4. g \in Int BY <1>1 DEF Instr
  <2>5. l >= 0 BY <2>2, <2>3 DEF Ids, ValuesSize
  <2> QED BY <2>3, <2>4, <2>5 DEF Unset
<1>3. Cardinality(NewBefore(f, k)) <= Cardinality(NewBefore(f, k + 1))
      /\ Cardinality(NewBefore(f, k)) \in Nat /\ Cardinality(NewBefore(f, k + 1)) \in Nat
  BY <1>1, NewFacts
<1>4. /\ \A v : Generated(f, k, v) /\ ~Overwritten(f, k, v) => Holds0(slots, v)
      /\ IsFiniteSet(Used(slots))
      /\ Cardinality(Used(slots)) <= f.args_count + Cardinality(NewBefore(f, k))
  BY DEF TableOK
<1>5. \A v : Generated(f, k + 1, v) => Generated(f, k, v) \/ v = g
  BY <1>1 DEF Generated
<1>6. \A v : ~Overwritten(f, k + 1, v) => ~Overwritten(f, k, v) /\ v # l
  BY <1>1 DEF Overwritten
<1>7. Holds0(slots, l)
  <2>1. l \in Uses(f.blocks[1][k]) BY DEF Uses, LeftOps, BinaryOps, ArithOps
  <2> QED BY <1>1, <1>4, <2>1
<1> HIDE DEF g, l
<1>8. PICK s \in Slots : slots[s] = l /\ next = [slots EXCEPT ![s] = g]
  BY <1>2, <1>7, WithFacts DEF Holds0
<1> HIDE DEF next
<1>9. \A t \in Slots : next[t] = IF t = s THEN g ELSE slots[t] BY <1>8 DEF Tables
<1>10. \A v : v # l /\ Holds0(slots, v) => Holds0(next, v) BY <1>8, <1>9 DEF Holds0
<1>11. Holds0(next, g) BY <1>9 DEF Holds0
<1>12. \A v : Generated(f, k + 1, v) /\ ~Overwritten(f, k + 1, v) => Holds0(next, v)
  BY <1>4, <1>5, <1>6, <1>10, <1>11
<1>13. IsFiniteSet(Used(next)) /\ Cardinality(Used(next)) <= Cardinality(Used(slots))
  <2>1. Used(next) \in SUBSET Used(slots) BY <1>2, <1>8, <1>9 DEF Used
  <2> QED BY <1>4, <2>1, FS_Subset
<1>14. Cardinality(Used(next)) \in Nat /\ Cardinality(Used(slots)) \in Nat
  BY <1>4, <1>13, FS_CardinalityType
<1>15. Cardinality(Used(next)) <= f.args_count + Cardinality(NewBefore(f, k + 1))
  BY <1>1, <1>3, <1>4, <1>13, <1>14
<1>16. TableOK(f, k + 1, next) BY <1>12, <1>13, <1>15 DEF TableOK
<1> QED BY <1>16 DEF next, g, l

\* Instructions that write no value leave the table alone.
LEMMA TableKept ==
  ASSUME NEW p, WellFormed(p), NEW i \in DOMAIN p, NEW f, f = p[i], Compilable(f),
         NEW k \in DOMAIN f.blocks[1], f.blocks[1][k].op \in {"STORE", "RET", "RET_VOID"},
         NEW slots \in Tables, TableOK(f, k, slots)
  PROVE  TableOK(f, k + 1, slots)
<1>1. f \in Function /\ f.args_count \in Nat /\ k \in Nat /\ k >= 1 BY CompilableFacts
<1>2. f.blocks[1][k].op \notin GenOps /\ f.blocks[1][k].op # "ADD"
  BY DEF GenOps
<1>3. \A v : Generated(f, k + 1, v) => Generated(f, k, v) BY <1>1, <1>2 DEF Generated
<1>4. \A v : Overwritten(f, k, v) => Overwritten(f, k + 1, v) BY <1>1 DEF Overwritten
<1>5. Cardinality(NewBefore(f, k)) <= Cardinality(NewBefore(f, k + 1))
      /\ Cardinality(NewBefore(f, k)) \in Nat /\ Cardinality(NewBefore(f, k + 1)) \in Nat
  BY <1>1, NewFacts
<1>6. IsFiniteSet(Used(slots)) /\ Cardinality(Used(slots)) <= f.args_count + Cardinality(NewBefore(f, k))
  BY DEF TableOK
<1>7. Cardinality(Used(slots)) \in Nat BY <1>6, FS_CardinalityType
<1>8. Cardinality(Used(slots)) <= f.args_count + Cardinality(NewBefore(f, k + 1))
  BY <1>1, <1>5, <1>6, <1>7
<1> QED BY <1>3, <1>4, <1>6, <1>8 DEF TableOK
----------------------------------------------------------------------------
(***************************************************************************)
(* What the generator has recorded so far: of the functions before at.func *)
(* anything, of that function the blocks and instructions before at, and   *)
(* nothing of those after it.                                              *)
(***************************************************************************)
Places == [func : Nat \ {0}, block : Nat \ {0}, instr : Nat]

Blocks(x) == \E S : x \in Seq(Seq(S))

Placement(p, a, pl) ==
  /\ pl = [f \in DOMAIN p |-> pl[f]]
  /\ \A f \in DOMAIN p : Blocks(pl[f]) /\ (f > a.func => pl[f] = <<>>)
  /\ a.func \in DOMAIN p =>
       /\ Len(pl[a.func]) = IF a.instr = 0 THEN a.block - 1 ELSE a.block
       /\ a.instr > 0 => Len(pl[a.func][a.block]) = a.instr - 1

TableGood(p, a, slots) ==
  a.func \in DOMAIN p /\ Compilable(p[a.func]) /\ a.block = 1 =>
    TableOK(p[a.func], IF a.instr = 0 THEN 1 ELSE a.instr, slots)

Held(p, pl) ==
  \A f \in DOMAIN p : Compilable(p[f]) =>
    \A b \in DOMAIN pl[f] : \A k \in DOMAIN pl[f][b] :
      \A v \in Uses(p[f].blocks[b][k]) : Gen!SlotOf(pl[f][b][k].ints, v) # 0

LEMMA WellFormedFunction ==
  ASSUME NEW p, WellFormed(p), NEW f \in DOMAIN p
  PROVE  p[f] \in Function
BY DEF WellFormed

LEMMA AppendBlock ==
  ASSUME NEW x, Blocks(x)
  PROVE  LET y == Append(x, <<>>)
         IN  /\ Blocks(y) /\ Len(x) \in Nat /\ Len(y) = Len(x) + 1
             /\ DOMAIN x = 1 .. Len(x) /\ DOMAIN y = 1 .. Len(x) + 1
             /\ \A b \in DOMAIN x : y[b] = x[b]
             /\ y[Len(x) + 1] = <<>>
<1>1. PICK S : x \in Seq(Seq(S)) BY DEF Blocks
<1>2. <<>> \in Seq(S) OBVIOUS
<1> DEFINE T == Seq(S)
<1> HIDE DEF T
<1>3. x \in Seq(T) /\ <<>> \in T BY <1>1, <1>2 DEF T
<1>4. /\ Append(x, <<>>) \in Seq(T) /\ Len(Append(x, <<>>)) = Len(x) + 1
      /\ \A b \in 1 .. Len(x) : Append(x, <<>>)[b] = x[b]
      /\ Append(x, <<>>)[Len(x) + 1] = <<>>
  BY <1>3, AppendProperties
<1>5. DOMAIN x = 1 .. Len(x) /\ Len(x) \in Nat BY <1>3, LenProperties
<1>6. DOMAIN Append(x, <<>>) = 1 .. Len(x) + 1 BY <1>4, LenProperties
<1>7. Blocks(Append(x, <<>>)) BY <1>4 DEF Blocks, T
<1> QED BY <1>4, <1>5, <1>6, <1>7

Appended(x, b, e) == [x EXCEPT ![b] = Append(@, e)]

LEMMA AppendEntry ==
  ASSUME NEW x, Blocks(x), NEW b \in DOMAIN x, NEW e, NEW y, y = Appended(x, b, e)
  PROVE  /\ Blocks(y) /\ Len(x) \in Nat /\ Len(y) = Len(x) /\ DOMAIN y = DOMAIN x
         /\ Len(x[b]) \in Nat /\ Len(y[b]) = Len(x[b]) + 1
         /\ DOMAIN x[b] = 1 .. Len(x[b]) /\ DOMAIN y[b] = 1 .. Len(x[b]) + 1
         /\ \A k \in DOMAIN x[b] : y[b][k] = x[b][k]
         /\ y[b][Len(x[b]) + 1] = e
         /\ \A c \in DOMAIN x : c # b => y[c] = x[c]
<1> DEFINE z == x[b]
<1>1. PICK S : x \in Seq(Seq(S)) BY DEF Blocks
<1> DEFINE T == S \cup {e}
<1>2. /\ x \in [1 .. Len(x) -> Seq(S)] /\ Len(x) \in Nat /\ DOMAIN x = 1 .. Len(x)
  <2> DEFINE U == Seq(S)
  <2> HIDE DEF U
  <2>1. x \in Seq(U) BY <1>1 DEF U
  <2>2. x \in [1 .. Len(x) -> U] /\ Len(x) \in Nat /\ DOMAIN x = 1 .. Len(x)
    BY <2>1, LenProperties
  <2> QED BY <2>2 DEF U
<1>3. \A s \in Seq(S) : s \in Seq(T) BY SeqMonotonic DEF T
<1>4. z \in Seq(T) BY <1>2, <1>3
<1>5. e \in T OBVIOUS
<1> HIDE DEF T, z
<1>6. /\ Append(z, e) \in Seq(T) /\ Len(Append(z, e)) = Len(z) + 1
      /\ \A k \in 1 .. Len(z) : Append(z, e)[k] = z[k]
      /\ Append(z, e)[Len(z) + 1] = e
  BY <1>4, <1>5, AppendProperties
<1>7. DOMAIN z = 1 .. Len(z) /\ Len(z) \in Nat /\ DOMAIN Append(z, e) = 1 .. Len(z) + 1
  BY <1>4, <1>6, LenProperties
<1>8. /\ y[b] = Append(z, e) /\ DOMAIN y = DOMAIN x
      /\ \A c \in DOMAIN x : c # b => y[c] = x[c]
  BY DEF z, Appended
<1>9. y \in [1 .. Len(x) -> Seq(T)]
  <2>1. y = [c \in 1 .. Len(x) |-> y[c]] BY <1>2 DEF Appended
  <2>2. \A c \in 1 .. Len(x) : y[c] \in Seq(T) BY <1>2, <1>3, <1>6, <1>8
  <2> QED BY <2>1, <2>2
<1>10. y \in Seq(Seq(T)) /\ Len(y) = Len(x)
  <2> DEFINE U == Seq(T)  n == Len(x)
  <2>1. n \in Nat /\ y \in [1 .. n -> U] BY <1>2, <1>9
  <2> HIDE DEF U, n
  <2>2. y \in Seq(U) /\ Len(y) = n BY <2>1, SeqOfFunction
  <2> QED BY <2>2 DEF U, n
<1>11. Blocks(y) BY <1>10 DEF Blocks
<1> QED BY <1>2, <1>6, <1>7, <1>8, <1>10, <1>11 DEF z
\* Emission leaves a place behind the instruction, with the tables before it.
LEMMA EmitStep ==
  ASSUME NEW p, WellFormed(p), NEW a \in Places, NEW slots \in Tables, NEW pl,
         Placement(p, a, pl), TableGood(p, a, slots), Held(p, pl),
         a.func \in DOMAIN p, a.block \in DOMAIN p[a.func].blocks,
         a.instr \in DOMAIN p[a.func].blocks[a.block],
         NEW e, e.ints = slots,
         NEW next, next = [a EXCEPT !.instr = @ + 1],
         NEW pl2, pl2 = [pl EXCEPT ![a.func][a.block] = Append(@, e)]
  PROVE  next \in Places /\ Placement(p, next, pl2) /\ Held(p, pl2)
<1> DEFINE F == a.func  B == a.block  J == a.instr  f == p[F]  x == pl[F]
<1>1. /\ F \in Nat /\ B \in Nat /\ B >= 1 /\ J \in Nat
      /\ F \in DOMAIN p /\ B \in DOMAIN f.blocks /\ J \in DOMAIN f.blocks[B]
  BY DEF Places
<1>2. f \in Function BY WellFormedFunction
<1>3. J >= 1
  <2>1. f.blocks \in Seq(Seq(Instr)) BY <1>2 DEF Function
  <2>2. f.blocks[B] \in Seq(Instr) BY <1>1, <2>1
  <2> HIDE DEF B, J, f
  <2> QED BY <1>1, <2>2
<1>4. next \in Places /\ next.func = F /\ next.block = B /\ next.instr = J + 1
  BY <1>1 DEF Places
<1>5. Blocks(x) /\ Len(x) = B /\ Len(x[B]) = J - 1
  <2>1. Blocks(x) BY <1>1 DEF Placement
  <2>2. J # 0 /\ J > 0 BY <1>1, <1>3
  <2>3. Len(x) = IF J = 0 THEN B - 1 ELSE B BY <1>1 DEF Placement
  <2>4. J > 0 => Len(x[B]) = J - 1 BY <1>1 DEF Placement
  <2> QED BY <2>1, <2>2, <2>3, <2>4
<1>6. DOMAIN pl = DOMAIN p BY DEF Placement
<1> DEFINE y == [x EXCEPT ![B] = Append(@, e)]
<1>7. /\ pl2[F] = y /\ DOMAIN pl2 = DOMAIN p
      /\ \A g \in DOMAIN p : g # F => pl2[g] = pl[g]
      /\ pl2 = [g \in DOMAIN p |-> pl2[g]]
  BY <1>1, <1>6
<1>8. B \in DOMAIN x
  <2>1. DOMAIN x = 1 .. Len(x) BY <1>5, AppendBlock
  <2> QED BY <1>1, <1>5, <2>1
<1> HIDE DEF F, B, J, f, x, y
<1>9. /\ Blocks(y) /\ Len(y) = B /\ DOMAIN y = DOMAIN x /\ Len(y[B]) = J
      /\ DOMAIN x[B] = 1 .. J - 1 /\ DOMAIN y[B] = 1 .. J
      /\ \A k \in 1 .. J - 1 : y[B][k] = x[B][k]
      /\ y[B][J] = e
      /\ \A c \in DOMAIN x : c # B => y[c] = x[c]
  <2>0. y = Appended(x, B, e) BY DEF y, Appended
  <2>1. /\ Blocks(y) /\ Len(x) \in Nat /\ Len(y) = Len(x) /\ DOMAIN y = DOMAIN x
        /\ Len(x[B]) \in Nat /\ Len(y[B]) = Len(x[B]) + 1
        /\ DOMAIN x[B] = 1 .. Len(x[B]) /\ DOMAIN y[B] = 1 .. Len(x[B]) + 1
        /\ \A k \in DOMAIN x[B] : y[B][k] = x[B][k]
        /\ y[B][Len(x[B]) + 1] = e
        /\ \A c \in DOMAIN x : c # B => y[c] = x[c]
    BY <1>5, <1>8, <2>0, AppendEntry
  <2>2. J - 1 + 1 = J BY <1>1
  <2> QED BY <1>5, <2>1, <2>2
<1>10. Placement(p, next, pl2)
  <2>1. \A g \in DOMAIN p : Blocks(pl2[g]) /\ (g > F => pl2[g] = <<>>)
    <3>1. TAKE g \in DOMAIN p
    <3>2. CASE g = F
      <4>1. Blocks(pl2[g]) BY <1>7, <1>9, <3>2
      <4>2. ~ g > F BY <1>1, <3>2
      <4> QED BY <4>1, <4>2
    <3>3. CASE g # F BY <1>7, <3>3 DEF Placement, F
    <3> QED BY <3>2, <3>3
  <2>2. J + 1 # 0 /\ (J + 1) - 1 = J BY <1>1
  <2>3. Len(pl2[F]) = B /\ Len(pl2[F][B]) = J BY <1>7, <1>9
  <2> QED BY <1>4, <1>7, <2>1, <2>2, <2>3 DEF Placement
<1>11. Held(p, pl2)
  <2>1. SUFFICES ASSUME NEW g \in DOMAIN p, Compilable(p[g]), NEW b \in DOMAIN pl2[g],
                        NEW k \in DOMAIN pl2[g][b], NEW v \in Uses(p[g].blocks[b][k])
                 PROVE  Gen!SlotOf(pl2[g][b][k].ints, v) # 0
    BY DEF Held
  <2>2. CASE ~ (g = F /\ b = B /\ k = J)
    <3>1. b \in DOMAIN pl[g] /\ k \in DOMAIN pl[g][b] /\ pl2[g][b][k] = pl[g][b][k]
      <4>1. CASE g # F BY <1>7, <4>1
      <4>2. CASE g = F /\ b # B BY <1>7, <1>9, <4>2 DEF x
      <4>3. CASE g = F /\ b = B /\ k # J
        <5>1. k \in 1 .. J - 1 BY <1>1, <1>7, <1>9, <4>3
        <5> QED BY <1>7, <1>8, <1>9, <4>3, <5>1 DEF x
      <4> QED BY <2>2, <4>1, <4>2, <4>3
    <3> QED BY <2>1, <3>1 DEF Held
  <2>3. CASE g = F /\ b = B /\ k = J
    <3>1. pl2[g][b][k].ints = slots BY <1>7, <1>9, <2>3
    <3>2. Compilable(f) /\ v \in Uses(f.blocks[B][J]) BY <2>1, <2>3 DEF f
    <3>3. DOMAIN f.blocks = {1} BY <1>1, <3>2, CompilableFacts DEF f
    <3>4. B = 1 BY <1>1, <3>3
    <3>5. Generated(f, J, v) /\ ~Overwritten(f, J, v)
      <4>1. J \in DOMAIN f.blocks[1] /\ v \in Uses(f.blocks[1][J]) BY <1>1, <3>2, <3>4
      <4> QED BY <1>1, <3>2, <4>1, CompilableFacts DEF f
    <3>6. TableOK(f, J, slots)
      <4>1. J # 0 BY <1>1, <1>3
      <4> QED BY <1>1, <3>2, <3>4, <4>1 DEF TableGood, F, B, J, f
    <3>7. Holds0(slots, v) BY <3>5, <3>6 DEF TableOK
    <3>8. Gen!SlotOf(slots, v) \in Slots BY <3>7, SlotFacts DEF Holds0
    <3>9. Gen!SlotOf(slots, v) # 0 BY <3>8 DEF Slots
    <3> QED BY <3>1, <3>9
  <2> QED BY <2>2, <2>3
<1> QED BY <1>4, <1>10, <1>11

\* What the instruction at a does to the table: it takes a slot for its result,
\* or it is one that no compilable function has.
TableMoves(p, a, slots, slots2) ==
  LET f == p[a.func]  i == f.blocks[a.block][a.instr] IN
  \/ i.op \in NewOps /\ slots2 = Gen!With(slots, Unset, i.gen)
  \/ i.op = "ADD" /\ slots2 = Gen!With(slots, i.left, i.gen)
  \/ i.op \in {"STORE", "RET", "RET_VOID"} /\ slots2 = slots
  \/ i.op \notin {"ADD", "STORE", "RET", "RET_VOID"} \cup NewOps
  \/ i.op \in GenOps /\ Gen!cow_type_is_decimal(TypeOf(f, i.gen))
  \/ i.op \in LeftOps /\ Gen!cow_type_is_decimal(TypeOf(f, i.left))

LEMMA TableStep ==
  ASSUME NEW p, WellFormed(p), NEW a \in Places, NEW slots \in Tables,
         TableGood(p, a, slots),
         a.func \in DOMAIN p, a.block \in DOMAIN p[a.func].blocks,
         a.instr \in DOMAIN p[a.func].blocks[a.block],
         NEW next, next = [a EXCEPT !.instr = @ + 1],
         NEW slots2 \in Tables, TableMoves(p, a, slots, slots2)
  PROVE  TableGood(p, next, slots2)
<1> DEFINE J == a.instr  f == p[a.func]  i == f.blocks[a.block][a.instr]
<1>0. /\ J \in DOMAIN f.blocks[a.block]
      /\ \/ i.op \in NewOps /\ slots2 = Gen!With(slots, Unset, i.gen)
         \/ i.op = "ADD" /\ slots2 = Gen!With(slots, i.left, i.gen)
         \/ i.op \in {"STORE", "RET", "RET_VOID"} /\ slots2 = slots
         \/ i.op \notin {"ADD", "STORE", "RET", "RET_VOID"} \cup NewOps
         \/ i.op \in GenOps /\ Gen!cow_type_is_decimal(TypeOf(f, i.gen))
         \/ i.op \in LeftOps /\ Gen!cow_type_is_decimal(TypeOf(f, i.left))
  BY DEF TableMoves
<1>1. SUFFICES ASSUME Compilable(f), a.block = 1
               PROVE  TableOK(f, J + 1, slots2)
  <2>1. /\ next.func = a.func /\ next.block = a.block /\ next.instr = J + 1 /\ J \in Nat
    BY DEF Places
  <2>2. J + 1 # 0 BY <2>1
  <2> HIDE DEF J
  <2> QED BY <2>1, <2>2 DEF TableGood, f
<1>2. J \in DOMAIN f.blocks[1] /\ i = f.blocks[1][J] BY <1>0, <1>1
<1> DEFINE F == a.func
<1>6. F \in DOMAIN p /\ f = p[F] OBVIOUS
<1> HIDE DEF J, F, f, i
<1>3. /\ InstrOK(p, f, i) /\ J \in Nat /\ J >= 1
      /\ i.op \in {"ADD", "STORE", "RET", "RET_VOID"} \cup NewOps
  BY <1>1, <1>2, <1>6, CompilableFacts
<1>4. \A id \in Ids(f) : ~Gen!cow_type_is_decimal(TypeOf(f, id)) BY <1>1, <1>6, CompilableFacts
<1>5. TableOK(f, J, slots)
  <2>1. J \in Nat /\ J >= 1 BY <1>3
  <2>2. J # 0 BY <2>1
  <2> QED BY <1>1, <1>6, <2>2 DEF TableGood, J, F, f
<1>7. CASE i.op \in NewOps /\ slots2 = Gen!With(slots, Unset, i.gen)
  BY <1>1, <1>2, <1>5, <1>6, <1>7, TableNew
<1>8. CASE i.op = "ADD" /\ slots2 = Gen!With(slots, i.left, i.gen)
  BY <1>1, <1>2, <1>5, <1>6, <1>8, TableAdd
<1>9. CASE i.op \in {"STORE", "RET", "RET_VOID"} /\ slots2 = slots
  BY <1>1, <1>2, <1>5, <1>6, <1>9, TableKept
<1>10. ~ (i.op \in GenOps /\ Gen!cow_type_is_decimal(TypeOf(f, i.gen)))
  BY <1>3, <1>4 DEF InstrOK
<1>11. ~ (i.op \in LeftOps /\ Gen!cow_type_is_decimal(TypeOf(f, i.left)))
  BY <1>3, <1>4 DEF InstrOK
<1> QED BY <1>0, <1>3, <1>7, <1>8, <1>9, <1>10, <1>11

LEMMA StartBlockStep ==
  ASSUME NEW p, WellFormed(p), NEW a \in Places, NEW slots \in Tables, NEW pl,
         Placement(p, a, pl), TableGood(p, a, slots), Held(p, pl),
         a.func \in DOMAIN p, a.block \in DOMAIN p[a.func].blocks, a.instr = 0,
         NEW next, next = [a EXCEPT !.instr = 1],
         NEW pl2, pl2 = [pl EXCEPT ![a.func] = Append(@, <<>>)]
  PROVE  next \in Places /\ Placement(p, next, pl2) /\ TableGood(p, next, slots) /\ Held(p, pl2)
<1> DEFINE F == a.func  B == a.block  x == pl[F]
<1>1. F \in DOMAIN p /\ B \in Nat /\ B >= 1 BY DEF Places
<1>2. next \in Places /\ next.func = F /\ next.block = B /\ next.instr = 1 BY DEF Places
<1>3. Blocks(x) /\ Len(x) = B - 1 BY DEF Placement
<1>4. DOMAIN pl = DOMAIN p BY DEF Placement
<1> DEFINE y == Append(x, <<>>)
<1>5. /\ pl2[F] = y /\ DOMAIN pl2 = DOMAIN p
      /\ \A g \in DOMAIN p : g # F => pl2[g] = pl[g]
      /\ pl2 = [g \in DOMAIN p |-> pl2[g]]
  BY <1>1, <1>4
<1> HIDE DEF F, B, x, y
<1>6. /\ Blocks(y) /\ Len(y) = B /\ DOMAIN x = 1 .. B - 1 /\ DOMAIN y = 1 .. B
      /\ (\A b \in DOMAIN x : y[b] = x[b]) /\ y[B] = <<>>
  <2>1. LET w == Append(x, <<>>)
        IN  /\ Blocks(w) /\ Len(x) \in Nat /\ Len(w) = Len(x) + 1
            /\ DOMAIN x = 1 .. Len(x) /\ DOMAIN w = 1 .. Len(x) + 1
            /\ \A b \in DOMAIN x : w[b] = x[b]
            /\ w[Len(x) + 1] = <<>>
    BY <1>3, AppendBlock
  <2>2. B - 1 + 1 = B BY <1>1
  <2> QED BY <1>3, <2>1, <2>2 DEF y
<1>7. Placement(p, next, pl2)
  <2>1. \A g \in DOMAIN p : Blocks(pl2[g]) /\ (g > F => pl2[g] = <<>>)
    <3>1. TAKE g \in DOMAIN p
    <3>2. F \in Int BY DEF Places, F
    <3>3. CASE g = F
      <4>1. Blocks(pl2[g]) BY <1>5, <1>6, <3>3
      <4>2. ~ g > F BY <3>2, <3>3
      <4> QED BY <4>1, <4>2
    <3>4. CASE g # F BY <1>5, <3>4 DEF Placement, F
    <3> QED BY <3>3, <3>4
  <2>2. Len(pl2[F]) = B /\ Len(pl2[F][B]) = 0
    <3>1. Len(<<>>) = 0 OBVIOUS
    <3> QED BY <1>5, <1>6, <3>1
  <2>3. /\ next.func \in DOMAIN p =>
            /\ Len(pl2[next.func]) = IF next.instr = 0 THEN next.block - 1 ELSE next.block
            /\ next.instr > 0 => Len(pl2[next.func][next.block]) = next.instr - 1
        /\ \A g \in DOMAIN p : Blocks(pl2[g]) /\ (g > next.func => pl2[g] = <<>>)
    BY <1>2, <2>1, <2>2
  <2> QED BY <1>5, <2>3 DEF Placement
<1>8. TableGood(p, next, slots) BY <1>2 DEF TableGood, F, B
<1>9. Held(p, pl2)
  <2>1. SUFFICES ASSUME NEW g \in DOMAIN p, Compilable(p[g]), NEW b \in DOMAIN pl2[g],
                        NEW k \in DOMAIN pl2[g][b], NEW v \in Uses(p[g].blocks[b][k])
                 PROVE  Gen!SlotOf(pl2[g][b][k].ints, v) # 0
    BY DEF Held
  <2>2. b \in DOMAIN pl[g] /\ pl2[g][b] = pl[g][b]
    <3>1. CASE g # F BY <1>5, <3>1
    <3>2. CASE g = F
      <4>1. b \in 1 .. B BY <1>5, <1>6, <3>2
      <4>2. b # B
        <5>1. DOMAIN <<>> = {} OBVIOUS
        <5> QED BY <1>5, <1>6, <2>1, <3>2, <5>1
      <4>3. b \in 1 .. B - 1 BY <1>1, <4>1, <4>2
      <4> QED BY <1>5, <1>6, <3>2, <4>3 DEF x
    <3> QED BY <3>1, <3>2
  <2> QED BY <2>1, <2>2 DEF Held
<1> QED BY <1>2, <1>7, <1>8, <1>9

LEMMA EndBlockStep ==
  ASSUME NEW p, WellFormed(p), NEW a \in Places, NEW slots, NEW pl,
         Placement(p, a, pl), a.func \in DOMAIN p, a.instr # 0,
         NEW next, next = [a EXCEPT !.block = @ + 1, !.instr = 0]
  PROVE  next \in Places /\ Placement(p, next, pl) /\ TableGood(p, next, slots)
<1> DEFINE B == a.block
<1>1. B \in Nat /\ B >= 1 BY DEF Places
<1>2. next \in Places /\ next.func = a.func /\ next.block = B + 1 /\ next.instr = 0
  <2> DEFINE C == B + 1  mid == [a EXCEPT !.block = C]
  <2>1. next = [mid EXCEPT !.instr = 0] OBVIOUS
  <2>2. C \in Nat \ {0} BY <1>1
  <2> HIDE DEF C
  <2>3. mid \in Places /\ mid.func = a.func /\ mid.block = C BY <2>2 DEF Places
  <2> HIDE DEF mid
  <2> QED BY <2>1, <2>3 DEF Places, C
<1>3. Len(pl[a.func]) = B BY DEF Placement
<1> HIDE DEF B
<1>4. (B + 1) - 1 = B /\ B + 1 # 1 BY <1>1
<1>5. Placement(p, next, pl) BY <1>2, <1>3, <1>4 DEF Placement
<1>6. TableGood(p, next, slots) BY <1>2, <1>4 DEF TableGood
<1> QED BY <1>2, <1>5, <1>6

LEMMA SlotsForFacts ==
  ASSUME NEW p, WellFormed(p), NEW f \in Nat
  PROVE  /\ Gen!SlotsFor(p, f) \in Tables
         /\ f \in DOMAIN p /\ Compilable(p[f]) => TableOK(p[f], 1, Gen!SlotsFor(p, f))
<1>1. CASE f \in DOMAIN p
  <2>1. Gen!SlotsFor(p, f) = Gen!assign_arg_to_register(p[f]) BY <1>1 DEF Gen!SlotsFor
  <2>2. p[f] \in Function BY <1>1, WellFormedFunction
  <2> DEFINE g == p[f]
  <2>3. g \in Function BY <2>2
  <2> HIDE DEF g
  <2>4. Gen!assign_arg_to_register(g) \in Tables BY <2>3, ArgSlots
  <2>5. Compilable(g) => TableOK(g, 1, Gen!assign_arg_to_register(g)) BY <1>1, TableInit DEF g
  <2> QED BY <2>1, <2>4, <2>5 DEF g
<1>2. CASE f \notin DOMAIN p
  <2>1. Gen!SlotsFor(p, f) = [s \in DOMAIN Gen!IntRegisters |-> Gen!Null] BY <1>2 DEF Gen!SlotsFor
  <2>2. DOMAIN Gen!IntRegisters = Slots BY DEF Gen!IntRegisters, Slots
  <2>3. Gen!Null \in Int BY DEF Gen!Null, Gen!Unset
  <2> QED BY <1>2, <2>1, <2>2, <2>3 DEF Tables
<1> QED BY <1>1, <1>2

\* The next function is begun with nothing recorded of it.
LEMMA NextFuncStep ==
  ASSUME NEW p, WellFormed(p), NEW a \in Places, NEW pl, Placement(p, a, pl),
         NEW next, next = Gen!BeginFunc(a.func + 1)
  PROVE  /\ next \in Places /\ Placement(p, next, pl)
         /\ Gen!SlotsFor(p, a.func + 1) \in Tables
         /\ TableGood(p, next, Gen!SlotsFor(p, a.func + 1))
<1> DEFINE F == a.func + 1  slots == Gen!SlotsFor(p, F)
<1>1. a.func \in Nat /\ F \in Nat /\ F # 0 /\ F > a.func BY DEF Places
<1>2. next \in Places /\ next.func = F /\ next.block = 1 /\ next.instr = 0
  BY <1>1 DEF Places, Gen!BeginFunc
<1>3. slots \in Tables /\ (F \in DOMAIN p /\ Compilable(p[F]) => TableOK(p[F], 1, slots))
  <2> HIDE DEF F
  <2> QED BY <1>1, SlotsForFacts
<1>4. \A g \in DOMAIN p : g > F => g > a.func
  <2>1. DOMAIN p \subseteq Nat BY DEF WellFormed
  <2> QED BY <1>1, <2>1
<1> HIDE DEF F, slots
<1>5. Placement(p, next, pl)
  <2>1. F \in DOMAIN p => pl[F] = <<>> BY <1>1 DEF Placement
  <2>2. Len(<<>>) = 0 OBVIOUS
  <2> QED BY <1>2, <1>4, <2>1, <2>2 DEF Placement
<1>6. TableGood(p, next, slots) BY <1>2, <1>3 DEF TableGood
<1> QED BY <1>2, <1>3, <1>5, <1>6 DEF F, slots
----------------------------------------------------------------------------
\* The inductive invariant of code generation.
GenInv ==
  /\ WellFormed(prog) /\ at \in Places /\ int_slots \in Tables
  /\ Placement(prog, at, placed)
  /\ TableGood(prog, at, int_slots)
  /\ Held(prog, placed)

\* What the cases of jit_instr have in common.
Emits ==
  /\ at.func \in DOMAIN prog /\ at.block \in DOMAIN prog[at.func].blocks
  /\ at.instr \in DOMAIN prog[at.func].blocks[at.block]
  /\ \E e : e.ints = int_slots /\ placed' = [placed EXCEPT ![at.func][at.block] = Append(@, e)]
  /\ at' = [at EXCEPT !.instr = @ + 1] /\ prog' = prog

LEMMA EmitKeepsGenInv ==
  ASSUME GenInv, Emits, TableMoves(prog, at, int_slots, int_slots'), int_slots' \in Tables
  PROVE  GenInv'
<1> DEFINE f == prog[at.func]  i == f.blocks[at.block][at.instr]
<1>1. /\ WellFormed(prog) /\ at \in Places /\ int_slots \in Tables
      /\ Placement(prog, at, placed) /\ TableGood(prog, at, int_slots) /\ Held(prog, placed)
  BY DEF GenInv
<1>2. PICK e : e.ints = int_slots /\ placed' = [placed EXCEPT ![at.func][at.block] = Append(@, e)]
  BY DEF Emits
<1>3. /\ at.func \in DOMAIN prog /\ at.block \in DOMAIN f.blocks
      /\ at.instr \in DOMAIN f.blocks[at.block]
      /\ at' = [at EXCEPT !.instr = @ + 1] /\ prog' = prog
  BY DEF Emits
<1>4. at' \in Places /\ Placement(prog, at', placed') /\ Held(prog, placed')
  <2> SUFFICES ASSUME NEW next, next = at', NEW pl2, pl2 = placed'
               PROVE  next \in Places /\ Placement(prog, next, pl2) /\ Held(prog, pl2)
    OBVIOUS
  <2>1. next = [at EXCEPT !.instr = @ + 1] BY <1>3
  <2>2. pl2 = [placed EXCEPT ![at.func][at.block] = Append(@, e)] BY <1>2
  <2> QED BY <1>1, <1>2, <1>3, <2>1, <2>2, EmitStep
<1>5. TableGood(prog, at', int_slots')
  <2> SUFFICES ASSUME NEW next, next = at', NEW slots2, slots2 = int_slots'
               PROVE  TableGood(prog, next, slots2)
    OBVIOUS
  <2>1. next = [at EXCEPT !.instr = @ + 1] /\ slots2 \in Tables BY <1>3
  <2>2. TableMoves(prog, at, int_slots, slots2) OBVIOUS
  <2>3. at.block \in DOMAIN prog[at.func].blocks /\ at.instr \in DOMAIN prog[at.func].blocks[at.block]
    BY <1>3
  <2> QED BY <1>1, <1>3, <2>1, <2>2, <2>3, TableStep
<1>6. /\ WellFormed(prog') /\ at' \in Places /\ int_slots' \in Tables
      /\ Placement(prog', at', placed') /\ TableGood(prog', at', int_slots') /\ Held(prog', placed')
  BY <1>1, <1>3, <1>4, <1>5
<1> QED BY <1>6 DEF GenInv

\* Fetched and Emit, as the cases of jit_instr use them.
LEMMA FetchedFacts ==
  ASSUME NEW ops, Gen!Fetched(ops)
  PROVE  /\ at.func \in DOMAIN prog /\ at.block \in DOMAIN prog[at.func].blocks
         /\ at.instr \in DOMAIN prog[at.func].blocks[at.block]
         /\ prog[at.func].blocks[at.block][at.instr].op \in ops
BY DEF Gen!Fetched, Gen!Emitting, Gen!Finished, Gen!fn, Gen!Block, Gen!instr

LEMMA EmittedInstr ==
  ASSUME GenInv, NEW ops, Gen!Fetched(ops)
  PROVE  Gen!instr \in Instr
<1>1. /\ at.func \in DOMAIN prog /\ at.block \in DOMAIN prog[at.func].blocks
      /\ at.instr \in DOMAIN prog[at.func].blocks[at.block]
  BY FetchedFacts
<1>2. prog[at.func] \in Function BY <1>1, WellFormedFunction DEF GenInv
<1> DEFINE f == prog[at.func]
<1>3. f \in Function /\ at.block \in DOMAIN f.blocks /\ at.instr \in DOMAIN f.blocks[at.block]
  BY <1>1, <1>2
<1> HIDE DEF f
<1>4. f.blocks[at.block] \in Seq(Instr) BY <1>3 DEF Function
<1>5. f.blocks[at.block][at.instr] \in Instr BY <1>3, <1>4
<1> QED BY <1>5 DEF f, Gen!instr, Gen!Block, Gen!fn
LEMMA EmitEmits ==
  ASSUME NEW ops, Gen!Fetched(ops),
         \E n, w, x : placed' = [placed EXCEPT ![at.func][at.block] =
            Append(@, [start |-> n, ints |-> int_slots, xmms |-> w, xmms_after |-> x])],
         at' = [at EXCEPT !.instr = @ + 1], prog' = prog
  PROVE  Emits
<1>1. PICK n, w, x : placed' = [placed EXCEPT ![at.func][at.block] =
            Append(@, [start |-> n, ints |-> int_slots, xmms |-> w, xmms_after |-> x])]
  OBVIOUS
<1> DEFINE e == [start |-> n, ints |-> int_slots, xmms |-> w, xmms_after |-> x]
<1>2. e.ints = int_slots /\ placed' = [placed EXCEPT ![at.func][at.block] = Append(@, e)] BY <1>1
<1> HIDE DEF e
<1>3. \E d : d.ints = int_slots /\ placed' = [placed EXCEPT ![at.func][at.block] = Append(@, d)]
  BY <1>2
<1> QED BY <1>3, FetchedFacts DEF Emits

\* Constants and loads take a free slot.
LEMMA NewSlotStep ==
  ASSUME GenInv, Gen!ConstInt \/ Gen!Load
  PROVE  GenInv'
<1> DEFINE next == Gen!With(int_slots, Unset, Gen!instr.gen)
<1>1. Gen!Fetched(NewOps)
  BY DEF Gen!ConstInt, Gen!Load, Gen!Fetched, NewOps
<1>2. Emits
  <2>1. CASE Gen!ConstInt BY <1>1, <2>1, EmitEmits DEF Gen!ConstInt, Gen!Emit
  <2>2. CASE Gen!Load BY <1>1, <2>2, EmitEmits DEF Gen!Load, Gen!Emit
  <2> QED BY <2>1, <2>2
<1>3. int_slots' = next BY DEF Gen!ConstInt, Gen!Load, Gen!Put, Gen!Null, Gen!Unset, Unset
<1>4. next \in Tables
  <2> DEFINE g == Gen!instr.gen
  <2>1. g \in Int BY <1>1, EmittedInstr DEF Instr
  <2> HIDE DEF g
  <2>2. int_slots \in Tables BY DEF GenInv
  <2> QED BY <2>1, <2>2, WithFacts DEF g
<1>5. TableMoves(prog, at, int_slots, int_slots')
  <2>1. prog[at.func].blocks[at.block][at.instr].op \in NewOps BY <1>1, FetchedFacts
  <2> QED BY <1>3, <2>1 DEF TableMoves, Gen!instr, Gen!Block, Gen!fn
<1> QED BY <1>2, <1>3, <1>4, <1>5, EmitKeepsGenInv

LEMMA AddStep ==
  ASSUME GenInv, Gen!AddInt
  PROVE  GenInv'
<1> DEFINE next == Gen!With(int_slots, Gen!instr.left, Gen!instr.gen)
<1>1. Gen!Fetched({"ADD"}) BY DEF Gen!AddInt
<1>2. Emits BY <1>1, EmitEmits DEF Gen!AddInt, Gen!Emit
<1>3. int_slots' = next BY DEF Gen!AddInt, Gen!Put
<1>4. next \in Tables
  <2> DEFINE g == Gen!instr.gen  l == Gen!instr.left
  <2>1. g \in Int BY <1>1, EmittedInstr DEF Instr
  <2> HIDE DEF g, l
  <2>2. int_slots \in Tables BY DEF GenInv
  <2> QED BY <2>1, <2>2, WithFacts DEF g, l
<1>5. TableMoves(prog, at, int_slots, int_slots')
  <2>1. prog[at.func].blocks[at.block][at.instr].op \in {"ADD"} BY <1>1, FetchedFacts
  <2> QED BY <1>3, <2>1 DEF TableMoves, Gen!instr, Gen!Block, Gen!fn
<1> QED BY <1>2, <1>3, <1>4, <1>5, EmitKeepsGenInv

LEMMA KeepStep ==
  ASSUME GenInv, Gen!Store \/ Gen!Ret \/ Gen!RetVoid
  PROVE  GenInv'
<1>1. Gen!Fetched({"STORE", "RET", "RET_VOID"})
  BY DEF Gen!Store, Gen!Ret, Gen!RetVoid, Gen!Fetched
<1>2. Emits
  <2>1. CASE Gen!Store BY <1>1, <2>1, EmitEmits DEF Gen!Store, Gen!Emit
  <2>2. CASE Gen!Ret BY <1>1, <2>2, EmitEmits DEF Gen!Ret, Gen!Emit
  <2>3. CASE Gen!RetVoid BY <1>1, <2>3, EmitEmits DEF Gen!RetVoid, Gen!Emit
  <2> QED BY <2>1, <2>2, <2>3
<1>3. int_slots' = int_slots BY DEF Gen!Store, Gen!Ret, Gen!RetVoid, Gen!SameTables
<1>4. int_slots' \in Tables BY <1>3 DEF GenInv
<1>5. TableMoves(prog, at, int_slots, int_slots') BY <1>1, <1>3, FetchedFacts DEF TableMoves
<1> QED BY <1>2, <1>4, <1>5, EmitKeepsGenInv

\* Instructions that no compilable function has.
LEMMA OtherStep ==
  ASSUME GenInv, Gen!CallPtr \/ Gen!CallFunc \/ Gen!Br \/ Gen!CondBr \/ Gen!Skipped
  PROVE  GenInv'
<1> DEFINE Ops == {"CALL_PTR", "CALL_FUNC", "BR", "COND_BR", "NOT", "CONST_I16", "CONST_I8"}
                  \cup (BinaryOps \ {"ADD"})
<1>1. Gen!Fetched(Ops)
  BY DEF Gen!CallPtr, Gen!CallFunc, Gen!Br, Gen!CondBr, Gen!Skipped, Gen!Fetched,
         Gen!BinaryOps, Gen!ArithOps, Gen!DivideOps, Gen!CompareOps,
         BinaryOps, ArithOps, DivideOps, CompareOps
<1> HIDE DEF Ops
<1>2. Emits
  <2>1. CASE Gen!CallPtr BY <1>1, <2>1, EmitEmits DEF Gen!CallPtr, Gen!Emit
  <2>2. CASE Gen!CallFunc BY <1>1, <2>2, EmitEmits DEF Gen!CallFunc, Gen!Emit
  <2>3. CASE Gen!Br BY <1>1, <2>3, EmitEmits DEF Gen!Br, Gen!Emit
  <2>4. CASE Gen!CondBr BY <1>1, <2>4, EmitEmits DEF Gen!CondBr, Gen!Emit
  <2>5. CASE Gen!Skipped BY <1>1, <2>5, EmitEmits DEF Gen!Skipped, Gen!Emit
  <2> QED BY <2>1, <2>2, <2>3, <2>4, <2>5
<1>3. int_slots' \in Tables
  <2> DEFINE g == Gen!instr.gen
  <2>1. g \in Int BY <1>1, EmittedInstr DEF Instr
  <2>2. int_slots' = int_slots \/ int_slots' = Gen!With(int_slots, Gen!Null, g)
    BY DEF Gen!CallPtr, Gen!CallFunc, Gen!Br, Gen!CondBr, Gen!Skipped, Gen!SameTables,
           Gen!PutResult, Gen!Put
  <2> HIDE DEF g
  <2>3. int_slots \in Tables BY DEF GenInv
  <2> QED BY <2>1, <2>2, <2>3, WithFacts
<1>4. TableMoves(prog, at, int_slots, int_slots')
  <2>1. prog[at.func].blocks[at.block][at.instr].op \in Ops BY <1>1, FetchedFacts
  <2>2. Ops \cap ({"ADD", "STORE", "RET", "RET_VOID"} \cup NewOps) = {}
    BY DEF Ops, NewOps, BinaryOps, ArithOps, DivideOps, CompareOps
  <2> QED BY <2>1, <2>2 DEF TableMoves
<1> QED BY <1>2, <1>3, <1>4, EmitKeepsGenInv

\* Decimals go to the other table.
LEMMA XmmStep ==
  ASSUME GenInv, Gen!ConstXmm \/ Gen!AddXmm
  PROVE  GenInv'
<1>1. Gen!Fetched({"CONST_I32", "CONST_I64", "ADD"})
  BY DEF Gen!ConstXmm, Gen!AddXmm, Gen!Fetched
<1>2. Emits
  <2>1. CASE Gen!ConstXmm BY <1>1, <2>1, EmitEmits DEF Gen!ConstXmm, Gen!Emit
  <2>2. CASE Gen!AddXmm BY <1>1, <2>2, EmitEmits DEF Gen!AddXmm, Gen!Emit
  <2> QED BY <2>1, <2>2
<1>3. int_slots' = int_slots BY DEF Gen!ConstXmm, Gen!AddXmm, Gen!Put
<1>4. int_slots' \in Tables BY <1>3 DEF GenInv
<1>5. TableMoves(prog, at, int_slots, int_slots')
  <2>1. CASE Gen!ConstXmm
    <3>1. Gen!Fetched({"CONST_I32", "CONST_I64"}) /\ Gen!Decimal(Gen!instr.gen) BY <2>1 DEF Gen!ConstXmm
    <3>2. prog[at.func].blocks[at.block][at.instr].op \in GenOps
      BY <3>1, FetchedFacts DEF GenOps, Opcodes, ConstOps
    <3> QED BY <3>1, <3>2 DEF TableMoves, Gen!Decimal, Gen!TypeOf, TypeOf, Gen!instr, Gen!Block, Gen!fn
  <2>2. CASE Gen!AddXmm
    <3>1. Gen!Fetched({"ADD"}) /\ Gen!Decimal(Gen!instr.left) BY <2>2 DEF Gen!AddXmm
    <3>2. prog[at.func].blocks[at.block][at.instr].op \in LeftOps
      BY <3>1, FetchedFacts DEF LeftOps, BinaryOps, ArithOps
    <3> QED BY <3>1, <3>2 DEF TableMoves, Gen!Decimal, Gen!TypeOf, TypeOf, Gen!instr, Gen!Block, Gen!fn
  <2> QED BY <2>1, <2>2
<1> QED BY <1>2, <1>4, <1>5, EmitKeepsGenInv
----------------------------------------------------------------------------
LEMMA GenInvInit == InitBoth => GenInv
<1> SUFFICES ASSUME InitBoth PROVE GenInv
  OBVIOUS
<1>1. Init /\ Gen!Init BY DEF InitBoth
<1>2. WellFormed(prog)
  <2>1. PICK s \in Starts : prog = s.prog BY <1>1 DEF Init
  <2> QED BY <2>1, StartsAssumption DEF StartOK
<1>3. /\ at = Gen!BeginFunc(1) /\ int_slots = Gen!SlotsFor(prog, 1)
      /\ placed = [f \in DOMAIN prog |-> <<>>]
  BY <1>1 DEF Gen!Init
<1>4. at = [func |-> 1, block |-> 1, instr |-> 0] BY <1>3 DEF Gen!BeginFunc
<1>5. /\ at \in Places /\ at.func = 1 /\ at.block = 1 /\ at.instr = 0 BY <1>4 DEF Places
<1>6. int_slots \in Tables /\ TableGood(prog, at, int_slots)
  BY <1>2, <1>3, <1>5, SlotsForFacts DEF TableGood
<1>7. Placement(prog, at, placed)
  <2>1. <<>> \in Seq(Seq({})) OBVIOUS
  <2>2. Blocks(<<>>) BY <2>1 DEF Blocks
  <2>3. Len(<<>>) = 0 OBVIOUS
  <2>4. \A f \in DOMAIN prog : placed[f] = <<>> BY <1>3
  <2>5. placed = [f \in DOMAIN prog |-> placed[f]] BY <1>3
  <2> QED BY <1>5, <2>2, <2>3, <2>4, <2>5 DEF Placement
<1>8. Held(prog, placed)
  <2>1. \A f \in DOMAIN prog : DOMAIN placed[f] = {} BY <1>3
  <2> QED BY <2>1 DEF Held
<1> QED BY <1>2, <1>5, <1>6, <1>7, <1>8 DEF GenInv

\* The generator, one step at a time.
LEMMA GenerateStep ==
  ASSUME GenInv, Gen!Generate
  PROVE  GenInv'
<1>0. /\ WellFormed(prog) /\ at \in Places /\ int_slots \in Tables
      /\ Placement(prog, at, placed) /\ TableGood(prog, at, int_slots) /\ Held(prog, placed)
  BY DEF GenInv
<1>1. CASE Gen!StartBlock
  <2>1. /\ at.func \in DOMAIN prog /\ at.block \in DOMAIN prog[at.func].blocks /\ at.instr = 0
        /\ placed' = [placed EXCEPT ![at.func] = Append(@, <<>>)]
        /\ at' = [at EXCEPT !.instr = 1] /\ prog' = prog /\ int_slots' = int_slots
    BY <1>1 DEF Gen!StartBlock, Gen!Emitting, Gen!Finished, Gen!fn
  <2>2. at' \in Places /\ Placement(prog, at', placed') /\ TableGood(prog, at', int_slots)
        /\ Held(prog, placed')
    <3> SUFFICES ASSUME NEW next, next = at', NEW pl2, pl2 = placed'
                 PROVE  /\ next \in Places /\ Placement(prog, next, pl2)
                        /\ TableGood(prog, next, int_slots) /\ Held(prog, pl2)
      OBVIOUS
    <3>1. next = [at EXCEPT !.instr = 1] /\ pl2 = [placed EXCEPT ![at.func] = Append(@, <<>>)]
      BY <2>1
    <3> QED BY <1>0, <2>1, <3>1, StartBlockStep
  <2> QED BY <1>0, <2>1, <2>2 DEF GenInv
<1>2. CASE Gen!EndBlock
  <2>1. /\ at.func \in DOMAIN prog /\ at.block \in DOMAIN prog[at.func].blocks
        /\ at.instr = Len(prog[at.func].blocks[at.block]) + 1
        /\ at' = [at EXCEPT !.block = @ + 1, !.instr = 0]
        /\ prog' = prog /\ int_slots' = int_slots /\ placed' = placed
    BY <1>2 DEF Gen!EndBlock, Gen!Emitting, Gen!Finished, Gen!fn, Gen!Block
  <2>2. at.instr # 0
    <3>1. prog[at.func] \in Function BY <1>0, <2>1, WellFormedFunction
    <3> DEFINE f == prog[at.func]  b == f.blocks[at.block]
    <3>2. f.blocks \in Seq(Seq(Instr)) BY <3>1 DEF Function
    <3>3. b \in Seq(Instr)
      <4> HIDE DEF f
      <4> QED BY <2>1, <3>2 DEF f
    <3>4. Len(b) \in Nat
      <4> HIDE DEF b
      <4> QED BY <3>3
    <3> HIDE DEF b
    <3>5. at.instr = Len(b) + 1 BY <2>1 DEF b
    <3> QED BY <3>4, <3>5
  <2>3. at' \in Places /\ Placement(prog, at', placed) /\ TableGood(prog, at', int_slots)
    <3> SUFFICES ASSUME NEW next, next = at'
                 PROVE  next \in Places /\ Placement(prog, next, placed) /\ TableGood(prog, next, int_slots)
      OBVIOUS
    <3>1. next = [at EXCEPT !.block = @ + 1, !.instr = 0] BY <2>1
    <3> QED BY <1>0, <2>1, <2>2, <3>1, EndBlockStep
  <2> QED BY <1>0, <2>1, <2>3 DEF GenInv
<1>3. CASE Gen!CallPtrOverrun \/ Gen!ReplaceOffset
  <2>1. prog' = prog /\ at' = at /\ int_slots' = int_slots /\ placed' = placed
    BY <1>3 DEF Gen!CallPtrOverrun, Gen!ReplaceOffset
  <2> QED BY <1>0, <2>1 DEF GenInv
<1>4. CASE Gen!NextFunc
  <2>1. /\ prog' = prog /\ placed' = placed /\ at' = Gen!BeginFunc(at.func + 1)
        /\ int_slots' = Gen!SlotsFor(prog, at.func + 1)
    BY <1>4 DEF Gen!NextFunc, Gen!Put
  <2>2. at' \in Places /\ Placement(prog, at', placed)
        /\ int_slots' \in Tables /\ TableGood(prog, at', int_slots')
    <3> SUFFICES ASSUME NEW next, next = at'
                 PROVE  /\ next \in Places /\ Placement(prog, next, placed)
                        /\ int_slots' \in Tables /\ TableGood(prog, next, int_slots')
      OBVIOUS
    <3>1. next = Gen!BeginFunc(at.func + 1) BY <2>1
    <3> QED BY <1>0, <2>1, <3>1, NextFuncStep
  <2> QED BY <1>0, <2>1, <2>2 DEF GenInv
<1>5. CASE Gen!ConstInt \/ Gen!Load BY <1>5, NewSlotStep
<1>6. CASE Gen!AddInt BY <1>6, AddStep
<1>7. CASE Gen!Store \/ Gen!Ret \/ Gen!RetVoid BY <1>7, KeepStep
<1>8. CASE Gen!CallPtr \/ Gen!CallFunc \/ Gen!Br \/ Gen!CondBr \/ Gen!Skipped BY <1>8, OtherStep
<1>9. CASE Gen!ConstXmm \/ Gen!AddXmm BY <1>9, XmmStep
<1> QED BY <1>1, <1>2, <1>3, <1>4, <1>5, <1>6, <1>7, <1>8, <1>9 DEF Gen!Generate, Gen!jit_instr

LEMMA ExecuteKeepsProg == Execute => prog' = prog
BY DEF Execute, Const, Binary, Trap, Not, Load, Store, Br, CondBr, CallPtr, CallFunc, Ret, RetVoid,
       RetFromEntry, FrameOverflow, PoolOverflow, BadAccess, ReturnWith, Stop, SameCall

LEMMA GenInvNext == GenInv /\ [NextBoth]_both => GenInv'
<1> SUFFICES ASSUME GenInv, [NextBoth]_both PROVE GenInv'
  OBVIOUS
<1>1. CASE Generate BY <1>1, GenerateStep DEF Generate
<1>2. CASE Link \/ Lockstep \/ End \/ UNCHANGED both
  <2>1. prog' = prog /\ at' = at /\ int_slots' = int_slots /\ placed' = placed
    <3>1. CASE Link BY <3>1 DEF Link, vars, gen_vars
    <3>2. CASE Lockstep BY <3>2, ExecuteKeepsProg DEF Lockstep, gen_vars
    <3>3. CASE End \/ UNCHANGED both BY <3>3 DEF End, both, vars, gen_vars
    <3> QED BY <1>2, <3>1, <3>2, <3>3
  <2> QED BY <2>1 DEF GenInv
<1> QED BY <1>1, <1>2 DEF NextBoth

(***************************************************************************)
(* In a function of one block of integer operations, with at most four     *)
(* arguments, no more values that take a slot than there are, and no value *)
(* used after an add has overwritten it, the register allocator has every  *)
(* value in its table when an instruction that uses it is emitted: no      *)
(* operand is encoded as register 0 for want of a slot.                    *)
(***************************************************************************)
THEOREM EveryUsedValueHasARegister == SpecBoth => []UsedValuesHeld
<1>1. InitBoth => GenInv BY GenInvInit
<1>2. GenInv /\ [NextBoth]_both => GenInv' BY GenInvNext
<1>3. GenInv => UsedValuesHeld BY DEF GenInv, Held, UsedValuesHeld
<1> QED BY <1>1, <1>2, <1>3, PTL DEF SpecBoth

----------------------------------------------------------------------------
(***************************************************************************)
(* Sequences of whatever elements.                                         *)
(***************************************************************************)
IsSeq(s) == \E S : s \in Seq(S)

LEMMA IsSeqDomain ==
  ASSUME NEW s, IsSeq(s)
  PROVE  Len(s) \in Nat /\ DOMAIN s = 1 .. Len(s)
<1>1. PICK S : s \in Seq(S) BY DEF IsSeq
<1> QED BY <1>1, LenProperties

LEMMA IsSeqFunction ==
  ASSUME NEW n \in Nat, NEW s, DOMAIN s = 1 .. n, s = [k \in DOMAIN s |-> s[k]]
  PROVE  IsSeq(s) /\ Len(s) = n
<1> DEFINE S == {s[k] : k \in 1 .. n}
<1>1. s \in [1 .. n -> S] OBVIOUS
<1> HIDE DEF S
<1>2. s \in Seq(S) /\ Len(s) = n BY <1>1, SeqOfFunction
<1> QED BY <1>2 DEF IsSeq

LEMMA IsSeqConcat ==
  ASSUME NEW s, IsSeq(s), NEW t, IsSeq(t)
  PROVE  /\ IsSeq(s \o t) /\ Len(s \o t) = Len(s) + Len(t)
         /\ \A k \in 1 .. Len(s) : (s \o t)[k] = s[k]
         /\ \A k \in 1 .. Len(t) : (s \o t)[Len(s) + k] = t[k]
<1>1. PICK S : s \in Seq(S) BY DEF IsSeq
<1>2. PICK T : t \in Seq(T) BY DEF IsSeq
<1> DEFINE U == S \cup T
<1>3. s \in Seq(U) /\ t \in Seq(U) BY <1>1, <1>2, SeqMonotonic
<1> HIDE DEF U
<1>4. s \o t \in Seq(U) /\ Len(s \o t) = Len(s) + Len(t) BY <1>3, ConcatProperties
<1>5. Len(s) \in Nat /\ Len(t) \in Nat BY <1>3, LenProperties
<1>6. ASSUME NEW k \in 1 .. Len(s) PROVE (s \o t)[k] = s[k]
  <2>1. k \in 1 .. Len(s) + Len(t) /\ k <= Len(s) BY <1>5
  <2> QED BY <1>3, <2>1, ConcatProperties
<1>7. ASSUME NEW k \in 1 .. Len(t) PROVE (s \o t)[Len(s) + k] = t[k]
  <2>1. Len(s) + k \in 1 .. Len(s) + Len(t) /\ ~(Len(s) + k <= Len(s)) /\ Len(s) + k - Len(s) = k BY <1>5
  <2> QED BY <1>3, <2>1, ConcatProperties
<1> QED BY <1>4, <1>6, <1>7 DEF IsSeq

LEMMA IsSeqAppend ==
  ASSUME NEW s, IsSeq(s), NEW e
  PROVE  /\ IsSeq(Append(s, e)) /\ Len(Append(s, e)) = Len(s) + 1
         /\ \A k \in 1 .. Len(s) : Append(s, e)[k] = s[k]
         /\ Append(s, e)[Len(s) + 1] = e
<1>1. PICK S : s \in Seq(S) BY DEF IsSeq
<1> DEFINE T == S \cup {e}
<1>2. s \in Seq(T) /\ e \in T BY <1>1, SeqMonotonic
<1> HIDE DEF T
<1>3. /\ Append(s, e) \in Seq(T) /\ Len(Append(s, e)) = Len(s) + 1
      /\ \A k \in 1 .. Len(s) : Append(s, e)[k] = s[k]
      /\ Append(s, e)[Len(s) + 1] = e
  BY <1>2, AppendProperties
<1> QED BY <1>3 DEF IsSeq

LEMMA IsSeqTail ==
  ASSUME NEW s, IsSeq(s), s # <<>>
  PROVE  /\ Len(s) >= 1 /\ Head(s) = s[1] /\ IsSeq(Tail(s)) /\ Len(Tail(s)) = Len(s) - 1
         /\ \A k \in 1 .. Len(s) - 1 : Tail(s)[k] = s[k + 1]
<1>1. PICK S : s \in Seq(S) BY DEF IsSeq
<1>2. Tail(s) \in Seq(S) /\ Len(Tail(s)) = Len(s) - 1 BY <1>1, HeadTailProperties
<1>3. \A k \in 1 .. Len(s) - 1 : Tail(s)[k] = s[k + 1] BY <1>1
<1>4. Len(s) >= 1 /\ Head(s) = s[1] BY <1>1
<1> QED BY <1>2, <1>3, <1>4 DEF IsSeq

----------------------------------------------------------------------------
(***************************************************************************)
(* What is written for one instruction is a sequence of bytes, and long    *)
(* enough for the numbers in it that are filled in later.                  *)
(***************************************************************************)
\* The recursive function of FlattenSeq, up to m.
Flat(g, x, l) ==
  g = [i \in 1 .. l |-> IF i = 1 THEN x[i] ELSE g[i - 1] \o x[i]]

LEMMA FlatExists ==
  ASSUME NEW x, NEW n \in Nat
  PROVE  \E g : Flat(g, x, n)
<1> DEFINE Bad == {l \in Nat : ~ \E g : Flat(g, x, l)}
<1>1. SUFFICES ASSUME Bad # {} PROVE FALSE OBVIOUS
<1>2. PICK l \in Bad : \A y \in Bad : l <= y
  <2>1. Bad \subseteq Nat OBVIOUS
  <2> HIDE DEF Bad
  <2> QED BY <1>1, <2>1, LeastNat
<1>3. l \in Nat /\ ~ \E g : Flat(g, x, l) OBVIOUS
<1>4. CASE l = 0
  <2> DEFINE g == [i \in 1 .. 0 |-> x[i]]
  <2>1. g = [i \in 1 .. 0 |-> IF i = 1 THEN x[i] ELSE g[i - 1] \o x[i]] OBVIOUS
  <2> QED BY <1>3, <1>4, <2>1 DEF Flat
<1>5. CASE l # 0
  <2>1. l - 1 \in Nat /\ ~(l <= l - 1) BY <1>3, <1>5
  <2>2. l - 1 \notin Bad
    <3> HIDE DEF Bad
    <3> QED BY <1>2, <2>1
  <2>3. PICK g : Flat(g, x, l - 1) BY <2>1, <2>2
  <2> DEFINE h == [i \in 1 .. l |-> IF i < l THEN g[i] ELSE IF i = 1 THEN x[i] ELSE g[i - 1] \o x[i]]
  <2>4. \A i \in 1 .. l : h[i] = IF i = 1 THEN x[i] ELSE h[i - 1] \o x[i]
    <3>1. TAKE i \in 1 .. l
    <3>2. \A j \in 1 .. l : j < l => h[j] = g[j] OBVIOUS
    <3>3. i # 1 => i - 1 \in 1 .. l /\ i - 1 < l BY <1>3
    <3>4. CASE i < l
      <4>1. i \in 1 .. l - 1 BY <1>3, <3>4
      <4>2. g[i] = IF i = 1 THEN x[i] ELSE g[i - 1] \o x[i] BY <2>3, <4>1 DEF Flat
      <4> QED BY <3>2, <3>3, <3>4, <4>2
    <3>5. CASE ~(i < l)
      <4>1. h[i] = IF i = 1 THEN x[i] ELSE g[i - 1] \o x[i] BY <3>5
      <4> QED BY <3>2, <3>3, <4>1
    <3> QED BY <3>4, <3>5
  <2>5. h = [i \in 1 .. l |-> h[i]] OBVIOUS
  <2> HIDE DEF h
  <2>6. h = [i \in 1 .. l |-> IF i = 1 THEN x[i] ELSE h[i - 1] \o x[i]] BY <2>4, <2>5
  <2> QED BY <1>3, <2>6 DEF Flat
<1> QED BY <1>4, <1>5

LEMMA FlattenIsSeq ==
  ASSUME NEW x, IsSeq(x), \A k \in 1 .. Len(x) : IsSeq(x[k])
  PROVE  IsSeq(Gen!FlattenSeq(x))
<1> DEFINE n == Len(x)
<1>1. n \in Nat BY IsSeqDomain
<1>2. CASE n = 0
  <2>1. Gen!FlattenSeq(x) = x BY <1>2 DEF Gen!FlattenSeq
  <2> QED BY <2>1
<1>3. CASE n # 0
  <2> DEFINE g == CHOOSE g : Flat(g, x, n)
  <2>1. Gen!FlattenSeq(x) = g[n] BY <1>3 DEF Gen!FlattenSeq, Flat
  <2>2. Flat(g, x, n)
    <3> HIDE DEF n
    <3> QED BY <1>1, FlatExists
  <2> HIDE DEF g
  <2> DEFINE Bad == {k \in 1 .. n : ~IsSeq(g[k])}
  <2>3. SUFFICES ASSUME Bad # {} PROVE FALSE
    <3>1. n \in 1 .. n BY <1>1, <1>3
    <3> HIDE DEF n
    <3> QED BY <2>1, <3>1
  <2>4. PICK k \in Bad : \A y \in Bad : k <= y
    <3>1. Bad \subseteq Nat OBVIOUS
    <3> HIDE DEF Bad
    <3> QED BY <2>3, <3>1, LeastNat
  <2>5. k \in 1 .. n /\ ~IsSeq(g[k]) OBVIOUS
  <2>6. g[k] = IF k = 1 THEN x[k] ELSE g[k - 1] \o x[k] BY <2>2, <2>5 DEF Flat
  <2>7. IsSeq(x[k]) BY <2>5
  <2>8. CASE k # 1
    <3>1. k - 1 \in 1 .. n /\ ~(k <= k - 1) BY <1>1, <2>5, <2>8
    <3>2. k - 1 \notin Bad
      <4> HIDE DEF Bad
      <4> QED BY <2>4, <3>1
    <3>3. IsSeq(g[k - 1]) BY <3>1, <3>2
    <3> QED BY <2>5, <2>6, <2>7, <2>8, <3>3, IsSeqConcat
  <2> QED BY <2>5, <2>6, <2>7, <2>8
<1> QED BY <1>2, <1>3

LEMMA TuplesAreSeqs ==
  /\ IsSeq(<<>>) /\ Len(<<>>) = 0
  /\ \A a : IsSeq(<<a>>) /\ Len(<<a>>) = 1
  /\ \A a, b : IsSeq(<<a, b>>) /\ Len(<<a, b>>) = 2
  /\ \A a, b, c : IsSeq(<<a, b, c>>) /\ Len(<<a, b, c>>) = 3
  /\ \A a, b, c, d : IsSeq(<<a, b, c, d>>) /\ Len(<<a, b, c, d>>) = 4
  /\ \A a, b, c, d, e : IsSeq(<<a, b, c, d, e>>) /\ Len(<<a, b, c, d, e>>) = 5
<1>0. IsSeq(<<>>) /\ Len(<<>>) = 0
  <2>1. <<>> \in Seq({}) OBVIOUS
  <2> QED BY <2>1 DEF IsSeq
<1>1. \A a : IsSeq(<<a>>) /\ Len(<<a>>) = 1
  <2>1. \A a : <<a>> \in Seq({a}) OBVIOUS
  <2> QED BY <2>1 DEF IsSeq
<1>2. \A a, b : IsSeq(<<a, b>>) /\ Len(<<a, b>>) = 2
  <2>1. \A a, b : <<a, b>> \in Seq({a, b}) OBVIOUS
  <2> QED BY <2>1 DEF IsSeq
<1>3. \A a, b, c : IsSeq(<<a, b, c>>) /\ Len(<<a, b, c>>) = 3
  <2>1. \A a, b, c : <<a, b, c>> \in Seq({a, b, c}) OBVIOUS
  <2> QED BY <2>1 DEF IsSeq
<1>4. \A a, b, c, d : IsSeq(<<a, b, c, d>>) /\ Len(<<a, b, c, d>>) = 4
  <2>1. \A a, b, c, d : <<a, b, c, d>> \in Seq({a, b, c, d}) OBVIOUS
  <2> QED BY <2>1 DEF IsSeq
<1>5. \A a, b, c, d, e : IsSeq(<<a, b, c, d, e>>) /\ Len(<<a, b, c, d, e>>) = 5
  <2>1. \A a, b, c, d, e : <<a, b, c, d, e>> \in Seq({a, b, c, d, e}) OBVIOUS
  <2> QED BY <2>1 DEF IsSeq
<1> QED BY <1>0, <1>1, <1>2, <1>3, <1>4, <1>5

LEMMA OpcodeIsSeq ==
  ASSUME NEW b, IsSeq(b)
  PROVE  IsSeq(Gen!Opcode(b)) /\ Len(Gen!Opcode(b)) = Len(b)
<1> DEFINE o == Gen!Opcode(b)  n == Len(b)
<1>1. n \in Nat /\ DOMAIN b = 1 .. n BY IsSeqDomain
<1>2. DOMAIN o = 1 .. n /\ o = [k \in DOMAIN o |-> o[k]] BY <1>1 DEF Gen!Opcode
<1> HIDE DEF o, n
<1>3. IsSeq(o) /\ Len(o) = n BY <1>1, <1>2, IsSeqFunction
<1> QED BY <1>3 DEF o, n

LEMMA NumberIsSeq ==
  ASSUME NEW v, NEW n \in Nat
  PROVE  IsSeq(Gen!Number(v, n)) /\ Len(Gen!Number(v, n)) = n
<1> DEFINE o == Gen!Number(v, n)
<1>1. DOMAIN o = 1 .. n /\ o = [k \in DOMAIN o |-> o[k]] BY DEF Gen!Number
<1> HIDE DEF o
<1>2. IsSeq(o) /\ Len(o) = n BY <1>1, IsSeqFunction
<1> QED BY <1>2 DEF o

LEMMA MovesAreSeqs ==
  /\ \A a, b : IsSeq(Gen!write_mov_reg_to_mem(a, b))
  /\ \A a, b : IsSeq(Gen!write_mov_mem_to_reg(a, b))
  /\ \A a, b : IsSeq(Gen!write_mov_reg_to_reg(a, b))
  /\ \A a, b : IsSeq(Gen!write_mov_xmm_to_xmm(a, b))
  /\ \A a, b : IsSeq(Gen!write_add_reg_to_reg(a, b))
  /\ \A a, b : IsSeq(Gen!write_add_xmm_to_xmm(a, b))
  /\ \A a, v : IsSeq(Gen!write_mov_reg_int64(a, v)) /\ Len(Gen!write_mov_reg_int64(a, v)) = 10
  /\ \A a, v : IsSeq(Gen!write_mov_xmm_f64(a, v))
<1>1. \A a, b : IsSeq(Gen!write_mov_reg_to_mem(a, b))
  BY TuplesAreSeqs, OpcodeIsSeq DEF Gen!write_mov_reg_to_mem
<1>2. \A a, b : IsSeq(Gen!write_mov_mem_to_reg(a, b))
  BY TuplesAreSeqs, OpcodeIsSeq DEF Gen!write_mov_mem_to_reg
<1>3. \A a, b : IsSeq(Gen!write_mov_reg_to_reg(a, b))
  BY TuplesAreSeqs, OpcodeIsSeq DEF Gen!write_mov_reg_to_reg
<1>4. \A a, b : IsSeq(Gen!write_mov_xmm_to_xmm(a, b))
  <2>1. TAKE a, b
  <2> DEFINE rex == Gen!Opcode(<<\h40 + 4 * Gen!High(b) + Gen!High(a)>>)
             mov == Gen!Opcode(<<\h0F, \h28, Gen!ModRM(3, b, a)>>)
  <2>2. IsSeq(rex) /\ IsSeq(mov) /\ IsSeq(<<>>) BY TuplesAreSeqs, OpcodeIsSeq
  <2>3. \/ Gen!write_mov_xmm_to_xmm(a, b) = <<>>
        \/ Gen!write_mov_xmm_to_xmm(a, b) = rex \o mov
        \/ Gen!write_mov_xmm_to_xmm(a, b) = <<>> \o mov
    BY DEF Gen!write_mov_xmm_to_xmm
  <2> HIDE DEF rex, mov
  <2> QED BY <2>2, <2>3, IsSeqConcat
<1>5. \A a, b : IsSeq(Gen!write_add_reg_to_reg(a, b))
  BY TuplesAreSeqs, OpcodeIsSeq DEF Gen!write_add_reg_to_reg
<1>6. \A a, b : IsSeq(Gen!write_add_xmm_to_xmm(a, b))
  BY TuplesAreSeqs, OpcodeIsSeq DEF Gen!write_add_xmm_to_xmm
<1>7. \A a, v : IsSeq(Gen!write_mov_reg_int64(a, v)) /\ Len(Gen!write_mov_reg_int64(a, v)) = 10
  <2>1. TAKE a, v
  <2> DEFINE mov == Gen!Opcode(<<\h48, \hB8 + Gen!Low(a)>>)  number == Gen!Number(v, 8)
  <2>2. IsSeq(mov) /\ Len(mov) = 2 BY TuplesAreSeqs, OpcodeIsSeq
  <2>3. IsSeq(number) /\ Len(number) = 8 BY NumberIsSeq
  <2>4. Gen!write_mov_reg_int64(a, v) = mov \o number BY DEF Gen!write_mov_reg_int64
  <2> HIDE DEF mov, number
  <2>5. IsSeq(mov \o number) /\ Len(mov \o number) = Len(mov) + Len(number) BY <2>2, <2>3, IsSeqConcat
  <2> QED BY <2>2, <2>3, <2>4, <2>5
<1>8. \A a, v : IsSeq(Gen!write_mov_xmm_f64(a, v))
  <2>1. TAKE a, v
  <2> DEFINE first == Gen!write_mov_reg_int64(Gen!RAX, v)  second == Gen!write_mov_reg_to_xmm(Gen!RAX, a)
  <2>2. IsSeq(first) BY <1>7
  <2>3. IsSeq(second) BY TuplesAreSeqs, OpcodeIsSeq DEF Gen!write_mov_reg_to_xmm
  <2>4. Gen!write_mov_xmm_f64(a, v) = first \o second BY DEF Gen!write_mov_xmm_f64
  <2> HIDE DEF first, second
  <2> QED BY <2>2, <2>3, <2>4, IsSeqConcat
<1> QED BY <1>1, <1>2, <1>3, <1>4, <1>5, <1>6, <1>7, <1>8

LEMMA CallsAreSeqs ==
  /\ \A saved : IsSeq(Gen!PushOf(saved)) /\ IsSeq(Gen!PopOf(saved))
  /\ IsSeq(Gen!push_shadow) /\ IsSeq(Gen!pop_shadow) /\ IsSeq(Gen!write_ret)
  /\ \A a : IsSeq(Gen!write_call_indirect(a)) /\ Len(Gen!write_call_indirect(a)) = 3
  /\ IsSeq(Gen!write_call_direct) /\ Len(Gen!write_call_direct) = 13
  /\ IsSeq(Gen!write_jmp) /\ Len(Gen!write_jmp) = 5
  /\ \A a : IsSeq(Gen!write_cond_jmp(a)) /\ Len(Gen!write_cond_jmp(a)) = 10
<1>1. \A a : IsSeq(Gen!write_push_reg(a)) /\ IsSeq(Gen!write_pop_reg(a))
  BY TuplesAreSeqs, OpcodeIsSeq DEF Gen!write_push_reg, Gen!write_pop_reg
<1>2. \A a : IsSeq(Gen!write_push_xmm(a)) /\ IsSeq(Gen!write_pop_xmm(a))
  <2>1. TAKE a
  <2> DEFINE sub == Gen!Opcode(<<\h48, \h83, \hEC, \h10>>)
             to == Gen!Opcode(<<\h48, \h0F, \h29, Gen!Or(\h04, 8 * a)>>)
             from == Gen!Opcode(<<\h48, \h0F, \h28, Gen!Or(\h04, 8 * a)>>)
             plus == Gen!Opcode(<<\h48, \h83, \hC4, \h10>>)
  <2>2. IsSeq(sub) /\ IsSeq(to) /\ IsSeq(from) /\ IsSeq(plus) BY TuplesAreSeqs, OpcodeIsSeq
  <2>3. Gen!write_push_xmm(a) = sub \o to /\ Gen!write_pop_xmm(a) = from \o plus
    BY DEF Gen!write_push_xmm, Gen!write_pop_xmm
  <2> HIDE DEF sub, to, from, plus
  <2> QED BY <2>2, <2>3, IsSeqConcat
<1>3. \A saved : IsSeq(Gen!PushOf(saved)) /\ IsSeq(Gen!PopOf(saved))
  BY <1>1, <1>2 DEF Gen!PushOf, Gen!PopOf
<1>4. IsSeq(Gen!push_shadow) /\ IsSeq(Gen!pop_shadow) /\ IsSeq(Gen!write_ret)
  BY TuplesAreSeqs, OpcodeIsSeq DEF Gen!push_shadow, Gen!pop_shadow, Gen!write_ret
<1>5. \A a : IsSeq(Gen!write_call_indirect(a)) /\ Len(Gen!write_call_indirect(a)) = 3
  BY TuplesAreSeqs, OpcodeIsSeq DEF Gen!write_call_indirect
<1>6. IsSeq(Gen!write_call_direct) /\ Len(Gen!write_call_direct) = 13
  <2> DEFINE first == Gen!write_mov_reg_int64(Gen!RAX, 0)  second == Gen!write_call_indirect(Gen!RAX)
  <2>1. IsSeq(first) /\ Len(first) = 10 BY MovesAreSeqs
  <2>2. IsSeq(second) /\ Len(second) = 3 BY <1>5
  <2>3. Gen!write_call_direct = first \o second BY DEF Gen!write_call_direct
  <2> HIDE DEF first, second
  <2>4. IsSeq(first \o second) /\ Len(first \o second) = Len(first) + Len(second)
    BY <2>1, <2>2, IsSeqConcat
  <2> QED BY <2>1, <2>2, <2>3, <2>4
<1>7. IsSeq(Gen!write_jmp) /\ Len(Gen!write_jmp) = 5
  <2> DEFINE first == Gen!Opcode(<<\hE9>>)  second == Gen!Number(0, 4)
  <2>1. IsSeq(first) /\ Len(first) = 1 BY TuplesAreSeqs, OpcodeIsSeq
  <2>2. IsSeq(second) /\ Len(second) = 4 BY NumberIsSeq
  <2>3. Gen!write_jmp = first \o second BY DEF Gen!write_jmp
  <2> HIDE DEF first, second
  <2>4. IsSeq(first \o second) /\ Len(first \o second) = Len(first) + Len(second)
    BY <2>1, <2>2, IsSeqConcat
  <2> QED BY <2>1, <2>2, <2>3, <2>4
<1>8. \A a : IsSeq(Gen!write_cond_jmp(a)) /\ Len(Gen!write_cond_jmp(a)) = 10
  <2>0. TAKE a
  <2> DEFINE cmp == Gen!Opcode(<<\h48, \h83, \hF8 + Gen!Low(a), \h00>>)
             jz == Gen!Opcode(<<\h0F, \h84>>)  number == Gen!Number(0, 4)
  <2>1. IsSeq(cmp) /\ Len(cmp) = 4 /\ IsSeq(jz) /\ Len(jz) = 2 BY TuplesAreSeqs, OpcodeIsSeq
  <2>2. IsSeq(number) /\ Len(number) = 4 BY NumberIsSeq
  <2>3. Gen!write_cond_jmp(a) = cmp \o (jz \o number) BY DEF Gen!write_cond_jmp
  <2> HIDE DEF cmp, jz, number
  <2> DEFINE rest == jz \o number
  <2>4. IsSeq(rest) /\ Len(rest) = Len(jz) + Len(number) BY <2>1, <2>2, IsSeqConcat
  <2> HIDE DEF rest
  <2>5. IsSeq(cmp \o rest) /\ Len(cmp \o rest) = Len(cmp) + Len(rest) BY <2>1, <2>4, IsSeqConcat
  <2>6. Gen!write_cond_jmp(a) = cmp \o rest BY <2>3 DEF rest
  <2> QED BY <2>1, <2>2, <2>4, <2>5, <2>6
<1> QED BY <1>3, <1>4, <1>5, <1>6, <1>7, <1>8

----------------------------------------------------------------------------
LEMMA ConcatIsSeq ==
  ASSUME NEW s, IsSeq(s), NEW t, IsSeq(t)
  PROVE  IsSeq(s \o t)
BY IsSeqConcat

LEMMA OverArgsIsSeq ==
  ASSUME GenInv, NEW ops, Gen!Fetched(ops), NEW x, DOMAIN x = DOMAIN Gen!instr.args,
         x = [k \in DOMAIN x |-> x[k]], \A k \in DOMAIN x : IsSeq(x[k])
  PROVE  IsSeq(Gen!FlattenSeq(x))
<1> DEFINE args == Gen!instr.args  n == Len(args)
<1>1. args \in Seq(Nat) BY EmittedInstr DEF Instr
<1> HIDE DEF args
<1>2. n \in Nat /\ DOMAIN args = 1 .. n BY <1>1, LenProperties
<1>3. DOMAIN x = 1 .. n BY <1>2 DEF args
<1> HIDE DEF n
<1>4. IsSeq(x) /\ Len(x) = n BY <1>2, <1>3, IsSeqFunction
<1>5. \A k \in 1 .. Len(x) : IsSeq(x[k]) BY <1>3, <1>4
<1> QED BY <1>4, <1>5, FlattenIsSeq

LEMMA ArgumentsAreSeqs ==
  ASSUME GenInv, NEW ops, Gen!Fetched(ops)
  PROVE  IsSeq(Gen!Pushes) /\ IsSeq(Gen!Moves) /\ IsSeq(Gen!clear_argument)
<1>1. IsSeq(Gen!Pushes)
  <2> DEFINE x == [k \in DOMAIN Gen!instr.args |->
                     IF k \in Gen!args_to_pop THEN Gen!PushOf(Gen!SavedFor(k)) ELSE <<>>]
  <2>1. DOMAIN x = DOMAIN Gen!instr.args /\ x = [k \in DOMAIN x |-> x[k]] OBVIOUS
  <2>2. \A k \in DOMAIN x : IsSeq(x[k]) BY CallsAreSeqs, TuplesAreSeqs
  <2>3. Gen!Pushes = Gen!FlattenSeq(x) BY DEF Gen!Pushes
  <2> HIDE DEF x
  <2> QED BY <2>1, <2>2, <2>3, OverArgsIsSeq
<1>2. IsSeq(Gen!Moves)
  <2> DEFINE x == [k \in DOMAIN Gen!instr.args |-> Gen!MoveArg(k)]
  <2>1. DOMAIN x = DOMAIN Gen!instr.args /\ x = [k \in DOMAIN x |-> x[k]] OBVIOUS
  <2>2. \A k \in DOMAIN x : IsSeq(x[k]) BY MovesAreSeqs DEF Gen!MoveArg
  <2>3. Gen!Moves = Gen!FlattenSeq(x) BY DEF Gen!Moves
  <2> HIDE DEF x
  <2> QED BY <2>1, <2>2, <2>3, OverArgsIsSeq
<1>3. IsSeq(Gen!clear_argument)
  <2> DEFINE x == [k \in DOMAIN Gen!instr.args |->
                     IF k \in Gen!args_to_pop THEN Gen!PopOf(Gen!SavedFor(k)) ELSE <<>>]
  <2>1. DOMAIN x = DOMAIN Gen!instr.args /\ x = [k \in DOMAIN x |-> x[k]] OBVIOUS
  <2>2. \A k \in DOMAIN x : IsSeq(x[k]) BY CallsAreSeqs, TuplesAreSeqs
  <2>3. Gen!clear_argument = Gen!FlattenSeq(x) BY DEF Gen!clear_argument
  <2> HIDE DEF x
  <2> QED BY <2>1, <2>2, <2>3, OverArgsIsSeq
<1> QED BY <1>1, <1>2, <1>3

LEMMA ResultMoveIsSeq ==
  ASSUME NEW t \in Gen!Leftover, NEW from_xmm, IsSeq(from_xmm)
  PROVE  IsSeq(Gen!ResultMove(t, from_xmm))
<1>1. IsSeq(<<>>) BY TuplesAreSeqs
<1>2. \A a, b : IsSeq(Gen!write_mov_reg_to_reg(a, b)) BY MovesAreSeqs
<1>3. t = "void" \/ t = "i64" \/ t = "f64" BY DEF Gen!Leftover
<1> QED BY <1>1, <1>2, <1>3 DEF Gen!ResultMove

----------------------------------------------------------------------------
(***************************************************************************)
(* What an instruction leaves open in its code: the numbers that are       *)
(* filled in when the function, or the module, is complete.                *)
(***************************************************************************)
Field(offset, size, target) == [offset |-> offset, size |-> size, target |-> target]

FieldsAt(i, start) ==
  (IF i.op = "BR" THEN {Field(start + 1, 4, i.yes)} ELSE {})
  \cup (IF i.op = "COND_BR" THEN {Field(start + 6, 4, i.no), Field(start + 11, 4, i.yes)} ELSE {})
  \cup (IF i.op = "CALL_FUNC" THEN {Field(start + 2, 8, i.callee)} ELSE {})

\* Whether n bytes are enough for the fields of an instruction.
Room(i, n) ==
  /\ i.op = "BR" => n >= 5
  /\ i.op = "COND_BR" => n >= 15
  /\ i.op = "CALL_FUNC" => n >= 10

\* How a list of the generator grows: by a record of each field of a size.
BranchTo(x) == [block |-> x.target, offset |-> x.offset, instr_size |-> 4]
CallTo(x)   == [offset |-> x.offset, func |-> x.target]

BranchesAfter(pending, i, s) ==
  CASE i.op = "BR" -> Append(pending, BranchTo(Field(s + 1, 4, i.yes)))
    [] i.op = "COND_BR" -> pending \o <<BranchTo(Field(s + 6, 4, i.no)), BranchTo(Field(s + 11, 4, i.yes))>>
    [] OTHER -> pending
CallsAfter(calls, i, s) ==
  IF i.op = "CALL_FUNC" THEN Append(calls, CallTo(Field(s + 2, 8, i.callee))) ELSE calls

\* What every case of jit_instr does to the code and to those lists.
Emission ==
  /\ at.func \in DOMAIN prog /\ at.block \in DOMAIN prog[at.func].blocks
  /\ at.instr \in DOMAIN prog[at.func].blocks[at.block]
  /\ \E bytes : IsSeq(bytes) /\ Room(Gen!instr, Len(bytes)) /\ code' = [code EXCEPT ![at.func] = @ \o bytes]
  /\ \E e : e.start = Len(code[at.func]) /\ placed' = [placed EXCEPT ![at.func][at.block] = Append(@, e)]
  /\ at' = [at EXCEPT !.instr = @ + 1] /\ prog' = prog /\ code_offset' = code_offset
  /\ block_offsets_to_set' = BranchesAfter(block_offsets_to_set, Gen!instr, Len(code[at.func]))
  /\ direct_call_offset' =
       [direct_call_offset EXCEPT ![at.func] = CallsAfter(@, Gen!instr, Len(code[at.func]))]

LEMMA EmitWrites ==
  ASSUME NEW ops, Gen!Fetched(ops), NEW bytes, IsSeq(bytes), Room(Gen!instr, Len(bytes)), Gen!Emit(bytes),
         block_offsets_to_set' = BranchesAfter(block_offsets_to_set, Gen!instr, Len(code[at.func])),
         direct_call_offset' =
           [direct_call_offset EXCEPT ![at.func] = CallsAfter(@, Gen!instr, Len(code[at.func]))]
  PROVE  Emission
<1>1. /\ code' = [code EXCEPT ![at.func] = @ \o bytes]
      /\ at' = [at EXCEPT !.instr = @ + 1] /\ prog' = prog /\ code_offset' = code_offset
  BY DEF Gen!Emit
<1>2. \E e : e.start = Len(code[at.func]) /\ placed' = [placed EXCEPT ![at.func][at.block] = Append(@, e)]
  <2> DEFINE e == [start |-> Gen!current_index, ints |-> int_slots, xmms |-> xmm_slots, xmms_after |-> xmm_slots']
  <2>1. e.start = Len(code[at.func]) BY DEF Gen!current_index
  <2>2. placed' = [placed EXCEPT ![at.func][at.block] = Append(@, e)] BY DEF Gen!Emit
  <2> HIDE DEF e
  <2> QED BY <2>1, <2>2
<1> QED BY <1>1, <1>2, FetchedFacts DEF Emission

LEMMA NoCallRecorded ==
  ASSUME direct_call_offset = [f \in DOMAIN prog |-> direct_call_offset[f]],
         Gen!instr.op # "CALL_FUNC", Gen!NoCall
  PROVE  direct_call_offset' =
           [direct_call_offset EXCEPT ![at.func] = CallsAfter(@, Gen!instr, Len(code[at.func]))]
<1> DEFINE F == at.func  n == Len(code[F])
<1>1. CallsAfter(direct_call_offset[F], Gen!instr, n) = direct_call_offset[F] BY DEF CallsAfter
<1>2. direct_call_offset' = direct_call_offset BY DEF Gen!NoCall
<1> HIDE DEF F, n
<1>3. [direct_call_offset EXCEPT ![F] = direct_call_offset[F]] = direct_call_offset OBVIOUS
<1> QED BY <1>1, <1>2, <1>3 DEF F, n

\* Instructions that leave nothing open.
LEMMA PlainEmission ==
  ASSUME direct_call_offset = [f \in DOMAIN prog |-> direct_call_offset[f]],
         NEW ops, Gen!Fetched(ops), ops \cap {"BR", "COND_BR", "CALL_FUNC"} = {},
         NEW bytes, IsSeq(bytes), Gen!Emit(bytes), Gen!NoBranch, Gen!NoCall
  PROVE  Emission
<1>1. Gen!instr.op \notin {"BR", "COND_BR", "CALL_FUNC"} BY DEF Gen!Fetched
<1>2. Room(Gen!instr, Len(bytes)) BY <1>1 DEF Room
<1>3. block_offsets_to_set' = BranchesAfter(block_offsets_to_set, Gen!instr, Len(code[at.func]))
  BY <1>1 DEF BranchesAfter, Gen!NoBranch
<1>4. direct_call_offset' =
        [direct_call_offset EXCEPT ![at.func] = CallsAfter(@, Gen!instr, Len(code[at.func]))]
  BY <1>1, NoCallRecorded
<1> QED BY <1>2, <1>3, <1>4, EmitWrites

LEMMA OfCallPtr ==
  ASSUME GenInv, direct_call_offset = [f \in DOMAIN prog |-> direct_call_offset[f]], Gen!CallPtr
  PROVE  Emission
<1>1. Gen!Fetched({"CALL_PTR"}) /\ Gen!NoBranch /\ Gen!NoCall BY DEF Gen!CallPtr
<1> DEFINE pushes == Gen!Pushes  moves == Gen!Moves  shadow == Gen!push_shadow
           call == Gen!write_call_indirect(Gen!get_register_for_value(Gen!instr.left))
           unshadow == Gen!pop_shadow  pops == Gen!clear_argument
           move == Gen!write_mov_xmm_to_xmm(Gen!XMM0, Gen!next_xmm)
<1>2. PICK t \in Gen!Leftover :
        Gen!Emit(pushes \o moves \o shadow \o call \o unshadow \o Gen!ResultMove(t, move) \o pops)
  BY DEF Gen!CallPtr
<1> DEFINE moved == Gen!ResultMove(t, move)
<1>3. IsSeq(pushes) /\ IsSeq(moves) /\ IsSeq(pops) BY <1>1, ArgumentsAreSeqs
<1>4. IsSeq(shadow) /\ IsSeq(call) /\ IsSeq(unshadow) BY CallsAreSeqs
<1>5. IsSeq(move) BY MovesAreSeqs
<1> HIDE DEF pushes, moves, shadow, call, unshadow, pops, move
<1>6. IsSeq(moved) BY <1>5, ResultMoveIsSeq
<1> DEFINE b1 == pushes \o moves
           b2 == b1 \o shadow
           b3 == b2 \o call
           b4 == b3 \o unshadow
           b5 == b4 \o moved
           b6 == b5 \o pops
<1>7. Gen!Emit(b6) BY <1>2
<1> HIDE DEF moved
<1>8. IsSeq(b1) BY <1>3, ConcatIsSeq
<1> HIDE DEF b1
<1>9. IsSeq(b2) BY <1>4, <1>8, ConcatIsSeq
<1> HIDE DEF b2
<1>10. IsSeq(b3) BY <1>4, <1>9, ConcatIsSeq
<1> HIDE DEF b3
<1>11. IsSeq(b4) BY <1>4, <1>10, ConcatIsSeq
<1> HIDE DEF b4
<1>12. IsSeq(b5) BY <1>6, <1>11, ConcatIsSeq
<1> HIDE DEF b5
<1>13. IsSeq(b6) BY <1>3, <1>12, ConcatIsSeq
<1> HIDE DEF b6
<1> QED BY <1>1, <1>7, <1>13, PlainEmission

LEMMA OfPlain ==
  ASSUME GenInv, direct_call_offset = [f \in DOMAIN prog |-> direct_call_offset[f]],
         \/ Gen!ConstXmm \/ Gen!ConstInt \/ Gen!AddXmm \/ Gen!AddInt \/ Gen!Load \/ Gen!Store
         \/ Gen!Ret \/ Gen!RetVoid \/ Gen!Skipped
  PROVE  Emission
<1> DEFINE Ops == {"CONST_I32", "CONST_I64", "CONST_PTR", "ADD", "LOAD", "STORE", "RET", "RET_VOID",
                   "NOT", "CONST_I16", "CONST_I8"} \cup (BinaryOps \ {"ADD"})
<1>1. Gen!Fetched(Ops) /\ Gen!NoBranch /\ Gen!NoCall
  BY DEF Gen!ConstXmm, Gen!ConstInt, Gen!AddXmm, Gen!AddInt, Gen!Load, Gen!Store, Gen!Ret, Gen!RetVoid,
         Gen!Skipped, Gen!Fetched, Gen!BinaryOps, Gen!ArithOps, Gen!DivideOps, Gen!CompareOps,
         BinaryOps, ArithOps, DivideOps, CompareOps
<1>2. Ops \cap {"BR", "COND_BR", "CALL_FUNC"} = {} BY DEF BinaryOps, ArithOps, DivideOps, CompareOps
<1> HIDE DEF Ops
<1>3. ASSUME NEW bytes, IsSeq(bytes), Gen!Emit(bytes) PROVE Emission
  BY <1>1, <1>2, <1>3, PlainEmission
<1>4. CASE Gen!ConstXmm BY <1>3, <1>4, MovesAreSeqs DEF Gen!ConstXmm
<1>5. CASE Gen!ConstInt BY <1>3, <1>5, MovesAreSeqs DEF Gen!ConstInt
<1>6. CASE Gen!AddXmm BY <1>3, <1>6, MovesAreSeqs DEF Gen!AddXmm
<1>7. CASE Gen!AddInt BY <1>3, <1>7, MovesAreSeqs DEF Gen!AddInt
<1>8. CASE Gen!Load BY <1>3, <1>8, MovesAreSeqs DEF Gen!Load
<1>9. CASE Gen!Store BY <1>3, <1>9, MovesAreSeqs DEF Gen!Store
<1>10. CASE Gen!Ret
  <2> DEFINE move == IF Gen!cow_type_is_decimal(Gen!fn.return_type)
                     THEN Gen!write_mov_xmm_to_xmm(Gen!get_xmm_for_value(Gen!instr.left), Gen!XMM0)
                     ELSE Gen!write_mov_reg_to_reg(Gen!get_register_for_value(Gen!instr.left), Gen!RAX)
             ret == Gen!write_ret
  <2>1. Gen!Emit(move \o ret) BY <1>10 DEF Gen!Ret
  <2>2. IsSeq(move) /\ IsSeq(ret) BY MovesAreSeqs, CallsAreSeqs
  <2> HIDE DEF move, ret
  <2>3. IsSeq(move \o ret) BY <2>2, ConcatIsSeq
  <2> QED BY <1>3, <2>1, <2>3
<1>11. CASE Gen!RetVoid BY <1>3, <1>11, CallsAreSeqs DEF Gen!RetVoid
<1>12. CASE Gen!Skipped BY <1>3, <1>12, TuplesAreSeqs DEF Gen!Skipped
<1> QED BY <1>4, <1>5, <1>6, <1>7, <1>8, <1>9, <1>10, <1>11, <1>12

LEMMA OfCallFunc ==
  ASSUME Gen!CallFunc
  PROVE  Emission
<1>1. Gen!Fetched({"CALL_FUNC"}) /\ Gen!NoBranch BY DEF Gen!CallFunc
<1>2. Gen!instr.op = "CALL_FUNC" BY <1>1 DEF Gen!Fetched
<1> DEFINE call == Gen!write_call_direct  move == Gen!write_mov_reg_to_mem(Gen!XMM0, Gen!next_xmm)
<1>3. PICK t \in Gen!Leftover : Gen!Emit(call \o Gen!ResultMove(t, move)) BY DEF Gen!CallFunc
<1> DEFINE moved == Gen!ResultMove(t, move)
<1>4. IsSeq(call) /\ Len(call) = 13 BY CallsAreSeqs
<1>5. IsSeq(move) BY MovesAreSeqs
<1> HIDE DEF call, move
<1>6. IsSeq(moved) BY <1>5, ResultMoveIsSeq
<1> DEFINE bytes == call \o moved
<1>7. Gen!Emit(bytes) BY <1>3
<1> HIDE DEF moved
<1>8. IsSeq(bytes) /\ Len(bytes) = Len(call) + Len(moved) BY <1>4, <1>6, IsSeqConcat
<1>9. Len(moved) \in Nat BY <1>6, IsSeqDomain
<1> HIDE DEF bytes
<1>10. Room(Gen!instr, Len(bytes)) BY <1>2, <1>4, <1>8, <1>9 DEF Room
<1>11. block_offsets_to_set' = BranchesAfter(block_offsets_to_set, Gen!instr, Len(code[at.func]))
  BY <1>1, <1>2 DEF BranchesAfter, Gen!NoBranch
<1>12. direct_call_offset' =
         [direct_call_offset EXCEPT ![at.func] = CallsAfter(@, Gen!instr, Len(code[at.func]))]
  <2> DEFINE n == Len(code[at.func])
  <2>1. direct_call_offset' = [direct_call_offset EXCEPT ![at.func] =
          Append(@, [offset |-> n + 2, func |-> Gen!instr.callee])]
    BY DEF Gen!CallFunc, Gen!current_index, Gen!CallAddress
  <2> HIDE DEF n
  <2>2. CallTo(Field(n + 2, 8, Gen!instr.callee)) = [offset |-> n + 2, func |-> Gen!instr.callee]
    BY DEF CallTo, Field
  <2>3. CallsAfter(direct_call_offset[at.func], Gen!instr, n)
          = Append(direct_call_offset[at.func], [offset |-> n + 2, func |-> Gen!instr.callee])
    BY <1>2, <2>2 DEF CallsAfter
  <2> QED BY <2>1, <2>3 DEF n
<1> QED BY <1>1, <1>7, <1>8, <1>10, <1>11, <1>12, EmitWrites

LEMMA OfBr ==
  ASSUME direct_call_offset = [f \in DOMAIN prog |-> direct_call_offset[f]], IsSeq(code[at.func]), Gen!Br
  PROVE  Emission
<1>1. Gen!Fetched({"BR"}) /\ Gen!NoCall BY DEF Gen!Br
<1>2. Gen!instr.op = "BR" BY <1>1 DEF Gen!Fetched
<1> DEFINE bytes == Gen!write_jmp  n == Len(code[at.func])
<1>3. Gen!Emit(bytes) BY DEF Gen!Br
<1>4. IsSeq(bytes) /\ Len(bytes) = 5 BY CallsAreSeqs
<1>5. block_offsets_to_set' = Append(block_offsets_to_set,
          [block |-> Gen!instr.yes, offset |-> n + Len(bytes) - 4, instr_size |-> 4])
  BY DEF Gen!Br, Gen!ToReplace, Gen!current_index
<1>6. n \in Nat BY IsSeqDomain
<1> HIDE DEF bytes, n
<1>7. n + Len(bytes) - 4 = n + 1 BY <1>4, <1>6
<1>8. block_offsets_to_set' = BranchesAfter(block_offsets_to_set, Gen!instr, n)
  BY <1>2, <1>5, <1>7 DEF BranchesAfter, BranchTo, Field
<1>9. Room(Gen!instr, Len(bytes)) BY <1>2, <1>4 DEF Room
<1>10. direct_call_offset' =
         [direct_call_offset EXCEPT ![at.func] = CallsAfter(@, Gen!instr, Len(code[at.func]))]
  BY <1>1, <1>2, NoCallRecorded
<1> QED BY <1>1, <1>3, <1>4, <1>8, <1>9, <1>10, EmitWrites DEF n

LEMMA OfCondBr ==
  ASSUME direct_call_offset = [f \in DOMAIN prog |-> direct_call_offset[f]], IsSeq(code[at.func]), Gen!CondBr
  PROVE  Emission
<1>1. Gen!Fetched({"COND_BR"}) /\ Gen!NoCall BY DEF Gen!CondBr
<1>2. Gen!instr.op = "COND_BR" BY <1>1 DEF Gen!Fetched
<1> DEFINE test == Gen!write_cond_jmp(Gen!get_register_for_value(Gen!instr.left))
           bytes == test \o Gen!write_jmp  n == Len(code[at.func])
<1>3. Gen!Emit(bytes) BY DEF Gen!CondBr
<1>4. IsSeq(test) /\ Len(test) = 10 /\ IsSeq(Gen!write_jmp) /\ Len(Gen!write_jmp) = 5 BY CallsAreSeqs
<1>5. block_offsets_to_set' = block_offsets_to_set \o
          <<[block |-> Gen!instr.no, offset |-> n + Len(test) - 4, instr_size |-> 4],
            [block |-> Gen!instr.yes, offset |-> n + Len(bytes) - 4, instr_size |-> 4]>>
  BY DEF Gen!CondBr, Gen!ToReplace, Gen!current_index
<1>6. n \in Nat BY IsSeqDomain
<1> HIDE DEF test
<1>7. IsSeq(bytes) /\ Len(bytes) = Len(test) + Len(Gen!write_jmp) BY <1>4, IsSeqConcat
<1> HIDE DEF bytes, n
<1>8. n + Len(test) - 4 = n + 6 /\ n + Len(bytes) - 4 = n + 11 BY <1>4, <1>6, <1>7
<1>9. block_offsets_to_set' = BranchesAfter(block_offsets_to_set, Gen!instr, n)
  BY <1>2, <1>5, <1>8 DEF BranchesAfter, BranchTo, Field
<1>10. Room(Gen!instr, Len(bytes)) BY <1>2, <1>4, <1>7 DEF Room
<1>11. direct_call_offset' =
         [direct_call_offset EXCEPT ![at.func] = CallsAfter(@, Gen!instr, Len(code[at.func]))]
  BY <1>1, <1>2, NoCallRecorded
<1> QED BY <1>1, <1>3, <1>7, <1>9, <1>10, <1>11, EmitWrites DEF n

----------------------------------------------------------------------------
\* The fields of what has been emitted of function f.
FieldsOf(p, pl, f) ==
  UNION {UNION {FieldsAt(p[f].blocks[b][k], pl[f][b][k].start) : k \in DOMAIN pl[f][b]} : b \in DOMAIN pl[f]}

LEMMA FieldsOfIn ==
  ASSUME NEW p, NEW pl, NEW f, NEW x, pl[f] = x
  PROVE  \A z : z \in FieldsOf(p, pl, f) <=>
           \E b \in DOMAIN x : \E k \in DOMAIN x[b] : z \in FieldsAt(p[f].blocks[b][k], x[b][k].start)
BY DEF FieldsOf

WithBlock(pl, F) == [pl EXCEPT ![F] = Append(@, <<>>)]

\* Beginning a block adds no field, an instruction adds its own.
LEMMA FieldsOfBlock ==
  ASSUME NEW p, NEW pl, NEW F \in DOMAIN pl, Blocks(pl[F]),
         NEW pl2, pl2 = WithBlock(pl, F)
  PROVE  \A g \in DOMAIN pl : FieldsOf(p, pl2, g) = FieldsOf(p, pl, g)
<1> DEFINE x == pl[F]  y == Append(x, <<>>)
<1>1. /\ DOMAIN x = 1 .. Len(x) /\ Len(x) \in Nat /\ DOMAIN y = 1 .. Len(x) + 1
      /\ (\A b \in DOMAIN x : y[b] = x[b]) /\ y[Len(x) + 1] = <<>>
  BY AppendBlock
<1>2. pl2[F] = y /\ \A g \in DOMAIN pl : g # F => pl2[g] = pl[g] BY DEF WithBlock
<1>3. TAKE g \in DOMAIN pl
<1>4. CASE g # F BY <1>2, <1>4 DEF FieldsOf
<1>5. CASE g = F
  <2> HIDE DEF y
  <2> DEFINE n == Len(x)
  <2> HIDE DEF n
  <2>1. DOMAIN x = 1 .. n /\ n \in Nat /\ DOMAIN y = 1 .. n + 1 /\ y[n + 1] = <<>> BY <1>1 DEF n
  <2>2. DOMAIN <<>> = {} OBVIOUS
  <2>3. \A b \in DOMAIN y : b \in DOMAIN x \/ DOMAIN y[b] = {} BY <2>1, <2>2
  <2>4. \A b \in DOMAIN x : b \in DOMAIN y /\ y[b] = x[b] BY <1>1, <2>1
  <2> HIDE DEF x
  <2>5. x = pl[F] BY DEF x
  <2>6. \A z : z \in FieldsOf(p, pl2, F) <=> z \in FieldsOf(p, pl, F)
    <3>1. \A z : z \in FieldsOf(p, pl2, F) <=>
            \E b \in DOMAIN y : \E k \in DOMAIN y[b] : z \in FieldsAt(p[F].blocks[b][k], y[b][k].start)
      BY <1>2 DEF FieldsOf
    <3>2. \A z : z \in FieldsOf(p, pl, F) <=>
            \E b \in DOMAIN x : \E k \in DOMAIN x[b] : z \in FieldsAt(p[F].blocks[b][k], x[b][k].start)
      BY <2>5 DEF FieldsOf
    <3> QED BY <2>3, <2>4, <3>1, <3>2
  <2>7. FieldsOf(p, pl2, F) = FieldsOf(p, pl, F) BY <2>6
  <2> QED BY <1>5, <2>7
<1> QED BY <1>4, <1>5

WithEntry(pl, F, B, e) == [pl EXCEPT ![F][B] = Append(@, e)]

InstrAfter(p, pl, F, B) == p[F].blocks[B][Len(pl[F][B]) + 1]

StartsAt(e, n) == e.start = n

\* The fields grow by those of an instruction at n.
FieldsAdded(p, pl, pl2, F, i, n) == FieldsOf(p, pl2, F) = FieldsOf(p, pl, F) \cup FieldsAt(i, n)

LEMMA FieldsOfEntry ==
  ASSUME NEW p, NEW pl, NEW F \in DOMAIN pl, Blocks(pl[F]), NEW B \in DOMAIN pl[F], NEW e,
         NEW pl2, pl2 = WithEntry(pl, F, B, e), NEW i, i = InstrAfter(p, pl, F, B), NEW s, StartsAt(e, s)
  PROVE  FieldsAdded(p, pl, pl2, F, i, s)
<1> DEFINE x == pl[F]  y == Appended(x, B, e)
<1>1. pl2[F] = y BY DEF Appended, WithEntry
<1> DEFINE n == Len(x[B])
<1> HIDE DEF x, y
<1>3. /\ DOMAIN y = DOMAIN x /\ n \in Nat
      /\ DOMAIN x[B] = 1 .. n /\ DOMAIN y[B] = 1 .. n + 1
      /\ (\A k \in DOMAIN x[B] : y[B][k] = x[B][k]) /\ y[B][n + 1] = e
      /\ \A c \in DOMAIN x : c # B => y[c] = x[c]
  <2>1. Blocks(x) /\ B \in DOMAIN x /\ y = Appended(x, B, e) BY DEF x, y
  <2> QED BY <2>1, AppendEntry
<1>4. x = pl[F] /\ B \in DOMAIN x BY DEF x
<1> HIDE DEF n
<1>5. \A z : z \in FieldsOf(p, pl2, F) <=>
        z \in FieldsOf(p, pl, F) \/ z \in FieldsAt(p[F].blocks[B][n + 1], e.start)
  <2>1. \A z : z \in FieldsOf(p, pl2, F) <=>
          \E b \in DOMAIN y : \E k \in DOMAIN y[b] : z \in FieldsAt(p[F].blocks[b][k], y[b][k].start)
    <3>1. pl2[F] = y BY <1>1
    <3> DEFINE w == pl2
    <3>2. w[F] = y BY <3>1
    <3> HIDE DEF w
    <3>3. \A z : z \in FieldsOf(p, w, F) <=>
            \E b \in DOMAIN y : \E k \in DOMAIN y[b] : z \in FieldsAt(p[F].blocks[b][k], y[b][k].start)
      BY <3>2, FieldsOfIn
    <3> QED BY <3>3 DEF w
  <2>2. \A z : z \in FieldsOf(p, pl, F) <=>
          \E b \in DOMAIN x : \E k \in DOMAIN x[b] : z \in FieldsAt(p[F].blocks[b][k], x[b][k].start)
    BY <1>4 DEF FieldsOf
  <2>3. \A b \in DOMAIN y : \A k \in DOMAIN y[b] :
          \/ b = B /\ k = n + 1 /\ y[b][k] = e
          \/ b \in DOMAIN x /\ k \in DOMAIN x[b] /\ y[b][k] = x[b][k]
    <3>1. TAKE b \in DOMAIN y
    <3>2. TAKE k \in DOMAIN y[b]
    <3>3. CASE b # B BY <1>3, <3>3
    <3>4. CASE b = B
      <4>1. k \in 1 .. n + 1 BY <1>3, <3>4
      <4>2. k = n + 1 \/ k \in 1 .. n BY <1>3, <4>1
      <4> QED BY <1>3, <3>4, <4>2
    <3> QED BY <3>3, <3>4
  <2>4. \A b \in DOMAIN x : \A k \in DOMAIN x[b] : b \in DOMAIN y /\ k \in DOMAIN y[b] /\ y[b][k] = x[b][k]
    <3>1. \A k \in 1 .. n : k \in 1 .. n + 1 BY <1>3
    <3> QED BY <1>3, <3>1
  <2>5. B \in DOMAIN y /\ n + 1 \in DOMAIN y[B] /\ y[B][n + 1] = e BY <1>3, <1>4
  <2>6. ASSUME NEW z, z \in FieldsOf(p, pl2, F)
        PROVE  z \in FieldsOf(p, pl, F) \/ z \in FieldsAt(p[F].blocks[B][n + 1], e.start)
    <3>1. PICK b \in DOMAIN y : \E k \in DOMAIN y[b] : z \in FieldsAt(p[F].blocks[b][k], y[b][k].start)
      BY <2>1, <2>6
    <3>0. PICK k \in DOMAIN y[b] : z \in FieldsAt(p[F].blocks[b][k], y[b][k].start) BY <3>1
    <3>2. CASE b = B /\ k = n + 1 /\ y[b][k] = e BY <3>0, <3>2
    <3>3. CASE b \in DOMAIN x /\ k \in DOMAIN x[b] /\ y[b][k] = x[b][k] BY <2>2, <3>0, <3>3
    <3> QED BY <2>3, <3>2, <3>3
  <2>7. ASSUME NEW z, z \in FieldsOf(p, pl, F) PROVE z \in FieldsOf(p, pl2, F)
    <3>1. PICK b \in DOMAIN x : \E k \in DOMAIN x[b] : z \in FieldsAt(p[F].blocks[b][k], x[b][k].start)
      BY <2>2, <2>7
    <3>2. PICK k \in DOMAIN x[b] : z \in FieldsAt(p[F].blocks[b][k], x[b][k].start) BY <3>1
    <3> QED BY <2>1, <2>4, <3>2
  <2>8. ASSUME NEW z, z \in FieldsAt(p[F].blocks[B][n + 1], e.start) PROVE z \in FieldsOf(p, pl2, F)
    BY <2>1, <2>5, <2>8
  <2> QED BY <2>6, <2>7, <2>8
<1>6. FieldsOf(p, pl2, F) = FieldsOf(p, pl, F) \cup FieldsAt(p[F].blocks[B][n + 1], e.start) BY <1>5
<1> QED BY <1>4, <1>6 DEF n, x, InstrAfter, StartsAt, FieldsAdded

LEMMA OtherFields ==
  ASSUME NEW p, NEW pl, NEW F, NEW B, NEW e, NEW pl2, pl2 = WithEntry(pl, F, B, e)
  PROVE  \A g \in DOMAIN pl : g # F => FieldsOf(p, pl2, g) = FieldsOf(p, pl, g)
<1>1. \A g \in DOMAIN pl : g # F => pl2[g] = pl[g] BY DEF WithEntry
<1> QED BY <1>1 DEF FieldsOf

LEMMA FieldsOfNone ==
  ASSUME NEW p, NEW pl, NEW f, pl[f] = <<>>
  PROVE  FieldsOf(p, pl, f) = {}
<1>1. DOMAIN <<>> = {} OBVIOUS
<1> QED BY <1>1 DEF FieldsOf

----------------------------------------------------------------------------
(***************************************************************************)
(* What is true of a function's fields, whatever is filled in: they lie    *)
(* inside its code, apart from each other, and the generator's lists hold  *)
(* those that are missing.                                                 *)
(***************************************************************************)
Inside(x, n) == x.offset \in Nat /\ x.size \in {4, 8} /\ x.offset + x.size <= n
Apart(x, y)  == x.offset + x.size <= y.offset \/ y.offset + y.size <= x.offset
Laid(n, X) ==
  /\ \A x \in X : Inside(x, n) /\ x = Field(x.offset, x.size, x.target)
  /\ \A x \in X : \A y \in X : x = y \/ Apart(x, y)

Recorded(calls, X) ==
  /\ IsSeq(calls)
  /\ \A k \in 1 .. Len(calls) : Field(calls[k].offset, 8, calls[k].func) \in X
  /\ \A x \in X : x.size = 8 =>
       \E k \in 1 .. Len(calls) : calls[k].offset = x.offset /\ calls[k].func = x.target

Waiting(pending, X) ==
  /\ IsSeq(pending)
  /\ \A k \in 1 .. Len(pending) :
       pending[k].instr_size = 4 /\ Field(pending[k].offset, 4, pending[k].block) \in X
Pending(pending, x) ==
  \E k \in 1 .. Len(pending) : pending[k].offset = x.offset /\ pending[k].block = x.target

\* The fields of one instruction, one behind the other.
LEMMA FieldsAtLaid ==
  ASSUME NEW i, NEW n \in Nat, NEW l \in Nat, Room(i, l)
  PROVE  /\ Laid(n + l, FieldsAt(i, n))
         /\ \A x \in FieldsAt(i, n) : x.offset >= n
<1>1. CASE i.op = "BR"
  <2>1. FieldsAt(i, n) = {Field(n + 1, 4, i.yes)} BY <1>1 DEF FieldsAt
  <2>2. l >= 5 BY <1>1 DEF Room
  <2>3. Inside(Field(n + 1, 4, i.yes), n + l) BY <2>2 DEF Inside, Field
  <2> QED BY <2>1, <2>3 DEF Laid, Field
<1>2. CASE i.op = "COND_BR"
  <2> DEFINE x == Field(n + 6, 4, i.no)  y == Field(n + 11, 4, i.yes)
  <2>1. FieldsAt(i, n) = {x, y} BY <1>2 DEF FieldsAt
  <2>2. l >= 15 BY <1>2 DEF Room
  <2>3. Inside(x, n + l) /\ Inside(y, n + l) /\ Apart(x, y) /\ Apart(y, x) /\ x.offset >= n /\ y.offset >= n
        /\ x = Field(x.offset, x.size, x.target) /\ y = Field(y.offset, y.size, y.target)
    BY <2>2 DEF Inside, Apart, Field
  <2> HIDE DEF x, y
  <2> QED BY <2>1, <2>3 DEF Laid
<1>3. CASE i.op = "CALL_FUNC"
  <2>1. FieldsAt(i, n) = {Field(n + 2, 8, i.callee)} BY <1>3 DEF FieldsAt
  <2>2. l >= 10 BY <1>3 DEF Room
  <2>3. Inside(Field(n + 2, 8, i.callee), n + l) BY <2>2 DEF Inside, Field
  <2> QED BY <2>1, <2>3 DEF Laid, Field
<1>4. CASE i.op \notin {"BR", "COND_BR", "CALL_FUNC"}
  <2>1. FieldsAt(i, n) = {} BY <1>4 DEF FieldsAt
  <2> QED BY <2>1 DEF Laid
<1> QED BY <1>1, <1>2, <1>3, <1>4

LEMMA LaidFurther ==
  ASSUME NEW n \in Nat, NEW l \in Nat, NEW X, Laid(n, X), NEW Y, Laid(n + l, Y), \A y \in Y : y.offset >= n
  PROVE  Laid(n + l, X \cup Y)
<1>1. \A x \in X : Inside(x, n + l)
  <2>1. \A x \in X : Inside(x, n) BY DEF Laid
  <2> QED BY <2>1 DEF Inside
<1>2. \A x \in X : \A y \in Y : Apart(x, y) /\ Apart(y, x)
  <2>1. TAKE x \in X
  <2>2. TAKE y \in Y
  <2>3. Inside(x, n) /\ Inside(y, n + l) BY DEF Laid
  <2>4. y.offset >= n OBVIOUS
  <2> DEFINE a == x.offset  b == x.size  c == y.offset
  <2>5. a \in Nat /\ b \in Nat /\ a + b <= n /\ c \in Nat /\ c >= n BY <2>3, <2>4 DEF Inside
  <2>6. a + b <= c
    <3> HIDE DEF a, b, c
    <3> QED BY <2>5
  <2> QED BY <2>6 DEF Apart
<1> QED BY <1>1, <1>2 DEF Laid

LEMMA RecordedFurther ==
  ASSUME NEW i, NEW n \in Nat, NEW X, NEW calls, Recorded(calls, X)
  PROVE  Recorded(CallsAfter(calls, i, n), X \cup FieldsAt(i, n))
<1>1. CASE i.op = "CALL_FUNC"
  <2> DEFINE x == Field(n + 2, 8, i.callee)  e == CallTo(x)
  <2>1. FieldsAt(i, n) = {x} /\ CallsAfter(calls, i, n) = Append(calls, e)
    BY <1>1 DEF FieldsAt, CallsAfter
  <2>2. e.offset = x.offset /\ e.func = x.target /\ x = Field(x.offset, 8, x.target)
    BY DEF CallTo, Field
  <2> HIDE DEF x, e
  <2>3. IsSeq(calls) BY DEF Recorded
  <2> DEFINE l == Len(calls)  more == Append(calls, e)
  <2>4. l \in Nat BY <2>3, IsSeqDomain
  <2>5. /\ IsSeq(more) /\ Len(more) = l + 1
        /\ (\A k \in 1 .. l : more[k] = calls[k]) /\ more[l + 1] = e
    BY <2>3, IsSeqAppend
  <2>6. \A k \in 1 .. l : Field(calls[k].offset, 8, calls[k].func) \in X BY DEF Recorded
  <2>7. \A y \in X : y.size = 8 => \E k \in 1 .. l : calls[k].offset = y.offset /\ calls[k].func = y.target
    BY DEF Recorded
  <2> HIDE DEF l, more
  <2>8. \A k \in 1 .. Len(more) : Field(more[k].offset, 8, more[k].func) \in X \cup {x}
    <3>1. TAKE k \in 1 .. Len(more)
    <3>2. k \in 1 .. l \/ k = l + 1 BY <2>4, <2>5
    <3> QED BY <2>2, <2>5, <2>6, <3>2
  <2>9. 1 .. l \subseteq 1 .. Len(more) /\ l + 1 \in 1 .. Len(more) BY <2>4, <2>5
  <2>10. \A y \in X \cup {x} : y.size = 8 =>
           \E k \in 1 .. Len(more) : more[k].offset = y.offset /\ more[k].func = y.target
    <3>1. TAKE y \in X \cup {x}
    <3>2. HAVE y.size = 8
    <3>3. CASE y = x BY <2>2, <2>5, <2>9, <3>3
    <3>4. CASE y \in X
      <4>1. PICK k \in 1 .. l : calls[k].offset = y.offset /\ calls[k].func = y.target BY <2>7, <3>2, <3>4
      <4> QED BY <2>5, <2>9, <4>1
    <3> QED BY <3>3, <3>4
  <2> QED BY <2>1, <2>5, <2>8, <2>10 DEF Recorded, more
<1>2. CASE i.op # "CALL_FUNC"
  <2>1. CallsAfter(calls, i, n) = calls BY <1>2 DEF CallsAfter
  <2>2. \A x \in FieldsAt(i, n) : x.size = 4 BY <1>2 DEF FieldsAt, Field
  <2>3. \A x \in FieldsAt(i, n) : x.size # 8 BY <2>2
  <2> QED BY <2>1, <2>3 DEF Recorded
<1> QED BY <1>1, <1>2

----------------------------------------------------------------------------
\* The generator's list of branches grows with the fields.
AllPending(pending, X) == \A x \in X : x.size = 4 => Pending(pending, x)

LEMMA WaitingLonger ==
  ASSUME NEW X, NEW Y, NEW pending, Waiting(pending, X), AllPending(pending, X), NEW l \in Nat,
         NEW more, IsSeq(more), Len(more) = Len(pending) + l,
         \A k \in 1 .. Len(pending) : more[k] = pending[k],
         \A k \in 1 .. l : \E y \in Y : y = Field(y.offset, 4, y.target) /\ more[Len(pending) + k] = BranchTo(y),
         \A y \in Y : y.size = 4 => \E k \in 1 .. l : more[Len(pending) + k] = BranchTo(y)
  PROVE  Waiting(more, X \cup Y) /\ AllPending(more, X \cup Y)
<1> DEFINE n == Len(pending)
<1>1. n \in Nat BY IsSeqDomain DEF Waiting
<1>2. \A y : BranchTo(y).offset = y.offset /\ BranchTo(y).block = y.target /\ BranchTo(y).instr_size = 4
  BY DEF BranchTo
<1>3. \A k \in 1 .. n : pending[k].instr_size = 4 /\ Field(pending[k].offset, 4, pending[k].block) \in X
  BY DEF Waiting
<1>4. \A x \in X : x.size = 4 =>
        \E k \in 1 .. n : pending[k].offset = x.offset /\ pending[k].block = x.target
  BY DEF AllPending, Pending
<1>5. /\ \A k \in 1 .. n : more[k] = pending[k]
      /\ Len(more) = n + l
      /\ \A k \in 1 .. l : \E y \in Y : y = Field(y.offset, 4, y.target) /\ more[n + k] = BranchTo(y)
      /\ \A y \in Y : y.size = 4 => \E k \in 1 .. l : more[n + k] = BranchTo(y)
  OBVIOUS
<1> HIDE DEF n
<1>6. \A k \in 1 .. Len(more) :
        more[k].instr_size = 4 /\ Field(more[k].offset, 4, more[k].block) \in X \cup Y
  <2>1. TAKE k \in 1 .. Len(more)
  <2>2. CASE k <= n
    <3>1. k \in 1 .. n BY <1>1, <2>2
    <3> QED BY <1>3, <1>5, <3>1
  <2>3. CASE ~(k <= n)
    <3>1. k - n \in 1 .. l /\ n + (k - n) = k BY <1>1, <1>5, <2>3
    <3>2. PICK y \in Y : y = Field(y.offset, 4, y.target) /\ more[k] = BranchTo(y) BY <1>5, <3>1
    <3>3. more[k].instr_size = 4 /\ more[k].offset = y.offset /\ more[k].block = y.target BY <1>2, <3>2
    <3> QED BY <3>2, <3>3
  <2> QED BY <2>2, <2>3
<1>7. \A x \in X \cup Y : x.size = 4 => Pending(more, x)
  <2>1. TAKE x \in X \cup Y
  <2>2. HAVE x.size = 4
  <2>3. CASE x \in X
    <3>1. PICK k \in 1 .. n : pending[k].offset = x.offset /\ pending[k].block = x.target
      BY <1>4, <2>2, <2>3
    <3>2. k \in 1 .. Len(more) BY <1>1, <1>5
    <3>3. more[k].offset = x.offset /\ more[k].block = x.target BY <1>5, <3>1
    <3> QED BY <3>2, <3>3 DEF Pending
  <2>4. CASE x \in Y
    <3>1. PICK k \in 1 .. l : more[n + k] = BranchTo(x) BY <1>5, <2>2, <2>4
    <3>2. n + k \in 1 .. Len(more) BY <1>1, <1>5
    <3>3. more[n + k].offset = x.offset /\ more[n + k].block = x.target BY <1>2, <3>1
    <3> QED BY <3>2, <3>3 DEF Pending
  <2> QED BY <2>3, <2>4
<1> QED BY <1>6, <1>7 DEF Waiting, AllPending

LEMMA WaitingFurther ==
  ASSUME NEW i, NEW n \in Nat, NEW X, NEW pending, Waiting(pending, X), AllPending(pending, X)
  PROVE  LET more == BranchesAfter(pending, i, n)
         IN  Waiting(more, X \cup FieldsAt(i, n)) /\ AllPending(more, X \cup FieldsAt(i, n))
<1> DEFINE more == BranchesAfter(pending, i, n)
<1>0. IsSeq(pending) BY DEF Waiting
<1>1. CASE i.op = "BR"
  <2> DEFINE x == Field(n + 1, 4, i.yes)  e == BranchTo(x)
  <2>1. FieldsAt(i, n) = {x} /\ more = Append(pending, e) BY <1>1 DEF FieldsAt, BranchesAfter
  <2>2. x = Field(x.offset, 4, x.target) BY DEF Field
  <2>3. e = BranchTo(x) OBVIOUS
  <2> HIDE DEF more, x, e
  <2>4. /\ IsSeq(more) /\ Len(more) = Len(pending) + 1 /\ \A k \in 1 .. Len(pending) : more[k] = pending[k]
        /\ more[Len(pending) + 1] = e
    BY <1>0, <2>1, IsSeqAppend
  <2>5. \A k \in 1 .. 1 : \E y \in {x} : y = Field(y.offset, 4, y.target) /\ more[Len(pending) + k] = BranchTo(y)
    BY <2>2, <2>3, <2>4
  <2>6. \A y \in {x} : y.size = 4 => \E k \in 1 .. 1 : more[Len(pending) + k] = BranchTo(y)
    BY <2>3, <2>4
  <2> DEFINE l == 1
  <2>7. l \in Nat /\ Len(more) = Len(pending) + l BY <2>4
  <2>8. /\ \A k \in 1 .. l : \E y \in {x} : y = Field(y.offset, 4, y.target) /\ more[Len(pending) + k] = BranchTo(y)
        /\ \A y \in {x} : y.size = 4 => \E k \in 1 .. l : more[Len(pending) + k] = BranchTo(y)
    BY <2>5, <2>6
  <2> HIDE DEF l
  <2>9. Waiting(more, X \cup {x}) /\ AllPending(more, X \cup {x}) BY <2>4, <2>7, <2>8, WaitingLonger
  <2> QED BY <2>1, <2>9 DEF more
<1>2. CASE i.op = "COND_BR"
  <2> DEFINE x == Field(n + 6, 4, i.no)  z == Field(n + 11, 4, i.yes)  two == <<BranchTo(x), BranchTo(z)>>
  <2>1. FieldsAt(i, n) = {x, z} /\ more = pending \o two BY <1>2 DEF FieldsAt, BranchesAfter
  <2>2. x = Field(x.offset, 4, x.target) /\ z = Field(z.offset, 4, z.target) BY DEF Field
  <2>3. IsSeq(two) /\ Len(two) = 2 BY TuplesAreSeqs
  <2>4. two[1] = BranchTo(x) /\ two[2] = BranchTo(z) OBVIOUS
  <2> HIDE DEF more, x, z, two
  <2>5. /\ IsSeq(more) /\ Len(more) = Len(pending) + Len(two)
        /\ \A k \in 1 .. Len(pending) : more[k] = pending[k]
        /\ \A k \in 1 .. Len(two) : more[Len(pending) + k] = two[k]
    <3>0. IsSeq(two) BY <2>3
    <3>1. IsSeq(pending \o two) /\ Len(pending \o two) = Len(pending) + Len(two) BY <1>0, <3>0, IsSeqConcat
    <3>2. \A k \in 1 .. Len(pending) : (pending \o two)[k] = pending[k] BY <1>0, <3>0, IsSeqConcat
    <3>3. \A k \in 1 .. Len(two) : (pending \o two)[Len(pending) + k] = two[k] BY <1>0, <3>0, IsSeqConcat
    <3> QED BY <2>1, <3>1, <3>2, <3>3
  <2> DEFINE l == Len(two)
  <2>6. l \in Nat /\ \A k \in 1 .. l : k = 1 \/ k = 2 BY <2>3
  <2>7. 1 \in 1 .. l /\ 2 \in 1 .. l BY <2>3
  <2> HIDE DEF l
  <2>8. \A k \in 1 .. l : more[Len(pending) + k] = two[k] BY <2>5 DEF l
  <2>9. \A k \in 1 .. l : \E y \in {x, z} : y = Field(y.offset, 4, y.target) /\ more[Len(pending) + k] = BranchTo(y)
    <3>1. TAKE k \in 1 .. l
    <3>2. k = 1 \/ k = 2 BY <2>6
    <3>3. more[Len(pending) + k] = two[k] BY <2>8
    <3>4. more[Len(pending) + k] = BranchTo(x) \/ more[Len(pending) + k] = BranchTo(z) BY <2>4, <3>2, <3>3
    <3> QED BY <2>2, <3>4
  <2>10. \A y \in {x, z} : y.size = 4 => \E k \in 1 .. l : more[Len(pending) + k] = BranchTo(y)
    <3>1. more[Len(pending) + 1] = BranchTo(x) /\ more[Len(pending) + 2] = BranchTo(z) BY <2>4, <2>7, <2>8
    <3> QED BY <2>7, <3>1
  <2>11. Waiting(more, X \cup {x, z}) /\ AllPending(more, X \cup {x, z})
    <3>1. Len(more) = Len(pending) + l BY <2>5 DEF l
    <3> QED BY <2>5, <2>6, <2>9, <2>10, <3>1, WaitingLonger
  <2> QED BY <2>1, <2>11 DEF more
<1>3. CASE i.op \notin {"BR", "COND_BR"}
  <2>1. more = pending BY <1>3 DEF BranchesAfter
  <2>2. \A x \in FieldsAt(i, n) : x.size = 8 BY <1>3 DEF FieldsAt, Field
  <2>3. \A x \in FieldsAt(i, n) : x.size # 4 BY <2>2
  <2> HIDE DEF more
  <2>4. Waiting(more, X \cup FieldsAt(i, n)) /\ AllPending(more, X \cup FieldsAt(i, n))
    BY <2>1, <2>3 DEF Waiting, AllPending
  <2> QED BY <2>4 DEF more
<1> QED BY <1>1, <1>2, <1>3

----------------------------------------------------------------------------
(***************************************************************************)
(* The invariant.  Of every function, the fields begun so far lie in its   *)
(* code as they should and its calls are recorded; in the functions before *)
(* the current one the branches are filled in.                             *)
(***************************************************************************)
Filled(bytes, offsets, x) ==
  \A k \in 1 .. 4 : bytes[x.offset + k] = <<offsets[x.target] - x.offset - 4, k - 1>>
AllFilled(bytes, offsets, X) == \A x \in X : x.size = 4 => Filled(bytes, offsets, x)

\* The first instruction of a block starts where the block does.
Begun(x, offsets) == \A b \in DOMAIN x : 1 \in DOMAIN x[b] => x[b][1].start = offsets[b]

Sound(p, pl, f, bytes, offsets, calls) ==
  /\ IsSeq(bytes) /\ IsSeq(offsets) /\ Len(offsets) = Len(pl[f]) /\ Begun(pl[f], offsets)
  /\ Laid(Len(bytes), FieldsOf(p, pl, f)) /\ Recorded(calls, FieldsOf(p, pl, f))

\* The function that is being emitted: its branches wait until all its blocks
\* have been emitted, and then are filled in one by one.
Open(p, pl, a, bytes, offsets, pending) ==
  /\ Waiting(pending, FieldsOf(p, pl, a.func))
  /\ \A x \in FieldsOf(p, pl, a.func) : x.size = 4 =>
       \/ Pending(pending, x)
       \/ a.block = Len(p[a.func].blocks) + 1 /\ Filled(bytes, offsets, x)
  /\ a.instr = 1 => offsets[a.block] = Len(bytes)

LinkInv ==
  /\ code = [f \in DOMAIN prog |-> code[f]]
  /\ code_offset = [f \in DOMAIN prog |-> code_offset[f]]
  /\ direct_call_offset = [f \in DOMAIN prog |-> direct_call_offset[f]]
  /\ \A f \in DOMAIN prog :
       /\ Sound(prog, placed, f, code[f], code_offset[f], direct_call_offset[f])
       /\ f < at.func => AllFilled(code[f], code_offset[f], FieldsOf(prog, placed, f))
  /\ at.func \in DOMAIN prog =>
       Open(prog, placed, at, code[at.func], code_offset[at.func], block_offsets_to_set)

----------------------------------------------------------------------------
\* Emission adds the fields of one instruction behind all others.
\* Another function's state and fields are the same.
LEMMA SoundSame ==
  ASSUME NEW p, NEW pl, NEW pl2, NEW f, pl2[f] = pl[f], FieldsOf(p, pl2, f) = FieldsOf(p, pl, f),
         NEW bytes, NEW offsets, NEW calls, Sound(p, pl, f, bytes, offsets, calls)
  PROVE  Sound(p, pl2, f, bytes, offsets, calls)
BY DEF Sound

\* If the instruction is the first of its block, the block starts here.
BeginsAt(pl, F, B, offsets, n) == Len(pl[F][B]) = 0 => offsets[B] = n

\* That n is the length of a sequence.
Length(s, n) == IsSeq(s) /\ n = Len(s)

LEMMA EntrySound ==
  ASSUME NEW p, NEW pl, NEW F \in DOMAIN pl, Blocks(pl[F]), NEW B \in DOMAIN pl[F], NEW e,
         NEW pl2, pl2 = WithEntry(pl, F, B, e),
         NEW i, i = InstrAfter(p, pl, F, B),
         NEW bytes, NEW offsets, NEW calls, Sound(p, pl, F, bytes, offsets, calls),
         NEW n, Length(bytes, n), StartsAt(e, n), BeginsAt(pl, F, B, offsets, n),
         NEW written, NEW l, Length(written, l), Room(i, l)
  PROVE  Sound(p, pl2, F, bytes \o written, offsets, CallsAfter(calls, i, n))
<1> DEFINE X == FieldsOf(p, pl, F)  Y == FieldsAt(i, n)
           x == pl[F]  y == Appended(x, B, e)
<1>1. FieldsOf(p, pl2, F) = X \cup Y
  <2> HIDE DEF x, y
  <2>1. FieldsAdded(p, pl, pl2, F, i, n) BY FieldsOfEntry
  <2> QED BY <2>1 DEF FieldsAdded
<1>2. /\ IsSeq(bytes) /\ IsSeq(offsets) /\ Len(offsets) = Len(x) /\ Begun(x, offsets)
      /\ Laid(n, X) /\ Recorded(calls, X)
  BY DEF Sound, Length
<1>3. n \in Nat /\ l \in Nat /\ IsSeq(written) BY <1>2, IsSeqDomain DEF Length
<1>4. Laid(n + l, Y) /\ \A z \in Y : z.offset >= n
  <2>1. Laid(n + l, FieldsAt(i, n)) /\ \A z \in FieldsAt(i, n) : z.offset >= n
    BY <1>3, FieldsAtLaid
  <2> QED BY <2>1
<1>5. Laid(n + l, X \cup Y)
  <2> HIDE DEF X, Y
  <2> QED BY <1>2, <1>3, <1>4, LaidFurther
<1>6. Recorded(CallsAfter(calls, i, n), X \cup Y)
  <2> HIDE DEF X
  <2>1. Recorded(CallsAfter(calls, i, n), X \cup FieldsAt(i, n)) BY <1>2, <1>3, RecordedFurther
  <2> QED BY <2>1
<1>7. IsSeq(bytes \o written) /\ Len(bytes \o written) = n + l
  <2>1. IsSeq(bytes \o written) /\ Len(bytes \o written) = Len(bytes) + Len(written) BY <1>2, <1>3, IsSeqConcat
  <2> QED BY <2>1 DEF Length
<1>8. pl2[F] = y BY DEF Appended, WithEntry
<1> HIDE DEF y
<1>9. Len(y) = Len(x) /\ Begun(y, offsets)
  <2>1. y = Appended(x, B, e) BY DEF y
  <2> HIDE DEF x
  <2>2. Blocks(x) /\ B \in DOMAIN x /\ e.start = n /\ (Len(x[B]) = 0 => offsets[B] = n) BY DEF x, BeginsAt, StartsAt
  <2>3. /\ Len(y) = Len(x) /\ DOMAIN y = DOMAIN x
        /\ Len(x[B]) \in Nat
        /\ DOMAIN x[B] = 1 .. Len(x[B]) /\ DOMAIN y[B] = 1 .. Len(x[B]) + 1
        /\ \A k \in DOMAIN x[B] : y[B][k] = x[B][k]
        /\ y[B][Len(x[B]) + 1] = e
        /\ \A c \in DOMAIN x : c # B => y[c] = x[c]
    BY <2>1, <2>2, AppendEntry
  <2>4. \A b \in DOMAIN y : 1 \in DOMAIN y[b] => y[b][1].start = offsets[b]
    <3>1. TAKE b \in DOMAIN y
    <3>2. HAVE 1 \in DOMAIN y[b]
    <3>3. CASE b # B BY <1>2, <2>3, <3>2, <3>3 DEF Begun
    <3>4. CASE b = B /\ Len(x[B]) = 0
      <4>1. y[B][0 + 1] = e BY <2>3, <3>4
      <4>2. y[B][1] = e BY <4>1
      <4> QED BY <2>2, <3>4, <4>2
    <3>5. CASE b = B /\ Len(x[B]) # 0
      <4>1. 1 \in DOMAIN x[B] BY <2>3, <3>5
      <4> QED BY <1>2, <2>3, <3>5, <4>1 DEF Begun
    <3> QED BY <3>3, <3>4, <3>5
  <2> QED BY <2>3, <2>4 DEF Begun
<1>10. Sound(p, pl2, F, bytes \o written, offsets, CallsAfter(calls, i, n))
  <2> HIDE DEF X, Y, x
  <2>1. Len(offsets) = Len(pl2[F]) /\ Begun(pl2[F], offsets) BY <1>2, <1>8, <1>9
  <2> QED BY <1>1, <1>2, <1>5, <1>6, <1>7, <2>1 DEF Sound
<1> QED BY <1>10

LEMMA EmissionKeeps ==
  ASSUME GenInv, LinkInv, Emission
  PROVE  LinkInv'
<1> DEFINE F == at.func  B == at.block  i == Gen!instr  n == Len(code[F])  x == placed[F]
           X == FieldsOf(prog, placed, F)  X2 == FieldsOf(prog, placed', F)
<1>1. /\ WellFormed(prog) /\ at \in Places /\ Placement(prog, at, placed) BY DEF GenInv
<1>2. /\ F \in DOMAIN prog /\ B \in DOMAIN prog[F].blocks /\ at.instr \in DOMAIN prog[F].blocks[B]
      /\ at' = [at EXCEPT !.instr = @ + 1] /\ prog' = prog /\ code_offset' = code_offset
      /\ block_offsets_to_set' = BranchesAfter(block_offsets_to_set, i, n)
      /\ direct_call_offset' = [direct_call_offset EXCEPT ![F] = CallsAfter(@, i, n)]
  BY DEF Emission
<1>3. PICK written : IsSeq(written) /\ Room(i, Len(written)) /\ code' = [code EXCEPT ![F] = @ \o written]
  BY DEF Emission
<1>4. PICK e : e.start = n /\ placed' = [placed EXCEPT ![F][B] = Append(@, e)] BY DEF Emission
<1>5. /\ B \in Nat /\ B >= 1 /\ at.instr \in Nat BY <1>1 DEF Places
<1>6. at.instr >= 1 /\ B # Len(prog[F].blocks) + 1
  <2>1. prog[F] \in Function BY <1>1, <1>2, WellFormedFunction
  <2> DEFINE f == prog[F]  j == at.instr
  <2>2. f.blocks \in Seq(Seq(Instr)) BY <2>1 DEF Function
  <2>3. B \in DOMAIN f.blocks /\ j \in DOMAIN f.blocks[B] BY <1>2
  <2> HIDE DEF f, j, B
  <2>4. B \in 1 .. Len(f.blocks) /\ Len(f.blocks) \in Nat BY <2>2, <2>3, LenProperties
  <2>5. f.blocks[B] \in Seq(Instr) BY <2>2, <2>3
  <2>6. j >= 1 BY <2>3, <2>5
  <2> QED BY <2>4, <2>6 DEF f, j
<1>7. /\ Blocks(x) /\ Len(x) = B /\ Len(x[B]) = at.instr - 1
      /\ placed = [f \in DOMAIN prog |-> placed[f]]
  BY <1>1, <1>2, <1>5, <1>6 DEF Placement
<1>8. DOMAIN placed = DOMAIN prog BY <1>7
<1>9. B \in DOMAIN x
  <2> HIDE DEF x, B
  <2>1. DOMAIN x = 1 .. Len(x) BY <1>7, AppendBlock
  <2> QED BY <1>5, <1>7, <2>1
<1>10. i = InstrAfter(prog, placed, F, B)
  <2>1. Len(x[B]) + 1 = at.instr BY <1>5, <1>7
  <2> QED BY <2>1 DEF InstrAfter, Gen!instr, Gen!Block, Gen!fn
<1>11. /\ code = [f \in DOMAIN prog |-> code[f]]
       /\ code_offset = [f \in DOMAIN prog |-> code_offset[f]]
       /\ direct_call_offset = [f \in DOMAIN prog |-> direct_call_offset[f]]
       /\ \A f \in DOMAIN prog :
            /\ Sound(prog, placed, f, code[f], code_offset[f], direct_call_offset[f])
            /\ f < F => AllFilled(code[f], code_offset[f], FieldsOf(prog, placed, f))
       /\ Open(prog, placed, at, code[F], code_offset[F], block_offsets_to_set)
  BY <1>2 DEF LinkInv
<1>12. Sound(prog, placed, F, code[F], code_offset[F], direct_call_offset[F]) BY <1>2, <1>11
<1>13. BeginsAt(placed, F, B, code_offset[F], n)
  <2>1. at.instr = 1 => code_offset[F][B] = n BY <1>11 DEF Open
  <2> QED BY <1>5, <1>7, <2>1 DEF BeginsAt
<1>14. /\ Sound(prog, placed', F, code[F] \o written, code_offset[F], CallsAfter(direct_call_offset[F], i, n))
       /\ X2 = X \cup FieldsAt(i, n)
  <2> SUFFICES ASSUME NEW pl2, pl2 = placed'
               PROVE  /\ Sound(prog, pl2, F, code[F] \o written, code_offset[F],
                               CallsAfter(direct_call_offset[F], i, n))
                      /\ FieldsOf(prog, pl2, F) = X \cup FieldsAt(i, n)
    OBVIOUS
  <2>1. pl2 = WithEntry(placed, F, B, e) BY <1>4 DEF WithEntry
  <2>2. F \in DOMAIN placed BY <1>2, <1>8
  <2> DEFINE bytes == code[F]  offsets == code_offset[F]  calls == direct_call_offset[F]  l == Len(written)
  <2>3. Sound(prog, placed, F, bytes, offsets, calls) /\ StartsAt(e, n) /\ Length(bytes, n)
        /\ BeginsAt(placed, F, B, offsets, n)
    BY <1>4, <1>12, <1>13 DEF StartsAt, Length, Sound
  <2>4. Length(written, l) /\ Room(i, l) /\ Blocks(placed[F]) /\ B \in DOMAIN placed[F]
        /\ i = InstrAfter(prog, placed, F, B)
    BY <1>3, <1>7, <1>9, <1>10 DEF Length
  <2> HIDE DEF F, B, i, bytes, offsets, calls, n, l, X
  <2>5. Sound(prog, pl2, F, bytes \o written, offsets, CallsAfter(calls, i, n))
    BY <2>1, <2>2, <2>3, <2>4, EntrySound
  <2>6. FieldsAdded(prog, placed, pl2, F, i, n)
    BY <2>1, <2>2, <2>3, <2>4, FieldsOfEntry
  <2> QED BY <2>5, <2>6 DEF bytes, offsets, calls, X, FieldsAdded
<1>15. \A f \in DOMAIN prog : f # F =>
         placed'[f] = placed[f] /\ FieldsOf(prog, placed', f) = FieldsOf(prog, placed, f)
  <2> SUFFICES ASSUME NEW pl2, pl2 = placed'
               PROVE  \A f \in DOMAIN prog : f # F =>
                        pl2[f] = placed[f] /\ FieldsOf(prog, pl2, f) = FieldsOf(prog, placed, f)
    OBVIOUS
  <2>1. pl2 = WithEntry(placed, F, B, e) BY <1>4 DEF WithEntry
  <2>2. Blocks(placed[F]) /\ B \in DOMAIN placed[F] /\ F \in DOMAIN placed BY <1>2, <1>7, <1>8, <1>9
  <2> HIDE DEF F, B
  <2>3. \A g \in DOMAIN placed : g # F => FieldsOf(prog, pl2, g) = FieldsOf(prog, placed, g)
    BY <2>1, <2>2, OtherFields
  <2>4. \A g \in DOMAIN placed : g # F => pl2[g] = placed[g] BY <2>1 DEF WithEntry
  <2> QED BY <1>8, <2>3, <2>4
<1>16. \A f \in DOMAIN prog : f # F =>
         /\ code'[f] = code[f] /\ code_offset'[f] = code_offset[f]
         /\ direct_call_offset'[f] = direct_call_offset[f]
  BY <1>2, <1>3
<1>17. /\ code'[F] = code[F] \o written /\ code_offset'[F] = code_offset[F]
       /\ direct_call_offset'[F] = CallsAfter(direct_call_offset[F], i, n)
  <2> HIDE DEF F, i, n
  <2>1. F \in DOMAIN code /\ F \in DOMAIN direct_call_offset BY <1>2, <1>11
  <2> QED BY <1>2, <1>3, <2>1
<1>18. at'.func = F /\ at'.block = B /\ at'.instr = at.instr + 1 BY <1>1, <1>2 DEF Places
<1>19. /\ code' = [f \in DOMAIN prog |-> code'[f]]
       /\ code_offset' = [f \in DOMAIN prog |-> code_offset'[f]]
       /\ direct_call_offset' = [f \in DOMAIN prog |-> direct_call_offset'[f]]
  <2>1. code' = [f \in DOMAIN prog |-> code'[f]]
    <3> HIDE DEF F
    <3> QED BY <1>3, <1>11
  <2>2. code_offset' = [f \in DOMAIN prog |-> code_offset'[f]] BY <1>2, <1>11
  <2>3. direct_call_offset' = [f \in DOMAIN prog |-> direct_call_offset'[f]]
    <3> HIDE DEF F, i, n
    <3> QED BY <1>2, <1>11
  <2> QED BY <2>1, <2>2, <2>3
<1>20. \A f \in DOMAIN prog : Sound(prog, placed', f, code'[f], code_offset'[f], direct_call_offset'[f])
  <2>1. TAKE f \in DOMAIN prog
  <2>2. CASE f = F BY <1>14, <1>17, <2>2
  <2>3. CASE f # F
    <3>1. Sound(prog, placed, f, code[f], code_offset[f], direct_call_offset[f]) BY <1>11
    <3>2. placed'[f] = placed[f] /\ FieldsOf(prog, placed', f) = FieldsOf(prog, placed, f) BY <1>15, <2>3
    <3>3. Sound(prog, placed', f, code[f], code_offset[f], direct_call_offset[f])
      BY <3>1, <3>2, SoundSame
    <3> QED BY <1>16, <2>3, <3>3
  <2> QED BY <2>2, <2>3
<1>21. \A f \in DOMAIN prog : f < F => AllFilled(code'[f], code_offset'[f], FieldsOf(prog, placed', f))
  <2>1. TAKE f \in DOMAIN prog
  <2>2. HAVE f < F
  <2>3. f # F BY <1>1, <2>2 DEF Places
  <2> QED BY <1>11, <1>15, <1>16, <2>2, <2>3
<1>22. Open(prog, placed', at', code'[F], code_offset'[F], block_offsets_to_set')
  <2>1. Waiting(block_offsets_to_set, X) /\ AllPending(block_offsets_to_set, X)
    BY <1>6, <1>11 DEF Open, AllPending
  <2>2. n \in Nat BY <1>12, IsSeqDomain DEF Sound
  <2>3. /\ Waiting(BranchesAfter(block_offsets_to_set, i, n), X \cup FieldsAt(i, n))
        /\ AllPending(BranchesAfter(block_offsets_to_set, i, n), X \cup FieldsAt(i, n))
    <3> HIDE DEF i, n, X
    <3> QED BY <2>1, <2>2, WaitingFurther
  <2>4. Waiting(block_offsets_to_set', X2) /\ AllPending(block_offsets_to_set', X2) BY <1>2, <1>14, <2>3
  <2>5. at'.instr # 1 BY <1>5, <1>6, <1>18
  <2> HIDE DEF F, i, n, X
  <2> QED BY <1>18, <2>4, <2>5 DEF Open, AllPending
<1> HIDE DEF F, i, n, X, X2, x, B
<1> QED BY <1>2, <1>18, <1>19, <1>20, <1>21, <1>22 DEF LinkInv

----------------------------------------------------------------------------
\* What byte_writer_int32_at and the patch pass of cow_module_jit do to a code.
Rewritten(bytes, offset, size, v) ==
  [p \in DOMAIN bytes |-> IF p - offset \in 1 .. size THEN <<v, p - offset - 1>> ELSE bytes[p]]

WithField(bytes, y, v) == Rewritten(bytes, y.offset, y.size, v)

\* The bytes of a field, and that they are the same in two codes.
FieldHas(bytes, y, v)     == \A k \in 1 .. y.size : bytes[y.offset + k] = <<v, k - 1>>
SameAt(bytes, more, x) == \A k \in 1 .. x.size : more[x.offset + k] = bytes[x.offset + k]

LEMMA RewrittenFacts ==
  ASSUME NEW bytes, NEW n, Length(bytes, n), NEW y, Inside(y, n), NEW v,
         NEW after, after = WithField(bytes, y, v)
  PROVE  /\ Length(after, n) /\ FieldHas(after, y, v)
         /\ \A x : Inside(x, n) /\ Apart(x, y) => SameAt(bytes, after, x)
<1> DEFINE o == y.offset  s == y.size
<1>1. n \in Nat /\ DOMAIN bytes = 1 .. n BY IsSeqDomain DEF Length
<1>2. o \in Nat /\ s \in {4, 8} /\ o + s <= n BY DEF Inside
<1>3. /\ DOMAIN after = 1 .. n /\ after = [p \in DOMAIN after |-> after[p]]
      /\ \A p \in 1 .. n : after[p] = IF p - o \in 1 .. s THEN <<v, p - o - 1>> ELSE bytes[p]
  <2>1. after = Rewritten(bytes, o, s, v) BY DEF WithField
  <2> HIDE DEF o, s
  <2> QED BY <1>1, <2>1 DEF Rewritten
<1>4. IsSeq(after) /\ Len(after) = n BY <1>1, <1>3, IsSeqFunction
<1>5. \A k \in 1 .. s : after[o + k] = <<v, k - 1>>
  <2>1. TAKE k \in 1 .. s
  <2> HIDE DEF o, s
  <2>2. o + k \in 1 .. n /\ (o + k) - o = k /\ k \in Int BY <1>1, <1>2
  <2>3. after[o + k] = <<v, (o + k) - o - 1>> BY <1>3, <2>2
  <2> QED BY <2>2, <2>3
<1>6. ASSUME NEW x, Inside(x, n), Apart(x, y), NEW k \in 1 .. x.size
      PROVE  after[x.offset + k] = bytes[x.offset + k]
  <2> DEFINE a == x.offset  b == x.size
  <2>1. a \in Nat /\ b \in {4, 8} /\ a + b <= n /\ k \in 1 .. b BY <1>6 DEF Inside
  <2>2. a + b <= o \/ o + s <= a BY <1>6 DEF Apart
  <2> HIDE DEF a, b, o, s
  <2>3. a + k \in 1 .. n /\ ~((a + k) - o \in 1 .. s) BY <1>1, <1>2, <2>1, <2>2
  <2>4. after[a + k] = bytes[a + k] BY <1>3, <2>3
  <2> QED BY <2>4 DEF a
<1> QED BY <1>4, <1>5, <1>6 DEF Length, FieldHas, SameAt

----------------------------------------------------------------------------
\* Nothing has been emitted of a function that is not begun.
LEMMA NothingLaid == \A n : Laid(n, {}) BY DEF Laid

LEMMA EmptySound ==
  ASSUME NEW p, NEW pl, NEW f, pl[f] = <<>>
  PROVE  Sound(p, pl, f, <<>>, <<>>, <<>>)
<1>1. FieldsOf(p, pl, f) = {} BY FieldsOfNone
<1>2. IsSeq(<<>>) /\ Len(<<>>) = 0 BY TuplesAreSeqs
<1>3. Recorded(<<>>, {}) BY <1>2 DEF Recorded
<1>4. DOMAIN <<>> = {} OBVIOUS
<1>5. Begun(<<>>, <<>>) BY <1>4 DEF Begun
<1> QED BY <1>1, <1>2, <1>3, <1>5, NothingLaid DEF Sound

LEMMA EmptyOpen ==
  ASSUME NEW p, NEW pl, NEW a, pl[a.func] = <<>>, a.instr = 0, NEW bytes, NEW offsets
  PROVE  Open(p, pl, a, bytes, offsets, <<>>)
<1>1. FieldsOf(p, pl, a.func) = {} BY FieldsOfNone
<1>2. IsSeq(<<>>) /\ Len(<<>>) = 0 BY TuplesAreSeqs
<1>3. Waiting(<<>>, {}) BY <1>2 DEF Waiting
<1> QED BY <1>1, <1>3 DEF Open

LEMMA LinkInvInit == InitBoth => LinkInv
<1> SUFFICES ASSUME InitBoth PROVE LinkInv
  OBVIOUS
<1>1. GenInv BY GenInvInit
<1>2. /\ at = [func |-> 1, block |-> 1, instr |-> 0] /\ block_offsets_to_set = <<>>
      /\ code = [f \in DOMAIN prog |-> <<>>] /\ code_offset = [f \in DOMAIN prog |-> <<>>]
      /\ direct_call_offset = [f \in DOMAIN prog |-> <<>>] /\ placed = [f \in DOMAIN prog |-> <<>>]
  BY DEF InitBoth, Gen!Init, Gen!BeginFunc
<1>3. \A f \in DOMAIN prog : /\ placed[f] = <<>> /\ code[f] = <<>> /\ code_offset[f] = <<>>
                             /\ direct_call_offset[f] = <<>>
  BY <1>2
<1>4. \A f \in DOMAIN prog :
        /\ Sound(prog, placed, f, code[f], code_offset[f], direct_call_offset[f])
        /\ AllFilled(code[f], code_offset[f], FieldsOf(prog, placed, f))
  BY <1>3, EmptySound, FieldsOfNone DEF AllFilled
<1>5. at.func \in DOMAIN prog =>
        Open(prog, placed, at, code[at.func], code_offset[at.func], block_offsets_to_set)
  <2>1. at.func = 1 /\ at.instr = 0 BY <1>2
  <2> QED BY <1>2, <1>3, <2>1, EmptyOpen
<1>6. /\ code = [f \in DOMAIN prog |-> code[f]]
      /\ code_offset = [f \in DOMAIN prog |-> code_offset[f]]
      /\ direct_call_offset = [f \in DOMAIN prog |-> direct_call_offset[f]]
  BY <1>2
<1> QED BY <1>4, <1>5, <1>6 DEF LinkInv

----------------------------------------------------------------------------
\* The place of the function that is being emitted.
LEMMA OpenFacts ==
  ASSUME GenInv, LinkInv, at.func \in DOMAIN prog
  PROVE  /\ at.func \in Nat /\ at.block \in Nat /\ at.block >= 1 /\ at.instr \in Nat
         /\ Blocks(placed[at.func]) /\ DOMAIN placed = DOMAIN prog
         /\ Len(placed[at.func]) = IF at.instr = 0 THEN at.block - 1 ELSE at.block
         /\ Sound(prog, placed, at.func, code[at.func], code_offset[at.func], direct_call_offset[at.func])
         /\ Open(prog, placed, at, code[at.func], code_offset[at.func], block_offsets_to_set)
         /\ at.block \in DOMAIN prog[at.func].blocks =>
              AllPending(block_offsets_to_set, FieldsOf(prog, placed, at.func))
<1>1. WellFormed(prog) /\ at \in Places /\ Placement(prog, at, placed) BY DEF GenInv
<1>2. /\ Sound(prog, placed, at.func, code[at.func], code_offset[at.func], direct_call_offset[at.func])
      /\ Open(prog, placed, at, code[at.func], code_offset[at.func], block_offsets_to_set)
  BY DEF LinkInv
<1>3. /\ at.func \in Nat /\ at.block \in Nat /\ at.block >= 1 /\ at.instr \in Nat BY <1>1 DEF Places
<1>4. /\ Blocks(placed[at.func]) /\ DOMAIN placed = DOMAIN prog
      /\ Len(placed[at.func]) = IF at.instr = 0 THEN at.block - 1 ELSE at.block
  BY <1>1 DEF Placement
<1>5. ASSUME at.block \in DOMAIN prog[at.func].blocks
      PROVE  AllPending(block_offsets_to_set, FieldsOf(prog, placed, at.func))
  <2>1. prog[at.func] \in Function BY <1>1, WellFormedFunction
  <2> DEFINE f == prog[at.func]
  <2>2. f.blocks \in Seq(Seq(Instr)) BY <2>1 DEF Function
  <2> HIDE DEF f
  <2>3. Len(f.blocks) \in Nat /\ DOMAIN f.blocks = 1 .. Len(f.blocks)
    <3> DEFINE S == Seq(Instr)
    <3> HIDE DEF S
    <3>1. f.blocks \in Seq(S) BY <2>2 DEF S
    <3> QED BY <3>1, LenProperties
  <2>4. at.block # Len(f.blocks) + 1 BY <1>5, <2>3 DEF f
  <2> QED BY <1>2, <2>4 DEF Open, AllPending, f
<1> QED BY <1>1, <1>2, <1>3, <1>4, <1>5

LEMMA StartBlockKeeps ==
  ASSUME GenInv, LinkInv, Gen!StartBlock
  PROVE  LinkInv'
<1> DEFINE F == at.func  B == at.block  n == Len(code[F])  x == placed[F]  offsets == code_offset[F]
           X == FieldsOf(prog, placed, F)
<1>1. /\ F \in DOMAIN prog /\ B \in DOMAIN prog[F].blocks /\ at.instr = 0
      /\ code_offset' = [code_offset EXCEPT ![F] = Append(@, n)]
      /\ placed' = [placed EXCEPT ![F] = Append(@, <<>>)]
      /\ at' = [at EXCEPT !.instr = 1]
      /\ prog' = prog /\ code' = code /\ direct_call_offset' = direct_call_offset
      /\ block_offsets_to_set' = block_offsets_to_set
  BY DEF Gen!StartBlock, Gen!Emitting, Gen!Finished, Gen!fn, Gen!current_index
<1>2. /\ F \in Nat /\ B \in Nat /\ B >= 1 /\ Blocks(x) /\ DOMAIN placed = DOMAIN prog /\ Len(x) = B - 1
      /\ Sound(prog, placed, F, code[F], offsets, direct_call_offset[F])
      /\ Open(prog, placed, at, code[F], offsets, block_offsets_to_set)
      /\ AllPending(block_offsets_to_set, X)
  BY <1>1, OpenFacts
<1>3. at'.func = F /\ at'.block = B /\ at'.instr = 1 BY <1>1 DEF GenInv, Places
<1>4. \A f \in DOMAIN prog : FieldsOf(prog, placed', f) = FieldsOf(prog, placed, f)
  <2> SUFFICES ASSUME NEW pl2, pl2 = placed'
               PROVE  \A f \in DOMAIN prog : FieldsOf(prog, pl2, f) = FieldsOf(prog, placed, f)
    OBVIOUS
  <2>1. pl2 = WithBlock(placed, F) BY <1>1 DEF WithBlock
  <2>2. F \in DOMAIN placed /\ Blocks(placed[F]) BY <1>1, <1>2
  <2> HIDE DEF F
  <2>3. \A g \in DOMAIN placed : FieldsOf(prog, pl2, g) = FieldsOf(prog, placed, g)
    BY <2>1, <2>2, FieldsOfBlock
  <2> QED BY <1>2, <2>3
<1>5. \A f \in DOMAIN prog : f # F => placed'[f] = placed[f] /\ code_offset'[f] = code_offset[f] BY <1>1
<1>6. placed'[F] = Append(x, <<>>) /\ code_offset'[F] = Append(offsets, n)
  <2>1. F \in DOMAIN code_offset BY <1>1 DEF LinkInv
  <2> HIDE DEF F, n
  <2> QED BY <1>1, <1>2, <2>1
<1>7. code_offset' = [f \in DOMAIN prog |-> code_offset'[f]]
  <2>1. code_offset = [f \in DOMAIN prog |-> code_offset[f]] BY DEF LinkInv
  <2> HIDE DEF F, n
  <2> QED BY <1>1, <2>1
<1> HIDE DEF X
<1>8. /\ IsSeq(code_offset'[F]) /\ Len(code_offset'[F]) = Len(placed'[F])
      /\ Begun(placed'[F], code_offset'[F]) /\ code_offset'[F][B] = n
  <2> DEFINE y == Append(x, <<>>)  more == Append(offsets, n)
  <2>1. /\ Blocks(y) /\ Len(x) \in Nat /\ Len(y) = Len(x) + 1
        /\ DOMAIN x = 1 .. Len(x) /\ DOMAIN y = 1 .. Len(x) + 1
        /\ \A b \in DOMAIN x : y[b] = x[b]
        /\ y[Len(x) + 1] = <<>>
    <3> HIDE DEF x
    <3> QED BY <1>2, AppendBlock
  <2>2. IsSeq(offsets) /\ Len(offsets) = Len(x) /\ Begun(x, offsets) BY <1>2 DEF Sound
  <2>3. /\ IsSeq(more) /\ Len(more) = Len(offsets) + 1
        /\ (\A k \in 1 .. Len(offsets) : more[k] = offsets[k]) /\ more[Len(offsets) + 1] = n
    <3> HIDE DEF offsets, n
    <3> QED BY <2>2, IsSeqAppend
  <2> HIDE DEF x, y, offsets, more, n
  <2>4. Begun(y, more)
    <3>1. SUFFICES ASSUME NEW b \in DOMAIN y, 1 \in DOMAIN y[b] PROVE y[b][1].start = more[b]
      BY DEF Begun
    <3>2. DOMAIN <<>> = {} OBVIOUS
    <3>3. b # Len(x) + 1 BY <2>1, <3>1, <3>2
    <3>4. b \in DOMAIN x /\ b \in 1 .. Len(offsets) BY <2>1, <2>2, <3>1, <3>3
    <3> QED BY <2>1, <2>2, <2>3, <3>1, <3>4 DEF Begun
  <2>5. Len(offsets) + 1 = B BY <1>2, <2>2
  <2>6. more[B] = n BY <2>3, <2>5
  <2> QED BY <1>6, <2>1, <2>2, <2>3, <2>4, <2>6 DEF y, more
<1>9. \A f \in DOMAIN prog :
        /\ Sound(prog, placed', f, code[f], code_offset'[f], direct_call_offset[f])
        /\ f < F => AllFilled(code[f], code_offset'[f], FieldsOf(prog, placed', f))
  <2>1. TAKE f \in DOMAIN prog
  <2>2. Sound(prog, placed, f, code[f], code_offset[f], direct_call_offset[f])
        /\ (f < F => AllFilled(code[f], code_offset[f], FieldsOf(prog, placed, f)))
    BY DEF LinkInv
  <2> HIDE DEF F
  <2>3. CASE f = F
    <3>1. ~(f < F) BY <1>2, <2>3
    <3> QED BY <1>4, <1>8, <2>2, <2>3, <3>1 DEF Sound
  <2>4. CASE f # F BY <1>4, <1>5, <2>2, <2>4, SoundSame
  <2> QED BY <2>3, <2>4
<1>10. Open(prog, placed', at', code[F], code_offset'[F], block_offsets_to_set)
  <2>1. FieldsOf(prog, placed', F) = X BY <1>1, <1>4 DEF X
  <2>2. Waiting(block_offsets_to_set, X) BY <1>2 DEF Open, X
  <2> QED BY <1>2, <1>3, <1>8, <2>1, <2>2 DEF Open, AllPending
<1>11. code = [f \in DOMAIN prog |-> code[f]]
       /\ direct_call_offset = [f \in DOMAIN prog |-> direct_call_offset[f]]
  BY DEF LinkInv
<1> HIDE DEF F, B, n, x, offsets
<1> QED BY <1>1, <1>3, <1>7, <1>9, <1>10, <1>11 DEF LinkInv

----------------------------------------------------------------------------
\* The steps that write nothing.
LEMMA EndBlockKeeps ==
  ASSUME GenInv, LinkInv, Gen!EndBlock
  PROVE  LinkInv'
<1> DEFINE F == at.func
<1>1. /\ F \in DOMAIN prog /\ at.block \in DOMAIN prog[F].blocks
      /\ at' = [at EXCEPT !.block = @ + 1, !.instr = 0]
      /\ prog' = prog /\ code' = code /\ code_offset' = code_offset /\ placed' = placed
      /\ direct_call_offset' = direct_call_offset /\ block_offsets_to_set' = block_offsets_to_set
  BY DEF Gen!EndBlock, Gen!Emitting, Gen!Finished, Gen!fn
<1>2. /\ Open(prog, placed, at, code[F], code_offset[F], block_offsets_to_set)
      /\ AllPending(block_offsets_to_set, FieldsOf(prog, placed, F))
  BY <1>1, OpenFacts
<1>3. at'.func = F /\ at'.instr = 0 BY <1>1 DEF GenInv, Places
<1>4. Open(prog, placed, at', code[F], code_offset[F], block_offsets_to_set)
  <2> HIDE DEF F
  <2>1. Waiting(block_offsets_to_set, FieldsOf(prog, placed, F)) BY <1>2 DEF Open, F
  <2> QED BY <1>2, <1>3, <2>1 DEF Open, AllPending
<1> HIDE DEF F
<1>5. /\ code = [f \in DOMAIN prog |-> code[f]]
      /\ code_offset = [f \in DOMAIN prog |-> code_offset[f]]
      /\ direct_call_offset = [f \in DOMAIN prog |-> direct_call_offset[f]]
      /\ \A f \in DOMAIN prog :
           /\ Sound(prog, placed, f, code[f], code_offset[f], direct_call_offset[f])
           /\ f < F => AllFilled(code[f], code_offset[f], FieldsOf(prog, placed, f))
  BY DEF LinkInv, F
<1> QED BY <1>1, <1>3, <1>4, <1>5 DEF LinkInv

LEMMA CallPtrOverrunKeeps ==
  ASSUME LinkInv, Gen!CallPtrOverrun
  PROVE  LinkInv'
<1>1. UNCHANGED <<prog, at, block_offsets_to_set, code, code_offset, direct_call_offset, placed>>
  BY DEF Gen!CallPtrOverrun
<1> QED BY <1>1 DEF LinkInv

LEMMA NextFuncKeeps ==
  ASSUME GenInv, LinkInv, Gen!NextFunc
  PROVE  LinkInv'
<1> DEFINE F == at.func  X == FieldsOf(prog, placed, F)
<1>1. /\ F \in DOMAIN prog /\ at' = [func |-> F + 1, block |-> 1, instr |-> 0]
      /\ prog' = prog /\ code' = code /\ code_offset' = code_offset /\ placed' = placed
      /\ direct_call_offset' = direct_call_offset /\ block_offsets_to_set' = <<>>
      /\ block_offsets_to_set = <<>>
  BY DEF Gen!NextFunc, Gen!EmittedAll, Gen!Emitting, Gen!Finished, Gen!BeginFunc
<1>2. /\ F \in Nat
      /\ Open(prog, placed, at, code[F], code_offset[F], block_offsets_to_set)
  BY <1>1, OpenFacts
<1>3. AllFilled(code[F], code_offset[F], X)
  <2>1. IsSeq(<<>>) /\ Len(<<>>) = 0 BY TuplesAreSeqs
  <2>2. \A x : ~ Pending(<<>>, x) BY <2>1 DEF Pending
  <2>3. \A x \in X : x.size = 4 => Filled(code[F], code_offset[F], x)
    BY <1>1, <1>2, <2>2 DEF Open
  <2> QED BY <2>3 DEF AllFilled
<1> HIDE DEF X
<1>4. F + 1 \in DOMAIN prog => placed[F + 1] = <<>>
  BY <1>2 DEF GenInv, Placement
<1>5. at'.func = F + 1 /\ at'.instr = 0 BY <1>1
<1>6. F + 1 \in DOMAIN prog => Open(prog, placed, at', code[F + 1], code_offset[F + 1], <<>>)
  <2>1. SUFFICES ASSUME F + 1 \in DOMAIN prog, NEW a, a = at'
                 PROVE  Open(prog, placed, a, code[F + 1], code_offset[F + 1], <<>>)
    OBVIOUS
  <2>2. a.func = F + 1 /\ a.instr = 0 /\ placed[a.func] = <<>> BY <1>4, <1>5, <2>1
  <2> QED BY <2>2, EmptyOpen
<1>7. \A f \in DOMAIN prog : f < F + 1 => AllFilled(code[f], code_offset[f], FieldsOf(prog, placed, f))
  <2>1. TAKE f \in DOMAIN prog
  <2>2. HAVE f < F + 1
  <2>3. f \in Nat BY DEF GenInv, WellFormed
  <2>4. f < F \/ f = F BY <1>2, <2>2, <2>3
  <2>5. f < F => AllFilled(code[f], code_offset[f], FieldsOf(prog, placed, f)) BY DEF LinkInv
  <2> QED BY <1>3, <2>4, <2>5 DEF X
<1>8. /\ code = [f \in DOMAIN prog |-> code[f]]
      /\ code_offset = [f \in DOMAIN prog |-> code_offset[f]]
      /\ direct_call_offset = [f \in DOMAIN prog |-> direct_call_offset[f]]
      /\ \A f \in DOMAIN prog : Sound(prog, placed, f, code[f], code_offset[f], direct_call_offset[f])
  BY DEF LinkInv
<1> HIDE DEF F
<1> QED BY <1>1, <1>5, <1>6, <1>7, <1>8 DEF LinkInv

----------------------------------------------------------------------------
\* The first of the waiting branches is filled in.
LEMMA FirstFilled ==
  ASSUME NEW p, NEW pl, NEW a, NEW f, f = a.func, NEW bytes, NEW offsets, NEW calls, NEW pending,
         Sound(p, pl, f, bytes, offsets, calls), Open(p, pl, a, bytes, offsets, pending),
         pending # <<>>, a.block = Len(p[f].blocks) + 1,
         NEW r, r = pending[1], NEW v, v = offsets[r.block] - r.offset - 4,
         NEW after, after = Rewritten(bytes, r.offset, 4, v)
  PROVE  Sound(p, pl, f, after, offsets, calls) /\ Open(p, pl, a, after, offsets, Tail(pending))
<1> DEFINE X == FieldsOf(p, pl, f)  n == Len(pending)  rest == Tail(pending)
<1>1. /\ IsSeq(bytes) /\ IsSeq(offsets) /\ Len(offsets) = Len(pl[f]) /\ Begun(pl[f], offsets)
      /\ Laid(Len(bytes), X) /\ Recorded(calls, X)
  BY DEF Sound
<1>2. /\ Waiting(pending, X)
      /\ \A x \in X : x.size = 4 => Pending(pending, x) \/ Filled(bytes, offsets, x)
      /\ a.instr = 1 => offsets[a.block] = Len(bytes)
  BY DEF Open
<1> HIDE DEF X
<1>3. /\ IsSeq(pending) /\ n \in Nat /\ n >= 1
      /\ IsSeq(rest) /\ Len(rest) = n - 1 /\ \A k \in 1 .. n - 1 : rest[k] = pending[k + 1]
  <2>1. IsSeq(pending) BY <1>2 DEF Waiting
  <2> QED BY <2>1, IsSeqDomain, IsSeqTail
<1>4. \A k \in 1 .. n : pending[k].instr_size = 4 /\ Field(pending[k].offset, 4, pending[k].block) \in X
  BY <1>2 DEF Waiting
<1> HIDE DEF n, rest
<1> DEFINE y == Field(r.offset, 4, r.block)
<1>5. y \in X
  <2>1. 1 \in 1 .. n BY <1>3
  <2> QED BY <1>4, <2>1
<1>6. y.offset = r.offset /\ y.size = 4 /\ y.target = r.block BY DEF Field
<1> HIDE DEF y
<1>7. \A x \in X : Inside(x, Len(bytes)) /\ x = Field(x.offset, x.size, x.target) BY <1>1 DEF Laid
<1>8. \A x \in X : x = y \/ Apart(x, y) BY <1>1, <1>5 DEF Laid
<1> DEFINE l == Len(bytes)
<1>9. /\ Length(bytes, l) /\ Inside(y, l) /\ after = WithField(bytes, y, v)
      /\ \A x \in X : Inside(x, l)
  BY <1>1, <1>5, <1>6, <1>7 DEF Length, WithField
<1> HIDE DEF l
<1>10. /\ Length(after, l) /\ FieldHas(after, y, v)
       /\ \A x : Inside(x, l) /\ Apart(x, y) => SameAt(bytes, after, x)
  BY <1>9, RewrittenFacts
<1>11. Filled(after, offsets, y) BY <1>6, <1>10 DEF Filled, FieldHas
<1>12. ASSUME NEW x \in X, x.size = 4 PROVE Pending(rest, x) \/ Filled(after, offsets, x)
  <2>1. CASE x = y BY <1>11, <2>1
  <2>2. CASE x # y /\ Filled(bytes, offsets, x)
    <3>1. \A k \in 1 .. 4 : after[x.offset + k] = bytes[x.offset + k]
      BY <1>8, <1>9, <1>10, <1>12, <2>2 DEF SameAt
    <3> QED BY <2>2, <3>1 DEF Filled
  <2>3. CASE x # y /\ Pending(pending, x)
    <3>1. PICK k \in 1 .. n : pending[k].offset = x.offset /\ pending[k].block = x.target
      BY <2>3 DEF Pending, n
    <3>2. x = Field(x.offset, 4, x.target) BY <1>7, <1>12
    <3>3. k # 1 BY <2>3, <3>1, <3>2 DEF y
    <3>4. k - 1 \in 1 .. n - 1 /\ (k - 1) + 1 = k BY <1>3, <3>3
    <3>5. rest[k - 1] = pending[k] /\ k - 1 \in 1 .. Len(rest) BY <1>3, <3>4
    <3> QED BY <3>1, <3>5 DEF Pending
  <2> QED BY <1>2, <1>12, <2>1, <2>2, <2>3
<1>13. Waiting(rest, X)
  <2>1. ASSUME NEW k \in 1 .. Len(rest)
        PROVE  rest[k].instr_size = 4 /\ Field(rest[k].offset, 4, rest[k].block) \in X
    <3>1. k \in 1 .. n - 1 /\ k + 1 \in 1 .. n BY <1>3
    <3>2. rest[k] = pending[k + 1] BY <1>3, <3>1
    <3> QED BY <1>4, <3>1, <3>2
  <2> QED BY <1>3, <2>1 DEF Waiting
<1>14. Sound(p, pl, f, after, offsets, calls) BY <1>1, <1>10 DEF Sound, Length, l, X
<1>15. Open(p, pl, a, after, offsets, rest)
  <2>1. a.instr = 1 => offsets[a.block] = Len(after) BY <1>2, <1>10 DEF Length, l
  <2> QED BY <1>12, <1>13, <2>1 DEF Open, X
<1> QED BY <1>14, <1>15 DEF rest

LEMMA ReplaceOffsetKeeps ==
  ASSUME GenInv, LinkInv, Gen!ReplaceOffset
  PROVE  LinkInv'
<1> DEFINE F == at.func  r == block_offsets_to_set[1]  v == code_offset[F][r.block] - r.offset - 4
           after == Rewritten(code[F], r.offset, 4, v)
<1>1. /\ F \in DOMAIN prog /\ at.block = Len(prog[F].blocks) + 1 /\ block_offsets_to_set # <<>>
      /\ block_offsets_to_set' = Tail(block_offsets_to_set)
      /\ prog' = prog /\ at' = at /\ code_offset' = code_offset /\ placed' = placed
      /\ direct_call_offset' = direct_call_offset
  BY DEF Gen!ReplaceOffset, Gen!EmittedAll, Gen!Emitting, Gen!Finished, Gen!fn
<1>2. /\ F \in Nat
      /\ Sound(prog, placed, F, code[F], code_offset[F], direct_call_offset[F])
      /\ Open(prog, placed, at, code[F], code_offset[F], block_offsets_to_set)
  BY <1>1, OpenFacts
<1>3. code' = [code EXCEPT ![F] = after]
  <2> DEFINE h == Head(block_offsets_to_set)
  <2>1. code' = [code EXCEPT ![F] = Gen!WrittenAt(@, h.offset, Gen!Displacement(h))]
    BY DEF Gen!ReplaceOffset
  <2>2. Waiting(block_offsets_to_set, FieldsOf(prog, placed, F)) BY <1>2 DEF Open
  <2>3. h = r /\ r.instr_size = 4
    <3>1. IsSeq(block_offsets_to_set) BY <2>2 DEF Waiting
    <3>2. h = r /\ 1 \in 1 .. Len(block_offsets_to_set) BY <1>1, <3>1, IsSeqTail, IsSeqDomain
    <3> QED BY <2>2, <3>2 DEF Waiting
  <2>4. Gen!Displacement(h) = v BY <2>3 DEF Gen!Displacement
  <2>5. Gen!WrittenAt(code[F], r.offset, v) = after BY DEF Gen!WrittenAt, Rewritten
  <2> HIDE DEF h, r, v, after, F
  <2> QED BY <2>1, <2>3, <2>4, <2>5
<1>4. /\ Sound(prog, placed, F, after, code_offset[F], direct_call_offset[F])
      /\ Open(prog, placed, at, after, code_offset[F], Tail(block_offsets_to_set))
  <2> DEFINE offsets == code_offset[F]  calls == direct_call_offset[F]  bytes == code[F]
  <2>1. /\ F = at.func /\ r = block_offsets_to_set[1] /\ v = offsets[r.block] - r.offset - 4
        /\ after = Rewritten(bytes, r.offset, 4, v)
    OBVIOUS
  <2> HIDE DEF F, r, v, after, offsets, calls, bytes
  <2>2. /\ Sound(prog, placed, F, bytes, offsets, calls)
        /\ Open(prog, placed, at, bytes, offsets, block_offsets_to_set)
    BY <1>2 DEF offsets, calls, bytes
  <2>3. /\ Sound(prog, placed, F, after, offsets, calls)
        /\ Open(prog, placed, at, after, offsets, Tail(block_offsets_to_set))
    BY <1>1, <2>1, <2>2, FirstFilled
  <2> QED BY <2>3 DEF offsets, calls
<1> HIDE DEF F, after
<1>5. /\ code = [f \in DOMAIN prog |-> code[f]]
      /\ code_offset = [f \in DOMAIN prog |-> code_offset[f]]
      /\ direct_call_offset = [f \in DOMAIN prog |-> direct_call_offset[f]]
      /\ \A f \in DOMAIN prog :
           /\ Sound(prog, placed, f, code[f], code_offset[f], direct_call_offset[f])
           /\ f < F => AllFilled(code[f], code_offset[f], FieldsOf(prog, placed, f))
  BY DEF LinkInv, F
<1>6. /\ code' = [f \in DOMAIN prog |-> code'[f]] /\ code'[F] = after
      /\ \A f \in DOMAIN prog : f # F => code'[f] = code[f]
  BY <1>1, <1>3, <1>5
<1>7. \A f \in DOMAIN prog :
        /\ Sound(prog, placed, f, code'[f], code_offset[f], direct_call_offset[f])
        /\ f < F => AllFilled(code'[f], code_offset[f], FieldsOf(prog, placed, f))
  <2>1. TAKE f \in DOMAIN prog
  <2>2. CASE f = F
    <3>1. ~(f < F) BY <1>2, <2>2
    <3> QED BY <1>4, <1>6, <2>2, <3>1
  <2>3. CASE f # F BY <1>5, <1>6, <2>3
  <2> QED BY <2>2, <2>3
<1>8. at.func = F BY DEF F
<1> QED BY <1>1, <1>4, <1>5, <1>6, <1>7, <1>8 DEF LinkInv

\* The generator, one step at a time.
LEMMA GenerateKeepsLink ==
  ASSUME GenInv, LinkInv, Gen!Generate
  PROVE  LinkInv'
<1>1. direct_call_offset = [f \in DOMAIN prog |-> direct_call_offset[f]] BY DEF LinkInv
<1>2. CASE \/ Gen!ConstXmm \/ Gen!ConstInt \/ Gen!AddXmm \/ Gen!AddInt \/ Gen!Load \/ Gen!Store
           \/ Gen!Ret \/ Gen!RetVoid \/ Gen!Skipped
  BY <1>1, <1>2, OfPlain, EmissionKeeps
<1>3. CASE Gen!CallPtr BY <1>1, <1>3, OfCallPtr, EmissionKeeps
<1>4. CASE Gen!CallFunc BY <1>4, OfCallFunc, EmissionKeeps
<1>5. CASE Gen!Br \/ Gen!CondBr
  <2>1. at.func \in DOMAIN prog BY <1>5 DEF Gen!Br, Gen!CondBr, Gen!Fetched, Gen!Emitting, Gen!Finished
  <2>2. IsSeq(code[at.func]) BY <2>1, OpenFacts DEF Sound
  <2> QED BY <1>1, <1>5, <2>2, OfBr, OfCondBr, EmissionKeeps
<1>6. CASE Gen!StartBlock BY <1>6, StartBlockKeeps
<1>7. CASE Gen!EndBlock BY <1>7, EndBlockKeeps
<1>8. CASE Gen!CallPtrOverrun BY <1>8, CallPtrOverrunKeeps
<1>9. CASE Gen!ReplaceOffset BY <1>9, ReplaceOffsetKeeps
<1>10. CASE Gen!NextFunc BY <1>10, NextFuncKeeps
<1> QED BY <1>2, <1>3, <1>4, <1>5, <1>6, <1>7, <1>8, <1>9, <1>10 DEF Gen!Generate, Gen!jit_instr

----------------------------------------------------------------------------
(***************************************************************************)
(* The patch pass of cow_module_jit, one call after another.               *)
(***************************************************************************)
\* The field of the call recorded as number k, and the code with it patched.
Callee8(calls, k) == Field(calls[k].offset, 8, calls[k].func)
PatchedTo(bytes, calls, k) == WithAddress(bytes, calls[k].offset, CodeAddr[calls[k].func])

Pass(g, bytes, calls, l) ==
  g = [n \in 0 .. l |-> IF n = 0 THEN bytes ELSE PatchedTo(g[n - 1], calls, n)]

LEMMA PassExists ==
  ASSUME NEW bytes, NEW calls, NEW n \in Nat
  PROVE  \E g : Pass(g, bytes, calls, n)
<1> DEFINE Bad == {l \in Nat : ~ \E g : Pass(g, bytes, calls, l)}
<1>1. SUFFICES ASSUME Bad # {} PROVE FALSE OBVIOUS
<1>2. PICK l \in Bad : \A y \in Bad : l <= y
  <2>1. Bad \subseteq Nat OBVIOUS
  <2> HIDE DEF Bad
  <2> QED BY <1>1, <2>1, LeastNat
<1>3. l \in Nat /\ ~ \E g : Pass(g, bytes, calls, l) OBVIOUS
<1>4. CASE l = 0
  <2> DEFINE g == [n0 \in 0 .. 0 |-> bytes]
  <2>1. g = [n0 \in 0 .. 0 |-> IF n0 = 0 THEN bytes ELSE PatchedTo(g[n0 - 1], calls, n0)] OBVIOUS
  <2> HIDE DEF g
  <2>2. Pass(g, bytes, calls, 0) BY <2>1 DEF Pass
  <2> QED BY <1>3, <1>4, <2>2
<1>5. CASE l # 0
  <2>1. l - 1 \in Nat /\ ~(l <= l - 1) BY <1>3, <1>5
  <2>2. l - 1 \notin Bad
    <3> HIDE DEF Bad
    <3> QED BY <1>2, <2>1
  <2>3. PICK g : Pass(g, bytes, calls, l - 1) BY <2>1, <2>2
  <2> DEFINE h == [j \in 0 .. l |-> IF j < l THEN g[j] ELSE PatchedTo(g[j - 1], calls, j)]
  <2>4. \A j \in 0 .. l : h[j] = IF j = 0 THEN bytes ELSE PatchedTo(h[j - 1], calls, j)
    <3>1. TAKE j \in 0 .. l
    <3>2. \A k \in 0 .. l : k < l => h[k] = g[k] OBVIOUS
    <3>3. j # 0 => j - 1 \in 0 .. l /\ j - 1 < l BY <1>3
    <3>4. CASE j < l
      <4>1. j \in 0 .. l - 1 BY <1>3, <3>4
      <4>2. g[j] = IF j = 0 THEN bytes ELSE PatchedTo(g[j - 1], calls, j) BY <2>3, <4>1 DEF Pass
      <4> HIDE DEF h
      <4> QED BY <3>2, <3>3, <3>4, <4>2
    <3>5. CASE ~(j < l)
      <4>1. h[j] = PatchedTo(g[j - 1], calls, j) /\ j # 0 BY <1>3, <1>5, <3>5
      <4> HIDE DEF h
      <4> QED BY <3>2, <3>3, <4>1
    <3> QED BY <3>4, <3>5
  <2>5. h = [j \in 0 .. l |-> h[j]] OBVIOUS
  <2> HIDE DEF h
  <2>6. Pass(h, bytes, calls, l) BY <2>4, <2>5 DEF Pass
  <2> QED BY <1>3, <2>6
<1> QED BY <1>4, <1>5

LEMMA PatchedIsPass ==
  ASSUME NEW f, IsSeq(direct_call_offset[f])
  PROVE  \E g : /\ Pass(g, code[f], direct_call_offset[f], Len(direct_call_offset[f]))
                /\ Patched(f) = g[Len(direct_call_offset[f])]
<1> DEFINE calls == direct_call_offset[f]  N == Len(calls)  bytes == code[f]
           g == CHOOSE g : Pass(g, bytes, calls, N)
<1>1. Patched(f) = g[N] BY DEF Patched, Pass, PatchedTo, CalleeOf
<1>2. N \in Nat BY IsSeqDomain
<1>3. Pass(g, bytes, calls, N)
  <2> HIDE DEF N, calls, bytes
  <2> QED BY <1>2, PassExists
<1> HIDE DEF g
<1> QED BY <1>1, <1>3

----------------------------------------------------------------------------
\* What is true of a code of which the first k calls have been patched.
Calls(after, calls, k) == \A j \in 1 .. k : FieldHas(after, Callee8(calls, j), CodeAddr[calls[j].func])
After(bytes, n, X, calls, k, after) ==
  /\ Length(after, n) /\ Calls(after, calls, k)
  /\ \A x \in X : x.size = 4 => SameAt(bytes, after, x)

LEMMA PatchOne ==
  ASSUME NEW n \in Nat, NEW X, Laid(n, X), NEW calls, Recorded(calls, X), NEW bytes,
         NEW k, k \in 1 .. Len(calls), NEW before, After(bytes, n, X, calls, k - 1, before),
         NEW after, after = PatchedTo(before, calls, k)
  PROVE  After(bytes, n, X, calls, k, after)
<1> DEFINE y == Callee8(calls, k)  v == CodeAddr[calls[k].func]
<1>1. y \in X /\ \A j \in 1 .. Len(calls) : Callee8(calls, j) \in X BY DEF Recorded, Callee8
<1>2. y.size = 8 /\ y.offset = calls[k].offset /\ y.target = calls[k].func BY DEF Callee8, Field
<1>3. \A j : Callee8(calls, j).target = calls[j].func BY DEF Callee8, Field
<1>4. after = WithField(before, y, v)
  <2>1. after = WithAddress(before, y.offset, v) BY <1>2 DEF PatchedTo
  <2> QED BY <1>2, <2>1 DEF WithAddress, WithField, Rewritten
<1> HIDE DEF y, v
<1>5. Inside(y, n) /\ (\A x \in X : Inside(x, n)) /\ \A x \in X : x = y \/ Apart(x, y)
  BY <1>1 DEF Laid
<1>6. Length(before, n) BY DEF After
<1>7. /\ Length(after, n) /\ FieldHas(after, y, v)
      /\ \A x : Inside(x, n) /\ Apart(x, y) => SameAt(before, after, x)
  BY <1>4, <1>5, <1>6, RewrittenFacts
<1>8. \A x \in X : x.size = 4 => SameAt(bytes, after, x)
  <2>1. TAKE x \in X
  <2>2. HAVE x.size = 4
  <2>3. x # y BY <1>2, <2>2
  <2>4. SameAt(before, after, x) BY <1>5, <1>7, <2>3
  <2>5. SameAt(bytes, before, x) BY <2>2 DEF After
  <2> QED BY <2>4, <2>5 DEF SameAt
<1>9. Calls(after, calls, k)
  <2>1. SUFFICES ASSUME NEW j \in 1 .. k
                 PROVE  FieldHas(after, Callee8(calls, j), CodeAddr[calls[j].func])
    BY DEF Calls
  <2> DEFINE x == Callee8(calls, j)
  <2>0. Len(calls) \in Nat /\ k \in Nat BY IsSeqDomain DEF Recorded
  <2>2. x \in X
    <3>1. j \in 1 .. Len(calls) BY <2>0
    <3> QED BY <1>1, <3>1
  <2>3. CASE x = y
    <3>1. calls[j].func = calls[k].func BY <1>2, <1>3, <2>3
    <3> QED BY <1>7, <2>3, <3>1 DEF v
  <2>4. CASE x # y
    <3>1. j # k BY <2>4 DEF y
    <3>2. j \in 1 .. k - 1 BY <2>0, <3>1
    <3>3. FieldHas(before, x, CodeAddr[calls[j].func]) BY <3>2 DEF After, Calls
    <3> HIDE DEF x
    <3>4. SameAt(before, after, x) BY <1>5, <1>7, <2>2, <2>4
    <3>5. FieldHas(after, x, CodeAddr[calls[j].func]) BY <3>3, <3>4 DEF FieldHas, SameAt
    <3> QED BY <3>5 DEF x
  <2> QED BY <2>3, <2>4
<1> QED BY <1>7, <1>8, <1>9 DEF After

LEMMA PassAfter ==
  ASSUME NEW n \in Nat, NEW X, Laid(n, X), NEW calls, Recorded(calls, X), NEW bytes, Length(bytes, n),
         NEW l, l = Len(calls), NEW g, Pass(g, bytes, calls, l)
  PROVE  After(bytes, n, X, calls, l, g[l])
<1>1. l \in Nat BY IsSeqDomain DEF Recorded
<1> DEFINE Bad == {k \in Nat : k <= l /\ ~ After(bytes, n, X, calls, k, g[k])}
<1>2. SUFFICES ASSUME Bad # {} PROVE FALSE BY <1>1
<1>3. PICK k \in Bad : \A j \in Bad : k <= j
  <2>1. Bad \subseteq Nat OBVIOUS
  <2> HIDE DEF Bad
  <2> QED BY <1>2, <2>1, LeastNat
<1>4. k \in Nat /\ k <= l /\ ~ After(bytes, n, X, calls, k, g[k]) OBVIOUS
<1>5. k \in 0 .. l BY <1>1, <1>4
<1>6. g[k] = IF k = 0 THEN bytes ELSE PatchedTo(g[k - 1], calls, k) BY <1>5 DEF Pass
<1>7. CASE k = 0
  <2>1. g[k] = bytes BY <1>6, <1>7
  <2>2. Calls(bytes, calls, 0) BY DEF Calls
  <2>3. \A x : SameAt(bytes, bytes, x) BY DEF SameAt
  <2>4. After(bytes, n, X, calls, 0, bytes) BY <2>2, <2>3 DEF After
  <2> QED BY <1>4, <1>7, <2>1, <2>4
<1>8. CASE k # 0
  <2>1. k - 1 \in Nat /\ k - 1 <= l /\ ~(k <= k - 1) BY <1>1, <1>4, <1>8
  <2>2. k - 1 \notin Bad
    <3> HIDE DEF Bad
    <3> QED BY <1>3, <2>1
  <2>3. After(bytes, n, X, calls, k - 1, g[k - 1]) BY <2>1, <2>2
  <2> DEFINE before == g[k - 1]  after == g[k]
  <2>4. after = PatchedTo(before, calls, k) BY <1>6, <1>8
  <2>5. k \in 1 .. Len(calls) BY <1>1, <1>4, <1>8
  <2>6. After(bytes, n, X, calls, k - 1, before) BY <2>3
  <2> HIDE DEF before, after
  <2>7. After(bytes, n, X, calls, k, after) BY <2>4, <2>5, <2>6, PatchOne
  <2> QED BY <1>4, <2>7 DEF after
<1> QED BY <1>7, <1>8

\* A function whose branches are filled in and whose calls are patched.
LEMMA LinkedFields ==
  ASSUME GenInv, LinkInv, Gen!Finished, NEW f \in DOMAIN prog,
         NEW X, X = FieldsOf(prog, placed, f), NEW bytes, bytes = Patched(f)
  PROVE  /\ Length(bytes, Len(bytes)) /\ \A x \in X : Inside(x, Len(bytes))
         /\ \A x \in X : x.size = 4 => FieldHas(bytes, x, code_offset[f][x.target] - x.offset - 4)
         /\ \A x \in X : x.size = 8 => FieldHas(bytes, x, CodeAddr[x.target])
<1> DEFINE calls == direct_call_offset[f]  n == Len(code[f])  before == code[f]
<1>1. f < at.func
  <2>1. WellFormed(prog) /\ at \in Places BY DEF GenInv
  <2>2. at.func \notin DOMAIN prog BY DEF Gen!Finished
  <2>3. DOMAIN prog = 1 .. Len(prog) /\ Len(prog) \in Nat BY <2>1, LenProperties DEF WellFormed
  <2>4. at.func \in Nat \ {0} BY <2>1 DEF Places
  <2> QED BY <2>2, <2>3, <2>4
<1>2. /\ Sound(prog, placed, f, before, code_offset[f], calls)
      /\ AllFilled(before, code_offset[f], X)
  BY <1>1 DEF LinkInv
<1>3. Length(before, n) /\ n \in Nat /\ Laid(n, X) /\ Recorded(calls, X)
  BY <1>2, IsSeqDomain DEF Sound, Length
<1>4. IsSeq(calls) BY <1>3 DEF Recorded
<1>5. PICK g : Pass(g, before, calls, Len(calls)) /\ bytes = g[Len(calls)]
  BY <1>4, PatchedIsPass
<1> DEFINE l == Len(calls)
<1>6. After(before, n, X, calls, l, bytes)
  <2>1. l = Len(calls) /\ Pass(g, before, calls, l) /\ bytes = g[l] BY <1>5
  <2> HIDE DEF before, n, calls, l
  <2>2. After(before, n, X, calls, l, g[l]) BY <1>3, <2>1, PassAfter
  <2> QED BY <2>1, <2>2
<1>7. n = Len(bytes) /\ Length(bytes, n) BY <1>6 DEF After, Length
<1>8. \A x \in X : Inside(x, n) /\ x = Field(x.offset, x.size, x.target) BY <1>3 DEF Laid
<1>9. ASSUME NEW x \in X, x.size = 4
      PROVE  FieldHas(bytes, x, code_offset[f][x.target] - x.offset - 4)
  <2> DEFINE v == code_offset[f][x.target] - x.offset - 4
  <2>1. Filled(before, code_offset[f], x) BY <1>2, <1>9 DEF AllFilled
  <2>2. \A k \in 1 .. x.size : before[x.offset + k] = <<v, k - 1>> BY <1>9, <2>1 DEF Filled
  <2>3. SameAt(before, bytes, x) BY <1>6, <1>9 DEF After
  <2> HIDE DEF v, before
  <2>4. FieldHas(bytes, x, v) BY <2>2, <2>3 DEF SameAt, FieldHas
  <2> QED BY <2>4 DEF v
<1>10. ASSUME NEW x \in X, x.size = 8 PROVE FieldHas(bytes, x, CodeAddr[x.target])
  <2>1. PICK k \in 1 .. Len(calls) : calls[k].offset = x.offset /\ calls[k].func = x.target
    BY <1>3, <1>10 DEF Recorded
  <2>2. x = Callee8(calls, k) BY <1>8, <1>10, <2>1 DEF Callee8
  <2>3. FieldHas(bytes, Callee8(calls, k), CodeAddr[calls[k].func]) BY <1>6, <2>1 DEF After, Calls
  <2> QED BY <2>1, <2>2, <2>3
<1> QED BY <1>7, <1>8, <1>9, <1>10

----------------------------------------------------------------------------
\* A field's bytes are those of one number.
LEMMA FieldReads ==
  ASSUME NEW bytes, NEW n, Length(bytes, n), NEW x, Inside(x, n), NEW v, FieldHas(bytes, x, v)
  PROVE  Machine!IsNumber(bytes, x.offset, x.size) /\ Machine!NumberAt(bytes, x.offset) = v
<1> DEFINE o == x.offset  s == x.size
<1>1. o \in Nat /\ s \in {4, 8} /\ o + s <= n /\ n = Len(bytes) BY DEF Inside, Length
<1>2. \A k \in 1 .. s : bytes[o + k] = <<v, k - 1>> BY DEF FieldHas
<1> HIDE DEF o, s
<1>3. bytes[o + 1] = <<v, 1 - 1>> BY <1>1, <1>2
<1>4. bytes[o + 1][1] = v BY <1>3
<1>5. Machine!IsNumber(bytes, o, s) /\ Machine!NumberAt(bytes, o) = v
  BY <1>1, <1>2, <1>4 DEF Machine!IsNumber, Machine!NumberAt
<1> QED BY <1>5 DEF o, s

LEMMA FieldOfInstr ==
  ASSUME NEW p, NEW pl, NEW f, NEW b \in DOMAIN pl[f], NEW k \in DOMAIN pl[f][b],
         NEW x \in FieldsAt(p[f].blocks[b][k], pl[f][b][k].start)
  PROVE  x \in FieldsOf(p, pl, f)
BY DEF FieldsOf

LEMMA LinkLinks ==
  ASSUME GenInv, LinkInv, Link
  PROVE  CodeLinked'
<1>1. /\ Gen!Finished /\ generated_func' = [f \in DOMAIN prog |-> Patched(f)]
      /\ prog' = prog /\ placed' = placed /\ code_offset' = code_offset
  BY DEF Link, vars, gen_vars
<1> DEFINE linked == [f \in DOMAIN prog |-> Patched(f)]
<1>2. SUFFICES
        ASSUME NEW f \in DOMAIN prog, NEW b \in DOMAIN placed[f], NEW k \in DOMAIN placed[f][b],
               NEW i, i = prog[f].blocks[b][k], NEW start, start = placed[f][b][k].start,
               NEW bytes, bytes = Patched(f)
        PROVE  LET Reads(p, n, v) == Machine!IsNumber(bytes, p, n) /\ Machine!NumberAt(bytes, p) = v
                   Leads(p, target) == Reads(p, 4, code_offset[f][target] - p - 4)
               IN  /\ i.op = "BR"        => Leads(start + 1, i.yes)
                   /\ i.op = "COND_BR"   => Leads(start + 6, i.no) /\ Leads(start + 11, i.yes)
                   /\ i.op = "CALL_FUNC" => Reads(start + 2, 8, CodeAddr[i.callee])
                   /\ k = 1 => start = code_offset[f][b]
  <2>1. generated_func' = linked BY <1>1
  <2>2. DOMAIN linked = DOMAIN prog /\ \A f \in DOMAIN prog : linked[f] = Patched(f) OBVIOUS
  <2> HIDE DEF linked
  <2> QED BY <1>1, <1>2, <2>1, <2>2 DEF CodeLinked
<1> DEFINE X == FieldsOf(prog, placed, f)
<1>3. /\ Length(bytes, Len(bytes)) /\ \A x \in X : Inside(x, Len(bytes))
      /\ \A x \in X : x.size = 4 => FieldHas(bytes, x, code_offset[f][x.target] - x.offset - 4)
      /\ \A x \in X : x.size = 8 => FieldHas(bytes, x, CodeAddr[x.target])
  BY <1>1, <1>2, LinkedFields
<1>4. \A x \in FieldsAt(i, start) : x \in X BY <1>2, FieldOfInstr
<1> HIDE DEF X
<1>5. ASSUME NEW o, NEW target, Field(o, 4, target) \in X
      PROVE  Machine!IsNumber(bytes, o, 4) /\ Machine!NumberAt(bytes, o) = code_offset[f][target] - o - 4
  <2> DEFINE x == Field(o, 4, target)  n == Len(bytes)  v == code_offset[f][target] - o - 4
  <2>1. x.offset = o /\ x.size = 4 /\ x.target = target /\ x \in X BY <1>5 DEF Field
  <2> HIDE DEF x
  <2>2. Length(bytes, n) /\ Inside(x, n) /\ FieldHas(bytes, x, v) BY <1>3, <2>1
  <2> HIDE DEF n, v
  <2>3. Machine!IsNumber(bytes, x.offset, x.size) /\ Machine!NumberAt(bytes, x.offset) = v
    BY <2>2, FieldReads
  <2> QED BY <2>1, <2>3 DEF v
<1>6. ASSUME NEW o, NEW target, Field(o, 8, target) \in X
      PROVE  Machine!IsNumber(bytes, o, 8) /\ Machine!NumberAt(bytes, o) = CodeAddr[target]
  <2> DEFINE x == Field(o, 8, target)  n == Len(bytes)  v == CodeAddr[target]
  <2>1. x.offset = o /\ x.size = 8 /\ x.target = target /\ x \in X BY <1>6 DEF Field
  <2> HIDE DEF x
  <2>2. Length(bytes, n) /\ Inside(x, n) /\ FieldHas(bytes, x, v) BY <1>3, <2>1
  <2> HIDE DEF n, v
  <2>3. Machine!IsNumber(bytes, x.offset, x.size) /\ Machine!NumberAt(bytes, x.offset) = v
    BY <2>2, FieldReads
  <2> QED BY <2>1, <2>3 DEF v
<1>7. i.op = "BR" => Field(start + 1, 4, i.yes) \in X BY <1>4 DEF FieldsAt
<1>8. i.op = "COND_BR" => Field(start + 6, 4, i.no) \in X /\ Field(start + 11, 4, i.yes) \in X
  BY <1>4 DEF FieldsAt
<1>9. i.op = "CALL_FUNC" => Field(start + 2, 8, i.callee) \in X BY <1>4 DEF FieldsAt
<1>10. k = 1 => start = code_offset[f][b]
  <2>1. Begun(placed[f], code_offset[f]) BY DEF LinkInv, Sound
  <2> QED BY <1>2, <2>1 DEF Begun
<1> QED BY <1>5, <1>6, <1>7, <1>8, <1>9, <1>10

----------------------------------------------------------------------------
(***************************************************************************)
(* Linked code stays linked: generation and linking are over once there is *)
(* an executable copy.                                                     *)
(***************************************************************************)
LinkedInv == GenInv /\ LinkInv /\ (generated_func = <<>> \/ CodeLinked)

LEMMA LinkedInvNext == LinkedInv /\ [NextBoth]_both => LinkedInv'
<1> SUFFICES ASSUME LinkedInv, [NextBoth]_both PROVE LinkedInv'
  OBVIOUS
<1>1. GenInv' BY GenInvNext DEF LinkedInv
<1>2. CASE Generate
  <2>1. LinkInv' BY <1>2, GenerateKeepsLink DEF LinkedInv, Generate
  <2>2. generated_func' = <<>> BY <1>2 DEF Generate
  <2> QED BY <1>1, <2>1, <2>2 DEF LinkedInv
<1>3. CASE Link
  <2>1. CodeLinked' BY <1>3, LinkLinks DEF LinkedInv
  <2>2. LinkInv' BY <1>3 DEF Link, vars, gen_vars, LinkedInv, LinkInv
  <2> QED BY <1>1, <2>1, <2>2 DEF LinkedInv
<1>4. CASE Lockstep \/ End \/ UNCHANGED both
  <2>1. prog' = prog /\ UNCHANGED gen_vars /\ generated_func' = generated_func
    <3>1. CASE Lockstep BY <3>1, ExecuteKeepsProg DEF Lockstep
    <3>2. CASE End \/ UNCHANGED both BY <3>2 DEF End, both, vars
    <3> QED BY <1>4, <3>1, <3>2
  <2>2. LinkInv' BY <2>1 DEF gen_vars, LinkedInv, LinkInv
  <2>3. /\ prog' = prog /\ placed' = placed /\ code_offset' = code_offset
        /\ generated_func' = generated_func
    BY <2>1 DEF gen_vars
  <2>4. CodeLinked => CodeLinked' BY <2>3 DEF CodeLinked
  <2>5. generated_func' = <<>> \/ CodeLinked' BY <2>3, <2>4 DEF LinkedInv
  <2> QED BY <1>1, <2>2, <2>5 DEF LinkedInv
<1> QED BY <1>2, <1>3, <1>4 DEF NextBoth

(***************************************************************************)
(* Whatever module is compiled: in the linked code of each of its          *)
(* functions no displacement is missing, none is overwritten by another or *)
(* by an address, every branch leads to the offset at which the code of    *)
(* its block begins, and every direct call has its callee's address.       *)
(***************************************************************************)
THEOREM CodeIsLinked == SpecBoth => []CodeLinked
<1>1. InitBoth => LinkedInv BY GenInvInit, LinkInvInit DEF LinkedInv, InitBoth
<1>2. LinkedInv /\ [NextBoth]_both => LinkedInv' BY LinkedInvNext
<1>3. LinkedInv => CodeLinked
  <2>1. DOMAIN <<>> = {} OBVIOUS
  <2>2. generated_func = <<>> => CodeLinked BY <2>1 DEF CodeLinked
  <2> QED BY <2>2 DEF LinkedInv
<1> QED BY <1>1, <1>2, <1>3, PTL DEF SpecBoth
=============================================================================
