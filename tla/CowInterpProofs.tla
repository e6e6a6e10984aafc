-------------------------- MODULE CowInterpProofs --------------------------
(***************************************************************************)
(* Theorems about the interpreter for every program, word width, pool size *)
(* and number of frames.  The inductive invariant is TypeOK, to which the  *)
(* theorems about windows and about the size of the pool add a conjunct    *)
(* each.                                                                   *)
(***************************************************************************)
EXTENDS CowInterpRefines, WellFoundedInduction, TLAPS
----------------------------------------------------------------------------
(***************************************************************************)
(* The results of every instruction are words, for all widths and stack    *)
(* contents.                                                               *)
(***************************************************************************)
\* Euclidean division, as the lemmas below use it.
LEMMA DivMod ==
  ASSUME NEW x \in Int, NEW d \in Nat, d > 0
  PROVE  x = d * (x \div d) + (x % d) /\ x % d \in 0 .. d - 1 /\ x \div d \in Int
BY SMT

\* The facts about the widths that the assumptions give.
LEMMA SpanFacts ==
  /\ \A w \in Widths : Span[w] \in Nat /\ Span[w] > 0 /\ Span["i64"] % Span[w] = 0
  /\ Span["i64"] > 1
  /\ 0 \in Word /\ 1 \in Word
<1>1. \A w \in Widths : Span[w] \in Nat /\ Span[w] > 0 /\ Span["i64"] % Span[w] = 0
  BY SpanAssumption
<1>2. Span["i64"] > 1
  <2>1. Span["i8"] \in Nat /\ Span["i8"] > 1 /\ Span["i64"] \in Nat /\ Span["i64"] > 0
        /\ Span["i64"] % Span["i8"] = 0
    BY <1>1, SpanAssumption DEF Widths
  <2> DEFINE d == Span["i8"] n == Span["i64"]
  <2> HIDE DEF d, n
  <2>2. n # 1
    <3>1. SUFFICES ASSUME n = 1 PROVE FALSE
      OBVIOUS
    <3>2. d \in Nat /\ d > 1 /\ 1 % d = 0
      BY <2>1, <3>1 DEF d, n
    <3>3. 1 = d * (1 \div d) + (1 % d) /\ 1 \div d \in Int
      BY <3>2, DivMod
    <3>4. \A q \in Int : d * q # 1
      BY <3>2, SMT
    <3> QED BY <3>2, <3>3, <3>4
  <2> QED BY <2>1, <2>2 DEF n
<1> QED BY <1>1, <1>2 DEF Word, Widths

\* Replacing the low bits of a word gives a word.
LEMMA MergeWord ==
  ASSUME NEW old \in Word, NEW w \in Widths, NEW v \in Int
  PROVE  Merge(old, w, v) \in Word
<1> DEFINE d == Span[w] n == Span["i64"] high == old \div d low == v % d
<1>1. d \in Nat /\ d > 0 /\ n \in Nat /\ n % d = 0 /\ old \in 0 .. n - 1
  BY SpanFacts DEF Word, Widths
<1> HIDE DEF d, n
<1>2. n = d * (n \div d) /\ n \div d \in Int
  BY <1>1, DivMod
<1>3. old = d * high + (old % d) /\ old % d \in 0 .. d - 1 /\ high \in Int
  BY <1>1, DivMod
<1>4. low \in 0 .. d - 1
  BY <1>1, DivMod
<1> DEFINE q == n \div d
<1> HIDE DEF high, low, q
<1>5. high >= 0
  <2>1. SUFFICES ASSUME high <= -1 PROVE FALSE
    BY <1>3
  <2>2. d * high <= d * (-1)
    BY <1>1, <1>3, <2>1
  <2> QED BY <1>1, <1>3, <2>2
<1>6. high <= q - 1
  <2>1. SUFFICES ASSUME high >= q PROVE FALSE
    BY <1>2, <1>3 DEF q
  <2>2. d * high >= d * q
    BY <1>1, <1>2, <1>3, <2>1 DEF q
  <2> QED BY <1>1, <1>2, <1>3, <2>2 DEF q
<1>7. d * high >= 0 /\ d * high <= d * (q - 1) /\ d * high \in Int
  BY <1>1, <1>2, <1>3, <1>5, <1>6 DEF q
<1>8. d * (q - 1) = n - d
  BY <1>1, <1>2 DEF q
<1>9. d * high + low \in 0 .. n - 1
  BY <1>1, <1>4, <1>7, <1>8
<1> QED BY <1>9 DEF Merge, Word, d, n, high, low

\* A remainder modulo 2^64 is a word.
LEMMA ModWord ==
  ASSUME NEW x \in Int PROVE x % Span["i64"] \in Word
BY SpanFacts, DivMod DEF Word, Widths

LEMMA PartialWords ==
  ASSUME NEW w \in Widths, NEW v \in Int PROVE Partial(w, v) \subseteq Word
BY MergeWord, JunkAssumption DEF Partial

\* What a constant leaves in its register.
LEMMA ConstWordsTyped ==
  ASSUME NEW op \in ConstOps, NEW imm \in Int PROVE ConstWords(op, imm) \subseteq Word
<1>1. ConstWidth[op] \in Widths
  BY DEF ConstWidth, ConstOps, Widths
<1> QED BY <1>1, PartialWords DEF ConstWords

\* What a binary operation leaves in its register, when it does not trap.
LEMMA BinaryWordsTyped ==
  ASSUME NEW op \in BinaryOps, NEW a \in Word, NEW b \in Word,
         op \in DivideOps => ~DivTraps(a, b)
  PROVE  BinaryWords(op, a, b) \subseteq Word
<1>0. a \in Int /\ b \in Int /\ Span["i64"] \in Nat
  BY SpanFacts DEF Word, Widths
<1>1. CASE op \in ArithOps
  <2>1. ArithWord(op, a, b) \in Word
    BY <1>0, <1>1, ModWord DEF ArithWord, ArithOps
  <2>2. op \notin DivideOps /\ op \notin CompareOps
    BY <1>1 DEF ArithOps, DivideOps, CompareOps
  <2>3. BinaryWords(op, a, b) = {ArithWord(op, a, b)}
    BY <1>1, <2>2 DEF BinaryWords
  <2> QED BY <2>1, <2>3
<1>2. CASE op \in DivideOps
  <2> DEFINE Abs(x) == IF x < 0 THEN -x ELSE x
  <2> DEFINE sa == Signed(a) sb == Signed(b) q == Abs(sa) \div Abs(sb)
  <2>1. sa \in Int /\ sb \in Int /\ sb # 0
    BY <1>0, <1>2 DEF Signed, DivTraps, Word
  <2>2. Abs(sa) \in Int /\ Abs(sb) \in Nat /\ Abs(sb) > 0
    <3> HIDE DEF sa, sb
    <3> QED BY <2>1
  <2>3. q \in Int
    <3> HIDE DEF Abs, sa, sb
    <3> QED BY <2>2, DivMod
  <2>4. (IF (sa < 0) = (sb < 0) THEN q ELSE -q) \in Int
    <3> HIDE DEF q, sa, sb
    <3> QED BY <2>3
  <2>5. DivWord(a, b) \in Word
    <3>1. DivWord(a, b) = (IF (sa < 0) = (sb < 0) THEN q ELSE -q) % Span["i64"]
      BY DEF DivWord
    <3> HIDE DEF q, sa, sb
    <3> QED BY <3>1, <2>4, ModWord
  <2>6. op \notin ArithOps
    BY <1>2 DEF ArithOps, DivideOps
  <2>7. BinaryWords(op, a, b) = {DivWord(a, b)}
    BY <1>2, <2>6 DEF BinaryWords, CompareOps, DivideOps
  <2> QED BY <2>5, <2>7
<1>3. CASE op \in CompareOps
  <2>1. op \notin ArithOps /\ op \notin DivideOps
    BY <1>3 DEF ArithOps, DivideOps, CompareOps
  <2>2. BinaryWords(op, a, b) = Partial("i8", IF Holds(op, a, b) THEN 1 ELSE 0)
    BY <1>3, <2>1 DEF BinaryWords
  <2>3. (IF Holds(op, a, b) THEN 1 ELSE 0) \in Int /\ "i8" \in Widths
    BY DEF Widths
  <2> QED BY <2>2, <2>3, PartialWords
<1> QED BY <1>1, <1>2, <1>3 DEF BinaryOps

LEMMA NotWordTyped == ASSUME NEW w PROVE NotWord(w) \in Word
BY SpanFacts DEF NotWord

\* Loads and stores of every type but void write a word.
LEMMA AccessTyped ==
  ASSUME NEW t \in DataTypes \ {"void"}, NEW old \in Word, NEW m \in Word
  PROVE  LoadWord(t, old, m) \in Word /\ StoreWord(t, old, m) \in Word
<1>1. AccessWidth[t] \in Widths /\ "i32" \in Widths /\ "i16" \in Widths
  BY DEF AccessWidth, DataTypes, Widths
<1>2. m \in Int
  BY SpanFacts DEF Word, Widths
<1>3. SignExtend16(m) \in Int
  <2>1. Span["i16"] \in Nat /\ Span["i16"] > 0 /\ Span["i32"] \in Nat
    BY SpanFacts DEF Widths
  <2>2. m % Span["i16"] \in Int
    BY <1>2, <2>1, DivMod
  <2> QED BY <2>1, <2>2 DEF SignExtend16
<1> QED BY <1>1, <1>2, <1>3, MergeWord DEF LoadWord, StoreWord
----------------------------------------------------------------------------
\* A nonempty set of naturals has a least element.
LEMMA LeastNat ==
  ASSUME NEW T, T \subseteq Nat, T # {}
  PROVE  \E x \in T : \A y \in T : x <= y
<1>1. PICK x \in T : \A y \in T : ~(<<y, x>> \in OpToRel(<, Nat))
  BY WFMin, NatLessThanWellFounded
<1>2. \A y \in T : ~(y < x)
  BY <1>1 DEF OpToRel
<1> QED BY <1>2

(***************************************************************************)
(* The recursive function that copies arguments: for any sources, those    *)
(* already copied (E) or not (V), a function satisfying its equation       *)
(* exists, and all its values are among those of V.  Both by minimal       *)
(* counterexample.                                                         *)
(***************************************************************************)
CopyOf(E, V, g, k) == IF E[k] \in 1 .. k - 1 THEN g[E[k]] ELSE V[k]

HasCopy(W, n, E, V) == \E g \in [1 .. n -> W] : \A k \in 1 .. n : g[k] = CopyOf(E, V, g, k)

LEMMA CopyExists ==
  ASSUME NEW W, NEW n \in Nat, NEW E, NEW V, \A k \in 1 .. n : V[k] \in W
  PROVE  HasCopy(W, n, E, V)
<1> DEFINE Ok(m) == \E g \in [1 .. m -> W] : \A k \in 1 .. m : g[k] = CopyOf(E, V, g, k)
           Bad == {m \in 0 .. n : ~Ok(m)}
<1>1. Bad = {}
  <2>1. SUFFICES ASSUME Bad # {} PROVE FALSE
    OBVIOUS
  <2>2. PICK m \in Bad : \A y \in Bad : m <= y
    <3>1. Bad \subseteq Nat
      OBVIOUS
    <3> HIDE DEF Bad
    <3> QED BY <2>1, <3>1, LeastNat
  <2>3. m \in 0 .. n /\ ~Ok(m)
    OBVIOUS
  <2>4. m # 0
    <3>1. \A k \in 1 .. 0 : FALSE
      OBVIOUS
    <3>2. [k \in 1 .. 0 |-> 0] \in [1 .. 0 -> W]
      BY <3>1
    <3>3. Ok(0)
      BY <3>1, <3>2
    <3> QED BY <2>3, <3>3
  <2>5. m - 1 \in 0 .. n /\ m \in 1 .. n /\ ~(m <= m - 1)
    BY <2>3, <2>4
  <2>6. Ok(m - 1)
    <3> HIDE DEF Ok
    <3> QED BY <2>2, <2>5
  <2>7. PICK g \in [1 .. m - 1 -> W] : \A k \in 1 .. m - 1 : g[k] = CopyOf(E, V, g, k)
    BY <2>6
  <2> DEFINE last == CopyOf(E, V, g, m)
             h == [k \in 1 .. m |-> IF k = m THEN last ELSE g[k]]
  <2>8. last \in W
    BY <2>5 DEF CopyOf
  <2>9. h \in [1 .. m -> W] /\ \A k \in 1 .. m - 1 : h[k] = g[k]
    <3> HIDE DEF last
    <3> QED BY <2>5, <2>8
  <2>10. \A k \in 1 .. m : CopyOf(E, V, h, k) = CopyOf(E, V, g, k)
    <3> HIDE DEF h
    <3> QED BY <2>5, <2>9 DEF CopyOf
  <2>11. \A k \in 1 .. m : h[k] = CopyOf(E, V, g, k)
    <3> HIDE DEF CopyOf
    <3> QED BY <2>5, <2>7
  <2>12. Ok(m)
    <3> HIDE DEF h
    <3> QED BY <2>9, <2>10, <2>11
  <2> QED BY <2>3, <2>12
<1>2. Ok(n)
  <2>1. n \in 0 .. n
    OBVIOUS
  <2> HIDE DEF Ok
  <2> QED BY <1>1, <2>1
<1> QED BY <1>2 DEF HasCopy

LEMMA CopyTyped ==
  ASSUME NEW W, NEW n \in Nat, NEW E, NEW V, NEW c,
         \A k \in 1 .. n : V[k] \in W,
         \A k \in 1 .. n : c[k] = CopyOf(E, V, c, k)
  PROVE  \A k \in 1 .. n : c[k] \in W
<1> DEFINE Wrong == {k \in 1 .. n : c[k] \notin W}
<1>1. Wrong = {}
  <2>1. SUFFICES ASSUME Wrong # {} PROVE FALSE
    OBVIOUS
  <2>2. PICK k \in Wrong : \A y \in Wrong : k <= y
    <3>1. Wrong \subseteq Nat
      OBVIOUS
    <3> HIDE DEF Wrong
    <3> QED BY <2>1, <3>1, LeastNat
  <2>3. CopyOf(E, V, c, k) \in W
    BY <2>2 DEF CopyOf
  <2> QED BY <2>2, <2>3
<1> QED BY <1>1

----------------------------------------------------------------------------
\* What the type invariant says of the instruction about to be executed.
LEMMA InstrFacts ==
  ASSUME TypeOK, status = "running", instr_index \in DOMAIN Instrs
  PROVE  /\ block[1] \in DOMAIN prog /\ block[2] \in DOMAIN prog[block[1]].blocks
         /\ prog[block[1]] \in Function
         /\ instr \in Instr
         /\ InstrOK(prog, prog[block[1]], instr)
<1>1. prog \in Seq(Function) /\ \A f \in DOMAIN prog : FunctionOK(prog, prog[f])
  BY DEF TypeOK, WellFormed
<1>2. block[1] \in DOMAIN prog /\ block[2] \in DOMAIN prog[block[1]].blocks
  BY DEF TypeOK, BlockOK
<1>3. prog[block[1]] \in Function
  BY <1>1, <1>2
<1>4. prog[block[1]].blocks \in Seq(Seq(Instr))
  BY <1>3 DEF Function
<1>5. Instrs \in Seq(Instr)
  BY <1>2, <1>4 DEF Instrs
<1>6. instr \in Instr
  BY <1>5 DEF instr
<1>7. InstrOK(prog, prog[block[1]], instr)
  BY <1>1, <1>2 DEF FunctionOK, instr, Instrs
<1> QED BY <1>2, <1>3, <1>6, <1>7

\* The registers that a fetched instruction touches are inside the pool.
LEMMA TouchedFacts ==
  ASSUME Touched \subseteq Cells
  PROVE  /\ instr.op \in GenOps \ {"CALL_PTR", "CALL_FUNC"} => registers + instr.gen \in Cells
         /\ instr.op \in LeftOps \ {"CALL_PTR"} => registers + instr.left \in Cells
         /\ instr.op \in RightOps => registers + instr.right \in Cells
         /\ instr.op = "CALL_FUNC" =>
              \A k \in DOMAIN instr.args \cap (1 .. Callee.args_count) :
                registers + instr.args[k] \in Cells
<1>1. \A id \in OwnIds : registers + id \in Cells
  BY DEF Touched
<1> QED BY <1>1 DEF OwnIds

\* A register inside the pool holds a word.
LEMMA RegTyped ==
  ASSUME TypeOK, NEW id, registers + id \in Cells
  PROVE  Reg(id) \in Word
BY DEF TypeOK, Reg

\* Steps inside an activation keep the type invariant when what they write has
\* its type and they go to an instruction index of a block of the module.
LEMMA SameCallTyped ==
  ASSUME TypeOK, SameCall, status = "running",
         pool' \in [Cells -> Word], memory' \in [Addr -> Word],
         block' \in Nat \X Nat, BlockOK(block)', instr_index' \in Nat
  PROVE  TypeOK'
BY DEF TypeOK, SameCall, BlockOK

LEMMA NextInstrTyped ==
  ASSUME TypeOK, SameCall, status = "running", NextInstr, UNCHANGED block,
         pool' \in [Cells -> Word], memory' \in [Addr -> Word]
  PROVE  TypeOK'
<1>1. block' \in Nat \X Nat /\ BlockOK(block)' /\ instr_index' \in Nat
  BY DEF TypeOK, NextInstr, BlockOK, SameCall
<1> QED BY <1>1, SameCallTyped

LEMMA GoToTyped ==
  ASSUME TypeOK, SameCall, status = "running", NEW b \in Nat, GoTo(b),
         block[1] \in DOMAIN prog, b \in DOMAIN prog[block[1]].blocks,
         UNCHANGED <<pool, memory>>
  PROVE  TypeOK'
<1>1. block' = <<block[1], b>> /\ block[1] \in Nat /\ instr_index' = 1
  BY DEF TypeOK, GoTo
<1>2. block' \in Nat \X Nat /\ BlockOK(block)' /\ instr_index' \in Nat
  BY <1>1 DEF BlockOK, SameCall
<1>3. pool' \in [Cells -> Word] /\ memory' \in [Addr -> Word]
  BY DEF TypeOK
<1> QED BY <1>2, <1>3, SameCallTyped

LEMMA SetRegTyped ==
  ASSUME TypeOK, NEW w \in Word, SetReg(w)
  PROVE  pool' \in [Cells -> Word]
BY DEF TypeOK, SetReg

\* Leaving the loop keeps the type invariant.
LEMMA StopTyped ==
  ASSUME TypeOK, NEW why \in Status \ {"running"}, Stop(why), result' \in Word
  PROVE  TypeOK'
BY DEF TypeOK, Stop, BlockOK

\* The words a call copies into the callee's window.
LEMMA ArgsTyped ==
  ASSUME TypeOK, Ready({"CALL_FUNC"}), Callee.args_count <= Len(instr.args)
  PROVE  ArgsCopied \in [1 .. Callee.args_count -> Word]
<1> DEFINE n == Callee.args_count
           Val(g, k) == IF Earlier(k) \in 1 .. k - 1 THEN g[Earlier(k)] ELSE pool[Source(k)]
           Eqn(g) == g = [k \in 1 .. n |-> Val(g, k)]
           E == [k \in 1 .. n |-> Earlier(k)]
           V == [k \in 1 .. n |-> pool[Source(k)]]
<1>1. /\ instr \in Instr /\ InstrOK(prog, prog[block[1]], instr)
      /\ instr.op = "CALL_FUNC" /\ Touched \subseteq Cells
  BY InstrFacts DEF Ready, Fetched
<1>2. instr.callee \in DOMAIN prog /\ Callee \in Function
  BY <1>1 DEF InstrOK, Callee, TypeOK, WellFormed
<1>3. n \in Nat /\ instr.args \in Seq(Nat)
  BY <1>1, <1>2 DEF Function, Instr
<1>4. \A k \in 1 .. n : V[k] \in Word
  <2>1. TAKE k \in 1 .. n
  <2>2. k \in DOMAIN instr.args \cap (1 .. n)
    BY <1>3
  <2>3. Source(k) \in Cells
    BY <1>1, <2>2, TouchedFacts DEF Source
  <2> QED BY <2>1, <2>3 DEF TypeOK
<1>5. \A g : \A k \in 1 .. n : Val(g, k) = CopyOf(E, V, g, k)
  BY DEF CopyOf
<1>6. \E g : Eqn(g)
  <2>1. PICK g \in [1 .. n -> Word] : \A k \in 1 .. n : g[k] = CopyOf(E, V, g, k)
    <3> HIDE DEF n, E, V
    <3>1. HasCopy(Word, n, E, V)
      BY <1>3, <1>4, CopyExists
    <3> QED BY <3>1 DEF HasCopy
  <2>2. \A k \in 1 .. n : g[k] = Val(g, k)
    <3> HIDE DEF n, E, V, Val
    <3> QED BY <1>5, <2>1
  <2>3. g = [k \in 1 .. n |-> Val(g, k)]
    <3> HIDE DEF Val, n
    <3> QED BY <2>2
  <2> QED BY <2>3
<1>7. Eqn(ArgsCopied)
  <2>1. ArgsCopied = CHOOSE g : Eqn(g)
    BY DEF ArgsCopied
  <2> HIDE DEF Eqn
  <2> QED BY <1>6, <2>1
<1>8. \A k \in 1 .. n : ArgsCopied[k] = CopyOf(E, V, ArgsCopied, k)
  <2> HIDE DEF Val, n, E, V
  <2> QED BY <1>5, <1>7
<1>9. \A k \in 1 .. n : ArgsCopied[k] \in Word
  <2> HIDE DEF n, E, V
  <2> QED BY <1>3, <1>4, <1>8, CopyTyped
<1>10. ArgsCopied = [k \in 1 .. n |-> ArgsCopied[k]]
  <2> HIDE DEF Val, n
  <2> QED BY <1>7
<1> QED BY <1>9, <1>10

\* A call to a function of the module, and a return from it.
LEMMA CallFuncTyped ==
  ASSUME TypeOK, CallFunc PROVE TypeOK'
<1>1. /\ instr \in Instr /\ InstrOK(prog, prog[block[1]], instr)
      /\ instr.op = "CALL_FUNC"
      /\ status = "running"
  BY InstrFacts DEF CallFunc, Ready, Fetched
<1>2. instr.callee \in DOMAIN prog /\ Callee \in Function /\ FunctionOK(prog, Callee)
  BY <1>1 DEF InstrOK, Callee, TypeOK, WellFormed
<1>3. registers' \in Nat /\ registers' = CalleeBase
  BY <1>2 DEF CallFunc, CalleeBase, ValuesSize, Function, TypeOK
<1>4. instr.gen \in Ids(prog[block[1]]) /\ instr.gen \in Nat
  BY <1>1 DEF InstrOK, GenOps, Opcodes, Ids
<1> DEFINE fr == [block |-> block, instr_index |-> instr_index,
                  gen_value_id |-> instr.gen, registers |-> registers]
<1>5. fr \in CallFrame /\ fr.block = block /\ fr.gen_value_id = instr.gen
  BY <1>4 DEF CallFrame, TypeOK
<1>6. frames' = Append(frames, fr) /\ frames \in Seq(CallFrame)
  BY DEF CallFunc, TypeOK
<1>7. frames' \in Seq(CallFrame)
  <2> HIDE DEF fr
  <2> QED BY <1>5, <1>6
<1>8. prog' = prog /\ BlockOK(block)
  BY <1>1 DEF CallFunc, TypeOK
<1>9. \A k \in DOMAIN frames' : /\ BlockOK(frames[k].block)'
                                /\ frames'[k].gen_value_id \in Ids(prog'[frames'[k].block[1]])
  <2>1. TAKE k \in DOMAIN frames'
  <2>2. k \in DOMAIN frames => frames'[k] = frames[k]
    BY <1>6
  <2>3. k \notin DOMAIN frames => frames'[k] = fr
    BY <1>6
  <2>4. CASE k \in DOMAIN frames
    BY <2>2, <2>4, <1>8 DEF TypeOK, BlockOK
  <2>5. CASE k \notin DOMAIN frames
    <3> HIDE DEF fr
    <3> QED BY <2>3, <2>5, <1>4, <1>5, <1>8 DEF BlockOK
  <2> QED BY <2>4, <2>5
<1>10. pool' \in [Cells -> Word]
  <2>1. ArgsCopied \in [1 .. Callee.args_count -> Word]
    BY ArgsTyped DEF CallFunc
  <2>2. Callee.args_count \in Nat /\ CalleeBase \in Nat
    BY <1>2, <1>3 DEF Function
  <2>3. pool \in [Cells -> Word]
    BY DEF TypeOK
  <2>4. \A c \in Cells : c - CalleeBase \in 0 .. Callee.args_count - 1 =>
          ArgsCopied[c - CalleeBase + 1] \in Word
    BY <2>1, <2>2, SizeAssumption DEF Cells
  <2> QED BY <2>3, <2>4 DEF CallFunc
<1>11. block' \in Nat \X Nat /\ BlockOK(block)' /\ instr_index' = 1
  <2>1. Callee.blocks # <<>> /\ Callee.blocks \in Seq(Seq(Instr))
    BY <1>2 DEF FunctionOK, Function
  <2>2. 1 \in DOMAIN Callee.blocks
    BY <2>1
  <2>3. block' = <<instr.callee, 1>> /\ instr_index' = 1 /\ instr.callee \in Nat
    BY <1>1 DEF CallFunc, Instr
  <2> QED BY <1>2, <1>8, <2>2, <2>3 DEF BlockOK, Callee
<1> QED BY <1>3, <1>7, <1>8, <1>9, <1>10, <1>11 DEF TypeOK, CallFunc

\* The frame that a return pops is a frame of the stack, and so are the others.
LEMMA PopFacts ==
  ASSUME TypeOK, frames # <<>>, frames' = Front(frames)
  PROVE  /\ Len(frames) \in DOMAIN frames /\ Last(frames) = frames[Len(frames)]
         /\ Last(frames) \in CallFrame
         /\ frames' \in Seq(CallFrame)
         /\ DOMAIN frames' = 1 .. Len(frames) - 1
         /\ Len(frames') = Len(frames) - 1
         /\ \A k \in DOMAIN frames' : k \in DOMAIN frames /\ frames'[k] = frames[k]
<1>1. frames \in Seq(CallFrame) /\ Len(frames) \in Nat /\ DOMAIN frames = 1 .. Len(frames)
  BY DEF TypeOK
<1>2. Len(frames) >= 1
  BY <1>1
<1>3. Front(frames) = SubSeq(frames, 1, Len(frames) - 1) /\ Last(frames) = frames[Len(frames)]
  BY DEF Front, Last
<1> QED BY <1>1, <1>2, <1>3

LEMMA ReturnTyped ==
  ASSUME TypeOK, status = "running", frames # <<>>, NEW w \in Word, ReturnWith(w)
  PROVE  TypeOK'
<1> DEFINE caller == Last(frames)
<1>1. /\ frames' = Front(frames)
      /\ block' = caller.block /\ instr_index' = caller.instr_index + 1
      /\ registers' = caller.registers
      /\ pool' = [pool EXCEPT ![caller.registers + caller.gen_value_id] = w]
      /\ UNCHANGED <<prog, memory, status, result>>
  BY DEF ReturnWith
<1>2. /\ Len(frames) \in DOMAIN frames /\ caller = frames[Len(frames)]
      /\ caller \in CallFrame /\ frames' \in Seq(CallFrame)
      /\ \A k \in DOMAIN frames' : k \in DOMAIN frames /\ frames'[k] = frames[k]
  BY <1>1, PopFacts
<1>3. BlockOK(caller.block)
  BY <1>2 DEF TypeOK
<1>4. block' \in Nat \X Nat /\ BlockOK(block)' /\ instr_index' \in Nat /\ registers' \in Nat
  BY <1>1, <1>2, <1>3 DEF CallFrame, BlockOK
<1>5. pool' \in [Cells -> Word]
  BY <1>1 DEF TypeOK
<1>6. \A k \in DOMAIN frames' : /\ BlockOK(frames[k].block)'
                                /\ frames'[k].gen_value_id \in Ids(prog'[frames'[k].block[1]])
  BY <1>1, <1>2 DEF TypeOK, BlockOK
<1> QED BY <1>1, <1>2, <1>4, <1>5, <1>6 DEF TypeOK
----------------------------------------------------------------------------
LEMMA InitTyped == Init => TypeOK
<1> SUFFICES ASSUME Init PROVE TypeOK
  OBVIOUS
<1>1. PICK s \in Starts :
        /\ prog = s.prog /\ memory = s.memory
        /\ instr_index = 1 /\ registers = 0 /\ frames = <<>> /\ result = 0
        /\ \/ \E f \in DOMAIN s.prog : Found(s.prog, s.name, f) /\ Enter(s, f)
           \/ NotFound(s.prog, s.name) /\ Missing(s)
  BY DEF Init
<1>2. StartOK(s)
  BY StartsAssumption
<1>3. /\ WellFormed(prog) /\ memory \in [Addr -> Word]
      /\ instr_index \in Nat /\ registers \in Nat /\ frames \in Seq(CallFrame)
      /\ \A k \in DOMAIN frames : FALSE
      /\ result \in Word
  BY <1>1, <1>2, SpanFacts DEF StartOK
<1>4. CASE NotFound(s.prog, s.name) /\ Missing(s)
  BY <1>2, <1>3, <1>4 DEF Missing, StartOK, TypeOK, Status
<1>5. CASE \E f \in DOMAIN s.prog : Found(s.prog, s.name, f) /\ Enter(s, f)
  <2>1. PICK f \in DOMAIN prog : Found(prog, s.name, f) /\ Enter(s, f)
    BY <1>1, <1>5
  <2>2. prog[f] \in Function /\ FunctionOK(prog, prog[f]) /\ f \in Nat
    BY <1>3 DEF WellFormed
  <2> DEFINE n == prog[f].args_count
  <2>3. n \in Nat /\ n <= Len(s.values) /\ s.values \in Seq(Word)
    BY <1>1, <1>2, <2>1, <2>2 DEF StartOK, Found, Function
  <2>4. pool \in [Cells -> Word]
    <3>1. \A c \in Cells : c < n => s.values[c + 1] \in Word
      BY <2>3, SizeAssumption DEF Cells
    <3>2. pool = [c \in Cells |-> IF c < n THEN s.values[c + 1] ELSE s.pool[c]]
      BY <1>1, <2>1 DEF Enter
    <3>3. s.pool \in [Cells -> Word]
      BY <1>2 DEF StartOK
    <3> QED BY <3>1, <3>2, <3>3
  <2>5. block = <<f, 1>> /\ status \in Status
    BY <2>1 DEF Enter, Status
  <2>6. BlockOK(block)
    <3>1. prog[f].blocks # <<>> /\ prog[f].blocks \in Seq(Seq(Instr))
      BY <2>2 DEF FunctionOK, Function
    <3>2. 1 \in DOMAIN prog[f].blocks
      BY <3>1
    <3> QED BY <2>5, <3>2 DEF BlockOK
  <2>7. block \in Nat \X Nat
    BY <2>2, <2>5
  <2> QED BY <1>3, <2>4, <2>5, <2>6, <2>7 DEF TypeOK
<1> QED BY <1>1, <1>4, <1>5

\* Every step keeps the type invariant.
LEMMA NextTyped == TypeOK /\ [Next]_vars => TypeOK'
<1> SUFFICES ASSUME TypeOK, [Next]_vars PROVE TypeOK'
  OBVIOUS
<1>0. memory \in [Addr -> Word] /\ pool \in [Cells -> Word] /\ result \in Word
  BY DEF TypeOK
<1>1. CASE Const
  <2>1. status = "running" /\ instr.op \in ConstOps /\ instr \in Instr
    BY <1>1, InstrFacts DEF Const, Ready, Fetched
  <2>2. ConstWords(instr.op, instr.imm) \subseteq Word
    BY <2>1, ConstWordsTyped DEF Instr
  <2>3. PICK w \in Word : SetReg(w)
    BY <1>1, <2>2 DEF Const
  <2>4. pool' \in [Cells -> Word]
    BY <2>3, SetRegTyped
  <2> QED BY <1>0, <1>1, <2>1, <2>4, NextInstrTyped DEF Const
<1>2. CASE Binary
  <2>1. status = "running" /\ instr.op \in BinaryOps /\ Touched \subseteq Cells
    BY <1>2 DEF Binary, Ready, Fetched
  <2>2. Reg(instr.left) \in Word /\ Reg(instr.right) \in Word
    <3>1. instr.op \in LeftOps \ {"CALL_PTR"} /\ instr.op \in RightOps
      BY <2>1 DEF LeftOps, RightOps, BinaryOps, ArithOps, DivideOps, CompareOps
    <3> QED BY <2>1, <3>1, TouchedFacts, RegTyped
  <2>3. BinaryWords(instr.op, Reg(instr.left), Reg(instr.right)) \subseteq Word
    BY <1>2, <2>1, <2>2, BinaryWordsTyped DEF Binary
  <2>4. PICK w \in Word : SetReg(w)
    BY <1>2, <2>3 DEF Binary
  <2>5. pool' \in [Cells -> Word]
    BY <2>4, SetRegTyped
  <2> QED BY <1>0, <1>2, <2>1, <2>5, NextInstrTyped DEF Binary
<1>3. CASE Trap
  BY <1>0, <1>3, StopTyped DEF Trap, Status
<1>4. CASE Not
  <2>1. pool' \in [Cells -> Word]
    BY <1>4, NotWordTyped, SetRegTyped DEF Not
  <2> QED BY <1>0, <1>4, <2>1, NextInstrTyped DEF Not, Ready, Fetched
<1>5. CASE Load
  <2>1. /\ status = "running" /\ instr.op = "LOAD" /\ instr \in Instr
        /\ Touched \subseteq Cells
    BY <1>5, InstrFacts DEF Load, Ready, Fetched
  <2>2. CASE AccessType = "void"
    BY <1>0, <1>5, <2>1, <2>2, NextInstrTyped DEF Load
  <2>3. CASE AccessType # "void"
    <3>1. AccessType \in DataTypes \ {"void"}
      BY <2>1, <2>3 DEF AccessType, Instr
    <3>2. Reg(instr.gen) \in Word /\ memory[Reg(instr.left)] \in Word
      <4>1. instr.op \in GenOps \ {"CALL_PTR", "CALL_FUNC"}
        BY <2>1 DEF GenOps, Opcodes
      <4> QED BY <1>0, <1>5, <2>1, <2>3, <4>1, TouchedFacts, RegTyped DEF Load
    <3>3. LoadWord(AccessType, Reg(instr.gen), memory[Reg(instr.left)]) \in Word
      BY <3>1, <3>2, AccessTyped
    <3>4. pool' \in [Cells -> Word]
      BY <1>5, <2>3, <3>3, SetRegTyped DEF Load
    <3> QED BY <1>0, <1>5, <2>1, <3>4, NextInstrTyped DEF Load
  <2> QED BY <2>2, <2>3
<1>6. CASE Store
  <2>1. /\ status = "running" /\ instr.op = "STORE" /\ instr \in Instr
        /\ InstrOK(prog, prog[block[1]], instr) /\ prog[block[1]] \in Function
        /\ Touched \subseteq Cells
    BY <1>6, InstrFacts DEF Store, Ready, Fetched
  <2>2. CASE AccessType = "void"
    BY <1>0, <1>6, <2>1, <2>2, NextInstrTyped DEF Store
  <2>3. CASE AccessType # "void"
    <3>1. AccessType \in DataTypes \ {"void"}
      <4>1. instr.right \in Ids(prog[block[1]])
        BY <2>1 DEF InstrOK, RightOps
      <4>2. TypeOf(prog[block[1]], instr.right) \in DataTypes
        BY <2>1, <4>1 DEF TypeOf, Ids, ValuesSize, Function
      <4> QED BY <2>1, <2>3, <4>2 DEF AccessType
    <3>2. Reg(instr.right) \in Word
      BY <2>1, TouchedFacts, RegTyped DEF RightOps
    <3>3. \A m \in Word : StoreWord(AccessType, m, Reg(instr.right)) \in Word
      BY <3>1, <3>2, AccessTyped
    <3>4. memory' = [memory EXCEPT ![Reg(instr.left)] =
                       StoreWord(AccessType, memory[Reg(instr.left)], Reg(instr.right))]
          /\ Reg(instr.left) \in Addr
      BY <1>6, <2>3 DEF Store
    <3>5. memory' \in [Addr -> Word]
      BY <1>0, <3>3, <3>4
    <3>6. pool' \in [Cells -> Word]
      BY <1>0, <1>6 DEF Store
    <3> QED BY <1>6, <2>1, <3>5, <3>6, NextInstrTyped DEF Store
  <2> QED BY <2>2, <2>3
<1>7. CASE Br
  <2>1. /\ status = "running" /\ instr.op = "BR" /\ instr \in Instr
        /\ InstrOK(prog, prog[block[1]], instr) /\ block[1] \in DOMAIN prog
    BY <1>7, InstrFacts DEF Br, Ready, Fetched
  <2>2. instr.yes \in Nat /\ instr.yes \in DOMAIN prog[block[1]].blocks
    BY <2>1 DEF InstrOK, Instr
  <2> QED BY <1>7, <2>1, <2>2, GoToTyped DEF Br
<1>8. CASE CondBr
  <2>1. /\ status = "running" /\ instr.op = "COND_BR" /\ instr \in Instr
        /\ InstrOK(prog, prog[block[1]], instr) /\ block[1] \in DOMAIN prog
    BY <1>8, InstrFacts DEF CondBr, Ready, Fetched
  <2>2. PICK b \in {instr.yes, instr.no} : GoTo(b)
    BY <1>8 DEF CondBr
  <2>3. b \in Nat /\ b \in DOMAIN prog[block[1]].blocks
    BY <2>1, <2>2 DEF InstrOK, Instr
  <2> QED BY <1>8, <2>1, <2>2, <2>3, GoToTyped DEF CondBr
<1>9. CASE CallPtr
  BY <1>0, <1>9, NextInstrTyped DEF CallPtr, Ready, Fetched
<1>10. CASE CallFunc
  BY <1>10, CallFuncTyped
<1>11. CASE Ret
  <2>1. status = "running" /\ instr.op = "RET" /\ Touched \subseteq Cells
    BY <1>11 DEF Ret, Ready, Fetched
  <2>2. Reg(instr.left) \in Word
    BY <2>1, TouchedFacts, RegTyped DEF LeftOps
  <2> QED BY <1>11, <2>1, <2>2, ReturnTyped DEF Ret
<1>12. CASE RetVoid
  BY <1>12, ReturnTyped DEF RetVoid, Ready, Fetched
<1>13. CASE RetFromEntry
  <2>1. Touched \subseteq Cells
    BY <1>13 DEF RetFromEntry, Ready
  <2>2. result' \in Word
    BY <1>13, <2>1, TouchedFacts, RegTyped, SpanFacts DEF RetFromEntry, LeftOps
  <2> QED BY <1>13, <2>2, StopTyped DEF RetFromEntry, Status
<1>14. CASE FrameOverflow
  BY <1>0, <1>14, StopTyped DEF FrameOverflow, Status
<1>15. CASE PoolOverflow
  BY <1>0, <1>15, StopTyped DEF PoolOverflow, Status
<1>16. CASE BadAccess
  BY <1>0, <1>16, StopTyped DEF BadAccess, Status
<1>17. CASE UNCHANGED vars
  BY <1>17 DEF vars, TypeOK, BlockOK
<1>18. CASE Stopped
  BY <1>17, <1>18 DEF Stopped
<1> QED BY <1>1, <1>2, <1>3, <1>4, <1>5, <1>6, <1>7, <1>8, <1>9, <1>10, <1>11, <1>12,
           <1>13, <1>14, <1>15, <1>16, <1>17, <1>18 DEF Next, Execute

(***************************************************************************)
(* Type correctness: while the loop of eval_func runs, its instruction     *)
(* pointer and every return address in frames are inside the module, and   *)
(* registers and memory hold words.                                        *)
(***************************************************************************)
THEOREM TypeCorrect == Spec => []TypeOK
<1>1. Init => TypeOK
  BY InitTyped
<1>2. TypeOK /\ [Next]_vars => TypeOK'
  BY NextTyped
<1> QED BY <1>1, <1>2, PTL DEF Spec
----------------------------------------------------------------------------
(***************************************************************************)
(* The windows.  A step that leaves the stack of calls alone writes at or  *)
(* above `registers`; a call starts the callee's window above the caller's *)
(* and copies its arguments there; a return writes into the frame that it  *)
(* pops, above the windows of the frames that stay.                        *)
(***************************************************************************)
SafeStep == WindowsOrdered' /\ (WindowSafe(prog) => KeepsSuspendedWindows)

\* Frames are records of naturals, and a suspended window has a natural end.
LEMMA FrameFacts ==
  ASSUME TypeOK, NEW k \in DOMAIN frames
  PROVE  /\ frames[k] \in CallFrame /\ frames[k].registers \in Nat
         /\ frames[k].gen_value_id \in Nat
         /\ WindowEnd(frames[k]) \in Nat
<1>1. frames[k] \in CallFrame /\ frames[k].block[1] \in DOMAIN prog
  BY DEF TypeOK, BlockOK
<1>2. prog[frames[k].block[1]] \in Function
  BY <1>1 DEF TypeOK, WellFormed
<1>3. ValuesSize(prog[frames[k].block[1]]) \in Nat
  BY <1>2 DEF ValuesSize, Function
<1> QED BY <1>1, <1>3 DEF CallFrame, WindowEnd

LEMMA SameCallSafe ==
  ASSUME TypeOK, WindowsOrdered, UNCHANGED <<prog, registers, frames>>,
         \A c \in Cells : c < registers => pool'[c] = pool[c]
  PROVE  SafeStep
<1>1. WindowsOrdered'
  BY DEF WindowsOrdered, WindowEnd
<1>2. ASSUME WindowSafe(prog) PROVE KeepsSuspendedWindows
  <2>1. \A k \in DOMAIN frames : WindowEnd(frames[k]) <= registers
    BY <1>2 DEF WindowsOrdered
  <2>2. ASSUME NEW k \in DOMAIN frames, NEW c \in Window(frames[k]) \cap Cells
        PROVE  pool'[c] = pool[c]
    <3>1. c < registers
      BY <2>1, <2>2, FrameFacts DEF Window, TypeOK
    <3> QED BY <2>2, <3>1
  <2> QED BY <2>2 DEF KeepsSuspendedWindows
<1> QED BY <1>1, <1>2 DEF SafeStep

\* An instruction writes its gen_value inside the running window.
LEMMA SetRegSafe ==
  ASSUME TypeOK, WindowsOrdered, SameCall, status = "running", instr_index \in DOMAIN Instrs,
         instr.op \in GenOps, NEW w, SetReg(w)
  PROVE  SafeStep
<1>1. instr.gen \in Nat
  BY InstrFacts DEF InstrOK, Ids
<1>2. \A c \in Cells : c < registers => pool'[c] = pool[c]
  BY <1>1, SizeAssumption DEF SetReg, TypeOK, Cells
<1> QED BY <1>2, SameCallSafe DEF SameCall

\* A call in a window-safe program: the callee's base is the caller's end or above.
LEMMA CallFuncSafe ==
  ASSUME TypeOK, WindowsOrdered, CallFunc PROVE SafeStep
<1>1. /\ instr \in Instr /\ InstrOK(prog, prog[block[1]], instr)
      /\ instr.op = "CALL_FUNC" /\ instr_index \in DOMAIN Instrs
      /\ block[1] \in DOMAIN prog /\ block[2] \in DOMAIN prog[block[1]].blocks
      /\ prog[block[1]] \in Function
  BY InstrFacts DEF CallFunc, Ready, Fetched
<1>2. instr.callee \in DOMAIN prog /\ Callee \in Function
  BY <1>1 DEF InstrOK, Callee, TypeOK, WellFormed
<1> DEFINE size == ValuesSize(prog[block[1]])
           fr == [block |-> block, instr_index |-> instr_index,
                  gen_value_id |-> instr.gen, registers |-> registers]
<1>3. size \in Nat /\ ValuesSize(Callee) \in Nat /\ registers \in Nat
      /\ Callee.args_count \in Nat
  BY <1>1, <1>2 DEF ValuesSize, Function, TypeOK
<1>4. prog' = prog /\ registers' = registers + ValuesSize(Callee)
      /\ frames' = Append(frames, fr) /\ frames \in Seq(CallFrame)
  BY DEF CallFunc, CalleeBase, TypeOK
<1>5. fr.registers = registers /\ WindowEnd(fr) = registers + size
  BY DEF WindowEnd
<1> HIDE DEF fr
<1>6. /\ DOMAIN frames' = DOMAIN frames \cup {Len(frames) + 1}
      /\ \A k \in DOMAIN frames : frames'[k] = frames[k] /\ k < Len(frames) + 1
      /\ frames'[Len(frames) + 1] = fr
      /\ Len(frames) + 1 \notin DOMAIN frames /\ Len(frames) \in Nat
      /\ DOMAIN frames = 1 .. Len(frames)
  BY <1>4
<1>7. SUFFICES ASSUME WindowSafe(prog) PROVE SafeStep
  BY <1>4 DEF SafeStep, WindowsOrdered
<1>8. ValuesSize(Callee) >= size
  BY <1>1, <1>7 DEF WindowSafe, Callee, instr, Instrs
<1>9. \A k \in DOMAIN frames : WindowEnd(frames[k]) <= registers
  BY <1>7 DEF WindowsOrdered
<1>10. \A k \in DOMAIN frames' : WindowEnd(frames'[k]) <= registers'
  <2>1. TAKE k \in DOMAIN frames'
  <2>2. CASE k \in DOMAIN frames
    <3>1. WindowEnd(frames[k]) \in Nat /\ WindowEnd(frames[k]) <= registers
      BY <1>9, <2>2, FrameFacts
    <3> QED BY <1>3, <1>4, <1>6, <2>2, <3>1
  <2>3. CASE k = Len(frames) + 1
    BY <1>3, <1>4, <1>5, <1>6, <1>8, <2>3
  <2> QED BY <1>6, <2>2, <2>3
<1>11. \A k, later \in DOMAIN frames' : k < later =>
         WindowEnd(frames'[k]) <= frames'[later].registers
  <2>1. TAKE k, later \in DOMAIN frames'
  <2>2. HAVE k < later
  <2>3. k \in DOMAIN frames
    BY <1>6, <2>2
  <2>4. CASE later \in DOMAIN frames
    BY <1>6, <1>7, <2>2, <2>3, <2>4 DEF WindowsOrdered
  <2>5. CASE later = Len(frames) + 1
    BY <1>5, <1>6, <1>9, <2>3, <2>5
  <2> QED BY <1>6, <2>4, <2>5
<1>12. WindowsOrdered'
  BY <1>4, <1>10, <1>11 DEF WindowsOrdered, WindowEnd
<1>13. KeepsSuspendedWindows
  <2>1. \A c \in Cells : c < CalleeBase => pool'[c] = pool[c]
    BY <1>3, SizeAssumption DEF CallFunc, CalleeBase, Cells
  <2>2. ASSUME NEW k \in DOMAIN frames', NEW c \in Window(frames'[k]) \cap Cells
        PROVE  pool'[c] = pool[c]
    <3>1. WindowEnd(frames'[k]) <= CalleeBase /\ WindowEnd(frames'[k]) \in Nat
          /\ frames'[k].registers \in Nat
      BY <1>3, <1>4, <1>5, <1>6, <1>10, FrameFacts DEF CalleeBase
    <3>2. c < CalleeBase
      BY <1>3, <3>1 DEF Window, CalleeBase
    <3> QED BY <2>1, <3>2
  <2> QED BY <2>2 DEF KeepsSuspendedWindows
<1> QED BY <1>12, <1>13 DEF SafeStep

LEMMA ReturnSafe ==
  ASSUME TypeOK, WindowsOrdered, frames # <<>>, NEW w, ReturnWith(w)
  PROVE  SafeStep
<1> DEFINE n == Len(frames)
<1>1. /\ n \in DOMAIN frames /\ Last(frames) = frames[n]
      /\ frames' = Front(frames) /\ DOMAIN frames' = 1 .. n - 1 /\ n \in Nat
      /\ \A k \in DOMAIN frames' : k \in DOMAIN frames /\ frames'[k] = frames[k]
  BY PopFacts DEF ReturnWith, TypeOK
<1>2. /\ registers' = frames[n].registers /\ prog' = prog
      /\ pool' = [pool EXCEPT ![frames[n].registers + frames[n].gen_value_id] = w]
      /\ frames[n].registers \in Nat /\ frames[n].gen_value_id \in Nat
  BY <1>1, FrameFacts DEF ReturnWith
<1> HIDE DEF n
<1>3. SUFFICES ASSUME WindowSafe(prog) PROVE SafeStep
  BY <1>2 DEF SafeStep, WindowsOrdered
<1>4. \A k \in DOMAIN frames' :
        /\ WindowEnd(frames'[k]) <= registers'
        /\ \A later \in DOMAIN frames' : k < later =>
             WindowEnd(frames'[k]) <= frames'[later].registers
  BY <1>1, <1>2, <1>3 DEF WindowsOrdered
<1>5. WindowsOrdered'
  BY <1>2, <1>4 DEF WindowsOrdered, WindowEnd
<1>6. ASSUME NEW k \in DOMAIN frames', NEW c \in Window(frames'[k]) \cap Cells
      PROVE  pool'[c] = pool[c]
  <2>1. WindowEnd(frames'[k]) <= frames[n].registers /\ WindowEnd(frames'[k]) \in Nat
        /\ frames'[k].registers \in Nat
    BY <1>1, <1>2, <1>4, FrameFacts
  <2>2. c \in Int /\ c < frames[n].registers
    BY <1>2, <2>1, <1>6 DEF Window
  <2>3. c # frames[n].registers + frames[n].gen_value_id
    BY <1>2, <2>2
  <2>4. pool \in [Cells -> Word]
    BY DEF TypeOK
  <2> QED BY <1>2, <1>6, <2>3, <2>4
<1> QED BY <1>5, <1>6 DEF SafeStep, KeepsSuspendedWindows

LEMMA NextSafe == TypeOK /\ WindowsOrdered /\ [Next]_vars => SafeStep
<1> SUFFICES ASSUME TypeOK, WindowsOrdered, [Next]_vars PROVE SafeStep
  OBVIOUS
<1>1. ASSUME UNCHANGED <<prog, registers, frames, pool>> PROVE SafeStep
  BY <1>1, SameCallSafe
<1>2. CASE Const
  <2>1. instr.op \in GenOps
    BY <1>2 DEF Const, Ready, Fetched, ConstOps, GenOps, Opcodes
  <2> QED BY <1>2, <2>1, SetRegSafe DEF Const, Ready, Fetched
<1>3. CASE Binary
  <2>1. instr.op \in GenOps
    BY <1>3 DEF Binary, Ready, Fetched, GenOps, Opcodes, BinaryOps, ArithOps, DivideOps, CompareOps
  <2> QED BY <1>3, <2>1, SetRegSafe DEF Binary, Ready, Fetched
<1>4. CASE Not
  BY <1>4, SetRegSafe DEF Not, Ready, Fetched, GenOps, Opcodes
<1>5. CASE Load
  <2>1. instr.op \in GenOps
    BY <1>5 DEF Load, Ready, Fetched, GenOps, Opcodes
  <2>2. UNCHANGED pool
        \/ SetReg(LoadWord(AccessType, Reg(instr.gen), memory[Reg(instr.left)]))
    BY <1>5 DEF Load
  <2> QED BY <1>1, <1>5, <2>1, <2>2, SetRegSafe DEF Load, SameCall, Ready, Fetched
<1>6. CASE Trap \/ FrameOverflow \/ PoolOverflow \/ BadAccess \/ RetFromEntry
  BY <1>1, <1>6 DEF Trap, FrameOverflow, PoolOverflow, BadAccess, RetFromEntry, Stop
<1>7. CASE Store \/ Br \/ CondBr \/ CallPtr
  BY <1>1, <1>7 DEF Store, Br, CondBr, CallPtr, SameCall
<1>8. CASE CallFunc
  BY <1>8, CallFuncSafe
<1>9. CASE Ret
  BY <1>9, ReturnSafe DEF Ret
<1>10. CASE RetVoid
  BY <1>10, ReturnSafe DEF RetVoid
<1>11. CASE UNCHANGED vars
  BY <1>1, <1>11 DEF vars
<1>12. CASE Stopped
  BY <1>11, <1>12 DEF Stopped
<1> QED BY <1>2, <1>3, <1>4, <1>5, <1>6, <1>7, <1>8, <1>9, <1>10, <1>11, <1>12
        DEF Next, Execute

(***************************************************************************)
(* In a window-safe program the windows of the pending calls are disjoint  *)
(* and in the order of the calls.                                          *)
(***************************************************************************)
THEOREM WindowsStayOrdered == Spec => []WindowsOrdered
<1>1. Init => WindowsOrdered
  <2>1. Init => frames = <<>>
    BY DEF Init
  <2> QED BY <2>1 DEF WindowsOrdered
<1>2. TypeOK /\ WindowsOrdered /\ [Next]_vars => WindowsOrdered'
  BY NextSafe DEF SafeStep
<1> QED BY <1>1, <1>2, TypeCorrect, PTL DEF Spec

(***************************************************************************)
(* When no call goes to a function with fewer values than its caller,      *)
(* nothing that the callees do changes a value of a suspended activation:  *)
(* what eval_func finds in registers after a return is what it left there, *)
(* whatever the program, the depth of the calls and the size of the pool.  *)
(***************************************************************************)
THEOREM SuspendedWindowsSafe == Spec => SuspendedWindowsUntouched
<1>1. TypeOK /\ WindowsOrdered /\ [Next]_vars =>
        [WindowSafe(prog) => KeepsSuspendedWindows]_vars
  BY NextSafe DEF SafeStep
<1> QED BY <1>1, TypeCorrect, WindowsStayOrdered, PTL DEF Spec, SuspendedWindowsUntouched
----------------------------------------------------------------------------
(***************************************************************************)
(* The size of the pool.  With at most v values in a function, the window  *)
(* that frame k returns to starts at v * (k - 1) or below.                 *)
(***************************************************************************)
AtMost(v) == \A f \in DOMAIN prog : ValuesSize(prog[f]) <= v

BasesBelow(v) ==
  /\ Len(frames) <= MaxFrames
  /\ registers <= v * Len(frames)
  /\ \A k \in DOMAIN frames : frames[k].registers <= v * (k - 1)

PoolInv ==
  /\ NeverLeavesPool
  /\ \A v \in 0 .. PoolSize : AtMost(v) => BasesBelow(v)

\* The values an instruction names are values of its function.
LEMMA OwnIdsFacts ==
  ASSUME TypeOK, status = "running", instr_index \in DOMAIN Instrs
  PROVE  OwnIds \subseteq Ids(prog[block[1]])
<1>1. InstrOK(prog, prog[block[1]], instr)
  BY InstrFacts
<1> QED BY <1>1 DEF InstrOK, OwnIds

\* A pool that suffices holds everything that an instruction touches, save
\* at a call that finds no free frame.
LEMMA TouchedInPool ==
  ASSUME TypeOK, status = "running", instr_index \in DOMAIN Instrs,
         NEW v \in 0 .. PoolSize, AtMost(v), BasesBelow(v), v * (MaxFrames + 1) <= PoolSize,
         instr.op = "CALL_FUNC" => Len(frames) < MaxFrames
  PROVE  Touched \subseteq Cells
<1> DEFINE n == Len(frames)
<1>1. /\ v \in Nat /\ n \in Nat /\ registers \in Nat /\ MaxFrames \in Nat /\ PoolSize \in Nat
      /\ n <= MaxFrames /\ registers <= v * n
  BY SizeAssumption DEF TypeOK, BasesBelow
<1>2. \A m \in Nat : m <= MaxFrames => v * (m + 1) <= PoolSize /\ v * (m + 1) = v * m + v
  <2>1. TAKE m \in Nat
  <2>2. HAVE m <= MaxFrames
  <2>3. v * (m + 1) <= v * (MaxFrames + 1)
    BY <1>1, <2>2
  <2> QED BY <1>1, <2>3
<1>3. \A f \in DOMAIN prog : \A id \in Ids(prog[f]) : id \in Nat /\ id < v
  <2>1. \A f \in DOMAIN prog : prog[f] \in Function
    BY DEF TypeOK, WellFormed
  <2> QED BY <1>1, <2>1 DEF AtMost, Ids, ValuesSize, Function
<1> HIDE DEF n
<1>4. \A id \in OwnIds : registers + id \in Cells
  <2>1. TAKE id \in OwnIds
  <2>2. id \in Nat /\ id < v
    BY <1>3, OwnIdsFacts, InstrFacts
  <2>3. v * n + v <= PoolSize /\ v * n \in Nat
    BY <1>1, <1>2
  <2> QED BY <1>1, <2>2, <2>3 DEF Cells
<1>5. ASSUME instr.op = "CALL_FUNC", NEW k \in 0 .. Callee.args_count - 1
      PROVE  CalleeBase + k \in Cells
  <2>1. Callee \in Function /\ Callee.args_count <= ValuesSize(Callee)
        /\ ValuesSize(Callee) \in Nat /\ ValuesSize(Callee) <= v
    <3>1. instr.callee \in DOMAIN prog
      BY <1>5, InstrFacts DEF InstrOK
    <3>2. Callee \in Function /\ FunctionOK(prog, Callee) /\ ValuesSize(Callee) <= v
      BY <3>1 DEF Callee, TypeOK, WellFormed, AtMost
    <3> QED BY <3>2 DEF FunctionOK, ValuesSize, Function
  <2>2. k \in Nat /\ k < v
    BY <1>1, <2>1 DEF Function
  <2>3. n + 1 \in Nat /\ n + 1 <= MaxFrames
    BY <1>1, <1>5 DEF n
  <2>4. v * (n + 1) + v <= PoolSize /\ v * (n + 1) = v * n + v /\ v * n \in Nat
    BY <1>1, <1>2, <2>3
  <2> QED BY <1>1, <2>1, <2>2, <2>4 DEF CalleeBase, Cells
<1>6. ASSUME frames # <<>>
      PROVE  Last(frames).registers + Last(frames).gen_value_id \in Cells
  <2>1. n \in DOMAIN frames /\ Last(frames) = frames[n] /\ n - 1 \in Nat
    BY <1>6 DEF n, TypeOK, Last
  <2>2. frames[n].registers \in Nat /\ frames[n].registers <= v * (n - 1)
    BY <2>1, FrameFacts DEF BasesBelow
  <2>3. frames[n].gen_value_id \in Nat /\ frames[n].gen_value_id < v
    BY <1>3, <2>1 DEF TypeOK, BlockOK
  <2>4. v * (n - 1) + v <= PoolSize /\ v * (n - 1) \in Nat
    BY <1>1, <1>2, <2>1
  <2> QED BY <1>1, <2>1, <2>2, <2>3, <2>4 DEF Cells
<1> QED BY <1>4, <1>5, <1>6 DEF Touched

LEMMA PoolInit == Init => PoolInv
<1> SUFFICES ASSUME Init PROVE PoolInv
  OBVIOUS
<1>1. TypeOK /\ frames = <<>> /\ registers = 0
  BY InitTyped DEF Init
<1>2. ASSUME NEW v \in 0 .. PoolSize PROVE BasesBelow(v)
  <2>1. Len(frames) = 0 /\ \A k \in DOMAIN frames : FALSE
    BY <1>1
  <2>2. v * 0 = 0
    BY SizeAssumption
  <2> QED BY <1>1, <2>1, <2>2, SizeAssumption DEF BasesBelow
<1>3. ASSUME PoolSuffices(prog) PROVE status # "pool_overflow"
  <2>1. PICK s \in Starts :
          /\ prog = s.prog
          /\ \/ \E f \in DOMAIN s.prog : Found(s.prog, s.name, f) /\ Enter(s, f)
             \/ NotFound(s.prog, s.name) /\ Missing(s)
    BY DEF Init
  <2>2. CASE Missing(s)
    BY <2>2 DEF Missing
  <2>3. ASSUME NEW f \in DOMAIN prog, Enter(s, f) PROVE status = "running"
    <3>1. PICK v \in 0 .. PoolSize : \A g \in DOMAIN prog : ValuesSize(prog[g]) <= v
      BY <1>3 DEF PoolSuffices
    <3>2. prog[f].args_count \in Nat /\ prog[f].args_count <= ValuesSize(prog[f])
          /\ ValuesSize(prog[f]) \in Nat
      <4>1. prog[f] \in Function /\ FunctionOK(prog, prog[f])
        BY <1>1 DEF TypeOK, WellFormed
      <4> QED BY <4>1 DEF FunctionOK, ValuesSize, Function
    <3>3. prog[f].args_count <= PoolSize
      BY <3>1, <3>2, SizeAssumption
    <3>4. ~(prog[f].args_count > PoolSize)
      BY <3>2, <3>3, SizeAssumption
    <3> QED BY <2>1, <2>3, <3>4 DEF Enter
  <2> QED BY <2>1, <2>2, <2>3
<1> QED BY <1>2, <1>3 DEF PoolInv, NeverLeavesPool

LEMMA PoolNext == TypeOK /\ PoolInv /\ [Next]_vars => PoolInv'
<1> SUFFICES ASSUME TypeOK, PoolInv, [Next]_vars PROVE PoolInv'
  OBVIOUS
<1>0. MaxFrames \in Nat /\ PoolSize \in Nat /\ frames \in Seq(CallFrame)
      /\ Len(frames) \in Nat /\ registers \in Nat
  BY SizeAssumption DEF TypeOK
<1>1. ASSUME UNCHANGED <<prog, registers, frames>>,
             status' # "pool_overflow" \/ UNCHANGED status
      PROVE  PoolInv'
  BY <1>1 DEF PoolInv, NeverLeavesPool, PoolSuffices, AtMost, BasesBelow
<1>2. CASE Const \/ Binary \/ Not \/ Load \/ Store \/ Br \/ CondBr \/ CallPtr
  BY <1>1, <1>2 DEF Const, Binary, Not, Load, Store, Br, CondBr, CallPtr, SameCall
<1>3. CASE Trap \/ FrameOverflow \/ BadAccess \/ RetFromEntry
  BY <1>1, <1>3 DEF Trap, FrameOverflow, BadAccess, RetFromEntry, Stop
<1>4. CASE UNCHANGED vars
  BY <1>1, <1>4 DEF vars
<1>5. CASE Stopped
  BY <1>4, <1>5 DEF Stopped
<1>6. CASE PoolOverflow
  <2>1. ~PoolSuffices(prog)
    <3>1. SUFFICES ASSUME PoolSuffices(prog) PROVE FALSE
      OBVIOUS
    <3>2. PICK v \in 0 .. PoolSize : AtMost(v) /\ v * (MaxFrames + 1) <= PoolSize
      BY <3>1 DEF PoolSuffices, AtMost
    <3>3. BasesBelow(v)
      BY <3>2 DEF PoolInv
    <3> QED BY <1>6, <3>2, <3>3, TouchedInPool DEF PoolOverflow, Fetched
  <2>2. UNCHANGED <<prog, registers, frames>>
    BY <1>6 DEF PoolOverflow, Stop
  <2> QED BY <2>1, <2>2 DEF PoolInv, NeverLeavesPool, PoolSuffices, AtMost, BasesBelow
<1>7. CASE CallFunc
  <2>1. /\ prog' = prog /\ status' = status /\ registers' = registers + ValuesSize(Callee)
        /\ Len(frames) < MaxFrames
        /\ Len(frames') = Len(frames) + 1 /\ DOMAIN frames' = 1 .. Len(frames) + 1
        /\ \A k \in DOMAIN frames : frames'[k] = frames[k]
        /\ frames'[Len(frames) + 1].registers = registers
    BY <1>0, <1>7 DEF CallFunc, CalleeBase
  <2>2. instr.callee \in DOMAIN prog /\ ValuesSize(Callee) \in Nat
    <3>1. instr.callee \in DOMAIN prog
      BY <1>7, InstrFacts DEF CallFunc, Ready, Fetched, InstrOK
    <3>2. Callee \in Function
      BY <3>1 DEF Callee, TypeOK, WellFormed
    <3> QED BY <3>1, <3>2 DEF ValuesSize, Function
  <2>3. ASSUME NEW v \in 0 .. PoolSize, AtMost(v) PROVE BasesBelow(v)'
    <3>1. registers <= v * Len(frames) /\ ValuesSize(Callee) <= v
          /\ \A k \in DOMAIN frames : frames[k].registers <= v * (k - 1)
      BY <2>2, <2>3 DEF PoolInv, BasesBelow, AtMost, Callee
    <3>2. v * (Len(frames) + 1) = v * Len(frames) + v /\ v * Len(frames) \in Nat
      BY <1>0
    <3>3. registers' <= v * Len(frames')
      BY <1>0, <2>1, <2>2, <3>1, <3>2
    <3>4. ASSUME NEW k \in DOMAIN frames' PROVE frames'[k].registers <= v * (k - 1)
      <4>1. CASE k \in DOMAIN frames
        BY <2>1, <3>1, <4>1
      <4>2. CASE k = Len(frames) + 1
        BY <1>0, <2>1, <3>1, <4>2
      <4>3. DOMAIN frames = 1 .. Len(frames)
        BY <1>0
      <4> QED BY <1>0, <2>1, <4>1, <4>2, <4>3
    <3> QED BY <1>0, <2>1, <3>3, <3>4 DEF BasesBelow
  <2>4. NeverLeavesPool'
    BY <2>1 DEF PoolInv, NeverLeavesPool, PoolSuffices
  <2> QED BY <2>1, <2>3, <2>4 DEF PoolInv, AtMost
<1>8. ASSUME NEW w, frames # <<>>, ReturnWith(w) PROVE PoolInv'
  <2> DEFINE n == Len(frames)
  <2>1. /\ n \in DOMAIN frames /\ DOMAIN frames' = 1 .. n - 1 /\ Len(frames') = n - 1
        /\ \A k \in DOMAIN frames' : k \in DOMAIN frames /\ frames'[k] = frames[k]
        /\ registers' = frames[n].registers /\ prog' = prog /\ status' = status
    BY <1>8, PopFacts DEF ReturnWith
  <2>2. ASSUME NEW v \in 0 .. PoolSize, BasesBelow(v) PROVE BasesBelow(v)'
    BY <1>0, <2>1, <2>2 DEF BasesBelow
  <2>3. NeverLeavesPool'
    BY <2>1 DEF PoolInv, NeverLeavesPool, PoolSuffices
  <2> QED BY <2>1, <2>2, <2>3 DEF PoolInv, AtMost
<1>9. CASE Ret
  BY <1>8, <1>9 DEF Ret
<1>10. CASE RetVoid
  BY <1>8, <1>10 DEF RetVoid
<1> QED BY <1>2, <1>3, <1>4, <1>5, <1>6, <1>7, <1>9, <1>10 DEF Next, Execute

(***************************************************************************)
(* V * (MaxFrames + 1) registers are enough: a program none of whose       *)
(* functions has more than V values never leaves pool_of_registers (with   *)
(* 5000 registers and 1200 frames, V = 4).                                 *)
(***************************************************************************)
THEOREM PoolLargeEnough == Spec => []NeverLeavesPool
<1>1. PoolInv => NeverLeavesPool
  BY DEF PoolInv
<1> QED BY <1>1, PoolInit, PoolNext, TypeCorrect, PTL DEF Spec
----------------------------------------------------------------------------
(***************************************************************************)
(* The interpreter implements CowActivations, for every window-safe        *)
(* program, word width, pool size and number of frames.                    *)
(***************************************************************************)
\* A saved frame is at the call that pushed it.
FramesAtCalls ==
  \A k \in DOMAIN frames :
    LET is == prog[frames[k].block[1]].blocks[frames[k].block[2]] IN
    /\ frames[k].instr_index \in DOMAIN is
    /\ is[frames[k].instr_index].gen = frames[k].gen_value_id

RefInv == TypeOK /\ WindowsOrdered /\ WindowSafe(prog) /\ FramesAtCalls
----------------------------------------------------------------------------
LEMMA AtCallsNext == TypeOK /\ FramesAtCalls /\ [Next]_vars => FramesAtCalls' /\ prog' = prog
<1> SUFFICES ASSUME TypeOK, FramesAtCalls, [Next]_vars PROVE FramesAtCalls' /\ prog' = prog
  OBVIOUS
<1>1. ASSUME UNCHANGED <<prog, frames>> PROVE FramesAtCalls' /\ prog' = prog
  BY <1>1 DEF FramesAtCalls
<1>2. CASE Const \/ Binary \/ Not \/ Load \/ Store \/ Br \/ CondBr \/ CallPtr
  BY <1>1, <1>2 DEF Const, Binary, Not, Load, Store, Br, CondBr, CallPtr, SameCall
<1>3. CASE Trap \/ FrameOverflow \/ PoolOverflow \/ BadAccess \/ RetFromEntry \/ Stopped \/ UNCHANGED vars
  BY <1>1, <1>3 DEF Trap, FrameOverflow, PoolOverflow, BadAccess, RetFromEntry, Stop, Stopped, vars
<1>4. CASE CallFunc
  <2> DEFINE fr == [block |-> block, instr_index |-> instr_index,
                    gen_value_id |-> instr.gen, registers |-> registers]
  <2>1. prog' = prog /\ frames' = Append(frames, fr) /\ frames \in Seq(CallFrame) /\ instr_index \in DOMAIN Instrs
    BY <1>4 DEF CallFunc, TypeOK, Ready, Fetched
  <2>2. fr.block = block /\ fr.instr_index = instr_index /\ fr.gen_value_id = instr.gen OBVIOUS
  <2> HIDE DEF fr
  <2>3. \A k \in DOMAIN frames' : IF k \in DOMAIN frames THEN frames'[k] = frames[k] ELSE frames'[k] = fr
    BY <2>1
  <2> QED BY <2>1, <2>2, <2>3 DEF FramesAtCalls, instr, Instrs
<1>5. ASSUME NEW w, frames # <<>>, ReturnWith(w) PROVE FramesAtCalls' /\ prog' = prog
  <2>1. prog' = prog /\ \A k \in DOMAIN frames' : k \in DOMAIN frames /\ frames'[k] = frames[k]
    BY <1>5, PopFacts DEF ReturnWith
  <2> QED BY <2>1 DEF FramesAtCalls
<1>6. CASE Ret \/ RetVoid BY <1>5, <1>6 DEF Ret, RetVoid
<1> QED BY <1>2, <1>3, <1>4, <1>6 DEF Next, Execute

LEMMA RefInvInit == Init /\ WindowSafe(prog) => RefInv
<1> SUFFICES ASSUME Init, WindowSafe(prog) PROVE RefInv
  OBVIOUS
<1>1. frames = <<>> BY DEF Init
<1> QED BY <1>1, InitTyped DEF RefInv, WindowsOrdered, FramesAtCalls

LEMMA RefInvNext == RefInv /\ [Next]_vars => RefInv'
<1> SUFFICES ASSUME RefInv, [Next]_vars PROVE RefInv'
  OBVIOUS
<1>1. TypeOK' BY NextTyped DEF RefInv
<1>2. WindowsOrdered' BY NextSafe DEF RefInv, SafeStep
<1>3. FramesAtCalls' /\ prog' = prog BY AtCallsNext DEF RefInv
<1>4. WindowSafe(prog)' BY <1>3 DEF RefInv, WindowSafe
<1> QED BY <1>1, <1>2, <1>3, <1>4 DEF RefInv
----------------------------------------------------------------------------
\* A function on 1 .. n is a sequence of that length.
LEMMA FunctionIsSeq ==
  ASSUME NEW n \in Nat, NEW s, s = [k \in 1 .. n |-> s[k]]
  PROVE  Len(s) = n /\ DOMAIN s = 1 .. n
<1> DEFINE S == {s[k] : k \in 1 .. n}
<1>1. s \in [1 .. n -> S] OBVIOUS
<1> HIDE DEF S
<1>2. s \in Seq(S) BY <1>1
<1> QED BY <1>1, <1>2

\* The stack of activations, suspended and running.
IsStack(s) ==
  /\ Len(s) = Len(frames) + 1 /\ DOMAIN s = 1 .. Len(frames) + 1
  /\ \A k \in DOMAIN frames :
       s[k] = Activation(frames[k].block, frames[k].instr_index, frames[k].registers)
  /\ s[Len(frames) + 1] = Activation(block, instr_index, registers)

LEMMA StackShape ==
  ASSUME frames \in Seq(CallFrame), block[1] # 0
  PROVE  IsStack(ActivationStack)
<1> DEFINE s == ActivationStack
<1>1. Len(frames) \in Nat /\ DOMAIN frames = 1 .. Len(frames)
  <2> HIDE DEF CallFrame
  <2> QED OBVIOUS
<1>2. s = [k \in 1 .. Len(frames) + 1 |->
             IF k <= Len(frames)
             THEN Activation(frames[k].block, frames[k].instr_index, frames[k].registers)
             ELSE Activation(block, instr_index, registers)]
  BY DEF ActivationStack
<1> HIDE DEF s
<1>3. Len(s) = Len(frames) + 1 /\ DOMAIN s = 1 .. Len(frames) + 1
  <2>1. s = [k \in 1 .. Len(frames) + 1 |-> s[k]] BY <1>2
  <2> QED BY <1>1, <2>1, FunctionIsSeq
<1>4. \A k \in DOMAIN frames :
        s[k] = Activation(frames[k].block, frames[k].instr_index, frames[k].registers)
  BY <1>1, <1>2
<1>5. s[Len(frames) + 1] = Activation(block, instr_index, registers) BY <1>1, <1>2
<1> QED BY <1>3, <1>4, <1>5 DEF IsStack, s

LEMMA StackShapeNext ==
  ASSUME (frames \in Seq(CallFrame))', (block[1] # 0)'
  PROVE  IsStack(ActivationStack)'
<1> DEFINE s == ActivationStack'
<1>1. Len(frames') \in Nat /\ DOMAIN frames' = 1 .. Len(frames')
  <2> HIDE DEF CallFrame
  <2> QED OBVIOUS
<1>2. s = [k \in 1 .. Len(frames') + 1 |->
             IF k <= Len(frames')
             THEN Activation(frames[k].block, frames[k].instr_index, frames[k].registers)'
             ELSE Activation(block, instr_index, registers)']
  BY DEF ActivationStack, Activation, ValuesAt
<1> HIDE DEF s
<1>3. Len(s) = Len(frames') + 1 /\ DOMAIN s = 1 .. Len(frames') + 1
  <2>1. s = [k \in 1 .. Len(frames') + 1 |-> s[k]] BY <1>2
  <2> QED BY <1>1, <2>1, FunctionIsSeq
<1>4. \A k \in DOMAIN frames' :
        s[k] = Activation(frames[k].block, frames[k].instr_index, frames[k].registers)'
  BY <1>1, <1>2 DEF Activation, ValuesAt
<1>5. s[Len(frames') + 1] = Activation(block, instr_index, registers)' BY <1>1, <1>2
<1> QED BY <1>3, <1>4, <1>5 DEF IsStack, s, Activation, ValuesAt

\* The fields of an activation, now and after a step.
LEMMA ActivationFields ==
  ASSUME NEW b, NEW index, NEW base
  PROVE  LET a == Activation(b, index, base) IN
         /\ a.block = b /\ a.instr_index = index /\ a.values = ValuesAt(b, base)
         /\ DOMAIN a.values = Ids(prog[b[1]])
         /\ \A id \in Ids(prog[b[1]]) : a.values[id] = IF base + id \in Cells THEN pool[base + id] ELSE 0
BY DEF Activation, ValuesAt

LEMMA ActivationFieldsNext ==
  ASSUME NEW b, NEW index, NEW base
  PROVE  LET a == Activation(b, index, base)' IN
         /\ a.block = b /\ a.instr_index = index
         /\ DOMAIN a.values = Ids(prog'[b[1]])
         /\ \A id \in Ids(prog'[b[1]]) : a.values[id] = IF base + id \in Cells THEN pool'[base + id] ELSE 0
BY DEF Activation, ValuesAt

\* An activation whose window the step keeps.
LEMMA KeptActivation ==
  ASSUME prog' = prog, NEW b, NEW index, NEW base,
         \A id \in Ids(prog[b[1]]) : base + id \in Cells => pool'[base + id] = pool[base + id]
  PROVE  Activation(b, index, base)' = Activation(b, index, base)
<1>1. [id \in Ids(prog[b[1]]) |-> IF base + id \in Cells THEN pool'[base + id] ELSE 0] =
      [id \in Ids(prog[b[1]]) |-> IF base + id \in Cells THEN pool[base + id] ELSE 0]
  OBVIOUS
<1> QED BY <1>1 DEF Activation, ValuesAt

\* No step disturbs an activation that is suspended after it.
LEMMA SuspendedKept ==
  ASSUME RefInv, [Next]_vars, NEW k \in DOMAIN frames', NEW fr, fr = frames'[k],
         fr.registers \in Nat, prog[fr.block[1]] \in Function
  PROVE  Activation(fr.block, fr.instr_index, fr.registers)' =
         Activation(fr.block, fr.instr_index, fr.registers)
<1>1. prog' = prog BY AtCallsNext DEF RefInv
<1>2. \A c \in Window(fr) \cap Cells : pool'[c] = pool[c]
  BY NextSafe DEF RefInv, SafeStep, KeepsSuspendedWindows
<1>3. ValuesSize(prog[fr.block[1]]) \in Nat BY DEF ValuesSize, Function
<1>4. \A id \in Ids(prog[fr.block[1]]) : fr.registers + id \in Window(fr)
  BY <1>3 DEF Window, WindowEnd, Ids
<1>5. \A id \in Ids(prog[fr.block[1]]) :
        fr.registers + id \in Cells => pool'[fr.registers + id] = pool[fr.registers + id]
  BY <1>2, <1>4
<1> QED BY <1>1, <1>5, KeptActivation

\* The two stacks of a step that starts in a running activation.
LEMMA Stacks ==
  ASSUME RefInv, [Next]_vars, status = "running"
  PROVE  /\ IsStack(ActivationStack) /\ Len(frames) \in Nat /\ DOMAIN frames = 1 .. Len(frames)
         /\ IsStack(ActivationStack)' /\ Len(frames') \in Nat /\ DOMAIN frames' = 1 .. Len(frames')
         /\ prog' = prog
<1>1. TypeOK /\ TypeOK' BY NextTyped DEF RefInv
<1>2. frames \in Seq(CallFrame) /\ (frames \in Seq(CallFrame))' BY <1>1 DEF TypeOK
<1>3. block[1] # 0
  <2>1. block[1] \in DOMAIN prog /\ prog \in Seq(Function) BY <1>1 DEF TypeOK, BlockOK, WellFormed
  <2> HIDE DEF Function
  <2> QED BY <2>1
<1>4. block'[1] # 0
  <2>1. prog' = prog /\ prog \in Seq(Function) BY <1>1, AtCallsNext DEF RefInv, TypeOK, WellFormed
  <2>2. (status = "running")' => block'[1] \in DOMAIN prog BY <1>1, <2>1 DEF TypeOK, BlockOK
  <2>3. (status # "running")' => block' = block
    BY DEF Next, Execute, Const, Binary, Not, Load, Store, Br, CondBr, CallPtr, SameCall, Trap, FrameOverflow,
           PoolOverflow, BadAccess, RetFromEntry, Stop, Stopped, vars, CallFunc, Ret, RetVoid, ReturnWith
  <2> HIDE DEF Function
  <2> QED BY <1>3, <2>1, <2>2, <2>3
<1>5. \A s : s \in Seq(CallFrame) => Len(s) \in Nat /\ DOMAIN s = 1 .. Len(s)
  <2> HIDE DEF CallFrame
  <2> QED OBVIOUS
<1> QED BY <1>2, <1>3, <1>4, <1>5, StackShape, StackShapeNext, AtCallsNext DEF RefInv
----------------------------------------------------------------------------
\* What the abstract specification sees of the status.
Outcome == IF status \in {"running", "returned"} THEN status ELSE "aborted"

\* An instruction inside an activation.
LEMMA WorkStep ==
  ASSUME RefInv, [Next]_vars, SameCall, status = "running", instr_index \in DOMAIN Instrs,
         instr.op \notin {"CALL_FUNC", "RET", "RET_VOID"},
         \A c \in Cells : c # registers + instr.gen => pool'[c] = pool[c],
         IF instr.op \in {"BR", "COND_BR"} THEN \E b \in {instr.yes, instr.no} : b # 0 /\ GoTo(b)
                                           ELSE NextInstr /\ UNCHANGED block
  PROVE  Activations!Work
<1> SUFFICES ASSUME NEW S, S = ActivationStack, NEW T, T = ActivationStack', NEW n, n = Len(frames),
                    NEW r, r = registers
             PROVE  Activations!Work
  OBVIOUS
<1>1. /\ IsStack(S) /\ IsStack(T)' /\ n \in Nat /\ DOMAIN frames = 1 .. n
      /\ frames' = frames /\ registers' = registers /\ prog' = prog
  BY Stacks DEF SameCall
<1>2. /\ TypeOK /\ prog[block[1]] \in Function /\ instr \in Instr /\ InstrOK(prog, prog[block[1]], instr)
  BY InstrFacts DEF RefInv
<1>3. Len(S) = n + 1 /\ Len(T) = n + 1 BY <1>1 DEF IsStack
<1>4. ASSUME NEW k \in 1 .. n PROVE T[k] = S[k]
  <2> DEFINE fr == frames[k]
  <2>1. k \in DOMAIN frames /\ fr = frames'[k] /\ fr.registers \in Nat /\ prog[fr.block[1]] \in Function
    <3>1. k \in DOMAIN frames BY <1>1
    <3>2. prog[fr.block[1]] \in Function BY <1>2, <3>1 DEF TypeOK, BlockOK, WellFormed
    <3> QED BY <1>1, <1>2, <3>1, <3>2, FrameFacts
  <2>2. S[k] = Activation(fr.block, fr.instr_index, fr.registers) BY <1>1, <2>1 DEF IsStack
  <2>3. T[k] = Activation(frames[k].block, frames[k].instr_index, frames[k].registers)' BY <1>1, <2>1 DEF IsStack
  <2>4. ASSUME NEW x, x = frames[k] PROVE T[k] = S[k]
    <3>1. Activation(x.block, x.instr_index, x.registers)' = Activation(x.block, x.instr_index, x.registers)
      BY <1>1, <2>1, <2>4, SuspendedKept
    <3>2. T[k] = Activation(x.block, x.instr_index, x.registers)' BY <1>1, <2>3, <2>4
    <3>3. S[k] = Activation(x.block, x.instr_index, x.registers) BY <2>2, <2>4
    <3> QED BY <3>1, <3>2, <3>3
  <2> QED BY <2>4
<1> DEFINE top == S[n + 1]  act == T[n + 1]
<1>5. /\ top.block = block /\ top.instr_index = instr_index /\ DOMAIN top.values = Ids(prog[block[1]])
      /\ \A id \in Ids(prog[block[1]]) : top.values[id] = IF r + id \in Cells THEN pool[r + id] ELSE 0
  <2>1. top = Activation(block, instr_index, registers) BY <1>1 DEF IsStack
  <2> QED BY <2>1, ActivationFields
<1>6. block'[1] = block[1]
  BY DEF GoTo
<1>7. /\ act.block = block' /\ act.instr_index = instr_index' /\ DOMAIN act.values = Ids(prog[block[1]])
      /\ \A id \in Ids(prog[block[1]]) : act.values[id] = IF r + id \in Cells THEN pool'[r + id] ELSE 0
  <2>1. act = Activation(block, instr_index, registers)' BY <1>1 DEF IsStack
  <2>2. ASSUME NEW b, b = block', NEW i, i = instr_index'
        PROVE  /\ act.block = b /\ act.instr_index = i /\ DOMAIN act.values = Ids(prog'[b[1]])
               /\ \A id \in Ids(prog'[b[1]]) : act.values[id] = IF r + id \in Cells THEN pool'[r + id] ELSE 0
    <3>1. act = Activation(b, i, r)' BY <1>1, <2>1, <2>2 DEF Activation, ValuesAt
    <3> HIDE DEF act
    <3> QED BY <3>1, ActivationFieldsNext
  <2> QED BY <1>1, <1>6, <2>2
<1>8. ASSUME NEW v \in Ids(prog[block[1]]), v # instr.gen PROVE act.values[v] = top.values[v]
  <2>1. r + v # r + instr.gen BY <1>2, <1>8 DEF Ids, Instr, TypeOK
  <2>2. r + v \in Cells => pool'[r + v] = pool[r + v] BY <2>1
  <2> HIDE DEF act, top
  <2> QED BY <1>5, <1>7, <2>2
<1> HIDE DEF act, top
<1>9. Activations!Top = top /\ Activations!Fetch(top) = instr
  BY <1>3, <1>5 DEF Activations!Top, Activations!Last, Activations!Fetch, Activations!Fn, top, instr, Instrs
<1>10. Activations!SameValuesBut(top, act, instr.gen)
  BY <1>5, <1>7, <1>8 DEF Activations!SameValuesBut
<1>11. Activations!Untouched(Len(S) - 1)
  BY <1>1, <1>3, <1>4 DEF Activations!Untouched
<1>12. IF instr.op \in {"BR", "COND_BR"}
       THEN \E b \in {instr.yes, instr.no} :
              b # 0 /\ act.block = <<top.block[1], b>> /\ act.instr_index = 1
       ELSE act.block = top.block /\ act.instr_index = top.instr_index + 1
  <2>1. CASE instr.op \in {"BR", "COND_BR"}
    <3>1. PICK b \in {instr.yes, instr.no} : b # 0 /\ GoTo(b) BY <2>1
    <3> QED BY <1>5, <1>7, <2>1, <3>1 DEF GoTo
  <2>2. CASE instr.op \notin {"BR", "COND_BR"}
    BY <1>5, <1>7, <2>2 DEF NextInstr
  <2> QED BY <2>1, <2>2
<1>13. UNCHANGED <<prog, Outcome, result>> BY DEF SameCall, Outcome
<1>14. Outcome = "running" BY DEF Outcome
<1> QED BY <1>3, <1>9, <1>10, <1>11, <1>12, <1>13, <1>14 DEF Activations!Work, act, Outcome

\* A call: the callee's arguments are the values that the caller names.
LEMMA ArgsArrive ==
  ASSUME RefInv, CallFunc
  PROVE  \A k \in 1 .. Callee.args_count :
           /\ k \in DOMAIN instr.args /\ instr.args[k] \in Ids(prog[block[1]])
           /\ Source(k) \in Cells /\ CalleeBase + (k - 1) \in Cells
           /\ pool'[CalleeBase + (k - 1)] = pool[Source(k)]
<1> DEFINE n == Callee.args_count
           g == [k \in 1 .. n |-> pool[Source(k)]]
<1>1. /\ instr \in Instr /\ InstrOK(prog, prog[block[1]], instr) /\ instr.op = "CALL_FUNC"
      /\ prog[block[1]] \in Function /\ Touched \subseteq Cells
      /\ block[1] \in DOMAIN prog /\ block[2] \in DOMAIN prog[block[1]].blocks /\ instr_index \in DOMAIN Instrs
  BY InstrFacts DEF RefInv, CallFunc, Ready, Fetched
<1>2. Callee \in Function
  BY <1>1 DEF InstrOK, Callee, RefInv, TypeOK, WellFormed
<1>3. n \in Nat /\ n <= Len(instr.args) /\ instr.args \in Seq(Nat) /\ registers \in Nat
      /\ ValuesSize(Callee) \in Nat /\ ValuesSize(prog[block[1]]) \in Nat
  <2>1. n <= Len(instr.args) BY DEF CallFunc
  <2>2. Callee.args_count \in Nat BY <1>2 DEF Function
  <2>3. instr.args \in Seq(Nat) BY <1>1 DEF Instr
  <2>4. registers \in Nat BY DEF RefInv, TypeOK
  <2>5. ValuesSize(Callee) \in Nat BY <1>2 DEF Function, ValuesSize
  <2>6. ValuesSize(prog[block[1]]) \in Nat BY <1>1 DEF Function, ValuesSize
  <2> QED BY <2>1, <2>2, <2>3, <2>4, <2>5, <2>6
<1>4. ValuesSize(Callee) >= ValuesSize(prog[block[1]])
  BY <1>1 DEF RefInv, WindowSafe, Callee, instr, Instrs
<1> HIDE DEF n
<1>5. ASSUME NEW k \in 1 .. n
      PROVE  /\ k \in DOMAIN instr.args /\ instr.args[k] \in Ids(prog[block[1]])
             /\ Source(k) \in Cells /\ CalleeBase + (k - 1) \in Cells
             /\ Earlier(k) \notin 1 .. k - 1
  <2>1. k \in DOMAIN instr.args BY <1>3
  <2>2. instr.args[k] \in Ids(prog[block[1]]) BY <1>1, <2>1 DEF InstrOK
  <2>3. Source(k) \in Cells
    BY <1>1, <2>1, TouchedFacts DEF n, Source
  <2>4. CalleeBase + (k - 1) \in Cells
    <3>1. k - 1 \in 0 .. n - 1 BY <1>3
    <3> QED BY <1>1, <3>1 DEF Touched, n
  <2>5. Earlier(k) <= 0 /\ Earlier(k) \in Int
    <3> SUFFICES ASSUME NEW a, a = instr.args[k], NEW r, r = registers, NEW c, c = ValuesSize(Callee),
                        NEW v, v = ValuesSize(prog[block[1]])
                 PROVE  Earlier(k) <= 0 /\ Earlier(k) \in Int
      OBVIOUS
    <3>2. Earlier(k) = Source(k) - CalleeBase + 1 /\ Source(k) = r + a /\ CalleeBase = r + c
      <4>1. Earlier(k) = Source(k) - CalleeBase + 1 BY DEF Earlier
      <4>2. Source(k) = r + a BY DEF Source
      <4>3. CalleeBase = r + c BY DEF CalleeBase
      <4> QED BY <4>1, <4>2, <4>3
    <3>3. r \in Nat /\ c \in Nat /\ v \in Nat /\ c >= v /\ a \in 0 .. v - 1
      BY <1>3, <1>4, <2>2 DEF Ids
    <3> QED BY <3>2, <3>3
  <2> QED BY <2>1, <2>2, <2>3, <2>4, <2>5
<1>6. \A h : [k \in 1 .. n |-> IF Earlier(k) \in 1 .. k - 1 THEN h[Earlier(k)] ELSE pool[Source(k)]] = g
  BY <1>5
<1>7. ArgsCopied = g
  <2>1. ArgsCopied = CHOOSE h : h = [k \in 1 .. n |-> IF Earlier(k) \in 1 .. k - 1
                                                      THEN h[Earlier(k)] ELSE pool[Source(k)]]
    BY DEF ArgsCopied, n
  <2> HIDE DEF g
  <2>2. \A h : h = [k \in 1 .. n |-> IF Earlier(k) \in 1 .. k - 1
                                     THEN h[Earlier(k)] ELSE pool[Source(k)]] <=> h = g
    BY <1>6
  <2> QED BY <2>1, <2>2
<1>8. \A k \in 1 .. n : ArgsCopied[k] = pool[Source(k)] BY <1>7
<1>9. ASSUME NEW k \in 1 .. n PROVE pool'[CalleeBase + (k - 1)] = pool[Source(k)]
  <2> DEFINE c == CalleeBase + (k - 1)
  <2>1. c \in Cells BY <1>5
  <2>2. CalleeBase \in Nat BY <1>3 DEF CalleeBase
  <2>3. c - CalleeBase = k - 1 /\ k - 1 \in 0 .. n - 1 /\ c - CalleeBase + 1 = k BY <1>3, <2>2
  <2>4. pool' = [d \in Cells |-> IF d - CalleeBase \in 0 .. n - 1
                                 THEN ArgsCopied[d - CalleeBase + 1] ELSE pool[d]]
    BY DEF CallFunc, n
  <2> HIDE DEF c
  <2>5. pool'[c] = ArgsCopied[c - CalleeBase + 1] BY <2>1, <2>3, <2>4
  <2>6. pool'[c] = pool[Source(k)] BY <2>3, <2>5, <1>8
  <2> QED BY <2>6 DEF c
<1> QED BY <1>5, <1>9 DEF n

LEMMA CallStep ==
  ASSUME RefInv, [Next]_vars, CallFunc
  PROVE  Activations!Call
<1> SUFFICES ASSUME NEW S, S = ActivationStack, NEW T, T = ActivationStack', NEW n, n = Len(frames),
                    NEW r, r = registers, NEW base, base = CalleeBase, NEW callee, callee = instr.callee
             PROVE  Activations!Call
  OBVIOUS
<1>1. /\ status = "running" /\ instr.op = "CALL_FUNC" /\ instr_index \in DOMAIN Instrs
      /\ TypeOK /\ prog[block[1]] \in Function /\ instr \in Instr /\ InstrOK(prog, prog[block[1]], instr)
  BY InstrFacts DEF RefInv, CallFunc, Ready, Fetched
<1>2. IsStack(S) /\ IsStack(T)' /\ n \in Nat /\ DOMAIN frames = 1 .. n /\ prog' = prog
  BY <1>1, Stacks
<1> DEFINE fr == [block |-> block, instr_index |-> instr_index, gen_value_id |-> instr.gen, registers |-> registers]
<1>3. /\ frames' = Append(frames, fr) /\ block' = <<callee, 1>> /\ instr_index' = 1 /\ registers' = base
      /\ UNCHANGED <<status, result>>
  BY DEF CallFunc
<1>4. fr.block = block /\ fr.instr_index = instr_index /\ fr.registers = r OBVIOUS
<1>5. frames \in Seq(CallFrame) BY <1>1 DEF TypeOK
<1> HIDE DEF fr
<1>6. /\ Len(frames') = n + 1 /\ DOMAIN frames' = 1 .. n + 1
      /\ \A k \in 1 .. n : frames'[k] = frames[k]
      /\ frames'[n + 1] = fr
  <2> HIDE DEF CallFrame
  <2> QED BY <1>2, <1>3, <1>5
<1>7. Len(S) = n + 1 /\ Len(T) = n + 2 /\ n + 1 + 1 = n + 2 BY <1>2, <1>6 DEF IsStack
<1>8. ASSUME NEW k \in 1 .. n + 1 PROVE T[k] = S[k]
  <2>1. k \in DOMAIN frames' BY <1>6
  <2>2. ASSUME NEW x, x = frames'[k] PROVE T[k] = S[k]
    <3>1. T[k] = Activation(x.block, x.instr_index, x.registers)'
      BY <1>2, <2>1, <2>2 DEF IsStack, Activation, ValuesAt
    <3>2. CASE k \in 1 .. n
      <4>1. k \in DOMAIN frames /\ x = frames[k] BY <1>2, <1>6, <2>2, <3>2
      <4>2. x.registers \in Nat /\ prog[x.block[1]] \in Function
        <5>1. prog[x.block[1]] \in Function BY <1>1, <4>1 DEF TypeOK, BlockOK, WellFormed
        <5> QED BY <1>1, <4>1, <5>1, FrameFacts
      <4>3. S[k] = Activation(x.block, x.instr_index, x.registers) BY <1>2, <4>1 DEF IsStack
      <4>4. Activation(x.block, x.instr_index, x.registers)' = Activation(x.block, x.instr_index, x.registers)
        BY <2>1, <2>2, <4>2, SuspendedKept
      <4> QED BY <3>1, <4>3, <4>4
    <3>3. CASE k = n + 1
      <4>1. x = fr BY <1>6, <2>2, <3>3
      <4>2. x.registers \in Nat /\ prog[x.block[1]] \in Function
        BY <1>1, <1>4, <4>1 DEF TypeOK
      <4>3. S[k] = Activation(x.block, x.instr_index, x.registers) BY <1>2, <1>4, <3>3, <4>1 DEF IsStack
      <4>4. Activation(x.block, x.instr_index, x.registers)' = Activation(x.block, x.instr_index, x.registers)
        BY <2>1, <2>2, <4>2, SuspendedKept
      <4> QED BY <3>1, <4>3, <4>4
    <3> QED BY <1>2, <3>2, <3>3
  <2> QED BY <2>2
<1> DEFINE top == S[n + 1]  new == T[n + 2]
<1>9. /\ top.block = block /\ top.instr_index = instr_index
      /\ \A id \in Ids(prog[block[1]]) : top.values[id] = IF r + id \in Cells THEN pool[r + id] ELSE 0
  <2>1. top = Activation(block, instr_index, registers) BY <1>2 DEF IsStack
  <2> QED BY <2>1, ActivationFields
<1>10. /\ new.block = <<callee, 1>> /\ new.instr_index = 1 /\ DOMAIN new.values = Ids(prog[callee])
       /\ \A id \in Ids(prog[callee]) : new.values[id] = IF base + id \in Cells THEN pool'[base + id] ELSE 0
  <2>1. new = Activation(block, instr_index, registers)' BY <1>2, <1>6, <1>7 DEF IsStack
  <2>2. ASSUME NEW b, b = <<callee, 1>>, NEW i, i = 1
        PROVE  /\ new.block = b /\ new.instr_index = i /\ DOMAIN new.values = Ids(prog'[b[1]])
               /\ \A id \in Ids(prog'[b[1]]) : new.values[id] = IF base + id \in Cells THEN pool'[base + id] ELSE 0
    <3>1. new = Activation(b, i, base)' BY <1>3, <2>1, <2>2 DEF Activation, ValuesAt
    <3> HIDE DEF new
    <3> QED BY <3>1, ActivationFieldsNext
  <2>3. \A b : b = <<callee, 1>> => b[1] = callee OBVIOUS
  <2> QED BY <1>2, <2>2, <2>3
<1> HIDE DEF top, new
<1>11. \A k \in 1 .. prog[callee].args_count : new.values[k - 1] = top.values[instr.args[k]]
  <2>1. TAKE k \in 1 .. prog[callee].args_count
  <2>2. /\ instr.args[k] \in Ids(prog[block[1]]) /\ r + instr.args[k] \in Cells
        /\ base + (k - 1) \in Cells /\ pool'[base + (k - 1)] = pool[r + instr.args[k]]
    BY ArgsArrive DEF Callee, Source
  <2>3. k - 1 \in Ids(prog[callee])
    <3>1. prog[callee] \in Function /\ FunctionOK(prog, prog[callee])
      BY <1>1 DEF InstrOK, TypeOK, WellFormed
    <3> QED BY <3>1 DEF FunctionOK, Function, Ids, ValuesSize
  <2> QED BY <1>9, <1>10, <2>2, <2>3
<1>12. Activations!Top = top /\ Activations!Fetch(top) = instr
  BY <1>7, <1>9 DEF Activations!Top, Activations!Last, Activations!Fetch, Activations!Fn, top, instr, Instrs
<1>13. Activations!Untouched(Len(S)) BY <1>7, <1>8 DEF Activations!Untouched
<1>14. UNCHANGED <<prog, Outcome, result>> BY <1>2, <1>3 DEF Outcome
<1>15. Outcome = "running" BY <1>1 DEF Outcome
<1>16. T[Len(S) + 1] = new BY <1>7 DEF new
<1> QED BY <1>1, <1>7, <1>10, <1>11, <1>12, <1>13, <1>14, <1>15, <1>16
        DEF Activations!Call, Activations!Ids, Activations!ValuesSize, Ids, ValuesSize, Outcome


\* A return: the caller resumes after its call, with the value in the call's gen_value.
LEMMA ReturnStep ==
  ASSUME RefInv, [Next]_vars, status = "running", instr_index \in DOMAIN Instrs, frames # <<>>,
         Touched \subseteq Cells, instr.op \in {"RET", "RET_VOID"},
         NEW w, ReturnWith(w), instr.op = "RET" => w = Reg(instr.left)
  PROVE  Activations!Return
<1> SUFFICES ASSUME NEW S, S = ActivationStack, NEW T, T = ActivationStack', NEW n, n = Len(frames),
                    NEW x, x = frames[n], NEW r, r = x.registers, NEW gen, gen = x.gen_value_id
             PROVE  Activations!Return
  OBVIOUS
<1>1. TypeOK /\ prog[block[1]] \in Function /\ instr \in Instr /\ InstrOK(prog, prog[block[1]], instr)
  BY InstrFacts DEF RefInv
<1>2. IsStack(S) /\ IsStack(T)' /\ n \in Nat /\ DOMAIN frames = 1 .. n /\ DOMAIN frames' = 1 .. Len(frames')
      /\ prog' = prog
  BY Stacks
<1>3. /\ n \in DOMAIN frames /\ Last(frames) = x /\ Len(frames') = n - 1
      /\ \A k \in DOMAIN frames' : k \in DOMAIN frames /\ frames'[k] = frames[k]
  BY <1>1, PopFacts DEF ReturnWith
<1>4. /\ block' = x.block /\ instr_index' = x.instr_index + 1 /\ registers' = r
      /\ pool' = [pool EXCEPT ![r + gen] = w] /\ UNCHANGED <<status, result>>
  BY <1>3 DEF ReturnWith
<1>5. r \in Nat /\ gen \in Nat /\ gen \in Ids(prog[x.block[1]]) /\ r + gen \in Cells
  <2>1. r \in Nat /\ gen \in Nat BY <1>1, <1>3, FrameFacts
  <2>2. gen \in Ids(prog[x.block[1]]) BY <1>1, <1>3 DEF TypeOK
  <2>3. r + gen \in Cells BY <1>3 DEF Touched
  <2> QED BY <2>1, <2>2, <2>3
<1>6. Len(S) = n + 1 /\ Len(T) = n BY <1>2, <1>3 DEF IsStack
<1>7. ASSUME NEW k \in 1 .. n - 1 PROVE T[k] = S[k]
  <2>1. k \in DOMAIN frames' /\ k \in DOMAIN frames BY <1>2, <1>3
  <2>2. ASSUME NEW y, y = frames'[k] PROVE T[k] = S[k]
    <3>1. y = frames[k] BY <1>3, <2>1, <2>2
    <3>2. y.registers \in Nat /\ prog[y.block[1]] \in Function
      <4>1. prog[y.block[1]] \in Function BY <1>1, <2>1, <3>1 DEF TypeOK, BlockOK, WellFormed
      <4> QED BY <1>1, <2>1, <3>1, <4>1, FrameFacts
    <3>3. Activation(y.block, y.instr_index, y.registers)' = Activation(y.block, y.instr_index, y.registers)
      BY <2>1, <2>2, <3>2, SuspendedKept
    <3>4. T[k] = Activation(y.block, y.instr_index, y.registers)'
      BY <1>2, <2>1, <2>2 DEF IsStack, Activation, ValuesAt
    <3>5. S[k] = Activation(y.block, y.instr_index, y.registers) BY <1>2, <2>1, <3>1 DEF IsStack
    <3> QED BY <3>3, <3>4, <3>5
  <2> QED BY <2>2
<1> DEFINE top == S[n + 1]  caller == S[n]  resumed == T[n]
<1>8. /\ top.block = block /\ top.instr_index = instr_index
      /\ \A id \in Ids(prog[block[1]]) :
           top.values[id] = IF registers + id \in Cells THEN pool[registers + id] ELSE 0
  <2>1. top = Activation(block, instr_index, registers) BY <1>2 DEF IsStack
  <2> QED BY <2>1, ActivationFields
<1>9. /\ caller.block = x.block /\ caller.instr_index = x.instr_index
      /\ DOMAIN caller.values = Ids(prog[x.block[1]])
      /\ \A id \in Ids(prog[x.block[1]]) : caller.values[id] = IF r + id \in Cells THEN pool[r + id] ELSE 0
  <2>1. caller = Activation(x.block, x.instr_index, r) BY <1>2, <1>3 DEF IsStack
  <2> HIDE DEF caller
  <2> QED BY <2>1, ActivationFields
<1>10. /\ resumed.block = x.block /\ resumed.instr_index = x.instr_index + 1
       /\ DOMAIN resumed.values = Ids(prog[x.block[1]])
       /\ \A id \in Ids(prog[x.block[1]]) : resumed.values[id] = IF r + id \in Cells THEN pool'[r + id] ELSE 0
  <2>1. resumed = Activation(block, instr_index, registers)' BY <1>2, <1>3 DEF IsStack
  <2>2. ASSUME NEW b, b = x.block, NEW i, i = x.instr_index + 1
        PROVE  /\ resumed.block = b /\ resumed.instr_index = i /\ DOMAIN resumed.values = Ids(prog'[b[1]])
               /\ \A id \in Ids(prog'[b[1]]) : resumed.values[id] = IF r + id \in Cells THEN pool'[r + id] ELSE 0
    <3>1. resumed = Activation(b, i, r)' BY <1>4, <2>1, <2>2 DEF Activation, ValuesAt
    <3> HIDE DEF resumed
    <3> QED BY <3>1, ActivationFieldsNext
  <2> QED BY <1>2, <2>2
<1> HIDE DEF top, caller, resumed
<1>11. Activations!Fetch(caller).gen = gen
  BY <1>3, <1>9 DEF Activations!Fetch, Activations!Fn, RefInv, FramesAtCalls
<1>12. pool \in [Cells -> Word] BY <1>1 DEF TypeOK
<1>13. Activations!SameValuesBut(caller, resumed, gen)
  <2>1. ASSUME NEW v \in Ids(prog[x.block[1]]), v # gen PROVE resumed.values[v] = caller.values[v]
    <3>1. r + v # r + gen BY <1>5, <2>1 DEF Ids
    <3>2. r + v \in Cells => pool'[r + v] = pool[r + v] BY <1>4, <1>12, <3>1
    <3> QED BY <1>9, <1>10, <3>2
  <2> QED BY <1>9, <1>10, <2>1 DEF Activations!SameValuesBut
<1>14. instr.op = "RET" => resumed.values[gen] = top.values[instr.left]
  <2>1. HAVE instr.op = "RET"
  <2>2. resumed.values[gen] = w BY <1>4, <1>5, <1>10, <1>12
  <2>3. instr.left \in Ids(prog[block[1]]) /\ registers + instr.left \in Cells
    BY <1>1, <2>1, TouchedFacts DEF InstrOK, LeftOps
  <2>4. top.values[instr.left] = w BY <1>8, <2>1, <2>3 DEF Reg
  <2> QED BY <2>2, <2>4
<1>15. Activations!Top = top /\ Activations!Fetch(top) = instr
  BY <1>6, <1>8 DEF Activations!Top, Activations!Last, Activations!Fetch, Activations!Fn, top, instr, Instrs
<1>16. n >= 1 /\ Len(S) - 1 = n /\ Len(S) - 2 = n - 1 BY <1>2, <1>3, <1>6
<1>17. Activations!Untouched(Len(S) - 2) BY <1>7, <1>16 DEF Activations!Untouched
<1>18. UNCHANGED <<prog, Outcome, result>> BY <1>2, <1>4 DEF Outcome
<1>19. Outcome = "running" BY DEF Outcome
<1>20. S[Len(S) - 1] = caller /\ T[Len(S) - 1] = resumed BY <1>16 DEF caller, resumed
<1>21. Len(S) > 1 /\ Len(T) = Len(S) - 1 BY <1>6, <1>16
<1> HIDE DEF Instr
<1> QED BY <1>9, <1>10, <1>11, <1>13, <1>14, <1>15, <1>17, <1>18, <1>19, <1>20, <1>21
        DEF Activations!Return, Outcome

\* The entry function returns.
LEMMA FinishStep ==
  ASSUME RefInv, [Next]_vars, RetFromEntry
  PROVE  Activations!Finish
<1> SUFFICES ASSUME NEW S, S = ActivationStack PROVE Activations!Finish
  OBVIOUS
<1>1. /\ status = "running" /\ instr_index \in DOMAIN Instrs /\ frames = <<>> /\ Touched \subseteq Cells
      /\ instr.op \in {"RET", "RET_VOID"} /\ status' = "returned"
      /\ UNCHANGED <<prog, block, instr_index, registers, pool, frames>>
      /\ result' = IF instr.op = "RET" THEN Reg(instr.left) ELSE 0
  BY DEF RetFromEntry, Ready, Fetched, Stop
<1>2. IsStack(S) BY <1>1, Stacks
<1>3. Len(frames) = 0 BY <1>1
<1> DEFINE top == S[1]
<1>4. Len(S) = 1 /\ top = Activation(block, instr_index, registers) BY <1>2, <1>3 DEF IsStack
<1>5. /\ top.block = block /\ top.instr_index = instr_index
      /\ \A id \in Ids(prog[block[1]]) :
           top.values[id] = IF registers + id \in Cells THEN pool[registers + id] ELSE 0
  BY <1>4, ActivationFields
<1> HIDE DEF top
<1>6. InstrOK(prog, prog[block[1]], instr) BY <1>1, InstrFacts DEF RefInv
<1>7. instr.op = "RET" => top.values[instr.left] = Reg(instr.left)
  <2>1. HAVE instr.op = "RET"
  <2>2. instr.left \in Ids(prog[block[1]]) /\ registers + instr.left \in Cells
    BY <1>1, <1>6, <2>1, TouchedFacts DEF InstrOK, LeftOps
  <2> QED BY <1>5, <2>2 DEF Reg
<1>8. Activations!Top = top /\ Activations!Fetch(top) = instr
  BY <1>4, <1>5 DEF Activations!Top, Activations!Last, Activations!Fetch, Activations!Fn, top, instr, Instrs
<1>9. Outcome = "running" /\ Outcome' = "returned" BY <1>1 DEF Outcome
<1>10. ActivationStack' = S BY <1>1 DEF ActivationStack, Activation, ValuesAt
<1> QED BY <1>1, <1>4, <1>7, <1>8, <1>9, <1>10 DEF Activations!Finish, Outcome

\* The loop is left in the middle of a function.
LEMMA AbortStep ==
  ASSUME Trap \/ FrameOverflow \/ PoolOverflow \/ BadAccess
  PROVE  Activations!Abort
<1>1. /\ status = "running" /\ status' \notin {"running", "returned"}
      /\ UNCHANGED <<prog, block, instr_index, registers, pool, frames, result>>
  BY DEF Trap, FrameOverflow, PoolOverflow, BadAccess, Ready, Fetched, Stop
<1>2. ActivationStack' = ActivationStack BY <1>1 DEF ActivationStack, Activation, ValuesAt
<1> QED BY <1>1, <1>2 DEF Activations!Abort

----------------------------------------------------------------------------
\* Every other instruction works inside the running activation.
LEMMA OwnStep ==
  ASSUME RefInv, [Next]_vars, Const \/ Binary \/ Not \/ Load \/ Store \/ Br \/ CondBr \/ CallPtr
  PROVE  Activations!Work
<1>1. /\ status = "running" /\ instr_index \in DOMAIN Instrs /\ SameCall
      /\ instr.op \in Opcodes \ {"CALL_FUNC", "RET", "RET_VOID"}
  <2>1. \A ops : Ready(ops) => status = "running" /\ instr_index \in DOMAIN Instrs /\ instr.op \in ops
    BY DEF Ready, Fetched
  <2>2. CASE Const BY <2>1, <2>2 DEF Const, ConstOps, Opcodes
  <2>3. CASE Binary BY <2>1, <2>3 DEF Binary, BinaryOps, ArithOps, DivideOps, CompareOps, Opcodes
  <2>4. CASE Not \/ Load \/ Store \/ Br \/ CondBr \/ CallPtr
    BY <2>1, <2>4 DEF Not, Load, Store, Br, CondBr, CallPtr, Opcodes
  <2> QED BY <2>2, <2>3, <2>4
<1>2. pool \in [Cells -> Word] /\ prog[block[1]] \in Function /\ InstrOK(prog, prog[block[1]], instr)
  BY <1>1, InstrFacts DEF RefInv, TypeOK
<1>3. \A c \in Cells : c # registers + instr.gen => pool'[c] = pool[c]
  <2>1. \A w : SetReg(w) => \A c \in Cells : c # registers + instr.gen => pool'[c] = pool[c]
    BY <1>2 DEF SetReg
  <2> QED BY <2>1 DEF Const, Binary, Not, Load, Store, Br, CondBr, CallPtr
<1>4. CASE Br \/ CondBr
  <2>1. Br => instr.op = "BR" /\ GoTo(instr.yes)
    BY DEF Br, Ready, Fetched
  <2>2. CondBr => instr.op = "COND_BR" /\ (GoTo(instr.yes) \/ GoTo(instr.no))
    BY DEF CondBr, Ready, Fetched
  <2>3. prog[block[1]].blocks \in Seq(Seq(Instr)) BY <1>2 DEF Function
  <2>4. 0 \notin DOMAIN prog[block[1]].blocks
    <3> HIDE DEF Instr
    <3> QED BY <2>3
  <2>5. instr.op \in {"BR", "COND_BR"} => instr.yes # 0 BY <1>2, <2>4 DEF InstrOK
  <2>6. instr.op = "COND_BR" => instr.no # 0 BY <1>2, <2>4 DEF InstrOK
  <2>7. instr.op \in {"BR", "COND_BR"} /\ \E b \in {instr.yes, instr.no} : b # 0 /\ GoTo(b)
    BY <1>4, <2>1, <2>2, <2>5, <2>6
  <2> QED BY <1>1, <1>3, <2>7, WorkStep
<1>5. CASE Const \/ Binary \/ Not \/ Load \/ Store \/ CallPtr
  <2>1. instr.op \notin {"BR", "COND_BR"}
    <3>1. \A ops : Ready(ops) => instr.op \in ops BY DEF Ready, Fetched
    <3>2. CASE Const BY <3>1, <3>2 DEF Const, ConstOps
    <3>3. CASE Binary BY <3>1, <3>3 DEF Binary, BinaryOps, ArithOps, DivideOps, CompareOps
    <3>4. CASE Not \/ Load \/ Store \/ CallPtr BY <3>1, <3>4 DEF Not, Load, Store, CallPtr
    <3> QED BY <1>5, <3>2, <3>3, <3>4
  <2>2. NextInstr /\ UNCHANGED block BY <1>5 DEF Const, Binary, Not, Load, Store, CallPtr
  <2> QED BY <1>1, <1>3, <2>1, <2>2, WorkStep
<1> QED BY <1>4, <1>5

LEMMA RefinesNext ==
  ASSUME RefInv, [Next]_vars
  PROVE  [Activations!Next]_Activations!vars
<1>1. CASE Const \/ Binary \/ Not \/ Load \/ Store \/ Br \/ CondBr \/ CallPtr
  BY <1>1, OwnStep DEF Activations!Next
<1>2. CASE CallFunc
  BY <1>2, CallStep DEF Activations!Next
<1>3. CASE Ret \/ RetVoid
  <2>1. PICK w : ReturnWith(w) /\ (instr.op = "RET" => w = Reg(instr.left))
    <3>1. CASE Ret BY <3>1 DEF Ret
    <3>2. CASE RetVoid
      <4>1. instr.op = "RET_VOID" BY <3>2 DEF RetVoid, Ready, Fetched
      <4> QED BY <3>2, <4>1 DEF RetVoid
    <3> QED BY <1>3, <3>1, <3>2
  <2>2. /\ status = "running" /\ instr_index \in DOMAIN Instrs /\ frames # <<>>
        /\ Touched \subseteq Cells /\ instr.op \in {"RET", "RET_VOID"}
    BY <1>3 DEF Ret, RetVoid, Ready, Fetched
  <2> QED BY <2>1, <2>2, ReturnStep DEF Activations!Next
<1>4. CASE RetFromEntry
  BY <1>4, FinishStep DEF Activations!Next
<1>5. CASE Trap \/ FrameOverflow \/ PoolOverflow \/ BadAccess
  BY <1>5, AbortStep DEF Activations!Next
<1>6. CASE Stopped \/ UNCHANGED vars
  <2>1. UNCHANGED <<prog, block, instr_index, registers, pool, frames, status, result>>
    BY <1>6 DEF Stopped, vars
  <2>2. ActivationStack' = ActivationStack BY <2>1 DEF ActivationStack, Activation, ValuesAt
  <2> QED BY <2>1, <2>2 DEF Activations!vars
<1> QED BY <1>1, <1>2, <1>3, <1>4, <1>5, <1>6 DEF Next, Execute

LEMMA RefinesInit == Init => Activations!Init
<1> SUFFICES ASSUME Init PROVE Activations!Init
  OBVIOUS
<1>1. PICK s \in Starts :
        /\ prog = s.prog /\ instr_index = 1 /\ registers = 0 /\ frames = <<>> /\ result = 0
        /\ \/ \E f \in DOMAIN s.prog : Found(s.prog, s.name, f) /\ Enter(s, f)
           \/ NotFound(s.prog, s.name) /\ Missing(s)
  BY DEF Init
<1> SUFFICES ASSUME NEW S, S = ActivationStack PROVE Activations!Init
  OBVIOUS
<1>2. StartOK(s) BY StartsAssumption
<1>3. ASSUME NEW f \in DOMAIN s.prog, Found(s.prog, s.name, f), Enter(s, f) PROVE Activations!Init
  <2> DEFINE n == s.prog[f].args_count
  <2>1. /\ block = <<f, 1>> /\ pool = [c \in Cells |-> IF c < n THEN s.values[c + 1] ELSE s.pool[c]]
        /\ status = IF n > PoolSize THEN "pool_overflow" ELSE "running"
    BY <1>3 DEF Enter
  <2>2. f # 0 /\ n \in Nat /\ n <= ValuesSize(s.prog[f]) /\ ValuesSize(s.prog[f]) \in Nat
    <3>1. s.prog \in Seq(Function) /\ FunctionOK(s.prog, s.prog[f]) BY <1>2 DEF StartOK, WellFormed
    <3>2. s.prog[f] \in Function BY <3>1
    <3>3. f # 0
      <4> HIDE DEF Function
      <4> QED BY <3>1
    <3> QED BY <3>1, <3>2, <3>3 DEF FunctionOK, Function, ValuesSize
  <2> HIDE DEF n
  <2>3. IsStack(S)
    <3>1. frames \in Seq(CallFrame) /\ block[1] # 0 BY <1>1, <2>1, <2>2
    <3> QED BY <3>1, StackShape
  <2>4. Len(frames) = 0 BY <1>1
  <2> DEFINE top == S[1]
  <2>5. Len(S) = 1 /\ top = Activation(block, instr_index, registers) BY <2>3, <2>4 DEF IsStack
  <2>6. ASSUME NEW b, b = <<f, 1>>
        PROVE  /\ top.block = b /\ top.instr_index = 1 /\ DOMAIN top.values = Ids(prog[b[1]])
               /\ \A id \in Ids(prog[b[1]]) : top.values[id] = IF 0 + id \in Cells THEN pool[0 + id] ELSE 0
    <3>1. top = Activation(b, 1, 0) BY <1>1, <2>1, <2>5, <2>6
    <3> HIDE DEF top
    <3> QED BY <3>1, ActivationFields
  <2> HIDE DEF top
  <2>7. /\ top.block = <<f, 1>> /\ top.instr_index = 1 /\ DOMAIN top.values = Ids(s.prog[f])
        /\ \A id \in Ids(s.prog[f]) : top.values[id] = IF 0 + id \in Cells THEN pool[0 + id] ELSE 0
    <3>1. \A b : b = <<f, 1>> => b[1] = f OBVIOUS
    <3>2. PICK b : b = <<f, 1>> OBVIOUS
    <3>3. b[1] = f /\ prog = s.prog BY <1>1, <3>1, <3>2
    <3> QED BY <2>6, <3>2, <3>3
  <2>8. ASSUME NEW k \in 1 .. n, ~(n > PoolSize) PROVE top.values[k - 1] = s.values[k]
    <3>1. k - 1 \in Ids(s.prog[f]) /\ 0 + (k - 1) = k - 1 /\ k - 1 \in Cells /\ k - 1 < n /\ k - 1 + 1 = k
      BY <2>2, <2>8, SizeAssumption DEF Ids, Cells
    <3>2. top.values[k - 1] = pool[k - 1] BY <2>7, <3>1
    <3>3. pool[k - 1] = s.values[k - 1 + 1] BY <2>1, <3>1
    <3> QED BY <3>1, <3>2, <3>3
  <2>9. Activations!Top = top BY <2>5 DEF Activations!Top, Activations!Last, top
  <2>10. Activations!Found(s.prog, s.name, f) BY <1>3 DEF Found, Activations!Found
  <2>11. \/ Outcome = "aborted"
         \/ Outcome = "running" /\ \A k \in 1 .. n : top.values[k - 1] = s.values[k]
    BY <2>1, <2>8 DEF Outcome
  <2> QED BY <1>1, <2>5, <2>7, <2>9, <2>10, <2>11
          DEF Activations!Init, Activations!Ids, Activations!ValuesSize, Ids, ValuesSize, Outcome, n
<1>4. ASSUME NotFound(s.prog, s.name), Missing(s) PROVE Activations!Init
  <2>1. block[1] = 0 /\ status = "returned" BY <1>4 DEF Missing
  <2>2. S = [k \in 1 .. 0 |-> S[k]] BY <2>1 DEF ActivationStack
  <2>3. S = <<>> BY <2>2
  <2>4. Activations!NotFound(s.prog, s.name) BY <1>4 DEF NotFound, Activations!NotFound
  <2>5. Outcome = "returned" BY <2>1 DEF Outcome
  <2> QED BY <1>1, <2>3, <2>4, <2>5 DEF Activations!Init, Outcome
<1> QED BY <1>1, <1>3, <1>4

\* Activations of a window-safe program are separate: calls pass only the arguments
\* and returns only the result, as CowActivations promises of eval_func.
THEOREM CallsAreActivations == Spec /\ WindowSafe(prog) => ImplementsActivations
<1>1. Init /\ WindowSafe(prog) => RefInv BY RefInvInit
<1>2. RefInv /\ [Next]_vars => RefInv' BY RefInvNext
<1>3. RefInv /\ [Next]_vars => [Activations!Next]_Activations!vars BY RefinesNext
<1> QED BY <1>1, <1>2, <1>3, RefinesInit, PTL DEF Spec, ImplementsActivations, Activations!Spec
=============================================================================
