---------------------------- MODULE CowReference ----------------------------
(***************************************************************************)
(* What a straight-line function means when its values are integers of     *)
(* their types, and how much of each value the interpreter can be relied   *)
(* upon to compute.  A narrow constant is a narrow integer; + - * / are    *)
(* those of arithmetic.  Known[id] counts the low bit patterns of the      *)
(* register that do not depend on what the C stack held: the arithmetic of *)
(* narrow values keeps their low part, but DIV, the comparisons and NOT    *)
(* read 64 bits, so they are only known when their operands are known in   *)
(* full.                                                                   *)
(***************************************************************************)
EXTENDS CowInterp

\* Widths are numbers of bits: the bit patterns of a wider one are a multiple.
ASSUME ChainAssumption == \A v, w \in Widths : Span[v] <= Span[w] => Span[w] % Span[v] = 0

Full == Span["i64"]
Least(a, b) == IF a < b THEN a ELSE b
Most(a, b)  == IF a < b THEN b ELSE a

\* The integer of width w with v's low bits.
Narrow(w, v) ==
  LET low == v % Span[w] IN IF 2 * low >= Span[w] THEN low - Span[w] ELSE low

\* The quotient of C: what remains is smaller than b and has the sign of a.
Quotient(a, b) ==
  CHOOSE q \in -Full .. Full :
    LET r == a - b * q
    IN  /\ r < (IF b < 0 THEN -b ELSE b) /\ -r < (IF b < 0 THEN -b ELSE b)
        /\ r # 0 => (r < 0 <=> a < 0)

Compares(op, a, b) ==
  \/ op \in {"EQ", "LARGER_EQ", "SMALLER_EQ"} /\ a = b
  \/ op \in {"DIFF", "LARGER", "LARGER_EQ"} /\ a > b
  \/ op \in {"DIFF", "SMALLER", "SMALLER_EQ"} /\ a < b

(***************************************************************************)
(* The state of the reference evaluation: a meaning [v, known] for every   *)
(* value of the function and every word of memory.                         *)
(***************************************************************************)
Meaning(v, known) == [v |-> v, known |-> known]
Unknown == Meaning(0, 1)

BinaryMeaning(op, l, r) ==
  LET both == Least(l.known, r.known)
      a == Narrow("i64", l.v)
      b == Narrow("i64", r.v)
  IN  CASE op = "ADD" -> Meaning(l.v + r.v, both)
        [] op = "SUB" -> Meaning(l.v - r.v, both)
        [] op = "MUL" -> Meaning(l.v * r.v, both)
        [] OTHER ->
             IF both < Full THEN Unknown
             ELSE IF op \in CompareOps
             THEN Meaning(IF Compares(op, a, b) THEN 1 ELSE 0, Span["i8"])
             ELSE IF b = 0 THEN Unknown ELSE Meaning(Quotient(a, b), Full)

LoadMeaning(t, m) ==
  LET w == AccessWidth[t]
  IN  Meaning(Narrow(w, m.v),
              IF m.known < Span[w] THEN m.known
              ELSE IF t = "i16" THEN Span["i32"] ELSE Span[w])

StoreMeaning(t, m, v) ==
  LET w == AccessWidth[t]
  IN  Meaning((v.v % Span[w]) + m.v - (m.v % Span[w]),
              IF v.known < Span[w] THEN v.known ELSE Most(m.known, Span[w]))

RefStep(fn, s, i) ==
  LET addr == s.values[i.left].v % Full
      Gen(m) == [s EXCEPT !.values[i.gen] = m]
  IN  CASE i.op \in ConstOps  -> Gen(Meaning(Narrow(ConstWidth[i.op], i.imm), Span[ConstWidth[i.op]]))
        [] i.op \in BinaryOps -> Gen(BinaryMeaning(i.op, s.values[i.left], s.values[i.right]))
        [] i.op = "NOT"       -> Gen(IF s.values[i.left].known < Full THEN Unknown
                                     ELSE Meaning(IF s.values[i.left].v % Full = 0 THEN 1 ELSE 0, Full))
        [] i.op = "LOAD" /\ i.type # "void" -> Gen(LoadMeaning(i.type, s.memory[addr]))
        [] i.op = "STORE" /\ TypeOf(fn, i.right) # "void" ->
             [s EXCEPT !.memory[addr] = StoreMeaning(TypeOf(fn, i.right), @, s.values[i.right])]
        [] OTHER -> s

\* The reference state before the n-th instruction of fn's first block, from
\* the arguments and the memory of the start.
Reference(s, fn, n) ==
  LET args  == [id \in Ids(fn) |-> IF id < fn.args_count
                                   THEN Meaning(s.values[id + 1], Full) ELSE Unknown]
      after[j \in 0 .. n - 1] ==
        IF j = 0
        THEN [values |-> args, memory |-> [a \in Addr |-> Meaning(s.memory[a], Full)]]
        ELSE RefStep(fn, after[j - 1], fn.blocks[1][j])
  IN  after[n - 1]

(***************************************************************************)
(* The starts that the reference says anything about: the module's first   *)
(* function fits into the pool, its first block calls nothing, is entered  *)
(* only once, and accesses memory at addresses that are known.             *)
(***************************************************************************)
StraightLine(s) ==
  \A fn \in {s.prog[f] : f \in DOMAIN s.prog \cap {1}} :
    /\ ValuesSize(fn) <= PoolSize
    /\ \A b \in DOMAIN fn.blocks : \A j \in DOMAIN fn.blocks[b] :
         fn.blocks[b][j].op \in {"BR", "COND_BR"} => 1 \notin {fn.blocks[b][j].yes, fn.blocks[b][j].no}
    /\ \A j \in DOMAIN fn.blocks[1] :
         /\ fn.blocks[1][j].op # "CALL_FUNC"
         /\ fn.blocks[1][j].op \in {"LOAD", "STORE"} =>
              Reference(s, fn, j).values[fn.blocks[1][j].left].known = Full

Agrees(w, m) == w % m.known = m.v % m.known

(***************************************************************************)
(* Whatever the uninitialised bits of the C stack, every register and      *)
(* every word of memory agrees with the reference on its known low part.   *)
(***************************************************************************)
KnownPartsExact ==
  status = "running" /\ block = <<1, 1>> /\ frames = <<>> =>
    \E s \in Starts :
      LET ref == Reference(s, prog[1], instr_index)
      IN  /\ s.prog = prog
          /\ \A id \in Ids(prog[1]) : Agrees(Reg(id), ref.values[id])
          /\ \A a \in Addr : Agrees(memory[a], ref.memory[a])
=============================================================================
