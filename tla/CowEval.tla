------------------------------ MODULE CowEval ------------------------------
(***************************************************************************)
(* What the interpreter's instructions compute, on one CowInterpValue.     *)
(*                                                                         *)
(* A CowInterpValue is a C union of 64 bits; a Word is its bit pattern,    *)
(* read as an unsigned number.  The narrow members (value_i32, value_i16,  *)
(* value_i8, value_i1) are its low bits.  An instruction that fills only   *)
(* a narrow member of an uninitialised local leaves the other bits as they *)
(* were on the C stack: such a result is a set of words.                   *)
(***************************************************************************)
EXTENDS Integers, CowIR

CONSTANTS
  Span,  \* Span[w]: how many bit patterns an integer of width w has
  Junk   \* the words an uninitialised CowInterpValue may hold

Widths == {"i8", "i16", "i32", "i64"}
Word   == 0 .. Span["i64"] - 1

ASSUME SpanAssumption ==
  /\ Span \in [Widths -> Nat \ {0}]
  /\ \A w \in Widths : Span["i64"] % Span[w] = 0
  /\ Span["i16"] <= Span["i32"] /\ Span["i8"] > 1
ASSUME JunkAssumption == Junk \subseteq Word /\ Junk # {}

\* The signed reading of a word.
Signed(w) == IF 2 * w >= Span["i64"] THEN w - Span["i64"] ELSE w

\* old with its low bits, those of width w, replaced by v's.
Merge(old, w, v) == Span[w] * (old \div Span[w]) + (v % Span[w])

\* An uninitialised union after an assignment to its member of width w.
Partial(w, v) == {Merge(j, w, v) : j \in Junk}

ConstWidth == [CONST_I64 |-> "i64", CONST_PTR |-> "i64", CONST_I32 |-> "i32",
               CONST_I16 |-> "i16", CONST_I8 |-> "i8"]
ConstWords(op, imm) == Partial(ConstWidth[op], imm)

\* + - * on int64_t; the builds wrap around.
ArithWord(op, a, b) ==
  (CASE op = "ADD" -> a + b
     [] op = "SUB" -> a - b
     [] op = "MUL" -> a * b) % Span["i64"]

\* C division truncates; DIV and IDIV are the same signed division, and the
\* processor traps on a zero divisor and on a quotient that does not fit.
DivTraps(a, b) ==
  \/ b = 0
  \/ 2 * a = Span["i64"] /\ b = Span["i64"] - 1
DivWord(a, b) ==
  LET Abs(x) == IF x < 0 THEN -x ELSE x
      q == Abs(Signed(a)) \div Abs(Signed(b))
  IN  (IF (Signed(a) < 0) = (Signed(b) < 0) THEN q ELSE -q) % Span["i64"]

\* Mutant: SMALLER_EQ without the equality.
HoldsStrict(op, a, b) ==
  CASE op = "EQ"         -> a = b
    [] op = "DIFF"       -> a # b
    [] op = "LARGER"     -> Signed(a) > Signed(b)
    [] op = "LARGER_EQ"  -> Signed(a) >= Signed(b)
    [] OTHER             -> Signed(a) < Signed(b)
Holds(op, a, b) ==
  CASE op = "EQ"         -> a = b
    [] op = "DIFF"       -> a # b
    [] op = "LARGER"     -> Signed(a) > Signed(b)
    [] op = "LARGER_EQ"  -> Signed(a) >= Signed(b)
    [] op = "SMALLER"    -> Signed(a) < Signed(b)
    [] op = "SMALLER_EQ" -> Signed(a) <= Signed(b)

\* A comparison reads 64 bits whatever the operands' type and writes value_i1.
BinaryWords(op, a, b) ==
  CASE op \in ArithOps   -> {ArithWord(op, a, b)}
    [] op \in DivideOps  -> {DivWord(a, b)}
    [] op \in CompareOps -> Partial("i8", IF Holds(op, a, b) THEN 1 ELSE 0)

NotWord(w) == IF w = 0 THEN 1 ELSE 0

\* The outcomes of "if (value_i1)": a bool byte other than 0 and 1 is undefined.
Truths(w) ==
  CASE w % Span["i8"] = 0 -> {FALSE}
    [] w % Span["i8"] = 1 -> {TRUE}
    [] OTHER              -> BOOLEAN

(***************************************************************************)
(* LOAD writes the member of the type's width over what the cell held and  *)
(* keeps the rest, except that an i16 is assigned to value_i32; STORE      *)
(* writes that many low bits of memory.  A void access does nothing.       *)
(***************************************************************************)
AccessWidth == [i64 |-> "i64", f64 |-> "i64", ptr |-> "i64", i32 |-> "i32",
                f32 |-> "i32", i16 |-> "i16", i8 |-> "i8"]

\* Mutant: the i16 is not sign-extended.
ZeroExtend16(v) == v % Span["i16"]
SignExtend16(v) ==
  LET h == v % Span["i16"]
  IN  IF 2 * h >= Span["i16"] THEN h + Span["i32"] - Span["i16"] ELSE h

LoadWord(t, old, m) ==
  IF t = "i16" THEN Merge(old, "i32", SignExtend16(m))
               ELSE Merge(old, AccessWidth[t], m)
StoreWord(t, m, v) == Merge(m, AccessWidth[t], v)
=============================================================================
