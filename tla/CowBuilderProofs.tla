-------------------------- MODULE CowBuilderProofs --------------------------
(***************************************************************************)
(* Proofs about the builder, for any number of functions, blocks,          *)
(* instructions and argument arrays.                                       *)
(***************************************************************************)
EXTENDS CowBuilder, FiniteSetTheorems, TLAPS

\* An instruction with handles for ids and, if it is a call, an array.
RawInstr == [op : Opcodes, gen : Int, left : Int, right : Int, imm : Nat, type : DataTypes,
             callee : Nat, args : {<<>>} \cup Arrays, yes : Nat, no : Nat]
Value    == [id : Nat, type : DataTypes]
RawFunc  == [name : STRING, args_count : Nat, return_type : DataTypes,
             blocks : Seq(Seq(RawInstr)), current_block : Nat, values : Seq(Value)]

BuilderType ==
  /\ funcs \in Seq(RawFunc)
  /\ arrays \in [Arrays -> [func : Nat, handles : Seq(Nat)]]

\* What an instruction refers to exists, in its own function.
Operands(f, i) ==
  LET fn == funcs[f] IN
  /\ IF i.op \in LeftOps THEN i.left \in DOMAIN fn.values ELSE i.left = Unset
  /\ IF i.op \in RightOps THEN i.right \in DOMAIN fn.values ELSE i.right = Unset
  /\ i.op \in {"BR", "COND_BR"} => i.yes \in DOMAIN fn.blocks
  /\ i.op = "COND_BR" => i.no \in DOMAIN fn.blocks
  /\ i.op = "CALL_FUNC" => i.callee \in DOMAIN funcs
  /\ i.op \in Calls => i.args \in Arrays /\ arrays[i.args].func = f

Generated(f, i) ==
  LET fn == funcs[f] IN
  IF i.op \in GenOps THEN i.gen \in DOMAIN fn.values /\ fn.args_count < i.gen ELSE i.gen = Unset

Fits(f, i) == Operands(f, i) /\ Generated(f, i)

FuncFits(f) ==
  LET fn == funcs[f] IN
  /\ fn.current_block \in DOMAIN fn.blocks
  /\ fn.args_count <= Len(fn.values)
  /\ \A h \in DOMAIN fn.values : fn.values[h].id = h - 1
  /\ \A b \in DOMAIN fn.blocks : \A j \in DOMAIN fn.blocks[b] : Fits(f, fn.blocks[b][j])

\* An array that was filled holds values of its function.
ArrayFits(a) ==
  arrays[a].func # 0 =>
    /\ arrays[a].func \in DOMAIN funcs
    /\ \A k \in DOMAIN arrays[a].handles : arrays[a].handles[k] \in DOMAIN funcs[arrays[a].func].values

\* Every value but the arguments is generated, and no two places generate one.
Once(fn) ==
  /\ \A h \in DOMAIN fn.values : fn.args_count < h =>
       \E b \in DOMAIN fn.blocks : \E j \in DOMAIN fn.blocks[b] : fn.blocks[b][j].gen = h
  /\ \A b, c \in DOMAIN fn.blocks : \A j \in DOMAIN fn.blocks[b], k \in DOMAIN fn.blocks[c] :
       fn.blocks[b][j].gen = fn.blocks[c][k].gen /\ fn.blocks[b][j].gen # Unset => b = c /\ j = k

BuilderInv ==
  /\ BuilderType
  /\ \A f \in DOMAIN funcs : FuncFits(f)
  /\ \A a \in Arrays : ArrayFits(a)
  /\ \A f \in DOMAIN funcs : Once(funcs[f])
----------------------------------------------------------------------------
LEMMA InitBuilder == Init => BuilderInv
<1> SUFFICES ASSUME Init PROVE BuilderInv
  OBVIOUS
<1>1. funcs = <<>> /\ arrays = [a \in Arrays |-> [func |-> 0, handles |-> <<>>]] BY DEF Init
<1>2. BuilderType BY <1>1 DEF BuilderType
<1>3. DOMAIN funcs = {}
  <2>1. ASSUME NEW s, s = <<>> PROVE DOMAIN s = {} BY <2>1
  <2> QED BY <2>1, <1>1
<1>4. \A a \in Arrays : ArrayFits(a) BY <1>1 DEF ArrayFits
<1> QED BY <1>2, <1>3, <1>4 DEF BuilderInv

\* Elements and lengths of sequences.
LEMMA SeqFacts ==
  ASSUME NEW S, NEW s \in Seq(S)
  PROVE  /\ Len(s) \in Nat /\ DOMAIN s = 1 .. Len(s)
         /\ \A k \in DOMAIN s : s[k] \in S /\ k \in Nat /\ k # 0
OBVIOUS

LEMMA AppendFacts ==
  ASSUME NEW S, NEW s \in Seq(S), NEW e \in S
  PROVE  /\ Append(s, e) \in Seq(S) /\ Len(Append(s, e)) = Len(s) + 1
         /\ DOMAIN Append(s, e) = DOMAIN s \cup {Len(s) + 1}
         /\ DOMAIN Append(s, e) = 1 .. Len(s) + 1 /\ Len(s) + 1 \notin DOMAIN s
         /\ \A k \in DOMAIN s : Append(s, e)[k] = s[k]
         /\ Append(s, e)[Len(s) + 1] = e
<1>1. Len(s) \in Nat /\ DOMAIN s = 1 .. Len(s) OBVIOUS
<1>2. Append(s, e) \in Seq(S) OBVIOUS
<1>3. Len(Append(s, e)) = Len(s) + 1 OBVIOUS
<1>4. DOMAIN Append(s, e) = 1 .. Len(s) + 1 OBVIOUS
<1>5. \A k \in 1 .. Len(s) : Append(s, e)[k] = s[k] OBVIOUS
<1>6. Append(s, e)[Len(s) + 1] = e OBVIOUS
<1>7. 1 .. Len(s) + 1 = 1 .. Len(s) \cup {Len(s) + 1} /\ Len(s) + 1 \notin 1 .. Len(s) BY <1>1
<1> QED BY <1>1, <1>2, <1>3, <1>4, <1>5, <1>6, <1>7

LEMMA SetFacts ==
  ASSUME NEW S, NEW s \in Seq(S), NEW k \in DOMAIN s, NEW e \in S
  PROVE  /\ [s EXCEPT ![k] = e] \in Seq(S) /\ DOMAIN [s EXCEPT ![k] = e] = DOMAIN s
         /\ [s EXCEPT ![k] = e][k] = e
         /\ \A j \in DOMAIN s : j # k => [s EXCEPT ![k] = e][j] = s[j]
<1>1. s \in [1 .. Len(s) -> S] /\ Len(s) \in Nat /\ k \in 1 .. Len(s) OBVIOUS
<1>2. [s EXCEPT ![k] = e] \in [1 .. Len(s) -> S] BY <1>1
<1> QED BY <1>1, <1>2

\* A function as the invariant has it.
LEMMA FuncFacts ==
  ASSUME BuilderInv, NEW f \in DOMAIN funcs
  PROVE  /\ funcs[f] \in RawFunc /\ f \in Nat /\ f # 0
         /\ funcs[f].values \in Seq(Value) /\ funcs[f].blocks \in Seq(Seq(RawInstr))
         /\ funcs[f].args_count \in Nat /\ FuncFits(f) /\ Once(funcs[f])
         /\ \A b \in DOMAIN funcs[f].blocks : funcs[f].blocks[b] \in Seq(RawInstr)
<1>1. funcs[f] \in RawFunc /\ f \in Nat /\ f # 0
  <2> HIDE DEF RawFunc
  <2> QED BY SeqFacts DEF BuilderInv, BuilderType
<1>2. funcs[f].values \in Seq(Value) /\ funcs[f].blocks \in Seq(Seq(RawInstr)) /\ funcs[f].args_count \in Nat
  <2> HIDE DEF RawInstr, Value
  <2> QED BY <1>1 DEF RawFunc
<1>3. \A b \in DOMAIN funcs[f].blocks : funcs[f].blocks[b] \in Seq(RawInstr)
  <2> HIDE DEF RawInstr
  <2> QED BY <1>2, SeqFacts
<1> QED BY <1>1, <1>2, <1>3 DEF BuilderInv

\* What was built stays in place when its function, the list of functions and
\* the arrays in use only grow.
LEMMA FitsStays ==
  ASSUME NEW f, NEW i,
         DOMAIN funcs[f].values \subseteq DOMAIN funcs'[f].values,
         DOMAIN funcs[f].blocks \subseteq DOMAIN funcs'[f].blocks,
         funcs'[f].args_count = funcs[f].args_count,
         DOMAIN funcs \subseteq DOMAIN funcs',
         \A a \in Arrays : arrays[a].func = f => arrays'[a].func = f
  PROVE  /\ Fits(f, i) => Fits(f, i)'
         /\ Operands(f, i) => Operands(f, i)'
BY DEF Fits, Operands, Generated

\* One function grows, and nothing else changes.
LEMMA OneFunctionKeeps ==
  ASSUME BuilderInv, NEW f \in DOMAIN funcs, NEW g \in RawFunc,
         funcs' = [funcs EXCEPT ![f] = g], UNCHANGED arrays,
         DOMAIN funcs[f].values \subseteq DOMAIN g.values,
         DOMAIN funcs[f].blocks \subseteq DOMAIN g.blocks,
         g.args_count = funcs[f].args_count,
         FuncFits(f)', Once(g)
  PROVE  BuilderInv'
<1>1. funcs \in Seq(RawFunc) /\ arrays \in [Arrays -> [func : Nat, handles : Seq(Nat)]]
  BY DEF BuilderInv, BuilderType
<1>2. /\ funcs' \in Seq(RawFunc) /\ DOMAIN funcs' = DOMAIN funcs /\ funcs'[f] = g
      /\ \A e \in DOMAIN funcs : e # f => funcs'[e] = funcs[e]
  <2> HIDE DEF RawFunc
  <2> QED BY <1>1, SetFacts
<1>3. ASSUME NEW e \in DOMAIN funcs, e # f PROVE FuncFits(e)' /\ Once(funcs'[e])
  <2>1. FuncFits(e) /\ Once(funcs[e]) /\ funcs'[e] = funcs[e] BY <1>2, <1>3 DEF BuilderInv
  <2>2. \A i : Fits(e, i) => Fits(e, i)'
    <3> TAKE i
    <3> QED BY <2>1, <1>2, FitsStays
  <2> HIDE DEF Fits
  <2> HIDE DEF Once
  <2> QED BY <2>1, <2>2 DEF FuncFits
<1>4. \A a \in Arrays : ArrayFits(a)' BY <1>2 DEF BuilderInv, ArrayFits
<1>5. BuilderType' BY <1>1, <1>2 DEF BuilderType
<1> HIDE DEF Once, RawFunc
<1> QED BY <1>2, <1>3, <1>4, <1>5 DEF BuilderInv

\* An instruction is appended to the current block, with its value if it has one.
LEMMA AddedKeeps ==
  ASSUME BuilderInv, NEW f \in DOMAIN funcs, NEW i \in RawInstr, Operands(f, i), NEW g \in RawFunc,
         funcs' = [funcs EXCEPT ![f] = g], UNCHANGED arrays,
         g.args_count = funcs[f].args_count, g.current_block = funcs[f].current_block,
         g.blocks = [funcs[f].blocks EXCEPT ![funcs[f].current_block] = Append(@, i)],
         \/ i.op \notin GenOps /\ i.gen = Unset /\ g.values = funcs[f].values
         \/ /\ i.op \in GenOps /\ i.gen = Len(funcs[f].values) + 1
            /\ \E t \in DataTypes : g.values = Append(funcs[f].values, [id |-> Len(funcs[f].values), type |-> t])
  PROVE  BuilderInv'
<1> DEFINE vs == funcs[f].values  bs == funcs[f].blocks  c == funcs[f].current_block  n == Len(bs[c]) + 1
           ws == g.values  ds == g.blocks  ac == funcs[f].args_count
<1>1. /\ vs \in Seq(Value) /\ bs \in Seq(Seq(RawInstr)) /\ ac \in Nat /\ FuncFits(f) /\ Once(funcs[f])
      /\ \A b \in DOMAIN bs : bs[b] \in Seq(RawInstr)
  BY FuncFacts
<1>2. c \in DOMAIN bs /\ ac <= Len(vs) BY <1>1 DEF FuncFits
<1>3. funcs'[f] = g BY DEF BuilderInv, BuilderType
<1>4. DOMAIN funcs' = DOMAIN funcs OBVIOUS
<1>5. /\ Len(vs) \in Nat /\ DOMAIN vs = 1 .. Len(vs)
  BY <1>1
<1>6. \/ i.op \notin GenOps /\ i.gen = Unset /\ ws = vs
      \/ /\ i.op \in GenOps /\ i.gen = Len(vs) + 1
         /\ DOMAIN ws = DOMAIN vs \cup {Len(vs) + 1} /\ Len(ws) = Len(vs) + 1
         /\ \A h \in DOMAIN vs : ws[h] = vs[h]
         /\ ws[Len(vs) + 1].id = Len(vs)
  <2>1. CASE i.op \notin GenOps BY <2>1
  <2>2. CASE i.op \in GenOps
    <3>1. PICK t \in DataTypes : ws = Append(vs, [id |-> Len(vs), type |-> t]) BY <2>2
    <3> DEFINE e == [id |-> Len(vs), type |-> t]
    <3>2. e \in Value /\ e.id = Len(vs) BY <1>5 DEF Value
    <3>3. i.gen = Len(vs) + 1 BY <2>2
    <3> HIDE DEF e, vs, ws
    <3>4. ws = Append(vs, e) BY <3>1 DEF e
    <3>5. /\ DOMAIN ws = DOMAIN vs \cup {Len(vs) + 1} /\ Len(ws) = Len(vs) + 1
          /\ \A h \in DOMAIN vs : ws[h] = vs[h]
          /\ ws[Len(vs) + 1] = e
      BY <1>1, <3>2, <3>4, AppendFacts
    <3> QED BY <2>2, <3>2, <3>3, <3>5
  <2> QED BY <2>1, <2>2
<1>7. /\ DOMAIN ds = DOMAIN bs
      /\ \A b \in DOMAIN bs : b # c => ds[b] = bs[b]
      /\ DOMAIN ds[c] = DOMAIN bs[c] \cup {n} /\ n \notin DOMAIN bs[c]
      /\ \A j \in DOMAIN bs[c] : ds[c][j] = bs[c][j]
      /\ ds[c][n] = i
  <2>1. bs[c] \in Seq(RawInstr) BY <1>1, <1>2
  <2> HIDE DEF RawInstr
  <2>2. /\ DOMAIN ds = DOMAIN bs /\ \A b \in DOMAIN bs : b # c => ds[b] = bs[b]
        /\ ds[c] = Append(bs[c], i)
    BY <1>2
  <2> HIDE DEF bs, c, ds
  <2> QED BY <2>1, <2>2, AppendFacts
<1> HIDE DEF vs, bs, c, n, ws, ds, ac
<1>8. /\ \A b \in DOMAIN bs : \A j \in DOMAIN bs[b] : b \in DOMAIN ds /\ j \in DOMAIN ds[b] /\ ds[b][j] = bs[b][j]
      /\ \A b \in DOMAIN ds : \A j \in DOMAIN ds[b] :
           \/ b \in DOMAIN bs /\ j \in DOMAIN bs[b] /\ ds[b][j] = bs[b][j]
           \/ b = c /\ j = n /\ ds[b][j] = i
      /\ c \in DOMAIN ds /\ n \in DOMAIN ds[c] /\ ds[c][n] = i
  BY <1>2, <1>7
<1>9. DOMAIN vs \subseteq DOMAIN ws BY <1>6
<1>10. \A b \in DOMAIN bs : \A j \in DOMAIN bs[b] : Fits(f, bs[b][j])
  BY <1>1 DEF FuncFits, bs
<1>11. \A x : (Fits(f, x) => Fits(f, x)') /\ (Operands(f, x) => Operands(f, x)')
  <2> TAKE x
  <2>1. /\ DOMAIN funcs[f].values \subseteq DOMAIN funcs'[f].values
        /\ DOMAIN funcs[f].blocks \subseteq DOMAIN funcs'[f].blocks
        /\ funcs'[f].args_count = funcs[f].args_count
    BY <1>3, <1>7, <1>9 DEF vs, ws, bs, ds
  <2> QED BY <2>1, <1>4, FitsStays
<1>12. Fits(f, i)'
  <2>1. Operands(f, i)' BY <1>11
  <2>2. Generated(f, i)'
    <3>1. i.op \in GenOps => i.gen \in DOMAIN ws /\ ac < i.gen
      BY <1>1, <1>2, <1>5, <1>6
    <3>2. i.op \notin GenOps => i.gen = Unset BY <1>6
    <3> QED BY <3>1, <3>2, <1>3 DEF Generated, ws, ac
  <2> QED BY <2>1, <2>2 DEF Fits
<1>13. ASSUME NEW b \in DOMAIN ds, NEW j \in DOMAIN ds[b], NEW x, x = ds[b][j] PROVE Fits(f, x)'
  <2>1. CASE b \in DOMAIN bs /\ j \in DOMAIN bs[b] /\ ds[b][j] = bs[b][j]
    <3>1. Fits(f, x) BY <2>1, <1>10, <1>13
    <3> QED BY <3>1, <1>11
  <2>2. CASE x = i BY <2>2, <1>12
  <2> QED BY <2>1, <2>2, <1>8, <1>13
<1>14. FuncFits(f)'
  <2>1. \A h \in DOMAIN ws : ws[h].id = h - 1
    <3>1. \A h \in DOMAIN vs : vs[h].id = h - 1 BY <1>1 DEF FuncFits, vs
    <3>2. Len(vs) = (Len(vs) + 1) - 1 BY <1>5
    <3> QED BY <3>1, <3>2, <1>6
  <2>2. ac <= Len(ws) BY <1>1, <1>2, <1>5, <1>6
  <2> HIDE DEF Fits
  <2> QED BY <2>1, <2>2, <1>2, <1>3, <1>7, <1>13 DEF FuncFits, vs, ws, bs, ds, c, ac
<1>15. Once(g)
  <2>1. \A h \in DOMAIN ws : ac < h => \E b \in DOMAIN ds : \E j \in DOMAIN ds[b] : ds[b][j].gen = h
    <3> SUFFICES ASSUME NEW h \in DOMAIN ws, ac < h
                 PROVE  \E b \in DOMAIN ds : \E j \in DOMAIN ds[b] : ds[b][j].gen = h
      OBVIOUS
    <3>1. CASE h \in DOMAIN vs
      <4>1. PICK b \in DOMAIN bs : \E j \in DOMAIN bs[b] : bs[b][j].gen = h
        BY <1>1, <3>1 DEF Once, vs, bs, ac
      <4> QED BY <4>1, <1>8
    <3>2. CASE h \notin DOMAIN vs
      <4>1. h = i.gen BY <3>2, <1>6
      <4> QED BY <4>1, <1>8
    <3> QED BY <3>1, <3>2
  <2>2. ASSUME NEW b \in DOMAIN ds, NEW d \in DOMAIN ds, NEW j \in DOMAIN ds[b], NEW k \in DOMAIN ds[d],
               ds[b][j].gen = ds[d][k].gen, ds[b][j].gen # Unset
        PROVE  b = d /\ j = k
    <3>1. ASSUME NEW x \in DOMAIN bs, NEW y \in DOMAIN bs[x], bs[x][y].gen = i.gen, i.gen # Unset
          PROVE  FALSE
      <4>1. i.gen = Len(vs) + 1 BY <3>1, <1>6
      <4>2. bs[x][y].gen \in DOMAIN vs
        <5>1. Fits(f, bs[x][y]) BY <1>10
        <5> QED BY <5>1, <3>1 DEF Fits, Generated, vs
      <4> QED BY <3>1, <4>1, <4>2, <1>5
    <3>2. CASE /\ b \in DOMAIN bs /\ j \in DOMAIN bs[b] /\ ds[b][j] = bs[b][j]
               /\ d \in DOMAIN bs /\ k \in DOMAIN bs[d] /\ ds[d][k] = bs[d][k]
      BY <2>2, <3>2, <1>1 DEF Once, bs
    <3> QED BY <2>2, <3>1, <3>2, <1>8
  <2> QED BY <2>1, <2>2 DEF Once, ws, ds, ac
<1> QED BY <1>7, <1>9, <1>14, <1>15, OneFunctionKeeps DEF vs, ws, bs, ds, ac
----------------------------------------------------------------------------
LEMMA WithInstrFacts ==
  ASSUME NEW fn \in RawFunc, fn.current_block \in DOMAIN fn.blocks, NEW i \in RawInstr
  PROVE  LET g == WithInstr(fn, i) IN
         /\ g \in RawFunc /\ g.args_count = fn.args_count /\ g.current_block = fn.current_block
         /\ g.values = fn.values
         /\ g.blocks = [fn.blocks EXCEPT ![fn.current_block] = Append(@, i)]
<1> DEFINE bs == [fn.blocks EXCEPT ![fn.current_block] = Append(@, i)]
<1>1. fn.blocks \in Seq(Seq(RawInstr))
  <2> HIDE DEF RawInstr, Value
  <2> QED BY DEF RawFunc
<1>2. bs \in Seq(Seq(RawInstr))
  <2> HIDE DEF RawInstr
  <2>1. fn.blocks[fn.current_block] \in Seq(RawInstr) BY <1>1, SeqFacts
  <2>2. Append(fn.blocks[fn.current_block], i) \in Seq(RawInstr) BY <2>1
  <2> QED BY <1>1, <2>2, SetFacts
<1>3. WithInstr(fn, i) = [fn EXCEPT !.blocks = bs] BY DEF WithInstr
<1> HIDE DEF bs, RawInstr, Value
<1>4. LET g == [fn EXCEPT !.blocks = bs] IN
        /\ g \in RawFunc /\ g.args_count = fn.args_count /\ g.current_block = fn.current_block
        /\ g.values = fn.values /\ g.blocks = bs
  BY <1>2 DEF RawFunc
<1> QED BY <1>3, <1>4 DEF bs

LEMMA WithValueFacts ==
  ASSUME NEW fn \in RawFunc, NEW t \in DataTypes
  PROVE  LET g == WithValue(fn, t) IN
         /\ g \in RawFunc /\ g.args_count = fn.args_count /\ g.current_block = fn.current_block
         /\ g.values = Append(fn.values, [id |-> Len(fn.values), type |-> t])
         /\ g.blocks = fn.blocks
<1> DEFINE vs == Append(fn.values, [id |-> Len(fn.values), type |-> t])
<1>1. fn.values \in Seq(Value)
  <2> HIDE DEF RawInstr, Value
  <2> QED BY DEF RawFunc
<1>2. vs \in Seq(Value)
  <2>1. [id |-> Len(fn.values), type |-> t] \in Value BY <1>1 DEF Value
  <2> HIDE DEF Value
  <2> QED BY <1>1, <2>1
<1>3. WithValue(fn, t) = [fn EXCEPT !.values = vs] BY DEF WithValue
<1> HIDE DEF vs, RawInstr, Value
<1>4. LET g == [fn EXCEPT !.values = vs] IN
        /\ g \in RawFunc /\ g.args_count = fn.args_count /\ g.current_block = fn.current_block
        /\ g.values = vs /\ g.blocks = fn.blocks
  BY <1>2 DEF RawFunc
<1> QED BY <1>3, <1>4 DEF vs

LEMMA EmitKeeps ==
  ASSUME BuilderInv, NEW f \in DOMAIN funcs, NEW i \in RawInstr, Operands(f, i),
         i.op \notin GenOps, i.gen = Unset, Emit(f, i)
  PROVE  BuilderInv'
<1> DEFINE g == WithInstr(funcs[f], i)
<1>1. funcs' = [funcs EXCEPT ![f] = g] /\ UNCHANGED arrays BY DEF Emit
<1>2. funcs[f] \in RawFunc /\ funcs[f].current_block \in DOMAIN funcs[f].blocks
  BY FuncFacts DEF FuncFits
<1>3. /\ g \in RawFunc /\ g.args_count = funcs[f].args_count /\ g.current_block = funcs[f].current_block
      /\ g.values = funcs[f].values
      /\ g.blocks = [funcs[f].blocks EXCEPT ![funcs[f].current_block] = Append(@, i)]
  <2> HIDE DEF RawFunc, RawInstr
  <2> QED BY <1>2, WithInstrFacts
<1> HIDE DEF g, RawFunc, RawInstr
<1> QED BY <1>1, <1>3, AddedKeeps

LEMMA EmitValueKeeps ==
  ASSUME BuilderInv, NEW f \in DOMAIN funcs, NEW i \in RawInstr, Operands(f, i),
         i.op \in GenOps, i.gen = NewHandle(funcs[f]), NEW t \in DataTypes, EmitValue(f, i, t)
  PROVE  BuilderInv'
<1> DEFINE w == WithInstr(funcs[f], i)  g == WithValue(w, t)
<1>1. funcs' = [funcs EXCEPT ![f] = g] /\ UNCHANGED arrays BY DEF EmitValue
<1>2. funcs[f] \in RawFunc /\ funcs[f].current_block \in DOMAIN funcs[f].blocks
  BY FuncFacts DEF FuncFits
<1>3. /\ w \in RawFunc /\ w.args_count = funcs[f].args_count /\ w.current_block = funcs[f].current_block
      /\ w.values = funcs[f].values
      /\ w.blocks = [funcs[f].blocks EXCEPT ![funcs[f].current_block] = Append(@, i)]
  <2> HIDE DEF RawFunc, RawInstr
  <2> QED BY <1>2, WithInstrFacts
<1> HIDE DEF w, RawFunc, RawInstr
<1>4. /\ g \in RawFunc /\ g.args_count = w.args_count /\ g.current_block = w.current_block
      /\ g.values = Append(w.values, [id |-> Len(w.values), type |-> t])
      /\ g.blocks = w.blocks
  BY <1>3, WithValueFacts
<1>5. i.gen = Len(funcs[f].values) + 1 BY DEF NewHandle
<1> HIDE DEF g
<1>6. g \in RawFunc BY <1>4
<1>7. g.args_count = funcs[f].args_count BY <1>3, <1>4
<1>8. g.current_block = funcs[f].current_block BY <1>3, <1>4
<1>9. g.blocks = [funcs[f].blocks EXCEPT ![funcs[f].current_block] = Append(@, i)]
  <2>1. g.blocks = w.blocks BY <1>4
  <2>2. w.blocks = [funcs[f].blocks EXCEPT ![funcs[f].current_block] = Append(@, i)] BY <1>3
  <2> QED BY <2>1, <2>2
<1>10. \E u \in DataTypes : g.values = Append(funcs[f].values, [id |-> Len(funcs[f].values), type |-> u])
  BY <1>3, <1>4
<1>11. \/ i.op \notin GenOps /\ i.gen = Unset /\ g.values = funcs[f].values
       \/ /\ i.op \in GenOps /\ i.gen = Len(funcs[f].values) + 1
          /\ \E u \in DataTypes : g.values = Append(funcs[f].values, [id |-> Len(funcs[f].values), type |-> u])
  BY <1>5, <1>10
<1> QED BY <1>1, <1>6, <1>7, <1>8, <1>9, <1>11, AddedKeeps

\* The types of the values of a function.
LEMMA ValueTypes ==
  ASSUME BuilderInv, NEW f \in DOMAIN funcs, NEW h \in DOMAIN funcs[f].values
  PROVE  funcs[f].values[h].type \in DataTypes /\ h \in Nat /\ h \in Int
<1>1. funcs[f].values \in Seq(Value) BY FuncFacts
<1>2. funcs[f].values[h] \in Value /\ h \in Nat
  <2> HIDE DEF Value
  <2> QED BY <1>1, SeqFacts
<1> QED BY <1>2 DEF Value

\* Instructions with another field.
LEMMA InstrWith ==
  ASSUME NEW r \in RawInstr
  PROVE  /\ \A x \in Int : [r EXCEPT !.gen = x] \in RawInstr
         /\ \A x \in Int : [r EXCEPT !.left = x] \in RawInstr
         /\ \A x \in Int : [r EXCEPT !.right = x] \in RawInstr
         /\ \A x \in Nat : [r EXCEPT !.imm = x] \in RawInstr
         /\ \A x \in DataTypes : [r EXCEPT !.type = x] \in RawInstr
         /\ \A x \in Nat : [r EXCEPT !.callee = x] \in RawInstr
         /\ \A x \in Arrays : [r EXCEPT !.args = x] \in RawInstr
         /\ \A x \in Nat : [r EXCEPT !.yes = x] \in RawInstr
         /\ \A x \in Nat : [r EXCEPT !.no = x] \in RawInstr
BY DEF RawInstr

\* The instructions that the builder allocates.
LEMMA ConstShape ==
  ASSUME NEW op \in ConstOps, NEW gen \in Int, NEW v \in Nat
  PROVE  LET i == ConstInstr(op, gen, v) IN
         i \in RawInstr /\ i.op = op /\ i.gen = gen /\ i.left = Unset /\ i.right = Unset
<1> DEFINE r == BareInstr(op)
<1>1. r \in RawInstr BY DEF BareInstr, RawInstr, Opcodes, Unset, DataTypes
<1> HIDE DEF r, RawInstr
<1> DEFINE a == [r EXCEPT !.gen = gen]
<1>2. a \in RawInstr BY <1>1, InstrWith
<1> HIDE DEF a
<1>3. [a EXCEPT !.imm = v] \in RawInstr BY <1>2, InstrWith
<1>4. ConstInstr(op, gen, v) = [a EXCEPT !.imm = v] BY DEF ConstInstr, r, a
<1>5. LET i == ConstInstr(op, gen, v) IN i.op = op /\ i.gen = gen /\ i.left = Unset /\ i.right = Unset
  BY DEF ConstInstr, BareInstr
<1> QED BY <1>3, <1>4, <1>5

LEMMA OpShape ==
  ASSUME NEW op \in BinaryOps, NEW gen \in Int, NEW l \in Int, NEW s \in Int
  PROVE  LET i == OpInstr(op, gen, l, s) IN
         i \in RawInstr /\ i.op = op /\ i.gen = gen /\ i.left = l /\ i.right = s
<1> DEFINE r == BareInstr(op)
<1>1. r \in RawInstr BY DEF BareInstr, RawInstr, Opcodes, Unset, DataTypes
<1> HIDE DEF r, RawInstr
<1> DEFINE a == [r EXCEPT !.gen = gen]
<1>2. a \in RawInstr BY <1>1, InstrWith
<1> HIDE DEF a
<1> DEFINE b == [a EXCEPT !.left = l]
<1>3. b \in RawInstr BY <1>2, InstrWith
<1> HIDE DEF b
<1>4. [b EXCEPT !.right = s] \in RawInstr BY <1>3, InstrWith
<1>5. OpInstr(op, gen, l, s) = [b EXCEPT !.right = s] BY DEF OpInstr, r, a, b
<1>6. LET i == OpInstr(op, gen, l, s) IN i.op = op /\ i.gen = gen /\ i.left = l /\ i.right = s
  BY DEF OpInstr, BareInstr
<1> QED BY <1>4, <1>5, <1>6

LEMMA NotShape ==
  ASSUME NEW gen \in Int, NEW l \in Int
  PROVE  LET i == NotInstr(gen, l) IN
         i \in RawInstr /\ i.op = "NOT" /\ i.gen = gen /\ i.left = l /\ i.right = Unset
<1> DEFINE r == BareInstr("NOT")
<1>1. r \in RawInstr BY DEF BareInstr, RawInstr, Opcodes, Unset, DataTypes
<1> HIDE DEF r, RawInstr
<1> DEFINE a == [r EXCEPT !.gen = gen]
<1>2. a \in RawInstr BY <1>1, InstrWith
<1> HIDE DEF a
<1>3. [a EXCEPT !.left = l] \in RawInstr BY <1>2, InstrWith
<1>4. NotInstr(gen, l) = [a EXCEPT !.left = l] BY DEF NotInstr, r, a
<1>5. LET i == NotInstr(gen, l) IN i.op = "NOT" /\ i.gen = gen /\ i.left = l /\ i.right = Unset
  BY DEF NotInstr, BareInstr
<1> QED BY <1>3, <1>4, <1>5

LEMMA LoadShape ==
  ASSUME NEW gen \in Int, NEW l \in Int, NEW t \in DataTypes
  PROVE  LET i == LoadInstr(gen, l, t) IN
         i \in RawInstr /\ i.op = "LOAD" /\ i.gen = gen /\ i.left = l /\ i.right = Unset
<1> DEFINE r == BareInstr("LOAD")
<1>1. r \in RawInstr BY DEF BareInstr, RawInstr, Opcodes, Unset, DataTypes
<1> HIDE DEF r, RawInstr
<1> DEFINE a == [r EXCEPT !.gen = gen]
<1>2. a \in RawInstr BY <1>1, InstrWith
<1> HIDE DEF a
<1> DEFINE b == [a EXCEPT !.left = l]
<1>3. b \in RawInstr BY <1>2, InstrWith
<1> HIDE DEF b
<1>4. [b EXCEPT !.type = t] \in RawInstr BY <1>3, InstrWith
<1>5. LoadInstr(gen, l, t) = [b EXCEPT !.type = t] BY DEF LoadInstr, r, a, b
<1>6. LET i == LoadInstr(gen, l, t) IN i.op = "LOAD" /\ i.gen = gen /\ i.left = l /\ i.right = Unset
  BY DEF LoadInstr, BareInstr
<1> QED BY <1>4, <1>5, <1>6

LEMMA StoreShape ==
  ASSUME NEW l \in Int, NEW s \in Int
  PROVE  LET i == StoreInstr(l, s) IN
         i \in RawInstr /\ i.op = "STORE" /\ i.gen = Unset /\ i.left = l /\ i.right = s
<1> DEFINE r == BareInstr("STORE")
<1>1. r \in RawInstr BY DEF BareInstr, RawInstr, Opcodes, Unset, DataTypes
<1> HIDE DEF r, RawInstr
<1> DEFINE a == [r EXCEPT !.left = l]
<1>2. a \in RawInstr BY <1>1, InstrWith
<1> HIDE DEF a
<1>3. [a EXCEPT !.right = s] \in RawInstr BY <1>2, InstrWith
<1>4. StoreInstr(l, s) = [a EXCEPT !.right = s] BY DEF StoreInstr, r, a
<1>5. LET i == StoreInstr(l, s) IN i.op = "STORE" /\ i.gen = Unset /\ i.left = l /\ i.right = s
  BY DEF StoreInstr, BareInstr
<1> QED BY <1>3, <1>4, <1>5

LEMMA CondBrShape ==
  ASSUME NEW l \in Int, NEW y \in Nat, NEW n \in Nat
  PROVE  LET i == CondBrInstr(l, y, n) IN
         i \in RawInstr /\ i.op = "COND_BR" /\ i.gen = Unset /\ i.left = l /\ i.right = Unset /\ i.yes = y /\ i.no = n
<1> DEFINE r == BareInstr("COND_BR")
<1>1. r \in RawInstr BY DEF BareInstr, RawInstr, Opcodes, Unset, DataTypes
<1> HIDE DEF r, RawInstr
<1> DEFINE a == [r EXCEPT !.left = l]
<1>2. a \in RawInstr BY <1>1, InstrWith
<1> HIDE DEF a
<1> DEFINE b == [a EXCEPT !.yes = y]
<1>3. b \in RawInstr BY <1>2, InstrWith
<1> HIDE DEF b
<1>4. [b EXCEPT !.no = n] \in RawInstr BY <1>3, InstrWith
<1>5. CondBrInstr(l, y, n) = [b EXCEPT !.no = n] BY DEF CondBrInstr, r, a, b
<1>6. LET i == CondBrInstr(l, y, n) IN i.op = "COND_BR" /\ i.gen = Unset /\ i.left = l /\ i.right = Unset /\ i.yes = y /\ i.no = n
  BY DEF CondBrInstr, BareInstr
<1> QED BY <1>4, <1>5, <1>6

LEMMA RetShape ==
  ASSUME NEW l \in Int
  PROVE  LET i == RetInstr(l) IN
         i \in RawInstr /\ i.op = "RET" /\ i.gen = Unset /\ i.left = l /\ i.right = Unset
<1> DEFINE r == BareInstr("RET")
<1>1. r \in RawInstr BY DEF BareInstr, RawInstr, Opcodes, Unset, DataTypes
<1> HIDE DEF r, RawInstr
<1>2. [r EXCEPT !.left = l] \in RawInstr BY <1>1, InstrWith
<1>3. RetInstr(l) = [r EXCEPT !.left = l] BY DEF RetInstr, r
<1>4. LET i == RetInstr(l) IN i.op = "RET" /\ i.gen = Unset /\ i.left = l /\ i.right = Unset
  BY DEF RetInstr, BareInstr
<1> QED BY <1>2, <1>3, <1>4

LEMMA CallPtrShape ==
  ASSUME NEW gen \in Int, NEW l \in Int, NEW array \in Arrays
  PROVE  LET i == CallPtrInstr(gen, l, array) IN
         i \in RawInstr /\ i.op = "CALL_PTR" /\ i.gen = gen /\ i.left = l /\ i.right = Unset /\ i.args = array
<1> DEFINE r == BareInstr("CALL_PTR")
<1>1. r \in RawInstr BY DEF BareInstr, RawInstr, Opcodes, Unset, DataTypes
<1> HIDE DEF r, RawInstr
<1> DEFINE a == [r EXCEPT !.gen = gen]
<1>2. a \in RawInstr BY <1>1, InstrWith
<1> HIDE DEF a
<1> DEFINE b == [a EXCEPT !.left = l]
<1>3. b \in RawInstr BY <1>2, InstrWith
<1> HIDE DEF b
<1>4. [b EXCEPT !.args = array] \in RawInstr BY <1>3, InstrWith
<1>5. CallPtrInstr(gen, l, array) = [b EXCEPT !.args = array] BY DEF CallPtrInstr, r, a, b
<1>6. LET i == CallPtrInstr(gen, l, array) IN i.op = "CALL_PTR" /\ i.gen = gen /\ i.left = l /\ i.right = Unset /\ i.args = array
  BY DEF CallPtrInstr, BareInstr
<1> QED BY <1>4, <1>5, <1>6

LEMMA CallFuncShape ==
  ASSUME NEW gen \in Int, NEW fn \in Nat, NEW array \in Arrays
  PROVE  LET i == CallFuncInstr(gen, fn, array) IN
         i \in RawInstr /\ i.op = "CALL_FUNC" /\ i.gen = gen /\ i.left = Unset /\ i.right = Unset /\ i.callee = fn /\ i.args = array
<1> DEFINE r == BareInstr("CALL_FUNC")
<1>1. r \in RawInstr BY DEF BareInstr, RawInstr, Opcodes, Unset, DataTypes
<1> HIDE DEF r, RawInstr
<1> DEFINE a == [r EXCEPT !.gen = gen]
<1>2. a \in RawInstr BY <1>1, InstrWith
<1> HIDE DEF a
<1> DEFINE b == [a EXCEPT !.callee = fn]
<1>3. b \in RawInstr BY <1>2, InstrWith
<1> HIDE DEF b
<1>4. [b EXCEPT !.args = array] \in RawInstr BY <1>3, InstrWith
<1>5. CallFuncInstr(gen, fn, array) = [b EXCEPT !.args = array] BY DEF CallFuncInstr, r, a, b
<1>6. LET i == CallFuncInstr(gen, fn, array) IN i.op = "CALL_FUNC" /\ i.gen = gen /\ i.left = Unset /\ i.right = Unset /\ i.callee = fn /\ i.args = array
  BY DEF CallFuncInstr, BareInstr
<1> QED BY <1>4, <1>5, <1>6

LEMMA PlainKeeps ==
  ASSUME BuilderInv, NEW f \in DOMAIN funcs, BuildPlain(f)
  PROVE  BuilderInv'
<1>1. ASSUME NEW c \in Constants, add_const_instr(f, c) PROVE BuilderInv'
  <2> DEFINE i == ConstInstr(c[1], NewHandle(funcs[f]), c[3])
  <2>1. c[1] \in ConstOps /\ c[2] \in DataTypes /\ c[3] \in Nat BY BuilderAssumption
  <2>2. NewHandle(funcs[f]) \in Int BY FuncFacts DEF NewHandle
  <2>3. i \in RawInstr /\ i.op = c[1] /\ i.gen = NewHandle(funcs[f]) /\ i.left = Unset /\ i.right = Unset
    BY <2>1, <2>2, ConstShape
  <2>4. EmitValue(f, i, c[2]) BY <1>1 DEF add_const_instr
  <2> HIDE DEF i
  <2>5. Operands(f, i) /\ i.op \in GenOps
    BY <2>1, <2>3 DEF Operands, GenOps, LeftOps, RightOps, BinaryOps, ArithOps, DivideOps, CompareOps,
                      ConstOps, Opcodes, Calls
  <2> QED BY <2>1, <2>3, <2>4, <2>5, EmitValueKeeps
<1>2. ASSUME NEW b \in BlockIds(f), cow_builder_br(f, b) PROVE BuilderInv'
  <2> DEFINE i == BrInstr(b)
  <2>1. b \in DOMAIN funcs[f].blocks /\ b \in Nat BY FuncFacts, SeqFacts DEF BlockIds
  <2>2. i \in RawInstr /\ i.op = "BR" /\ i.gen = Unset /\ i.left = Unset /\ i.right = Unset /\ i.yes = b
    BY <2>1 DEF BrInstr, BareInstr, RawInstr, Opcodes, Unset, DataTypes
  <2>3. Emit(f, i) BY <1>2 DEF cow_builder_br
  <2> HIDE DEF i
  <2>4. Operands(f, i) /\ i.op \notin GenOps
   
      BY <2>1, <2>2 DEF Operands, GenOps, LeftOps, RightOps, BinaryOps, ArithOps, DivideOps, CompareOps, Calls
  <2> QED BY <2>2, <2>3, <2>4, EmitKeeps
<1>3. ASSUME cow_builder_ret_void(f) PROVE BuilderInv'
  <2> DEFINE i == RetVoidInstr
  <2>1. i \in RawInstr /\ i.op = "RET_VOID" /\ i.gen = Unset /\ i.left = Unset /\ i.right = Unset
    BY DEF RetVoidInstr, BareInstr, RawInstr, Opcodes, Unset, DataTypes
  <2>2. Emit(f, i) BY <1>3 DEF cow_builder_ret_void
  <2> HIDE DEF i
  <2>3. Operands(f, i) /\ i.op \notin GenOps
    BY <2>1 DEF Operands, GenOps, LeftOps, RightOps, BinaryOps, ArithOps, DivideOps, CompareOps, Calls
  <2> QED BY <2>1, <2>2, <2>3, EmitKeeps
<1> QED BY <1>1, <1>2, <1>3 DEF BuildPlain

LEMMA OnKeeps ==
  ASSUME BuilderInv, NEW f \in DOMAIN funcs, NEW v \in ValueIds(f), BuildOn(f, v)
  PROVE  BuilderInv'
<1> DEFINE new == NewHandle(funcs[f])  vt == funcs[f].values[v].type
<1> USE DEF ValueIds, Handles
<1>1. new \in Int BY FuncFacts DEF NewHandle
<1>2. vt \in DataTypes /\ v \in Int BY ValueTypes
<1>3. \A b \in BlockIds(f) : b \in DOMAIN funcs[f].blocks /\ b \in Nat
  BY FuncFacts, SeqFacts DEF BlockIds
<1>4. \A h \in ValueIds(f) : h \in Int BY ValueTypes
<1> HIDE DEF new, vt
<1>5. ASSUME cow_builder_not(f, v) PROVE BuilderInv'
  <2> DEFINE i == NotInstr(new, v)
  <2>1. i \in RawInstr /\ i.op = "NOT" /\ i.gen = new /\ i.left = v /\ i.right = Unset
    BY <1>1, <1>2, NotShape
  <2>2. EmitValue(f, i, vt) BY <1>5 DEF cow_builder_not, new, vt
  <2> HIDE DEF i
  <2>3. Operands(f, i) /\ i.op \in GenOps
   
      BY <2>1, <1>3, BuilderAssumption DEF Operands, GenOps, LeftOps, RightOps, BinaryOps, ArithOps, DivideOps, CompareOps, Calls, Opcodes, ConstOps
  <2>4. vt \in DataTypes BY <1>2, BuilderAssumption
  <2> QED BY <2>1, <2>2, <2>3, <2>4, EmitValueKeeps DEF new
<1>6. ASSUME cow_builder_ret(f, v) PROVE BuilderInv'
  <2> DEFINE i == RetInstr(v)
  <2>1. i \in RawInstr /\ i.op = "RET" /\ i.gen = Unset /\ i.left = v /\ i.right = Unset
    BY <1>2, RetShape
  <2>2. Emit(f, i) BY <1>6 DEF cow_builder_ret, new, vt
  <2> HIDE DEF i
  <2>3. Operands(f, i) /\ i.op \notin GenOps
   
      BY <2>1, <1>3, BuilderAssumption DEF Operands, GenOps, LeftOps, RightOps, BinaryOps, ArithOps, DivideOps, CompareOps, Calls
  <2> QED BY <2>1, <2>2, <2>3, EmitKeeps
<1>7. ASSUME NEW op \in Operations, NEW right \in ValueIds(f), add_op_instr(f, op, v, right) PROVE BuilderInv'
  <2> DEFINE i == OpInstr(op, new, v, right)
  <2>1. i \in RawInstr /\ i.op = op /\ i.gen = new /\ i.left = v /\ i.right = right
    BY <1>1, <1>2, <1>4, OpShape, BuilderAssumption
  <2>2. EmitValue(f, i, vt) BY <1>7 DEF add_op_instr, new, vt
  <2> HIDE DEF i
  <2>3. Operands(f, i) /\ i.op \in GenOps
   
      BY <2>1, <1>3, BuilderAssumption DEF Operands, GenOps, LeftOps, RightOps, BinaryOps, ArithOps, DivideOps, CompareOps, Calls, Opcodes, ConstOps
  <2>4. vt \in DataTypes BY <1>2, BuilderAssumption
  <2> QED BY <2>1, <2>2, <2>3, <2>4, EmitValueKeeps DEF new
<1>8. ASSUME NEW t \in Types, cow_builder_load(f, v, t) PROVE BuilderInv'
  <2> DEFINE i == LoadInstr(new, v, t)
  <2>1. i \in RawInstr /\ i.op = "LOAD" /\ i.gen = new /\ i.left = v /\ i.right = Unset
    BY <1>1, <1>2, LoadShape, BuilderAssumption
  <2>2. EmitValue(f, i, t) BY <1>8 DEF cow_builder_load, new, vt
  <2> HIDE DEF i
  <2>3. Operands(f, i) /\ i.op \in GenOps
   
      BY <2>1, <1>3, BuilderAssumption DEF Operands, GenOps, LeftOps, RightOps, BinaryOps, ArithOps, DivideOps, CompareOps, Calls, Opcodes, ConstOps
  <2>4. t \in DataTypes BY <1>2, BuilderAssumption
  <2> QED BY <2>1, <2>2, <2>3, <2>4, EmitValueKeeps DEF new
<1>9. ASSUME NEW stored \in ValueIds(f), cow_builder_store(f, v, stored) PROVE BuilderInv'
  <2> DEFINE i == StoreInstr(v, stored)
  <2>1. i \in RawInstr /\ i.op = "STORE" /\ i.gen = Unset /\ i.left = v /\ i.right = stored
    BY <1>2, <1>4, StoreShape
  <2>2. Emit(f, i) BY <1>9 DEF cow_builder_store, new, vt
  <2> HIDE DEF i
  <2>3. Operands(f, i) /\ i.op \notin GenOps
   
      BY <2>1, <1>3, BuilderAssumption DEF Operands, GenOps, LeftOps, RightOps, BinaryOps, ArithOps, DivideOps, CompareOps, Calls
  <2> QED BY <2>1, <2>2, <2>3, EmitKeeps
<1>10. ASSUME NEW yes \in BlockIds(f), NEW no \in BlockIds(f), cow_builder_cond_br(f, v, yes, no) PROVE BuilderInv'
  <2> DEFINE i == CondBrInstr(v, yes, no)
  <2>1. i \in RawInstr /\ i.op = "COND_BR" /\ i.gen = Unset /\ i.left = v /\ i.right = Unset /\ i.yes = yes /\ i.no = no
    BY <1>2, <1>3, CondBrShape
  <2>2. Emit(f, i) BY <1>10 DEF cow_builder_cond_br, new, vt
  <2> HIDE DEF i
  <2>3. Operands(f, i) /\ i.op \notin GenOps
   
      BY <2>1, <1>3, BuilderAssumption DEF Operands, GenOps, LeftOps, RightOps, BinaryOps, ArithOps, DivideOps, CompareOps, Calls
  <2> QED BY <2>1, <2>2, <2>3, EmitKeeps
<1>11. ASSUME NEW t \in Types, NEW a \in Arrays, arrays[a].func = f, cow_builder_call_ptr(f, t, v, a) PROVE BuilderInv'
  <2> DEFINE i == CallPtrInstr(new, v, a)
  <2>1. i \in RawInstr /\ i.op = "CALL_PTR" /\ i.gen = new /\ i.left = v /\ i.right = Unset /\ i.args = a
    BY <1>1, <1>2, CallPtrShape
  <2>2. EmitValue(f, i, t) BY <1>11 DEF cow_builder_call_ptr, new, vt
  <2> HIDE DEF i
  <2>3. Operands(f, i) /\ i.op \in GenOps
   
      BY <2>1, <1>11, BuilderAssumption DEF Operands, GenOps, LeftOps, RightOps, BinaryOps, ArithOps, DivideOps, CompareOps, Calls, Opcodes, ConstOps
  <2>4. t \in DataTypes BY <1>2, BuilderAssumption
  <2> QED BY <2>1, <2>2, <2>3, <2>4, EmitValueKeeps DEF new
<1> QED BY <1>5, <1>6, <1>7, <1>8, <1>9, <1>10, <1>11 DEF BuildOn

LEMMA CallFuncKeeps ==
  ASSUME BuilderInv, NEW f \in DOMAIN funcs, NEW callee \in DOMAIN funcs, NEW a \in Arrays,
         arrays[a].func = f, cow_builder_call_func(f, callee, a)
  PROVE  BuilderInv'
<1> DEFINE new == NewHandle(funcs[f])  t == funcs[callee].return_type
<1>1. new \in Int BY FuncFacts DEF NewHandle
<1>2. callee \in Nat BY FuncFacts
<1>3. t \in DataTypes
  <2>1. funcs[callee] \in RawFunc BY FuncFacts
  <2> HIDE DEF RawInstr, Value
  <2> QED BY <2>1 DEF RawFunc
<1> DEFINE i == CallFuncInstr(new, callee, a)
<1> HIDE DEF new, t
<1>4. /\ i \in RawInstr /\ i.op = "CALL_FUNC" /\ i.gen = new /\ i.left = Unset /\ i.right = Unset
      /\ i.callee = callee /\ i.args = a
  BY <1>1, <1>2, CallFuncShape
<1>5. EmitValue(f, i, t) BY DEF cow_builder_call_func, new, t
<1> HIDE DEF i
<1>6. Operands(f, i) /\ i.op \in GenOps
 
    BY <1>4 DEF Operands, GenOps, LeftOps, RightOps, BinaryOps, ArithOps, DivideOps, CompareOps, Calls, Opcodes, ConstOps
<1> QED BY <1>3, <1>4, <1>5, <1>6, EmitValueKeeps DEF new

LEMMA SetCurrentKeeps ==
  ASSUME BuilderInv, NEW f \in DOMAIN funcs, NEW b \in BlockIds(f), cow_builder_set_current_block(f, b)
  PROVE  BuilderInv'
<1> DEFINE fn == funcs[f]  g == [fn EXCEPT !.current_block = b]
<1>1. fn \in RawFunc /\ b \in Nat /\ b \in DOMAIN fn.blocks /\ FuncFits(f) /\ Once(fn)
  BY FuncFacts, SeqFacts DEF BlockIds
<1>2. funcs' = [funcs EXCEPT ![f] = g] /\ UNCHANGED arrays BY DEF cow_builder_set_current_block
<1>3. g \in RawFunc /\ g.values = fn.values /\ g.blocks = fn.blocks /\ g.args_count = fn.args_count /\ g.current_block = b
  <2> HIDE DEF RawInstr, Value
  <2> QED BY <1>1 DEF RawFunc
<1>4. funcs'[f] = g /\ DOMAIN funcs' = DOMAIN funcs BY <1>2 DEF BuilderInv, BuilderType
<1> HIDE DEF g, RawFunc
<1>5. Once(g)
  <2>1. Once(fn) = Once(g) BY <1>3 DEF Once
  <2> QED BY <1>1, <2>1
<1>6. \A x : Fits(f, x) => Fits(f, x)'
  <2> TAKE x
  <2> QED BY <1>2, <1>3, <1>4, FitsStays
<1>7. FuncFits(f)'
  <2> HIDE DEF Fits
  <2> QED BY <1>1, <1>3, <1>4, <1>6 DEF FuncFits
<1> QED BY <1>1, <1>2, <1>3, <1>5, <1>7, OneFunctionKeeps

LEMMA CreateBlockKeeps ==
  ASSUME BuilderInv, NEW f \in DOMAIN funcs, cow_builder_create_block(f)
  PROVE  BuilderInv'
<1> DEFINE fn == funcs[f]  bs == fn.blocks  ds == Append(bs, <<>>)  g == [fn EXCEPT !.blocks = ds]
<1>1. fn \in RawFunc /\ bs \in Seq(Seq(RawInstr)) /\ FuncFits(f) /\ Once(fn) BY FuncFacts
<1>2. funcs' = [funcs EXCEPT ![f] = g] /\ UNCHANGED arrays BY DEF cow_builder_create_block
<1>3. /\ ds \in Seq(Seq(RawInstr)) /\ DOMAIN bs \subseteq DOMAIN ds
      /\ \A b \in DOMAIN bs : ds[b] = bs[b]
      /\ \A b \in DOMAIN ds : b \notin DOMAIN bs => ds[b] = <<>>
  <2> HIDE DEF RawInstr
  <2>1. <<>> \in Seq(RawInstr) OBVIOUS
  <2> HIDE DEF bs
  <2> QED BY <1>1, <2>1, AppendFacts
<1>4. g \in RawFunc /\ g.values = fn.values /\ g.blocks = ds /\ g.args_count = fn.args_count /\ g.current_block = fn.current_block
  <2> HIDE DEF RawInstr, Value, ds
  <2> QED BY <1>1, <1>3 DEF RawFunc
<1>5. funcs'[f] = g /\ DOMAIN funcs' = DOMAIN funcs BY <1>2 DEF BuilderInv, BuilderType
<1>6. \A s : s = <<>> => DOMAIN s = {} OBVIOUS
<1>7. \A b \in DOMAIN ds : \A j \in DOMAIN ds[b] : b \in DOMAIN bs /\ j \in DOMAIN bs[b] /\ ds[b][j] = bs[b][j]
  <2> HIDE DEF ds, bs
  <2> QED BY <1>3, <1>6
<1> HIDE DEF g, ds, RawFunc
<1>8. Once(g)
  <2>1. \A h \in DOMAIN g.values : g.args_count < h =>
          \E b \in DOMAIN g.blocks : \E j \in DOMAIN g.blocks[b] : g.blocks[b][j].gen = h
    BY <1>1, <1>3, <1>4 DEF Once
  <2>2. \A b, c \in DOMAIN g.blocks : \A j \in DOMAIN g.blocks[b], k \in DOMAIN g.blocks[c] :
          g.blocks[b][j].gen = g.blocks[c][k].gen /\ g.blocks[b][j].gen # Unset => b = c /\ j = k
    BY <1>1, <1>4, <1>7 DEF Once
  <2> QED BY <2>1, <2>2 DEF Once
<1>9. \A x : Fits(f, x) => Fits(f, x)'
  <2> TAKE x
  <2> QED BY <1>2, <1>3, <1>4, <1>5, FitsStays
<1>10. FuncFits(f)'
  <2>1. ASSUME NEW b \in DOMAIN ds, NEW j \in DOMAIN ds[b], NEW x, x = ds[b][j] PROVE Fits(f, x)'
    <3>1. Fits(f, x)
      <4> HIDE DEF Fits
      <4> QED BY <2>1, <1>1, <1>7 DEF FuncFits
    <3> QED BY <3>1, <1>9
  <2> HIDE DEF Fits
  <2> QED BY <1>1, <1>3, <1>4, <1>5, <2>1 DEF FuncFits
<1> QED BY <1>1, <1>2, <1>3, <1>4, <1>8, <1>10, OneFunctionKeeps

LEMMA CreateFuncKeeps ==
  ASSUME BuilderInv, NEW name \in Names, NEW args \in ArgLists, NEW t \in Types, cow_create_func(name, args, t)
  PROVE  BuilderInv'
<1> SUFFICES ASSUME NEW n, n = Len(funcs) + 1 PROVE BuilderInv'
  OBVIOUS
<1> DEFINE ac == Len(args)
           ws == [k \in 1 .. ac |-> [id |-> k - 1, type |-> args[k]]]
           ds == <<<<>>>>
           g == [name |-> name, args_count |-> ac, return_type |-> t, blocks |-> ds,
                 current_block |-> 1, values |-> ws]
<1>1. name \in STRING /\ args \in Seq(DataTypes) /\ t \in DataTypes BY BuilderAssumption
<1>2. ac \in Nat /\ \A k \in 1 .. ac : args[k] \in DataTypes
  <2> HIDE DEF DataTypes
  <2> QED BY <1>1
<1>3. ws \in Seq(Value) /\ Len(ws) = ac /\ DOMAIN ws = 1 .. ac /\ \A h \in DOMAIN ws : ws[h].id = h - 1
  <2>1. \A k \in 1 .. ac : [id |-> k - 1, type |-> args[k]] \in Value BY <1>2 DEF Value
  <2> HIDE DEF Value, ac
  <2>2. ws \in [1 .. ac -> Value] BY <2>1
  <2>3. ws \in Seq(Value) /\ Len(ws) = ac BY <2>2, <1>2
  <2> QED BY <2>3, <1>2
<1>4. ds \in Seq(Seq(RawInstr)) /\ DOMAIN ds = {1} /\ DOMAIN ds[1] = {}
  <2> HIDE DEF RawInstr
  <2> QED OBVIOUS
<1>5. funcs' = Append(funcs, g) /\ UNCHANGED arrays BY DEF cow_create_func
<1>6. /\ g \in RawFunc /\ g.args_count = ac /\ g.blocks = ds /\ g.current_block = 1 /\ g.values = ws
  <2> HIDE DEF RawInstr, Value, ds, ws, ac
  <2> QED BY <1>1, <1>2, <1>3, <1>4 DEF RawFunc
<1> HIDE DEF g, ds, ws, ac
<1>7. funcs \in Seq(RawFunc) /\ arrays \in [Arrays -> [func : Nat, handles : Seq(Nat)]]
  BY DEF BuilderInv, BuilderType
<1>8. /\ funcs' \in Seq(RawFunc) /\ DOMAIN funcs' = DOMAIN funcs \cup {n} /\ n \notin DOMAIN funcs
      /\ funcs'[n] = g /\ \A e \in DOMAIN funcs : funcs'[e] = funcs[e]
  <2> HIDE DEF RawFunc
  <2> QED BY <1>5, <1>6, <1>7, AppendFacts
<1> HIDE DEF RawFunc
<1>9. ASSUME NEW e \in DOMAIN funcs PROVE FuncFits(e)' /\ Once(funcs'[e])
  <2>1. FuncFits(e) /\ Once(funcs[e]) /\ funcs'[e] = funcs[e] BY <1>8 DEF BuilderInv
  <2>2. \A i : Fits(e, i) => Fits(e, i)'
    <3> TAKE i
    <3> QED BY <2>1, <1>5, <1>8, FitsStays
  <2> HIDE DEF Fits, Once
  <2> QED BY <2>1, <2>2 DEF FuncFits
<1>10. FuncFits(n)'
  <2>1. 1 \in DOMAIN ds /\ ac <= Len(ws) BY <1>2, <1>3, <1>4
  <2>2. \A b \in DOMAIN ds : DOMAIN ds[b] = {} BY <1>4
  <2> HIDE DEF Fits
  <2> QED BY <1>3, <1>6, <1>8, <2>1, <2>2 DEF FuncFits
<1>11. Once(g)
  <2>1. \A h \in DOMAIN g.values : ~(g.args_count < h) BY <1>2, <1>3, <1>6
  <2>2. \A b \in DOMAIN g.blocks : DOMAIN g.blocks[b] = {} BY <1>4, <1>6
  <2> QED BY <2>1, <2>2 DEF Once
<1>12. \A a \in Arrays : ArrayFits(a)' BY <1>5, <1>8 DEF BuilderInv, ArrayFits
<1>13. BuilderType' BY <1>5, <1>7, <1>8 DEF BuilderType
<1> HIDE DEF Once
<1> QED BY <1>8, <1>9, <1>10, <1>11, <1>12, <1>13 DEF BuilderInv

LEMMA FillArrayKeeps ==
  ASSUME BuilderInv, NEW f \in DOMAIN funcs, NEW a \in Arrays, NEW n \in Nat,
         NEW handles \in [1 .. n -> ValueIds(f)], FillArray(a, f, handles)
  PROVE  BuilderInv'
<1> DEFINE r == [func |-> f, handles |-> handles]
<1>1. funcs \in Seq(RawFunc) /\ arrays \in [Arrays -> [func : Nat, handles : Seq(Nat)]]
  BY DEF BuilderInv, BuilderType
<1>2. f \in Nat /\ f # 0 /\ funcs[f].values \in Seq(Value) BY FuncFacts
<1>3. handles \in Seq(Nat) /\ DOMAIN handles = 1 .. n
  <2>1. ValueIds(f) \subseteq Nat
    <3> HIDE DEF Value
    <3> QED BY <1>2, SeqFacts DEF ValueIds, Handles
  <2>2. handles \in [1 .. n -> Nat] BY <2>1
  <2> QED BY <2>2
<1>4. /\ arrays' = [arrays EXCEPT ![a] = r] /\ funcs' = funcs
      /\ arrays[a].func = 0 \/ arrays[a].func = f
  BY DEF FillArray
<1>5. r \in [func : Nat, handles : Seq(Nat)] /\ r.func = f /\ r.handles = handles BY <1>2, <1>3
<1> HIDE DEF r, RawFunc
<1>6. /\ arrays' \in [Arrays -> [func : Nat, handles : Seq(Nat)]]
      /\ arrays'[a] = r /\ \A x \in Arrays : x # a => arrays'[x] = arrays[x]
  BY <1>1, <1>4, <1>5
<1>7. BuilderType' BY <1>1, <1>4, <1>6 DEF BuilderType
<1>8. \A x \in Arrays : ArrayFits(x)'
  <2> TAKE x \in Arrays
  <2>1. CASE x # a BY <2>1, <1>4, <1>6 DEF BuilderInv, ArrayFits
  <2>2. CASE x = a BY <2>2, <1>3, <1>4, <1>5, <1>6 DEF ArrayFits, ValueIds, Handles
  <2> QED BY <2>1, <2>2
<1>9. ASSUME NEW e \in DOMAIN funcs PROVE FuncFits(e)'
  <2>1. FuncFits(e) /\ e # 0 BY FuncFacts
  <2>2. \A x \in Arrays : arrays[x].func = e => arrays'[x].func = e BY <2>1, <1>4, <1>5, <1>6
  <2>3. \A i : Fits(e, i) => Fits(e, i)'
    <3> TAKE i
    <3> QED BY <2>2, <1>4, FitsStays
  <2> HIDE DEF Fits
  <2> QED BY <2>1, <2>3, <1>4 DEF FuncFits
<1> HIDE DEF Once
<1> QED BY <1>4, <1>7, <1>8, <1>9 DEF BuilderInv

LEMMA NextKeeps == BuilderInv /\ [Next]_vars => BuilderInv'
<1> SUFFICES ASSUME BuilderInv, [Next]_vars PROVE BuilderInv'
  OBVIOUS
<1>1. ASSUME NEW name \in Names, NEW args \in ArgLists, NEW t \in Types, cow_create_func(name, args, t)
      PROVE  BuilderInv'
  BY <1>1, CreateFuncKeeps
<1>2. ASSUME NEW f \in DOMAIN funcs, cow_builder_create_block(f) PROVE BuilderInv'
  BY <1>2, CreateBlockKeeps
<1>3. ASSUME NEW f \in DOMAIN funcs, NEW b \in BlockIds(f), cow_builder_set_current_block(f, b) PROVE BuilderInv'
  BY <1>3, SetCurrentKeeps
<1>4. ASSUME NEW f \in DOMAIN funcs, BuildPlain(f) PROVE BuilderInv'
  BY <1>4, PlainKeeps
<1>5. ASSUME NEW f \in DOMAIN funcs, NEW v \in ValueIds(f), BuildOn(f, v) PROVE BuilderInv'
  BY <1>5, OnKeeps
<1>6. ASSUME NEW f \in DOMAIN funcs, NEW callee \in DOMAIN funcs, NEW a \in Arrays,
             arrays[a].func = f, cow_builder_call_func(f, callee, a)
      PROVE  BuilderInv'
  BY <1>6, CallFuncKeeps
<1>7. ASSUME NEW f \in DOMAIN funcs, NEW a \in Arrays, NEW n \in 0 .. MaxArgs,
             NEW handles \in [1 .. n -> ValueIds(f)], FillArray(a, f, handles)
      PROVE  BuilderInv'
  <2>1. n \in Nat BY BuilderAssumption
  <2> QED BY <1>7, <2>1, FillArrayKeeps
<1>8. CASE UNCHANGED vars
  <2>1. funcs' = funcs /\ arrays' = arrays BY <1>8 DEF vars
  <2>2. BuilderType' BY <2>1 DEF BuilderInv, BuilderType
  <2>3. \A x \in Arrays : ArrayFits(x)' BY <2>1 DEF BuilderInv, ArrayFits
  <2>4. \A e \in DOMAIN funcs : FuncFits(e)' BY <2>1 DEF BuilderInv, FuncFits, Fits, Operands, Generated
  <2> HIDE DEF Once
  <2> QED BY <2>1, <2>2, <2>3, <2>4 DEF BuilderInv
<1> QED BY <1>1, <1>2, <1>3, <1>4, <1>5, <1>6, <1>7, <1>8 DEF Next

LEMMA BuilderInvariant == Spec => []BuilderInv
<1> QED BY InitBuilder, NextKeeps, PTL DEF Spec

(***************************************************************************)
(* Every value of a function but its arguments is the gen_value of exactly *)
(* one instruction, and no two values have one id, however many functions, *)
(* blocks and instructions are built.                                      *)
(***************************************************************************)
THEOREM DefinedOnce == Spec => []OneDefinition
<1>1. BuilderInv => OneDefinition
  <2> SUFFICES ASSUME BuilderInv, NEW f \in DOMAIN funcs, NEW h \in Handles(funcs[f])
               PROVE  /\ Cardinality(Definitions(funcs[f], h)) = (IF h <= funcs[f].args_count THEN 0 ELSE 1)
                      /\ \A g \in Handles(funcs[f]) : g # h => funcs[f].values[g].id # funcs[f].values[h].id
    BY DEF OneDefinition
  <2> DEFINE fn == funcs[f]  ds == Definitions(fn, h)
  <2>1. FuncFits(f) /\ Once(fn) /\ fn.args_count \in Nat BY FuncFacts
  <2>2. \A g \in Handles(fn) : g \in Nat /\ g # 0 /\ fn.values[g].id = g - 1
    <3>1. fn.values \in Seq(Value) BY FuncFacts
    <3>2. \A g \in Handles(fn) : g \in Nat /\ g # 0
      <4> HIDE DEF Value
      <4> QED BY <3>1, SeqFacts DEF Handles
    <3>3. \A g \in Handles(fn) : fn.values[g].id = g - 1 BY <2>1 DEF FuncFits, Handles
    <3> QED BY <3>2, <3>3
  <2>3. \A x : x \in ds <=>
          \E b \in DOMAIN fn.blocks : \E j \in DOMAIN fn.blocks[b] : fn.blocks[b][j].gen = h /\ x = <<b, j>>
    BY DEF Definitions
  <2>4. CASE h <= fn.args_count
    <3>1. ASSUME NEW b \in DOMAIN fn.blocks, NEW j \in DOMAIN fn.blocks[b], fn.blocks[b][j].gen = h
          PROVE  FALSE
      <4>1. Generated(f, fn.blocks[b][j]) BY <2>1 DEF FuncFits, Fits
      <4>2. h \in Nat BY <2>2
      <4> QED BY <3>1, <4>1, <4>2, <2>1, <2>4 DEF Generated, Unset
    <3> HIDE DEF ds
    <3>2. ds = {} BY <3>1, <2>3
    <3> QED BY <3>2, <2>2, <2>4, FS_EmptySet DEF ds
  <2>5. CASE ~(h <= fn.args_count)
    <3>1. fn.args_count < h BY <2>1, <2>2, <2>5
    <3>2. PICK b \in DOMAIN fn.blocks : \E j \in DOMAIN fn.blocks[b] : fn.blocks[b][j].gen = h
      BY <2>1, <3>1 DEF Once, Handles
    <3>3. PICK j \in DOMAIN fn.blocks[b] : fn.blocks[b][j].gen = h BY <3>2
    <3>4. h # Unset BY <2>2 DEF Unset
    <3> HIDE DEF ds
    <3>5. \A c \in DOMAIN fn.blocks : \A k \in DOMAIN fn.blocks[c] : fn.blocks[c][k].gen = h => c = b /\ k = j
      BY <2>1, <3>3, <3>4 DEF Once
    <3>6. ds = {<<b, j>>} BY <2>3, <3>3, <3>5
    <3>7. Cardinality(ds) = 1 BY <3>6, FS_Singleton
    <3> QED BY <3>7, <2>2, <2>5 DEF ds
  <2> QED BY <2>4, <2>5
<1> QED BY <1>1, BuilderInvariant, PTL
----------------------------------------------------------------------------
\* What an instruction becomes when its pointers are followed.
LEMMA FollowedFits ==
  ASSUME BuilderInv, NEW f \in DOMAIN funcs, NEW i \in RawInstr, Fits(f, i)
  PROVE  LET x == Followed(funcs[f], i)  ids == 0 .. Len(funcs[f].values) - 1 IN
         /\ x \in Instr /\ x.op = i.op /\ x.yes = i.yes /\ x.no = i.no /\ x.callee = i.callee
         /\ i.op \in GenOps => x.gen \in ids
         /\ i.op \in LeftOps => x.left \in ids
         /\ i.op \in RightOps => x.right \in ids
         /\ \A k \in DOMAIN x.args : x.args[k] \in ids
<1> DEFINE fn == funcs[f]  ids == 0 .. Len(fn.values) - 1
           G == Id(fn, i.gen)  L == Id(fn, i.left)  R == Id(fn, i.right)
           A == IF i.op \in Calls
                THEN [k \in DOMAIN arrays[i.args].handles |-> Id(fn, arrays[i.args].handles[k])]
                ELSE <<>>
<1>1. Operands(f, i) /\ Generated(f, i) BY DEF Fits
<1>2. \A h \in DOMAIN fn.values : Id(fn, h) \in ids
  <2>1. fn.values \in Seq(Value) /\ FuncFits(f) BY FuncFacts
  <2>2. Len(fn.values) \in Nat /\ DOMAIN fn.values = 1 .. Len(fn.values)
    <3> HIDE DEF Value
    <3> QED BY <2>1
  <2>3. \A h \in DOMAIN fn.values : fn.values[h].id = h - 1 BY <2>1 DEF FuncFits
  <2> QED BY <2>2, <2>3 DEF Id, Unset
<1>3. Id(fn, Unset) = Unset /\ Unset \in Int BY DEF Id, Unset
<1>4. ids \subseteq Int /\ ids \subseteq Nat
  <2>1. fn.values \in Seq(Value) BY FuncFacts
  <2> HIDE DEF Value
  <2> QED BY <2>1
<1> HIDE DEF ids
<1>5. G \in Int /\ (i.op \in GenOps => G \in ids) BY <1>1, <1>2, <1>3, <1>4 DEF Generated
<1>6. L \in Int /\ (i.op \in LeftOps => L \in ids) BY <1>1, <1>2, <1>3, <1>4 DEF Operands
<1>7. R \in Int /\ (i.op \in RightOps => R \in ids) BY <1>1, <1>2, <1>3, <1>4 DEF Operands
<1>8. A \in Seq(Nat) /\ \A k \in DOMAIN A : A[k] \in ids
  <2>1. CASE i.op \notin Calls BY <2>1
  <2>2. CASE i.op \in Calls
    <3> DEFINE hs == arrays[i.args].handles
    <3>1. i.args \in Arrays /\ arrays[i.args].func = f /\ f # 0 BY <1>1, <2>2, FuncFacts DEF Operands
    <3>2. hs \in Seq(Nat) BY <3>1 DEF BuilderInv, BuilderType
    <3>3. \A k \in DOMAIN hs : hs[k] \in DOMAIN fn.values BY <3>1 DEF BuilderInv, ArrayFits
    <3>4. A = [k \in DOMAIN hs |-> Id(fn, hs[k])] BY <2>2
    <3> HIDE DEF hs, A
    <3>5. \A k \in DOMAIN hs : Id(fn, hs[k]) \in ids BY <3>3, <1>2
    <3>6. Len(hs) \in Nat /\ DOMAIN hs = 1 .. Len(hs) BY <3>2
    <3>7. A \in [1 .. Len(hs) -> Nat] BY <3>4, <3>5, <3>6, <1>4
    <3>8. A \in Seq(Nat) BY <3>6, <3>7
    <3> QED BY <3>4, <3>5, <3>8
  <2> QED BY <2>1, <2>2
<1> DEFINE a == [i EXCEPT !.gen = G]  b == [a EXCEPT !.left = L]  c == [b EXCEPT !.right = R]
           x == [c EXCEPT !.args = A]
<1>9. Followed(fn, i) = x BY DEF Followed, RawInstr
<1> HIDE DEF G, L, R, A, fn
<1>10. a \in RawInstr BY <1>5, InstrWith
<1>11. /\ a.op = i.op /\ a.yes = i.yes /\ a.no = i.no /\ a.callee = i.callee /\ a.gen = G
  BY DEF RawInstr
<1> HIDE DEF a
<1>12. b \in RawInstr BY <1>6, <1>10, InstrWith
<1>13. /\ b.op = i.op /\ b.yes = i.yes /\ b.no = i.no /\ b.callee = i.callee /\ b.gen = G /\ b.left = L
  BY <1>10, <1>11 DEF RawInstr
<1> HIDE DEF b
<1>14. c \in RawInstr BY <1>7, <1>12, InstrWith
<1>15. /\ c.op = i.op /\ c.yes = i.yes /\ c.no = i.no /\ c.callee = i.callee /\ c.gen = G /\ c.left = L
       /\ c.right = R
  BY <1>12, <1>13 DEF RawInstr
<1> HIDE DEF c
<1>16. x \in Instr BY <1>8, <1>14 DEF RawInstr, Instr
<1>17. /\ x.op = i.op /\ x.yes = i.yes /\ x.no = i.no /\ x.callee = i.callee /\ x.gen = G /\ x.left = L
       /\ x.right = R /\ x.args = A
  BY <1>14, <1>15 DEF RawInstr
<1> HIDE DEF x
<1> QED BY <1>5, <1>6, <1>7, <1>8, <1>9, <1>16, <1>17 DEF fn, ids

\* What a function becomes.
LEMMA BuiltFits ==
  ASSUME BuilderInv, NEW f \in DOMAIN funcs
  PROVE  Built(funcs[f]) \in Function /\ FunctionOK(Program, Built(funcs[f]))
<1> DEFINE fn == funcs[f]  ids == 0 .. Len(fn.values) - 1
           vs == [h \in Handles(fn) |-> fn.values[h].type]
           bs == [b \in DOMAIN fn.blocks |-> [j \in DOMAIN fn.blocks[b] |-> Followed(fn, fn.blocks[b][j])]]
           g == Built(fn)
<1>1. /\ fn \in RawFunc /\ fn.values \in Seq(Value) /\ fn.blocks \in Seq(Seq(RawInstr)) /\ FuncFits(f)
      /\ \A b \in DOMAIN fn.blocks : fn.blocks[b] \in Seq(RawInstr)
  BY FuncFacts
<1>2. fn.name \in STRING /\ fn.args_count \in Nat /\ fn.return_type \in DataTypes
  <2> HIDE DEF RawInstr, Value
  <2> QED BY <1>1 DEF RawFunc
<1>3. vs \in Seq(DataTypes) /\ Len(vs) = Len(fn.values)
  <2>1. Len(fn.values) \in Nat /\ DOMAIN fn.values = 1 .. Len(fn.values)
    <3> HIDE DEF Value
    <3> QED BY <1>1
  <2>2. \A h \in DOMAIN fn.values : fn.values[h].type \in DataTypes BY ValueTypes
  <2> HIDE DEF DataTypes
  <2>3. vs \in [1 .. Len(fn.values) -> DataTypes] BY <2>1, <2>2 DEF Handles
  <2> HIDE DEF vs
  <2> QED BY <2>1, <2>3
<1>4. ASSUME NEW b \in DOMAIN fn.blocks, NEW j \in DOMAIN fn.blocks[b]
      PROVE  LET i == fn.blocks[b][j]  x == Followed(fn, i) IN
             /\ i \in RawInstr /\ Fits(f, i)
             /\ x \in Instr /\ x.op = i.op /\ x.yes = i.yes /\ x.no = i.no /\ x.callee = i.callee
             /\ i.op \in GenOps => x.gen \in ids
             /\ i.op \in LeftOps => x.left \in ids
             /\ i.op \in RightOps => x.right \in ids
             /\ \A k \in DOMAIN x.args : x.args[k] \in ids
  <2> DEFINE i == fn.blocks[b][j]
  <2>1. i \in RawInstr
    <3> HIDE DEF RawInstr
    <3> QED BY <1>1, SeqFacts
  <2>2. Fits(f, i)
    <3> HIDE DEF Fits
    <3> QED BY <1>1 DEF FuncFits
  <2> HIDE DEF i
  <2>3. LET x == Followed(fn, i) IN
        /\ x \in Instr /\ x.op = i.op /\ x.yes = i.yes /\ x.no = i.no /\ x.callee = i.callee
        /\ i.op \in GenOps => x.gen \in ids
        /\ i.op \in LeftOps => x.left \in ids
        /\ i.op \in RightOps => x.right \in ids
        /\ \A k \in DOMAIN x.args : x.args[k] \in ids
    BY <2>1, <2>2, FollowedFits
  <2> QED BY <2>1, <2>2, <2>3 DEF i
<1>5. /\ bs \in Seq(Seq(Instr)) /\ DOMAIN bs = DOMAIN fn.blocks
      /\ \A b \in DOMAIN bs : DOMAIN bs[b] = DOMAIN fn.blocks[b]
      /\ \A b \in DOMAIN bs : \A j \in DOMAIN bs[b] : bs[b][j] = Followed(fn, fn.blocks[b][j])
  <2>1. ASSUME NEW b \in DOMAIN fn.blocks PROVE bs[b] \in Seq(Instr)
    <3>1. Len(fn.blocks[b]) \in Nat /\ DOMAIN fn.blocks[b] = 1 .. Len(fn.blocks[b])
      <4> HIDE DEF RawInstr
      <4> QED BY <1>1, SeqFacts
    <3>2. \A j \in DOMAIN fn.blocks[b] : Followed(fn, fn.blocks[b][j]) \in Instr BY <1>4
    <3> HIDE DEF Followed, Instr
    <3>3. bs[b] \in [1 .. Len(fn.blocks[b]) -> Instr] BY <3>1, <3>2
    <3> QED BY <3>1, <3>3
  <2>2. Len(fn.blocks) \in Nat /\ DOMAIN fn.blocks = 1 .. Len(fn.blocks)
    <3> HIDE DEF RawInstr
    <3> QED BY <1>1, SeqFacts
  <2>3. DOMAIN bs = DOMAIN fn.blocks /\ \A b \in DOMAIN bs : DOMAIN bs[b] = DOMAIN fn.blocks[b] OBVIOUS
  <2>4. \A b \in DOMAIN bs : \A j \in DOMAIN bs[b] : bs[b][j] = Followed(fn, fn.blocks[b][j]) OBVIOUS
  <2>5. bs \in [1 .. Len(fn.blocks) -> Seq(Instr)]
    <3> DEFINE e(b) == [j \in DOMAIN fn.blocks[b] |-> Followed(fn, fn.blocks[b][j])]
    <3>1. \A b \in DOMAIN fn.blocks : e(b) \in Seq(Instr) BY <2>1
    <3>2. bs = [b \in 1 .. Len(fn.blocks) |-> e(b)] BY <2>2
    <3> HIDE DEF e, bs, Instr
    <3> QED BY <2>2, <3>1, <3>2
  <2> HIDE DEF bs, Instr
  <2>6. bs \in Seq(Seq(Instr)) BY <2>2, <2>5
  <2> QED BY <2>3, <2>4, <2>6
<1>6. g = [name |-> fn.name, args_count |-> fn.args_count, return_type |-> fn.return_type,
           values |-> vs, blocks |-> bs]
  BY DEF Built
<1> HIDE DEF g, vs, bs, Function, RawFunc, RawInstr, Value, Instr, DataTypes
<1>7. g \in Function BY <1>2, <1>3, <1>5, <1>6 DEF Function
<1>8. DOMAIN Program = DOMAIN funcs BY DEF Program
<1>9. Ids(g) = ids BY <1>3, <1>6 DEF Ids, ValuesSize
<1>10. FunctionOK(Program, g)
  <2>1. g.args_count <= ValuesSize(g) BY <1>1, <1>3, <1>6 DEF FuncFits, ValuesSize
  <2>2. g.blocks # <<>>
    <3>1. fn.current_block \in DOMAIN bs BY <1>1, <1>5 DEF FuncFits
    <3>2. \A s : s = <<>> => DOMAIN s = {} OBVIOUS
    <3> QED BY <3>1, <3>2, <1>6
  <2>3. ASSUME NEW b \in DOMAIN g.blocks, NEW j \in DOMAIN g.blocks[b]
        PROVE  InstrOK(Program, g, g.blocks[b][j])
    <3> DEFINE i == fn.blocks[b][j]  x == Followed(fn, i)
    <3>1. b \in DOMAIN fn.blocks /\ j \in DOMAIN fn.blocks[b] /\ g.blocks[b][j] = x BY <1>5, <1>6
    <3>2. /\ Fits(f, i) /\ x.op = i.op /\ x.yes = i.yes /\ x.no = i.no /\ x.callee = i.callee
          /\ i.op \in GenOps => x.gen \in ids
          /\ i.op \in LeftOps => x.left \in ids
          /\ i.op \in RightOps => x.right \in ids
          /\ \A k \in DOMAIN x.args : x.args[k] \in ids
      BY <3>1, <1>4
    <3> HIDE DEF i, x, ids
    <3>3. /\ i.op \in {"BR", "COND_BR"} => i.yes \in DOMAIN fn.blocks
          /\ i.op = "COND_BR" => i.no \in DOMAIN fn.blocks
          /\ i.op = "CALL_FUNC" => i.callee \in DOMAIN funcs
      BY <3>2 DEF Fits, Operands
    <3>4. DOMAIN g.blocks = DOMAIN fn.blocks BY <1>5, <1>6
    <3>5. InstrOK(Program, g, x) BY <3>2, <3>3, <3>4, <1>8, <1>9 DEF InstrOK
    <3> QED BY <3>1, <3>5
  <2> QED BY <2>1, <2>2, <2>3 DEF FunctionOK
<1> QED BY <1>7, <1>10 DEF g

(***************************************************************************)
(* What is built from the builder's own handles can be indexed by the      *)
(* interpreter at any time: every id is below values.size, every branch    *)
(* and every call goes somewhere.  This is what the theorems about the     *)
(* interpreter assume of a program.                                        *)
(***************************************************************************)
THEOREM BuiltWellFormed == Spec => []BuildsWellFormed
<1>1. BuilderInv => BuildsWellFormed
  <2> SUFFICES ASSUME BuilderInv PROVE WellFormed(Program)
    BY DEF BuildsWellFormed
  <2>1. \A f \in DOMAIN funcs : Built(funcs[f]) \in Function /\ FunctionOK(Program, Built(funcs[f]))
    BY BuiltFits
  <2>2. Len(funcs) \in Nat /\ DOMAIN funcs = 1 .. Len(funcs)
    <3> HIDE DEF RawFunc
    <3> QED BY SeqFacts DEF BuilderInv, BuilderType
  <2>3. DOMAIN Program = DOMAIN funcs /\ \A f \in DOMAIN funcs : Program[f] = Built(funcs[f])
    BY DEF Program
  <2> HIDE DEF Function, Built
  <2>4. Program \in [1 .. Len(funcs) -> Function] BY <2>1, <2>2 DEF Program
  <2>5. Program \in Seq(Function) BY <2>2, <2>4
  <2> QED BY <2>1, <2>3, <2>5 DEF WellFormed
<1> QED BY <1>1, BuilderInvariant, PTL
----------------------------------------------------------------------------
(***************************************************************************)
(* Building only adds: function g has all that function fn has.            *)
(***************************************************************************)
Has(g, fn) ==
  /\ g.name = fn.name
  /\ \A h \in DOMAIN fn.values : h \in DOMAIN g.values /\ g.values[h] = fn.values[h]
  /\ \A b \in DOMAIN fn.blocks : b \in DOMAIN g.blocks /\
       \A j \in DOMAIN fn.blocks[b] : j \in DOMAIN g.blocks[b] /\ g.blocks[b][j] = fn.blocks[b][j]

LEMMA AppendKeeps ==
  ASSUME NEW S, NEW s \in Seq(S), NEW e
  PROVE  \A k \in DOMAIN s : k \in DOMAIN Append(s, e) /\ Append(s, e)[k] = s[k]
<1>1. s \in [1 .. Len(s) -> S] /\ Len(s) \in Nat OBVIOUS
<1>2. s \in [1 .. Len(s) -> S \cup {e}] BY <1>1
<1>3. s \in Seq(S \cup {e}) BY <1>1, <1>2
<1> QED BY <1>3, AppendFacts

LEMMA InstrStays ==
  ASSUME NEW fn \in RawFunc, NEW i
  PROVE  Has(WithInstr(fn, i), fn) /\ WithInstr(fn, i).values = fn.values
<1> DEFINE c == fn.current_block
           ds == [fn.blocks EXCEPT ![c] = Append(@, i)]
           g == [fn EXCEPT !.blocks = ds]
<1>1. WithInstr(fn, i) = g BY DEF WithInstr
<1>2. fn.blocks \in Seq(Seq(RawInstr))
  <2> HIDE DEF RawInstr, Value
  <2> QED BY DEF RawFunc
<1>3. \A b \in DOMAIN fn.blocks : b \in DOMAIN ds /\
        \A j \in DOMAIN fn.blocks[b] : j \in DOMAIN ds[b] /\ ds[b][j] = fn.blocks[b][j]
  <2> SUFFICES ASSUME NEW b \in DOMAIN fn.blocks
               PROVE  b \in DOMAIN ds /\
                        \A j \in DOMAIN fn.blocks[b] : j \in DOMAIN ds[b] /\ ds[b][j] = fn.blocks[b][j]
    OBVIOUS
  <2>1. fn.blocks[b] \in Seq(RawInstr)
    <3> HIDE DEF RawInstr
    <3> QED BY <1>2, SeqFacts
  <2>2. \A j \in DOMAIN fn.blocks[b] : j \in DOMAIN Append(fn.blocks[b], i) /\ Append(fn.blocks[b], i)[j] = fn.blocks[b][j]
    <3> HIDE DEF RawInstr
    <3> QED BY <2>1, AppendKeeps
  <2>3. b \in DOMAIN ds /\ ds[b] = IF b = c THEN Append(fn.blocks[b], i) ELSE fn.blocks[b] OBVIOUS
  <2> HIDE DEF ds, RawFunc
  <2> QED BY <2>2, <2>3
<1> HIDE DEF ds
<1>4. g.name = fn.name /\ g.values = fn.values /\ g.blocks = ds
  <2> HIDE DEF RawInstr, Value
  <2> QED BY DEF RawFunc
<1> HIDE DEF g, RawFunc
<1> QED BY <1>1, <1>3, <1>4 DEF Has

LEMMA ValueStays ==
  ASSUME NEW fn \in RawFunc, NEW i, NEW t
  PROVE  Has(WithValue(WithInstr(fn, i), t), fn)
<1> DEFINE w == WithInstr(fn, i)
           ds == [fn.blocks EXCEPT ![fn.current_block] = Append(@, i)]
           ws == Append(fn.values, [id |-> Len(fn.values), type |-> t])
           g == [w EXCEPT !.values = ws]
<1>1. Has(w, fn) /\ w.values = fn.values
  <2> HIDE DEF RawFunc
  <2> QED BY InstrStays
<1>2. WithValue(w, t) = g
  <2> HIDE DEF w
  <2> QED BY <1>1 DEF WithValue
<1>3. fn.values \in Seq(Value)
  <2> HIDE DEF RawInstr, Value
  <2> QED BY DEF RawFunc
<1>4. \A h \in DOMAIN fn.values : h \in DOMAIN ws /\ ws[h] = fn.values[h]
  <2> HIDE DEF Value
  <2> QED BY <1>3, AppendKeeps
<1> HIDE DEF ws
<1>5. g.name = w.name /\ g.values = ws /\ g.blocks = w.blocks
  <2> HIDE DEF RawInstr, Value
  <2> QED BY DEF RawFunc, WithInstr
<1> HIDE DEF g, w, RawFunc
<1>6. g.name = fn.name BY <1>1, <1>5 DEF Has
<1>7. \A b \in DOMAIN fn.blocks : b \in DOMAIN g.blocks /\
        \A j \in DOMAIN fn.blocks[b] : j \in DOMAIN g.blocks[b] /\ g.blocks[b][j] = fn.blocks[b][j]
  BY <1>1, <1>5 DEF Has
<1>8. Has(g, fn) BY <1>4, <1>5, <1>6, <1>7 DEF Has
<1> QED BY <1>2, <1>8 DEF w

\* What an instruction refers to stays when functions grow.
LEMMA FollowedStays ==
  ASSUME BuilderInv, NEW f \in DOMAIN funcs, NEW i, Fits(f, i), NEW g, Has(g, funcs[f]),
         i.op \in Calls => arrays'[i.args] = arrays[i.args]
  PROVE  Followed(g, i)' = Followed(funcs[f], i)
<1> DEFINE fn == funcs[f]
<1>1. \A h \in DOMAIN fn.values : Id(g, h) = Id(fn, h) BY DEF Has, Id
<1>2. Id(g, Unset) = Id(fn, Unset) BY DEF Id
<1>3. Operands(f, i) /\ Generated(f, i) BY DEF Fits
<1>4. Id(g, i.gen) = Id(fn, i.gen) BY <1>1, <1>2, <1>3 DEF Generated
<1>5. Id(g, i.left) = Id(fn, i.left) /\ Id(g, i.right) = Id(fn, i.right)
  BY <1>1, <1>2, <1>3 DEF Operands
<1>6. ASSUME i.op \in Calls
      PROVE  [k \in DOMAIN arrays'[i.args].handles |-> Id(g, arrays'[i.args].handles[k])] =
             [k \in DOMAIN arrays[i.args].handles |-> Id(fn, arrays[i.args].handles[k])]
  <2> DEFINE hs == arrays[i.args].handles
  <2>1. i.args \in Arrays /\ arrays[i.args].func = f /\ f # 0 BY <1>3, <1>6, FuncFacts DEF Operands
  <2>2. \A k \in DOMAIN hs : hs[k] \in DOMAIN fn.values BY <2>1 DEF BuilderInv, ArrayFits
  <2>3. \A k \in DOMAIN hs : Id(g, hs[k]) = Id(fn, hs[k]) BY <1>1, <2>2
  <2>4. arrays'[i.args].handles = hs BY <1>6
  <2> QED BY <2>3, <2>4
<1> QED BY <1>4, <1>5, <1>6 DEF Followed

LEMMA GrowthAdds ==
  ASSUME BuilderInv, \A f \in DOMAIN funcs : f \in DOMAIN funcs' /\ Has(funcs'[f], funcs[f]),
         UNCHANGED arrays \/ UNCHANGED funcs
  PROVE  AddsOnly
<1> SUFFICES ASSUME NEW f \in DOMAIN funcs
             PROVE  /\ \A b \in DOMAIN funcs[f].blocks : \A j \in DOMAIN funcs[f].blocks[b] :
                         LET i == funcs[f].blocks[b][j] IN
                         \/ Program'[f].blocks[b][j] = Program[f].blocks[b][j]
                         \/ i.op \in Calls /\ UNCHANGED funcs /\ arrays'[i.args] # arrays[i.args]
                    /\ \A h \in Handles(funcs[f]) : Program'[f].values[h] = Program[f].values[h]
                    /\ \A name \in Names : Found(Program, name, f) => Found(Program', name, f)
  BY DEF AddsOnly
<1> DEFINE fn == funcs[f]
<1> SUFFICES ASSUME NEW g, g = funcs'[f]
             PROVE  /\ \A b \in DOMAIN fn.blocks : \A j \in DOMAIN fn.blocks[b] :
                         LET i == fn.blocks[b][j] IN
                         \/ Program'[f].blocks[b][j] = Program[f].blocks[b][j]
                         \/ i.op \in Calls /\ UNCHANGED funcs /\ arrays'[i.args] # arrays[i.args]
                    /\ \A h \in Handles(fn) : Program'[f].values[h] = Program[f].values[h]
                    /\ \A name \in Names : Found(Program, name, f) => Found(Program', name, f)
  OBVIOUS
<1>1. f \in DOMAIN funcs' /\ Has(g, fn) OBVIOUS
<1>2. ASSUME NEW b \in DOMAIN fn.blocks, NEW j \in DOMAIN fn.blocks[b], NEW i, i = fn.blocks[b][j]
      PROVE  \/ Program'[f].blocks[b][j] = Program[f].blocks[b][j]
             \/ i.op \in Calls /\ UNCHANGED funcs /\ arrays'[i.args] # arrays[i.args]
  <2>1. Fits(f, i)
    <3> HIDE DEF Fits
    <3> QED BY <1>2, FuncFacts DEF FuncFits
  <2>2. b \in DOMAIN g.blocks /\ j \in DOMAIN g.blocks[b] /\ g.blocks[b][j] = i BY <1>1, <1>2 DEF Has
  <2>3. Program[f].blocks[b][j] = Followed(fn, i) BY <1>2 DEF Program, Built
  <2>4. Program'[f].blocks[b][j] = Followed(g, i)' BY <1>1, <2>2 DEF Program, Built
  <2>5. CASE i.op \in Calls => arrays'[i.args] = arrays[i.args]
    <3>1. Followed(g, i)' = Followed(fn, i) BY <1>1, <2>1, <2>5, FollowedStays
    <3> QED BY <2>3, <2>4, <3>1
  <2> QED BY <2>5
<1>3. \A h \in Handles(fn) : Program'[f].values[h] = Program[f].values[h]
  BY <1>1 DEF Has, Program, Built, Handles
<1>4. \A name \in Names : Found(Program, name, f) => Found(Program', name, f)
  <2>1. ASSUME NEW e \in DOMAIN funcs PROVE Program'[e].name = Program[e].name /\ e \in DOMAIN Program'
    BY <2>1 DEF Program, Built, Has
  <2>2. DOMAIN Program = DOMAIN funcs BY DEF Program
  <2>3. \A e \in 1 .. f - 1 : e \in DOMAIN funcs
    <3>1. funcs \in Seq(RawFunc) BY DEF BuilderInv, BuilderType
    <3>2. Len(funcs) \in Nat /\ DOMAIN funcs = 1 .. Len(funcs)
      <4> HIDE DEF RawFunc
      <4> QED BY <3>1, SeqFacts
    <3> QED BY <3>2
  <2> HIDE DEF Program
  <2> QED BY <2>1, <2>2, <2>3 DEF Found
<1> QED BY <1>2, <1>3, <1>4

\* One function grows, or nothing in it changes but the current block.
LEMMA OneFunctionAdds ==
  ASSUME BuilderInv, NEW f \in DOMAIN funcs, NEW g, Has(g, funcs[f]),
         funcs' = [funcs EXCEPT ![f] = g], UNCHANGED arrays
  PROVE  AddsOnly
<1>1. DOMAIN funcs' = DOMAIN funcs /\ funcs'[f] = g /\ \A e \in DOMAIN funcs : e # f => funcs'[e] = funcs[e]
  OBVIOUS
<1>2. \A e \in DOMAIN funcs : Has(funcs[e], funcs[e]) BY DEF Has
<1>3. \A e \in DOMAIN funcs : e \in DOMAIN funcs' /\ Has(funcs'[e], funcs[e]) BY <1>1, <1>2
<1> QED BY <1>3, GrowthAdds

LEMMA EmitAdds ==
  ASSUME BuilderInv, NEW f \in DOMAIN funcs, NEW i, Emit(f, i)
  PROVE  AddsOnly
<1>1. funcs' = [funcs EXCEPT ![f] = WithInstr(funcs[f], i)] /\ UNCHANGED arrays BY DEF Emit
<1>2. Has(WithInstr(funcs[f], i), funcs[f]) BY FuncFacts, InstrStays
<1> QED BY <1>1, <1>2, OneFunctionAdds

LEMMA EmitValueAdds ==
  ASSUME BuilderInv, NEW f \in DOMAIN funcs, NEW i, NEW t, EmitValue(f, i, t)
  PROVE  AddsOnly
<1>1. funcs' = [funcs EXCEPT ![f] = WithValue(WithInstr(funcs[f], i), t)] /\ UNCHANGED arrays
  BY DEF EmitValue
<1>2. Has(WithValue(WithInstr(funcs[f], i), t), funcs[f]) BY FuncFacts, ValueStays
<1> QED BY <1>1, <1>2, OneFunctionAdds

LEMMA NextAdds == BuilderInv /\ [Next]_vars => [AddsOnly]_vars
<1> SUFFICES ASSUME BuilderInv, Next PROVE AddsOnly
  OBVIOUS
<1>1. ASSUME NEW name \in Names, NEW args \in ArgLists, NEW t \in Types, cow_create_func(name, args, t)
      PROVE  AddsOnly
  <2>1. PICK g : funcs' = Append(funcs, g) /\ UNCHANGED arrays BY <1>1 DEF cow_create_func
  <2>2. funcs \in Seq(RawFunc) BY DEF BuilderInv, BuilderType
  <2>3. \A e \in DOMAIN funcs : e \in DOMAIN funcs' /\ funcs'[e] = funcs[e]
    <3> HIDE DEF RawFunc
    <3> QED BY <2>1, <2>2, AppendKeeps
  <2>4. \A e \in DOMAIN funcs : e \in DOMAIN funcs' /\ Has(funcs'[e], funcs[e]) BY <2>3 DEF Has
  <2> QED BY <2>1, <2>4, GrowthAdds
<1>2. ASSUME NEW f \in DOMAIN funcs, cow_builder_create_block(f) PROVE AddsOnly
  <2> DEFINE fn == funcs[f]  ds == Append(fn.blocks, <<>>)  g == [fn EXCEPT !.blocks = ds]
  <2>1. funcs' = [funcs EXCEPT ![f] = g] /\ UNCHANGED arrays BY <1>2 DEF cow_builder_create_block
  <2>2. fn \in RawFunc /\ fn.blocks \in Seq(Seq(RawInstr)) BY FuncFacts
  <2>3. \A b \in DOMAIN fn.blocks : b \in DOMAIN ds /\ ds[b] = fn.blocks[b]
    <3> HIDE DEF RawInstr
    <3> QED BY <2>2, AppendKeeps
  <2> HIDE DEF ds
  <2>4. g.name = fn.name /\ g.values = fn.values /\ g.blocks = ds
    <3> HIDE DEF RawInstr, Value
    <3> QED BY <2>2 DEF RawFunc
  <2> HIDE DEF g
  <2>5. Has(g, fn) BY <2>3, <2>4 DEF Has
  <2> QED BY <2>1, <2>5, OneFunctionAdds
<1>3. ASSUME NEW f \in DOMAIN funcs, NEW b \in BlockIds(f), cow_builder_set_current_block(f, b) PROVE AddsOnly
  <2> DEFINE fn == funcs[f]  g == [fn EXCEPT !.current_block = b]
  <2>1. funcs' = [funcs EXCEPT ![f] = g] /\ UNCHANGED arrays BY <1>3 DEF cow_builder_set_current_block
  <2>2. fn \in RawFunc BY FuncFacts
  <2>3. g.name = fn.name /\ g.values = fn.values /\ g.blocks = fn.blocks
    <3> HIDE DEF RawInstr, Value
    <3> QED BY <2>2 DEF RawFunc
  <2> HIDE DEF g
  <2>4. Has(g, fn) BY <2>3 DEF Has
  <2> QED BY <2>1, <2>4, OneFunctionAdds
<1>4. ASSUME NEW f \in DOMAIN funcs, BuildPlain(f) PROVE AddsOnly
  BY <1>4, EmitAdds, EmitValueAdds DEF BuildPlain, add_const_instr, cow_builder_br, cow_builder_ret_void
<1>5. ASSUME NEW f \in DOMAIN funcs, NEW v \in ValueIds(f), BuildOn(f, v) PROVE AddsOnly
 
    BY <1>5, EmitAdds, EmitValueAdds DEF BuildOn, cow_builder_not, cow_builder_ret, add_op_instr, cow_builder_load,
       cow_builder_store, cow_builder_cond_br, cow_builder_call_ptr
<1>6. ASSUME NEW f \in DOMAIN funcs, NEW callee \in DOMAIN funcs, NEW a \in Arrays, cow_builder_call_func(f, callee, a)
      PROVE  AddsOnly
  BY <1>6, EmitValueAdds DEF cow_builder_call_func
<1>7. ASSUME NEW f \in DOMAIN funcs, NEW a \in Arrays, NEW n,
             NEW handles, FillArray(a, f, handles)
      PROVE  AddsOnly
  <2>1. UNCHANGED funcs BY <1>7 DEF FillArray
  <2>2. \A e \in DOMAIN funcs : e \in DOMAIN funcs' /\ Has(funcs'[e], funcs[e]) BY <2>1 DEF Has
  <2> QED BY <2>1, <2>2, GrowthAdds
<1> QED BY <1>1, <1>2, <1>3, <1>4, <1>5, <1>6, <1>7 DEF Next

(***************************************************************************)
(* No call of the API changes the meaning of an instruction or the type of *)
(* a value that was built before, or what function a name finds; only the  *)
(* client's writing to an array of call arguments does.                    *)
(***************************************************************************)
THEOREM BuildingAdds == Spec => OnlyAdds
<1>1. BuilderInv /\ [Next]_vars => [AddsOnly]_vars BY NextAdds
<1> QED BY <1>1, BuilderInvariant, PTL DEF Spec, OnlyAdds
=============================================================================
