------------------------------ MODULE MCInterp ------------------------------
(***************************************************************************)
(* The interpreter on small programs.  A word has 5 bits: an i8 is 2 bits  *)
(* of it, an i16 3, an i32 4 (MCSpan), so that every width differs from    *)
(* the others and a bool byte can be neither 0 nor 1.                      *)
(***************************************************************************)
EXTENDS CowInterpRefines, CowReference, CowFib

MCSpan == [i8 |-> 4, i16 |-> 8, i32 |-> 16, i64 |-> 32]
MCJunk == {0, 22}
MCAddr == {2, 3}

Def(name, args, ret, values, blocks) ==
  [name |-> name, args_count |-> args, return_type |-> ret, values |-> values, blocks |-> blocks]

I64s(n) == [k \in 1 .. n |-> "i64"]

\* A call of p's function of that name, with the stack full of the word j.
Start(p, name, values, j) ==
  [prog |-> p, name |-> name, values |-> values, pool |-> [c \in Cells |-> j],
   memory |-> [a \in Addr |-> 9 * a]]
----------------------------------------------------------------------------
(***************************************************************************)
(* Calls.  main(a0) calls g twice, with any two of its values, keeps the   *)
(* first result across the second call and combines both.                  *)
(***************************************************************************)
MainFn(x, y, u, v) ==
  Def("main", 1, "i64", I64s(6),
      <<<<ConstInstr("CONST_I64", 1, 1),
          CallFuncInstr(2, 2, <<x, y>>),
          CallFuncInstr(3, 2, <<u, v>>),
          OpInstr("SUB", 4, 3, 2),
          OpInstr("ADD", 5, 4, 0),
          RetInstr(5)>>>>)

\* g(a0, a1): a0 <= a1 ? a0 : g(a1, a0 - a1), with six values.
EuclidFn ==
  Def("g", 2, "i64", I64s(6),
      <<<<OpInstr("SMALLER_EQ", 2, 0, 1), CondBrInstr(2, 2, 3)>>,
        <<RetInstr(0)>>,
        <<OpInstr("SUB", 3, 0, 1), CallFuncInstr(4, 2, <<1, 3>>),
          OpInstr("ADD", 5, 4, 0), RetInstr(5)>>>>)

\* g(a0, a1) that swaps its arguments into h, and an h that returns nothing.
SwapFn == Def("g", 2, "i64", I64s(6),
              <<<<CallFuncInstr(2, 3, <<1, 0>>), OpInstr("SUB", 3, 2, 0), RetInstr(3)>>>>)
VoidFn == Def("h", 2, "void", I64s(7),
              <<<<OpInstr("MUL", 2, 0, 1), BrInstr(2)>>,
                <<CallPtrInstr(3, 0, <<1>>), RetVoidInstr>>>>)

CallPrograms ==
  {<<MainFn(x, y, u, v), EuclidFn>> : x, y \in 0 .. 1, u, v \in 0 .. 2} \cup
  {<<MainFn(0, 1, u, 0), SwapFn, VoidFn>> : u \in 1 .. 2}

CallStarts ==
  {Start(p, "main", <<a>>, 17) : p \in CallPrograms, a \in {0, 3, 30}} \cup
  {Start(<<MainFn(0, 0, 0, 0), EuclidFn>>, "f", <<4>>, 0)}
----------------------------------------------------------------------------
\* Calls of the function of main_fib; they are what FibCorrect's theorem is about.
FibStarts == {Start(<<FibFn>>, "fib", <<n>>, j) : n \in 0 .. 5, j \in MCJunk}
ASSUME FibAssumption == \A s \in FibStarts : FibStart(s)
----------------------------------------------------------------------------
(***************************************************************************)
(* Straight-line programs over constants of different widths: an operation *)
(* on two of them, then NOT of the result and a sum with it.  The constant *)
(* of a narrow type is its sign-extended const_value, as the builder's     *)
(* cow_builder_const_* functions leave it.                                 *)
(***************************************************************************)
Constants ==
  {<<"CONST_I64", v>> : v \in {0, 7, 16, 31}} \cup
  {<<"CONST_I32", v>> : v \in {7, 31}} \cup
  {<<"CONST_I16", v>> : v \in {28}} \cup {<<"CONST_I8", v>> : v \in {1, 30}}

OpFn(c, d, op) ==
  Def("f", 1, "i64", I64s(6),
      <<<<ConstInstr(c[1], 1, c[2]), ConstInstr(d[1], 2, d[2]),
          OpInstr(op, 3, 1, 2), NotInstr(4, 3), OpInstr("ADD", 5, 3, 0),
          CondBrInstr(3, 2, 3)>>, <<RetInstr(5)>>, <<RetVoidInstr>>>>)

\* A store of a value of one type and a load of another type at its address,
\* whose register keeps the stack's bits that the load does not write.
MemoryFn(addr, c, stored, loaded) ==
  Def("f", 1, "i64", <<"i64", "ptr", stored, loaded, loaded>>,
      <<<<ConstInstr("CONST_PTR", 1, addr), ConstInstr(c[1], 2, c[2]),
          StoreInstr(1, 2), LoadInstr(3, 1, loaded), OpInstr("MUL", 4, 3, 0),
          BrInstr(2)>>, <<RetInstr(4)>>>>)

DataPrograms ==
  {<<OpFn(c, d, op)>> : c, d \in Constants, op \in BinaryOps} \cup
  {<<MemoryFn(a, c, t, u)>> : a \in {2, 9}, c \in {<<"CONST_I64", 13>>, <<"CONST_I8", 30>>},
                              t, u \in DataTypes}

DataStarts == {Start(p, "f", <<27>>, 21) : p \in DataPrograms}

\* They are what the theorem about KnownPartsExact is about.
ASSUME DataAssumption == PoolSize >= 6 => \A s \in DataStarts : StraightLine(s)
----------------------------------------------------------------------------
(***************************************************************************)
(* Recursion without end between f and g, which have v and w values, k of  *)
(* them arguments; and functions that run off their block, call with too   *)
(* few arguments or have more arguments than the pool has registers.       *)
(***************************************************************************)
LoopFn(name, k, v, callee) ==
  Def(name, k, "i64", I64s(v),
      <<<<ConstInstr("CONST_I64", v - 1, 1), CallFuncInstr(v - 1, callee, [j \in 1 .. k |-> v - 1])>>>>)

LimitPrograms ==
  {<<LoopFn("f", k, v, 2), LoopFn("g", k, w, 1)>> : v, w \in 1 .. 5, k \in 0 .. 1} \cup
  {<<LoopFn("f", 0, 2, 2), LoopFn("g", 2, 3, 1)>>,
   <<Def("f", 0, "void", <<>>, <<<<>>>>)>>,
   <<Def("f", 14, "i64", I64s(14), <<<<RetInstr(0)>>>>)>>}

LimitStarts == {Start(p, "f", [k \in 1 .. 14 |-> k], 0) : p \in LimitPrograms}
----------------------------------------------------------------------------
\* A callee with two values, four fewer than main, which calls it twice.
SmallFn == Def("g", 2, "i64", I64s(2), <<<<RetInstr(1)>>>>)

SmallCalleeStarts ==
  {Start(<<MainFn(x, y, u, v), SmallFn>>, "main", <<a>>, 0) :
     x, y, u, v \in 0 .. 1, a \in {5, 8}}
=============================================================================
