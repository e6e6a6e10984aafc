----------------------------- MODULE MCBackends -----------------------------
(***************************************************************************)
(* Both back ends on small modules, with the words of MCInterp: 5 bits, of *)
(* which an i32 has 4 and a bool byte 2.                                   *)
(***************************************************************************)
EXTENDS CowBackends, MCInterp

MCCodeAddr == <<20, 21>>
MCExtern   == {25}
MCClobber  == 11

C64(id, v) == ConstInstr("CONST_I64", id, v)
CPtr(id, v) == ConstInstr("CONST_PTR", id, v)
Add(id, l, r) == OpInstr("ADD", id, l, r)

\* A function of n i64 arguments whose one block is body, with v values in all.
Body(n, v, body) == Def("f", n, "i64", I64s(v), <<body>>)
On(programs, values) == {Start(p, "f", values, 13) : p \in programs}
----------------------------------------------------------------------------
\* n constants, as many as there are slots and more, and the sum of any two of
\* the first two and the last.
ManyConstants ==
  {<<Body(0, n + 1, [k \in 1 .. n |-> C64(k - 1, k + 7)] \o <<Add(n, x, y), RetInstr(r)>>)>> :
     n \in {2, 5, 6}, x, y \in 0 .. 1, r \in {0, 1, 2}} \cup
  {<<Body(0, n + 1, [k \in 1 .. n |-> C64(k - 1, k + 7)] \o <<Add(n, x, y), RetInstr(r)>>)>> :
     n \in 13 .. 15, x, y \in {0, 1, 12}, r \in {1, 12, 13}}

\* Sums of any two of two arguments, a constant and an earlier sum, then of
\* any two of all; the result is any of them.
Sums ==
  {<<Body(2, 5, <<C64(2, 3), Add(3, u, v), Add(4, x, y), RetInstr(r)>>)>> :
     u, v \in 0 .. 2, x, y \in 0 .. 3, r \in {0, 3, 4}}

\* Every argument of four is returned, or added to another.
Arguments ==
  {<<Body(4, 5, <<Add(4, x, y), RetInstr(r)>>)>> : x, y \in 0 .. 3, r \in {1, 3, 4}}

\* Three blocks that branch to each other in all ways; the second adds to a
\* value that the third may use, and is emitted before it even if never run.
Branches ==
  {<<Def("f", 2, "i64", I64s(5),
         <<<<C64(2, 5), CondBrInstr(0, y, n)>>,
           <<Add(3, 2, 1), BrInstr(t)>>,
           <<Add(4, 1, r), RetInstr(4)>>>>)>> :
     y, n \in 2 .. 3, t \in 1 .. 3, r \in 2 .. 3}

\* main_fib's shape without the calls: the layout is not the order of control.
Backwards ==
  {<<Def("f", 1, "void", I64s(1),
         <<<<BrInstr(3)>>, <<RetVoidInstr>>, <<CondBrInstr(0, y, 2)>>>>)>> : y \in 1 .. 3}

\* A value of one type is stored, and loaded as another.
Memory ==
  {<<Def("f", 1, "i64", <<"i64", "ptr", stored, loaded, "i64">>,
         <<<<CPtr(1, a), c, StoreInstr(1, 2), LoadInstr(3, 1, loaded), Add(4, 0, 3), RetInstr(r)>>>>)>> :
     a \in {2, 9}, c \in {C64(2, 29), ConstInstr("CONST_I32", 2, 29), Add(2, 0, 0)},
     stored, loaded \in {"i64", "i32", "i8", "void"}, r \in {3, 4}}

\* Decimals: the arguments, a constant, their sum, and what is returned.
Decimals ==
  {<<Def("f", 2, ret, <<t, u, "f64", v, "i64">>,
         <<<<C64(2, 6), Add(3, x, 2), C64(4, 7), RetInstr(r)>>>>)>> :
     t, u \in {"i64", "f64"}, v \in {"i64", "f64"}, ret \in {"i64", "f32"}, x \in 0 .. 1, r \in {1, 2, 4}} \cup
  {<<Def("f", 0, "f64", <<"f64">>, <<<<C64(0, n), RetInstr(0)>>>>)>> : n \in {0, 21}}

\* The opcodes that the generator has no case for, and the typed constants.
Unsupported ==
  {<<Body(2, 4, <<OpInstr(op, 2, 0, 1), Add(3, 0, 1), RetInstr(r)>>)>> :
     op \in BinaryOps \ {"ADD"}, r \in 2 .. 3} \cup
  {<<Body(2, 4, <<i, Add(3, 0, 1), RetInstr(r)>>)>> :
     i \in {NotInstr(2, 0), ConstInstr("CONST_I8", 2, 31), ConstInstr("CONST_I16", 2, 30),
            ConstInstr("CONST_I32", 2, 14)}, r \in 2 .. 3}

\* readme.md's example: an i64 constant returned from a function of i32.
ReadmeExample == {<<Def("f", 0, "i32", <<"i64">>, <<<<C64(0, 3), RetInstr(0)>>>>)>>}

\* The function that main compiles.
MainExample ==
  {<<Def("my_func", 1, "f32", <<"i64", "f32", "f32", "f32", "f32", "f32">>,
         <<<<ConstInstr("CONST_I32", 1, 4), ConstInstr("CONST_I32", 2, 2), ConstInstr("CONST_I32", 3, 10),
             Add(4, 1, 2), Add(5, 4, 3), RetInstr(5)>>>>)>>}
----------------------------------------------------------------------------
\* A call through a pointer, of a function outside or of a data address, with
\* any arguments; some value is returned afterwards.
ArgLists == {<<>>, <<3>>, <<4>>} \cup {<<x, y>> : x, y \in {0, 1, 3, 4}} \cup
            {<<0, x, y>> : x, y \in {1, 3, 4}} \cup {<<0, 1, 4, 0>>, <<0, 1, 4, 0, 1>>}
PointerCalls ==
  {<<Def("f", 2, "i64", <<"i64", "i64", "ptr", t, "i64", "i64">>,
         <<<<CPtr(2, 25), C64(3, 4), C64(4, 6), CallPtrInstr(5, 2, args), RetInstr(r)>>>>)>> :
     t \in {"i64", "f64"}, args \in ArgLists, r \in {0, 4, 5}} \cup
  {<<Def("f", 0, "i64", <<"ptr", "i64">>, <<<<CPtr(0, a), CallPtrInstr(1, 0, <<>>), RetInstr(1)>>>>)>> :
     a \in {2, 25}} \cup
  {<<Def("f", 0, "i64", <<"i64", "ptr", "i64">>,
         <<<<C64(0, 4), CPtr(1, 25), CallPtrInstr(2, 1, <<0>>), RetInstr(r)>>>>)>> : r \in {0, 2}}

\* A call of the other function or of itself, before and after sums.
DirectCalls ==
  {<<Def("f", 1, "i64", I64s(4), <<<<C64(1, 4), CallFuncInstr(2, c, <<0>>), Add(3, 2, x), RetInstr(r)>>>>),
     Def("g", 1, ret, I64s(4), <<<<C64(1, 9), Add(2, 1, y), RetInstr(q)>>>>)>> :
     c \in 1 .. 2, x \in 0 .. 1, r \in {0, 3}, ret \in {"i64", "f64"}, y \in 0 .. 1, q \in {1, 2}} \cup
  {<<Def("f", 0, "void", I64s(2), <<<<CallFuncInstr(0, 2, <<>>), RetVoidInstr>>>>),
     Def("g", 0, "i64", I64s(2), <<<<C64(0, 9), CallFuncInstr(1, 2, <<>>), RetInstr(1)>>>>)>>}

\* Loops that run while what p points to is not 0; the argument is stored there
\* first.  The head makes a constant and loads the condition, so that both are
\* written again when a sum in the body has taken over the register of one of
\* them, of p or of the argument.  Stored in the body, the constant 0 ends the
\* loop and the constant 1 does not; the sum or the argument is returned.
WhileFn(c, body, r) ==
  Def("f", 1, "i64", <<"i64", "ptr", "i64", "i64", "i64">>,
      <<<<CPtr(1, 2), StoreInstr(1, 0), BrInstr(2)>>,
        <<C64(2, c), LoadInstr(3, 1, "i64"), CondBrInstr(3, 3, 4)>>,
        body \o <<BrInstr(2)>>,
        <<RetInstr(r)>>>>)

\* The same with the body emitted before the head, where the constant is made.
BodyFirstFn(c, x, r) ==
  Def("f", 1, "i64", <<"i64", "ptr", "i64", "i64", "i64">>,
      <<<<CPtr(1, 2), StoreInstr(1, 0), BrInstr(3)>>,
        <<C64(2, c), StoreInstr(1, 2), Add(4, x, 0), BrInstr(3)>>,
        <<LoadInstr(3, 1, "i64"), CondBrInstr(3, 2, 4)>>,
        <<RetInstr(r)>>>>)

\* A loop that calls a function outside, which destroys registers that the code
\* gives to the sum only further on; the argument 0 ends the loop.
CallingFn(x, r) ==
  Def("f", 1, "i64", <<"i64", "i64", "ptr", "ptr", "i64", "i64", "i64">>,
      <<<<C64(1, 1), CPtr(2, 2), CPtr(3, 25), StoreInstr(2, 1), BrInstr(2)>>,
        <<CallPtrInstr(4, 3, <<0>>), LoadInstr(5, 2, "i64"), CondBrInstr(5, 3, 4)>>,
        <<StoreInstr(2, 0), Add(6, x, 0), BrInstr(2)>>,
        <<RetInstr(r)>>>>)
CallLoops == {<<CallingFn(x, r)>> : x \in {0, 1, 3, 5}, r \in {0, 6}}

Loops ==
  {<<WhileFn(c, <<StoreInstr(1, 2), Add(4, x, y)>>, r)>> :
     c \in 0 .. 1, x \in 0 .. 3, y \in {0, 2, 3}, r \in {0, 4}} \cup
  {<<WhileFn(0, <<Add(4, x, 0), StoreInstr(1, v)>>, r)>> :
     x \in {0, 2, 3}, v \in {2, 4}, r \in {0, 4}} \cup
  {<<BodyFirstFn(c, x, r)>> : c \in 0 .. 1, x \in 0 .. 3, r \in {0, 4}}

BackendStarts ==
  On(ManyConstants, <<>>) \cup On(Sums, <<1, 30>>) \cup On(Arguments, <<1, 30, 9, 14>>) \cup
  (UNION {On(Branches, <<a, 30>>) \cup On(Backwards, <<a>>) : a \in {0, 1, 4}}) \cup
  On(Memory, <<21>>) \cup On(Decimals, <<18, 30>>) \cup On(Unsupported, <<21, 4>>) \cup
  On(ReadmeExample, <<>>) \cup {Start(p, "my_func", <<5>>, 13) : p \in MainExample} \cup On(PointerCalls, <<17, 30>>) \cup On(DirectCalls, <<7>>) \cup
  On(Loops, <<0>>) \cup On(Loops, <<1>>) \cup On(CallLoops, <<0>>)
=============================================================================
