------------------------------- MODULE CowFib -------------------------------
(***************************************************************************)
(* main_fib of main.c: the recursive function that it builds, and what the *)
(* interpreter makes of it.                                                *)
(***************************************************************************)
EXTENDS CowInterp

\* fib(n) = n <= 1 ? n : fib(n - 1) + fib(n - 2), in nine values.
FibFn ==
  [name |-> "fib", args_count |-> 1, return_type |-> "i64", values |-> [k \in 1 .. 9 |-> "i64"],
   blocks |->
     <<<<ConstInstr("CONST_I64", 1, 1), OpInstr("SMALLER_EQ", 2, 0, 1), CondBrInstr(2, 2, 3)>>,
       <<RetInstr(0)>>,
       <<OpInstr("SUB", 3, 0, 1), CallFuncInstr(4, 1, <<3>>),
         ConstInstr("CONST_I64", 5, 2), OpInstr("SUB", 6, 0, 5), CallFuncInstr(7, 1, <<6>>),
         OpInstr("ADD", 8, 4, 7), RetInstr(8)>>>>]

Fib[n \in Nat] == IF n <= 1 THEN n ELSE Fib[n - 1] + Fib[n - 2]

\* Neither the argument nor the result is too large for the words.
Fits(n) == 2 * (n + 1) < Span["i64"] /\ Fib[n] < Span["i64"]

\* A call like that of main_fib.
FibStart(s) == s.prog = <<FibFn>> /\ s.name = "fib" /\ Fits(s.values[1])
----------------------------------------------------------------------------
(***************************************************************************)
(* fib(n) of main_fib returns the n-th Fibonacci number whatever the stack *)
(* held, for every n that a start has (the argument stays in cell 0).      *)
(***************************************************************************)
FibCorrect == status = "returned" => frames = <<>> /\ result = Fib[pool[0]]

\* fib(n) returns: the recursion neither loops nor leaves the pool.
FibTerminates == <>(status = "returned")
=============================================================================
