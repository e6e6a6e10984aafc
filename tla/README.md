# CowVM in TLA+

A verification project for CowVM, a small compiler backend in C: a client builds
functions with a builder API; an interpreter runs them, or an x86-64 code generator
turns them into machine code that is copied into executable memory. The modules here are
translated from the code under `src/cowvm`; TLC checks them on small instances and TLAPS
proves the most important properties for all values of the constants.

## The system

| Component | Source | State | Operations | Who uses it |
|---|---|---|---|---|
| Intermediate representation | `lang/*.h` | functions, blocks, instructions, values | none (plain data, linked by pointers) | builder writes, interpreter and generator read |
| Builder API | `lang/builder.c`, `cow.c:45-65` | per function: blocks, current block, values | one call per instruction, create and select blocks | the client |
| Interpreter | `exec/interp.c` | instruction pointer, register window, pool of 5000 registers, 1200 frames | one step per opcode | `cow_interpret`, from the client |
| Array | `misc/data/array.h` | `data`, `size`, `capacity` | add, pop, get, remove, free | modules, builders, blocks, generator |
| Byte writer | `misc/data/byte_writer.c` | `data`, `current_index`, `capacity` | append 1, 4 or 8 bytes, patch 4 bytes | generator, JIT |
| Module and JIT linking | `cow.c`, `lang/function.c` | functions, executable copies, call offsets | create, find, jit (generate, copy, patch calls), free | the client |
| x86-64 generator | `gen/x86_64/gen.c` | register assignment, branch fixups | one emission per opcode | `cow_module_jit` |
| Allocation wrappers | `misc/data/memory.h` | none | malloc, realloc, free, VirtualAlloc | everyone |
| Demonstration | `main.c` | none | `main_fib` interprets, `main` uses the JIT | - |

Everything runs in one thread, without callbacks, signals or persistence. Components
interact by direct calls and by the pointers they keep into one another's memory. What is
hard in this code is therefore not concurrency but

* **the interpreter's register windows**: all activations share one pool, and a window's
  place depends on the sizes of the functions that call one another;
* **long sequences** of calls and returns that must restore block, index and window;
* **fixed limits** (pool, frames) that nothing checks, and heap blocks that grow;
* **the generator's register tables**, which follow the layout of the code and not the order
  in which it runs, and encodings that cannot name every register;
* **partly written registers**: narrow results fill part of an uninitialised 64-bit union;
* **pointers kept**: into the client's argument arrays, into blocks of code that are moved,
  into code that is patched after it was copied.

`PROJECT.json` lists each such hazard at its line, with the properties that cover it.

What makes each component correct:

* IR and builder: what is built from the builder's own handles can be indexed by the
  interpreter (`BuildsWellFormed`), values have one definition and one id
  (`OneDefinition`), building changes nothing built before (`OnlyAdds`);
* interpreter: a call's activation is private (`ImplementsActivations`), the arithmetic is
  exact on the bits it determines (`KnownPartsExact`), the limits suffice when the sizes
  say so (`NeverLeavesPool`);
* array and byte writer: no access leaves the heap block; contents survive growth, removal
  and patching;
* byte encodings: what is written decodes to the instruction meant (`BytesMeanCalls`);
* generator: branches and direct calls lead where they are meant to (`CodeLinked`,
  `ControlAgrees`), a value is where the table says
  (`RegistersHoldValues`, `UsedValuesHeld`), arguments arrive (`ArgumentsArrive`), memory and
  result are the interpreter's (`MemoryAgrees`, `ResultsAgree`), and of the callee-saved
  registers the C caller loses only those that were given to values (`OthersKept`);
* JIT and modules: every copy calls the right functions' copies of its time (`CallsLinked`);
  frees in any order leave nothing in use dangling (`NeverDangling`).

## Modules

| Module | Models | Correspondence |
|---|---|---|
| `CowIR` | the IR | a pointer to a function or block is its index, a `CowValue` its id; the union in `CowInstr` is a record with one field per use |
| `CowEval` | what instructions compute | a `CowInterpValue` is a word, its narrow members the low bits; widths are given by `Span`, so that a small model keeps i8, i16, i32 and i64 distinct |
| `CowInterp` | `cow_interpret`, `eval_func` | one action per group of opcodes with one shape; `registers` is the pool index of the window, `frames` the call frames, `memory` what pointers point to |
| `CowActivations` | abstract: a stack of activations with private values | - |
| `CowInterpRefines` | the refinement mapping from `CowInterp` | an activation's values are the pool cells of its window |
| `CowReference` | abstract: the meaning of straight-line code, with the part of each value that does not depend on uninitialised memory | - |
| `CowFib` | `main_fib`'s function, its call and its result | - |
| `CowBuilder` | the builder calls, `cow_create_func`, the client's argument arrays | handles are places in `builder.values`; `Program` follows the pointers to the IR of `CowIR` |
| `CowArray`, `CowList` | the array, and abstractly a list | the heap block is a function on its slots; growth leaves garbage in new slots |
| `CowByteWriter` | the byte writer and the copy into executable memory | a byte is a pair: which value, which of its bytes |
| `CowX86Encoding` | the `write_*` functions of `gen.c` | one operator each, yielding the bytes; a byte is as in `CowByteWriter` |
| `CowX86Gen` | the rest of `gen.c` | the register tables are sequences of value ids in the order of `allocate_init`; one action per case of `jit_instr`, one for the start of a block, one per branch filled in; the history variable `placed` keeps where each instruction was emitted and with which tables |
| `CowX86Machine` | external: the processor and the Windows calling convention | decodes the bytes and executes the instructions; what is no instruction, and a wild jump or access, stops it |
| `CowX86Meaning` | a client of the `write_*` functions | one action per shape of call (two registers, one, none) while there are calls to make, then `Read` takes one instruction at a time; `meant` is what the calls ask for (by the names in `gen.c`; which packed operation on xmm registers, addpd or subps, the names do not say, and the opcode byte decides; operand widths are left out), `seen` what was read, `Encodable` the operands that can be encoded |
| `CowBackends` | `cow_module_jit` for one module, then both back ends in lockstep | composes `CowInterp` (extended), `CowX86Gen` and `CowX86Machine` (instances); `known` is what the two can be relied on to agree on |
| `CowJit` | `cow.c`, `function.c`, `cow_builder_free` | code is its `CALL_FUNC`s; `exec` keeps every executable copy ever made; `heap` the objects allocated |
| `MCInterp`, `MCBuilder`, `MCBackends`, `MCEncoding`, `MCJit` | programs and bounds for TLC | - |
| `CowInterpProofs`, `CowReferenceProofs` (of `CowReference` and `CowFib`), `CowBackendsProofs`, `CowX86MeaningProofs`, `CowArrayProofs`, `CowByteWriterProofs`, `CowBuilderProofs`, `CowJitProofs` | proofs | - |

`CowBuilder` and `CowInterp` meet in `CowIR!WellFormed`: `BuiltWellFormed` proves that
the builder produces it, and the interpreter's theorems assume it of their programs.

`CowX86Gen` compiles from the same `CowIR` that `CowInterp` runs. The two back ends differ on
purpose and by accident: machine code adds 32 bits, moves 64 bits to and from memory
whatever the type, tests 64 bits of a condition, has no code for thirteen
opcodes (SUB, MUL, DIV, IDIV, the six comparisons, NOT, CONST_I16, CONST_I8), passes no
arguments to functions of the module, and overwrites the left operand of an add.
`CowBackends` therefore compares only what is `known` of a value: the low bits that both
must compute alike, none for a value that the tables do not hold. A value is known only while
no other instruction writes its register: the register of a constant, a load or a sum was
chosen when the code was emitted, and an add emitted later may have taken it over, so that in a
loop the constant, executed again, overwrites the sum. `IntsIn` and `XmmsIn` are the values that
any table of the function, earlier or later in the code, puts into a register; a write to it
(`Learn`) leaves nothing known of them but of the instruction's own value. `comparable` ends the
comparison where nothing can be said: at a register that the encoding cannot name, at
floating-point arithmetic, at an address or a condition that is not known. What is known is
therefore weaker than what the interpreter has wherever the code makes it so; a program that
uses a value that was overwritten is not one on which the back ends are said to agree.

Memory is a set of words that do not overlap. Machine code stores 64 bits whatever the type,
and in the C program that overwrites what lies next to a narrower value; here it does not.

A second JIT of a module (`CowJit`) appends all code again. `CowX86Gen` models the first;
the code appended later is behind a return and never reached.

Where the C program would leave an array, fault or trap, the model of the interpreter stops
with a status that says why (`pool_overflow`, `frame_overflow`, `bad_access`, `trap`); it
claims nothing of what the C program does afterwards. A read of an uninitialised register
part is any of the words `Junk`; a bool byte that is neither 0 nor 1 may count as either; a
`RET_VOID` in a called function, whose `gen_value` was never set, returns any word or stops.

Definitions introduced by `Mutant:` are not part of the models. Each is a plausible error of
the definition that follows it, and at least one property fails when it takes its place.

## Runs

| Run | Checks | What it shows | Bounds |
|---|---|---|---|
| `calls` | `TypeOK`, `WindowsOrdered`, `SuspendedWindowsUntouched`, `ImplementsActivations` | in window-safe programs the overlapping windows implement private activations | 38 programs of two or three functions, recursion to depth 3, every pair of argument registers; no program of the run needs a fourth frame |
| `fib` | `FibCorrect`, `FibTerminates` | the demonstration program is right and returns | n from 0 to 5, two contents of the stack |
| `data` | `KnownPartsExact` | constants, operations, loads and stores agree with the reference on every bit that they determine | all pairs of 9 constants for all 11 binary operations, all pairs of stored and loaded type; 5-bit words with 2-bit i8 |
| `limits` | `NeverLeavesPool` | the pool is left only when the sizes allow it | endless mutual recursion of functions with 1 to 5 values, 12 registers, 3 frames |
| `small_callee` | `ValuesSurviveCalls` (violated) | a callee with fewer values than its caller overwrites the caller's values | - |
| `array` | `ArrayOK`, `ImplementsList` | the array is a list and stays in its block | 7 elements: three growths (2, 6, 14 slots) |
| `byte_writer` | `WriterOK`, `ItemsIntact`, `ItemsApart`, `StaysInHeap`, `ExecComplete` | code stays in place over growths and patches, and is copied whole | 10 bytes: writes of 1, 4 and 8 bytes on both sides of a growth |
| `builder` | `BuildsWellFormed`, `OneDefinition`, `OnlyAdds` | as above, for every sequence of calls | 2 functions, 3 blocks, 2 instructions, one argument array |
| `backends` | `ControlAgrees`, `CodeLinked`, `RegistersHoldValues`, `MemoryAgrees`, `ResultsAgree`, `UsedValuesHeld`, `ArgumentsArrive`, `OthersKept` | machine code and interpreter agree wherever the tables and encodings allow it | 1407 starts: up to 15 constants (14 slots), all sums of two arguments, a constant and a sum, all branchings of three blocks, all pairs of stored and loaded type, decimals, 31 argument lists of up to five arguments, direct calls, loops that are left after one turn and loops without end in which a sum has taken over the register of the argument, the pointer, a constant, a loaded word; a piece of code runs at most 24 instructions |
| `encoding` | `BytesMeanCalls` | which operands each write function encodes, and that its bytes do not run into the next: the reader goes on where it believes an instruction to end | every function with all 16 registers (or pairs), followed by every other one with register 9 |
| `jit` | `CallsLinked`, `NeverDangling` | linking and freeing over repeated JITs | 2 modules, 3 functions, one call each, 3 JITs; functions and modules are symmetric |
| `jit_clear` | `ClearsEverything` (violated) | freeing a module leaves objects behind | - |

The bounds are small because the hazards are about neighbours: two windows, the caller's and
the callee's, or a third below them; one growth of a block; one comparison after one narrow
constant. In the loops of `backends` two passes over the head are enough for an instruction to
be executed after another has taken over its register. `calls` and `fib` also start from a pool
full of junk, so that a read of a register that was not written would show. `builder` needs two instructions for the one thing that two
can do to each other: share a block, a value, an id or an argument array. `jit` needs a third
JIT so that a module can be compiled before and after the one it calls; one call in each
function is enough since a function called in two places is linked by two independent entries.
`encoding` needs a second call only for the bytes that a first one leaves unfinished.

**The violated run.** `interp.c:261` moves the window by the *callee's* number of values. If
the callee has fewer values than its caller, its window begins inside the caller's and the
arguments already overwrite the caller's values. `WindowSafe` names the programs in which no
call does this; all theorems about calls assume it, and the run `small_callee` shows that it
is needed. Recursive functions such as fib call a function of their own size and are safe.

**The other violated run.** `readme.md:44` says that `cow_module_free` clears everything from
memory. It leaves the module and its functions, the instruction arrays, the code and the
executable copies. `NeverDangling` shows the one good this does: functions of other modules
keep the address of the `_CowFunc`s they call, and later JITs read them.

**Fairness.** Only `fib` uses any: weak fairness of `Next`. `eval_func` is a sequential loop
that nothing suspends, so it always takes its next step.

**Deadlock** is checked everywhere but in `jit` and `jit_clear`, where nothing is left to do
once all functions are built, all JITs used and the modules freed. `Stopped` is the
interpreter's end, `End` and `Done` are those of `CowBackends` and `CowX86Meaning`; the
other components can always be called again.

## Proofs

For all programs, words, pools and numbers of frames (`CowInterpProofs`):

* `TypeCorrect`: `Spec => []TypeOK`. `TypeOK` is inductive: `WellFormed(prog)` bounds every
  id, block and callee, and a saved frame keeps a block and a `gen_value` of a call that was
  executed. The module's first lemmas show that every operation yields a word.
* `WindowsStayOrdered`: `Spec => []WindowsOrdered`. The ordering is inductive with `TypeOK`:
  a call in a window-safe program moves the window by at least its own size, and a return goes
  back to a window below which all others already lay.
* `SuspendedWindowsSafe`: `Spec => SuspendedWindowsUntouched`. A step writes at most into the
  running window, the new one or the resumed caller's; by the ordering none of these meets a
  window that stays suspended.
* `PoolLargeEnough`: `Spec => []NeverLeavesPool`. The strengthening `PoolInv` bounds every
  base by the largest number of values times the depth of the stack; with at most `MaxFrames`
  frames, every register touched is then in the pool. This holds of unsafe programs too.
* `CallsAreActivations`: `Spec /\ WindowSafe(prog) => ImplementsActivations`. Every instruction is a step of
  `CowActivations` or a stutter; the suspended activations stay what they are by
  `SuspendedWindowsSafe`. Two facts more are needed. A saved frame is at the `CALL_FUNC` that
  pushed it (`FramesAtCalls`), so a return writes the `gen_value` of that call. And the loop
  that copies the arguments never reads one it has copied (`ArgsArrive`): in a window-safe
  program every source lies below the callee's window.

For all straight-line functions (`CowReferenceProofs`):

* `KnownPartsAreExact`: if `StraightLine(s)` for every start, `Spec => []KnownPartsExact`.
  `StraightLine` says what the reference is about: a first block without calls that is not
  entered again, whose function fits into the pool, and that accesses memory only through
  addresses known in full. The inductive invariant compares, while control is in the first
  block, every register and every word of memory with the reference's state before the next
  instruction. The rest is arithmetic: the low bits of a sum, a difference and a product
  depend only on the low bits of the operands (`ArithAgrees`), a quotient, a comparison and
  NOT on all of them (`BinaryAgrees`, `NotAgrees`), a load and a store keep the bits beyond
  their type (`LoadAgrees`, `StoreAgrees`). That the reference's state exists for every block is shown by minimal counterexample, as a
  recursive function has no value in TLA+ until one is exhibited. `DataAssumption` has TLC
  confirm that the programs of the run `data` are straight-line.

For the function of `main_fib` (`CowReferenceProofs` too):

* `FibIsComputed`: if every start calls fib with an n whose Fibonacci number is a word
  (`FibStart`; the 32 of `main.c` is one), `Spec => []FibCorrect`, whatever the pool held and
  however large it is. The inductive invariant `FibInv` says for each of the eleven places in
  the code what the running activation has computed (`Progress`) and, for each saved frame,
  which of the two calls it waits in, that its argument and the first call's result are in its
  window, and that the next window begins with n - 1 or n - 2 (`FrameOK`). There is one lemma
  per instruction. `FibAssumption` has TLC confirm that the run `fib` starts like this.

For the back ends (`CowBackendsProofs`), of any modules:

* `EveryUsedValueHasARegister`: `SpecBoth => []UsedValuesHeld`. The invariant `GenInv` counts:
  before instruction k of a function that is `Compilable` the table holds every value that was
  generated and not overwritten, and not more values than arguments and slot-taking
  instructions so far, so a slot is free when one is needed. `Held` records the same for what
  was emitted, and `Places` and `Placement` that what was emitted is what the place says.
* `CodeIsLinked`: `SpecBoth => []CodeLinked`. The code of a branch or a direct call is written
  before the number in it is known. The theorem says that when `cow_module_jit` is done, all
  these numbers are there: every branch of every function has the displacement to the offset at
  which its block begins, and every direct call its callee's address. `FieldsOf` are the places
  left open by what was emitted so far. The invariant `LinkInv` says of every function that its
  fields lie within its code and apart from one another (`Laid`), that its list of calls names
  exactly those of eight bytes (`Recorded`), and that each block begins where `code_offset` says
  (`Begun`); of the function that is being emitted, that its list of branches names only its
  fields (`Waiting`) and that each field of four bytes is in the list or, once all blocks are
  emitted, already filled in (`Open`); and of the functions before it, that all are
  (`AllFilled`). Filling in a number keeps the others only because they are apart. `LinkInv`
  rests on `GenInv`, which says which instruction is emitted next. The patch pass is a
  recursive function of the calls patched so far; that it exists and what it has done after
  each call is shown by least counterexample. Nothing is assumed of addresses and registers.
  `LinkInv` says that lists are sequences of anything, which TLC cannot enumerate; it checks
  the property only.

For the byte encodings (`CowX86MeaningProofs`), of any number of calls with any registers:

* `BytesReadBack`: `Spec => []BytesMeanCalls`, in both directions. What can be encoded is read
  back as it was meant, whatever stands before and after it; and if only one call cannot be
  encoded, what is read is not what was meant, whatever the others are: no later call repairs it.
  The lemmas go from the bytes up. A prefix, a ModR/M byte and an opcode are decoded alike
  wherever they stand. `ReadsAs(text, n, i, m)` says that in every code that contains `text`, the
  bytes from n to m are read as i, and `Misread` that they never are. Only the byte 24 (hex) may not
  follow the text, since it would complete an address through rsp; no function's bytes begin
  with it. Both facts survive bytes before and after. There is then one lemma per function: `Written(bytes, call)`, its bytes are the
  instructions it is for or, if the operands cannot be encoded, contain one that is misread.
  The inductive invariant `Inv` has offsets s at which the instructions meant begin: the whole
  code if all calls can be encoded (`Whole`), otherwise up to the first that is misread
  (`Broken`). Reading follows s (`Followed`) until it has read something else. `BytesMeanCalls`
  itself says nothing before the end, so it is not inductive. `Inv` speaks of all codes that
  contain this one, which TLC cannot enumerate; it checks the property only. The assumption is
  `OperandsAssumption`: the operands are register numbers.

For all elements and sizes (`CowArrayProofs`): `ArrayStaysOK` and `ArrayIsList`, the
refinement of `CowList` with a lemma per operation. For all values and lengths
(`CowByteWriterProofs`): `WriterStaysOK`, `ItemsStayIntact`, `ItemsStayApart`,
`WriterStaysInHeap` and `ExecHoldsAll`, from the invariant that the writer is well-formed,
items hold and are apart: patching one item keeps the others only because they do not share
bytes.

For all clients of the builder (`CowBuilderProofs`): `BuiltWellFormed`, `DefinedOnce` and
`BuildingAdds`, from `BuilderInv`. `FuncFits` says that the handles, blocks and callees of
an instruction exist in its own function and that a value's id is its place; `ArrayFits`
that a filled argument array holds values of its function; `Once` that each value which is
no argument is generated at exactly one place. `BuildsWellFormed` alone is not inductive:
it sees the argument arrays only through the calls that use them, and a later write to an
array changes those calls.

For all modules, functions, calls and numbers of JITs (`CowJitProofs`):

* `LinksStayRight`: `Spec => []CallsLinked`, from `JitInv`. `Sites` says
  that the offsets recorded for a function are those of the calls in its code, `Copies`
  that `generated_func` is the function's last copy, and `Passes` that the copies the running
  JIT has made are those of the functions before `next`. `Distinct` says that
  no function is in a module twice. A call is patched with the callee's last copy, which is right only
  because all functions of the module were copied before the first call is patched.
* `NeverDangles`: `Spec => []NeverDangling`, from `HeapInv`. `Owners` says
  that a function belongs to one module and that the module exists, `Parts` that nothing of
  a function is freed before its module, and the function itself never, `Callees` that the
  functions called exist, and `Copied` that the code a pass reads is still there.

The assumptions are those of the modules: the widths divide the word (`SpanAssumption`) and,
for the reference, one another (`ChainAssumption`), the junk and the addresses are words, and every start is a
well-formed program with enough arguments for the function called (`StartsAssumption`).
That cow_interpret is given enough arguments is up to its caller, as in the code.

Only model-checked:

* `FibTerminates`: liveness under fairness;
* `ControlAgrees`, `RegistersHoldValues`, `MemoryAgrees`, `ResultsAgree`, `OthersKept` and
  `ArgumentsArrive`: they are about the processor, which decodes the bytes of every piece of
  code and executes them in a fold. What the bytes decode to is proved (`BytesReadBack`), and so
  is what they need of the register tables (`EveryUsedValueHasARegister`) and of linking
  (`CodeIsLinked`). Missing is the step from there to execution: opcode by opcode, what the fold
  makes of each piece. The library's induction theorems cannot be
  instantiated for a fold, so each of these would be a least-counterexample argument of its own.

## Not modelled

Every component that has state is modelled. Left out are

* the results of a failing allocation: `memory.h` wraps malloc, realloc and VirtualAlloc in
  one line each, and no caller checks what they return;
* timing and printing in `main.c` and `interp.c`;
* floating-point execution: the interpreter moves the bits of constants only, and has no
  floating-point arithmetic; the generator's floating-point instructions are encoded and
  decoded (`CowX86Encoding`, `CowX86Meaning`), and `CowBackends` stops comparing there;
* the alignment of the C caller's stack, which no modelled instruction depends on;
* the code of a second JIT in `CowX86Gen`: it lies behind the returns of the first JIT's and is
  never reached; how it is linked is `CowJit`'s subject;
* `byte_writer_free`, which nothing calls.
