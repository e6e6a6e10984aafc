------------------------------- MODULE CowJit -------------------------------
(***************************************************************************)
(* Modules from cow_module_create to cow_module_free: the functions they   *)
(* get, the calls built between them, cow_module_jit with its passes, and  *)
(* the heap.                                                               *)
(*                                                                         *)
(* Of the code of a function only its calls of functions (CALL_FUNC) are   *)
(* kept: an offset is the place, from 1, of such a call, and the eight     *)
(* bytes there are the address called, a number of exec or 0.  Every JIT   *)
(* of a module appends to its functions' code, and copies all of it to new *)
(* executable memory.                                                      *)
(***************************************************************************)
EXTENDS Integers, Sequences

CONSTANTS
  Modules, Funcs,     \* the addresses of the _CowModules and _CowFuncs
  MaxInstrs, MaxJits  \* bounds on the calls built and on the JITs

ASSUME JitAssumption == MaxInstrs \in Nat /\ MaxJits \in Nat

VARIABLES
  funcs,               \* module->funcs
  instrs,              \* per function, the functions that its CALL_FUNCs call
  code,                \* jit_func.code: the functions called at its offsets
  direct_call_offset,  \* jit_func.direct_call_offset
  exec,                \* the executable memory allocated: copies of code
  generated_func,      \* jit_func.generated_func: a number of exec, 0 is NULL
  jitting,             \* the pass that cow_module_jit is in
  jits,                \* how many cow_module_jit were begun
  heap,                \* the objects allocated and not freed
  freed,               \* the modules freed
  dangling             \* a freed object was read or freed

program == <<funcs, instrs>>
linked  == <<code, direct_call_offset, exec, generated_func, jits>>
vars    == <<program, linked, jitting, heap, freed, dangling>>

\* The heap objects; data is the block of an Array or of a ByteWriter.
Of(kind, owner)       == <<kind, owner, 0>>
Nth(kind, owner, k)   == <<kind, owner, k>>
All(kind, owner, seq) == {Nth(kind, owner, k) : k \in DOMAIN seq}
Exec(c)               == <<"exec", c, 0>>

Idle     == [pass |-> "idle"]
IsIdle   == jitting.pass = "idle"
Created  == {m \in Modules : Of("module", m) \in heap}
Alive    == Created \ freed
In(m)    == {funcs[m][k] : k \in DOMAIN funcs[m]}
Unused   == {f \in Funcs : \A m \in Modules : f \notin In(m)}
Known    == UNION {In(m) : m \in Alive}

Allocate(objects) == heap' = heap \cup objects
Use(objects)      == dangling' = (dangling \/ ~(objects \subseteq heap))

Init ==
  /\ funcs = [m \in Modules |-> <<>>] /\ instrs = [f \in Funcs |-> <<>>]
  /\ code = [f \in Funcs |-> <<>>] /\ direct_call_offset = [f \in Funcs |-> <<>>]
  /\ exec = <<>> /\ generated_func = [f \in Funcs |-> 0]
  /\ jitting = Idle /\ jits = 0
  /\ heap = {} /\ freed = {} /\ dangling = FALSE
----------------------------------------------------------------------------
cow_module_create(m) ==
  /\ IsIdle /\ m \notin Created
  /\ Allocate({Of("module", m)})
  /\ UNCHANGED <<program, linked, jitting, freed, dangling>>

\* A function without arguments, its first block and the arrays that hold them.
cow_create_func(m, f) ==
  /\ IsIdle /\ m \in Alive /\ f \in Unused
  /\ funcs' = [funcs EXCEPT ![m] = Append(@, f)]
  /\ Use({Of("module", m)})
  /\ Allocate({Of("func", f), Of("args", f), Of("funcs.data", m), Of("block", f), Of("blocks.data", f)})
  /\ UNCHANGED <<instrs, linked, jitting, freed>>

\* The callee may be of another module.
cow_builder_call_func(f, callee) ==
  /\ IsIdle /\ Len(instrs[f]) < MaxInstrs
  /\ instrs' = [instrs EXCEPT ![f] = Append(@, callee)]
  /\ Use({Of("func", f), Of("block", f), Of("func", callee)})
  /\ LET n == Len(instrs[f]) + 1 IN
       Allocate({Nth("instr", f, n), Nth("value", f, n), Of("instructions.data", f), Of("values.data", f)})
  /\ UNCHANGED <<funcs, linked, jitting, freed>>
----------------------------------------------------------------------------
\* Mutant: the recorded calls start afresh, while the code is appended to.
OffsetsAfresh(f) ==
  [k \in 1 .. Len(instrs[f]) |-> [offset |-> Len(code[f]) + k, func |-> instrs[f][k]]]
OffsetsAfter(f) ==
  direct_call_offset[f] \o
  [k \in 1 .. Len(instrs[f]) |-> [offset |-> Len(code[f]) + k, func |-> instrs[f][k]]]

\* cow_x86_64_jit.
Generate(m) ==
  /\ IsIdle /\ m \in Alive /\ jits < MaxJits
  /\ jits' = jits + 1
  /\ code' = [f \in Funcs |-> IF f \in In(m) THEN code[f] \o instrs[f] ELSE code[f]]
  /\ direct_call_offset' = [f \in Funcs |-> IF f \in In(m) THEN OffsetsAfter(f) ELSE direct_call_offset[f]]
  /\ jitting' = [pass |-> "copy", module |-> m, next |-> 1]
  /\ Use({Of("module", m)} \cup UNION {All("instr", f, instrs[f]) : f \in In(m)})
  /\ Allocate(UNION {
       {Nth("offset", f, Len(code[f]) + k) : k \in DOMAIN instrs[f]} \cup {Of("code.data", f)} \cup
       (IF instrs[f] # <<>> THEN {Of("offsets.data", f)} ELSE {}) : f \in In(m)})
  /\ UNCHANGED <<program, exec, generated_func, freed>>

f_next == funcs[jitting.module][jitting.next]
InPass(pass) == jitting.pass = pass /\ jitting.next \in DOMAIN funcs[jitting.module]
Passed(pass) == jitting.pass = pass /\ jitting.next \notin DOMAIN funcs[jitting.module]

CopyCode ==
  /\ InPass("copy")
  /\ exec' = Append(exec, [func |-> f_next, jit |-> jits, calls |-> code[f_next],
                           addrs |-> [o \in 1 .. Len(code[f_next]) |-> 0]])
  /\ generated_func' = [generated_func EXCEPT ![f_next] = Len(exec) + 1]
  /\ jitting' = [jitting EXCEPT !.next = @ + 1]
  /\ Use({Of("func", f_next), Of("code.data", f_next)})
  /\ Allocate({Exec(Len(exec) + 1)})
  /\ UNCHANGED <<program, code, direct_call_offset, jits, freed>>

AllCopied ==
  /\ Passed("copy")
  /\ jitting' = [jitting EXCEPT !.pass = "patch", !.next = 1]
  /\ UNCHANGED <<program, linked, heap, freed, dangling>>

PatchedAt(f, o) == \E k \in DOMAIN direct_call_offset[f] : direct_call_offset[f][k].offset = o
CalleeAt(f, o)  ==
  direct_call_offset[f][CHOOSE k \in DOMAIN direct_call_offset[f] : direct_call_offset[f][k].offset = o].func
AddressesOf(f, addrs) ==
  [o \in DOMAIN addrs |-> IF PatchedAt(f, o) THEN generated_func[CalleeAt(f, o)] ELSE addrs[o]]

PatchCalls ==
  /\ InPass("patch")
  /\ LET c == generated_func[f_next] IN
       exec' = [exec EXCEPT ![c].addrs = AddressesOf(f_next, exec[c].addrs)]
  /\ jitting' = [jitting EXCEPT !.next = @ + 1]
  /\ LET sites == direct_call_offset[f_next] IN
       Use({Of("func", f_next), Exec(generated_func[f_next])} \cup All("offset", f_next, sites)
           \cup {Of("func", sites[k].func) : k \in DOMAIN sites})
  /\ UNCHANGED <<program, code, direct_call_offset, generated_func, jits, heap, freed>>

AllPatched ==
  /\ Passed("patch")
  /\ jitting' = Idle
  /\ UNCHANGED <<program, linked, heap, freed, dangling>>
----------------------------------------------------------------------------
\* What these functions free; NULL blocks are not allocated and no harm.
cow_builder_free(f) ==
  {Of(kind, f) : kind \in {"block", "values.data", "blocks.data"}} \cup
  All("value", f, instrs[f]) \cup All("instr", f, instrs[f])

\* Mutant: the function itself is freed, too.
FreedWithFunc(f) ==
  {Of(kind, f) : kind \in {"func", "args", "offsets.data"}} \cup
  All("offset", f, direct_call_offset[f]) \cup cow_builder_free(f)
cow_func_free(f) ==
  {Of(kind, f) : kind \in {"args", "offsets.data"}} \cup
  All("offset", f, direct_call_offset[f]) \cup cow_builder_free(f)

NullData(f) ==
  (IF instrs[f] = <<>> THEN {Of("values.data", f)} ELSE {}) \cup
  (IF direct_call_offset[f] = <<>> THEN {Of("offsets.data", f)} ELSE {})

cow_module_free(m) ==
  /\ IsIdle /\ m \in Alive
  /\ LET objects == (UNION {cow_func_free(f) \ NullData(f) : f \in In(m)}) \cup
                    (IF In(m) # {} THEN {Of("funcs.data", m)} ELSE {})
     IN  /\ Use({Of("module", m)} \cup {Of("func", f) : f \in In(m)} \cup objects)
         /\ heap' = heap \ objects
  /\ freed' = freed \cup {m}
  /\ UNCHANGED <<program, linked, jitting>>

Next ==
  \/ \E m \in Modules : cow_module_create(m) \/ Generate(m) \/ cow_module_free(m)
  \/ \E m \in Modules, f \in Funcs : cow_create_func(m, f)
  \/ \E f, callee \in Known : cow_builder_call_func(f, callee)
  \/ CopyCode \/ AllCopied \/ PatchCalls \/ AllPatched

Spec == Init /\ [][Next]_vars
----------------------------------------------------------------------------
\* The copies that cow_module_jit is done with.
Finished(c) ==
  \/ IsIdle \/ exec[c].jit < jits
  \/ /\ jitting.pass = "patch"
     /\ \E k \in DOMAIN funcs[jitting.module] :
          k < jitting.next /\ c = generated_func[funcs[jitting.module][k]]

\* a is the newest copy of function f that was made up to the JIT number n, or
\* NULL if there is none.
IsNewest(a, f, n) ==
  /\ a # 0 => a \in DOMAIN exec /\ exec[a].func = f /\ exec[a].jit <= n
  /\ \A d \in DOMAIN exec : exec[d].func = f /\ exec[d].jit <= n => d <= a

(***************************************************************************)
(* Every copy ever made calls, at each offset of its code, the code of the *)
(* right function, as it was after the JIT that made the copy: functions   *)
(* of its own module in the copy of the same JIT, those of others in the   *)
(* newest then, and NULL if there was none.  So a pointer that a client    *)
(* took before another JIT still runs one consistent set of functions.     *)
(***************************************************************************)
CallsLinked ==
  \A c \in DOMAIN exec : Finished(c) =>
    \A o \in 1 .. Len(exec[c].calls) : IsNewest(exec[c].addrs[o], exec[c].calls[o], exec[c].jit)

(***************************************************************************)
(* The JIT and the frees use no object that was freed, and free none       *)
(* twice, in whatever order modules that call each other are freed: the    *)
(* callee's _CowFunc, whose address calls of other modules keep, stays.    *)
(***************************************************************************)
NeverDangling == ~dangling

\* Whether an object belongs to module m: it, its functions' and their copies.
Belongs(object, m) ==
  \/ object[1] \in {"module", "funcs.data"} /\ object[2] = m
  \/ object[1] = "exec" /\ exec[object[2]].func \in In(m)
  \/ object[1] \notin {"module", "funcs.data", "exec"} /\ object[2] \in In(m)

(***************************************************************************)
(* readme.md:44 of cow_module_free: "clear everything from memory".        *)
(***************************************************************************)
ClearsEverything == \A m \in freed : \A object \in heap : ~Belongs(object, m)
=============================================================================
