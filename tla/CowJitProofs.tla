---------------------------- MODULE CowJitProofs ----------------------------
(***************************************************************************)
(* Proofs about linking, for any modules, functions, calls and JITs.       *)
(***************************************************************************)
EXTENDS CowJit, SequenceTheorems, TLAPS

Site == [offset : Nat, func : Funcs]
Copy == [func : Funcs, jit : Nat, calls : Seq(Funcs), addrs : Seq(Nat)]
Pass == [pass : {"copy", "patch"}, module : Modules, next : Nat \ {0}]

TypeOK ==
  /\ funcs \in [Modules -> Seq(Funcs)] /\ instrs \in [Funcs -> Seq(Funcs)]
  /\ code \in [Funcs -> Seq(Funcs)] /\ direct_call_offset \in [Funcs -> Seq(Site)]
  /\ exec \in Seq(Copy) /\ generated_func \in [Funcs -> Nat]
  /\ jitting \in Pass \cup {Idle} /\ jits \in Nat

\* A module has a function once.
Distinct ==
  \A m \in Modules : \A i, j \in DOMAIN funcs[m] : funcs[m][i] = funcs[m][j] => i = j

\* The recorded calls are exactly the calls in the code.
SitesOf(f) ==
  /\ \A o \in 1 .. Len(code[f]) : PatchedAt(f, o)
  /\ \A k \in DOMAIN direct_call_offset[f] : LET s == direct_call_offset[f][k] IN
       s.offset \in 1 .. Len(code[f]) /\ s.func = code[f][s.offset]
Sites == \A f \in Funcs : SitesOf(f)

\* generated_func is the last copy of its function.
LastCopy(f) ==
  /\ generated_func[f] # 0 => generated_func[f] \in DOMAIN exec /\ exec[generated_func[f]].func = f
  /\ \A d \in DOMAIN exec : exec[d].func = f => d <= generated_func[f]
Copies ==
  /\ \A c \in DOMAIN exec : exec[c].jit <= jits /\ Len(exec[c].addrs) = Len(exec[c].calls)
  /\ \A f \in Funcs : LastCopy(f)

\* The copies of the running JIT are those of the module's first n - 1 functions.
CopiedBefore(n) ==
  LET fs == funcs[jitting.module] IN
  /\ \A c \in DOMAIN exec : exec[c].jit = jits =>
       \E k \in DOMAIN fs : k < n /\ c = generated_func[fs[k]]
  /\ \A k \in DOMAIN fs : k < n =>
       /\ generated_func[fs[k]] # 0
       /\ exec[generated_func[fs[k]]].jit = jits
       /\ exec[generated_func[fs[k]]].calls = code[fs[k]]
Passes ==
  /\ jitting.pass = "copy" => CopiedBefore(jitting.next)
  /\ jitting.pass = "patch" => CopiedBefore(Len(funcs[jitting.module]) + 1)

JitInv == TypeOK /\ Distinct /\ Sites /\ Copies /\ Passes /\ CallsLinked
----------------------------------------------------------------------------
LEMMA InitJit == Init => JitInv
<1> SUFFICES ASSUME Init PROVE JitInv
  OBVIOUS
<1> USE DEF Init, Idle
<1>1. TypeOK BY DEF TypeOK
<1>2. Distinct BY DEF Distinct
<1>3. Sites BY DEF Sites, SitesOf
<1>4. Copies BY DEF Copies, LastCopy
<1>5. Passes BY DEF Passes
<1>6. CallsLinked BY DEF CallsLinked
<1> QED BY <1>1, <1>2, <1>3, <1>4, <1>5, <1>6 DEF JitInv

LEMMA CopyTyped ==
  ASSUME TypeOK, NEW c \in DOMAIN exec
  PROVE  /\ exec[c] \in Copy /\ exec[c].func \in Funcs /\ exec[c].jit \in Nat
         /\ exec[c].calls \in Seq(Funcs) /\ exec[c].addrs \in Seq(Nat)
         /\ c \in 1 .. Len(exec) /\ Len(exec) \in Nat
<1>1. exec \in Seq(Copy) BY DEF TypeOK
<1>2. exec[c] \in Copy /\ c \in 1 .. Len(exec) /\ Len(exec) \in Nat
  <2> HIDE DEF Copy
  <2> QED BY <1>1
<1> QED BY <1>2 DEF Copy

\* What only builds or frees keeps the linking.
LEMMA IdleKeeps ==
  ASSUME JitInv, IsIdle, UNCHANGED <<linked, jitting>>,
         funcs' \in [Modules -> Seq(Funcs)], instrs' \in [Funcs -> Seq(Funcs)], Distinct'
  PROVE  JitInv'
<1> USE DEF JitInv, linked
<1>1. TypeOK' BY DEF TypeOK, Idle, Pass
<1>2. Sites' BY DEF Sites, SitesOf, PatchedAt
<1>3. Copies' BY DEF Copies, LastCopy
<1>4. Passes' BY DEF Passes, IsIdle
<1>5. CallsLinked' BY DEF CallsLinked, Finished, IsIdle, IsNewest
<1> QED BY <1>1, <1>2, <1>3, <1>4, <1>5

LEMMA CreateFuncKeeps ==
  ASSUME JitInv, NEW m \in Modules, NEW f \in Funcs, cow_create_func(m, f)
  PROVE  JitInv'
<1>1. funcs \in [Modules -> Seq(Funcs)] /\ instrs' = instrs /\ instrs \in [Funcs -> Seq(Funcs)]
  BY DEF JitInv, TypeOK, cow_create_func
<1>2. funcs' = [funcs EXCEPT ![m] = Append(@, f)] /\ IsIdle /\ UNCHANGED <<linked, jitting>>
  BY DEF cow_create_func
<1>3. funcs' \in [Modules -> Seq(Funcs)] BY <1>1, <1>2
<1>4. \A k \in DOMAIN funcs[m] : funcs[m][k] # f
  BY DEF cow_create_func, Unused, In
<1>5. Distinct'
  <2> SUFFICES ASSUME NEW n \in Modules, NEW i \in DOMAIN funcs'[n], NEW j \in DOMAIN funcs'[n],
                      funcs'[n][i] = funcs'[n][j]
               PROVE  i = j
    BY DEF Distinct
  <2>1. CASE n # m BY <2>1, <1>1, <1>2 DEF JitInv, Distinct
  <2>2. CASE n = m
    <3>1. funcs'[m] = Append(funcs[m], f) /\ funcs[m] \in Seq(Funcs) BY <1>1, <1>2
    <3>2. \A k \in 1 .. Len(funcs[m]) : funcs'[m][k] = funcs[m][k] BY <3>1
    <3>3. DOMAIN funcs'[m] = 1 .. Len(funcs[m]) + 1 /\ funcs'[m][Len(funcs[m]) + 1] = f BY <3>1
    <3>4. DOMAIN funcs[m] = 1 .. Len(funcs[m]) /\ Len(funcs[m]) \in Nat BY <3>1
    <3>5. CASE i = Len(funcs[m]) + 1 BY <2>2, <3>2, <3>3, <3>4, <3>5, <1>4
    <3>6. CASE i # Len(funcs[m]) + 1 /\ j = Len(funcs[m]) + 1 BY <2>2, <3>2, <3>3, <3>4, <3>6, <1>4
    <3>7. CASE i # Len(funcs[m]) + 1 /\ j # Len(funcs[m]) + 1
      BY <2>2, <3>2, <3>3, <3>4, <3>7 DEF JitInv, Distinct
    <3> QED BY <3>5, <3>6, <3>7
  <2> QED BY <2>1, <2>2
<1> QED BY <1>1, <1>2, <1>3, <1>5, IdleKeeps

LEMMA CallFuncKeeps ==
  ASSUME JitInv, NEW f \in Funcs, NEW callee \in Funcs, cow_builder_call_func(f, callee)
  PROVE  JitInv'
<1>1. funcs' = funcs /\ instrs' = [instrs EXCEPT ![f] = Append(@, callee)] /\ IsIdle
      /\ UNCHANGED <<linked, jitting>>
  BY DEF cow_builder_call_func
<1>2. instrs' \in [Funcs -> Seq(Funcs)] BY <1>1 DEF JitInv, TypeOK
<1>3. funcs' \in [Modules -> Seq(Funcs)] BY <1>1 DEF JitInv, TypeOK
<1>4. Distinct' BY <1>1 DEF JitInv, Distinct
<1> QED BY <1>1, <1>2, <1>3, <1>4, IdleKeeps

\* cow_module_create and cow_module_free leave everything but the heap.
LEMMA HeapOnlyKeeps ==
  ASSUME JitInv, IsIdle, UNCHANGED <<program, linked, jitting>>
  PROVE  JitInv'
<1>1. funcs' = funcs /\ instrs' = instrs /\ UNCHANGED <<linked, jitting>> BY DEF program
<1>2. funcs' \in [Modules -> Seq(Funcs)] /\ instrs' \in [Funcs -> Seq(Funcs)]
  BY <1>1 DEF JitInv, TypeOK
<1>3. Distinct' BY <1>1 DEF JitInv, Distinct
<1> QED BY <1>1, <1>2, <1>3, IdleKeeps
----------------------------------------------------------------------------
LEMMA Appended ==
  ASSUME NEW S, NEW s \in Seq(S), NEW t \in Seq(S)
  PROVE  /\ s \o t \in Seq(S) /\ Len(s \o t) = Len(s) + Len(t)
         /\ \A k \in 1 .. Len(s) : (s \o t)[k] = s[k]
         /\ \A k \in 1 .. Len(t) : (s \o t)[Len(s) + k] = t[k]
<1>1. Len(s) \in Nat /\ Len(t) \in Nat OBVIOUS
<1>2. s \o t \in Seq(S) /\ Len(s \o t) = Len(s) + Len(t) OBVIOUS
<1>3. \A k \in 1 .. Len(s) + Len(t) : (s \o t)[k] = IF k <= Len(s) THEN s[k] ELSE t[k - Len(s)]
  OBVIOUS
<1>4. \A k \in 1 .. Len(s) : (s \o t)[k] = s[k] BY <1>1, <1>3
<1>5. ASSUME NEW k \in 1 .. Len(t) PROVE (s \o t)[Len(s) + k] = t[k]
  <2>1. /\ Len(s) + k \in 1 .. Len(s) + Len(t) /\ ~(Len(s) + k <= Len(s))
        /\ Len(s) + k - Len(s) = k
    BY <1>1
  <2> DEFINE e == s \o t
  <2> HIDE DEF e
  <2> QED BY <2>1, <1>3 DEF e
<1> QED BY <1>2, <1>4, <1>5

\* The code appended by a JIT and the calls recorded for it fit together.
LEMMA OffsetsFit ==
  ASSUME TypeOK, Sites, NEW f \in Funcs,
         code'[f] = code[f] \o instrs[f], direct_call_offset'[f] = OffsetsAfter(f)
  PROVE  /\ code'[f] \in Seq(Funcs) /\ direct_call_offset'[f] \in Seq(Site)
         /\ SitesOf(f)'
<1> DEFINE c == code[f]  n == instrs[f]  d == direct_call_offset[f]
           new == [k \in 1 .. Len(n) |-> [offset |-> Len(c) + k, func |-> n[k]]]
<1>1. c \in Seq(Funcs) /\ n \in Seq(Funcs) /\ d \in Seq(Site) BY DEF TypeOK
<1>2. /\ \A o \in 1 .. Len(c) : \E k \in DOMAIN d : d[k].offset = o
      /\ \A k \in DOMAIN d : d[k].offset \in 1 .. Len(c) /\ d[k].func = c[d[k].offset]
  BY DEF Sites, SitesOf, PatchedAt
<1>3. code'[f] = c \o n /\ direct_call_offset'[f] = d \o new BY DEF OffsetsAfter
<1>4. new \in Seq(Site) /\ Len(new) = Len(n) BY <1>1 DEF Site
<1>5. \A k \in 1 .. Len(n) : new[k].offset = Len(c) + k /\ new[k].func = n[k] OBVIOUS
<1> DEFINE cc == code'[f]  dd == direct_call_offset'[f]
<1> HIDE DEF c, n, d, new
<1>6. /\ cc \in Seq(Funcs) /\ Len(cc) = Len(c) + Len(n)
      /\ \A o \in 1 .. Len(c) : cc[o] = c[o]
      /\ \A k \in 1 .. Len(n) : cc[Len(c) + k] = n[k]
  BY <1>1, <1>3, Appended
<1>7. /\ dd \in Seq(Site) /\ Len(dd) = Len(d) + Len(n)
      /\ \A k \in 1 .. Len(d) : dd[k] = d[k]
      /\ \A k \in 1 .. Len(n) : dd[Len(d) + k] = new[k]
  <2>1. Len(new) = Len(n) /\ new \in Seq(Site) /\ d \in Seq(Site) BY <1>1, <1>4
  <2>2. dd = d \o new BY <1>3
  <2> HIDE DEF dd
  <2>3. /\ d \o new \in Seq(Site) /\ Len(d \o new) = Len(d) + Len(new)
        /\ \A k \in 1 .. Len(d) : (d \o new)[k] = d[k]
        /\ \A k \in 1 .. Len(new) : (d \o new)[Len(d) + k] = new[k]
    <3>1. d \o new \in Seq(Site) BY <2>1
    <3>2. Len(d \o new) = Len(d) + Len(new) BY <2>1
    <3>3. \A k \in 1 .. Len(d) : (d \o new)[k] = d[k] BY <2>1, Appended
    <3>4. \A k \in 1 .. Len(new) : (d \o new)[Len(d) + k] = new[k] BY <2>1, Appended
    <3> QED BY <3>1, <3>2, <3>3, <3>4
  <2> QED BY <2>1, <2>2, <2>3
<1> HIDE DEF cc, dd
<1>8. /\ DOMAIN d = 1 .. Len(d) /\ Len(d) \in Nat /\ Len(c) \in Nat /\ Len(n) \in Nat
      /\ DOMAIN dd = 1 .. Len(dd)
  <2>1. DOMAIN d = 1 .. Len(d) /\ Len(d) \in Nat /\ Len(c) \in Nat /\ Len(n) \in Nat BY <1>1
  <2>2. DOMAIN dd = 1 .. Len(dd) BY <1>7
  <2> QED BY <2>1, <2>2
<1>9. \A o \in 1 .. Len(cc) : \E k \in DOMAIN dd : dd[k].offset = o
  <2> SUFFICES ASSUME NEW o \in 1 .. Len(cc) PROVE \E k \in DOMAIN dd : dd[k].offset = o
    OBVIOUS
  <2>1. CASE o \in 1 .. Len(c)
    <3>1. PICK k \in DOMAIN d : d[k].offset = o BY <1>2, <2>1
    <3>2. k \in DOMAIN dd /\ dd[k].offset = o BY <3>1, <1>7, <1>8
    <3> QED BY <3>2
  <2>2. CASE o \notin 1 .. Len(c)
    <3>1. o - Len(c) \in 1 .. Len(n) BY <2>2, <1>6, <1>8
    <3>2. PICK k \in 1 .. Len(n) : o = Len(c) + k
      <4>1. o = Len(c) + (o - Len(c)) BY <1>6, <1>8
      <4> QED BY <3>1, <4>1
    <3>3. Len(d) + k \in DOMAIN dd BY <1>7, <1>8
    <3>4. dd[Len(d) + k].offset = o BY <3>2, <1>5, <1>7
    <3> QED BY <3>3, <3>4
  <2> QED BY <2>1, <2>2
<1>10. \A k \in DOMAIN dd : dd[k].offset \in 1 .. Len(cc) /\ dd[k].func = cc[dd[k].offset]
  <2> SUFFICES ASSUME NEW k \in DOMAIN dd
               PROVE  dd[k].offset \in 1 .. Len(cc) /\ dd[k].func = cc[dd[k].offset]
    OBVIOUS
  <2>1. CASE k \in 1 .. Len(d)
    <3>1. dd[k] = d[k] /\ d[k].offset \in 1 .. Len(c) /\ d[k].func = c[d[k].offset]
      BY <2>1, <1>2, <1>7, <1>8
    <3> QED BY <3>1, <1>6, <1>8
  <2>2. CASE k \notin 1 .. Len(d)
    <3>1. PICK j \in 1 .. Len(n) : k = Len(d) + j
      <4>1. k - Len(d) \in 1 .. Len(n) BY <2>2, <1>7, <1>8
      <4>2. k = Len(d) + (k - Len(d)) BY <1>7, <1>8
      <4> QED BY <4>1, <4>2
    <3>2. dd[k].offset = Len(c) + j /\ dd[k].func = n[j] BY <3>1, <1>5, <1>7
    <3> QED BY <3>2, <1>6, <1>8
  <2> QED BY <2>1, <2>2
<1> QED BY <1>6, <1>7, <1>9, <1>10 DEF SitesOf, PatchedAt, cc, dd

LEMMA GenerateKeeps ==
  ASSUME JitInv, NEW m \in Modules, Generate(m)
  PROVE  JitInv'
<1>1. /\ IsIdle /\ jits' = jits + 1 /\ UNCHANGED <<funcs, instrs, exec, generated_func>>
      /\ jitting' = [pass |-> "copy", module |-> m, next |-> 1]
      /\ code' = [f \in Funcs |-> IF f \in In(m) THEN code[f] \o instrs[f] ELSE code[f]]
      /\ direct_call_offset' =
           [f \in Funcs |-> IF f \in In(m) THEN OffsetsAfter(f) ELSE direct_call_offset[f]]
  BY DEF Generate, program
<1>2. TypeOK /\ Sites /\ jits \in Nat BY DEF JitInv, TypeOK
<1>3. \A f \in Funcs : /\ code'[f] \in Seq(Funcs) /\ direct_call_offset'[f] \in Seq(Site)
                        /\ SitesOf(f)'
  <2> TAKE f \in Funcs
  <2>1. CASE f \in In(m)
    <3>1. code'[f] = code[f] \o instrs[f] /\ direct_call_offset'[f] = OffsetsAfter(f) BY <1>1, <2>1
    <3> QED BY <3>1, <1>2, OffsetsFit
  <2>2. CASE f \notin In(m)
    <3>1. code'[f] = code[f] /\ direct_call_offset'[f] = direct_call_offset[f] BY <1>1, <2>2
    <3>2. SitesOf(f) BY <1>2 DEF Sites
    <3> QED BY <3>1, <3>2, <1>2 DEF TypeOK, SitesOf, PatchedAt
  <2> QED BY <2>1, <2>2
<1>4. TypeOK' BY <1>1, <1>2, <1>3 DEF TypeOK, Pass
<1>5. Distinct' BY <1>1 DEF JitInv, Distinct
<1>6. Sites' BY <1>3 DEF Sites
<1>7. \A c \in DOMAIN exec : exec[c].jit \in Nat /\ exec[c].jit <= jits
  <2>1. \A c \in DOMAIN exec : exec[c].jit \in Nat BY <1>2, CopyTyped
  <2> QED BY <2>1 DEF JitInv, Copies
<1>8. Copies' BY <1>1, <1>2, <1>7 DEF JitInv, Copies, LastCopy
<1>9. Passes'
  <2>1. \A c \in DOMAIN exec : exec[c].jit # jits + 1 BY <1>2, <1>7
  <2>2. \A k \in DOMAIN funcs[m] : ~(k < 1) BY <1>2 DEF TypeOK
  <2> QED BY <1>1, <2>1, <2>2 DEF Passes, CopiedBefore
<1>10. CallsLinked'
  <2>1. \A c \in DOMAIN exec : Finished(c) BY <1>1 DEF Finished
  <2> QED BY <1>1, <2>1 DEF JitInv, CallsLinked, IsNewest
<1> QED BY <1>4, <1>5, <1>6, <1>8, <1>9, <1>10 DEF JitInv
----------------------------------------------------------------------------
\* The function of a pass, in its module.
LEMMA InPassFacts ==
  ASSUME JitInv, NEW pass \in {"copy", "patch"}, InPass(pass)
  PROVE  /\ jitting \in Pass /\ ~IsIdle /\ jitting.pass = pass
         /\ jitting.module \in Modules /\ jitting.next \in DOMAIN funcs[jitting.module]
         /\ jitting.next \in Nat /\ f_next \in Funcs
         /\ DOMAIN funcs[jitting.module] = 1 .. Len(funcs[jitting.module])
         /\ Len(funcs[jitting.module]) \in Nat
         /\ \A k \in DOMAIN funcs[jitting.module] : funcs[jitting.module][k] \in Funcs
<1>1. jitting \in Pass /\ jitting.pass = pass
  BY DEF JitInv, TypeOK, InPass, Idle, Pass
<1>2. jitting.module \in Modules /\ funcs[jitting.module] \in Seq(Funcs) /\ jitting.next \in Nat
  BY <1>1 DEF JitInv, TypeOK, Pass
<1> QED BY <1>1, <1>2 DEF InPass, f_next, IsIdle

\* The copy that CopyCode appends, of function f.
NewCopy(f) == [func |-> f, jit |-> jits, calls |-> code[f], addrs |-> [o \in 1 .. Len(code[f]) |-> 0]]

LEMMA CopyAppended ==
  ASSUME TypeOK, NEW f \in Funcs, exec' = Append(exec, NewCopy(f))
  PROVE  /\ exec' \in Seq(Copy) /\ DOMAIN exec' = 1 .. Len(exec) + 1
         /\ DOMAIN exec = 1 .. Len(exec) /\ Len(exec) \in Nat
         /\ \A c \in DOMAIN exec : exec'[c] = exec[c]
         /\ exec'[Len(exec) + 1] = NewCopy(f)
<1>1. exec \in Seq(Copy) BY DEF TypeOK
<1>2. NewCopy(f) \in Copy
  <2>1. code[f] \in Seq(Funcs) /\ Len(code[f]) \in Nat /\ jits \in Nat BY DEF TypeOK
  <2>2. [o \in 1 .. Len(code[f]) |-> 0] \in Seq(Nat) BY <2>1
  <2> QED BY <2>1, <2>2 DEF NewCopy, Copy
<1> DEFINE e == NewCopy(f)
<1> HIDE DEF e
<1>3. exec' = Append(exec, e) /\ e \in Copy BY <1>2 DEF e
<1> HIDE DEF Copy
<1>4. exec' \in Seq(Copy) /\ DOMAIN exec' = 1 .. Len(exec) + 1 BY <1>1, <1>3
<1>5. DOMAIN exec = 1 .. Len(exec) /\ Len(exec) \in Nat BY <1>1
<1>6. \A c \in 1 .. Len(exec) : exec'[c] = exec[c] BY <1>1, <1>3
<1>7. exec'[Len(exec) + 1] = e BY <1>1, <1>3
<1> QED BY <1>4, <1>5, <1>6, <1>7 DEF e

LEMMA CopyCodeKeeps ==
  ASSUME JitInv, CopyCode
  PROVE  JitInv'
<1> DEFINE f == f_next  N == Len(exec) + 1  m == jitting.module  n == jitting.next
<1>1. /\ f \in Funcs /\ m \in Modules /\ n \in DOMAIN funcs[m] /\ n \in Nat /\ jitting \in Pass
      /\ jitting.pass = "copy" /\ f = funcs[m][n] /\ DOMAIN funcs[m] \subseteq Nat
      /\ \A k \in DOMAIN funcs[m] : funcs[m][k] \in Funcs
  BY InPassFacts DEF CopyCode, f_next
<1>2. /\ UNCHANGED <<funcs, instrs, code, direct_call_offset, jits>>
      /\ jitting' = [jitting EXCEPT !.next = @ + 1]
      /\ generated_func' = [generated_func EXCEPT ![f] = N]
      /\ exec' = Append(exec, NewCopy(f))
  BY DEF CopyCode, program, NewCopy
<1>3. /\ TypeOK /\ Distinct /\ Sites /\ Copies /\ Passes /\ CallsLinked /\ jits \in Nat
      /\ generated_func \in [Funcs -> Nat]
  BY DEF JitInv, TypeOK
<1>4. /\ exec' \in Seq(Copy) /\ DOMAIN exec' = 1 .. N /\ DOMAIN exec = 1 .. Len(exec)
      /\ Len(exec) \in Nat /\ N \in Nat /\ N # 0
      /\ \A c \in DOMAIN exec : exec'[c] = exec[c]
      /\ exec'[N] = NewCopy(f)
  BY <1>1, <1>2, <1>3, CopyAppended
<1>5. exec'[N].func = f /\ exec'[N].jit = jits /\ exec'[N].calls = code[f]
      /\ Len(exec'[N].addrs) = Len(exec'[N].calls)
  <2>1. Len(code[f]) \in Nat BY <1>1, <1>3 DEF TypeOK
  <2> QED BY <1>4, <2>1 DEF NewCopy
<1>6. /\ \A c \in DOMAIN exec' : c \in DOMAIN exec \/ c = N
      /\ \A c \in DOMAIN exec : c \in DOMAIN exec'
  BY <1>4
<1>7. /\ jitting'.module = m /\ jitting'.next = n + 1 /\ jitting'.pass = "copy" /\ jitting' \in Pass
  BY <1>1, <1>2 DEF Pass
<1>8. /\ generated_func'[f] = N /\ generated_func' \in [Funcs -> Nat]
      /\ \A g \in Funcs : g # f => generated_func'[g] = generated_func[g]
  BY <1>1, <1>2, <1>3, <1>4
<1> HIDE DEF f, N, m, n
<1>9. TypeOK' BY <1>2, <1>3, <1>4, <1>7, <1>8 DEF TypeOK
<1>10. Distinct' BY <1>2, <1>3 DEF Distinct
<1>11. Sites' BY <1>2, <1>3 DEF Sites, SitesOf, PatchedAt
<1>12. Copies'
  <2>1. ASSUME NEW c \in DOMAIN exec'
        PROVE  exec'[c].jit <= jits /\ Len(exec'[c].addrs) = Len(exec'[c].calls)
    <3>1. CASE c \in DOMAIN exec BY <3>1, <1>3, <1>4 DEF Copies
    <3>2. CASE c = N BY <3>2, <1>3, <1>5
    <3> QED BY <3>1, <3>2, <1>6
  <2>2. ASSUME NEW g \in Funcs PROVE LastCopy(g)'
    <3>1. CASE g = f
      <4>1. generated_func'[g] \in DOMAIN exec' /\ exec'[generated_func'[g]].func = g
        BY <3>1, <1>4, <1>5, <1>8
      <4>2. \A d \in DOMAIN exec' : d <= generated_func'[g] BY <3>1, <1>4, <1>8
      <4> QED BY <4>1, <4>2 DEF LastCopy
    <3>2. CASE g # f
      <4>1. generated_func'[g] = generated_func[g] /\ LastCopy(g) BY <3>2, <1>3, <1>8 DEF Copies
      <4>2. exec'[N].func # g BY <3>2, <1>5
      <4> QED BY <4>1, <4>2, <1>4, <1>6 DEF LastCopy
    <3> QED BY <3>1, <3>2
  <2> QED BY <2>1, <2>2, <1>2 DEF Copies
<1>13. ASSUME NEW c \in DOMAIN exec, exec[c].jit = jits
       PROVE  \E k \in DOMAIN funcs[m] : k < n /\ c = generated_func[funcs[m][k]]
  BY <1>1, <1>3, <1>13 DEF Passes, CopiedBefore, m, n
<1>14. ASSUME NEW k \in DOMAIN funcs[m], k < n
       PROVE  /\ generated_func'[funcs[m][k]] = generated_func[funcs[m][k]]
              /\ generated_func[funcs[m][k]] # 0 /\ generated_func[funcs[m][k]] \in DOMAIN exec
              /\ exec[generated_func[funcs[m][k]]].jit = jits
              /\ exec[generated_func[funcs[m][k]]].calls = code[funcs[m][k]]
  <2>1. k # n /\ funcs[m][k] # f BY <1>1, <1>3, <1>14 DEF Distinct
  <2>2. generated_func'[funcs[m][k]] = generated_func[funcs[m][k]] BY <2>1, <1>1, <1>8
  <2>3. /\ generated_func[funcs[m][k]] # 0
        /\ exec[generated_func[funcs[m][k]]].jit = jits
        /\ exec[generated_func[funcs[m][k]]].calls = code[funcs[m][k]]
    BY <1>1, <1>3, <1>14 DEF Passes, CopiedBefore, m, n
  <2>4. generated_func[funcs[m][k]] \in DOMAIN exec BY <2>3, <1>1, <1>3 DEF Copies, LastCopy
  <2> QED BY <2>2, <2>3, <2>4
<1>15. Passes'
  <2>1. ASSUME NEW c \in DOMAIN exec', exec'[c].jit = jits
        PROVE  \E k \in DOMAIN funcs[m] : k < n + 1 /\ c = generated_func'[funcs[m][k]]
    <3>1. CASE c = N
      <4>1. n < n + 1 /\ c = generated_func'[funcs[m][n]] BY <3>1, <1>1, <1>8
      <4> QED BY <4>1, <1>1
    <3>2. CASE c \in DOMAIN exec
      <4>1. exec[c].jit = jits BY <2>1, <3>2, <1>4
      <4>2. PICK k \in DOMAIN funcs[m] : k < n /\ c = generated_func[funcs[m][k]] BY <4>1, <3>2, <1>13
      <4>3. k < n + 1 BY <4>2, <1>1
      <4> QED BY <4>2, <4>3, <1>14
    <3> QED BY <3>1, <3>2, <1>6
  <2>2. ASSUME NEW k \in DOMAIN funcs[m], k < n + 1
        PROVE  /\ generated_func'[funcs[m][k]] # 0
               /\ exec'[generated_func'[funcs[m][k]]].jit = jits
               /\ exec'[generated_func'[funcs[m][k]]].calls = code[funcs[m][k]]
    <3>1. CASE k = n BY <3>1, <1>1, <1>4, <1>5, <1>8
    <3>2. CASE k # n
      <4>1. k < n BY <3>2, <2>2, <1>1
      <4>2. exec'[generated_func[funcs[m][k]]] = exec[generated_func[funcs[m][k]]] BY <4>1, <1>4, <1>14
      <4> QED BY <4>1, <4>2, <1>14
    <3> QED BY <3>1, <3>2
  <2>3. CopiedBefore(jitting.next)'
    <3>1. funcs'[jitting'.module] = funcs[m] /\ jitting'.next = n + 1 /\ jits' = jits /\ code' = code
      BY <1>2, <1>7
    <3>2. \A c \in DOMAIN exec' : exec'[c].jit = jits' =>
            \E k \in DOMAIN funcs'[jitting'.module] :
              k < jitting'.next /\ c = generated_func'[funcs'[jitting'.module][k]]
      BY <3>1, <2>1
    <3>3. \A k \in DOMAIN funcs'[jitting'.module] : k < jitting'.next =>
            /\ generated_func'[funcs'[jitting'.module][k]] # 0
            /\ exec'[generated_func'[funcs'[jitting'.module][k]]].jit = jits'
            /\ exec'[generated_func'[funcs'[jitting'.module][k]]].calls = code'[funcs'[jitting'.module][k]]
      BY <3>1, <2>2
    <3> QED BY <3>2, <3>3 DEF CopiedBefore
  <2> QED BY <2>3, <1>7 DEF Passes, CopiedBefore
<1>16. CallsLinked'
  <2> SUFFICES ASSUME NEW c \in DOMAIN exec', Finished(c)', NEW o \in 1 .. Len(exec'[c].calls)
               PROVE  IsNewest(exec[c].addrs[o], exec[c].calls[o], exec[c].jit)'
    BY DEF CallsLinked
  <2>1. exec'[c].jit < jits BY <1>2, <1>7 DEF Finished, IsIdle
  <2>2. c \in DOMAIN exec /\ exec'[c] = exec[c] BY <2>1, <1>3, <1>4, <1>5, <1>6
  <2>3. Finished(c) BY <2>1, <2>2 DEF Finished
  <2>4. IsNewest(exec[c].addrs[o], exec[c].calls[o], exec[c].jit) BY <2>2, <2>3, <1>3 DEF CallsLinked
  <2>5. ~(exec'[N].jit <= exec'[c].jit)
    <3>1. exec[c].jit \in Nat BY <2>2, <1>3, CopyTyped
    <3> QED BY <3>1, <2>1, <2>2, <1>3, <1>5
  <2> QED BY <2>2, <2>4, <2>5, <1>4, <1>6 DEF IsNewest
<1> QED BY <1>9, <1>10, <1>11, <1>12, <1>15, <1>16 DEF JitInv

\* The first pass ends: all functions are copied.
LEMMA AllCopiedKeeps ==
  ASSUME JitInv, AllCopied
  PROVE  JitInv'
<1> DEFINE m == jitting.module  n == jitting.next
<1>1. jitting \in Pass /\ jitting.pass = "copy" /\ n \notin DOMAIN funcs[m]
  BY DEF JitInv, TypeOK, AllCopied, Passed, Idle, Pass
<1>2. jitting' \in Pass /\ jitting'.pass = "patch" /\ jitting'.module = m /\ jitting'.next = 1
  <2>1. jitting' = [jitting EXCEPT !.pass = "patch", !.next = 1] BY DEF AllCopied
  <2>2. PICK p \in {"copy", "patch"}, x \in Modules, k \in Nat \ {0} :
          jitting = [pass |-> p, module |-> x, next |-> k]
    BY <1>1 DEF Pass
  <2>3. jitting' = [pass |-> "patch", module |-> x, next |-> 1] BY <2>1, <2>2
  <2> QED BY <2>2, <2>3 DEF Pass
<1>3. UNCHANGED <<funcs, instrs, code, direct_call_offset, exec, generated_func, jits>>
  BY DEF AllCopied, program, linked
<1>4. m \in Modules /\ n \in Nat \ {0} /\ DOMAIN funcs[m] = 1 .. Len(funcs[m]) /\ Len(funcs[m]) \in Nat
  BY <1>1 DEF JitInv, TypeOK, Pass
<1>5. \A k \in DOMAIN funcs[m] : k < n /\ k < Len(funcs[m]) + 1
  BY <1>1, <1>4
<1>6. CopiedBefore(n) BY <1>1 DEF JitInv, Passes
<1> HIDE DEF m, n
<1>7. TypeOK' BY <1>2, <1>3 DEF JitInv, TypeOK
<1>8. Distinct' BY <1>3 DEF JitInv, Distinct
<1>9. Sites' BY <1>3 DEF JitInv, Sites, SitesOf, PatchedAt
<1>10. Copies' BY <1>3 DEF JitInv, Copies, LastCopy
<1>11. Passes'
  <2>1. CopiedBefore(Len(funcs[m]) + 1)
    <3>1. \A c \in DOMAIN exec : exec[c].jit = jits => \E k \in DOMAIN funcs[m] : c = generated_func[funcs[m][k]]
      BY <1>6 DEF CopiedBefore, m
    <3>2. \A k \in DOMAIN funcs[m] : /\ generated_func[funcs[m][k]] # 0
                                      /\ exec[generated_func[funcs[m][k]]].jit = jits
                                      /\ exec[generated_func[funcs[m][k]]].calls = code[funcs[m][k]]
      BY <1>5, <1>6 DEF CopiedBefore, m
    <3> QED BY <3>1, <3>2, <1>5 DEF CopiedBefore, m
  <2>2. CopiedBefore(Len(funcs[jitting.module]) + 1)' BY <2>1, <1>2, <1>3 DEF CopiedBefore, m
  <2> QED BY <2>2, <1>2 DEF Passes
<1>12. CallsLinked'
  <2>1. \A c : Finished(c)' => Finished(c)
    BY <1>2, <1>3, <1>4 DEF Finished, IsIdle
  <2> QED BY <2>1, <1>3 DEF JitInv, CallsLinked, IsNewest
<1> QED BY <1>7, <1>8, <1>9, <1>10, <1>11, <1>12 DEF JitInv

\* The second pass ends: all copies of this JIT are patched.
LEMMA AllPatchedKeeps ==
  ASSUME JitInv, AllPatched
  PROVE  JitInv'
<1> DEFINE m == jitting.module  n == jitting.next
<1>1. jitting \in Pass /\ jitting.pass = "patch" /\ n \notin DOMAIN funcs[m]
  BY DEF JitInv, TypeOK, AllPatched, Passed, Idle, Pass
<1>2. /\ jitting' = Idle
      /\ UNCHANGED <<funcs, instrs, code, direct_call_offset, exec, generated_func, jits>>
  BY DEF AllPatched, program, linked
<1>3. \A k \in DOMAIN funcs[m] : k < n
  <2>1. m \in Modules /\ n \in Nat \ {0} BY <1>1 DEF Pass
  <2>2. DOMAIN funcs[m] = 1 .. Len(funcs[m]) /\ Len(funcs[m]) \in Nat BY <2>1 DEF JitInv, TypeOK
  <2> QED BY <2>1, <2>2, <1>1
<1>4. \A c \in DOMAIN exec : Finished(c)
  <2> SUFFICES ASSUME NEW c \in DOMAIN exec, ~(exec[c].jit < jits) PROVE Finished(c)
    BY DEF Finished
  <2>1. exec[c].jit = jits
    <3>1. exec[c].jit \in Nat /\ jits \in Nat BY CopyTyped DEF JitInv, TypeOK
    <3>2. exec[c].jit <= jits BY DEF JitInv, Copies
    <3> QED BY <3>1, <3>2
  <2>2. CopiedBefore(Len(funcs[m]) + 1) BY <1>1 DEF JitInv, Passes
  <2>3. \E k \in DOMAIN funcs[m] : c = generated_func[funcs[m][k]] BY <2>1, <2>2 DEF CopiedBefore
  <2> QED BY <2>3, <1>1, <1>3 DEF Finished
<1> HIDE DEF m, n
<1>5. TypeOK' BY <1>2 DEF JitInv, TypeOK
<1>6. Distinct' BY <1>2 DEF JitInv, Distinct
<1>7. Sites' BY <1>2 DEF JitInv, Sites, SitesOf, PatchedAt
<1>8. Copies' BY <1>2 DEF JitInv, Copies, LastCopy
<1>9. Passes' BY <1>2 DEF Idle, Passes
<1>10. CallsLinked' BY <1>2, <1>4 DEF JitInv, CallsLinked, IsNewest
<1> QED BY <1>5, <1>6, <1>7, <1>8, <1>9, <1>10 DEF JitInv
----------------------------------------------------------------------------
\* Patching changes the addresses in the newest copy of f and nothing else.
LEMMA CopyPatched ==
  ASSUME TypeOK, Sites, Copies, NEW f \in Funcs, generated_func[f] # 0,
         exec' = [exec EXCEPT ![generated_func[f]].addrs = AddressesOf(f, exec[generated_func[f]].addrs)],
         exec[generated_func[f]].calls = code[f]
  PROVE  LET c == generated_func[f] IN
         /\ exec' \in Seq(Copy) /\ DOMAIN exec' = DOMAIN exec /\ c \in DOMAIN exec
         /\ \A d \in DOMAIN exec : d # c => exec'[d] = exec[d]
         /\ exec'[c].func = f /\ exec'[c].jit = exec[c].jit /\ exec'[c].calls = code[f]
         /\ exec[c].func = f /\ Len(exec'[c].addrs) = Len(code[f])
         /\ \A o \in 1 .. Len(code[f]) : code[f][o] \in Funcs /\ exec'[c].addrs[o] = generated_func[code[f][o]]
<1> DEFINE c == generated_func[f]  a == exec[c].addrs  na == AddressesOf(f, a)
           new == [exec[c] EXCEPT !.addrs = na]
<1>1. c \in DOMAIN exec /\ exec[c].func = f BY DEF Copies, LastCopy
<1>2. /\ exec[c] \in Copy /\ a \in Seq(Nat) /\ Len(a) = Len(code[f])
      /\ code[f] \in Seq(Funcs) /\ generated_func \in [Funcs -> Nat]
  <2>1. exec[c] \in Copy /\ a \in Seq(Nat) BY <1>1, CopyTyped
  <2>2. Len(a) = Len(code[f]) BY <1>1 DEF Copies
  <2>3. code[f] \in Seq(Funcs) /\ generated_func \in [Funcs -> Nat] BY DEF TypeOK
  <2> QED BY <2>1, <2>2, <2>3
<1>3. DOMAIN a = 1 .. Len(code[f]) /\ Len(code[f]) \in Nat BY <1>2
<1>4. ASSUME NEW o \in 1 .. Len(code[f])
      PROVE  PatchedAt(f, o) /\ CalleeAt(f, o) = code[f][o] /\ code[f][o] \in Funcs
  <2>1. SitesOf(f) BY DEF Sites
  <2>2. PatchedAt(f, o) BY <2>1 DEF SitesOf
  <2>3. CalleeAt(f, o) = code[f][o] BY <2>1, <2>2 DEF SitesOf, PatchedAt, CalleeAt
  <2> QED BY <2>2, <2>3, <1>2
<1>5. na = [o \in 1 .. Len(code[f]) |-> generated_func[code[f][o]]]
  BY <1>3, <1>4 DEF AddressesOf
<1>6. na \in Seq(Nat) /\ Len(na) = Len(code[f])
  <2>1. \A o \in 1 .. Len(code[f]) : generated_func[code[f][o]] \in Nat BY <1>2, <1>4
  <2> QED BY <2>1, <1>3, <1>5
<1>7. exec' = [exec EXCEPT ![c] = new] OBVIOUS
<1> HIDE DEF na, a, c
<1>8. /\ new \in Copy /\ new.func = exec[c].func /\ new.jit = exec[c].jit
      /\ new.calls = exec[c].calls /\ new.addrs = na
  BY <1>2, <1>6 DEF Copy
<1> HIDE DEF new
<1>9. exec' \in Seq(Copy) /\ DOMAIN exec' = DOMAIN exec
  <2> HIDE DEF Copy
  <2>1. exec \in Seq(Copy) BY DEF TypeOK
  <2>2. c \in 1 .. Len(exec) /\ DOMAIN exec = 1 .. Len(exec) BY <2>1, <1>1
  <2>3. [exec EXCEPT ![c] = new] \in Seq(Copy) BY <2>1, <2>2, <1>8, ExceptSeq
  <2>4. DOMAIN [exec EXCEPT ![c] = new] = DOMAIN exec OBVIOUS
  <2> QED BY <2>3, <2>4, <1>7
<1>10. exec'[c] = new /\ \A d \in DOMAIN exec : d # c => exec'[d] = exec[d] BY <1>1, <1>7
<1>11. new.calls = code[f] BY <1>8 DEF c
<1>12. \A o \in 1 .. Len(code[f]) : code[f][o] \in Funcs /\ new.addrs[o] = generated_func[code[f][o]]
  BY <1>4, <1>5, <1>8
<1> QED BY <1>1, <1>6, <1>8, <1>9, <1>10, <1>11, <1>12 DEF c

LEMMA PatchCallsKeeps ==
  ASSUME JitInv, PatchCalls
  PROVE  JitInv'
<1> DEFINE f == f_next  m == jitting.module  n == jitting.next  c == generated_func[f]
<1>1. /\ f \in Funcs /\ m \in Modules /\ n \in DOMAIN funcs[m] /\ n \in Nat /\ jitting \in Pass
      /\ jitting.pass = "patch" /\ f = funcs[m][n] /\ DOMAIN funcs[m] = 1 .. Len(funcs[m])
      /\ Len(funcs[m]) \in Nat /\ \A k \in DOMAIN funcs[m] : funcs[m][k] \in Funcs
  BY InPassFacts DEF PatchCalls, f_next
<1>2. /\ UNCHANGED <<funcs, instrs, code, direct_call_offset, generated_func, jits>>
      /\ jitting' = [jitting EXCEPT !.next = @ + 1]
      /\ exec' = [exec EXCEPT ![c].addrs = AddressesOf(f, exec[c].addrs)]
  BY DEF PatchCalls, program
<1>3. /\ TypeOK /\ Distinct /\ Sites /\ Copies /\ Passes /\ CallsLinked /\ jits \in Nat
      /\ generated_func \in [Funcs -> Nat]
  BY DEF JitInv, TypeOK
<1>4. /\ \A d \in DOMAIN exec : exec[d].jit = jits => \E k \in DOMAIN funcs[m] : d = generated_func[funcs[m][k]]
      /\ \A k \in DOMAIN funcs[m] : /\ generated_func[funcs[m][k]] # 0
                                    /\ exec[generated_func[funcs[m][k]]].jit = jits
                                    /\ exec[generated_func[funcs[m][k]]].calls = code[funcs[m][k]]
  <2>1. CopiedBefore(Len(funcs[m]) + 1) BY <1>1, <1>3 DEF Passes
  <2>2. \A k \in DOMAIN funcs[m] : k < Len(funcs[m]) + 1 BY <1>1
  <2> QED BY <2>1, <2>2 DEF CopiedBefore
<1>5. c # 0 /\ exec[c].jit = jits /\ exec[c].calls = code[f] BY <1>1, <1>4
<1>6. /\ exec' \in Seq(Copy) /\ DOMAIN exec' = DOMAIN exec /\ c \in DOMAIN exec
      /\ \A d \in DOMAIN exec : d # c => exec'[d] = exec[d]
      /\ exec'[c].func = f /\ exec'[c].jit = exec[c].jit /\ exec'[c].calls = code[f]
      /\ exec[c].func = f /\ Len(exec'[c].addrs) = Len(code[f])
      /\ \A o \in 1 .. Len(code[f]) : code[f][o] \in Funcs /\ exec'[c].addrs[o] = generated_func[code[f][o]]
  BY <1>1, <1>2, <1>3, <1>5, CopyPatched
<1>7. /\ jitting'.module = m /\ jitting'.next = n + 1 /\ jitting'.pass = "patch" /\ jitting' \in Pass
  BY <1>1, <1>2 DEF Pass
<1> HIDE DEF f, m, n, c
<1>8. \A d \in DOMAIN exec : /\ exec'[d].func = exec[d].func /\ exec'[d].jit = exec[d].jit
                              /\ exec'[d].calls = exec[d].calls
  BY <1>5, <1>6
<1>9. TypeOK' BY <1>2, <1>3, <1>6, <1>7 DEF TypeOK
<1>10. Distinct' BY <1>2, <1>3 DEF Distinct
<1>11. Sites' BY <1>2, <1>3 DEF Sites, SitesOf, PatchedAt
<1>12. Copies'
  <2>1. ASSUME NEW d \in DOMAIN exec' PROVE exec'[d].jit <= jits /\ Len(exec'[d].addrs) = Len(exec'[d].calls)
    <3>1. CASE d = c BY <3>1, <1>3, <1>5, <1>6
    <3>2. CASE d # c BY <3>2, <1>3, <1>6 DEF Copies
    <3> QED BY <3>1, <3>2
  <2>2. ASSUME NEW g \in Funcs PROVE LastCopy(g)'
    <3>1. LastCopy(g) BY <1>3 DEF Copies
    <3> QED BY <3>1, <1>2, <1>6, <1>8 DEF LastCopy
  <2> QED BY <2>1, <2>2, <1>2 DEF Copies
<1>13. Passes'
  <2>1. funcs'[jitting'.module] = funcs[m] BY <1>2, <1>7
  <2>2. \A d \in DOMAIN exec' : exec'[d].jit = jits' =>
          \E k \in DOMAIN funcs[m] : k < Len(funcs[m]) + 1 /\ d = generated_func'[funcs[m][k]]
    <3>1. \A k \in DOMAIN funcs[m] : k < Len(funcs[m]) + 1 BY <1>1
    <3> QED BY <3>1, <1>2, <1>4, <1>6, <1>8
  <2>3. \A k \in DOMAIN funcs[m] : /\ generated_func'[funcs[m][k]] # 0
                                    /\ exec'[generated_func'[funcs[m][k]]].jit = jits'
                                    /\ exec'[generated_func'[funcs[m][k]]].calls = code'[funcs[m][k]]
    <3> SUFFICES ASSUME NEW k \in DOMAIN funcs[m]
                 PROVE  /\ generated_func'[funcs[m][k]] # 0
                        /\ exec'[generated_func'[funcs[m][k]]].jit = jits'
                        /\ exec'[generated_func'[funcs[m][k]]].calls = code'[funcs[m][k]]
      OBVIOUS
    <3>1. generated_func[funcs[m][k]] \in DOMAIN exec
      BY <1>1, <1>3, <1>4 DEF Copies, LastCopy
    <3> QED BY <3>1, <1>2, <1>4, <1>8
  <2>4. CopiedBefore(Len(funcs[jitting.module]) + 1)' BY <2>1, <2>2, <2>3 DEF CopiedBefore
  <2> QED BY <2>4, <1>7 DEF Passes
<1>14. CallsLinked'
  <2> SUFFICES ASSUME NEW d \in DOMAIN exec', Finished(d)', NEW o \in 1 .. Len(exec'[d].calls)
               PROVE  IsNewest(exec[d].addrs[o], exec[d].calls[o], exec[d].jit)'
    BY DEF CallsLinked
  <2>1. CASE d = c
    <3> DEFINE g == code[f][o]
    <3>1. /\ exec'[d].addrs[o] = generated_func[g] /\ exec'[d].calls[o] = g /\ exec'[d].jit = jits
          /\ g \in Funcs
      BY <2>1, <1>5, <1>6
    <3>2. LastCopy(g) BY <3>1, <1>3 DEF Copies
    <3>3. \A e \in DOMAIN exec : exec[e].jit <= jits BY <1>3 DEF Copies
    <3> HIDE DEF g
    <3> QED BY <3>1, <3>2, <3>3, <1>6, <1>8 DEF LastCopy, IsNewest
  <2>2. CASE d # c
    <3>1. exec'[d] = exec[d] /\ d \in DOMAIN exec BY <2>2, <1>6
    <3>2. Finished(d)
      <4>1. \/ exec'[d].jit < jits
            \/ \E k \in DOMAIN funcs[m] : k < n + 1 /\ d = generated_func[funcs[m][k]]
        <5>1. Finished(d)' OBVIOUS
        <5> QED BY <5>1, <1>2, <1>7 DEF Finished, IsIdle
      <4>2. CASE exec'[d].jit < jits BY <4>2, <3>1 DEF Finished
      <4>3. CASE \E k \in DOMAIN funcs[m] : k < n + 1 /\ d = generated_func[funcs[m][k]]
        <5>1. PICK k \in DOMAIN funcs[m] : k < n + 1 /\ d = generated_func[funcs[m][k]] BY <4>3
        <5>2. k # n BY <5>1, <2>2, <1>1 DEF c
        <5>3. k < n BY <5>1, <5>2, <1>1
        <5> QED BY <5>1, <5>3, <1>1 DEF Finished, m, n
      <4> QED BY <4>1, <4>2, <4>3
    <3>3. IsNewest(exec[d].addrs[o], exec[d].calls[o], exec[d].jit)
      BY <3>1, <3>2, <1>3 DEF CallsLinked
    <3> QED BY <3>1, <3>3, <1>6, <1>8 DEF IsNewest
  <2> QED BY <2>1, <2>2
<1> QED BY <1>9, <1>10, <1>11, <1>12, <1>13, <1>14 DEF JitInv
----------------------------------------------------------------------------
LEMMA NextKeeps == JitInv /\ [Next]_vars => JitInv'
<1> SUFFICES ASSUME JitInv, [Next]_vars PROVE JitInv'
  OBVIOUS
<1>1. CASE UNCHANGED vars
  <2>1. UNCHANGED <<funcs, instrs, linked, jitting>> BY <1>1 DEF vars, program
  <2> QED BY <2>1 DEF JitInv, linked, TypeOK, Distinct, Sites, SitesOf, PatchedAt, Copies, LastCopy,
                      Passes, CopiedBefore, CallsLinked, Finished, IsIdle, IsNewest
<1>2. ASSUME NEW m \in Modules, cow_module_create(m) \/ cow_module_free(m) PROVE JitInv'
  BY <1>2, HeapOnlyKeeps DEF cow_module_create, cow_module_free
<1>3. ASSUME NEW m \in Modules, Generate(m) PROVE JitInv'
  BY <1>3, GenerateKeeps
<1>4. ASSUME NEW m \in Modules, NEW f \in Funcs, cow_create_func(m, f) PROVE JitInv'
  BY <1>4, CreateFuncKeeps
<1>5. ASSUME NEW f \in Known, NEW callee \in Known, cow_builder_call_func(f, callee) PROVE JitInv'
  <2>1. Known \subseteq Funcs
    <3>1. Alive \subseteq Modules BY DEF Alive, Created
    <3>2. \A m \in Modules : In(m) \subseteq Funcs BY DEF In, JitInv, TypeOK
    <3> QED BY <3>1, <3>2 DEF Known
  <2> QED BY <2>1, <1>5, CallFuncKeeps
<1> QED BY <1>1, <1>2, <1>3, <1>4, <1>5, CopyCodeKeeps, AllCopiedKeeps, PatchCallsKeeps, AllPatchedKeeps DEF Next

\* Over any modules, functions, calls between them, JITs and frees, every copy
\* that a JIT is done with calls the right functions (cow.c:21-43).
THEOREM LinksStayRight == Spec => []CallsLinked
<1>1. JitInv => CallsLinked BY DEF JitInv
<1> QED BY <1>1, InitJit, NextKeeps, PTL DEF Spec
----------------------------------------------------------------------------
(***************************************************************************)
(* Proofs about the heap of modules, for any number of them.               *)
(***************************************************************************)
\* What cow_func_free frees of a function as it is.
Owned(f) == cow_func_free(f) \ NullData(f)

\* A function belongs to one module, which exists; one not created yet has no calls.
Owners ==
  /\ \A m \in Modules : In(m) # {} => Of("module", m) \in heap
  /\ \A m, n \in Modules : m # n => In(m) \cap In(n) = {}
  /\ \A f \in Unused : instrs[f] = <<>> /\ direct_call_offset[f] = <<>>
\* A function is never freed, and before its module is, nor are its parts.
Parts ==
  /\ \A m \in Modules : \A f \in In(m) : Of("func", f) \in heap
  /\ \A m \in Modules \ freed : In(m) # {} => Of("funcs.data", m) \in heap
  /\ \A m \in Modules \ freed : \A f \in In(m) : Owned(f) \subseteq heap
\* Functions that are called exist.
Callees ==
  /\ \A f \in Funcs : \A k \in DOMAIN instrs[f] : Of("func", instrs[f][k]) \in heap
  /\ \A f \in Funcs : \A k \in DOMAIN direct_call_offset[f] :
       Of("func", direct_call_offset[f][k].func) \in heap
Copied ==
  /\ \A c \in DOMAIN exec : Exec(c) \in heap
  /\ \A f \in Funcs : Len(direct_call_offset[f]) = Len(code[f])
  /\ ~IsIdle => /\ jitting.module \in Alive
                /\ \A f \in In(jitting.module) : Of("code.data", f) \in heap

HeapInv == NeverDangling /\ Owners /\ Parts /\ Callees /\ Copied
----------------------------------------------------------------------------
LEMMA InitHeap == Init => HeapInv
<1> SUFFICES ASSUME Init PROVE HeapInv
  OBVIOUS
<1>1. \A m \in Modules : In(m) = {}
  <2>1. \A m \in Modules : funcs[m] = <<>> BY DEF Init
  <2>2. ASSUME NEW s, s = <<>> PROVE DOMAIN s = {} BY <2>2
  <2>3. \A m \in Modules : DOMAIN funcs[m] = {} BY <2>1, <2>2
  <2> QED BY <2>3 DEF In
<1>2. NeverDangling BY DEF Init, NeverDangling
<1>3. Owners BY <1>1 DEF Owners, Init, Unused
<1>4. Parts BY <1>1 DEF Parts
<1>5. Callees BY DEF Init, Callees
<1>6. Copied BY DEF Init, Copied, IsIdle, Idle
<1> QED BY <1>2, <1>3, <1>4, <1>5, <1>6 DEF HeapInv

\* The objects freed with a function, one by one.
LEMMA OwnedObjects ==
  ASSUME NEW f, NEW o
  PROVE  o \in Owned(f) <=>
           \/ o \in {Of("args", f), Of("block", f), Of("blocks.data", f)}
           \/ o = Of("values.data", f) /\ instrs[f] # <<>>
           \/ o = Of("offsets.data", f) /\ direct_call_offset[f] # <<>>
           \/ \E k \in DOMAIN instrs[f] : o = Nth("value", f, k) \/ o = Nth("instr", f, k)
           \/ \E k \in DOMAIN direct_call_offset[f] : o = Nth("offset", f, k)
<1>1. instrs[f] = <<>> => DOMAIN instrs[f] = {} OBVIOUS
<1>2. direct_call_offset[f] = <<>> => DOMAIN direct_call_offset[f] = {} OBVIOUS
<1> QED BY <1>1, <1>2 DEF Owned, cow_func_free, cow_builder_free, NullData, Of, Nth, All

FuncKinds == {"args", "block", "blocks.data", "values.data", "offsets.data", "value", "instr", "offset"}

LEMMA OwnedShape ==
  ASSUME NEW f, NEW o \in Owned(f)
  PROVE  o[1] \in FuncKinds /\ o[2] = f
BY OwnedObjects DEF FuncKinds, Of, Nth

\* Objects stay when nothing is freed.
LEMMA OwnedSame ==
  ASSUME NEW f, instrs'[f] = instrs[f], direct_call_offset'[f] = direct_call_offset[f]
  PROVE  Owned(f)' = Owned(f)
BY DEF Owned, cow_func_free, cow_builder_free, NullData, All
----------------------------------------------------------------------------
\* What only allocates and uses nothing that was freed.
LEMMA GrowingHeap ==
  ASSUME HeapInv, UNCHANGED <<funcs, instrs, code, direct_call_offset, freed>>,
         ~dangling', heap \subseteq heap'
  PROVE  NeverDangling' /\ Owners' /\ Parts' /\ Callees'
<1>1. \A f : Owned(f)' = Owned(f) BY DEF Owned, cow_func_free, cow_builder_free, NullData, All
<1>2. \A n : In(n)' = In(n) BY DEF In
<1>3. NeverDangling' BY DEF NeverDangling
<1>4. Owners' BY <1>2 DEF HeapInv, Owners, Of, Unused
<1>5. Parts' BY <1>1, <1>2 DEF HeapInv, Parts, Of
<1>6. Callees' BY DEF HeapInv, Callees, Of
<1> QED BY <1>3, <1>4, <1>5, <1>6

LEMMA CreateModuleHeap ==
  ASSUME JitInv, HeapInv, NEW m \in Modules, cow_module_create(m)
  PROVE  HeapInv'
<1>1. /\ UNCHANGED <<funcs, instrs, code, direct_call_offset, exec, jitting, freed>>
      /\ ~dangling' /\ heap \subseteq heap' /\ IsIdle
  BY DEF cow_module_create, Allocate, program, linked, HeapInv, NeverDangling
<1>2. Copied' BY <1>1 DEF HeapInv, Copied, IsIdle, Exec
<1> QED BY <1>1, <1>2, GrowingHeap DEF HeapInv

LEMMA CreateFuncHeap ==
  ASSUME JitInv, HeapInv, NEW m \in Modules, NEW f \in Funcs, cow_create_func(m, f)
  PROVE  HeapInv'
<1>1. /\ UNCHANGED <<instrs, code, direct_call_offset, exec, jitting, freed>>
      /\ m \in Alive /\ f \in Unused /\ IsIdle
      /\ funcs' = [funcs EXCEPT ![m] = Append(@, f)]
      /\ dangling' = (dangling \/ ~({Of("module", m)} \subseteq heap))
      /\ heap' = heap \cup {Of("func", f), Of("args", f), Of("funcs.data", m), Of("block", f), Of("blocks.data", f)}
  BY DEF cow_create_func, Use, Allocate, linked
<1>2. funcs \in [Modules -> Seq(Funcs)] BY DEF JitInv, TypeOK
<1>3. In(m)' = In(m) \cup {f}
  <2>1. funcs'[m] = Append(funcs[m], f) /\ funcs[m] \in Seq(Funcs) BY <1>1, <1>2
  <2>2. \A k \in 1 .. Len(funcs[m]) : funcs'[m][k] = funcs[m][k] BY <2>1
  <2>3. DOMAIN funcs'[m] = 1 .. Len(funcs[m]) + 1 /\ funcs'[m][Len(funcs[m]) + 1] = f BY <2>1
  <2>4. DOMAIN funcs[m] = 1 .. Len(funcs[m]) /\ Len(funcs[m]) \in Nat BY <2>1
  <2> HIDE <1>1
  <2> QED BY <2>2, <2>3, <2>4 DEF In
<1>4. \A n \in Modules : n # m => In(n)' = In(n) BY <1>1, <1>2 DEF In
<1>5. \A g : Owned(g)' = Owned(g) BY <1>1 DEF Owned, cow_func_free, cow_builder_free, NullData, All
<1>6. instrs[f] = <<>> /\ direct_call_offset[f] = <<>> /\ \A n \in Modules : f \notin In(n)
  BY <1>1 DEF HeapInv, Owners, Unused
<1>7. Owned(f) \subseteq {Of("args", f), Of("block", f), Of("blocks.data", f)}
  <2>1. DOMAIN instrs[f] = {} /\ DOMAIN direct_call_offset[f] = {} BY <1>6
  <2> QED BY <2>1, <1>6, OwnedObjects
<1>8. m \in Modules /\ Of("module", m) \in heap /\ m \notin freed BY <1>1 DEF Alive, Created
<1>9. NeverDangling' BY <1>1, <1>8 DEF HeapInv, NeverDangling
<1>10. Owners'
  <2>1. \A n \in Modules : In(n)' # {} => Of("module", n) \in heap'
    BY <1>1, <1>4, <1>8 DEF HeapInv, Owners
  <2>2. \A n, p \in Modules : n # p => In(n)' \cap In(p)' = {}
    BY <1>3, <1>4, <1>6 DEF HeapInv, Owners
  <2>3. \A g \in Unused' : g \in Unused
    BY <1>3, <1>4 DEF Unused
  <2>4. \A g \in Unused' : instrs'[g] = <<>> /\ direct_call_offset'[g] = <<>>
    BY <2>3, <1>1 DEF HeapInv, Owners
  <2> QED BY <2>1, <2>2, <2>4 DEF Owners, Of
<1>11. Parts'
  <2>1. \A n \in Modules : \A g \in In(n)' : Of("func", g) \in heap'
    BY <1>1, <1>3, <1>4 DEF HeapInv, Parts
  <2>2. \A n \in Modules \ freed' : In(n)' # {} => Of("funcs.data", n) \in heap'
    BY <1>1, <1>4 DEF HeapInv, Parts
  <2>3. \A n \in Modules \ freed' : \A g \in In(n)' : Owned(g)' \subseteq heap'
    <3> SUFFICES ASSUME NEW n \in Modules \ freed', NEW g \in In(n)' PROVE Owned(g) \subseteq heap'
      BY <1>5
    <3>1. CASE g = f BY <3>1, <1>1, <1>7
    <3>2. CASE g # f
      <4>1. g \in In(n) /\ n \in Modules \ freed BY <3>2, <1>1, <1>3, <1>4
      <4> QED BY <4>1, <1>1 DEF HeapInv, Parts
    <3> QED BY <3>1, <3>2
  <2> QED BY <2>1, <2>2, <2>3 DEF Parts, Of
<1>12. Callees' BY <1>1 DEF HeapInv, Callees, Of
<1>13. Copied' BY <1>1 DEF HeapInv, Copied, IsIdle, Exec
<1> QED BY <1>9, <1>10, <1>11, <1>12, <1>13 DEF HeapInv

LEMMA CallFuncHeap ==
  ASSUME JitInv, HeapInv, NEW f \in Known, NEW callee \in Known, cow_builder_call_func(f, callee)
  PROVE  HeapInv'
<1> DEFINE n == Len(instrs[f]) + 1
<1>1. /\ UNCHANGED <<funcs, code, direct_call_offset, exec, jitting, freed>> /\ IsIdle
      /\ instrs' = [instrs EXCEPT ![f] = Append(@, callee)]
      /\ dangling' = (dangling \/ ~({Of("func", f), Of("block", f), Of("func", callee)} \subseteq heap))
      /\ heap' = heap \cup
           {Nth("instr", f, n), Nth("value", f, n), Of("instructions.data", f), Of("values.data", f)}
  BY DEF cow_builder_call_func, Use, Allocate, linked
<1>2. funcs \in [Modules -> Seq(Funcs)] /\ instrs \in [Funcs -> Seq(Funcs)]
  BY DEF JitInv, TypeOK
<1>3. PICK m \in Alive : f \in In(m) BY DEF Known
<1>4. m \in Modules /\ m \notin freed BY <1>3 DEF Alive, Created
<1>5. PICK mc \in Modules : callee \in In(mc) BY DEF Known, Alive, Created
<1>6. f \in Funcs /\ callee \in Funcs BY <1>2, <1>3, <1>4, <1>5 DEF In
<1>7. Of("func", f) \in heap /\ Of("func", callee) \in heap /\ Owned(f) \subseteq heap
  BY <1>3, <1>4, <1>5 DEF HeapInv, Parts
<1>8. instrs'[f] = Append(instrs[f], callee) /\ instrs[f] \in Seq(Funcs) BY <1>1, <1>2, <1>6
<1>9. /\ DOMAIN instrs'[f] = DOMAIN instrs[f] \cup {n}
      /\ \A k \in DOMAIN instrs[f] : instrs'[f][k] = instrs[f][k]
      /\ instrs'[f][n] = callee
  <2>1. DOMAIN instrs[f] = 1 .. Len(instrs[f]) /\ Len(instrs[f]) \in Nat BY <1>8
  <2>2. DOMAIN instrs'[f] = 1 .. n BY <1>8
  <2>3. \A k \in 1 .. Len(instrs[f]) : instrs'[f][k] = instrs[f][k] BY <1>8
  <2>4. instrs'[f][n] = callee BY <1>8
  <2> QED BY <2>1, <2>2, <2>3, <2>4
<1>10. \A g \in Funcs : g # f => instrs'[g] = instrs[g] BY <1>1, <1>2
<1> HIDE DEF n
<1>11. \A g \in Funcs : g # f => Owned(g)' = Owned(g)
  BY <1>1, <1>10 DEF Owned, cow_func_free, cow_builder_free, NullData, All
<1>12. Owned(f)' \subseteq heap'
  <2> SUFFICES ASSUME NEW o \in Owned(f)' PROVE o \in heap'
    OBVIOUS
  <2>1. \/ o \in {Of("args", f), Of("block", f), Of("blocks.data", f)}
        \/ o = Of("values.data", f)
        \/ o = Of("offsets.data", f) /\ direct_call_offset[f] # <<>>
        \/ \E k \in DOMAIN instrs'[f] : o = Nth("value", f, k) \/ o = Nth("instr", f, k)
        \/ \E k \in DOMAIN direct_call_offset[f] : o = Nth("offset", f, k)
    BY <1>1 DEF Owned, cow_func_free, cow_builder_free, NullData, Of, Nth, All
  <2>2. \/ o \in Owned(f) \/ o = Of("values.data", f) \/ o = Nth("value", f, n) \/ o = Nth("instr", f, n)
    BY <2>1, <1>9, OwnedObjects
  <2> QED BY <2>2, <1>1, <1>7
<1>13. \A p : In(p)' = In(p) BY <1>1 DEF In
<1>14. f \notin Unused BY <1>3, <1>4 DEF Unused
<1>15. NeverDangling'
  <2>1. Of("block", f) \in heap BY <1>7, OwnedObjects
  <2> QED BY <2>1, <1>1, <1>7 DEF HeapInv, NeverDangling
<1>16. Owners'
  <2>1. Unused' = Unused BY <1>13 DEF Unused
  <2>2. \A g \in Unused : instrs'[g] = instrs[g] BY <1>10, <1>14 DEF Unused
  <2> QED BY <2>1, <2>2, <1>1, <1>13 DEF HeapInv, Owners, Of
<1>17. Parts'
  <2>1. \A p \in Modules \ freed' : \A g \in In(p)' : Owned(g)' \subseteq heap'
    <3> SUFFICES ASSUME NEW p \in Modules \ freed', NEW g \in In(p)' PROVE Owned(g)' \subseteq heap'
      OBVIOUS
    <3>1. g \in In(p) /\ p \in Modules \ freed BY <1>1, <1>13
    <3>2. g \in Funcs BY <3>1, <1>2 DEF In
    <3>3. Owned(g) \subseteq heap BY <3>1 DEF HeapInv, Parts
    <3>4. CASE g = f BY <3>4, <1>12
    <3>5. CASE g # f
      <4>1. Owned(g)' = Owned(g) BY <3>2, <3>5, <1>11
      <4> QED BY <4>1, <3>3, <1>1
    <3> QED BY <3>4, <3>5
  <2> QED BY <2>1, <1>1, <1>13 DEF HeapInv, Parts, Of
<1>18. Callees'
  <2>1. ASSUME NEW g \in Funcs, NEW k \in DOMAIN instrs'[g] PROVE Of("func", instrs'[g][k]) \in heap'
    <3>1. CASE g = f BY <3>1, <2>1, <1>1, <1>7, <1>9, <1>6 DEF HeapInv, Callees
    <3>2. CASE g # f BY <3>2, <2>1, <1>1, <1>10 DEF HeapInv, Callees
    <3> QED BY <3>1, <3>2
  <2> QED BY <2>1, <1>1 DEF HeapInv, Callees, Of
<1>19. Copied' BY <1>1 DEF HeapInv, Copied, IsIdle, Exec
<1> QED BY <1>15, <1>16, <1>17, <1>18, <1>19 DEF HeapInv
----------------------------------------------------------------------------
LEMMA OffsetsLonger ==
  ASSUME TypeOK, NEW f \in Funcs
  PROVE  LET d == direct_call_offset[f]
             n == instrs[f]
             dd == OffsetsAfter(f)
         IN  /\ Len(dd) = Len(d) + Len(n) /\ DOMAIN dd = 1 .. Len(d) + Len(n)
             /\ DOMAIN d = 1 .. Len(d) /\ DOMAIN n = 1 .. Len(n) /\ Len(d) \in Nat /\ Len(n) \in Nat
             /\ \A k \in 1 .. Len(d) : dd[k] = d[k]
             /\ \A k \in 1 .. Len(n) : dd[Len(d) + k].func = n[k]
<1> DEFINE c == code[f]  n == instrs[f]  d == direct_call_offset[f]
           new == [k \in 1 .. Len(n) |-> [offset |-> Len(c) + k, func |-> n[k]]]
           dd == OffsetsAfter(f)
<1>1. c \in Seq(Funcs) /\ n \in Seq(Funcs) /\ d \in Seq(Site) BY DEF TypeOK
<1>2. dd = d \o new BY DEF OffsetsAfter
<1>3. new \in Seq(Site) /\ Len(new) = Len(n) BY <1>1 DEF Site
<1>4. \A k \in 1 .. Len(n) : new[k].func = n[k] OBVIOUS
<1>5. DOMAIN d = 1 .. Len(d) /\ DOMAIN n = 1 .. Len(n) /\ Len(d) \in Nat /\ Len(n) \in Nat BY <1>1
<1> HIDE DEF c, n, d, new, dd, Site
<1>6. d \o new \in Seq(Site) BY <1>1, <1>3
<1>7. Len(d \o new) = Len(d) + Len(new) BY <1>1, <1>3
<1>8. \A k \in 1 .. Len(d) : (d \o new)[k] = d[k] BY <1>1, <1>3, Appended
<1>9. \A k \in 1 .. Len(new) : (d \o new)[Len(d) + k] = new[k] BY <1>1, <1>3, Appended
<1>10. DOMAIN (d \o new) = 1 .. Len(d) + Len(n) BY <1>3, <1>6, <1>7
<1>11. \A k \in 1 .. Len(n) : dd[Len(d) + k].func = n[k] BY <1>2, <1>3, <1>4, <1>9
<1> QED BY <1>2, <1>3, <1>5, <1>7, <1>8, <1>10, <1>11 DEF d, n, dd

LEMMA GenerateHeap ==
  ASSUME JitInv, HeapInv, NEW m \in Modules, Generate(m)
  PROVE  HeapInv'
<1> DEFINE New(f) == {Nth("offset", f, Len(code[f]) + k) : k \in DOMAIN instrs[f]} \cup {Of("code.data", f)} \cup
                     (IF instrs[f] # <<>> THEN {Of("offsets.data", f)} ELSE {})
           Used == {Of("module", m)} \cup UNION {All("instr", f, instrs[f]) : f \in In(m)}
<1>1. /\ UNCHANGED <<funcs, instrs, exec, generated_func, freed>> /\ IsIdle /\ m \in Alive
      /\ code' = [f \in Funcs |-> IF f \in In(m) THEN code[f] \o instrs[f] ELSE code[f]]
      /\ direct_call_offset' =
           [f \in Funcs |-> IF f \in In(m) THEN OffsetsAfter(f) ELSE direct_call_offset[f]]
      /\ jitting' = [pass |-> "copy", module |-> m, next |-> 1]
  BY DEF Generate, program
<1>2. dangling' = (dangling \/ ~(Used \subseteq heap)) /\ heap' = heap \cup UNION {New(f) : f \in In(m)}
  BY DEF Generate, Use, Allocate
<1>3. m \notin freed /\ Of("module", m) \in heap /\ TypeOK BY <1>1 DEF Alive, Created, JitInv
<1>4. In(m) \subseteq Funcs BY <1>3 DEF TypeOK, In
<1>5. \A f \in In(m) : Owned(f) \subseteq heap BY <1>3 DEF HeapInv, Parts
<1>6. Used \subseteq heap
  <2>1. ASSUME NEW f \in In(m), NEW k \in DOMAIN instrs[f] PROVE Nth("instr", f, k) \in heap
    BY <1>5, OwnedObjects
  <2> QED BY <2>1, <1>3 DEF All
<1>7. heap \subseteq heap' /\ \A f \in In(m) : New(f) \subseteq heap' BY <1>2
<1>8. \A f \in In(m) : code'[f] = code[f] \o instrs[f] /\ direct_call_offset'[f] = OffsetsAfter(f)
  BY <1>1, <1>4
<1>9. \A f \in Funcs : f \notin In(m) =>
        code'[f] = code[f] /\ direct_call_offset'[f] = direct_call_offset[f]
  BY <1>1
<1>10. \A p : In(p)' = In(p) BY <1>1 DEF In
<1>11. ASSUME NEW f \in In(m) PROVE Owned(f)' \subseteq heap'
  <2> SUFFICES ASSUME NEW o \in Owned(f)' PROVE o \in heap'
    OBVIOUS
  <2> DEFINE d == direct_call_offset[f]  dd == direct_call_offset'[f]
  <2>1. \/ o \in {Of("args", f), Of("block", f), Of("blocks.data", f)}
        \/ o = Of("values.data", f) /\ instrs[f] # <<>>
        \/ o = Of("offsets.data", f) /\ dd # <<>>
        \/ \E k \in DOMAIN instrs[f] : o = Nth("value", f, k) \/ o = Nth("instr", f, k)
        \/ \E k \in DOMAIN dd : o = Nth("offset", f, k)
    BY <1>1 DEF Owned, cow_func_free, cow_builder_free, NullData, Of, Nth, All
  <2>2. /\ DOMAIN dd = 1 .. Len(d) + Len(instrs[f]) /\ DOMAIN d = 1 .. Len(d)
        /\ DOMAIN instrs[f] = 1 .. Len(instrs[f]) /\ Len(d) \in Nat /\ Len(instrs[f]) \in Nat
    BY <1>3, <1>4, <1>8, OffsetsLonger
  <2>3. Len(d) = Len(code[f]) BY <1>4 DEF HeapInv, Copied
  <2>4. Owned(f) \subseteq heap BY <1>5
  <2>5. CASE o = Of("offsets.data", f) /\ dd # <<>>
    <3>1. CASE instrs[f] # <<>> BY <3>1, <2>5, <1>7
    <3>2. CASE d # <<>> BY <3>2, <2>5, <2>4, <1>7, OwnedObjects
    <3>3. instrs[f] # <<>> \/ d # <<>>
      <4>1. SUFFICES ASSUME instrs[f] = <<>>, d = <<>> PROVE FALSE
        OBVIOUS
      <4>2. direct_call_offset'[f] = <<>> \o [k \in 1 .. 0 |-> [offset |-> Len(code[f]) + k, func |-> instrs[f][k]]]
        BY <4>1, <1>8 DEF OffsetsAfter
      <4>3. dd \in Seq(Site) /\ Len(dd) = 0
        <5>1. dd \in Seq(Site)
          <6>1. code'[f] = code[f] \o instrs[f] /\ direct_call_offset'[f] = OffsetsAfter(f) BY <1>8
          <6> QED BY <6>1, <1>3, <1>4, OffsetsFit DEF JitInv
        <5>2. Len(dd) = Len(d) + Len(instrs[f]) BY <1>3, <1>4, <1>8, OffsetsLonger
        <5> QED BY <4>1, <5>1, <5>2
      <4>4. dd = <<>>
        <5> HIDE DEF dd, Site
        <5> QED BY <4>3
      <4> QED BY <4>4, <2>5
    <3> QED BY <3>1, <3>2, <3>3
  <2>6. CASE \E k \in DOMAIN dd : o = Nth("offset", f, k)
    <3>1. PICK k \in DOMAIN dd : o = Nth("offset", f, k) BY <2>6
    <3>2. CASE k \in DOMAIN d BY <3>1, <3>2, <2>4, <1>7, OwnedObjects
    <3>3. CASE k \notin DOMAIN d
      <4> DEFINE ld == Len(d)  ln == Len(instrs[f])
      <4>4. k \in 1 .. ld + ln /\ k \notin 1 .. ld /\ ld \in Nat /\ ln \in Nat /\ DOMAIN instrs[f] = 1 .. ln
        BY <3>1, <3>3, <2>2
      <4>5. ld = Len(code[f]) BY <2>3
      <4> HIDE DEF d, dd, ld, ln
      <4>6. k - ld \in 1 .. ln /\ k = ld + (k - ld) BY <4>4
      <4>1. k - ld \in DOMAIN instrs[f] BY <4>4, <4>6
      <4>2. k = Len(code[f]) + (k - ld) BY <4>5, <4>6
      <4>3. o \in New(f) BY <4>1, <4>2, <3>1
      <4> QED BY <4>3, <1>7
    <3> QED BY <3>2, <3>3
  <2>7. CASE ~(o = Of("offsets.data", f) /\ dd # <<>>) /\ ~\E k \in DOMAIN dd : o = Nth("offset", f, k)
    <3>1. o \in Owned(f) BY <2>1, <2>7, OwnedObjects
    <3> QED BY <3>1, <2>4, <1>7
  <2> QED BY <2>5, <2>6, <2>7
<1>12. NeverDangling' BY <1>2, <1>6 DEF HeapInv, NeverDangling
<1>13. Owners'
  <2>1. Unused' = Unused BY <1>10 DEF Unused
  <2>2. \A g \in Unused : direct_call_offset'[g] = direct_call_offset[g] BY <1>3, <1>9 DEF Unused
  <2> QED BY <2>1, <2>2, <1>1, <1>7, <1>10 DEF HeapInv, Owners, Of
<1>14. Parts'
  <2>1. \A p \in Modules \ freed' : \A g \in In(p)' : Owned(g)' \subseteq heap'
    <3> SUFFICES ASSUME NEW p \in Modules \ freed', NEW g \in In(p)' PROVE Owned(g)' \subseteq heap'
      OBVIOUS
    <3>4. g \in In(p) /\ p \in Modules \ freed BY <1>1, <1>10
    <3>5. g \in Funcs BY <3>4, <1>3 DEF TypeOK, In
    <3>1. g \in Funcs /\ Owned(g) \subseteq heap BY <3>4, <3>5 DEF HeapInv, Parts
    <3>2. CASE g \in In(m) BY <3>2, <1>11
    <3>3. CASE g \notin In(m)
      <4>1. Owned(g)' = Owned(g) BY <3>1, <3>3, <1>1, <1>9, OwnedSame
      <4> QED BY <4>1, <3>1, <1>7
    <3> QED BY <3>2, <3>3
  <2> QED BY <2>1, <1>1, <1>7, <1>10 DEF HeapInv, Parts, Of
<1>15. Callees'
  <2>1. ASSUME NEW f \in Funcs, NEW k \in DOMAIN direct_call_offset'[f]
        PROVE  Of("func", direct_call_offset'[f][k].func) \in heap'
    <3>1. CASE f \notin In(m) BY <3>1, <2>1, <1>7, <1>9 DEF HeapInv, Callees
    <3>2. CASE f \in In(m)
      <4> DEFINE d == direct_call_offset[f]  dd == direct_call_offset'[f]
      <4>1. /\ DOMAIN dd = 1 .. Len(d) + Len(instrs[f]) /\ DOMAIN d = 1 .. Len(d)
            /\ DOMAIN instrs[f] = 1 .. Len(instrs[f]) /\ Len(d) \in Nat /\ Len(instrs[f]) \in Nat
            /\ \A j \in 1 .. Len(d) : dd[j] = d[j]
            /\ \A j \in 1 .. Len(instrs[f]) : dd[Len(d) + j].func = instrs[f][j]
        BY <3>2, <1>3, <1>4, <1>8, OffsetsLonger
      <4> HIDE DEF d, dd
      <4>2. k \in DOMAIN dd BY <2>1 DEF dd
      <4>3. CASE k \in 1 .. Len(d)
        <5>1. dd[k] = d[k] /\ k \in DOMAIN d BY <4>1, <4>3
        <5> QED BY <5>1, <1>7 DEF d, dd, HeapInv, Callees
      <4>4. CASE k \notin 1 .. Len(d)
        <5>1. k - Len(d) \in 1 .. Len(instrs[f]) /\ k = Len(d) + (k - Len(d)) BY <4>1, <4>2, <4>4
        <5>2. dd[k].func = instrs[f][k - Len(d)] BY <5>1, <4>1
        <5>3. Of("func", instrs[f][k - Len(d)]) \in heap BY <5>1, <4>1 DEF HeapInv, Callees
        <5> QED BY <5>2, <5>3, <1>7 DEF dd
      <4> QED BY <4>3, <4>4
    <3> QED BY <3>1, <3>2
  <2> QED BY <2>1, <1>1, <1>7 DEF HeapInv, Callees, Of
<1>16. Copied'
  <2>1. \A c \in DOMAIN exec' : Exec(c) \in heap' BY <1>1, <1>7 DEF HeapInv, Copied
  <2>2. ASSUME NEW f \in Funcs PROVE Len(direct_call_offset'[f]) = Len(code'[f])
    <3>1. CASE f \notin In(m) BY <3>1, <1>9 DEF HeapInv, Copied
    <3>2. CASE f \in In(m)
      <4>1. Len(direct_call_offset'[f]) = Len(direct_call_offset[f]) + Len(instrs[f])
        BY <3>2, <1>3, <1>8, OffsetsLonger
      <4>2. code[f] \in Seq(Funcs) /\ instrs[f] \in Seq(Funcs) BY <1>3 DEF TypeOK
      <4>5. code'[f] = code[f] \o instrs[f] BY <3>2, <1>8
      <4>3. Len(code'[f]) = Len(code[f]) + Len(instrs[f]) BY <4>2, <4>5, Appended
      <4> QED BY <4>1, <4>3 DEF HeapInv, Copied
    <3> QED BY <3>1, <3>2
  <2>3. jitting'.module \in Alive'
    <3>1. jitting'.module = m BY <1>1
    <3> QED BY <3>1, <1>1, <1>3, <1>7 DEF Alive, Created, Of
  <2>4. \A f \in In(jitting.module)' : Of("code.data", f) \in heap'
    <3>1. In(jitting.module)' = In(m) BY <1>1 DEF In
    <3> QED BY <3>1, <1>7
  <2> QED BY <2>1, <2>2, <2>3, <2>4 DEF Copied, Exec, Of
<1> QED BY <1>12, <1>13, <1>14, <1>15, <1>16 DEF HeapInv
----------------------------------------------------------------------------
LEMMA CopyCodeHeap ==
  ASSUME JitInv, HeapInv, CopyCode
  PROVE  HeapInv'
<1> DEFINE f == f_next  m == jitting.module  N == Len(exec) + 1
<1>1. /\ f \in Funcs /\ m \in Modules /\ jitting \in Pass /\ ~IsIdle /\ f \in In(m)
  BY InPassFacts DEF CopyCode, f_next, In
<1>2. /\ UNCHANGED <<funcs, instrs, code, direct_call_offset, freed>>
      /\ jitting' = [jitting EXCEPT !.next = @ + 1]
      /\ exec' = Append(exec, NewCopy(f))
      /\ dangling' = (dangling \/ ~({Of("func", f), Of("code.data", f)} \subseteq heap))
      /\ heap' = heap \cup {Exec(N)}
  BY DEF CopyCode, program, NewCopy, Use, Allocate
<1>3. /\ m \in Alive /\ \A g \in In(m) : Of("code.data", g) \in heap
  BY <1>1 DEF HeapInv, Copied
<1>4. Of("func", f) \in heap BY <1>1 DEF HeapInv, Parts
<1>5. ~dangling'
  <2>1. Of("code.data", f) \in heap BY <1>1, <1>3
  <2> HIDE DEF f
  <2> QED BY <2>1, <1>2, <1>4 DEF HeapInv, NeverDangling
<1>6. jitting'.module = m BY <1>1, <1>2 DEF Pass
<1>7. \A c \in DOMAIN exec' : c \in DOMAIN exec \/ c = N
  <2>1. DOMAIN exec' = 1 .. N /\ DOMAIN exec = 1 .. Len(exec) /\ Len(exec) \in Nat
    BY <1>1, <1>2, CopyAppended DEF JitInv
  <2> QED BY <2>1
<1> HIDE DEF f, m, N
<1>8. Copied'
  <2>1. \A c \in DOMAIN exec' : Exec(c) \in heap' BY <1>2, <1>7 DEF HeapInv, Copied
  <2>2. \A g \in Funcs : Len(direct_call_offset'[g]) = Len(code'[g]) BY <1>2 DEF HeapInv, Copied
  <2>3. jitting'.module \in Alive'
    <3>1. Alive \subseteq Alive' BY <1>2 DEF Alive, Created, Of
    <3> QED BY <3>1, <1>3, <1>6
  <2>4. \A g \in In(jitting.module)' : Of("code.data", g) \in heap'
    <3>1. In(jitting.module)' = In(m) BY <1>2, <1>6 DEF In
    <3> QED BY <3>1, <1>2, <1>3
  <2> QED BY <2>1, <2>2, <2>3, <2>4 DEF Copied, Exec, Of
<1> QED BY <1>2, <1>5, <1>8, GrowingHeap DEF HeapInv

LEMMA AllCopiedHeap ==
  ASSUME JitInv, HeapInv, AllCopied
  PROVE  HeapInv'
<1>1. jitting \in Pass /\ ~IsIdle BY DEF JitInv, TypeOK, AllCopied, Passed, Idle, Pass, IsIdle
<1>2. /\ UNCHANGED <<funcs, instrs, code, direct_call_offset, exec, heap, freed>> /\ ~dangling'
      /\ jitting' = [jitting EXCEPT !.pass = "patch", !.next = 1]
  BY DEF AllCopied, program, linked, HeapInv, NeverDangling
<1>3. jitting'.module = jitting.module
  <2>1. PICK p \in {"copy", "patch"}, x \in Modules, k \in Nat \ {0} :
          jitting = [pass |-> p, module |-> x, next |-> k]
    BY <1>1 DEF Pass
  <2> QED BY <2>1, <1>2
<1>4. Copied' BY <1>1, <1>2, <1>3 DEF HeapInv, Copied, Alive, Created, In, Exec, Of
<1> QED BY <1>2, <1>4, GrowingHeap DEF HeapInv

LEMMA AllPatchedHeap ==
  ASSUME JitInv, HeapInv, AllPatched
  PROVE  HeapInv'
<1>1. /\ UNCHANGED <<funcs, instrs, code, direct_call_offset, exec, heap, freed>> /\ ~dangling'
      /\ jitting' = Idle
  BY DEF AllPatched, program, linked, HeapInv, NeverDangling
<1>2. Copied' BY <1>1 DEF HeapInv, Copied, IsIdle, Idle, Exec
<1> QED BY <1>1, <1>2, GrowingHeap DEF HeapInv

LEMMA PatchCallsHeap ==
  ASSUME JitInv, HeapInv, PatchCalls
  PROVE  HeapInv'
<1> DEFINE f == f_next  m == jitting.module  c == generated_func[f]  d == direct_call_offset[f]
           Used == {Of("func", f), Exec(c)} \cup All("offset", f, d) \cup {Of("func", d[k].func) : k \in DOMAIN d}
<1>1. /\ f \in Funcs /\ m \in Modules /\ jitting \in Pass /\ ~IsIdle /\ jitting.pass = "patch"
      /\ f \in In(m) /\ \E k \in 1 .. Len(funcs[m]) : f = funcs[m][k]
  BY InPassFacts DEF PatchCalls, f_next, In
<1>2. /\ UNCHANGED <<funcs, instrs, code, direct_call_offset, heap, freed>>
      /\ jitting' = [jitting EXCEPT !.next = @ + 1]
      /\ exec' = [exec EXCEPT ![c].addrs = AddressesOf(f, exec[c].addrs)]
      /\ dangling' = (dangling \/ ~(Used \subseteq heap))
  BY DEF PatchCalls, program, Use
<1>3. m \in Alive /\ m \in Modules \ freed BY <1>1 DEF HeapInv, Copied, Alive, Created
<1>4. Owned(f) \subseteq heap /\ Of("func", f) \in heap BY <1>1, <1>3 DEF HeapInv, Parts
<1>5. Exec(c) \in heap
  <2>1. PICK k \in 1 .. Len(funcs[m]) : f = funcs[m][k] BY <1>1
  <2>2. k < Len(funcs[m]) + 1 /\ k \in DOMAIN funcs[m]
    <3>1. funcs[m] \in Seq(Funcs) BY <1>1 DEF JitInv, TypeOK
    <3>2. DOMAIN funcs[m] = 1 .. Len(funcs[m]) /\ Len(funcs[m]) \in Nat BY <3>1
    <3> QED BY <3>2
  <2>3. c # 0
    <3>1. CopiedBefore(Len(funcs[m]) + 1) BY <1>1 DEF JitInv, Passes
    <3> QED BY <3>1, <2>1, <2>2 DEF CopiedBefore
  <2>4. c \in DOMAIN exec BY <2>3, <1>1 DEF JitInv, Copies, LastCopy
  <2> QED BY <2>4 DEF HeapInv, Copied
<1>6. Used \subseteq heap
  <2>1. \A k \in DOMAIN d : Nth("offset", f, k) \in heap BY <1>4, OwnedObjects
  <2>2. \A k \in DOMAIN d : Of("func", d[k].func) \in heap BY <1>1 DEF HeapInv, Callees
  <2> HIDE DEF d
  <2> QED BY <2>1, <2>2, <1>4, <1>5 DEF All
<1>7. ~dangling'
  <2> HIDE DEF Used
  <2> QED BY <1>2, <1>6 DEF HeapInv, NeverDangling
<1>8. jitting'.module = m BY <1>1, <1>2 DEF Pass
<1>9. DOMAIN exec' = DOMAIN exec BY <1>2
<1>10. Copied' BY <1>1, <1>2, <1>3, <1>8, <1>9 DEF HeapInv, Copied, Alive, Created, In, Exec, Of
<1> QED BY <1>2, <1>7, <1>10, GrowingHeap DEF HeapInv
----------------------------------------------------------------------------
LEMMA FreeHeap ==
  ASSUME JitInv, HeapInv, NEW m \in Modules, cow_module_free(m)
  PROVE  HeapInv'
<1> DEFINE objects == (UNION {Owned(f) : f \in In(m)}) \cup
                      (IF In(m) # {} THEN {Of("funcs.data", m)} ELSE {})
           Used == {Of("module", m)} \cup {Of("func", f) : f \in In(m)} \cup objects
<1>1. /\ UNCHANGED <<funcs, instrs, code, direct_call_offset, exec, jitting>> /\ IsIdle /\ m \in Alive
      /\ freed' = freed \cup {m}
  BY DEF cow_module_free, program, linked
<1>2. dangling' = (dangling \/ ~(Used \subseteq heap)) /\ heap' = heap \ objects
  BY DEF cow_module_free, Use, Owned
<1>3. m \in Modules \ freed /\ Of("module", m) \in heap BY <1>1 DEF Alive, Created
<1>4. \A f \in In(m) : Owned(f) \subseteq heap /\ Of("func", f) \in heap
  BY <1>3 DEF HeapInv, Parts
<1>5. Used \subseteq heap
  <2>2. In(m) # {} => Of("funcs.data", m) \in heap BY <1>3 DEF HeapInv, Parts
  <2>3. UNION {Owned(f) : f \in In(m)} \subseteq heap BY <1>4
  <2>1. objects \subseteq heap BY <2>2, <2>3
  <2> HIDE DEF objects
  <2> QED BY <2>1, <1>3, <1>4
<1>6. \A o \in objects : \/ o = Of("funcs.data", m)
                         \/ o[1] \in FuncKinds /\ o[2] \in In(m)
  <2> TAKE o \in objects
  <2>1. CASE o \in UNION {Owned(f) : f \in In(m)}
    <3>1. PICK f \in In(m) : o \in Owned(f) BY <2>1
    <3> QED BY <3>1, OwnedShape
  <2>2. CASE o = Of("funcs.data", m) BY <2>2
  <2> QED BY <2>1, <2>2
<1> HIDE DEF objects, Used
<1>7. /\ \A f : Of("func", f) \in heap => Of("func", f) \in heap'
      /\ \A n : Of("module", n) \in heap => Of("module", n) \in heap'
      /\ \A n : n # m /\ Of("funcs.data", n) \in heap => Of("funcs.data", n) \in heap'
      /\ \A c : Exec(c) \in heap => Exec(c) \in heap'
  BY <1>2, <1>6 DEF Of, Exec, FuncKinds
<1>8. \A f : Owned(f)' = Owned(f) BY <1>1 DEF Owned, cow_func_free, cow_builder_free, NullData, All
<1>9. \A n : In(n)' = In(n) BY <1>1 DEF In
<1>10. NeverDangling' BY <1>2, <1>5 DEF HeapInv, NeverDangling
<1>11. Owners'
  <2>1. Unused' = Unused BY <1>9 DEF Unused
  <2>2. \A n \in Modules : In(n) # {} => Of("module", n) \in heap' BY <1>7 DEF HeapInv, Owners
  <2> QED BY <2>1, <2>2, <1>1, <1>9 DEF HeapInv, Owners, Of
<1>12. Parts'
  <2>1. \A n \in Modules : \A f \in In(n) : Of("func", f) \in heap' BY <1>7 DEF HeapInv, Parts
  <2>2. \A n \in Modules \ freed' : In(n) # {} => Of("funcs.data", n) \in heap'
    BY <1>1, <1>7 DEF HeapInv, Parts
  <2>3. ASSUME NEW n \in Modules \ freed', NEW f \in In(n), NEW o \in Owned(f) PROVE o \in heap'
    <3>1. n \in Modules \ freed /\ n # m BY <1>1
    <3>2. o \in heap BY <3>1 DEF HeapInv, Parts
    <3>3. o[1] \in FuncKinds /\ o[2] = f BY OwnedShape
    <3>4. f \notin In(m) BY <3>1 DEF HeapInv, Owners
    <3>5. o # Of("funcs.data", m) BY <3>3 DEF Of, FuncKinds
    <3>6. o \notin objects BY <3>3, <3>4, <3>5, <1>6
    <3> QED BY <3>2, <3>6, <1>2
  <2>4. \A n \in Modules \ freed' : \A f \in In(n)' : Owned(f)' \subseteq heap' BY <2>3, <1>8, <1>9
  <2> QED BY <2>1, <2>2, <2>4, <1>9 DEF Parts, Of
<1>13. Callees' BY <1>1, <1>7 DEF HeapInv, Callees, Of
<1>14. Copied' BY <1>1, <1>7 DEF HeapInv, Copied, IsIdle, Exec
<1> QED BY <1>10, <1>11, <1>12, <1>13, <1>14 DEF HeapInv

LEMMA HeapNext == JitInv /\ HeapInv /\ [Next]_vars => HeapInv'
<1> SUFFICES ASSUME JitInv, HeapInv, [Next]_vars PROVE HeapInv'
  OBVIOUS
<1>1. CASE UNCHANGED vars
  <2>1. UNCHANGED <<funcs, instrs, code, direct_call_offset, exec, jitting, heap, freed>> /\ ~dangling'
    BY <1>1 DEF vars, program, linked, HeapInv, NeverDangling
  <2>2. Copied' BY <2>1 DEF HeapInv, Copied, Alive, Created, In, Exec, Of, IsIdle
  <2> QED BY <2>1, <2>2, GrowingHeap DEF HeapInv
<1>2. ASSUME NEW m \in Modules, cow_module_create(m) \/ Generate(m) \/ cow_module_free(m) PROVE HeapInv'
  BY <1>2, CreateModuleHeap, GenerateHeap, FreeHeap
<1>3. ASSUME NEW m \in Modules, NEW f \in Funcs, cow_create_func(m, f) PROVE HeapInv'
  BY <1>3, CreateFuncHeap
<1>4. ASSUME NEW f \in Known, NEW callee \in Known, cow_builder_call_func(f, callee) PROVE HeapInv'
  BY <1>4, CallFuncHeap
<1> QED BY <1>1, <1>2, <1>3, <1>4, CopyCodeHeap, AllCopiedHeap, PatchCallsHeap, AllPatchedHeap DEF Next

\* In whatever order modules are built, compiled and freed, modules that call
\* each other among them, no JIT and no free uses or frees an object that was
\* freed (cow.c:13-43, function.c:30-49, builder.c:22-32).
THEOREM NeverDangles == Spec => []NeverDangling
<1>1. HeapInv => NeverDangling BY DEF HeapInv
<1> QED BY <1>1, InitJit, InitHeap, NextKeeps, HeapNext, PTL DEF Spec
=============================================================================
