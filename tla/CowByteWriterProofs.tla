------------------------ MODULE CowByteWriterProofs ------------------------
(***************************************************************************)
(* Proofs about the byte writer, for any values and any length.            *)
(***************************************************************************)
EXTENDS CowByteWriter, TLAPS

\* The facts about the writer that each of its operations needs of the others.
WriterInv == WriterOK /\ ItemsIntact /\ ItemsApart

\* After expand there is room for n bytes and one more, and no byte is lost.
LEMMA ExpandMakesRoom ==
  ASSUME WriterOK, NEW n \in Sizes
  PROVE  /\ Expanded(n) \in Nat /\ current_index + n < Expanded(n)
         /\ capacity <= Expanded(n)
         /\ ExpandedData(n) \in [0 .. Expanded(n) - 1 -> Bytes]
         /\ \A k \in 0 .. capacity - 1 : ExpandedData(n)[k] = data[k]
<1>1. n \in Nat \ {0} BY DEF Sizes
<1>2. /\ Expanded(n) \in Nat /\ current_index + n < Expanded(n)
      /\ capacity <= Expanded(n)
  BY <1>1 DEF WriterOK, Expanded, Expands
<1>3. Garbage \in Bytes BY DEF Garbage, Bytes
<1>4. ExpandedData(n) \in [0 .. Expanded(n) - 1 -> Bytes]
  BY <1>2, <1>3 DEF WriterOK, ExpandedData
<1>5. \A k \in 0 .. capacity - 1 : ExpandedData(n)[k] = data[k]
  BY <1>2 DEF WriterOK, ExpandedData
<1> QED BY <1>2, <1>4, <1>5

\* Storing n bytes of v changes those bytes only, and keeps the block's length.
LEMMA StoredBytes ==
  ASSUME NEW size \in Nat, NEW block \in [0 .. size - 1 -> Bytes],
         NEW offset \in Nat, NEW n \in Sizes, NEW v \in Values, offset + n <= size
  PROVE  /\ Stored(block, offset, n, v) \in [0 .. size - 1 -> Bytes]
         /\ Holds(Stored(block, offset, n, v), Item(offset, n, v))
         /\ \A k \in 0 .. size - 1 :
              k \notin offset .. offset + n - 1 => Stored(block, offset, n, v)[k] = block[k]
<1>1. n \in 1 .. 8 BY DEF Sizes
<1>2. \A k \in 0 .. n - 1 : <<v, k>> \in Bytes BY <1>1 DEF Bytes
<1>3. Stored(block, offset, n, v) \in [0 .. size - 1 -> Bytes]
  BY <1>1, <1>2 DEF Stored
<1>4. Holds(Stored(block, offset, n, v), Item(offset, n, v))
  BY <1>1 DEF Stored, Holds, Item
<1>5. \A k \in 0 .. size - 1 :
        k \notin offset .. offset + n - 1 => Stored(block, offset, n, v)[k] = block[k]
  BY <1>1 DEF Stored
<1> QED BY <1>3, <1>4, <1>5

\* An item that lies within two blocks and whose bytes agree is held by both.
LEMMA HeldByCopy ==
  ASSUME NEW i \in Items, NEW a, NEW b, Holds(a, i),
         \A k \in Span(i) : k \in DOMAIN b /\ b[k] = a[k]
  PROVE  Holds(b, i)
<1>1. \A k \in 0 .. i.size - 1 : i.offset + k \in Span(i)
  BY DEF Items, Sizes, Span
<1> QED BY <1>1 DEF Holds

LEMMA InitWriter == Init => WriterInv
<1> SUFFICES ASSUME Init PROVE WriterInv
  OBVIOUS
<1>1. capacity = 0 /\ current_index = 0 /\ items = {} /\ overrun = FALSE
  BY DEF Init
<1>2. data \in [0 .. capacity - 1 -> Bytes]
  <2>1. 0 .. capacity - 1 = {} BY <1>1
  <2>2. data = [k \in {} |-> Garbage] BY DEF Init
  <2> QED BY <2>1, <2>2
<1>3. WriterOK BY <1>1, <1>2 DEF WriterOK
<1> QED BY <1>1, <1>3 DEF WriterInv, ItemsIntact, ItemsApart

LEMMA WriteKeeps ==
  ASSUME WriterInv, NEW n \in Sizes, NEW v \in Values, Write(n, v)
  PROVE  WriterInv' /\ overrun' = overrun
<1> DEFINE new == Item(current_index, n, v)
           block == ExpandedData(n)
<1>1. WriterOK BY DEF WriterInv
<1>2. current_index \in Nat /\ n \in Nat \ {0} /\ current_index + n < Expanded(n) /\ Expanded(n) \in Nat
  BY <1>1, ExpandMakesRoom DEF WriterOK, Sizes
<1>3. block \in [0 .. Expanded(n) - 1 -> Bytes] /\ \A k \in 0 .. capacity - 1 : block[k] = data[k]
  BY <1>1, ExpandMakesRoom
<1>4. /\ capacity' = Expanded(n) /\ data' = Stored(block, current_index, n, v)
      /\ current_index' = current_index + n /\ items' = items \cup {new}
  BY DEF Write
<1>5. overrun' = overrun
  <2>1. current_index .. current_index + n - 1 \subseteq DOMAIN block BY <1>2, <1>3
  <2> QED BY <2>1, <1>1 DEF Write, WriterOK
<1> HIDE DEF block
<1>6. /\ data' \in [0 .. capacity' - 1 -> Bytes] /\ Holds(data', new)
      /\ \A k \in 0 .. current_index - 1 : data'[k] = block[k]
  BY <1>2, <1>3, <1>4, StoredBytes
<1>7. new \in Items /\ Span(new) = current_index .. current_index + n - 1
  BY <1>2 DEF Item, Items, Span
<1>8. \A i \in items : i \in Items /\ Span(i) \subseteq 0 .. current_index - 1 /\ i.offset + i.size <= current_index
  BY <1>1, <1>2 DEF WriterOK, Items, Sizes, Span
<1>9. WriterOK'
  <2>1. items' \subseteq Items BY <1>4, <1>7, <1>8
  <2>2. \A i \in items' : i.offset + i.size <= current_index'
    <3> SUFFICES ASSUME NEW i \in items' PROVE i.offset + i.size <= current_index'
      OBVIOUS
    <3>1. CASE i = new BY <3>1, <1>2, <1>4 DEF Item
    <3>2. CASE i \in items BY <3>2, <1>2, <1>4, <1>8 DEF Items, Sizes
    <3> QED BY <3>1, <3>2, <1>4
  <2> QED BY <2>1, <2>2, <1>1, <1>2, <1>4, <1>5, <1>6 DEF WriterOK
<1>10. ItemsIntact'
  <2> SUFFICES ASSUME NEW i \in items' PROVE Holds(data', i)
    BY DEF ItemsIntact
  <2>1. CASE i = new BY <2>1, <1>6
  <2>2. CASE i \in items
    <3>1. Holds(data, i) BY <2>2 DEF WriterInv, ItemsIntact
    <3>2. current_index <= capacity /\ capacity <= Expanded(n) /\ capacity \in Nat
      BY <1>1, ExpandMakesRoom DEF WriterOK
    <3>3. \A k \in Span(i) : k \in DOMAIN data' /\ data'[k] = data[k]
      BY <2>2, <3>2, <1>2, <1>3, <1>4, <1>6, <1>8
    <3> QED BY <3>1, <3>3, <1>8, <2>2, HeldByCopy
  <2> QED BY <2>1, <2>2, <1>4
<1>11. ItemsApart'
  <2>1. \A i \in items : Span(i) \cap Span(new) = {} BY <1>2, <1>7, <1>8
  <2> QED BY <2>1, <1>4 DEF WriterInv, ItemsApart
<1> QED BY <1>5, <1>9, <1>10, <1>11 DEF WriterInv

LEMMA PatchKeeps ==
  ASSUME WriterInv, NEW i \in items, NEW v \in Values, byte_writer_int32_at(i, v)
  PROVE  WriterInv' /\ overrun' = overrun
<1> DEFINE new == Item(i.offset, 4, v)
<1>1. WriterOK BY DEF WriterInv
<1>2. i \in Items /\ i.size = 4 /\ i.offset + 4 <= capacity /\ i.offset \in Nat /\ capacity \in Nat
      /\ i.offset + 4 <= current_index /\ data \in [0 .. capacity - 1 -> Bytes]
      /\ current_index \in Nat
  BY <1>1 DEF WriterOK, byte_writer_int32_at, Items
<1>3. /\ data' = Stored(data, i.offset, 4, v) /\ items' = (items \ {i}) \cup {new}
      /\ current_index' = current_index /\ capacity' = capacity
  BY DEF byte_writer_int32_at
<1>4. Span(i) = i.offset .. i.offset + 3 /\ Span(new) = Span(i)
  BY <1>2 DEF Span, Item
<1>5. overrun' = overrun
  <2>1. Span(i) \subseteq DOMAIN data BY <1>2, <1>4
  <2> QED BY <2>1, <1>1 DEF byte_writer_int32_at, WriterOK
<1>6. 4 \in Sizes BY DEF Sizes
<1>7. /\ data' \in [0 .. capacity - 1 -> Bytes] /\ Holds(data', new)
      /\ \A k \in 0 .. capacity - 1 : k \notin Span(i) => data'[k] = data[k]
  <2>1. i.offset + 4 - 1 = i.offset + 3 BY <1>2
  <2> QED BY <2>1, <1>2, <1>3, <1>4, <1>6, StoredBytes
<1>8. new \in Items /\ new.offset + new.size <= current_index
  BY <1>2, <1>6 DEF Item, Items
<1>9. WriterOK'
  <2>1. items' \subseteq Items BY <1>1, <1>3, <1>8 DEF WriterOK
  <2>2. \A j \in items' : j.offset + j.size <= current_index'
    BY <1>1, <1>3, <1>8 DEF WriterOK
  <2> QED BY <2>1, <2>2, <1>1, <1>3, <1>5, <1>7 DEF WriterOK
<1>10. \A j \in items : j # i => Span(j) \cap Span(i) = {}
  BY DEF WriterInv, ItemsApart
<1>11. ItemsIntact'
  <2> SUFFICES ASSUME NEW j \in items' PROVE Holds(data', j)
    BY DEF ItemsIntact
  <2>1. CASE j = new BY <2>1, <1>7
  <2>2. CASE j \in items /\ j # i
    <3>1. Holds(data, j) BY <2>2 DEF WriterInv, ItemsIntact
    <3>2. j \in Items /\ j.offset + j.size <= capacity
      BY <1>1, <2>2 DEF WriterOK, Items, Sizes
    <3>3. Span(j) \subseteq 0 .. capacity - 1
      BY <3>2, <1>2 DEF Items, Sizes, Span
    <3>4. \A k \in Span(j) : k \in DOMAIN data' /\ data'[k] = data[k]
      BY <3>3, <1>7, <1>10, <2>2
    <3> QED BY <3>1, <3>2, <3>4, HeldByCopy
  <2> QED BY <2>1, <2>2, <1>3
<1>12. ItemsApart'
  BY <1>3, <1>4, <1>10 DEF WriterInv, ItemsApart
<1> QED BY <1>5, <1>9, <1>11, <1>12 DEF WriterInv

LEMMA CopyKeeps ==
  ASSUME WriterInv, CopyToExec
  PROVE  /\ WriterInv'
         /\ overrun' # overrun => current_index = 0
         /\ \A i \in items : Holds(exec', i)
<1>1. WriterOK BY DEF WriterInv
<1>2. UNCHANGED <<data, current_index, capacity, items>> /\ overrun' \in BOOLEAN
  BY <1>1 DEF CopyToExec, WriterOK
<1>3. WriterInv'
  BY <1>2 DEF WriterInv, WriterOK, ItemsIntact, ItemsApart
<1>4. ASSUME current_index # 0 PROVE overrun' = overrun
  <2>1. 0 .. current_index \subseteq DOMAIN data BY <1>1, <1>4 DEF WriterOK
  <2> QED BY <2>1, <1>1 DEF CopyToExec, WriterOK
<1>5. ASSUME NEW i \in items PROVE Holds(exec', i)
  <2>1. i \in Items /\ Span(i) \subseteq 0 .. current_index /\ Span(i) \subseteq DOMAIN data
    BY <1>1 DEF WriterOK, Items, Sizes, Span
  <2>2. Holds(data, i) BY DEF WriterInv, ItemsIntact
  <2>3. \A k \in Span(i) : k \in DOMAIN exec' /\ exec'[k] = data[k]
    BY <2>1 DEF CopyToExec
  <2> QED BY <2>1, <2>2, <2>3, HeldByCopy
<1> QED BY <1>3, <1>4, <1>5

\* Every step keeps the invariant; only the copy of an empty writer overruns;
\* only the copy changes exec, and it copies every item.
LEMMA StepKeeps ==
  ASSUME WriterInv, [Next]_vars
  PROVE  /\ WriterInv'
         /\ overrun' /\ ~overrun => current_index = 0 /\ UNCHANGED current_index
         /\ exec' # exec => \A i \in items' : Holds(exec', i)
<1>1. CASE \E n \in Sizes, v \in Values : Write(n, v)
  <2> PICK n \in Sizes, v \in Values : Write(n, v) BY <1>1
  <2> QED BY WriteKeeps DEF Write
<1>2. CASE \E i \in items, v \in Values : byte_writer_int32_at(i, v)
  <2> PICK i \in items, v \in Values : byte_writer_int32_at(i, v) BY <1>2
  <2> QED BY PatchKeeps DEF byte_writer_int32_at
<1>3. CASE CopyToExec
  <2>1. UNCHANGED <<current_index, items>> BY <1>3 DEF CopyToExec
  <2> QED BY <1>3, <2>1, CopyKeeps
<1>4. CASE UNCHANGED vars
  BY <1>4 DEF vars, WriterInv, WriterOK, ItemsIntact, ItemsApart
<1> QED BY <1>1, <1>2, <1>3, <1>4 DEF Next

LEMMA WriterInvariant == Spec => []WriterInv
<1>1. WriterInv /\ [Next]_vars => WriterInv' BY StepKeeps
<1> QED BY InitWriter, <1>1, PTL DEF Spec

\* The writer's block always has the capacity recorded, with room for one byte
\* more than was written.
THEOREM WriterStaysOK == Spec => []WriterOK
<1>1. WriterInv => WriterOK BY DEF WriterInv
<1> QED BY <1>1, WriterInvariant, PTL

\* Everything written stays where its write reported it, over any later
\* writes, growths and patches.
THEOREM ItemsStayIntact == Spec => []ItemsIntact
<1>1. WriterInv => ItemsIntact BY DEF WriterInv
<1> QED BY <1>1, WriterInvariant, PTL

\* No two of the values written share a byte.
THEOREM ItemsStayApart == Spec => []ItemsApart
<1>1. WriterInv => ItemsApart BY DEF WriterInv
<1> QED BY <1>1, WriterInvariant, PTL

\* No access leaves the heap block, but the copy of a writer that is empty.
THEOREM WriterStaysInHeap == Spec => StaysInHeap
<1>1. WriterInv /\ [Next]_vars =>
        [overrun' /\ ~overrun => current_index = 0 /\ UNCHANGED current_index]_vars
  BY StepKeeps
<1> QED BY <1>1, WriterInvariant, PTL DEF Spec, StaysInHeap

\* The copy made executable holds everything that was written.
THEOREM ExecHoldsAll == Spec => ExecComplete
<1>1. WriterInv /\ [Next]_vars => [exec' # exec => \A i \in items' : Holds(exec', i)]_vars
  BY StepKeeps
<1> QED BY <1>1, WriterInvariant, PTL DEF Spec, ExecComplete
=============================================================================
