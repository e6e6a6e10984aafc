--------------------------- MODULE CowByteWriter ---------------------------
(***************************************************************************)
(* The ByteWriter of byte_writer.c, to which the code generator appends    *)
(* machine code and in which it later fills displacements, and the copy of *)
(* its bytes into executable memory by cow_module_jit.                     *)
(*                                                                         *)
(* A byte is a pair <<v, k>>: byte k of the value v that was written.      *)
(***************************************************************************)
EXTENDS Integers

CONSTANTS
  Values,   \* the numbers written
  MaxIndex  \* a bound on current_index, for model checking

VARIABLES
  data,           \* the heap block, a function on 0 .. capacity - 1
  current_index,
  capacity,
  items,          \* what the writer's users know: the values written and where
  exec,           \* the executable copy, a function on its bytes
  overrun         \* some access went beyond a heap block

vars == <<data, current_index, capacity, items, exec, overrun>>

\* sizeof of uint8_t and int8_t, of int32_t and float, of int64_t and double.
Sizes == {1, 4, 8}
Bytes == (Values \cup {0}) \X (0 .. 7)
Garbage == <<0, 0>>

ASSUME WriterAssumption == 0 \notin Values /\ MaxIndex \in Nat

Items == [offset : Nat, size : Sizes, value : Values]
Item(offset, n, v) == [offset |-> offset, size |-> n, value |-> v]
Span(i) == i.offset .. i.offset + i.size - 1

Init ==
  /\ data = [k \in {} |-> Garbage] /\ current_index = 0 /\ capacity = 0
  /\ items = {} /\ exec = [k \in {} |-> Garbage] /\ overrun = FALSE

\* Mutants: a full block is taken to have room; the block grows by a fixed
\* amount; a new block is allocated and the old bytes are not moved to it.
ExpandsLate(n)  == current_index + n > capacity

\* The capacity and the block after expand(writer, n): 1 * 2 is 2.
Expands(n)      == current_index + n >= capacity

ExpandedByTwo(n) == IF Expands(n) THEN capacity + 2 ELSE capacity
Expanded(n)      == IF Expands(n) THEN current_index + n + 2 ELSE capacity

ExpandedAfresh(n) ==
  IF Expands(n) THEN [k \in 0 .. Expanded(n) - 1 |-> Garbage] ELSE data
ExpandedData(n) ==
  [k \in 0 .. Expanded(n) - 1 |-> IF k \in DOMAIN data THEN data[k] ELSE Garbage]

\* The block after the n bytes of v are stored at offset.
Stored(block, offset, n, v) ==
  [k \in DOMAIN block |-> IF k - offset \in 0 .. n - 1 THEN <<v, k - offset>> ELSE block[k]]

\* Mutant: an 8-byte value advances the index as a 4-byte one does.
WriteAsNarrow(n, v) ==
  /\ current_index + n <= MaxIndex
  /\ capacity' = Expanded(n)
  /\ data' = Stored(ExpandedData(n), current_index, n, v)
  /\ overrun' = (overrun \/ ~(current_index .. current_index + n - 1 \subseteq DOMAIN ExpandedData(n)))
  /\ current_index' = current_index + (IF n = 8 THEN 4 ELSE n)
  /\ items' = items \cup {Item(current_index, n, v)}
  /\ UNCHANGED exec

\* byte_writer_uint8, int8, int32, int64, f32 and f64; the item's offset is
\* the value returned.
Write(n, v) ==
  /\ current_index + n <= MaxIndex
  /\ capacity' = Expanded(n)
  /\ data' = Stored(ExpandedData(n), current_index, n, v)
  /\ overrun' = (overrun \/ ~(current_index .. current_index + n - 1 \subseteq DOMAIN ExpandedData(n)))
  /\ current_index' = current_index + n
  /\ items' = items \cup {Item(current_index, n, v)}
  /\ UNCHANGED exec

\* byte_writer_int32_at: the generator gives it offsets that an int32 was
\* written to (a branch's displacement).
byte_writer_int32_at(i, v) ==
  /\ i.size = 4
  /\ data' = Stored(data, i.offset, 4, v)
  /\ overrun' = (overrun \/ ~(Span(i) \subseteq DOMAIN data))
  /\ items' = (items \ {i}) \cup {Item(i.offset, 4, v)}
  /\ UNCHANGED <<current_index, capacity, exec>>

\* Mutant: one byte too few is copied.
CopyAllButLast ==
  LET copied == 0 .. current_index - 2
  IN  /\ exec' = [k \in copied |-> IF k \in DOMAIN data THEN data[k] ELSE Garbage]
      /\ overrun' = (overrun \/ ~(copied \subseteq DOMAIN data))
      /\ UNCHANGED <<data, current_index, capacity, items>>

\* The allocation and memcpy of cow_module_jit: current_index + 1 bytes, one
\* more than were written.
CopyToExec ==
  LET copied == 0 .. current_index
  IN  /\ exec' = [k \in copied |-> IF k \in DOMAIN data THEN data[k] ELSE Garbage]
      /\ overrun' = (overrun \/ ~(copied \subseteq DOMAIN data))
      /\ UNCHANGED <<data, current_index, capacity, items>>

Next ==
  \/ \E n \in Sizes, v \in Values : Write(n, v)
  \/ \E i \in items, v \in Values : byte_writer_int32_at(i, v)
  \/ CopyToExec

Spec == Init /\ [][Next]_vars
----------------------------------------------------------------------------
\* The heap block has capacity bytes, more than were written once any was.
WriterOK ==
  /\ current_index \in Nat /\ capacity \in Nat
  /\ data \in [0 .. capacity - 1 -> Bytes]
  /\ current_index < capacity \/ (current_index = 0 /\ capacity = 0)
  /\ items \subseteq Items
  /\ \A i \in items : i.offset + i.size <= current_index
  /\ overrun \in BOOLEAN

\* The bytes of every value written are where the write's return value says,
\* whatever was written, patched or reallocated since.
Holds(block, i) ==
  \A k \in 0 .. i.size - 1 :
    i.offset + k \in DOMAIN block /\ block[i.offset + k] = <<i.value, k>>
ItemsIntact == \A i \in items : Holds(data, i)

\* Two values never share a byte.
ItemsApart == \A i, j \in items : i # j => Span(i) \cap Span(j) = {}

\* No write, patch or copy goes beyond the heap block, save the copy of a
\* writer to which nothing was ever written, which reads through NULL.
StaysInHeap ==
  [][overrun' /\ ~overrun => current_index = 0 /\ UNCHANGED current_index]_vars

\* What cow_module_jit makes executable is all the code, in place.
ExecComplete == [][exec' # exec => \A i \in items' : Holds(exec', i)]_vars
=============================================================================
