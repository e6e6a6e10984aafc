------------------------------ MODULE CowArray ------------------------------
(***************************************************************************)
(* The growable Array of array.h, which holds a module's functions, a      *)
(* builder's blocks and values and a block's instructions.  The heap block *)
(* that data points to is a function on its slots; a slot that realloc     *)
(* added holds anything until it is written.  An access beyond the block   *)
(* sets overrun.                                                           *)
(***************************************************************************)
EXTENDS Integers, Sequences

CONSTANTS
  Elements,   \* the pointers stored
  MaxSize     \* a bound on size, for model checking

VARIABLES data, size, capacity, overrun

vars == <<data, size, capacity, overrun>>

ASSUME ArrayAssumption == Elements # {} /\ MaxSize \in Nat

Slots == DOMAIN data

Init == data = [k \in {} |-> k] /\ size = 0 /\ capacity = 0 /\ overrun = FALSE

\* cow_realloc: the old slots keep their elements.
Realloc(old, n, garbage) == [k \in 0 .. n - 1 |-> IF k \in DOMAIN old THEN old[k] ELSE garbage]

\* Mutant: grows one element too late.
array_add_late(e) ==
  /\ size < MaxSize
  /\ \E garbage \in Elements :
       LET grow   == size > capacity
           newcap == IF grow THEN (capacity + 1) * 2 ELSE capacity
           block  == IF grow THEN Realloc(data, newcap, garbage) ELSE data
       IN  /\ capacity' = newcap
           /\ data' = [block EXCEPT ![size] = e]
           /\ overrun' = (overrun \/ size \notin DOMAIN block)
  /\ size' = size + 1

array_add(e) ==
  /\ size < MaxSize
  /\ \E garbage \in Elements :
       LET grow   == size + 1 > capacity
           newcap == IF grow THEN (capacity + 1) * 2 ELSE capacity
           block  == IF grow THEN Realloc(data, newcap, garbage) ELSE data
       IN  /\ capacity' = newcap
           /\ data' = [block EXCEPT ![size] = e]
           /\ overrun' = (overrun \/ size \notin DOMAIN block)
  /\ size' = size + 1

\* Not called by the code at this commit; the caller answers for size > 0.
array_pop == size > 0 /\ size' = size - 1 /\ UNCHANGED <<data, capacity, overrun>>

\* Mutant: the memmove moves one element too few.
array_remove_short(index) ==
  /\ index < size
  /\ LET moved == index .. size - 3
     IN  /\ data' = [k \in Slots |-> IF k \in moved THEN data[k + 1] ELSE data[k]]
         /\ overrun' = (overrun \/ ~({k + 1 : k \in moved} \subseteq Slots))
  /\ size' = size - 1 /\ UNCHANGED capacity

\* memmove of the elements after index; the caller answers for index < size.
array_remove(index) ==
  /\ index < size
  /\ LET moved == index .. size - 2
     IN  /\ data' = [k \in Slots |-> IF k \in moved THEN data[k + 1] ELSE data[k]]
         /\ overrun' = (overrun \/ ~({k + 1 : k \in moved} \subseteq Slots))
  /\ size' = size - 1 /\ UNCHANGED capacity

Next ==
  \/ \E e \in Elements : array_add(e)
  \/ array_pop
  \/ \E index \in 0 .. size - 1 : array_remove(index)

Spec == Init /\ [][Next]_vars
----------------------------------------------------------------------------
\* The heap block has the slots that capacity says, and size of them are used;
\* no operation has gone beyond it.
ArrayOK ==
  /\ size \in Nat /\ capacity \in Nat /\ size <= capacity
  /\ data \in [0 .. capacity - 1 -> Elements]
  /\ overrun = FALSE

Contents == [k \in 1 .. size |-> data[k - 1]]
List     == INSTANCE CowList WITH list <- Contents

\* The array is a list: growing it, moving it and removing from it lose,
\* duplicate and reorder no element.
ImplementsList == List!Spec
=============================================================================
