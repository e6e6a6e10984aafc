--------------------------- MODULE CowArrayProofs ---------------------------
(***************************************************************************)
(* Proofs about the array, for any elements and any size.                  *)
(***************************************************************************)
EXTENDS CowArray, SequenceTheorems, TLAPS

LEMMA InitArray == Init => ArrayOK
<1> SUFFICES ASSUME Init PROVE ArrayOK
  OBVIOUS
<1>1. size = 0 /\ capacity = 0 /\ overrun = FALSE BY DEF Init
<1>2. data \in [0 .. capacity - 1 -> Elements]
  <2>1. 0 .. capacity - 1 = {} BY <1>1
  <2>2. data = [k \in {} |-> k] BY DEF Init
  <2> QED BY <2>1, <2>2
<1> QED BY <1>1, <1>2 DEF ArrayOK

\* array_add puts e behind the elements that were there, within the block.
LEMMA AddFacts ==
  ASSUME ArrayOK, NEW e \in Elements, array_add(e)
  PROVE  /\ ArrayOK' /\ size' = size + 1 /\ data'[size] = e
         /\ \A k \in 0 .. size - 1 : data'[k] = data[k]
<1>1. PICK garbage \in Elements :
        LET grow   == size + 1 > capacity
            newcap == IF grow THEN (capacity + 1) * 2 ELSE capacity
            block  == IF grow THEN Realloc(data, newcap, garbage) ELSE data
        IN  /\ capacity' = newcap
            /\ data' = [block EXCEPT ![size] = e]
            /\ overrun' = (overrun \/ size \notin DOMAIN block)
  BY DEF array_add
<1> DEFINE grow   == size + 1 > capacity
           newcap == IF grow THEN (capacity + 1) * 2 ELSE capacity
           block  == IF grow THEN Realloc(data, newcap, garbage) ELSE data
<1>2. /\ capacity' = newcap /\ data' = [block EXCEPT ![size] = e]
      /\ overrun' = (overrun \/ size \notin DOMAIN block) /\ size' = size + 1
  BY <1>1 DEF array_add
<1>3. size \in Nat /\ capacity \in Nat /\ size <= capacity
      /\ data \in [0 .. capacity - 1 -> Elements] /\ overrun = FALSE
  BY DEF ArrayOK
<1>4. newcap \in Nat /\ capacity <= newcap /\ size < newcap
  BY <1>3
<1>5. /\ block \in [0 .. newcap - 1 -> Elements]
      /\ \A k \in 0 .. size - 1 : block[k] = data[k]
  <2>1. CASE grow
    <3>1. block = [k \in 0 .. newcap - 1 |-> IF k \in 0 .. capacity - 1 THEN data[k] ELSE garbage]
      BY <2>1, <1>3 DEF Realloc
    <3> HIDE DEF block, newcap
    <3> QED BY <3>1, <1>3, <1>4
  <2>2. CASE ~grow BY <2>2, <1>3
  <2> QED BY <2>1, <2>2
<1> HIDE DEF grow, newcap, block
<1>6. /\ data' \in [0 .. newcap - 1 -> Elements] /\ data'[size] = e
      /\ \A k \in 0 .. size - 1 : data'[k] = data[k]
  BY <1>2, <1>3, <1>4, <1>5
<1>7. overrun' = FALSE
  <2>1. size \in 0 .. newcap - 1 BY <1>3, <1>4
  <2> QED BY <2>1, <1>2, <1>3, <1>5
<1> QED BY <1>2, <1>3, <1>4, <1>6, <1>7 DEF ArrayOK

\* array_remove moves the elements behind index down, within the block.
LEMMA RemoveFacts ==
  ASSUME ArrayOK, NEW index \in 0 .. size - 1, array_remove(index)
  PROVE  /\ ArrayOK' /\ size' = size - 1
         /\ \A k \in 0 .. size - 2 : data'[k] = IF k < index THEN data[k] ELSE data[k + 1]
<1>1. size \in Nat /\ capacity \in Nat /\ size <= capacity
      /\ data \in [0 .. capacity - 1 -> Elements] /\ overrun = FALSE
  BY DEF ArrayOK
<1>2. /\ data' = [k \in 0 .. capacity - 1 |->
                    IF k \in index .. size - 2 THEN data[k + 1] ELSE data[k]]
      /\ size' = size - 1 /\ capacity' = capacity
  BY <1>1 DEF array_remove, Slots
<1>3. overrun' = FALSE
  <2>1. {k + 1 : k \in index .. size - 2} \subseteq Slots BY <1>1 DEF Slots
  <2> QED BY <2>1, <1>1 DEF array_remove
<1>4. data' \in [0 .. capacity' - 1 -> Elements]
  <2>1. \A k \in index .. size - 2 : k + 1 \in 0 .. capacity - 1 BY <1>1
  <2> QED BY <2>1, <1>1, <1>2
<1>5. \A k \in 0 .. size - 2 : data'[k] = IF k < index THEN data[k] ELSE data[k + 1]
  BY <1>1, <1>2
<1> QED BY <1>1, <1>2, <1>3, <1>4, <1>5 DEF ArrayOK

LEMMA NextArray == ArrayOK /\ [Next]_vars => ArrayOK'
<1> SUFFICES ASSUME ArrayOK, [Next]_vars PROVE ArrayOK'
  OBVIOUS
<1>1. ASSUME NEW e \in Elements, array_add(e) PROVE ArrayOK' BY <1>1, AddFacts
<1>2. CASE array_pop BY <1>2 DEF array_pop, ArrayOK
<1>3. ASSUME NEW index \in 0 .. size - 1, array_remove(index) PROVE ArrayOK'
  BY <1>3, RemoveFacts
<1>4. CASE UNCHANGED vars BY <1>4 DEF vars, ArrayOK
<1> QED BY <1>1, <1>2, <1>3, <1>4 DEF Next

\* An array's size never exceeds its capacity, which is the number of slots of
\* its block, and no operation goes beyond the block.
THEOREM ArrayStaysOK == Spec => []ArrayOK
  BY InitArray, NextArray, PTL DEF Spec
----------------------------------------------------------------------------
\* The elements in use form a sequence, whatever the block and the size.
LEMMA UsedSlots ==
  ASSUME NEW n \in Nat, NEW c \in Nat, n <= c, NEW d \in [0 .. c - 1 -> Elements],
         NEW s, s = [k \in 1 .. n |-> d[k - 1]]
  PROVE  /\ s \in Seq(Elements) /\ Len(s) = n
         /\ \A k \in 1 .. n : s[k] = d[k - 1]
<1>1. \A k \in 1 .. n : d[k - 1] \in Elements
  OBVIOUS
<1> QED BY <1>1, IsASeq

ContentsOK ==
  /\ Contents \in Seq(Elements) /\ Len(Contents) = size
  /\ \A k \in 1 .. size : Contents[k] = data[k - 1]

LEMMA ContentsSeq == ArrayOK => ContentsOK
  BY UsedSlots DEF ArrayOK, Contents, ContentsOK

LEMMA ContentsSeqNext == ArrayOK' => ContentsOK'
  BY ContentsSeq, PTL

LEMMA AddIsAppend ==
  ASSUME ArrayOK, NEW e \in Elements, array_add(e)
  PROVE  List!Add(e)
<1> DEFINE old == Contents
           new == Contents'
           longer == Append(old, e)
<1>1. ArrayOK' /\ size' = size + 1 /\ data'[size] = e
      /\ \A k \in 0 .. size - 1 : data'[k] = data[k]
  BY AddFacts
<1>2. size \in Nat BY DEF ArrayOK
<1>3. old \in Seq(Elements) /\ Len(old) = size /\ \A k \in 1 .. size : old[k] = data[k - 1]
  BY ContentsSeq DEF ContentsOK
<1>4. new \in Seq(Elements) /\ Len(new) = size + 1 /\ \A k \in 1 .. size + 1 : new[k] = data'[k - 1]
  BY <1>1, ContentsSeqNext DEF ContentsOK
<1> HIDE DEF old, new
<1>5. /\ longer \in Seq(Elements) /\ Len(longer) = size + 1
      /\ \A k \in 1 .. size : longer[k] = old[k]
      /\ longer[size + 1] = e
  BY <1>3, AppendProperties
<1> HIDE DEF longer
<1>6. ASSUME NEW k \in 1 .. size + 1 PROVE new[k] = longer[k]
  <2>1. CASE k = size + 1 BY <2>1, <1>1, <1>2, <1>4, <1>5
  <2>2. CASE k \in 1 .. size
    <3>1. k - 1 \in 0 .. size - 1 /\ k \in 1 .. size + 1 BY <2>2, <1>2
    <3>2. new[k] = data[k - 1] BY <3>1, <1>1, <1>4
    <3>3. longer[k] = data[k - 1] BY <2>2, <1>3, <1>5
    <3> QED BY <3>2, <3>3
  <2> QED BY <2>1, <2>2, <1>2
<1>7. new = longer
  BY <1>4, <1>5, <1>6, SeqEqual
<1> QED BY <1>7 DEF List!Add, old, new, longer

LEMMA PopIsFront ==
  ASSUME ArrayOK, array_pop
  PROVE  List!Pop
<1> DEFINE old == Contents
           new == Contents'
           shorter == SubSeq(old, 1, size - 1)
<1>1. ArrayOK' /\ size' = size - 1 /\ data' = data /\ size > 0
  BY DEF array_pop, ArrayOK
<1>2. size \in Nat BY DEF ArrayOK
<1>3. old \in Seq(Elements) /\ Len(old) = size /\ \A k \in 1 .. size : old[k] = data[k - 1]
  BY ContentsSeq DEF ContentsOK
<1>4. new \in Seq(Elements) /\ Len(new) = size - 1 /\ \A k \in 1 .. size - 1 : new[k] = data[k - 1]
  BY <1>1, ContentsSeqNext DEF ContentsOK
<1> HIDE DEF old, new
<1>5. /\ shorter \in Seq(Elements) /\ Len(shorter) = size - 1
      /\ \A k \in 1 .. size - 1 : shorter[k] = old[k]
  <2>1. \A k \in 1 .. size - 1 : old[k] \in Elements BY <1>3, <1>2
  <2>2. 1 \in Int /\ size - 1 \in Int BY <1>2
  <2> QED BY <2>1, <2>2, <1>1, <1>2, SubSeqProperties
<1> HIDE DEF shorter
<1>6. ASSUME NEW k \in 1 .. size - 1 PROVE new[k] = shorter[k]
  <2>1. k \in 1 .. size BY <1>2
  <2>2. old[k] = data[k - 1] BY <2>1, <1>3
  <2>3. new[k] = data[k - 1] BY <1>4
  <2>4. shorter[k] = old[k] BY <1>5
  <2> QED BY <2>2, <2>3, <2>4
<1>7. new = shorter
  BY <1>4, <1>5, <1>6, SeqEqual
<1>8. old # <<>> BY <1>1, <1>3
<1> QED BY <1>3, <1>7, <1>8 DEF List!Pop, List!Front, old, new, shorter

LEMMA RemoveIsDelete ==
  ASSUME ArrayOK, NEW index \in 0 .. size - 1, array_remove(index)
  PROVE  index + 1 \in DOMAIN Contents /\ List!Delete(index + 1)
<1> DEFINE old == Contents
           new == Contents'
           low == SubSeq(old, 1, index)
           high == SubSeq(old, index + 2, size)
           joined == low \o high
<1>1. ArrayOK' /\ size' = size - 1
      /\ \A k \in 0 .. size - 2 : data'[k] = IF k < index THEN data[k] ELSE data[k + 1]
  BY RemoveFacts
<1>2. size \in Nat /\ index \in Nat /\ index < size BY DEF ArrayOK
<1>3. old \in Seq(Elements) /\ Len(old) = size /\ \A k \in 1 .. size : old[k] = data[k - 1]
  BY ContentsSeq DEF ContentsOK
<1>4. new \in Seq(Elements) /\ Len(new) = size - 1 /\ \A k \in 1 .. size - 1 : new[k] = data'[k - 1]
  BY <1>1, ContentsSeqNext DEF ContentsOK
<1>5. \A k \in 1 .. size : old[k] \in Elements BY <1>3, <1>2
<1> HIDE DEF old, new
<1>6. low \in Seq(Elements) /\ Len(low) = index /\ \A k \in 1 .. index : low[k] = old[k]
  <2>1. \A k \in 1 .. index : old[k] \in Elements BY <1>2, <1>5
  <2>2. 1 \in Int /\ index \in Int BY <1>2
  <2> QED BY <2>1, <2>2, <1>2, SubSeqProperties
<1>7. high \in Seq(Elements) /\ Len(high) = size - 1 - index
      /\ \A k \in 1 .. size - 1 - index : high[k] = old[index + 1 + k]
  <2>1. \A k \in index + 2 .. size : old[k] \in Elements BY <1>2, <1>5
  <2>2. index + 2 \in Int /\ size \in Int BY <1>2
  <2>3. high \in Seq(Elements)
        /\ Len(high) = (IF index + 2 <= size THEN size - (index + 2) + 1 ELSE 0)
        /\ \A k \in 1 .. size - (index + 2) + 1 : high[k] = old[index + 2 + k - 1]
    BY <2>1, <2>2, SubSeqProperties
  <2>4. size - (index + 2) + 1 = size - 1 - index BY <1>2
  <2>5. Len(high) = size - 1 - index BY <2>3, <1>2
  <2>6. \A k \in 1 .. size - 1 - index : index + 2 + k - 1 = index + 1 + k BY <1>2
  <2> HIDE DEF high
  <2> QED BY <2>3, <2>4, <2>5, <2>6
<1> HIDE DEF low, high
<1>8. joined \in Seq(Elements) /\ Len(joined) = size - 1
      /\ \A k \in 1 .. size - 1 : joined[k] = IF k <= index THEN low[k] ELSE high[k - index]
  <2>1. Len(low) + Len(high) = size - 1 BY <1>2, <1>6, <1>7
  <2>2. joined \in Seq(Elements) /\ Len(joined) = Len(low) + Len(high)
        /\ \A k \in 1 .. Len(low) + Len(high) :
             joined[k] = IF k <= Len(low) THEN low[k] ELSE high[k - Len(low)]
    BY <1>6, <1>7, ConcatProperties
  <2> HIDE DEF joined
  <2>3. Len(low) = index BY <1>6
  <2> QED BY <2>1, <2>2, <2>3
<1> HIDE DEF joined
<1>9. ASSUME NEW k \in 1 .. size - 1 PROVE new[k] = joined[k]
  <2>1. new[k] = IF k - 1 < index THEN data[k - 1] ELSE data[k]
    BY <1>1, <1>2, <1>4
  <2>2. CASE k <= index
    BY <2>1, <2>2, <1>2, <1>3, <1>6, <1>8
  <2>3. CASE k > index
    <3>1. joined[k] = high[k - index] BY <2>3, <1>2, <1>8
    <3>2. k - index \in 1 .. size - 1 - index /\ index + 1 + (k - index) = k + 1 BY <2>3, <1>2
    <3>3. high[k - index] = old[k + 1] BY <3>2, <1>7
    <3>4. old[k + 1] = data[k] BY <1>2, <1>3
    <3> QED BY <2>1, <2>3, <3>1, <3>3, <3>4, <1>2
  <2> QED BY <2>2, <2>3, <1>2
<1>10. new = joined
  BY <1>4, <1>8, <1>9, SeqEqual
<1>11. index + 1 - 1 = index /\ index + 1 + 1 = index + 2 BY <1>2
<1>12. index + 1 \in DOMAIN old BY <1>2, <1>3
<1> QED BY <1>3, <1>10, <1>11, <1>12 DEF List!Delete, List!RemoveAt, joined, low, high, old, new

LEMMA StepIsListStep == ArrayOK /\ [Next]_vars => [List!Next]_Contents
<1> SUFFICES ASSUME ArrayOK, [Next]_vars PROVE [List!Next]_Contents
  OBVIOUS
<1>1. ASSUME NEW e \in Elements, array_add(e) PROVE List!Next
  BY <1>1, AddIsAppend DEF List!Next
<1>2. CASE array_pop BY <1>2, PopIsFront DEF List!Next
<1>3. ASSUME NEW index \in 0 .. size - 1, array_remove(index) PROVE List!Next
  BY <1>3, RemoveIsDelete DEF List!Next
<1>4. CASE UNCHANGED vars BY <1>4 DEF vars, Contents
<1> QED BY <1>1, <1>2, <1>3, <1>4 DEF Next

LEMMA InitIsListInit == Init => List!Init
<1> SUFFICES ASSUME Init PROVE Contents = <<>>
  BY DEF List!Init
<1>1. 1 .. size = {} BY DEF Init
<1>2. ArrayOK BY InitArray
<1>3. Len(Contents) = 0 /\ Contents \in Seq(Elements) BY <1>2, ContentsSeq DEF Init, ContentsOK
<1> QED BY <1>3

\* Every behaviour of the array is one of the list of its elements.
THEOREM ArrayIsList == Spec => ImplementsList
<1> QED BY InitIsListInit, StepIsListStep, ArrayStaysOK, PTL
        DEF Spec, ImplementsList, List!Spec
=============================================================================
