------------------------------ MODULE CowList ------------------------------
(***************************************************************************)
(* What an Array promises: a list of the elements added, in order.         *)
(***************************************************************************)
EXTENDS Integers, SequencesExt

CONSTANT Elements
VARIABLE list

Add(e)    == list' = Append(list, e)
Pop       == list # <<>> /\ list' = Front(list)
Delete(k) == list' = RemoveAt(list, k)

Init == list = <<>>
Next == \/ \E e \in Elements : Add(e)
        \/ Pop
        \/ \E k \in DOMAIN list : Delete(k)
Spec == Init /\ [][Next]_list
=============================================================================
