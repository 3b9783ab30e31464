----------------------------- MODULE PriorityQueue -----------------------------
(***************************************************************************)
(* What the binary heap of nt_algo.h promises: a bag of elements of which  *)
(* one with the least data comes out first.  Update and Delete are the     *)
(* DIRECT operations, by key.                                              *)
(***************************************************************************)
EXTENDS Integers, BagsExt

CONSTANT Elem  \* records with a key and data

VARIABLE bag  \* how many there are of each of the elements in it

Init == bag = <<>>

Insert(e) == bag' = BagAdd(bag, e)

RemoveMin(e) ==
    /\ e \in DOMAIN bag
    /\ \A f \in DOMAIN bag : e.data <= f.data
    /\ bag' = BagRemove(bag, e)

Update(old, new) ==
    /\ old \in DOMAIN bag /\ old.key = new.key
    /\ bag' = BagAdd(BagRemove(bag, old), new)

Delete(e) ==
    /\ e \in DOMAIN bag
    /\ bag' = BagRemove(bag, e)

Empty == bag' = <<>>

(* Update and Delete exist with the DIRECT option only. *)
Next ==
    \/ \E e \in Elem : Insert(e) \/ RemoveMin(e) \/ Delete(e)
    \/ \E old, new \in Elem : Update(old, new)
    \/ Empty

Spec == Init /\ [][Next]_bag

=============================================================================
