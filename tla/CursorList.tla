------------------------------ MODULE CursorList ------------------------------
(***************************************************************************)
(* What the operations of ddl.h make of a list: a sequence with a cursor.  *)
(* New items come first or last; the cursor stays on its item as others    *)
(* come and go, moves one place at a time, and goes to the item before     *)
(* when its own is deleted.  ddl.h says of none of this how it is meant:   *)
(* that deleting the first item empties the list is what ddl.c:182-190     *)
(* does, and not a promise.                                                *)
(***************************************************************************)
EXTENDS Integers, Sequences, SequencesExt

CONSTANT Item

VARIABLES items, at  \* at = 0 of an empty list

Init == items = <<>> /\ at = 0

PutFirst(x) ==
    /\ x \notin ToSet(items)
    /\ items' = <<x>> \o items
    /\ at' = at + 1

PutLast(x) ==
    /\ x \notin ToSet(items)
    /\ items' = Append(items, x)
    /\ at' = IF items = <<>> THEN 1 ELSE at

Delete(i) ==
    /\ items' = RemoveAt(items, i)
    /\ at' = IF at >= i THEN at - 1 ELSE at

Empty == items' = <<>> /\ at' = 0

Move == items' = items /\ at' \in {at - 1, at + 1} \cap DOMAIN items

Next ==
    \/ \E x \in Item : PutFirst(x) \/ PutLast(x)
    \/ \E i \in 2 .. Len(items) : Delete(i)
    \/ Empty \/ Move

Spec == Init /\ [][Next]_<<items, at>>

=============================================================================
