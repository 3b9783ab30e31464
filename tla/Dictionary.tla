------------------------------- MODULE Dictionary -------------------------------
(***************************************************************************)
(* What the hash set and the hash map of nt_algo.h promise: a store of     *)
(* values by key.  The map lets a key be set again (Overwrites); the set   *)
(* keeps what was inserted first.  An operation that fails for want of     *)
(* memory changes nothing.                                                 *)
(***************************************************************************)
EXTENDS Functions

CONSTANTS Key, Value, Overwrites

VARIABLE store  \* a function from the keys that are there to their values

Init == store = <<>>

Put(k, v) ==
    /\ Overwrites \/ k \notin DOMAIN store
    /\ store' = [x \in DOMAIN store \cup {k} |-> IF x = k THEN v ELSE store[x]]

Delete(k) == store' = Restrict(store, DOMAIN store \ {k})

Empty == store' = <<>>

Next ==
    \/ \E k \in Key, v \in Value : Put(k, v)
    \/ \E k \in Key : Delete(k)
    \/ Empty

Spec == Init /\ [][Next]_store

=============================================================================
