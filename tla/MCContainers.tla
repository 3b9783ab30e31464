----------------------------- MODULE MCContainers -----------------------------
(***************************************************************************)
(* Model values for the run of Containers.  For the tables k2 and k3 have  *)
(* the same hash, and the others meet and part as a table grows over 2, 3, *)
(* 5, 7, 11 slots.  Nothing tells two keys of the heap apart, or two       *)
(* addresses of list nodes.                                                *)
(***************************************************************************)
EXTENDS Containers, FiniteSets, SequencesExt, TLC

CONSTANTS
    k1, k2, k3, k4, k5, v1, h1, h2, h3, h4, h5, h6, h7, n1, n2, n3, n4, n5, n6

HashOf == k1 :> 5 @@ k2 :> 6 @@ k3 :> 6 @@ k4 :> 10 @@ k5 :> 3

(* Two states that differ in nothing but which keys the heap's elements    *)
(* have, or at which addresses the list's nodes are, are one: of a key is  *)
(* left where the map has it, of an address its place in the list.  What   *)
(* the list has forgotten counts as memory in use.  The options are those  *)
(* of the heap.                                                            *)
HeapKeys == {elems[i].key : i \in DOMAIN elems}
IndexOf(k) == IF k \in DOMAIN key_index THEN key_index[k] ELSE 0
HeapView ==
    <<[i \in DOMAIN elems |-> <<elems[i].data, IndexOf(elems[i].key)>>],
      {key_index[k] : k \in DOMAIN key_index \ HeapKeys},
      elems_alloc, heap_status, direct, absent>>

Place(n) == LET f == DL!Forward IN SelectInSeq(f, LAMBDA m : m = n)
ListView ==
    <<[i \in DOMAIN DL!Forward |-> Place(prev[DL!Forward[i]])],
      Place(tail), Place(curr), Place(pos), {n \in {tail, curr, pos} : n = NULL},
      Cardinality(used), num, list_state>>

View ==
    <<container, set, map, IF container = "heap" THEN HeapView ELSE <<>>, ListView>>
=============================================================================
