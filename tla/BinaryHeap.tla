------------------------------ MODULE BinaryHeap ------------------------------
(***************************************************************************)
(* The binary heap of nt_binaryheap.c: an array of elements, of which      *)
(* elems holds the elems_num that are in use, and with the DIRECT option a *)
(* map key_index from the keys to their places.  Places count from 1 here  *)
(* and from 0 in the code; the children of i are 2i and 2i + 1, its parent *)
(* is i \div 2.                                                            *)
(***************************************************************************)
EXTENDS Integers, Sequences, FiniteSets, Functions

CONSTANTS
    Key,
    Data,        \* what compare_func compares
    Absent,      \* what nt_hashmap_get may return for an absent key: FAIL as in
                 \* nt_hashmap.c:104-127, or 0, no place, as it is compiled
    FirstAlloc,  \* elements in a new array
    MaxElems     \* bound: no insert beyond

CONSTANT FAIL    \* what insert, update and remove take for an absent key

BinaryHeapAssumption ==
    /\ Data \subseteq Int
    /\ {FirstAlloc, MaxElems} \subseteq Nat \ {0}
    /\ (Absent \cup {FAIL}) \cap (1 .. MaxElems) = {}

Elem == [key : Key, data : Data]

VARIABLES
    elems, elems_alloc, key_index,
    status,          \* "up", "exited", "crashed"
    direct, absent   \* NT_BINARY_HEAP_OPTION_DIRECT; one of Absent

heap == <<elems, elems_alloc, key_index>>
options == <<direct, absent>>
vars == <<heap, status, options>>

(* nt_binary_heap_create_ext *)
Init ==
    /\ elems = <<>>
    /\ elems_alloc = 0
    /\ key_index = <<>>
    /\ status = "up"
    /\ direct \in BOOLEAN
    /\ absent \in Absent

-----------------------------------------------------------------------------
(* Helpers work on x = [elems, index, at]: the array, the map, the place   *)
(* of the element that moves.                                              *)

At(h, index, i) == [elems |-> h, index |-> index, at |-> i]

Less(x, i, j) == x.elems[i].data < x.elems[j].data

Indexed(index, k, i) ==
    IF direct THEN [x \in DOMAIN index \cup {k} |-> IF x = k THEN i ELSE index[x]]
    ELSE index

Swap(x, i, j) ==
    LET e == [x.elems EXCEPT ![i] = x.elems[j], ![j] = x.elems[i]]
    IN  At(e, Indexed(Indexed(x.index, e[i].key, i), e[j].key, j), x.at)

(* A turn of the loop *)
Rise(x) ==
    IF x.at > 1 /\ Less(x, x.at, x.at \div 2)
    THEN [Swap(x, x.at \div 2, x.at) EXCEPT !.at = x.at \div 2]
    ELSE x

(* Mutant: one turn, and no loop. *)
BubbleUpOnce(x) == Rise(x)

(* The loop makes at most as many turns as there are elements. *)
BubbleUp(x) ==
    LET after[n \in 0 .. Len(x.elems)] == IF n = 0 THEN x ELSE Rise(after[n - 1])
    IN  after[Len(x.elems)]

(* Mutant: the left child is taken, whichever is less. *)
LeastChildLeft(x, i) == 2 * i

(* The lesser child, the left one if they are equal. *)
LeastChild(x, i) ==
    IF 2 * i + 1 <= Len(x.elems) /\ Less(x, 2 * i + 1, 2 * i) THEN 2 * i + 1 ELSE 2 * i

Sink(x) ==
    IF 2 * x.at <= Len(x.elems) /\ Less(x, LeastChild(x, x.at), x.at)
    THEN [Swap(x, x.at, LeastChild(x, x.at)) EXCEPT !.at = LeastChild(x, x.at)]
    ELSE x

BubbleDown(x) ==
    LET after[n \in 0 .. Len(x.elems)] == IF n = 0 THEN x ELSE Sink(after[n - 1])
    IN  after[Len(x.elems)]

(* Up, and if that moves nothing, down. *)
Settle(x) ==
    LET up == BubbleUp(x) IN IF up.at = x.at THEN BubbleDown(up) ELSE up

(* An element that has not moved from place i has not been indexed yet. *)
IndexOf(x, i) == IF x.at = i THEN Indexed(x.index, x.elems[i].key, i) ELSE x.index

(* The last element takes the place of the one that goes. *)
Without(i) == SubSeq([elems EXCEPT ![i] = elems[Len(elems)]], 1, Len(elems) - 1)
Forgotten(k) == Restrict(key_index, DOMAIN key_index \ {k})

Keys == {elems[i].key : i \in DOMAIN elems}
Get(k) == IF k \in DOMAIN key_index THEN key_index[k] ELSE absent

(* __binary_heap_ensure_free_space *)
EnsureFree ==
    IF elems_alloc = 0 THEN FirstAlloc
    ELSE IF Len(elems) = elems_alloc
    THEN IF elems_alloc + 1 > (elems_alloc * 3) \div 2
         THEN elems_alloc + 1 ELSE (elems_alloc * 3) \div 2
    ELSE elems_alloc

-----------------------------------------------------------------------------
(* Operations *)

Up == status = "up"
Becomes(h, index) == elems' = h /\ key_index' = index

(* Without the option nothing looks at keys: there every element is given  *)
(* one of its own, which tells it from the others.                         *)
MayEnter(e) == IF direct THEN Get(e.key) = FAIL ELSE e.key \notin Keys

(* nt_binary_heap_insert *)
Insert(e) ==
    LET n == Len(elems) + 1
        x == BubbleUp(At(Append(elems, e), key_index, n))
    IN
    /\ Up /\ MayEnter(e) /\ n <= MaxElems
    /\ elems_alloc' = EnsureFree
    /\ Becomes(x.elems, IndexOf(x, n))
    /\ UNCHANGED <<status, options>>

InsertRefused(e) ==
    /\ Up /\ direct /\ Get(e.key) # FAIL
    /\ status' = "exited"
    /\ UNCHANGED <<heap, options>>

(* realloc returns NULL: the process ends. *)
InsertFails(e) ==
    /\ Up /\ MayEnter(e)
    /\ status' = "exited"
    /\ UNCHANGED <<heap, options>>

(* nt_binary_heap_remove_min *)
RemoveMin ==
    LET index == IF direct THEN Forgotten(elems[1].key) ELSE key_index
        x == BubbleDown(At(Without(1), index, 1))
    IN
    /\ Up /\ elems # <<>>
    /\ IF Len(elems) = 1 THEN Becomes(<<>>, index) ELSE Becomes(x.elems, IndexOf(x, 1))
    /\ UNCHANGED <<elems_alloc, status, options>>

(* nt_binary_heap_find_min and remove_min of an empty heap; update_direct  *)
(* and remove_direct without the option, or of a key that is not there     *)
Misused ==
    /\ Up
    /\ \/ elems = <<>>
       \/ ~direct
       \/ \E k \in Key : Get(k) = FAIL
    /\ status' = "exited"
    /\ UNCHANGED <<heap, options>>

(* update_direct and remove_direct of a place that is in the array, or not *)
(* (elems[0] is then element 1; an empty heap's elems is NULL)             *)
Reaching(i, h, index) ==
    IF i \in DOMAIN elems THEN Becomes(h, index) /\ UNCHANGED status
    ELSE status' = "crashed" /\ UNCHANGED <<elems, key_index>>

(* nt_binary_heap_update_direct *)
Update(e) ==
    LET i == Get(e.key)
        x == Settle(At([elems EXCEPT ![i] = e], key_index, i))
    IN
    /\ Up /\ direct /\ i # FAIL
    /\ Reaching(i, x.elems, x.index)
    /\ UNCHANGED <<elems_alloc, options>>

(* nt_binary_heap_remove_direct *)
RemoveDirect(k) ==
    LET i == Get(k)
        x == Settle(At(Without(i), Forgotten(k), i))
    IN
    /\ Up /\ direct /\ i # FAIL
    /\ IF i = Len(elems) THEN Reaching(i, Without(i), Forgotten(k))
       ELSE Reaching(i, x.elems, IndexOf(x, i))
    /\ UNCHANGED <<elems_alloc, options>>

(* nt_binary_heap_clear *)
Clear ==
    /\ Up
    /\ elems' = <<>> /\ elems_alloc' = 0 /\ key_index' = <<>>
    /\ UNCHANGED <<status, options>>

Next ==
    \/ \E e \in Elem : Insert(e) \/ InsertRefused(e) \/ InsertFails(e) \/ Update(e)
    \/ \E k \in Key : RemoveDirect(k)
    \/ RemoveMin \/ Misused \/ Clear

Spec == Init /\ [][Next]_vars

-----------------------------------------------------------------------------
(* Properties *)

(* Every variable has its type, and elems is never written past its end.   *)
TypeOK ==
    /\ elems \in Seq(Elem) /\ Len(elems) <= elems_alloc
    /\ elems_alloc \in Nat
    /\ DOMAIN key_index \subseteq Key
    /\ status \in {"up", "exited", "crashed"}
    /\ direct \in BOOLEAN /\ absent \in Absent

(* nt_algo.h:206, a min-heap: no element is less than its parent, however  *)
(* inserts, updates and removals follow each other; and with the DIRECT    *)
(* option the map knows the place of every element, and of no other, after *)
(* all the swapping.  (And every variable has its type: elems is not       *)
(* written past its end.)                                                  *)
HeapOrder == \A i \in 2 .. Len(elems) : elems[i \div 2].data <= elems[i].data
KeyIndexExact ==
    direct =>
      /\ DOMAIN key_index = Keys
      /\ \A i \in DOMAIN elems : key_index[elems[i].key] = i
HeapInv == TypeOK /\ HeapOrder /\ KeyIndexExact

(* The heap implements the priority queue PriorityQueue: what remove_min   *)
(* takes is a minimum, and every operation does what the queue's does, to  *)
(* the element of its own key, wherever the swapping has taken it.         *)
BagOfElems ==
    [e \in Range(elems) |-> Cardinality({i \in DOMAIN elems : elems[i] = e})]
Queue == INSTANCE PriorityQueue WITH bag <- BagOfElems
IsPriorityQueue ==
    [][ /\ \A e \in Elem :
             /\ Insert(e) => Queue!Insert(e)
             /\ Update(e) /\ status' = "up" => \E old \in Elem : Queue!Update(old, e)
        /\ RemoveMin => \E e \in Elem : Queue!RemoveMin(e)
        /\ \A k \in Key : RemoveDirect(k) /\ status' = "up" =>
             \E e \in Elem : e.key = k /\ Queue!Delete(e)
        /\ Clear => Queue!Empty
        /\ status' # "up" => UNCHANGED BagOfElems ]_vars

(* nt_binaryheap.c:213, "inserting a duplicate key into a heap with direct *)
(* option": an insert is refused for a key that is in the heap, and for no *)
(* other.                                                                  *)
RefusesDuplicates == [][\A e \in Elem : InsertRefused(e) => e.key \in Keys]_vars

=============================================================================
