------------------------------ MODULE Containers ------------------------------
(***************************************************************************)
(* The containers of nt_algo.h and ddl.h, which share no state, side by    *)
(* side: a behaviour is that of one of them, and the others stay as they   *)
(* are.                                                                    *)
(***************************************************************************)
EXTENDS Integers

CONSTANTS
    Key, Value, NoKey, Hash, InitSize, DefaultSlots, Oom, CritLoadFactor, FirstEntries,
    AllowOom, HeapKey, HeapData, Absent, FAIL, FirstElems, MaxElems,
    Node, NULL, NumModulus

VARIABLES
    container,  \* which of them the behaviour is about
    set_num_slots, set_num_data, set_slots, set_status, iter_slot, iter_entry, todo,
    map_num_slots, map_num_data, map_slots, map_status,
    elems, elems_alloc, key_index, heap_status, direct, absent,
    used, next, prev, entr, tail, curr, pos, num, list_state

set == <<set_num_slots, set_num_data, set_slots, set_status, iter_slot, iter_entry, todo>>
map == <<map_num_slots, map_num_data, map_slots, map_status>>
heap == <<elems, elems_alloc, key_index, heap_status, direct, absent>>
list == <<used, next, prev, entr, tail, curr, pos, num, list_state>>

HS == INSTANCE HashSet WITH
        num_slots <- set_num_slots, num_data <- set_num_data,
        slots <- set_slots, status <- set_status
HM == INSTANCE HashMap WITH
        FirstAlloc <- FirstEntries,
        num_slots <- map_num_slots, num_data <- map_num_data,
        slots <- map_slots, status <- map_status
BH == INSTANCE BinaryHeap WITH
        Key <- HeapKey, Data <- HeapData, FirstAlloc <- FirstElems,
        status <- heap_status
DL == INSTANCE DdlList WITH state <- list_state

ASSUME Assumptions ==
    /\ HS!HashSetAssumption
    /\ HM!HashMapAssumption
    /\ BH!BinaryHeapAssumption
    /\ DL!DdlListAssumption

Init ==
    /\ container \in {"set", "map", "heap", "list"}
    /\ HS!Init /\ HM!Init /\ BH!Init /\ DL!Init

SetNext ==
    container = "set" /\ HS!Next /\ UNCHANGED <<container, map, heap, list>>
MapNext ==
    container = "map" /\ HM!Next /\ UNCHANGED <<container, set, heap, list>>
HeapNext ==
    container = "heap" /\ BH!Next /\ UNCHANGED <<container, set, map, list>>
ListNext ==
    container = "list" /\ DL!Next /\ UNCHANGED <<container, set, map, heap>>

Next == SetNext \/ MapNext \/ HeapNext \/ ListNext

Spec == Init /\ [][Next]_<<container, set, map, heap, list>>

-----------------------------------------------------------------------------
(* What each module says of its container. *)

(* The set: every entry is in the slot where a search looks for it. *)
SetInPlace == HS!InPlace
(* The set: an iteration that removes returns every entry once. *)
SetIterExact == HS!IterExact
(* The set implements a dictionary that keeps what came first. *)
SetIsDictionary == HS!IsDictionary
(* The map: get finds every entry, and no array is written past its end. *)
MapGetExact == HM!GetExact
(* The map implements a dictionary that keeps what came last. *)
MapIsDictionary == HM!IsDictionary
(* The heap: its order, and the map from keys to places. *)
HeapInv == BH!HeapInv
(* The heap implements a priority queue. *)
HeapIsPriorityQueue == BH!IsPriorityQueue
(* The heap: the DIRECT option refuses duplicate keys, and no others. *)
HeapRefusesDuplicates == BH!RefusesDuplicates
(* The list: the two directions mirror each other. *)
ListLinked == DL!Linked
(* The list implements a sequence with a cursor. *)
ListIsSequence == DL!IsCursorList
=============================================================================
