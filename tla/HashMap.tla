-------------------------------- MODULE HashMap --------------------------------
(***************************************************************************)
(* The hash map of nt_hashmap.c: slots that hold arrays of entries, each   *)
(* array with room for alloc of them (0: no array), and a table that grows *)
(* in place.                                                               *)
(***************************************************************************)
EXTENDS Integers, Sequences, FiniteSets, Functions, Primes

CONSTANTS
    Key,
    Value,           \* 0 may be one: a set of it looks like no set
    Hash,            \* hash_func, a function on Key
    InitSize,        \* values of init_size
    DefaultSlots,    \* NT_HASHMAP_DEFAULT_SLOTS
    CritLoadFactor,  \* CRIT_LOAD_FACTOR
    FirstAlloc,      \* entries_alloc of a new array
    AllowOom         \* allow_oom of the pool: an allocation may return NULL

HashMapAssumption ==
    /\ Hash \in [Key -> Nat]
    /\ InitSize \subseteq Nat
    /\ {DefaultSlots, CritLoadFactor, FirstAlloc} \subseteq Nat \ {0}
    /\ AllowOom \in BOOLEAN

VARIABLES
    num_slots, num_data,
    slots,   \* slots[i] for i \in 0 .. num_slots - 1: [entries, alloc]
    status   \* "none" before create and after destroy, "up", "exited", "crashed"

table == <<num_slots, num_data, slots>>
vars == <<table, status>>

Entry == [key : Key, value : Value]

Init ==
    /\ num_slots = 0
    /\ num_data = 0
    /\ slots = <<>>
    /\ status = "none"

-----------------------------------------------------------------------------
(* The table *)

NoEntries == [entries |-> <<>>, alloc |-> 0]
Empty(n) == [i \in 0 .. n - 1 |-> NoEntries]

SlotOf(k) == Hash[k] % num_slots
KeysOf(slot) == {e.key : e \in Range(slot.entries)}
EntriesOf(t) == UNION {Range(t[i].entries) : i \in DOMAIN t}
Keys == {e.key : e \in EntriesOf(slots)}
IndexIn(slot, k) == CHOOSE i \in DOMAIN slot.entries : slot.entries[i].key = k

(* nt_hashmap_get: 0 for a key that is not there, which may be the value   *)
(* of one that is.                                                         *)
Found(k) == num_slots > 0 /\ k \in KeysOf(slots[SlotOf(k)])
Get(k) ==
    IF Found(k) THEN slots[SlotOf(k)].entries[IndexIn(slots[SlotOf(k)], k)].value ELSE 0

(* Mutant: the array is full one entry too late. *)
EnsureFreeLate(slot) ==
    IF slot.alloc = 0 THEN FirstAlloc
    ELSE IF Len(slot.entries) > slot.alloc THEN 2 * slot.alloc
    ELSE slot.alloc

(* __hashmap_ensure_free_entry *)
EnsureFree(slot) ==
    IF slot.alloc = 0 THEN FirstAlloc
    ELSE IF Len(slot.entries) = slot.alloc THEN 2 * slot.alloc
    ELSE slot.alloc

With(slot, e) == [entries |-> Append(slot.entries, e), alloc |-> EnsureFree(slot)]

(* Mutant: the array closes up, but nothing takes the place of the one     *)
(* that goes.                                                              *)
DropLast(slot, i) ==
    [slot EXCEPT !.entries = SubSeq(@, 1, Len(@) - 1)]

(* The last entry takes the place of the one that goes. *)
Drop(slot, i) ==
    LET n == Len(slot.entries)
    IN  [slot EXCEPT !.entries = SubSeq([@ EXCEPT ![i] = slot.entries[n]], 1, n - 1)]

(* Entry i of slot s goes to slot to. *)
Moved(t, s, to, i) == [t EXCEPT ![to] = With(@, t[s].entries[i]), ![s] = Drop(@, i)]

(* Mutant: the entry that has taken the place of one that went is not      *)
(* looked at (no i--).                                                     *)
MoveOutSkipping(s, n, t) ==
    LET after[j \in 0 .. Len(t[s].entries)] ==
          IF j = 0 THEN [t |-> t, i |-> 1]
          ELSE LET x == after[j - 1]
                   to == Hash[x.t[s].entries[x.i].key] % n
               IN  IF x.i > Len(x.t[s].entries) THEN x
                   ELSE IF to = s THEN [x EXCEPT !.i = @ + 1]
                   ELSE [t |-> Moved(x.t, s, to, x.i), i |-> x.i + 1]
    IN  after[Len(t[s].entries)].t

(* The entries of slot s move, one by one, to where they belong in a table *)
(* of n slots; i is the one that is looked at.                             *)
MoveOut(s, n, t) ==
    LET after[j \in 0 .. Len(t[s].entries)] ==
          IF j = 0 THEN [t |-> t, i |-> 1]
          ELSE LET x == after[j - 1]
                   to == Hash[x.t[s].entries[x.i].key] % n
               IN  IF to = s THEN [x EXCEPT !.i = @ + 1]
                   ELSE [x EXCEPT !.t = Moved(@, s, to, x.i)]
    IN  after[Len(t[s].entries)].t

(* A table of m slots that grows to n, slot by slot *)
Larger(t, m, n) == [i \in 0 .. n - 1 |-> IF i < m THEN t[i] ELSE NoEntries]

Rehash(t, m, n) ==
    LET after[s \in 0 .. m] ==
          IF s = 0 THEN Larger(t, m, n) ELSE MoveOut(s - 1, n, after[s - 1])
    IN  after[m]

Grown(n) == NextPrime((n * 3) \div 2)

-----------------------------------------------------------------------------
(* Operations *)

Up == status = "up"

(* nt_hashmap_create_ext, nt_hashmap_destroy; an init_size of 0 leaves the *)
(* slots to the first set.                                                 *)
SlotsFor(n) == IF n = 0 THEN 0 ELSE NextPrime(n)

Create(n) ==
    /\ status = "none"
    /\ status' = "up"
    /\ num_slots' = SlotsFor(n)
    /\ slots' = Empty(SlotsFor(n))
    /\ UNCHANGED num_data

Destroy ==
    /\ Up
    /\ status' = "none"
    /\ num_slots' = 0 /\ num_data' = 0 /\ slots' = <<>>

(* nt_hashmap_set *)
SetOld(k, v) ==
    /\ Up /\ Found(k)
    /\ slots' = [slots EXCEPT ![SlotOf(k)].entries[IndexIn(slots[SlotOf(k)], k)].value = v]
    /\ UNCHANGED <<num_slots, num_data, status>>

SetNew(k, v) ==
    LET n == IF num_slots = 0 THEN NextPrime(DefaultSlots) ELSE num_slots
        now == IF num_slots = 0 THEN Empty(n) ELSE slots
        t == [now EXCEPT ![Hash[k] % n] = With(@, [key |-> k, value |-> v])]
        grows == num_data + 1 >= n * CritLoadFactor
    IN
    /\ Up /\ ~Found(k)
    /\ num_data' = num_data + 1
    /\ num_slots' = IF grows THEN Grown(n) ELSE n
    /\ slots' = IF grows THEN Rehash(t, n, Grown(n)) ELSE t
    /\ UNCHANGED status

(* nt_hashmap_remove *)
Remove_(k) ==
    /\ Up /\ Found(k)
    /\ slots' = [slots EXCEPT ![SlotOf(k)] = Drop(@, IndexIn(@, k))]
    /\ num_data' = num_data - 1
    /\ UNCHANGED <<num_slots, status>>

(* nt_hashmap_clear *)
Clear ==
    /\ Up
    /\ slots' = Empty(num_slots)
    /\ num_data' = 0
    /\ UNCHANGED <<num_slots, status>>

(* An allocation fails: the pool ends the program, unless it is to go on;  *)
(* then the map, which looks at nothing that it gets, goes through a null  *)
(* pointer.                                                                *)
SetAllocates(k) ==
    \/ num_slots = 0
    \/ EnsureFree(slots[SlotOf(k)]) # slots[SlotOf(k)].alloc
    \/ num_data + 1 >= num_slots * CritLoadFactor

OutOfMemory ==
    /\ \/ status = "none" /\ InitSize # {0}
       \/ Up /\ {k \in Key : ~Found(k) /\ SetAllocates(k)} # {}
    /\ status' = IF AllowOom THEN "crashed" ELSE "exited"
    /\ UNCHANGED table

Next ==
    \/ \E n \in InitSize : Create(n)
    \/ Destroy \/ OutOfMemory \/ Clear
    \/ \E k \in Key, v \in Value : SetOld(k, v) \/ SetNew(k, v)
    \/ \E k \in Key : Remove_(k)

Spec == Init /\ [][Next]_vars

-----------------------------------------------------------------------------
(* Properties *)

(* The entries by key, whichever slots they are in.                        *)
Store ==
    [k \in Keys |-> (CHOOSE e \in EntriesOf(slots) : e.key = k).value]

TypeOK ==
    /\ num_slots \in Nat
    /\ DOMAIN slots = 0 .. num_slots - 1
    /\ \A i \in DOMAIN slots : slots[i].entries \in Seq(Entry)
    /\ num_data = Cardinality(Keys)
    /\ status \in {"none", "up", "exited", "crashed"}

(* However the table grew: nt_hashmap_get, which looks into one slot,      *)
(* finds every entry, no array is written past its end, and the table is   *)
(* never fuller than it may be.  (And every variable has its type.)        *)
GetExact ==
    /\ TypeOK
    /\ \A k \in Key : Get(k) = IF k \in DOMAIN Store THEN Store[k] ELSE 0
    /\ \A i \in DOMAIN slots : Len(slots[i].entries) <= slots[i].alloc
    /\ num_slots > 0 => num_data < num_slots * CritLoadFactor

(* The map implements a dictionary: a key has the value it was given last, *)
(* until it is removed.                                                    *)
Dict == INSTANCE Dictionary WITH store <- Store, Overwrites <- TRUE
IsDictionary == Dict!Spec

(* nt_mem.h:18: the program continues when memory has run out.             *)
NoCrash == status # "crashed"

=============================================================================
