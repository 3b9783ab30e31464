-------------------------------- MODULE HashSet --------------------------------
(***************************************************************************)
(* The hash set of hashset.c: slots of linked entries, a table that grows  *)
(* in place, and an iterator that may remove what it is at.  A chain of    *)
(* entries is a sequence; an entry is known by its key, which the table    *)
(* holds at most once.                                                     *)
(***************************************************************************)
EXTENDS Integers, Sequences, FiniteSets, SequencesExt, Primes

CONSTANTS
    Key, Value,    \* what compare_func looks at, and the rest of the data
    Hash,          \* hash_func, a function on Key
    InitSize,      \* values of init_size
    DefaultSlots,  \* NT_HASHSET_DEFAULT_SLOTS
    Oom,           \* the allocations that may return NULL
    NoKey

HashSetAssumption ==
    /\ NoKey \notin Key
    /\ Hash \in [Key -> Nat]
    /\ InitSize \subseteq Nat
    /\ DefaultSlots \in Nat \ {0}
    /\ Oom \subseteq {"slots", "grow", "entry"}

VARIABLES
    num_slots, num_data,
    slots,      \* slots[i] for i \in 0 .. num_slots - 1; no slot if NULL
    status,     \* "none" before create and after destroy, "up", "crashed"
    iter_slot, iter_entry,
    todo        \* keys that the iterator has still to return

table == <<num_slots, num_data, slots>>
iter == <<iter_slot, iter_entry, todo>>
vars == <<table, status, iter>>

Entry == [key : Key, value : Value]

ITER_START == -1
ITER_FINISH == -2
Iterating == iter_slot # ITER_FINISH

Init ==
    /\ num_slots = 0
    /\ num_data = 0
    /\ slots = <<>>
    /\ status = "none"
    /\ iter_slot = ITER_FINISH
    /\ iter_entry = NoKey
    /\ todo = {}

-----------------------------------------------------------------------------
(* The table *)

Empty(n) == [i \in 0 .. n - 1 |-> <<>>]

SlotOf(k) == Hash[k] % num_slots
KeysOf(chain) == {e.key : e \in ToSet(chain)}
EntriesOf(t) == UNION {ToSet(t[i]) : i \in DOMAIN t}
Keys == {e.key : e \in EntriesOf(slots)}

(* A search looks into one slot. *)
Found(k) == num_slots > 0 /\ k \in KeysOf(slots[SlotOf(k)])

(* Mutant: entries that were moved keep no place for what was there. *)
MoveOutLosing(s, n, t) ==
    LET chain == t[s]
        after[i \in 0 .. Len(chain)] ==
          IF i = 0 THEN [t EXCEPT ![s] = <<>>]
          ELSE LET e == chain[i]
                   to == Hash[e.key] % n
               IN  [after[i - 1] EXCEPT ![to] = IF to = s THEN Append(@, e) ELSE <<e>>]
    IN  after[Len(chain)]

(* The entries of slot s, one by one: one that belongs elsewhere in a      *)
(* table of n slots goes to the head of its new chain.                     *)
MoveOut(s, n, t) ==
    LET chain == t[s]
        after[i \in 0 .. Len(chain)] ==
          IF i = 0 THEN [t EXCEPT ![s] = <<>>]
          ELSE LET e == chain[i]
                   to == Hash[e.key] % n
               IN  [after[i - 1] EXCEPT ![to] = IF to = s THEN Append(@, e) ELSE <<e>> \o @]
    IN  after[Len(chain)]

(* A table of m slots that grows to n, slot by slot *)
Larger(t, m, n) == [i \in 0 .. n - 1 |-> IF i < m THEN t[i] ELSE <<>>]

(* Mutant: the last of the old slots is passed over. *)
RehashButLast(t, m, n) ==
    LET after[s \in 0 .. m] ==
          IF s = 0 THEN Larger(t, m, n) ELSE MoveOut(s - 1, n, after[s - 1])
    IN  after[m - 1]

Rehash(t, m, n) ==
    LET after[s \in 0 .. m] ==
          IF s = 0 THEN Larger(t, m, n) ELSE MoveOut(s - 1, n, after[s - 1])
    IN  after[m]

MustGrow(n) == num_data + 1 >= (n * 4) \div 5

Grown(n) == NextPrime((n * 3) \div 2)

-----------------------------------------------------------------------------
(* nt_hashset_create_ext, nt_hashset_destroy *)

Up == status = "up" /\ (num_slots > 0 => slots # <<>>)

(* An init_size of 0 leaves the slots to the first insert.                *)
SlotsFor(n) == IF n = 0 THEN 0 ELSE NextPrime(n)

Create(n) ==
    /\ status = "none"
    /\ status' = "up"
    /\ num_slots' = SlotsFor(n)
    /\ \/ slots' = Empty(SlotsFor(n))
       \/ "slots" \in Oom /\ n > 0 /\ slots' = <<>>
    /\ UNCHANGED <<num_data, iter>>

Destroy ==
    /\ Up /\ ~Iterating
    /\ status' = "none"
    /\ num_slots' = 0
    /\ num_data' = 0
    /\ slots' = <<>>
    /\ UNCHANGED iter

(* The slots could not be allocated, but num_slots says there are some:    *)
(* whatever comes next goes through a null pointer.                        *)
Crash ==
    /\ status = "up" /\ num_slots > 0 /\ slots = <<>>
    /\ status' = "crashed"
    /\ UNCHANGED <<table, iter>>

-----------------------------------------------------------------------------
(* nt_hashset_insert_ext *)

(* The first insert into a set that was created with no slots finds no     *)
(* memory for them.                                                        *)
InsertNoSlots ==
    /\ Up /\ ~Iterating
    /\ num_slots = 0
    /\ "slots" \in Oom
    /\ num_slots' = NextPrime(DefaultSlots)
    /\ UNCHANGED <<num_data, slots, status, iter>>

(* The table as insert finds or makes it, and as it is when it has grown   *)
(* if it must, unless there is no memory for that: then insert fails.      *)
SlotsNow == IF num_slots = 0 THEN NextPrime(DefaultSlots) ELSE num_slots
TableNow == IF num_slots = 0 THEN Empty(SlotsNow) ELSE slots
SlotsNext == IF MustGrow(SlotsNow) THEN Grown(SlotsNow) ELSE SlotsNow
TableNext == IF MustGrow(SlotsNow) THEN Rehash(TableNow, SlotsNow, SlotsNext) ELSE TableNow

(* A key that is found stays what it is. *)
Insert(k, v) ==
    /\ Up /\ ~Iterating
    /\ ~Found(k)
    /\ num_slots' = SlotsNext
    /\ slots' = [TableNext EXCEPT ![Hash[k] % SlotsNext] =
                  <<[key |-> k, value |-> v]>> \o @]
    /\ num_data' = num_data + 1
    /\ UNCHANGED <<status, iter>>

InsertFails(k) ==
    /\ Up /\ ~Iterating
    /\ ~Found(k)
    /\ \/ /\ "grow" \in Oom /\ MustGrow(SlotsNow)
          /\ num_slots' = SlotsNow /\ slots' = TableNow
       \/ /\ "entry" \in Oom
          /\ num_slots' = SlotsNext /\ slots' = TableNext
    /\ UNCHANGED <<num_data, status, iter>>

-----------------------------------------------------------------------------
(* nt_hashset_remove, nt_hashset_remove_direct, nt_hashset_clear *)

Position(k, chain) == CHOOSE i \in DOMAIN chain : chain[i].key = k

(* The entry is found by its key, or by the pointer that insert returned. *)
Without(k) ==
    [slots EXCEPT ![SlotOf(k)] = RemoveAt(@, Position(k, @))]

RemoveKey(k) ==
    /\ Up /\ ~Iterating
    /\ Found(k)
    /\ slots' = Without(k)
    /\ num_data' = num_data - 1
    /\ UNCHANGED <<num_slots, status, iter>>

Clear ==
    /\ Up /\ ~Iterating
    /\ slots' = Empty(num_slots)
    /\ num_data' = 0
    /\ UNCHANGED <<num_slots, status, iter>>

-----------------------------------------------------------------------------
(* The iterator.  While it is under way nothing else changes the set.      *)

IterReset ==
    /\ Up /\ ~Iterating
    /\ iter_slot' = ITER_START
    /\ iter_entry' = NoKey
    /\ todo' = Keys
    /\ UNCHANGED <<table, status>>

(* iter->entry->next *)
HasNext ==
    /\ iter_slot # ITER_START
    /\ iter_entry # NoKey
    /\ Position(iter_entry, slots[iter_slot]) < Len(slots[iter_slot])

Returned(k) == iter_entry' = k /\ todo' = todo \ {k}

IterNextInChain ==
    /\ Up /\ Iterating
    /\ HasNext
    /\ Returned(slots[iter_slot][Position(iter_entry, slots[iter_slot]) + 1].key)
    /\ UNCHANGED <<table, status, iter_slot>>

(* The slots that come after the iterator's and are not empty *)
Ahead == {s \in DOMAIN slots : s > iter_slot /\ slots[s] # <<>>}

IterNextSlot ==
    /\ Up /\ Iterating
    /\ ~HasNext
    /\ Ahead # {}
    /\ iter_slot' = CHOOSE s \in Ahead : \A t \in Ahead : s <= t
    /\ Returned(slots[iter_slot'][1].key)
    /\ UNCHANGED <<table, status>>

IterFinish ==
    /\ Up /\ Iterating
    /\ ~HasNext
    /\ Ahead = {}
    /\ iter_slot' = ITER_FINISH
    /\ UNCHANGED <<table, status, iter_entry, todo>>

(* Mutant: the iterator goes back to the beginning of the slot. *)
IterRemoveBack ==
    /\ Up /\ Iterating /\ iter_slot # ITER_START /\ iter_entry # NoKey
    /\ slots' = Without(iter_entry)
    /\ num_data' = num_data - 1
    /\ iter_slot' = iter_slot - 1
    /\ iter_entry' = NoKey
    /\ UNCHANGED <<num_slots, status, todo>>

(* With no entry to remove, the program ends. *)
IterRemove ==
    LET chain == slots[iter_slot]
        i == Position(iter_entry, chain)
    IN
    /\ Up /\ Iterating /\ iter_slot # ITER_START /\ iter_entry # NoKey
    /\ slots' = Without(iter_entry)
    /\ num_data' = num_data - 1
    /\ iter_slot' = IF i = 1 THEN iter_slot - 1 ELSE iter_slot
    /\ iter_entry' = IF i = 1 THEN NoKey ELSE chain[i - 1].key
    /\ UNCHANGED <<num_slots, status, todo>>

Next ==
    \/ \E n \in InitSize : Create(n)
    \/ Destroy \/ Crash \/ InsertNoSlots \/ Clear
    \/ \E k \in Key, v \in Value : Insert(k, v)
    \/ \E k \in Key : InsertFails(k) \/ RemoveKey(k)
    \/ IterReset \/ IterNextInChain \/ IterNextSlot \/ IterFinish \/ IterRemove

Spec == Init /\ [][Next]_vars

-----------------------------------------------------------------------------
(* Properties *)

(* Every variable has its type; num_data counts the entries, and there is  *)
(* always room to spare.                                                   *)
TypeOK ==
    /\ num_slots \in Nat
    /\ slots # <<>> => DOMAIN slots = 0 .. num_slots - 1
    /\ \A i \in DOMAIN slots : slots[i] \in Seq(Entry)
    /\ num_data = Cardinality(Keys)
    /\ num_slots > 0 => num_data < (num_slots * 4) \div 5
    /\ status \in {"none", "up", "crashed"}
    /\ iter_slot \in ITER_FINISH .. num_slots - 1
    /\ iter_entry \in Key \cup {NoKey}
    /\ todo \subseteq Key

(* Every entry is in the slot where a search looks for it, whatever the    *)
(* table went through while it grew in place, and it is there once.  (And  *)
(* every variable has its type.)                                           *)
InPlace ==
    /\ TypeOK
    /\ \A i \in DOMAIN slots :
         /\ \A e \in ToSet(slots[i]) : Hash[e.key] % num_slots = i
         /\ Cardinality(KeysOf(slots[i])) = Len(slots[i])

(* An iteration returns every entry, also those that are behind one it has *)
(* removed, and none twice.                                                *)
IterExact ==
    [][/\ IterNextInChain \/ IterNextSlot => iter_entry' \in todo
       /\ IterFinish => todo = {}]_vars

(* The table implements a dictionary: what was inserted is there, the      *)
(* first time it was, until it is removed.                                 *)
Store ==
    [k \in Keys |-> (CHOOSE e \in EntriesOf(slots) : e.key = k).value]
Dict == INSTANCE Dictionary WITH store <- Store, Overwrites <- FALSE
IsDictionary == Dict!Spec

(* nt_mem.h:18: the program continues when memory has run out.             *)
NoCrash == status # "crashed"

=============================================================================
