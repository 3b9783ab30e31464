------------------------------- MODULE DdlList -------------------------------
(***************************************************************************)
(* The doubly linked list of ddl.c: nodes linked both ways, and a head     *)
(* that keeps the entry, the tail, the node curr that insert_end links     *)
(* after, and the cursor pos that ddl_control moves.                       *)
(***************************************************************************)
EXTENDS Integers, Sequences, FiniteSets, SequencesExt

CONSTANTS
    Node,        \* addresses that malloc may return
    NULL,
    NumModulus   \* 2 ^ (bits of size_t)

DdlListAssumption == NULL \notin Node /\ NumModulus \in Nat \ {0, 1}

VARIABLES
    used,              \* addresses allocated to nodes and not freed
    next, prev,        \* of each node in use
    entr, tail, curr, pos, num,
    state              \* "none" before init and after destory, "up", "crashed"

links == <<used, next, prev>>
head == <<entr, tail, curr, pos, num>>
vars == <<links, head, state>>

Init ==
    /\ used = {} /\ next = <<>> /\ prev = <<>>
    /\ entr = NULL /\ tail = NULL /\ curr = NULL /\ pos = NULL
    /\ num = 0
    /\ state = "none"

-----------------------------------------------------------------------------

Up == state = "up"

(* The nodes that a walk along link from node meets, of which there are    *)
(* no more than there are in use                                           *)
Walk(link, node) ==
    LET met[i \in 0 .. Cardinality(used)] ==
          IF i = 0 THEN <<>>
          ELSE LET so_far == met[i - 1]
                   at == IF so_far = <<>> THEN node ELSE link[Last(so_far)]
               IN  IF at \in used THEN Append(so_far, at) ELSE so_far
    IN  met[Cardinality(used)]

(* ddl_positive_iterator and ddl_reverse_iterator visit *)
Forward == Walk(next, entr)
Backward == Walk(prev, tail)
Reach == ToSet(Forward)

(* ddl_init *)
DdlInit ==
    /\ state = "none"
    /\ state' = "up"
    /\ UNCHANGED <<links, head>>

(* malloc of a node, linked between nx and pv *)
Link(n, nx, pv) ==
    /\ used' = used \cup {n}
    /\ next' = [m \in used' |-> IF m = n THEN nx ELSE IF m = pv THEN n ELSE next[m]]
    /\ prev' = [m \in used' |-> IF m = n THEN pv ELSE IF m = nx THEN n ELSE prev[m]]

InsertInEmpty(n) ==
    /\ Up /\ entr = NULL /\ n \notin used
    /\ Link(n, NULL, NULL)
    /\ entr' = n /\ curr' = n /\ pos' = n /\ tail' = n
    /\ num' = 1
    /\ UNCHANGED state

(* ddl_insert_first leaves num and curr alone. *)
InsertFirst(n) ==
    /\ Up /\ entr # NULL /\ n \notin used
    /\ Link(n, entr, NULL)
    /\ entr' = n
    /\ UNCHANGED <<tail, curr, pos, num, state>>

(* Mutant: curr stays where it was. *)
InsertEndStay(n) ==
    /\ Up /\ entr # NULL /\ n \notin used
    /\ curr # NULL
    /\ Link(n, NULL, curr)
    /\ tail' = n
    /\ num' = (num + 1) % NumModulus
    /\ UNCHANGED <<entr, curr, pos, state>>

(* ddl_insert_end links after curr, not after tail, and there is no curr   *)
(* once the node that it was has been deleted.                             *)
InsertEnd(n) ==
    /\ Up /\ entr # NULL /\ n \notin used
    /\ curr # NULL
    /\ Link(n, NULL, curr)
    /\ curr' = n /\ tail' = n
    /\ num' = (num + 1) % NumModulus
    /\ UNCHANGED <<entr, pos, state>>

(* ddl_insert with another flg than 0 and 1: the node is in no list. *)
InsertNowhere(n) ==
    /\ Up /\ n \notin used
    /\ Link(n, NULL, NULL)
    /\ UNCHANGED <<head, state>>

InsertEndCrashes ==
    /\ Up /\ entr # NULL /\ curr = NULL
    /\ state' = "crashed"
    /\ UNCHANGED <<links, head>>

Keep(f, gone) == [m \in DOMAIN f \ {gone} |-> f[m]]

(* ddl_delete of the first node: the head forgets the others, and nothing  *)
(* frees them.                                                             *)
DeleteFirst ==
    /\ Up /\ entr # NULL
    /\ used' = used \ {entr}
    /\ next' = Keep(next, entr) /\ prev' = Keep(prev, entr)
    /\ entr' = NULL /\ tail' = NULL /\ curr' = NULL /\ pos' = NULL
    /\ num' = 0
    /\ UNCHANGED state

(* Mutant: the tail stays at the node that goes. *)
DeleteOtherTail(n) ==
    LET tp == prev[n] IN
    /\ Up /\ n \in Reach \ {entr}
    /\ used' = used \ {n}
    /\ next' = Keep([next EXCEPT ![tp] = next[n]], n)
    /\ prev' = IF next[n] = NULL THEN Keep(prev, n)
               ELSE Keep([prev EXCEPT ![next[n]] = tp], n)
    /\ curr' = IF n = curr THEN next[n] ELSE curr
    /\ pos' = IF n = pos THEN tp ELSE pos
    /\ num' = (num - 1) % NumModulus
    /\ UNCHANGED <<entr, tail, state>>

(* Of another one: tp, the node the walk came from, is the one before.     *)
DeleteOther(n) ==
    LET f == Forward
        tp == f[CHOOSE i \in 1 .. Len(f) - 1 : f[i + 1] = n]
    IN
    /\ Up /\ n \in Reach \ {entr}
    /\ used' = used \ {n}
    /\ next' = Keep([next EXCEPT ![tp] = next[n]], n)
    /\ prev' = IF next[n] = NULL THEN Keep(prev, n)
               ELSE Keep([prev EXCEPT ![next[n]] = tp], n)
    /\ tail' = IF next[n] = NULL THEN tp ELSE tail
    /\ curr' = IF n = curr THEN next[n] ELSE curr
    /\ pos' = IF n = pos THEN tp ELSE pos
    /\ num' = (num - 1) % NumModulus
    /\ UNCHANGED <<entr, state>>

(* ddl_control: dn of an empty list returns, up of it does not. *)
Control(link) ==
    /\ Up /\ pos # NULL
    /\ link[pos] # NULL
    /\ pos' = link[pos]
    /\ UNCHANGED <<links, entr, tail, curr, num, state>>

ControlCrashes ==
    /\ Up /\ pos = NULL
    /\ state' = "crashed"
    /\ UNCHANGED <<links, head>>

(* ddl_destory: the head goes too, and with it what it had forgotten. *)
Destory ==
    /\ Up
    /\ used' = used \ Reach
    /\ next' = [m \in used' |-> next[m]] /\ prev' = [m \in used' |-> prev[m]]
    /\ entr' = NULL /\ tail' = NULL /\ curr' = NULL /\ pos' = NULL
    /\ num' = 0
    /\ state' = "none"

Next ==
    \/ DdlInit
    \/ \E n \in Node : InsertInEmpty(n) \/ InsertFirst(n) \/ InsertEnd(n) \/ InsertNowhere(n)
    \/ \E n \in Node : DeleteOther(n)
    \/ InsertEndCrashes \/ DeleteFirst \/ ControlCrashes \/ Destory
    \/ Control(next) \/ Control(prev)

Spec == Init /\ [][Next]_vars

-----------------------------------------------------------------------------
(* Properties *)

(* The walk back from the tail visits what the walk from the entry does,   *)
(* in reverse; no node that was freed is on it; the cursor and the node    *)
(* that insert_end links after are on it too, and that node is the tail,   *)
(* or there is none.  (And every variable has its type.)                   *)
Linked ==
    /\ used \subseteq Node /\ DOMAIN next = used /\ DOMAIN prev = used
    /\ num \in 0 .. NumModulus - 1
    /\ Reach \subseteq used
    /\ Backward = Reverse(Forward)
    /\ Cardinality(Reach) = Len(Forward)
    /\ IF entr = NULL THEN {tail, curr, pos} = {NULL}
       ELSE pos \in Reach /\ tail \in Reach /\ curr \in {tail, NULL}

(* The list implements CursorList: what comes after is put there, nothing  *)
(* but a deletion takes anything out, and the cursor stays on a node.      *)
CursorAt ==
    LET f == Forward IN IF pos = NULL THEN 0 ELSE CHOOSE i \in DOMAIN f : f[i] = pos
Abstract == INSTANCE CursorList WITH items <- Forward, at <- CursorAt, Item <- Node
IsCursorList == Abstract!Spec

(* ddl.h:35, ddl_insert_end: a node can be put at the end whatever was     *)
(* deleted, and ddl_control finds the cursor on a node.                    *)
NoCrash == state # "crashed"

(* ddl.h:29: num is the number of nodes.                                   *)
CountExact == num = Len(Forward)

=============================================================================
