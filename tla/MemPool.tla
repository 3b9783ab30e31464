------------------------------- MODULE MemPool -------------------------------
(***************************************************************************)
(* What the shared memory allocator of nt_mem.c promises its callers: a    *)
(* set of blocks of memory that never overlap, each at least as large as   *)
(* asked for, whose contents nobody but their owner changes and which      *)
(* nt_mem_realloc carries along when it moves a block.  A call may find no *)
(* room, in which case nothing changes.                                    *)
(***************************************************************************)
EXTENDS Integers

CONSTANTS
    PoolEnd,    \* blocks lie in 0 .. PoolEnd - 1
    Request,    \* the sizes callers ask for
    Data        \* what callers store in a block

VARIABLE blocks     \* the allocated blocks: address |-> [size, data]

Disjoint(a, m, b, n) == a + m <= b \/ b + n <= a

(* There is nothing at n bytes from address a on, but possibly blocks in   *)
(* `except'.                                                               *)
Vacant(a, n, except) ==
    /\ 0 <= a /\ a + n <= PoolEnd
    /\ \A b \in DOMAIN blocks \ except : Disjoint(a, n, b, blocks[b].size)

Init == blocks = <<>>

(* nt_mem_malloc, and the caller stores d. *)
Allocate(a, n, d) ==
    /\ a \notin DOMAIN blocks
    /\ Vacant(a, n, {})
    /\ blocks' = [b \in DOMAIN blocks \cup {a} |->
                    IF b = a THEN [size |-> n, data |-> d] ELSE blocks[b]]

(* nt_mem_realloc: block a becomes block b, of another size, with the data *)
(* of a; all other blocks stay as they are.                                *)
Resize(a, b, n) ==
    /\ a \in DOMAIN blocks
    /\ Vacant(b, n, {a})
    /\ blocks' = [x \in (DOMAIN blocks \ {a}) \cup {b} |->
                    IF x = b THEN [size |-> n, data |-> blocks[a].data]
                             ELSE blocks[x]]

(* nt_mem_free *)
Release(a) ==
    /\ a \in DOMAIN blocks
    /\ blocks' = [b \in DOMAIN blocks \ {a} |-> blocks[b]]

(* nt_mem_clear *)
Reset == blocks' = <<>>

(* A step allocates, resizes or releases one block, or all of them. *)
Next ==
    \/ \E a \in DOMAIN blocks' \ DOMAIN blocks, n \in Request :
         /\ blocks'[a].size >= n
         /\ Allocate(a, blocks'[a].size, blocks'[a].data)
    \/ \E a \in DOMAIN blocks, b \in DOMAIN blocks', n \in Request :
         /\ blocks'[b].size >= n
         /\ Resize(a, b, blocks'[b].size)
    \/ \E a \in DOMAIN blocks : Release(a)
    \/ Reset

Spec == Init /\ [][Next]_blocks

=============================================================================
