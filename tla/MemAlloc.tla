------------------------------- MODULE MemAlloc -------------------------------
(***************************************************************************)
(* The shared memory allocator of nt_mem.c.  The memory between lo_bound   *)
(* (address 0 here) and hi_bound is tiled by chunks.  A chunk at address c *)
(* has a size field of 8 bytes at each end and size[c] bytes for the user  *)
(* in between; the user's pointer is c + 8.  Free chunks are linked, by    *)
(* pointers kept in their own memory, into one doubly linked list per      *)
(* bucket of sizes.                                                        *)
(*                                                                         *)
(* Both size fields of a chunk are always written together (mem_set_chunk_ *)
(* size, mem_set_used_chunk_size), so one value stands for them.  The heap *)
(* is a record and every internal function maps a heap to a heap: the      *)
(* functions call each other.  What is in the memory of a chunk is one     *)
(* value `data'; linking a free chunk writes the list pointers over it.    *)
(***************************************************************************)
EXTENDS MemLayout, FiniteSets, FiniteSetsExt

CONSTANTS
    Request,        \* sizes that callers ask for
    Data,           \* contents that callers store
    Junk,           \* contents nobody may rely on
    NULL,
    AllowOom        \* allow_oom of nt_mem_create

ASSUME MemAssumption ==
    /\ Request \subseteq Nat \ {0}
    /\ NULL \notin Int
    /\ Junk \notin Data
    /\ AllowOom \in BOOLEAN

VARIABLES
    heap,       \* size, used, prev, next, bucket, used_size, free_size, data
    exited      \* the process has called exit()

vars == <<heap, exited>>

Address == {8 * k : k \in 0 .. Total \div 8}
HiBound == Total + 2 * SizeField
Bucket == 0 .. BucketCount - 1
LastBucket == BucketCount - 1

-----------------------------------------------------------------------------
(* Sizes, neighbours *)

(* mem_bucket_by_size *)
BucketBySize(n) ==
    IF n < MinAlloc THEN 0
    ELSE IF n < MaxBucketSize THEN (n - MinAlloc) \div 8
    ELSE BucketCount - 1

Chunks(h) == DOMAIN h.size
IsFree(h, c) == c \in Chunks(h) \ h.used

NextChunk(h, c) == c + h.size[c] + 2 * SizeField
NextFree(h, c) == NextChunk(h, c) < HiBound /\ IsFree(h, NextChunk(h, c))

(* The size field left of c is the right end of the previous chunk. *)
PrevChunk(h, c) == CHOOSE p \in Chunks(h) : NextChunk(h, p) = c
(* Mutant: a freed chunk is never merged to the left. *)
PrevFreeNever(h, c) == FALSE
PrevFree(h, c) == 0 < c /\ IsFree(h, PrevChunk(h, c))

(* mem_set_chunk_size: a free chunk c of n bytes, in place of the chunks   *)
(* of `gone'.                                                              *)
SetChunk(h, gone, c, n) ==
    LET now == (Chunks(h) \ gone) \cup {c}
    IN [h EXCEPT
          !.used = @ \ (gone \cup {c}),
          !.size = [x \in now |-> IF x = c THEN n ELSE @[x]],
          !.data = [x \in now |-> IF x \in Chunks(h) THEN @[x] ELSE Junk]]

(* mem_set_used_chunk_size *)
SetUsed(h, c) == [h EXCEPT !.used = @ \cup {c}]

Account(h, used, free) ==
    [h EXCEPT !.used_size = @ + used, !.free_size = @ + free]

-----------------------------------------------------------------------------
(* The lists of free chunks *)

(* mem_link_chunk: push in front of the list of its size. *)
Link(h, c) ==
    LET b == BucketBySize(h.size[c])
        first == h.bucket[b]
    IN [h EXCEPT
          !.prev = [x \in DOMAIN @ \cup {c} |->
                      IF x = c THEN NULL ELSE IF x = first THEN c ELSE @[x]],
          !.next = [x \in DOMAIN @ \cup {c} |-> IF x = c THEN first ELSE @[x]],
          !.bucket[b] = c,
          !.data[c] = Junk]

(* mem_unlink_chunk: the bucket is that of the size the chunk has now. *)
Unlink(h, c) ==
    LET b == BucketBySize(h.size[c])
        p == h.prev[c]
        n == h.next[c]
        Others == DOMAIN h.prev \ {c}
    IN [h EXCEPT
          !.prev = [x \in Others |-> IF x = n THEN p ELSE @[x]],
          !.next = [x \in Others |-> IF x = p THEN n ELSE @[x]],
          !.bucket[b] = IF p = NULL THEN n ELSE @]

(* The list of bucket b, link by link, and NULL from its end on. *)
List(h, b) ==
    LET walk[i \in 0 .. Cardinality(DOMAIN h.next)] ==
          IF i = 0 THEN h.bucket[b]
          ELSE IF walk[i - 1] = NULL THEN NULL ELSE h.next[walk[i - 1]]
    IN walk

(* First fit among the big chunks. *)
FirstFit(h, n) ==
    LET list == List(h, LastBucket)
        fits == {i \in DOMAIN list :
                   list[i] # NULL /\ h.size[list[i]] >= n}
    IN IF fits = {} THEN NULL ELSE list[Min(fits)]

(* The head of the first non-empty bucket of sizes from n on. *)
FindChunk(h, n) ==
    LET exact == {b \in BucketBySize(n) .. LastBucket - 1 : h.bucket[b] # NULL}
    IN IF exact # {} THEN h.bucket[Min(exact)] ELSE FirstFit(h, n)

-----------------------------------------------------------------------------
(* __mem_malloc, __mem_free, __mem_realloc, on proper sizes *)

(* Chunk c, free but in no list, is used for n bytes: as a whole if what   *)
(* is left is too small for a chunk of its own.                            *)
Carve(h, c, n) ==
    LET whole == h.size[c]
        rest == c + n + 2 * SizeField
        restSize == whole - n - 2 * SizeField
    IN IF whole < n + 2 * SizeField + MinAlloc
       THEN Account(SetUsed(h, c), whole, -whole)
       ELSE LET split == SetChunk(SetChunk(h, {}, rest, restSize), {}, c, n)
            IN Account(SetUsed(Link(split, rest), c), n, restSize - whole)

Malloc(h, n) == LET c == FindChunk(h, n) IN Carve(Unlink(h, c), c, n)

(* The freed chunk takes its free neighbours in, and with each of them the *)
(* two size fields in between.                                             *)
Free(h, c) ==
    LET left == PrevFree(h, c)
        right == NextFree(h, c)
        prev == PrevChunk(h, c)
        next == NextChunk(h, c)
        Of(side, x) == IF side THEN x ELSE 0
        overhead == Of(left, 2 * SizeField) + Of(right, 2 * SizeField)
        size == h.size[c] + overhead + Of(left, h.size[prev]) + Of(right, h.size[next])
        first == IF left THEN prev ELSE c
        gone == {c} \cup (IF right THEN {next} ELSE {})
        g == IF left THEN Unlink(h, prev) ELSE h
        unlinked == IF right THEN Unlink(g, next) ELSE g
    IN Link(SetChunk(Account(unlinked, -h.size[c], h.size[c] + overhead), gone, first, size),
            first)

(* __mem_realloc of chunk c to n bytes.  In place: the block is cut and    *)
(* the rest given back, together with the next chunk if that is free...    *)
Shrink(h, c, n) ==
    LET cut == h.size[c] - n
        rest == c + n + 2 * SizeField
        next == NextChunk(h, c)
        joined == NextFree(h, c)
        g == IF joined THEN SetChunk(Unlink(h, next), {next}, rest, h.size[next] + cut)
             ELSE SetChunk(h, {}, rest, cut - 2 * SizeField)
    IN Account(SetUsed(SetChunk(Link(g, rest), {}, c, n), c),
               -cut, IF joined THEN cut ELSE cut - 2 * SizeField)

(* ... or it grows into the next chunk, ...                                *)
GrownSize(h, c) == h.size[c] + 2 * SizeField + h.size[NextChunk(h, c)]

(* Mutant: their bytes are not accounted for. *)
GrowUncounted(h, c, n) ==
    LET next == NextChunk(h, c)
        joined == SetChunk(Unlink(h, next), {next}, c, GrownSize(h, c))
    IN Carve(Account(joined, -h.size[c], h.size[c]), c, n)

Grow(h, c, n) ==
    LET next == NextChunk(h, c)
        joined == SetChunk(Unlink(h, next), {next}, c, GrownSize(h, c))
    IN Carve(Account(joined, -h.size[c], h.size[c] + 2 * SizeField), c, n)

(* ... or moves to a new chunk, from which it is copied, ...               *)
Move(h, c, n) ==
    LET new == FindChunk(h, n)
        g == Malloc(h, n)
    IN Free([g EXCEPT !.data[new] = g.data[c]], c)

(* ... or, when there is no other chunk for it, is saved to private memory *)
(* and freed, so that it can be merged with its neighbours, first.         *)
(* Mutant: only the next chunk is looked at. *)
FreedSizeRight(h, c) ==
    h.size[c]
    + (IF NextFree(h, c) THEN h.size[NextChunk(h, c)] + 2 * SizeField ELSE 0)

FreedSize(h, c) ==
    h.size[c]
    + (IF NextFree(h, c) THEN h.size[NextChunk(h, c)] + 2 * SizeField ELSE 0)
    + (IF PrevFree(h, c) THEN h.size[PrevChunk(h, c)] + 2 * SizeField ELSE 0)

(* Mutant: copied from the chunk itself, after it was freed. *)
SqueezeUnsaved(h, c, n) ==
    LET freed == Free(h, c) IN Malloc(freed, n)

Squeeze(h, c, n) ==
    LET freed == Free(h, c)
    IN [Malloc(freed, n) EXCEPT !.data[FindChunk(freed, n)] = h.data[c]]

-----------------------------------------------------------------------------
(* One big free chunk: nt_mem_create and nt_mem_clear. *)
Fresh ==
    [size |-> [c \in {0} |-> Total],
     used |-> {},
     prev |-> [c \in {0} |-> NULL],
     next |-> [c \in {0} |-> NULL],
     bucket |-> [b \in Bucket |-> IF b = BucketBySize(Total) THEN 0 ELSE NULL],
     used_size |-> 0,
     free_size |-> Total,
     data |-> [c \in {0} |-> Junk]]

Init == heap = Fresh /\ exited = FALSE

(* A call that finds no memory returns NULL if the pool was created with   *)
(* allow_oom, and ends the process if not.                                 *)
OutOfMemory == ~exited /\ exited' = ~AllowOom /\ UNCHANGED heap

Returns == ~exited /\ UNCHANGED exited

(* The caller of nt_mem_free or nt_mem_realloc owns the block of chunk c. *)
Owned(c) == c \in heap.used

(* nt_mem_malloc; the caller stores d in what it got. *)
NtMemMalloc(n, d) ==
    LET c == FindChunk(heap, ProperSize(n))
    IN /\ c # NULL
       /\ heap' = [Malloc(heap, ProperSize(n)) EXCEPT !.data[c] = d]
       /\ Returns

MallocFails(n) == FindChunk(heap, ProperSize(n)) = NULL /\ OutOfMemory

(* nt_mem_free *)
NtMemFree(c) ==
    /\ Owned(c)
    /\ heap' = Free(heap, c)
    /\ Returns

(* nt_mem_realloc *)
Grows(h, c, n) ==
    n > h.size[c] /\ NextFree(h, c) /\ GrownSize(h, c) >= n

MustMove(h, c, n) == n > h.size[c] /\ ~Grows(h, c, n)

(* Not worth the trouble: the block shrinks by less than three quarters.   *)
ReallocKeep(c, n) ==
    /\ Owned(c)
    /\ n <= heap.size[c] /\ n > heap.size[c] \div 4
    /\ Returns /\ UNCHANGED heap

ReallocShrink(c, n) ==
    /\ Owned(c)
    /\ n <= heap.size[c] \div 4
    /\ heap' = Shrink(heap, c, n)
    /\ Returns

ReallocGrow(c, n) ==
    /\ Owned(c)
    /\ Grows(heap, c, n)
    /\ heap' = Grow(heap, c, n)
    /\ Returns

ReallocMove(c, n) ==
    /\ Owned(c)
    /\ MustMove(heap, c, n)
    /\ FindChunk(heap, n) # NULL
    /\ heap' = Move(heap, c, n)
    /\ Returns

NoChunkBut(h, c, n) == MustMove(h, c, n) /\ FindChunk(h, n) = NULL

ReallocSqueeze(c, n) ==
    /\ Owned(c)
    /\ NoChunkBut(heap, c, n)
    /\ n <= FreedSize(heap, c)
    /\ FindChunk(Free(heap, c), n) # NULL
    /\ heap' = Squeeze(heap, c, n)
    /\ Returns

(* THIS_SHOULD_NEVER_HAPPEN, nt_mem.c:437, would end the process here: not *)
(* an action, ReallocExact says that its condition never holds.            *)
SqueezeImpossible(h, c, n) ==
    /\ NoChunkBut(h, c, n)
    /\ n <= FreedSize(h, c)
    /\ FindChunk(Free(h, c), n) = NULL

ReallocFails(c, n) ==
    /\ Owned(c)
    /\ NoChunkBut(heap, c, n)
    /\ n > FreedSize(heap, c)
    /\ OutOfMemory

NtMemRealloc(c, n) ==
    \/ ReallocKeep(c, n)
    \/ ReallocShrink(c, n)
    \/ ReallocGrow(c, n)
    \/ ReallocMove(c, n)
    \/ ReallocSqueeze(c, n)
    \/ ReallocFails(c, n)

(* nt_mem_clear *)
NtMemClear == Returns /\ heap' = Fresh

Next ==
    \/ \E n \in Request, d \in Data : NtMemMalloc(n, d)
    \/ \E n \in Request : MallocFails(n)
    \/ \E c \in Address : NtMemFree(c)
    \/ \E c \in Address, n \in Request : NtMemRealloc(c, ProperSize(n))
    \/ NtMemClear

Spec == Init /\ [][Next]_vars

-----------------------------------------------------------------------------
(* Properties *)

FreeChunks == Chunks(heap) \ heap.used

(* Every chunk has a size that the allocator makes, every pointer leads to *)
(* a chunk.                                                                *)
TypeOK ==
    /\ \A c \in Chunks(heap) : c % 8 = 0 /\ heap.size[c] % 8 = 0
    /\ \A c \in Chunks(heap) : heap.size[c] \in MinAlloc .. Total
    /\ heap.used \subseteq Chunks(heap)
    /\ DOMAIN heap.prev = FreeChunks /\ DOMAIN heap.next = FreeChunks
    /\ \A c \in FreeChunks :
         {heap.prev[c], heap.next[c]} \subseteq FreeChunks \cup {NULL}
    /\ heap.bucket \in [Bucket -> FreeChunks \cup {NULL}]
    /\ heap.data \in [Chunks(heap) -> Data \cup {Junk}]
    /\ exited \in BOOLEAN

(* The chunks, with their size fields, tile the memory from lo_bound to    *)
(* hi_bound: nothing overlaps and nothing is lost, whatever is split and   *)
(* merged; and free neighbours are always merged, so no call fails because *)
(* free memory that lies together is kept apart.  (And every variable has  *)
(* its type.)                                                              *)
Tiling ==
    /\ TypeOK
    /\ 0 \in Chunks(heap)
    /\ \A c \in Chunks(heap) :
         NextChunk(heap, c) \in Chunks(heap) \cup {HiBound}
    /\ \A c, d \in Chunks(heap) : c < d => NextChunk(heap, c) <= d
    /\ \A c \in FreeChunks : ~NextFree(heap, c)

(* The lists of free chunks: the head of a bucket has no predecessor, next *)
(* and prev are inverse, every free chunk is reached from the bucket of    *)
(* its size and from no other.                                             *)
ListsOk ==
    /\ \A c, d \in FreeChunks :
         /\ heap.next[c] = d => heap.prev[d] = c
         /\ heap.next[c] = d => BucketBySize(heap.size[d]) = BucketBySize(heap.size[c])
    /\ \A c \in FreeChunks :
         IF heap.prev[c] = NULL
         THEN heap.bucket[BucketBySize(heap.size[c])] = c
         ELSE \E d \in FreeChunks : heap.prev[c] = d /\ heap.next[d] = c
    /\ \A b \in Bucket : heap.bucket[b] # NULL =>
         \E c \in FreeChunks :
           /\ heap.bucket[b] = c /\ heap.prev[c] = NULL
           /\ BucketBySize(heap.size[c]) = b

(* nt_mem_dump_stats reports how many free chunks each bucket's list has,  *)
(* and how many chunks there are: it derives that from three byte counts,  *)
(* which a dozen places keep, each chunk but the first costing two size    *)
(* fields.                                                                 *)
CountFree(h, b) == Cardinality({i \in DOMAIN List(h, b) : List(h, b)[i] # NULL})
CountChunks(h) == (Total - h.used_size - h.free_size) \div (2 * SizeField) + 1
DumpStats(h) ==
    LET free == [b \in Bucket |-> CountFree(h, b)]
    IN [free |-> free, used |-> CountChunks(h) - MapThenSumSet(LAMBDA b : free[b], Bucket)]

(* The lists, and what the allocator reports of itself: the byte counts    *)
(* are those of the chunks, and so are the numbers that nt_mem_dump_stats  *)
(* gets from the counts and from walking the lists.                        *)
ListsAndStats ==
    /\ ListsOk
    /\ heap.used_size = MapThenSumSet(LAMBDA c : heap.size[c], heap.used)
    /\ heap.free_size = MapThenSumSet(LAMBDA c : heap.size[c], FreeChunks)
    /\ DumpStats(heap).used = Cardinality(heap.used)
    /\ \A b \in Bucket : DumpStats(heap).free[b]
         = Cardinality({c \in FreeChunks : BucketBySize(heap.size[c]) = b})

(* malloc finds a chunk whenever there is one, and only one big enough.    *)
MallocExact ==
    \A n \in {ProperSize(r) : r \in Request} :
        IF \E c \in FreeChunks : heap.size[c] >= n
        THEN FindChunk(heap, n) \in {c \in FreeChunks : heap.size[c] >= n}
        ELSE FindChunk(heap, n) = NULL

(* realloc fails only where free followed by malloc would fail too, and    *)
(* the branch marked THIS_SHOULD_NEVER_HAPPEN is never reached.            *)
ReallocExact ==
    \A c \in heap.used, n \in {ProperSize(r) : r \in Request} :
        /\ NoChunkBut(heap, c, n) =>
             (n > FreedSize(heap, c) <=> FindChunk(Free(heap, c), n) = NULL)
        /\ ~SqueezeImpossible(heap, c, n)

(* A call fails only when it must. *)
AllocExact == MallocExact /\ ReallocExact

(* What the callers see is a pool of disjoint blocks that keep their data. *)
Pool == INSTANCE MemPool WITH
    PoolEnd <- HiBound,
    blocks <- [p \in {c + SizeField : c \in heap.used} |->
                 [size |-> heap.size[p - SizeField],
                  data |-> heap.data[p - SizeField]]]

BlocksKeepData == Pool!Spec

=============================================================================
