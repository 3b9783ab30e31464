------------------------------- MODULE MemLayout -------------------------------
(***************************************************************************)
(* How nt_mem_create lays out a segment of shared memory: the info record, *)
(* the bucket pointers, the two names, and one big chunk between lo_bound  *)
(* and hi_bound; and nt_mem_required_size, from which callers learn how    *)
(* large a segment must be.  Sizes are in bytes; nothing here is ever so   *)
(* large that 64 bits would not hold it.                                   *)
(***************************************************************************)
EXTENDS Integers

CONSTANTS
    Base,           \* where shmat attaches the segment
    SegmentSize,    \* the size that nt_mem_create is called with
    InfoSize,       \* sizeof(nt_mem_info_t)
    NamesSize,      \* of descr and param, with their terminators
    MaxBucketSize   \* MEM_MAX_BUCKET_SIZE

SizeField == 8      \* MEM_SIZE_FIELD
MinAlloc == 24      \* MEM_MIN_ALLOC
PtrSize == 8        \* NT_PTR_SIZE

BucketCount == (MaxBucketSize - MinAlloc) \div 8 + 1

(* mem_proper_alloc_size *)
ProperSize(n) == IF n >= MinAlloc THEN n + ((8 - (n % 8)) % 8) ELSE MinAlloc

(* ALIGN8, and ALIGNPTR where pointers have 8 bytes *)
Align8(p) == ((p + 7) \div 8) * 8

(* Where the names end *)
NamesEnd ==
    LET info == Align8(Base)
        buckets == Align8(info + InfoSize)
    IN  buckets + BucketCount * PtrSize + NamesSize

LoBoundAt == Align8(NamesEnd)
HiBoundAt == Align8(Base + SegmentSize - 8)

(* total_size: the user bytes of the one initial chunk *)
Total == HiBoundAt - LoBoundAt - 2 * SizeField

(* nt_mem_required_size, of n chunks and no bytes for the user *)
RequiredSize(n) ==
    7 + InfoSize + (PtrSize - 1) + PtrSize * BucketCount + NamesSize
    + 2 * ((SizeField - 1) + 8)
    + (n - 1) * SizeField * 2 + n * (MinAlloc - 1)

(* nt_mem_create itself asks only for MEM_MIN_SIZE bytes, fewer than the   *)
(* header takes; callers are to know what nt_mem_required_size says.       *)
ASSUME LayoutAssumption ==
    /\ {Base, InfoSize, NamesSize, SegmentSize} \subseteq Nat
    /\ MaxBucketSize \in Nat /\ MaxBucketSize % 8 = 0 /\ MaxBucketSize > MinAlloc
    /\ SegmentSize >= RequiredSize(1)

=============================================================================
