---------------------------- MODULE MemAlloc_proofs ----------------------------
(***************************************************************************)
(* Proofs about MemAlloc, for pools of every size, every bucket size and   *)
(* every sequence of calls: the chunks tile the memory, free neighbours    *)
(* are merged, the lists hold what is free, a call fails only when it      *)
(* must, the byte counts are those of the chunks, and callers see a pool   *)
(* of blocks that keep their data.  What nt_mem_required_size promises     *)
(* and the sums that the byte counts are come first.                       *)
(*                                                                         *)
(* The sizes s of the chunks, the set u of the used ones and the lists are *)
(* looked at one after the other.  Everything that is done to sizes is a   *)
(* split of a chunk or a merge of two; everything that is done to the byte *)
(* counts moves bytes between them, or to the size fields of one or two    *)
(* chunks.                                                                 *)
(***************************************************************************)
EXTENDS MemAlloc, FiniteSetTheorems, WellFoundedInduction, TLAPS

-----------------------------------------------------------------------------
(* What nt_mem_required_size promises of a segment, for every base, size   *)
(* of the header and number of bytes asked for                             *)

(* ALIGN8 rounds up, by at most 7 bytes. *)
LEMMA AlignUp ==
    ASSUME NEW p \in Nat
    PROVE  /\ Align8(p) \in Nat /\ Align8(p) % 8 = 0
           /\ p <= Align8(p) /\ Align8(p) <= p + 7
  BY DEF Align8

(* mem_proper_alloc_size rounds up to a multiple of 8 that can hold the    *)
(* list pointers, and adds fewer than MEM_MIN_ALLOC bytes to what is asked *)
(* for, if anything is.                                                    *)
LEMMA ProperSizeBounds ==
    ASSUME NEW n \in Nat
    PROVE  /\ ProperSize(n) \in Nat /\ ProperSize(n) % 8 = 0
           /\ ProperSize(n) >= n /\ ProperSize(n) >= MinAlloc
           /\ n > 0 => ProperSize(n) <= n + MinAlloc - 1
  BY DEF ProperSize, MinAlloc

LEMMA BucketsType == BucketCount \in Nat /\ RequiredSize(1) \in Nat
  <1>1. BucketCount \in Nat
    BY LayoutAssumption DEF BucketCount, MinAlloc
  <1> QED
    BY <1>1, LayoutAssumption DEF RequiredSize, PtrSize, SizeField, MinAlloc

(* The header ends at most 14 bytes of alignment after its own size. *)
LEMMA HeaderEnds ==
    /\ NamesEnd \in Nat
    /\ NamesEnd >= Base
    /\ NamesEnd <= Base + InfoSize + PtrSize * BucketCount + NamesSize + 14
  <1> DEFINE info == Align8(Base)
  <1> DEFINE buckets == Align8(info + InfoSize)
  <1>1. info \in Nat /\ info >= Base /\ info <= Base + 7
    BY AlignUp, LayoutAssumption
  <1>2. info + InfoSize \in Nat
    BY <1>1, LayoutAssumption
  <1>3. buckets \in Nat /\ buckets >= info + InfoSize /\ buckets <= info + InfoSize + 7
    BY <1>2, AlignUp
  <1>4. NamesEnd = buckets + BucketCount * PtrSize + NamesSize
    BY DEF NamesEnd
  <1> HIDE DEF info, buckets
  <1> QED
    BY <1>1, <1>3, <1>4, BucketsType, LayoutAssumption DEF PtrSize

(* The total is at least what a segment has beyond its header, less two    *)
(* size fields and the alignment of the two bounds.                        *)
LEMMA TotalAtLeast ==
    /\ LoBoundAt \in Nat /\ LoBoundAt % 8 = 0
    /\ HiBoundAt \in Nat /\ HiBoundAt % 8 = 0
    /\ LoBoundAt >= NamesEnd
    /\ HiBoundAt <= Base + SegmentSize
    /\ Total \in Int /\ Total % 8 = 0
    /\ Total >= SegmentSize - InfoSize - PtrSize * BucketCount - NamesSize - 45
  <1>1. LoBoundAt \in Nat /\ LoBoundAt % 8 = 0
        /\ LoBoundAt >= NamesEnd /\ LoBoundAt <= NamesEnd + 7
    BY HeaderEnds, AlignUp DEF LoBoundAt
  <1>2. Base + SegmentSize - 8 \in Nat
    BY BucketsType, LayoutAssumption
       DEF RequiredSize, PtrSize, SizeField, MinAlloc
  <1>3. HiBoundAt \in Nat /\ HiBoundAt % 8 = 0
        /\ HiBoundAt >= Base + SegmentSize - 8 /\ HiBoundAt <= Base + SegmentSize - 1
    BY <1>2, AlignUp, LayoutAssumption DEF HiBoundAt
  <1>4. Total = HiBoundAt - LoBoundAt - 16
    BY DEF Total, SizeField
  <1>5. Total \in Int /\ Total % 8 = 0
    BY <1>1, <1>3, <1>4
  <1>6. Total >= SegmentSize - InfoSize - PtrSize * BucketCount - NamesSize - 45
    BY <1>1, <1>3, <1>4, HeaderEnds, BucketsType, LayoutAssumption DEF PtrSize
  <1> QED
    BY <1>1, <1>3, <1>5, <1>6, LayoutAssumption

(* What MemAlloc starts from: the initial chunk, with its two size fields, *)
(* lies between the header and the end of the segment, is aligned, and can *)
(* hold the list pointers.                                                 *)
THEOREM InitialChunk ==
    /\ NamesEnd <= LoBoundAt
    /\ LoBoundAt + Total + 2 * SizeField <= Base + SegmentSize
    /\ LoBoundAt % 8 = 0 /\ Total % 8 = 0
    /\ Total >= MinAlloc
  <1>1. Total >= 22
    BY TotalAtLeast, BucketsType, LayoutAssumption
       DEF RequiredSize, PtrSize, SizeField, MinAlloc
  <1>2. Total >= MinAlloc
    BY <1>1, TotalAtLeast DEF MinAlloc
  <1>3. LoBoundAt + Total + 2 * SizeField = HiBoundAt
    BY TotalAtLeast DEF Total, SizeField
  <1> QED
    BY <1>2, <1>3, TotalAtLeast

(* A segment of nt_mem_required_size for n chunks and s more bytes has     *)
(* room for every n chunks that hold s bytes in all: such chunks take, of  *)
(* total_size, at most s bytes, 23 for rounding up each, and two size      *)
(* fields between neighbours, and always a multiple of 8.                  *)
THEOREM RequiredSizeSuffices ==
    ASSUME NEW n \in Nat \ {0}, NEW s \in Nat, NEW need \in Nat,
           need % 8 = 0,
           need <= s + n * (MinAlloc - 1) + (n - 1) * 2 * SizeField,
           SegmentSize >= RequiredSize(n) + s
    PROVE  need <= Total
  <1>1. Total >= need - 1
    BY TotalAtLeast, BucketsType, LayoutAssumption
       DEF RequiredSize, PtrSize, SizeField, MinAlloc
  <1> QED
    BY <1>1, TotalAtLeast

(* With one chunk: the pool can serve one request of s bytes. *)
THEOREM OneRequestFits ==
    ASSUME NEW s \in Nat \ {0}, SegmentSize >= RequiredSize(1) + s
    PROVE  ProperSize(s) <= Total
  BY ProperSizeBounds, RequiredSizeSuffices DEF MinAlloc, SizeField

-----------------------------------------------------------------------------
(* Sums over finite sets, such as the byte counts are.  Facts about every  *)
(* finite set are shown from a smallest one of which they are not true.    *)

LEMMA LeastOf ==
  ASSUME NEW T, T \subseteq Nat, T # {}
  PROVE  \E x \in T : \A y \in T : x <= y
  <1>1. PICK x \in T : \A y \in T : ~(<<y, x>> \in OpToRel(<, Nat))
    BY NatLessThanWellFounded, WFMin
  <1>2. ASSUME NEW y \in T PROVE x <= y
    <2>1. ~(y < x)
      BY <1>1 DEF OpToRel
    <2> QED
      BY <2>1
  <1> QED
    BY <1>2

(* Among sets of finite sets there is one with no smaller one in it. *)
LEMMA SmallestSet ==
  ASSUME NEW B, B # {}, \A T \in B : IsFiniteSet(T)
  PROVE  \E T \in B : \A U \in B : Cardinality(T) <= Cardinality(U)
  <1> DEFINE Counts == {Cardinality(T) : T \in B}
  <1>1. Counts \subseteq Nat /\ Counts # {}
    BY FS_CardinalityType
  <1>2. PICK n \in Counts : \A m \in Counts : n <= m
    BY <1>1, LeastOf
  <1> QED
    BY <1>2

SumOf(f, S) == MapThenSumSet(LAMBDA x : f[x], S)

First(S) == CHOOSE x \in S : TRUE

SumStep(f, sums, S) == IF S = {} THEN 0 ELSE f[First(S)] + sums[S \ {First(S)}]

(* The recursion of the library's fold is defined on finite sets. *)
LEMMA SumsExist ==
  ASSUME NEW f, NEW S, IsFiniteSet(S)
  PROVE  \E sums : sums = [T \in SUBSET S |-> SumStep(f, sums, T)]
  <1> DEFINE Upto(k) == {T \in SUBSET S : Cardinality(T) <= k}
             Good(k) == \E sums : sums = [T \in Upto(k) |-> SumStep(f, sums, T)]
  <1>0. \A T \in SUBSET S : IsFiniteSet(T) /\ Cardinality(T) \in Nat
    BY FS_Subset, FS_CardinalityType
  <1>1. Good(0)
    <2>1. Upto(0) = {{}}
      BY <1>0, FS_EmptySet
    <2>2. PICK sums : sums = [T \in Upto(0) |-> 0]
      OBVIOUS
    <2>3. \A T \in Upto(0) : SumStep(f, sums, T) = 0
      BY <2>1 DEF SumStep
    <2> QED
      BY <2>2, <2>3
  <1>2. ASSUME NEW k \in Nat, Good(k) PROVE Good(k + 1)
    <2>1. PICK old : old = [T \in Upto(k) |-> SumStep(f, old, T)]
      BY <1>2
    <2>2. PICK new : new = [T \in Upto(k + 1) |-> SumStep(f, old, T)]
      OBVIOUS
    <2>3. \A T \in Upto(k) : T \in Upto(k + 1)
      BY <1>0
    <2>4. \A T \in Upto(k) : new[T] = old[T]
      BY <2>1, <2>2, <2>3
    <2>5. ASSUME NEW T \in Upto(k + 1) PROVE SumStep(f, new, T) = SumStep(f, old, T)
      <3>1. CASE T = {}
        BY <3>1 DEF SumStep
      <3>2. CASE T # {}
        <4>1. PICK R : R = T \ {First(T)}
          OBVIOUS
        <4>2. First(T) \in T
          BY <3>2 DEF First
        <4>3. Cardinality(R) = Cardinality(T) - 1 /\ R \in SUBSET S
          BY <1>0, <4>1, <4>2, FS_RemoveElement
        <4>4. R \in Upto(k)
          BY <1>0, <4>3
        <4>5. new[R] = old[R]
          BY <2>4, <4>4
        <4> QED
          BY <4>1, <4>5 DEF SumStep
      <3> QED
        BY <3>1, <3>2
    <2>6. new = [T \in Upto(k + 1) |-> SumStep(f, new, T)]
      BY <2>2, <2>5
    <2> QED
      BY <2>6
  <1>3. ASSUME NEW k \in Nat PROVE Good(k)
    <2> HIDE DEF Good
    <2> DEFINE Bad == {j \in Nat : ~Good(j)}
    <2>1. SUFFICES ASSUME Bad # {} PROVE FALSE
      BY <2>1
    <2>2. PICK j \in Bad : \A i \in Bad : j <= i
      BY <2>1, LeastOf
    <2>3. j # 0
      BY <1>1, <2>2
    <2>4. j - 1 \in Nat /\ j - 1 \notin Bad
      BY <2>2, <2>3
    <2>5. Good(j - 1)
      BY <2>4
    <2>6. Good((j - 1) + 1)
      BY <1>2, <2>4, <2>5
    <2>7. (j - 1) + 1 = j
      BY <2>2
    <2> QED
      BY <2>2, <2>6, <2>7
  <1>4. PICK n : n = Cardinality(S)
    OBVIOUS
  <1>5. n \in Nat
    BY <1>4, FS_CardinalityType
  <1>6. Upto(n) = SUBSET S
    BY <1>4, FS_Subset
  <1>7. Good(n)
    BY <1>3, <1>5
  <1> QED
    BY <1>6, <1>7

LEMMA SumsAre ==
  ASSUME NEW f, NEW S, IsFiniteSet(S)
  PROVE  \E sums : /\ sums = [T \in SUBSET S |-> SumStep(f, sums, T)]
                   /\ SumOf(f, S) = sums[S]
  <1> DEFINE W == CHOOSE sums : sums = [T \in SUBSET S |-> SumStep(f, sums, T)]
  <1>1. W = [T \in SUBSET S |-> SumStep(f, W, T)]
    BY SumsExist
  <1>2. SumOf(f, S) = W[S]
    BY DEF SumOf, MapThenSumSet, MapThenFoldSet, SumStep, First
  <1> QED
    BY <1>1, <1>2

(* Every sum is of one element and of the others. *)
LEMMA SumOfPart ==
  ASSUME NEW f, NEW S, IsFiniteSet(S), NEW T \in SUBSET S,
         NEW sums, sums = [U \in SUBSET S |-> SumStep(f, sums, U)]
  PROVE  SumOf(f, T) = sums[T]
  <1>1. \A U \in SUBSET S : IsFiniteSet(U) /\ Cardinality(U) \in Nat
    BY FS_Subset, FS_CardinalityType
  <1>2. PICK other : other = [U \in SUBSET T |-> SumStep(f, other, U)] /\ SumOf(f, T) = other[T]
    BY <1>1, SumsAre
  <1> DEFINE Bad == {U \in SUBSET T : other[U] # sums[U]}
  <1>3. SUFFICES Bad = {}
    BY <1>2
  <1>4. SUFFICES ASSUME Bad # {} PROVE FALSE
    OBVIOUS
  <1>5. PICK U \in Bad : \A V \in Bad : Cardinality(U) <= Cardinality(V)
    BY <1>1, <1>4, SmallestSet
  <1>6. other[U] = SumStep(f, other, U) /\ sums[U] = SumStep(f, sums, U)
    BY <1>2, <1>5
  <1>7. U # {}
    BY <1>5, <1>6 DEF SumStep
  <1>8. PICK x : x = First(U)
    OBVIOUS
  <1>9. x \in U
    BY <1>7, <1>8 DEF First
  <1>10. Cardinality(U \ {x}) = Cardinality(U) - 1 /\ Cardinality(U) \in Nat
    BY <1>1, <1>9, FS_RemoveElement
  <1>11. U \ {x} \in SUBSET T
    BY <1>5
  <1>12. U \ {x} \notin Bad
    <2> HIDE DEF Bad
    <2> QED
      BY <1>5, <1>10
  <1>13. other[U \ {x}] = sums[U \ {x}]
    BY <1>11, <1>12
  <1> QED
    BY <1>5, <1>6, <1>8, <1>13 DEF SumStep

LEMMA SumOfNone == ASSUME NEW f PROVE SumOf(f, {}) = 0
  <1>1. PICK sums : sums = [T \in SUBSET {} |-> SumStep(f, sums, T)] /\ SumOf(f, {}) = sums[{}]
    BY FS_EmptySet, SumsAre
  <1>2. sums[{}] = SumStep(f, sums, {})
    BY <1>1
  <1> QED
    BY <1>1, <1>2 DEF SumStep

LEMMA SumOfFirst ==
  ASSUME NEW f, NEW S, IsFiniteSet(S), S # {}, NEW x, x = First(S)
  PROVE  x \in S /\ SumOf(f, S) = f[x] + SumOf(f, S \ {x})
  <1>1. PICK sums : sums = [T \in SUBSET S |-> SumStep(f, sums, T)] /\ SumOf(f, S) = sums[S]
    BY SumsAre
  <1>2. sums[S] = SumStep(f, sums, S)
    BY <1>1
  <1>3. SumOf(f, S \ {x}) = sums[S \ {x}]
    <2>1. sums = [T \in SUBSET S |-> SumStep(f, sums, T)] /\ S \ {x} \in SUBSET S
      BY <1>1
    <2>2. PICK R : R = S \ {x}
      OBVIOUS
    <2>3. SumOf(f, R) = sums[R]
      BY <2>1, <2>2, SumOfPart
    <2> QED
      BY <2>2, <2>3
  <1> QED
    BY <1>1, <1>2, <1>3 DEF SumStep, First

LEMMA SumType ==
  ASSUME NEW f, NEW S, IsFiniteSet(S), \A x \in S : f[x] \in Nat
  PROVE  SumOf(f, S) \in Nat
  <1>1. \A T \in SUBSET S : IsFiniteSet(T) /\ Cardinality(T) \in Nat
    BY FS_Subset, FS_CardinalityType
  <1> DEFINE Bad == {T \in SUBSET S : SumOf(f, T) \notin Nat}
  <1>2. SUFFICES ASSUME Bad # {} PROVE FALSE
    OBVIOUS
  <1>3. PICK T \in Bad : \A U \in Bad : Cardinality(T) <= Cardinality(U)
    BY <1>1, <1>2, SmallestSet
  <1>4. T # {} /\ IsFiniteSet(T)
    <2>1. SumOf(f, {}) \in Nat
      BY SumOfNone
    <2> QED
      BY <1>1, <1>3, <2>1
  <1>5. PICK x : x = First(T)
    OBVIOUS
  <1>6. x \in T /\ SumOf(f, T) = f[x] + SumOf(f, T \ {x})
    BY <1>4, <1>5, SumOfFirst
  <1>7. Cardinality(T \ {x}) = Cardinality(T) - 1 /\ Cardinality(T) \in Nat
    BY <1>1, <1>3, <1>6, FS_RemoveElement
  <1>8. T \ {x} \in SUBSET S /\ T \ {x} \notin Bad
    BY <1>3, <1>7
  <1>9. SumOf(f, T \ {x}) \in Nat /\ f[x] \in Nat
    BY <1>3, <1>6, <1>8
  <1> QED
    BY <1>3, <1>6, <1>9

LEMMA SumWithout ==
  ASSUME NEW f, NEW S, IsFiniteSet(S), \A x \in S : f[x] \in Nat, NEW e \in S
  PROVE  SumOf(f, S) = f[e] + SumOf(f, S \ {e})
  <1>1. \A T \in SUBSET S : IsFiniteSet(T) /\ Cardinality(T) \in Nat
    BY FS_Subset, FS_CardinalityType
  <1>2. \A T \in SUBSET S : SumOf(f, T) \in Nat
    BY <1>1, SumType
  <1> DEFINE Splits(T, z) == SumOf(f, T) = f[z] + SumOf(f, T \ {z})
             Bad == {T \in SUBSET S : \E z \in T : ~Splits(T, z)}
  <1>3. SUFFICES ASSUME Bad # {} PROVE FALSE
    OBVIOUS
  <1>4. PICK T \in Bad : \A U \in Bad : Cardinality(T) <= Cardinality(U)
    BY <1>1, <1>3, SmallestSet
  <1>5. PICK z \in T : ~Splits(T, z)
    BY <1>4
  <1> HIDE DEF Splits
  <1>6. T \in SUBSET S /\ IsFiniteSet(T) /\ Cardinality(T) \in Nat
    BY <1>1, <1>4
  <1>7. PICK x : x = First(T)
    OBVIOUS
  <1>8. x \in T /\ Splits(T, x)
    BY <1>5, <1>6, <1>7, SumOfFirst DEF Splits
  <1>9. x # z
    BY <1>5, <1>8
  <1>10. ASSUME NEW y \in T, NEW w \in T \ {y} PROVE Splits(T \ {y}, w)
    <2>1. Cardinality(T \ {y}) = Cardinality(T) - 1
      BY <1>6, FS_RemoveElement
    <2>2. T \ {y} \notin Bad
      BY <1>4, <1>6, <2>1
    <2> QED
      BY <1>6, <2>2
  <1>11. Splits(T \ {x}, z) /\ Splits(T \ {z}, x)
    BY <1>5, <1>8, <1>9, <1>10
  <1>12. PICK R : R = (T \ {x}) \ {z}
    OBVIOUS
  <1>13. (T \ {z}) \ {x} = R
    BY <1>12
  <1>14. SumOf(f, R) \in Nat /\ f[x] \in Nat /\ f[z] \in Nat
    BY <1>2, <1>5, <1>6, <1>8, <1>12
  <1>15. /\ SumOf(f, T) = f[x] + SumOf(f, T \ {x})
         /\ SumOf(f, T \ {x}) = f[z] + SumOf(f, R)
         /\ SumOf(f, T \ {z}) = f[x] + SumOf(f, R)
    BY <1>8, <1>11, <1>12, <1>13 DEF Splits
  <1>16. Splits(T, z)
    BY <1>14, <1>15 DEF Splits
  <1> QED
    BY <1>5, <1>16

LEMMA SumWith ==
  ASSUME NEW f, NEW S, IsFiniteSet(S), NEW e, e \notin S, \A x \in S \cup {e} : f[x] \in Nat
  PROVE  SumOf(f, S \cup {e}) = f[e] + SumOf(f, S)
  <1>1. IsFiniteSet(S \cup {e}) /\ (S \cup {e}) \ {e} = S
    BY FS_AddElement
  <1>2. SumOf(f, S \cup {e}) = f[e] + SumOf(f, (S \cup {e}) \ {e})
    BY <1>1, SumWithout
  <1> QED
    BY <1>1, <1>2

LEMMA SumSame ==
  ASSUME NEW f, NEW g, NEW S, IsFiniteSet(S), \A x \in S : f[x] = g[x]
  PROVE  SumOf(f, S) = SumOf(g, S)
  <1>1. \A T \in SUBSET S : IsFiniteSet(T) /\ Cardinality(T) \in Nat
    BY FS_Subset, FS_CardinalityType
  <1> DEFINE Bad == {T \in SUBSET S : SumOf(f, T) # SumOf(g, T)}
  <1>2. SUFFICES ASSUME Bad # {} PROVE FALSE
    OBVIOUS
  <1>3. PICK T \in Bad : \A U \in Bad : Cardinality(T) <= Cardinality(U)
    BY <1>1, <1>2, SmallestSet
  <1>4. T # {} /\ IsFiniteSet(T)
    BY <1>1, <1>3, SumOfNone
  <1>5. PICK x : x = First(T)
    OBVIOUS
  <1>6. /\ x \in T /\ SumOf(f, T) = f[x] + SumOf(f, T \ {x})
        /\ SumOf(g, T) = g[x] + SumOf(g, T \ {x})
    BY <1>4, <1>5, SumOfFirst
  <1>7. Cardinality(T \ {x}) = Cardinality(T) - 1 /\ Cardinality(T) \in Nat
    BY <1>1, <1>3, <1>6, FS_RemoveElement
  <1>8. T \ {x} \in SUBSET S /\ T \ {x} \notin Bad
    BY <1>3, <1>7
  <1> QED
    BY <1>3, <1>6, <1>8

LEMMA SumParts ==
  ASSUME NEW f, NEW S, IsFiniteSet(S), \A x \in S : f[x] \in Nat, NEW T, T \subseteq S
  PROVE  SumOf(f, S) = SumOf(f, T) + SumOf(f, S \ T)
  <1>1. \A U \in SUBSET S : IsFiniteSet(U) /\ Cardinality(U) \in Nat
    BY FS_Subset, FS_CardinalityType
  <1>2. \A U \in SUBSET S : SumOf(f, U) \in Nat
    BY <1>1, SumType
  <1> DEFINE Splits(U) == SumOf(f, S) = SumOf(f, U) + SumOf(f, S \ U)
             Bad == {U \in SUBSET S : ~Splits(U)}
  <1>3. SUFFICES ASSUME Bad # {} PROVE FALSE
    OBVIOUS
  <1>4. PICK U \in Bad : \A V \in Bad : Cardinality(U) <= Cardinality(V)
    BY <1>1, <1>3, SmallestSet
  <1>5. U \in SUBSET S /\ ~Splits(U)
    BY <1>4
  <1>6. U # {}
    <2>1. S \ {} = S /\ SumOf(f, {}) = 0 /\ SumOf(f, S) \in Nat
      BY <1>2, SumOfNone
    <2>2. Splits({})
      BY <2>1
    <2> QED
      BY <1>5, <2>2
  <1>7. PICK e : e \in U
    BY <1>6
  <1>8. PICK V : V = U \ {e}
    OBVIOUS
  <1>9. PICK W : W = S \ U
    OBVIOUS
  <1>10. V \in SUBSET S /\ W \in SUBSET S /\ U = V \cup {e} /\ S \ V = W \cup {e}
         /\ e \notin W /\ e \notin V /\ e \in S
    BY <1>5, <1>7, <1>8, <1>9
  <1>11. Cardinality(V) = Cardinality(U) - 1 /\ Cardinality(U) \in Nat
    BY <1>1, <1>5, <1>7, <1>8, FS_RemoveElement
  <1> HIDE DEF Splits
  <1>12. Splits(V)
    BY <1>4, <1>10, <1>11
  <1>13. SumOf(f, V \cup {e}) = f[e] + SumOf(f, V) /\ SumOf(f, W \cup {e}) = f[e] + SumOf(f, W)
    BY <1>1, <1>10, SumWith
  <1>14. SumOf(f, V) \in Nat /\ SumOf(f, W) \in Nat /\ f[e] \in Nat
    BY <1>2, <1>10
  <1>15. /\ SumOf(f, S) = SumOf(f, V) + SumOf(f, W \cup {e})
         /\ SumOf(f, U) = f[e] + SumOf(f, V)
         /\ SumOf(f, W \cup {e}) = f[e] + SumOf(f, W)
    <2>1. SumOf(f, S) = SumOf(f, V) + SumOf(f, S \ V)
      BY <1>12 DEF Splits
    <2> QED
      BY <1>10, <1>13, <2>1
  <1>16. SumOf(f, S) = SumOf(f, U) + SumOf(f, W)
    BY <1>14, <1>15
  <1>17. Splits(U)
    BY <1>9, <1>16 DEF Splits
  <1> QED
    BY <1>5, <1>17

-----------------------------------------------------------------------------

(* Where the chunk after c begins *)
End(s, c) == c + s[c] + 2 * SizeField

Sizes(s) ==
    /\ s = [c \in DOMAIN s |-> s[c]]
    /\ 0 \in DOMAIN s
    /\ \A c \in DOMAIN s :
         /\ c \in Nat /\ c % 8 = 0
         /\ s[c] \in Nat /\ s[c] % 8 = 0 /\ s[c] >= MinAlloc

Tiled(s) ==
    /\ \A c \in DOMAIN s : End(s, c) \in DOMAIN s \cup {HiBound} /\ End(s, c) <= HiBound
    /\ \A c, d \in DOMAIN s : c < d => End(s, c) <= d

(* No two free chunks lie side by side. *)
Merged(s, u) == \A c \in DOMAIN s \ u : End(s, c) \notin DOMAIN s \ u

-----------------------------------------------------------------------------
(* Sizes *)

LEMMA EndIs ==
  ASSUME NEW h, NEW c
  PROVE  NextChunk(h, c) = End(h.size, c)
  BY DEF NextChunk, End

LEMMA EndOfTwo ==
  ASSUME NEW s, Sizes(s), Tiled(s), NEW c \in DOMAIN s, NEW d \in DOMAIN s, End(s, c) = End(s, d)
  PROVE  c = d
  <1>1. /\ c \in Nat /\ d \in Nat /\ s[c] \in Nat /\ s[d] \in Nat
        /\ s[c] >= 24 /\ s[d] >= 24
    BY DEF Sizes, MinAlloc
  <1>2. (c < d => End(s, c) <= d) /\ (d < c => End(s, d) <= c)
    BY DEF Tiled
  <1> QED
    BY <1>1, <1>2 DEF End, SizeField

(* Chunk c takes in the one after it. *)
Join(s, c) ==
    [x \in DOMAIN s \ {End(s, c)} |->
       IF x = c THEN s[c] + 2 * SizeField + s[End(s, c)] ELSE s[x]]

Joined(s, t, c, n) ==
    /\ DOMAIN t = DOMAIN s \ {n} /\ c # n
    /\ t[c] = s[c] + 2 * SizeField + s[n]
    /\ End(t, c) = End(s, n)
    /\ \A x \in DOMAIN s \ {c, n} : t[x] = s[x] /\ End(t, x) = End(s, x)

LEMMA JoinKeeps ==
  ASSUME NEW s, Sizes(s), Tiled(s), NEW c \in DOMAIN s, End(s, c) \in DOMAIN s
  PROVE  /\ Sizes(Join(s, c)) /\ Tiled(Join(s, c))
         /\ Joined(s, Join(s, c), c, End(s, c))
  <1> DEFINE t == Join(s, c)
             n == End(s, c)
  <1>1. /\ c \in Nat /\ s[c] \in Nat /\ s[c] % 8 = 0 /\ s[c] >= 24
        /\ n \in Nat /\ s[n] \in Nat /\ s[n] % 8 = 0 /\ s[n] >= 24
    BY DEF Sizes, MinAlloc
  <1>2. n = c + s[c] + 16 /\ c # n
    BY <1>1 DEF End, SizeField
  <1>3. /\ DOMAIN t = DOMAIN s \ {n} /\ c \in DOMAIN t
        /\ t[c] = s[c] + 16 + s[n]
        /\ \A x \in DOMAIN s \ {c, n} : t[x] = s[x]
    BY <1>2 DEF Join, SizeField
  <1>4. End(t, c) = End(s, n)
    BY <1>1, <1>2, <1>3 DEF End, SizeField
  <1>5. \A x \in DOMAIN s \ {c, n} : End(t, x) = End(s, x)
    BY <1>3 DEF End
  <1>6. t[c] \in Nat /\ t[c] % 8 = 0 /\ t[c] >= MinAlloc
    BY <1>1, <1>3 DEF MinAlloc
  <1>7. 0 # n
    BY <1>1, <1>2
  <1>8. t = [x \in DOMAIN t |-> t[x]]
    BY DEF Join
  <1> HIDE DEF t, n
  <1>9. Sizes(t)
    BY <1>3, <1>6, <1>7, <1>8 DEF Sizes
  <1>10. ASSUME NEW x \in DOMAIN t PROVE End(t, x) \in DOMAIN t \cup {HiBound} /\ End(t, x) <= HiBound
    <2>1. CASE x = c
      <3>1. End(s, n) \in DOMAIN s \cup {HiBound} /\ End(s, n) <= HiBound
        BY DEF Tiled, n
      <3>2. End(s, n) # n
        BY <1>1 DEF End, SizeField, n
      <3> QED
        BY <1>3, <1>4, <2>1, <3>1, <3>2
    <2>2. CASE x # c
      <3>1. x \in DOMAIN s /\ x # n
        BY <1>3
      <3>2. End(s, x) # n
        BY <2>2, <3>1, EndOfTwo DEF n
      <3>3. End(s, x) \in DOMAIN s \cup {HiBound} /\ End(s, x) <= HiBound
        BY <3>1 DEF Tiled
      <3> QED
        BY <1>3, <1>5, <2>2, <3>1, <3>2, <3>3
    <2> QED
      BY <2>1, <2>2
  <1>11. ASSUME NEW x \in DOMAIN t, NEW y \in DOMAIN t, x < y PROVE End(t, x) <= y
    <2>1. x \in DOMAIN s /\ y \in DOMAIN s /\ x # n /\ y # n
      BY <1>3
    <2>2. CASE x = c
      <3>1. n <= y
        BY <1>11, <2>1, <2>2 DEF Tiled, n
      <3>2. n < y
        BY <1>1, <2>1, <3>1 DEF Sizes
      <3>3. End(s, n) <= y
        BY <2>1, <3>2 DEF Tiled, n
      <3> QED
        BY <1>4, <2>2, <3>3
    <2>3. CASE x # c
      BY <1>5, <1>11, <2>1, <2>3 DEF Tiled
    <2> QED
      BY <2>2, <2>3
  <1>12. Tiled(t)
    BY <1>10, <1>11 DEF Tiled
  <1> QED
    BY <1>2, <1>3, <1>4, <1>5, <1>9, <1>12 DEF t, n, SizeField, Joined

(* Of chunk c there remain n bytes, and what is left of the others behind  *)
(* two size fields becomes a chunk.                                        *)
Rest(c, n) == c + n + 2 * SizeField

Cut(s, c, n) ==
    [x \in DOMAIN s \cup {Rest(c, n)} |->
       IF x = c THEN n ELSE IF x = Rest(c, n) THEN s[c] - n - 2 * SizeField ELSE s[x]]

WasCut(s, t, c, n) ==
    /\ DOMAIN t = DOMAIN s \cup {Rest(c, n)}
    /\ Rest(c, n) \in Nat /\ Rest(c, n) \notin DOMAIN s /\ Rest(c, n) # c
    /\ t[c] = n /\ t[Rest(c, n)] = s[c] - n - 2 * SizeField
    /\ \A x \in DOMAIN s \ {c} : t[x] = s[x] /\ End(t, x) = End(s, x)
    /\ End(t, c) = Rest(c, n)
    /\ End(t, Rest(c, n)) = End(s, c)

LEMMA CutKeeps ==
  ASSUME NEW s, Sizes(s), Tiled(s), NEW c \in DOMAIN s,
         NEW n \in Nat, n % 8 = 0, n >= MinAlloc, s[c] >= n + 2 * SizeField + MinAlloc
  PROVE  /\ Sizes(Cut(s, c, n)) /\ Tiled(Cut(s, c, n))
         /\ WasCut(s, Cut(s, c, n), c, n)
  <1> DEFINE t == Cut(s, c, n)
             r == Rest(c, n)
  <1>1. c \in Nat /\ c % 8 = 0 /\ s[c] \in Nat /\ s[c] % 8 = 0 /\ n >= 24 /\ s[c] >= n + 40
    BY DEF Sizes, MinAlloc, SizeField
  <1>2. r = c + n + 16 /\ r \in Nat /\ c < r /\ r < c + s[c] + 16
    BY <1>1 DEF Rest, SizeField
  <1>3. r % 8 = 0
    BY <1>1, <1>2
  <1>4. End(s, c) = c + s[c] + 16
    BY DEF End, SizeField
  <1>5. r \notin DOMAIN s
    BY <1>1, <1>2, <1>4 DEF Tiled
  <1>6. /\ DOMAIN t = DOMAIN s \cup {r} /\ t[c] = n /\ t[r] = s[c] - n - 16
        /\ \A x \in DOMAIN s \ {c} : t[x] = s[x]
    BY <1>2, <1>5 DEF Cut, SizeField
  <1>7. t = [x \in DOMAIN t |-> t[x]]
    BY DEF Cut
  <1> HIDE DEF t, r
  <1>8. t[r] \in Nat /\ t[r] % 8 = 0 /\ t[r] >= 24
    BY <1>1, <1>6
  <1>9. End(t, c) = r /\ End(t, r) = End(s, c)
    BY <1>1, <1>2, <1>4, <1>6 DEF End, SizeField
  <1>10. \A x \in DOMAIN s \ {c} : End(t, x) = End(s, x)
    BY <1>6 DEF End
  <1>11. Sizes(t)
    BY <1>1, <1>2, <1>3, <1>6, <1>7, <1>8 DEF Sizes, MinAlloc
  <1>12. End(s, c) <= HiBound /\ End(s, c) \in DOMAIN s \cup {HiBound}
    BY DEF Tiled
  <1>13. r <= HiBound
    <2>1. HiBound \in Int
      BY TotalAtLeast DEF HiBound, SizeField
    <2> QED
      BY <1>1, <1>2, <1>4, <1>12, <2>1
  <1>14. ASSUME NEW x \in DOMAIN t PROVE End(t, x) \in DOMAIN t \cup {HiBound} /\ End(t, x) <= HiBound
    BY <1>6, <1>9, <1>10, <1>12, <1>13 DEF Tiled
  <1>15. ASSUME NEW x \in DOMAIN t, NEW y \in DOMAIN t, x < y PROVE End(t, x) <= y
    <2>1. CASE x = c
      <3>1. CASE y = r
        BY <1>2, <1>9, <2>1, <3>1
      <3>2. CASE y # r
        <4>1. y \in DOMAIN s /\ y \in Nat
          BY <1>6, <3>2 DEF Sizes
        <4>2. End(s, c) <= y
          BY <1>15, <2>1, <4>1 DEF Tiled
        <4> QED
          BY <1>1, <1>2, <1>4, <1>9, <2>1, <4>1, <4>2
      <3> QED
        BY <3>1, <3>2
    <2>2. CASE x = r
      <3>1. y \in DOMAIN s /\ y \in Nat /\ c < y
        BY <1>1, <1>2, <1>6, <1>15, <2>2 DEF Sizes
      <3> QED
        BY <1>9, <2>2, <3>1 DEF Tiled
    <2>3. CASE x # c /\ x # r
      <3>1. x \in DOMAIN s /\ x \in Nat /\ s[x] \in Nat
        BY <1>6, <2>3 DEF Sizes
      <3>2. CASE y = r
        <4>1. x < c \/ c < x
          BY <1>1, <2>3, <3>1
        <4>2. CASE x < c
          BY <1>1, <1>2, <1>10, <2>3, <3>1, <3>2, <4>2 DEF Tiled, End, SizeField
        <4>3. CASE c < x
          <5>1. End(s, c) <= x
            BY <3>1, <4>3 DEF Tiled
          <5> QED
            BY <1>1, <1>2, <1>4, <1>15, <3>1, <3>2, <5>1
        <4> QED
          BY <4>1, <4>2, <4>3
      <3>3. CASE y # r
        BY <1>6, <1>10, <1>15, <2>3, <3>1, <3>3 DEF Tiled
      <3> QED
        BY <3>2, <3>3
    <2> QED
      BY <2>1, <2>2, <2>3
  <1>16. Tiled(t)
    BY <1>14, <1>15 DEF Tiled
  <1> QED
    BY <1>2, <1>5, <1>6, <1>9, <1>10, <1>11, <1>16 DEF t, r, SizeField, WasCut

(* Every chunk but the first has one before it. *)
LEMMA OneBefore ==
  ASSUME NEW s, Sizes(s), Tiled(s), NEW c \in DOMAIN s, 0 < c
  PROVE  \E p \in DOMAIN s : End(s, p) = c
  <1> DEFINE T == {c - p : p \in {x \in DOMAIN s : x < c}}
  <1>1. c \in Nat /\ \A x \in DOMAIN s : x \in Nat /\ s[x] \in Nat
    BY DEF Sizes
  <1>2. T \subseteq Nat /\ T # {}
    BY <1>1 DEF Sizes
  <1>3. PICK k \in T : \A j \in T : k <= j
    BY <1>2, LeastOf
  <1>4. PICK p \in DOMAIN s : p < c /\ k = c - p
    BY <1>3
  <1>5. \A x \in DOMAIN s : x < c => x <= p
    <2> SUFFICES ASSUME NEW x \in DOMAIN s, x < c PROVE x <= p
      OBVIOUS
    <2>1. c - x \in T
      OBVIOUS
    <2> QED
      BY <1>1, <1>3, <1>4, <2>1
  <1>6. End(s, p) <= c /\ End(s, p) > p
    BY <1>1, <1>4 DEF Tiled, End, SizeField
  <1>7. End(s, p) # HiBound
    <2>1. End(s, c) <= HiBound /\ End(s, c) > c /\ HiBound \in Int
      BY <1>1, TotalAtLeast DEF Tiled, End, SizeField, HiBound
    <2> QED
      BY <1>1, <1>4, <1>6, <2>1 DEF End, SizeField
  <1>8. End(s, p) \in DOMAIN s
    BY <1>7 DEF Tiled
  <1>9. End(s, p) = c
    BY <1>1, <1>5, <1>6, <1>8
  <1> QED
    BY <1>9

(* Where chunks are merged: c, in no list, may have free neighbours until  *)
(* it has taken them in.                                                   *)
LEMMA NeverBackwards ==
  ASSUME NEW s, Sizes(s), NEW c \in DOMAIN s
  PROVE  c < End(s, c) /\ End(s, c) \in Nat
  BY DEF Sizes, End, SizeField

LEMMA JoinNext ==
  ASSUME NEW s, Sizes(s), Tiled(s), NEW u, NEW c \in DOMAIN s, c \notin u,
         Merged(s, u \cup {c}), End(s, c) \in DOMAIN s \ u
  PROVE  /\ Merged(Join(s, c), u \cup {c})
         /\ End(Join(s, c), c) \notin DOMAIN Join(s, c) \ u
         /\ \A p \in DOMAIN Join(s, c) \ u : End(Join(s, c), p) = c => p \in DOMAIN s /\ End(s, p) = c
  <1>1. PICK n : n = End(s, c)
    OBVIOUS
  <1>2. PICK t : t = Join(s, c)
    OBVIOUS
  <1>3. /\ DOMAIN t = DOMAIN s \ {n} /\ c # n /\ n \in DOMAIN s \ u
        /\ \A x \in DOMAIN s \ {c, n} : End(t, x) = End(s, x)
        /\ End(t, c) = End(s, n)
    <2>1. Joined(s, t, c, n)
      BY <1>1, <1>2, JoinKeeps
    <2> QED
      BY <1>1, <2>1 DEF Joined
  <1>4. End(s, n) \notin DOMAIN s \ (u \cup {c})
    BY <1>3 DEF Merged
  <1>5. c < n /\ n < End(s, n) /\ c \in Nat /\ n \in Nat /\ End(s, n) \in Nat
    BY <1>1, <1>3, NeverBackwards DEF Sizes
  <1>6. End(t, c) # c
    BY <1>3, <1>5
  <1>7. End(t, c) \notin DOMAIN t \ u
    BY <1>3, <1>4, <1>6
  <1>8. Merged(t, u \cup {c})
    BY <1>3 DEF Merged
  <1>9. \A p \in DOMAIN t \ u : End(t, p) = c => p \in DOMAIN s /\ End(s, p) = c
    BY <1>3, <1>6
  <1> QED
    BY <1>2, <1>7, <1>8, <1>9

LEMMA JoinPrev ==
  ASSUME NEW s, Sizes(s), Tiled(s), NEW u, NEW c \in DOMAIN s, c \notin u,
         Merged(s, u \cup {c}), NEW p \in DOMAIN s \ u, End(s, p) = c
  PROVE  /\ Merged(Join(s, p), u \cup {p})
         /\ End(Join(s, p), p) = End(s, c)
         /\ \A q \in DOMAIN Join(s, p) \ u : End(Join(s, p), q) # p
  <1>1. PICK t : t = Join(s, p)
    OBVIOUS
  <1>2. /\ DOMAIN t = DOMAIN s \ {c} /\ p # c
        /\ \A x \in DOMAIN s \ {p, c} : End(t, x) = End(s, x)
        /\ End(t, p) = End(s, c)
    <2>1. Joined(s, t, p, c)
      BY <1>1, JoinKeeps
    <2> QED
      BY <2>1 DEF Joined
  <1>3. \A x \in DOMAIN s \ (u \cup {c}) : End(s, x) \notin DOMAIN s \ (u \cup {c})
    BY DEF Merged
  <1>4. Merged(t, u \cup {p})
    BY <1>2, <1>3 DEF Merged
  <1>5. p < c /\ c < End(s, c) /\ p \in Nat /\ c \in Nat /\ End(s, c) \in Nat
    BY NeverBackwards DEF Sizes
  <1>6. ASSUME NEW q \in DOMAIN t \ u PROVE End(t, q) # p
    <2>1. CASE q = p
      BY <1>2, <1>5, <2>1
    <2>2. CASE q # p
      BY <1>2, <1>3, <2>2
    <2> QED
      BY <2>1, <2>2
  <1> QED
    BY <1>1, <1>2, <1>4, <1>6

LEMMA CutMerged ==
  ASSUME NEW s, Sizes(s), Tiled(s), NEW u, NEW c \in DOMAIN s,
         Merged(s, u \cup {c}), End(s, c) \notin DOMAIN s \ u, u \subseteq DOMAIN s,
         NEW n \in Nat, n % 8 = 0, n >= MinAlloc, s[c] >= n + 2 * SizeField + MinAlloc
  PROVE  Merged(Cut(s, c, n), u \cup {c})
  <1>1. PICK t : t = Cut(s, c, n)
    OBVIOUS
  <1>2. PICK r : r = Rest(c, n)
    OBVIOUS
  <1>3. /\ Sizes(t) /\ Tiled(t)
        /\ DOMAIN t = DOMAIN s \cup {r} /\ r \notin DOMAIN s /\ r # c
        /\ \A x \in DOMAIN s \ {c} : End(t, x) = End(s, x)
        /\ End(t, c) = r /\ End(t, r) = End(s, c)
    <2>1. Sizes(t) /\ Tiled(t) /\ WasCut(s, t, c, n)
      BY <1>1, CutKeeps
    <2> QED
      BY <1>2, <2>1 DEF WasCut
  <1>4. \A x \in DOMAIN s \ (u \cup {c}) : End(s, x) \notin DOMAIN s \ (u \cup {c})
    BY DEF Merged
  <1>5. ASSUME NEW x \in DOMAIN t \ (u \cup {c})
        PROVE  End(t, x) \notin DOMAIN t \ (u \cup {c})
    <2>1. CASE x = r
      <3>1. End(t, r) # r
        BY <1>3, NeverBackwards
      <3> QED
        BY <1>3, <2>1, <3>1
    <2>2. CASE x # r
      <3>1. End(t, x) # r
        BY <1>3, EndOfTwo
      <3> QED
        BY <1>3, <1>4, <2>2, <3>1
    <2> QED
      BY <2>1, <2>2
  <1> QED
    BY <1>1, <1>5 DEF Merged

LEMMA AllMerged ==
  ASSUME NEW s, NEW u, NEW c \in DOMAIN s, c \notin u,
         Merged(s, u \cup {c}), End(s, c) \notin DOMAIN s \ u,
         \A p \in DOMAIN s \ u : End(s, p) # c
  PROVE  Merged(s, u)
  BY DEF Merged

-----------------------------------------------------------------------------
(* Lists *)

IsFcn(f, S) == f = [x \in S |-> f[x]]

(* A heap is a record of these fields. *)
IsHeap(h) ==
    h = [size |-> h.size, used |-> h.used, prev |-> h.prev, next |-> h.next,
         bucket |-> h.bucket, used_size |-> h.used_size, free_size |-> h.free_size,
         data |-> h.data]

BucketOf(h, c) == BucketBySize(h.size[c])

(* No list leads back to where it has been: chunks can be numbered so that *)
(* next leads to a higher number.                                          *)
Ordered(h, F) ==
    \E rank \in [F -> Nat] :
      \A c \in F : h.next[c] # NULL => rank[c] < rank[h.next[c]]

(* The lists hold the chunks of F, each in the list of its size. *)
Listed(h, F) ==
    /\ Ordered(h, F)
    /\ h.prev = [x \in F |-> h.prev[x]] /\ h.next = [x \in F |-> h.next[x]]
    /\ \A c \in F : h.prev[c] \in F \cup {NULL} /\ h.next[c] \in F \cup {NULL}
    /\ h.bucket \in [Bucket -> F \cup {NULL}]
    /\ \A c \in F : BucketOf(h, c) \in Bucket
    /\ \A c \in F : h.next[c] # NULL =>
         h.prev[h.next[c]] = c /\ BucketOf(h, h.next[c]) = BucketOf(h, c)
    /\ \A c \in F : h.prev[c] # NULL => h.next[h.prev[c]] = c
    /\ \A c \in F : h.prev[c] = NULL => h.bucket[BucketOf(h, c)] = c
    /\ \A b \in Bucket : h.bucket[b] # NULL =>
         h.prev[h.bucket[b]] = NULL /\ BucketOf(h, h.bucket[b]) = b

LEMMA BucketType ==
  ASSUME NEW n \in Nat, n >= MinAlloc
  PROVE  BucketBySize(n) \in Bucket
  <1>1. BucketCount \in Nat /\ BucketCount >= 1
    BY LayoutAssumption DEF BucketCount, MinAlloc
  <1>2. CASE n < MaxBucketSize
    BY <1>1, <1>2, LayoutAssumption DEF BucketBySize, Bucket, BucketCount, MinAlloc
  <1>3. CASE ~(n < MaxBucketSize)
    BY <1>1, <1>3 DEF BucketBySize, Bucket
  <1> QED
    BY <1>2, <1>3

(* The lists are as they were when sizes outside of them change. *)
LEMMA ListsStay ==
  ASSUME NEW h, NEW g, NEW F, Listed(h, F),
         g.prev = h.prev, g.next = h.next, g.bucket = h.bucket,
         \A c \in F : g.size[c] = h.size[c]
  PROVE  Listed(g, F)
  <1>1. \A c \in F : BucketOf(g, c) = BucketOf(h, c)
    BY DEF BucketOf
  <1>2. \A c \in F : h.next[c] # NULL => h.next[c] \in F
    BY DEF Listed
  <1>3. \A b \in Bucket : h.bucket[b] # NULL => h.bucket[b] \in F
    BY DEF Listed
  <1>4. Ordered(g, F)
    BY DEF Listed, Ordered
  <1> QED
    BY <1>1, <1>2, <1>3, <1>4 DEF Listed

(* What Unlink does, field by field *)
Unlinked(h, g, c) ==
    /\ g.size = h.size /\ g.used = h.used /\ g.data = h.data
    /\ g.used_size = h.used_size /\ g.free_size = h.free_size
    /\ IsFcn(g.prev, DOMAIN h.prev \ {c})
    /\ \A x \in DOMAIN h.prev \ {c} :
         g.prev[x] = IF x = h.next[c] THEN h.prev[c] ELSE h.prev[x]
    /\ IsFcn(g.next, DOMAIN h.prev \ {c})
    /\ \A x \in DOMAIN h.prev \ {c} :
         g.next[x] = IF x = h.prev[c] THEN h.next[c] ELSE h.next[x]
    /\ IsFcn(g.bucket, DOMAIN h.bucket)
    /\ \A d \in DOMAIN h.bucket :
         g.bucket[d] = IF d = BucketOf(h, c) /\ h.prev[c] = NULL THEN h.next[c] ELSE h.bucket[d]

LEMMA UnlinkIs ==
  ASSUME NEW h, NEW c, IsHeap(h)
  PROVE  IsHeap(Unlink(h, c)) /\ Unlinked(h, Unlink(h, c), c)
  <1>1. PICK p : p = [x \in DOMAIN h.prev \ {c} |-> IF x = h.next[c] THEN h.prev[c] ELSE h.prev[x]]
    OBVIOUS
  <1>2. PICK n : n = [x \in DOMAIN h.prev \ {c} |-> IF x = h.prev[c] THEN h.next[c] ELSE h.next[x]]
    OBVIOUS
  <1>3. PICK b : b = [h.bucket EXCEPT ![BucketOf(h, c)] = IF h.prev[c] = NULL THEN h.next[c] ELSE @]
    OBVIOUS
  <1>4. PICK g : g = Unlink(h, c)
    OBVIOUS
  <1>5. g = [h EXCEPT !.prev = p, !.next = n, !.bucket = b]
    BY <1>1, <1>2, <1>3, <1>4 DEF Unlink, BucketOf
  <1>6. g = [size |-> h.size, used |-> h.used, prev |-> p, next |-> n, bucket |-> b,
             used_size |-> h.used_size, free_size |-> h.free_size, data |-> h.data]
    BY <1>5 DEF IsHeap
  <1>7. /\ IsFcn(p, DOMAIN h.prev \ {c}) /\ IsFcn(n, DOMAIN h.prev \ {c})
        /\ IsFcn(b, DOMAIN h.bucket)
    BY <1>1, <1>2, <1>3 DEF IsFcn
  <1>8. IsHeap(g)
    BY <1>6 DEF IsHeap
  <1>9. Unlinked(h, g, c)
    BY <1>1, <1>2, <1>3, <1>6, <1>7 DEF Unlinked
  <1> QED
    BY <1>4, <1>8, <1>9

LEMMA UnlinkKeeps ==
  ASSUME NEW h, IsHeap(h), NEW F, NULL \notin F, Listed(h, F), NEW c \in F
  PROVE  Listed(Unlink(h, c), F \ {c})
  <1>1. PICK g : g = Unlink(h, c)
    OBVIOUS
  <1>2. PICK p : p = h.prev[c]
    OBVIOUS
  <1>3. PICK n : n = h.next[c]
    OBVIOUS
  <1>4. PICK b : b = BucketOf(h, c)
    OBVIOUS
  <1> DEFINE O == F \ {c}
  <1>5. DOMAIN h.prev = F /\ DOMAIN h.next = F
    BY DEF Listed
  <1>6. /\ g.size = h.size
        /\ IsFcn(g.prev, O) /\ IsFcn(g.next, O) /\ IsFcn(g.bucket, DOMAIN h.bucket)
        /\ \A x \in O : g.prev[x] = IF x = n THEN p ELSE h.prev[x]
        /\ \A x \in O : g.next[x] = IF x = p THEN n ELSE h.next[x]
        /\ \A d \in DOMAIN h.bucket :
             g.bucket[d] = IF d = b /\ p = NULL THEN n ELSE h.bucket[d]
    <2>1. Unlinked(h, g, c)
      BY <1>1, UnlinkIs
    <2> QED
      BY <1>2, <1>3, <1>4, <1>5, <2>1 DEF Unlinked
  <1>7. \A x \in F : BucketOf(g, x) = BucketOf(h, x)
    BY <1>6 DEF BucketOf
  <1>8. /\ p \in F \cup {NULL} /\ n \in F \cup {NULL} /\ b \in Bucket
        /\ n # NULL => h.prev[n] = c /\ BucketOf(h, n) = b
        /\ p # NULL => h.next[p] = c
        /\ p = NULL => h.bucket[b] = c
    BY <1>2, <1>3, <1>4 DEF Listed
  <1>9. \A x \in O : /\ x # n => h.prev[x] # c
                     /\ x # p => h.next[x] # c
    <2>1. \A x \in F : h.next[x] # NULL => h.prev[h.next[x]] = x
      BY DEF Listed
    <2>2. \A x \in F : h.prev[x] # NULL => h.next[h.prev[x]] = x
      BY DEF Listed
    <2> QED
      BY <1>2, <1>3, <2>1, <2>2
  <1>10. n \in O => p # c
    BY <1>2, <1>3 DEF Listed
  <1>11. p \in O => n # c
    BY <1>2, <1>3 DEF Listed
  <1>12. /\ g.prev = [x \in O |-> g.prev[x]]
         /\ g.next = [x \in O |-> g.next[x]]
         /\ \A x \in O : g.prev[x] = IF x = n THEN p ELSE h.prev[x]
         /\ \A x \in O : g.next[x] = IF x = p THEN n ELSE h.next[x]
    BY <1>6 DEF IsFcn
  <1>13. \A x \in O : g.prev[x] \in O \cup {NULL} /\ g.next[x] \in O \cup {NULL}
    BY <1>8, <1>9, <1>10, <1>11, <1>12 DEF Listed
  <1>14. DOMAIN g.bucket = Bucket /\ DOMAIN h.bucket = Bucket
    BY <1>6 DEF Listed, IsFcn
  <1>15. \A d \in Bucket : g.bucket[d] = IF d = b /\ p = NULL THEN n ELSE h.bucket[d]
    BY <1>6, <1>14
  <1>16. \A d \in Bucket : h.bucket[d] = c => d = b /\ p = NULL
    <2> SUFFICES ASSUME NEW d \in Bucket, h.bucket[d] = c PROVE d = b /\ p = NULL
      OBVIOUS
    <2>1. h.prev[h.bucket[d]] = NULL /\ BucketOf(h, h.bucket[d]) = d
      BY DEF Listed
    <2>2. h.prev[c] = NULL /\ BucketOf(h, c) = d
      BY <2>1
    <2> QED
      BY <1>2, <1>4, <2>2
  <1>17. p = NULL => n # c
    BY <1>2, <1>8
  <1>18. \A d \in Bucket : g.bucket[d] \in O \cup {NULL}
    BY <1>8, <1>15, <1>16, <1>17 DEF Listed
  <1>19. g.bucket \in [Bucket -> O \cup {NULL}]
    <2>1. g.bucket = [d \in Bucket |-> g.bucket[d]]
      BY <1>6, <1>14 DEF IsFcn
    <2> QED
      BY <1>18, <2>1
  <1>20. ASSUME NEW x \in O, g.next[x] # NULL
         PROVE  g.prev[g.next[x]] = x /\ BucketOf(g, g.next[x]) = BucketOf(g, x)
    <2>1. CASE x = p
      <3>1. g.next[x] = n /\ n \in O
        BY <1>8, <1>11, <1>12, <1>20, <2>1
      <3>2. BucketOf(h, x) = b
        BY <1>2, <1>4, <1>8, <2>1 DEF Listed
      <3> QED
        BY <1>7, <1>8, <1>12, <1>20, <2>1, <3>1, <3>2
    <2>2. CASE x # p
      <3>1. g.next[x] = h.next[x] /\ h.next[x] \in O
        BY <1>12, <1>13, <1>20, <2>2
      <3>2. h.prev[h.next[x]] = x /\ BucketOf(h, h.next[x]) = BucketOf(h, x)
        BY <1>20, <3>1 DEF Listed
      <3>3. h.next[x] # n
        BY <1>8, <1>20, <3>1, <3>2
      <3> QED
        BY <1>7, <1>12, <3>1, <3>2, <3>3
    <2> QED
      BY <2>1, <2>2
  <1>21. ASSUME NEW x \in O, g.prev[x] # NULL
         PROVE  g.next[g.prev[x]] = x
    <2>1. CASE x = n
      BY <1>8, <1>10, <1>12, <1>21, <2>1
    <2>2. CASE x # n
      <3>1. g.prev[x] = h.prev[x] /\ h.prev[x] \in O
        BY <1>12, <1>13, <1>21, <2>2
      <3>2. h.next[h.prev[x]] = x
        BY <1>21, <3>1 DEF Listed
      <3>3. h.prev[x] # p
        BY <1>8, <1>21, <3>1, <3>2
      <3> QED
        BY <1>12, <3>1, <3>2, <3>3
    <2> QED
      BY <2>1, <2>2
  <1>22. ASSUME NEW x \in O, g.prev[x] = NULL
         PROVE  g.bucket[BucketOf(g, x)] = x
    <2>1. CASE x = n
      BY <1>7, <1>8, <1>12, <1>15, <1>22, <2>1
    <2>2. CASE x # n
      <3>1. h.prev[x] = NULL /\ h.bucket[BucketOf(h, x)] = x /\ BucketOf(h, x) \in Bucket
        BY <1>12, <1>22, <2>2 DEF Listed
      <3> QED
        BY <1>7, <1>8, <1>15, <3>1
    <2> QED
      BY <2>1, <2>2
  <1>23. ASSUME NEW d \in Bucket, g.bucket[d] # NULL
         PROVE  g.prev[g.bucket[d]] = NULL /\ BucketOf(g, g.bucket[d]) = d
    <2>1. CASE d = b /\ p = NULL
      BY <1>7, <1>8, <1>12, <1>15, <1>18, <1>23, <2>1
    <2>2. CASE ~(d = b /\ p = NULL)
      <3>1. g.bucket[d] = h.bucket[d] /\ h.bucket[d] \in O
        BY <1>15, <1>18, <1>23, <2>2
      <3>2. h.prev[h.bucket[d]] = NULL /\ BucketOf(h, h.bucket[d]) = d
        BY <1>23, <3>1 DEF Listed
      <3>3. h.bucket[d] # n
        BY <1>8, <1>23, <3>1, <3>2
      <3> QED
        BY <1>7, <1>12, <3>1, <3>2, <3>3
    <2> QED
      BY <2>1, <2>2
  <1>24. \A x \in O : BucketOf(g, x) \in Bucket
    BY <1>7 DEF Listed
  <1>25. Ordered(g, O)
    <2>1. PICK rank \in [F -> Nat] : \A x \in F : h.next[x] # NULL => rank[x] < rank[h.next[x]]
      BY DEF Listed, Ordered
    <2>2. PICK low : low = [x \in O |-> rank[x]]
      OBVIOUS
    <2>3. low \in [O -> Nat]
      BY <2>1, <2>2
    <2>4. ASSUME NEW x \in O, g.next[x] # NULL PROVE low[x] < low[g.next[x]]
      <3>1. g.next[x] \in O /\ low[x] = rank[x] /\ low[g.next[x]] = rank[g.next[x]]
        BY <1>13, <2>2, <2>4
      <3>2. CASE x # p
        <4>1. g.next[x] = h.next[x]
          BY <1>12, <3>2
        <4> QED
          BY <2>1, <2>4, <3>1, <4>1
      <3>3. CASE x = p
        <4>1. g.next[x] = n /\ n # NULL /\ h.next[x] = c /\ c # NULL
          BY <1>8, <1>12, <2>4, <3>3
        <4>2. rank[x] < rank[c] /\ rank[c] < rank[n]
          BY <1>3, <2>1, <4>1
        <4>3. rank[x] \in Nat /\ rank[c] \in Nat /\ rank[n] \in Nat
          BY <2>1, <3>1, <4>1
        <4> QED
          BY <3>1, <4>1, <4>2, <4>3
      <3> QED
        BY <3>2, <3>3
    <2> QED
      BY <2>3, <2>4 DEF Ordered
  <1>26. Listed(g, O)
    BY <1>12, <1>13, <1>19, <1>20, <1>21, <1>22, <1>23, <1>24, <1>25 DEF Listed
  <1> QED
    BY <1>1, <1>26

(* What Link does, field by field *)
Linked(h, g, c) ==
    /\ g.size = h.size /\ g.used = h.used
    /\ g.used_size = h.used_size /\ g.free_size = h.free_size
    /\ IsFcn(g.data, DOMAIN h.data)
    /\ \A x \in DOMAIN h.data : g.data[x] = IF x = c THEN Junk ELSE h.data[x]
    /\ IsFcn(g.prev, DOMAIN h.prev \cup {c})
    /\ \A x \in DOMAIN h.prev \cup {c} :
         g.prev[x] = IF x = c THEN NULL
                     ELSE IF x = h.bucket[BucketOf(h, c)] THEN c ELSE h.prev[x]
    /\ IsFcn(g.next, DOMAIN h.next \cup {c})
    /\ \A x \in DOMAIN h.next \cup {c} :
         g.next[x] = IF x = c THEN h.bucket[BucketOf(h, c)] ELSE h.next[x]
    /\ IsFcn(g.bucket, DOMAIN h.bucket)
    /\ \A d \in DOMAIN h.bucket :
         g.bucket[d] = IF d = BucketOf(h, c) THEN c ELSE h.bucket[d]

LEMMA LinkIs ==
  ASSUME NEW h, NEW c, IsHeap(h), c \in DOMAIN h.data
  PROVE  IsHeap(Link(h, c)) /\ Linked(h, Link(h, c), c)
  <1>0. PICK g : g = Link(h, c)
    OBVIOUS
  <1>1. PICK p : p = [x \in DOMAIN h.prev \cup {c} |->
                        IF x = c THEN NULL
                        ELSE IF x = h.bucket[BucketOf(h, c)] THEN c ELSE h.prev[x]]
    OBVIOUS
  <1>2. PICK n : n = [x \in DOMAIN h.next \cup {c} |->
                        IF x = c THEN h.bucket[BucketOf(h, c)] ELSE h.next[x]]
    OBVIOUS
  <1>3. PICK b : b = [h.bucket EXCEPT ![BucketOf(h, c)] = c]
    OBVIOUS
  <1>4. PICK d : d = [h.data EXCEPT ![c] = Junk]
    OBVIOUS
  <1>5. g = [h EXCEPT !.prev = p, !.next = n, !.bucket = b, !.data = d]
    BY <1>0, <1>1, <1>2, <1>3, <1>4 DEF Link, BucketOf
  <1>6. g = [size |-> h.size, used |-> h.used, prev |-> p, next |-> n, bucket |-> b,
             used_size |-> h.used_size, free_size |-> h.free_size, data |-> d]
    BY <1>5 DEF IsHeap
  <1>7. /\ IsFcn(p, DOMAIN h.prev \cup {c}) /\ IsFcn(n, DOMAIN h.next \cup {c})
        /\ IsFcn(b, DOMAIN h.bucket) /\ IsFcn(d, DOMAIN h.data)
    BY <1>1, <1>2, <1>3, <1>4 DEF IsFcn
  <1>8. IsHeap(g)
    BY <1>6 DEF IsHeap
  <1>9. Linked(h, g, c)
    BY <1>1, <1>2, <1>3, <1>4, <1>6, <1>7 DEF Linked
  <1> QED
    BY <1>0, <1>8, <1>9

LEMMA LinkKeeps ==
  ASSUME NEW h, IsHeap(h), NEW F, NULL \notin F, Listed(h, F),
         NEW c \in DOMAIN h.data, c \notin F, c # NULL, BucketOf(h, c) \in Bucket
  PROVE  Listed(Link(h, c), F \cup {c})
  <1>1. PICK g : g = Link(h, c)
    OBVIOUS
  <1>2. PICK b : b = BucketOf(h, c)
    OBVIOUS
  <1>3. PICK f : f = h.bucket[b]
    OBVIOUS
  <1> DEFINE O == F \cup {c}
  <1>4. DOMAIN h.prev = F /\ DOMAIN h.next = F
    BY DEF Listed
  <1>5. /\ g.size = h.size
        /\ IsFcn(g.prev, O) /\ IsFcn(g.next, O)
        /\ \A x \in O : g.prev[x] = IF x = c THEN NULL ELSE IF x = f THEN c ELSE h.prev[x]
        /\ \A x \in O : g.next[x] = IF x = c THEN f ELSE h.next[x]
        /\ IsFcn(g.bucket, DOMAIN h.bucket)
        /\ \A d \in DOMAIN h.bucket : g.bucket[d] = IF d = b THEN c ELSE h.bucket[d]
    <2>1. Linked(h, g, c)
      BY <1>1, LinkIs
    <2> QED
      BY <1>2, <1>3, <1>4, <2>1 DEF Linked
  <1>6. \A x \in O : BucketOf(g, x) = BucketOf(h, x)
    BY <1>5 DEF BucketOf
  <1>7. /\ b \in Bucket /\ f \in F \cup {NULL} /\ f # c
        /\ f # NULL => h.prev[f] = NULL /\ BucketOf(h, f) = b
    BY <1>2, <1>3 DEF Listed
  <1>8. /\ g.prev = [x \in O |-> g.prev[x]] /\ g.next = [x \in O |-> g.next[x]]
        /\ g.prev[c] = NULL /\ g.next[c] = f
        /\ \A x \in F : g.prev[x] = IF x = f THEN c ELSE h.prev[x]
        /\ \A x \in F : g.next[x] = h.next[x]
    BY <1>5 DEF IsFcn
  <1>9. \A x \in O : g.prev[x] \in O \cup {NULL} /\ g.next[x] \in O \cup {NULL}
    BY <1>7, <1>8 DEF Listed
  <1>10. DOMAIN h.bucket = Bucket /\ DOMAIN g.bucket = Bucket
    BY <1>5 DEF Listed, IsFcn
  <1>11. g.bucket[b] = c /\ \A d \in Bucket \ {b} : g.bucket[d] = h.bucket[d]
    BY <1>5, <1>7, <1>10
  <1>12. g.bucket \in [Bucket -> O \cup {NULL}]
    <2>1. g.bucket = [d \in Bucket |-> g.bucket[d]]
      BY <1>5, <1>10 DEF IsFcn
    <2>2. \A d \in Bucket : g.bucket[d] \in O \cup {NULL}
      BY <1>11 DEF Listed
    <2> QED
      BY <2>1, <2>2
  <1>13. ASSUME NEW x \in O, g.next[x] # NULL
         PROVE  g.prev[g.next[x]] = x /\ BucketOf(g, g.next[x]) = BucketOf(g, x)
    <2>1. CASE x = c
      <3>1. g.next[x] = f /\ f \in F
        BY <1>7, <1>8, <1>13, <2>1
      <3> QED
        BY <1>2, <1>6, <1>7, <1>8, <2>1, <3>1
    <2>2. CASE x # c
      <3>1. x \in F /\ g.next[x] = h.next[x] /\ h.next[x] \in F
        BY <1>8, <1>13, <2>2 DEF Listed
      <3>2. h.prev[h.next[x]] = x /\ BucketOf(h, h.next[x]) = BucketOf(h, x)
        BY <1>13, <3>1 DEF Listed
      <3>3. h.next[x] # f
        BY <1>7, <3>1, <3>2
      <3> QED
        BY <1>6, <1>8, <3>1, <3>2, <3>3
    <2> QED
      BY <2>1, <2>2
  <1>14. ASSUME NEW x \in O, g.prev[x] # NULL
         PROVE  g.next[g.prev[x]] = x
    <2>1. x \in F
      BY <1>8, <1>14
    <2>2. CASE x = f
      BY <1>8, <2>1, <2>2
    <2>3. CASE x # f
      <3>1. g.prev[x] = h.prev[x] /\ h.prev[x] \in F
        BY <1>8, <1>14, <2>1, <2>3 DEF Listed
      <3>2. h.next[h.prev[x]] = x
        BY <1>14, <2>1, <3>1 DEF Listed
      <3> QED
        BY <1>8, <3>1, <3>2
    <2> QED
      BY <2>2, <2>3
  <1>15. ASSUME NEW x \in O, g.prev[x] = NULL
         PROVE  g.bucket[BucketOf(g, x)] = x
    <2>1. CASE x = c
      BY <1>2, <1>6, <1>11, <2>1
    <2>2. CASE x # c
      <3>1. x \in F /\ x # f /\ h.prev[x] = NULL
        BY <1>8, <1>15, <2>2
      <3>2. h.bucket[BucketOf(h, x)] = x /\ BucketOf(h, x) \in Bucket
        BY <3>1 DEF Listed
      <3>3. BucketOf(h, x) # b
        BY <1>3, <3>1, <3>2
      <3> QED
        BY <1>6, <1>11, <3>1, <3>2, <3>3
    <2> QED
      BY <2>1, <2>2
  <1>16. ASSUME NEW d \in Bucket, g.bucket[d] # NULL
         PROVE  g.prev[g.bucket[d]] = NULL /\ BucketOf(g, g.bucket[d]) = d
    <2>1. CASE d = b
      BY <1>2, <1>6, <1>8, <1>11, <2>1
    <2>2. CASE d # b
      <3>1. g.bucket[d] = h.bucket[d] /\ h.bucket[d] \in F
        BY <1>11, <1>16, <2>2 DEF Listed
      <3>2. h.prev[h.bucket[d]] = NULL /\ BucketOf(h, h.bucket[d]) = d
        BY <1>16, <3>1 DEF Listed
      <3>3. h.bucket[d] # f
        BY <1>7, <2>2, <3>1, <3>2
      <3> QED
        BY <1>6, <1>8, <3>1, <3>2, <3>3
    <2> QED
      BY <2>1, <2>2
  <1>17. \A x \in O : BucketOf(g, x) \in Bucket
    BY <1>6 DEF Listed
  <1>18. Ordered(g, O)
    <2>1. PICK rank \in [F -> Nat] : \A x \in F : h.next[x] # NULL => rank[x] < rank[h.next[x]]
      BY DEF Listed, Ordered
    <2>2. PICK low : low = [x \in O |-> IF x = c THEN 0 ELSE rank[x] + 1]
      OBVIOUS
    <2>3. low \in [O -> Nat]
      BY <2>1, <2>2
    <2>4. ASSUME NEW x \in O, g.next[x] # NULL PROVE low[x] < low[g.next[x]]
      <3>1. CASE x = c
        <4>1. g.next[x] = f /\ f \in F /\ f # c
          BY <1>7, <1>8, <2>4, <3>1
        <4>2. low[x] = 0 /\ low[f] = rank[f] + 1 /\ rank[f] \in Nat
          BY <2>1, <2>2, <3>1, <4>1
        <4> QED
          BY <4>1, <4>2
      <3>2. CASE x # c
        <4>1. x \in F /\ g.next[x] = h.next[x]
          BY <1>8, <3>2
        <4>2. h.next[x] \in F /\ h.next[x] # c
          BY <2>4, <4>1 DEF Listed
        <4>3. rank[x] < rank[h.next[x]] /\ rank[x] \in Nat /\ rank[h.next[x]] \in Nat
          BY <2>1, <2>4, <4>1, <4>2
        <4>4. low[x] = rank[x] + 1 /\ low[g.next[x]] = rank[h.next[x]] + 1
          BY <2>2, <3>2, <4>1, <4>2
        <4> QED
          BY <4>3, <4>4
      <3> QED
        BY <3>1, <3>2
    <2> QED
      BY <2>3, <2>4 DEF Ordered
  <1>19. Listed(g, O)
    BY <1>8, <1>9, <1>12, <1>13, <1>14, <1>15, <1>16, <1>17, <1>18 DEF Listed
  <1> QED
    BY <1>1, <1>19

-----------------------------------------------------------------------------
(* Heaps *)

(* A heap of which the chunks of K are neither used nor in a list: the     *)
(* allocator is working on them.                                           *)
Loose(h, K) ==
    /\ IsHeap(h)
    /\ DOMAIN h.size \subseteq Nat
    /\ h.used \subseteq DOMAIN h.size
    /\ K \subseteq DOMAIN h.size \ h.used
    /\ IsFcn(h.data, DOMAIN h.size)
    /\ \A x \in DOMAIN h.size : h.data[x] \in Data \cup {Junk}
    /\ Listed(h, DOMAIN h.size \ (h.used \cup K))

LEMMA NullIsNone == ASSUME NEW S, S \subseteq Nat PROVE NULL \notin S
  <1>1. NULL \notin Int
    BY MemAssumption
  <1>2. \A x \in Nat : x \in Int
    OBVIOUS
  <1> QED
    BY <1>1, <1>2

LEMMA LooseUnlink ==
  ASSUME NEW h, NEW K, Loose(h, K), NEW c \in DOMAIN h.size \ (h.used \cup K)
  PROVE  /\ Loose(Unlink(h, c), K \cup {c})
         /\ Unlink(h, c).size = h.size /\ Unlink(h, c).used = h.used
         /\ Unlink(h, c).data = h.data
  <1>1. PICK g : g = Unlink(h, c)
    OBVIOUS
  <1>2. IsHeap(g) /\ g.size = h.size /\ g.used = h.used /\ g.data = h.data
    BY <1>1, UnlinkIs DEF Loose, Unlinked
  <1>3. PICK F : F = DOMAIN h.size \ (h.used \cup K)
    OBVIOUS
  <1>4. IsHeap(h) /\ Listed(h, F) /\ NULL \notin F /\ c \in F
    BY <1>3, NullIsNone DEF Loose
  <1>5. Listed(g, F \ {c})
    BY <1>1, <1>4, UnlinkKeeps
  <1>6. F \ {c} = DOMAIN g.size \ (g.used \cup (K \cup {c}))
    BY <1>2, <1>3
  <1>7. Loose(g, K \cup {c})
    BY <1>2, <1>5, <1>6 DEF Loose
  <1> QED
    BY <1>1, <1>2, <1>7

LEMMA LooseLink ==
  ASSUME NEW h, NEW K, Loose(h, K), NEW c \in K, BucketOf(h, c) \in Bucket
  PROVE  /\ Loose(Link(h, c), K \ {c})
         /\ Link(h, c).size = h.size /\ Link(h, c).used = h.used
         /\ \A x \in DOMAIN h.size \ {c} : Link(h, c).data[x] = h.data[x]
  <1>1. PICK g : g = Link(h, c)
    OBVIOUS
  <1>2. c \in DOMAIN h.size /\ DOMAIN h.data = DOMAIN h.size
    BY DEF Loose, IsFcn
  <1>3. IsHeap(g) /\ Linked(h, g, c)
    BY <1>1, <1>2, LinkIs DEF Loose
  <1>4. /\ g.size = h.size /\ g.used = h.used /\ IsFcn(g.data, DOMAIN g.size)
        /\ \A x \in DOMAIN g.size : g.data[x] = IF x = c THEN Junk ELSE h.data[x]
    BY <1>2, <1>3 DEF Linked
  <1>5. PICK F : F = DOMAIN h.size \ (h.used \cup K)
    OBVIOUS
  <1>6. IsHeap(h) /\ Listed(h, F) /\ NULL \notin F /\ c \notin F /\ c # NULL /\ c \in DOMAIN h.data
    BY <1>2, <1>5, NullIsNone DEF Loose
  <1>7. Listed(g, F \cup {c})
    BY <1>1, <1>6, LinkKeeps
  <1>8. F \cup {c} = DOMAIN g.size \ (g.used \cup (K \ {c}))
    BY <1>2, <1>4, <1>5 DEF Loose
  <1>9. Loose(g, K \ {c})
    BY <1>3, <1>4, <1>7, <1>8 DEF Loose
  <1> QED
    BY <1>1, <1>4, <1>9

(* What SetChunk does, field by field *)
ChunkSet(h, g, gone, c, n) ==
    /\ g.prev = h.prev /\ g.next = h.next /\ g.bucket = h.bucket
    /\ g.used_size = h.used_size /\ g.free_size = h.free_size
    /\ g.used = h.used \ (gone \cup {c})
    /\ DOMAIN g.size = (DOMAIN h.size \ gone) \cup {c}
    /\ IsFcn(g.size, DOMAIN g.size)
    /\ g.size[c] = n
    /\ \A x \in DOMAIN h.size \ (gone \cup {c}) : g.size[x] = h.size[x]
    /\ IsFcn(g.data, DOMAIN g.size)
    /\ \A x \in DOMAIN g.size : g.data[x] = IF x \in DOMAIN h.size THEN h.data[x] ELSE Junk

LEMMA SetChunkIs ==
  ASSUME NEW h, IsHeap(h), NEW gone, NEW c, NEW n
  PROVE  IsHeap(SetChunk(h, gone, c, n)) /\ ChunkSet(h, SetChunk(h, gone, c, n), gone, c, n)
  <1>1. PICK D : D = (DOMAIN h.size \ gone) \cup {c}
    OBVIOUS
  <1>2. PICK s : s = [x \in D |-> IF x = c THEN n ELSE h.size[x]]
    OBVIOUS
  <1>3. PICK d : d = [x \in D |-> IF x \in DOMAIN h.size THEN h.data[x] ELSE Junk]
    OBVIOUS
  <1>4. PICK u : u = h.used \ (gone \cup {c})
    OBVIOUS
  <1>5. PICK g : g = SetChunk(h, gone, c, n)
    OBVIOUS
  <1>6. g = [h EXCEPT !.used = u, !.size = s, !.data = d]
    BY <1>1, <1>2, <1>3, <1>4, <1>5 DEF SetChunk, Chunks
  <1>7. g = [size |-> s, used |-> u, prev |-> h.prev, next |-> h.next, bucket |-> h.bucket,
             used_size |-> h.used_size, free_size |-> h.free_size, data |-> d]
    BY <1>6 DEF IsHeap
  <1>8. IsHeap(g)
    BY <1>7 DEF IsHeap
  <1>9. IsFcn(s, D) /\ DOMAIN s = D /\ IsFcn(d, D)
    BY <1>2, <1>3 DEF IsFcn
  <1>10. ChunkSet(h, g, gone, c, n)
    BY <1>1, <1>2, <1>3, <1>4, <1>7, <1>9 DEF ChunkSet
  <1> QED
    BY <1>5, <1>8, <1>10

(* A chunk may be made of what no list holds. *)
LEMMA LooseChunk ==
  ASSUME NEW h, NEW K, Loose(h, K), NEW gone, NEW c \in Nat, NEW n,
         (gone \cup {c}) \cap (DOMAIN h.size \ (h.used \cup K)) = {}
  PROVE  /\ Loose(SetChunk(h, gone, c, n), (K \ gone) \cup {c})
         /\ ChunkSet(h, SetChunk(h, gone, c, n), gone, c, n)
  <1>1. PICK g : g = SetChunk(h, gone, c, n)
    OBVIOUS
  <1>2. IsHeap(g) /\ ChunkSet(h, g, gone, c, n)
    BY <1>1, SetChunkIs DEF Loose
  <1>3. PICK F : F = DOMAIN h.size \ (h.used \cup K)
    OBVIOUS
  <1>4. Listed(h, F) /\ \A x \in F : g.size[x] = h.size[x]
    BY <1>2, <1>3 DEF Loose, ChunkSet
  <1>5. g.prev = h.prev /\ g.next = h.next /\ g.bucket = h.bucket
    BY <1>2 DEF ChunkSet
  <1>6. Listed(g, F)
    BY <1>4, <1>5, ListsStay
  <1>7. F = DOMAIN g.size \ (g.used \cup ((K \ gone) \cup {c}))
    BY <1>2, <1>3 DEF ChunkSet, Loose
  <1>8. /\ DOMAIN g.size \subseteq Nat /\ g.used \subseteq DOMAIN g.size
        /\ (K \ gone) \cup {c} \subseteq DOMAIN g.size \ g.used
    BY <1>2 DEF ChunkSet, Loose
  <1>9. IsFcn(g.data, DOMAIN g.size) /\ \A x \in DOMAIN g.size : g.data[x] \in Data \cup {Junk}
    BY <1>2 DEF ChunkSet, Loose
  <1>10. Loose(g, (K \ gone) \cup {c})
    BY <1>2, <1>6, <1>7, <1>8, <1>9 DEF Loose
  <1> QED
    BY <1>1, <1>2, <1>10

(* What SetUsed, Account and a caller's store do *)
LEMMA LooseUsed ==
  ASSUME NEW h, NEW K, Loose(h, K), NEW c \in K
  PROVE  /\ Loose(SetUsed(h, c), K \ {c})
         /\ SetUsed(h, c).size = h.size /\ SetUsed(h, c).used = h.used \cup {c}
         /\ SetUsed(h, c).data = h.data
  <1>1. PICK g : g = SetUsed(h, c)
    OBVIOUS
  <1>2. PICK u : u = h.used \cup {c}
    OBVIOUS
  <1>3. g = [h EXCEPT !.used = u]
    BY <1>1, <1>2 DEF SetUsed
  <1>4. g = [size |-> h.size, used |-> u, prev |-> h.prev, next |-> h.next,
             bucket |-> h.bucket, used_size |-> h.used_size, free_size |-> h.free_size,
             data |-> h.data]
    BY <1>3 DEF Loose, IsHeap
  <1>5. IsHeap(g)
    BY <1>4 DEF IsHeap
  <1>6. /\ g.size = h.size /\ g.used = u /\ g.data = h.data
        /\ g.prev = h.prev /\ g.next = h.next /\ g.bucket = h.bucket
    BY <1>4
  <1>7. DOMAIN g.size \ (g.used \cup (K \ {c})) = DOMAIN h.size \ (h.used \cup K)
    BY <1>2, <1>6 DEF Loose
  <1>8. Listed(g, DOMAIN h.size \ (h.used \cup K))
    BY <1>6, ListsStay DEF Loose
  <1>9. Loose(g, K \ {c})
    BY <1>2, <1>5, <1>6, <1>7, <1>8 DEF Loose
  <1> QED
    BY <1>1, <1>2, <1>6, <1>9

LEMMA LooseAccount ==
  ASSUME NEW h, NEW K, Loose(h, K), NEW a, NEW b
  PROVE  /\ Loose(Account(h, a, b), K)
         /\ Account(h, a, b).size = h.size /\ Account(h, a, b).used = h.used
         /\ Account(h, a, b).data = h.data
  <1>1. PICK g : g = Account(h, a, b)
    OBVIOUS
  <1>2. PICK m : m = h.used_size + a
    OBVIOUS
  <1>3. PICK n : n = h.free_size + b
    OBVIOUS
  <1>4. g = [h EXCEPT !.used_size = m, !.free_size = n]
    BY <1>1, <1>2, <1>3 DEF Account
  <1>5. g = [size |-> h.size, used |-> h.used, prev |-> h.prev, next |-> h.next,
             bucket |-> h.bucket, used_size |-> m, free_size |-> n, data |-> h.data]
    BY <1>4 DEF Loose, IsHeap
  <1>6. IsHeap(g)
    BY <1>5 DEF IsHeap
  <1>7. /\ g.size = h.size /\ g.used = h.used /\ g.data = h.data
        /\ g.prev = h.prev /\ g.next = h.next /\ g.bucket = h.bucket
    BY <1>5
  <1>8. Listed(g, DOMAIN h.size \ (h.used \cup K))
    BY <1>7, ListsStay DEF Loose
  <1>9. Loose(g, K)
    BY <1>6, <1>7, <1>8 DEF Loose
  <1> QED
    BY <1>1, <1>7, <1>9

LEMMA LooseStore ==
  ASSUME NEW h, NEW K, Loose(h, K), NEW c \in DOMAIN h.size, NEW d \in Data \cup {Junk}
  PROVE  LET g == [h EXCEPT !.data[c] = d] IN
         /\ Loose(g, K) /\ g.size = h.size /\ g.used = h.used
         /\ g.data[c] = d /\ \A x \in DOMAIN h.size \ {c} : g.data[x] = h.data[x]
  <1>1. PICK e : e = [h.data EXCEPT ![c] = d]
    OBVIOUS
  <1>2. PICK g : g = [h EXCEPT !.data[c] = d]
    OBVIOUS
  <1>3. g = [size |-> h.size, used |-> h.used, prev |-> h.prev, next |-> h.next,
             bucket |-> h.bucket, used_size |-> h.used_size, free_size |-> h.free_size,
             data |-> e]
    BY <1>1, <1>2 DEF Loose, IsHeap
  <1>4. IsHeap(g)
    BY <1>3 DEF IsHeap
  <1>5. /\ g.size = h.size /\ g.used = h.used /\ g.data = e
        /\ g.prev = h.prev /\ g.next = h.next /\ g.bucket = h.bucket
    BY <1>3
  <1>6. /\ IsFcn(e, DOMAIN h.size)
        /\ \A x \in DOMAIN h.size : e[x] = IF x = c THEN d ELSE h.data[x]
    BY <1>1 DEF Loose, IsFcn
  <1>7. Listed(g, DOMAIN h.size \ (h.used \cup K))
    BY <1>5, ListsStay DEF Loose
  <1>8. Loose(g, K)
    BY <1>4, <1>5, <1>6, <1>7 DEF Loose
  <1> QED
    BY <1>2, <1>5, <1>6, <1>8

-----------------------------------------------------------------------------
(* Malloc, Free and the ways to realloc *)

(* Between two calls no chunk is loose. *)
HeapInv(h) ==
    /\ Loose(h, {})
    /\ Sizes(h.size) /\ Tiled(h.size)
    /\ Merged(h.size, h.used)

(* The chunks of S are in g what they were in h. *)
Keeps(h, g, S) ==
    \A x \in S : x \in DOMAIN g.size /\ g.size[x] = h.size[x] /\ g.data[x] = h.data[x]

(* What callers ask for, after mem_proper_alloc_size *)
Proper(n) == n \in Nat /\ n % 8 = 0 /\ n >= MinAlloc

LEMMA SameFcn ==
  ASSUME NEW f, NEW g, NEW D, IsFcn(f, D), IsFcn(g, D), \A x \in D : f[x] = g[x]
  PROVE  f = g
  BY DEF IsFcn

LEMMA BucketOk ==
  ASSUME NEW h, Sizes(h.size), NEW c \in DOMAIN h.size
  PROVE  BucketOf(h, c) \in Bucket
  BY BucketType DEF Sizes, BucketOf

(* Chunk c, loose, is cut after n bytes, and the rest goes into a list. *)
CutChunk(h, c, n) ==
    Link(SetChunk(SetChunk(h, {}, Rest(c, n), h.size[c] - n - 2 * SizeField), {}, c, n),
         Rest(c, n))

LEMMA CutChunkKeeps ==
  ASSUME NEW h, NEW c, Loose(h, {c}), Sizes(h.size), Tiled(h.size),
         NEW n, Proper(n), h.size[c] >= n + 2 * SizeField + MinAlloc
  PROVE  LET g == CutChunk(h, c, n) IN
         /\ Loose(g, {c}) /\ g.size = Cut(h.size, c, n) /\ g.used = h.used
         /\ Keeps(h, g, h.used) /\ g.data[c] = h.data[c]
  <1>1. PICK r : r = Rest(c, n)
    OBVIOUS
  <1>2. PICK m : m = h.size[c] - n - 2 * SizeField
    OBVIOUS
  <1>3. PICK a : a = SetChunk(h, {}, r, m)
    OBVIOUS
  <1>4. PICK b : b = SetChunk(a, {}, c, n)
    OBVIOUS
  <1>5. PICK g : g = Link(b, r)
    OBVIOUS
  <1>6. g = CutChunk(h, c, n)
    BY <1>1, <1>2, <1>3, <1>4, <1>5 DEF CutChunk
  <1>7. c \in DOMAIN h.size /\ c \notin h.used /\ c \in Nat
    BY DEF Loose
  <1>8. PICK t : t = Cut(h.size, c, n)
    OBVIOUS
  <1>9. Sizes(t) /\ Tiled(t) /\ WasCut(h.size, t, c, n)
    BY <1>7, <1>8, CutKeeps DEF Proper
  <1>10. r \in Nat /\ r \notin DOMAIN h.size /\ r # c
    BY <1>1, <1>9 DEF WasCut
  <1>11. Loose(a, {c, r}) /\ ChunkSet(h, a, {}, r, m)
    <2>1. ({} \cup {r}) \cap (DOMAIN h.size \ (h.used \cup {c})) = {}
      BY <1>10
    <2>2. Loose(a, ({c} \ {}) \cup {r}) /\ ChunkSet(h, a, {}, r, m)
      BY <1>3, <1>10, <2>1, LooseChunk
    <2>3. ({c} \ {}) \cup {r} = {c, r}
      OBVIOUS
    <2> QED
      BY <2>2, <2>3
  <1>12. Loose(b, {c, r}) /\ ChunkSet(a, b, {}, c, n)
    <2>1. ({} \cup {c}) \cap (DOMAIN a.size \ (a.used \cup {c, r})) = {}
      OBVIOUS
    <2>2. Loose(b, ({c, r} \ {}) \cup {c}) /\ ChunkSet(a, b, {}, c, n)
      BY <1>4, <1>7, <1>11, <2>1, LooseChunk
    <2>3. ({c, r} \ {}) \cup {c} = {c, r}
      OBVIOUS
    <2> QED
      BY <2>2, <2>3
  <1>13. b.used = h.used
    BY <1>7, <1>10, <1>11, <1>12 DEF ChunkSet, Loose
  <1>14. DOMAIN b.size = DOMAIN h.size \cup {r}
    BY <1>7, <1>11, <1>12 DEF ChunkSet
  <1>15. \A x \in DOMAIN h.size \ {c} : b.size[x] = h.size[x]
    BY <1>10, <1>11, <1>12 DEF ChunkSet
  <1>16. b.size[c] = n /\ b.size[r] = m
    BY <1>10, <1>11, <1>12 DEF ChunkSet
  <1>17. b.size = t
    <2>1. DOMAIN t = DOMAIN b.size
      BY <1>1, <1>9, <1>14 DEF WasCut
    <2>2. \A x \in DOMAIN b.size : b.size[x] = t[x]
      BY <1>1, <1>2, <1>9, <1>14, <1>15, <1>16 DEF WasCut
    <2>3. IsFcn(b.size, DOMAIN b.size) /\ IsFcn(t, DOMAIN b.size)
      BY <1>9, <1>12, <2>1 DEF ChunkSet, IsFcn, Sizes
    <2> QED
      BY <2>2, <2>3, SameFcn
  <1>18. \A x \in DOMAIN h.size : b.data[x] = h.data[x]
    BY <1>11, <1>12, <1>14 DEF ChunkSet
  <1>19. BucketOf(b, r) \in Bucket
    BY <1>9, <1>14, <1>17, BucketOk
  <1>20. /\ Loose(g, {c, r} \ {r}) /\ g.size = b.size /\ g.used = b.used
         /\ \A x \in DOMAIN b.size \ {r} : g.data[x] = b.data[x]
    <2>1. Loose(b, {c, r}) /\ r \in {c, r}
      BY <1>12
    <2>2. PICK K : K = {c, r}
      OBVIOUS
    <2>3. /\ Loose(Link(b, r), K \ {r})
          /\ Link(b, r).size = b.size /\ Link(b, r).used = b.used
          /\ \A x \in DOMAIN b.size \ {r} : Link(b, r).data[x] = b.data[x]
      BY <1>19, <2>1, <2>2, LooseLink
    <2> QED
      BY <1>5, <2>2, <2>3
  <1>21. {c, r} \ {r} = {c}
    BY <1>10
  <1>22. h.used \subseteq DOMAIN h.size
    BY DEF Loose
  <1>23. \A x \in DOMAIN h.size :
           x \in DOMAIN g.size /\ g.data[x] = h.data[x] /\ (x # c => g.size[x] = h.size[x])
    BY <1>10, <1>14, <1>15, <1>18, <1>20
  <1>24. Keeps(h, g, h.used) /\ g.data[c] = h.data[c]
    BY <1>7, <1>22, <1>23 DEF Keeps
  <1> QED
    BY <1>6, <1>8, <1>13, <1>17, <1>20, <1>21, <1>24

(* Chunk c has become a block of n bytes, and all blocks hold their data. *)
Carved(h, g, c, n) ==
    /\ HeapInv(g) /\ g.used = h.used \cup {c} /\ g.size[c] >= n
    /\ Keeps(h, g, h.used) /\ g.data[c] = h.data[c]

LEMMA CarveKeeps ==
  ASSUME NEW h, NEW c, Loose(h, {c}), Sizes(h.size), Tiled(h.size),
         Merged(h.size, h.used \cup {c}), End(h.size, c) \notin DOMAIN h.size \ h.used,
         NEW n, Proper(n), h.size[c] >= n
  PROVE  Carved(h, Carve(h, c, n), c, n)
  <1>1. c \in DOMAIN h.size /\ c \notin h.used /\ h.used \subseteq DOMAIN h.size
    BY DEF Loose
  <1>2. PICK g : g = Carve(h, c, n)
    OBVIOUS
  <1>3. CASE h.size[c] < n + 2 * SizeField + MinAlloc
    <2>1. g = Account(SetUsed(h, c), h.size[c], -h.size[c])
      BY <1>2, <1>3 DEF Carve
    <2>2. PICK a : a = SetUsed(h, c)
      OBVIOUS
    <2>3. Loose(a, {c} \ {c}) /\ a.size = h.size /\ a.used = h.used \cup {c} /\ a.data = h.data
      BY <2>2, LooseUsed
    <2>4. {c} \ {c} = {}
      OBVIOUS
    <2>5. Loose(g, {}) /\ g.size = h.size /\ g.used = h.used \cup {c} /\ g.data = h.data
      BY <2>1, <2>2, <2>3, <2>4, LooseAccount
    <2>6. HeapInv(g)
      BY <2>5 DEF HeapInv
    <2>7. Keeps(h, g, h.used)
      BY <1>1, <2>5 DEF Keeps
    <2> QED
      BY <1>2, <2>5, <2>6, <2>7 DEF Carved
  <1>4. CASE ~(h.size[c] < n + 2 * SizeField + MinAlloc)
    <2>1. h.size[c] >= n + 2 * SizeField + MinAlloc
      BY <1>1, <1>4 DEF Sizes, Proper, SizeField, MinAlloc
    <2>2. PICK a : a = CutChunk(h, c, n)
      OBVIOUS
    <2>3. /\ Loose(a, {c}) /\ a.size = Cut(h.size, c, n) /\ a.used = h.used
          /\ Keeps(h, a, h.used) /\ a.data[c] = h.data[c]
      BY <2>1, <2>2, CutChunkKeeps
    <2>4. PICK b : b = SetUsed(a, c)
      OBVIOUS
    <2>5. Loose(b, {c} \ {c}) /\ b.size = a.size /\ b.used = a.used \cup {c} /\ b.data = a.data
      BY <2>3, <2>4, LooseUsed
    <2>6. {c} \ {c} = {}
      OBVIOUS
    <2>7. PICK x : g = Account(b, n, x)
      BY <1>2, <1>4, <2>2, <2>4 DEF Carve, CutChunk, Rest
    <2>8. Loose(g, {}) /\ g.size = a.size /\ g.used = h.used \cup {c} /\ g.data = a.data
      <3>1. Loose(b, {})
        BY <2>5, <2>6
      <3>2. Loose(g, {}) /\ g.size = b.size /\ g.used = b.used /\ g.data = b.data
        BY <2>7, <3>1, LooseAccount
      <3> QED
        BY <2>3, <2>5, <3>2
    <2>9. Sizes(a.size) /\ Tiled(a.size) /\ a.size[c] = n
      <3>1. Sizes(a.size) /\ Tiled(a.size) /\ WasCut(h.size, a.size, c, n)
        BY <1>1, <2>1, <2>3, CutKeeps DEF Proper
      <3> QED
        BY <3>1 DEF WasCut
    <2>10. Merged(a.size, h.used \cup {c})
      BY <1>1, <2>1, <2>3, CutMerged DEF Proper
    <2>11. HeapInv(g)
      BY <2>8, <2>9, <2>10 DEF HeapInv
    <2>12. Keeps(h, g, h.used)
      BY <2>3, <2>8 DEF Keeps
    <2> QED
      BY <1>2, <2>3, <2>8, <2>9, <2>11, <2>12 DEF Proper, Carved
  <1> QED
    BY <1>3, <1>4

(* Walking a list: the recursion is defined, and stays among the free.     *)
WalkStep(h, b, f, i) ==
    IF i = 0 THEN h.bucket[b]
    ELSE IF f[i - 1] = NULL THEN NULL ELSE h.next[f[i - 1]]

LEMMA WalkExists ==
  ASSUME NEW h, NEW b, NEW n \in Nat
  PROVE  \E f : f = [i \in 0 .. n |-> WalkStep(h, b, f, i)]
  <1> DEFINE Good(k) == \E f : f = [i \in 0 .. k |-> WalkStep(h, b, f, i)]
  <1>1. Good(0)
    <2>1. PICK f : f = [i \in 0 .. 0 |-> h.bucket[b]]
      OBVIOUS
    <2>2. f = [i \in 0 .. 0 |-> WalkStep(h, b, f, i)]
      BY <2>1 DEF WalkStep
    <2> QED
      BY <2>2
  <1>2. ASSUME NEW k \in Nat, Good(k) PROVE Good(k + 1)
    <2>1. PICK f : f = [i \in 0 .. k |-> WalkStep(h, b, f, i)]
      BY <1>2
    <2>2. PICK g : g = [i \in 0 .. (k + 1) |-> WalkStep(h, b, f, i)]
      OBVIOUS
    <2>3. \A i \in 0 .. k : g[i] = f[i]
      BY <2>1, <2>2
    <2>4. \A i \in 0 .. (k + 1) : WalkStep(h, b, g, i) = WalkStep(h, b, f, i)
      <3> SUFFICES ASSUME NEW i \in 0 .. (k + 1), i # 0 PROVE g[i - 1] = f[i - 1]
        BY DEF WalkStep
      <3>1. i - 1 \in 0 .. k
        OBVIOUS
      <3> QED
        BY <2>3, <3>1
    <2>5. g = [i \in 0 .. (k + 1) |-> WalkStep(h, b, g, i)]
      BY <2>2, <2>4
    <2> QED
      BY <2>5
  <1>3. ASSUME NEW k \in Nat PROVE Good(k)
    <2> DEFINE Bad == {j \in Nat : ~Good(j)}
    <2>1. SUFFICES ASSUME Bad # {} PROVE FALSE
      BY <2>1
    <2>2. PICK j \in Bad : \A i \in Bad : j <= i
      BY <2>1, LeastOf
    <2>3. j # 0
      BY <1>1, <2>2
    <2>4. j - 1 \in Nat /\ j - 1 \notin Bad
      BY <2>2, <2>3
    <2>5. Good(j - 1)
      BY <2>4
    <2>6. Good((j - 1) + 1)
      BY <1>2, <2>4, <2>5
    <2>7. (j - 1) + 1 = j
      BY <2>2
    <2> QED
      BY <2>2, <2>6, <2>7
  <1> QED
    BY <1>3

LEMMA ListIs ==
  ASSUME NEW h, NEW b, Cardinality(DOMAIN h.next) \in Nat
  PROVE  List(h, b) = [i \in 0 .. Cardinality(DOMAIN h.next) |-> WalkStep(h, b, List(h, b), i)]
  <1> DEFINE N == Cardinality(DOMAIN h.next)
             W == CHOOSE f : f = [i \in 0 .. N |-> WalkStep(h, b, f, i)]
  <1>1. W = [i \in 0 .. N |-> WalkStep(h, b, W, i)]
    BY WalkExists
  <1>2. List(h, b) = W
    BY DEF List, WalkStep
  <1> QED
    BY <1>1, <1>2

LEMMA ListWithin ==
  ASSUME NEW h, NEW F, Listed(h, F), NEW b \in Bucket, Cardinality(DOMAIN h.next) \in Nat,
         NEW i \in DOMAIN List(h, b)
  PROVE  i \in Nat /\ List(h, b)[i] \in F \cup {NULL}
  <1> DEFINE N == Cardinality(DOMAIN h.next)
  <1>1. PICK f : f = List(h, b)
    OBVIOUS
  <1>2. f = [j \in 0 .. N |-> WalkStep(h, b, f, j)]
    BY <1>1, ListIs
  <1>3. DOMAIN f = 0 .. N /\ \A j \in 0 .. N : f[j] = WalkStep(h, b, f, j)
    BY <1>2
  <1> DEFINE Bad == {j \in 0 .. N : f[j] \notin F \cup {NULL}}
  <1>4. Bad = {}
    <2>1. SUFFICES ASSUME Bad # {} PROVE FALSE
      OBVIOUS
    <2>2. Bad \subseteq Nat
      OBVIOUS
    <2>3. PICK j \in Bad : \A k \in Bad : j <= k
      BY <2>1, <2>2, LeastOf
    <2>4. CASE j = 0
      <3>1. f[j] = h.bucket[b]
        BY <1>3, <2>3, <2>4 DEF WalkStep
      <3> QED
        BY <2>3, <3>1 DEF Listed
    <2>5. CASE j # 0
      <3>1. j - 1 \in 0 .. N /\ j - 1 \notin Bad
        BY <2>3, <2>5
      <3>2. f[j - 1] \in F \cup {NULL}
        BY <3>1
      <3>3. f[j] = IF f[j - 1] = NULL THEN NULL ELSE h.next[f[j - 1]]
        BY <1>3, <2>3, <2>5 DEF WalkStep
      <3>4. f[j] \in F \cup {NULL}
        BY <3>2, <3>3 DEF Listed
      <3> QED
        BY <2>3, <3>4
    <2> QED
      BY <2>4, <2>5
  <1> QED
    BY <1>1, <1>3, <1>4

(* The walk meets every chunk of the list, and none of them twice. *)
Met(h, F, b) == {c \in F : BucketOf(h, c) = b}

LEMMA WalkMeets ==
  ASSUME NEW h, NEW F, NULL \notin F, Listed(h, F), IsFiniteSet(F), NEW b \in Bucket,
         NEW list, list = List(h, b)
  PROVE  /\ DOMAIN list = 0 .. Cardinality(F) /\ Cardinality(F) \in Nat
         /\ \A i \in DOMAIN list : list[i] # NULL => list[i] \in Met(h, F, b)
         /\ \A i, j \in DOMAIN list :
              i < j /\ list[j] # NULL => list[i] # NULL /\ list[i] # list[j]
         /\ list[0] = h.bucket[b]
         /\ \A c \in Met(h, F, b) : \E i \in DOMAIN list : list[i] = c
  <1>0. PICK N : N = Cardinality(F)
    OBVIOUS
  <1>1. DOMAIN h.next = F /\ DOMAIN h.prev = F /\ N \in Nat
    BY <1>0, FS_CardinalityType DEF Listed
  <1>2. list = [i \in 0 .. N |-> WalkStep(h, b, list, i)]
    BY <1>0, <1>1, ListIs
  <1>3. DOMAIN list = 0 .. N
    BY <1>2
  <1>4. list[0] = h.bucket[b]
    BY <1>1, <1>2 DEF WalkStep
  <1>5. \A i \in 0 .. N : i # 0 =>
          /\ i - 1 \in 0 .. N
          /\ list[i] = IF list[i - 1] = NULL THEN NULL ELSE h.next[list[i - 1]]
    <2>1. \A i \in 0 .. N : list[i] = WalkStep(h, b, list, i)
      BY <1>2, <1>3
    <2>2. \A i \in 0 .. N : i # 0 =>
            list[i] = IF list[i - 1] = NULL THEN NULL ELSE h.next[list[i - 1]]
      BY <2>1 DEF WalkStep
    <2>3. \A i \in 0 .. N : i # 0 => i - 1 \in 0 .. N
      BY <1>1
    <2> QED
      BY <2>2, <2>3
  <1>6. \A c \in F : h.next[c] # NULL => h.next[c] \in F /\ BucketOf(h, h.next[c]) = BucketOf(h, c)
    BY DEF Listed
  <1>7. h.bucket[b] # NULL => h.bucket[b] \in F /\ BucketOf(h, h.bucket[b]) = b
    BY DEF Listed
  <1>8. PICK rank \in [F -> Nat] : \A c \in F : h.next[c] # NULL => rank[c] < rank[h.next[c]]
    BY DEF Listed, Ordered
  <1>9. ASSUME NEW i \in 0 .. N, list[i] # NULL PROVE list[i] \in F /\ BucketOf(h, list[i]) = b
    <2> DEFINE Off == {k \in 0 .. N : list[k] # NULL /\ ~(list[k] \in F /\ BucketOf(h, list[k]) = b)}
    <2>1. SUFFICES ASSUME Off # {} PROVE FALSE
      BY <1>9
    <2>2. Off \subseteq Nat
      BY <1>1
    <2>3. PICK k \in Off : \A m \in Off : k <= m
      BY <2>1, <2>2, LeastOf
    <2>4. k # 0
      BY <1>4, <1>7, <2>3
    <2>5. /\ k - 1 \in 0 .. N /\ list[k - 1] # NULL /\ list[k] = h.next[list[k - 1]]
          /\ k - 1 \notin Off
      BY <1>5, <2>3, <2>4
    <2>6. list[k - 1] \in F /\ BucketOf(h, list[k - 1]) = b
      BY <2>5
    <2>7. list[k] \in F /\ BucketOf(h, list[k]) = b
      BY <1>6, <2>3, <2>5, <2>6
    <2> QED
      BY <2>3, <2>7
  <1>10. ASSUME NEW i \in 0 .. N, NEW j \in 0 .. N, i < j, list[j] # NULL
         PROVE  list[i] # NULL /\ rank[list[i]] < rank[list[j]]
    <2> DEFINE Off == {k \in 0 .. N : i < k /\ list[k] # NULL
                                      /\ ~(list[i] # NULL /\ rank[list[i]] < rank[list[k]])}
    <2>1. SUFFICES ASSUME Off # {} PROVE FALSE
      BY <1>10
    <2>2. Off \subseteq Nat
      BY <1>1
    <2>3. PICK k \in Off : \A m \in Off : k <= m
      BY <2>1, <2>2, LeastOf
    <2>4. k \in 0 .. N /\ i < k /\ k # 0 /\ list[k] # NULL
      BY <1>1, <2>3
    <2>5. k - 1 \in 0 .. N /\ list[k - 1] # NULL /\ list[k] = h.next[list[k - 1]]
      BY <1>5, <2>4
    <2>6. list[k - 1] \in F /\ list[k] \in F
      BY <1>9, <2>4, <2>5
    <2>7. rank[list[k - 1]] < rank[list[k]] /\ rank[list[k - 1]] \in Nat /\ rank[list[k]] \in Nat
      BY <1>8, <2>4, <2>5, <2>6
    <2>8. CASE i = k - 1
      BY <2>3, <2>5, <2>7, <2>8
    <2>9. CASE i # k - 1
      <3>1. i < k - 1
        BY <1>1, <2>4, <2>9
      <3>2. k - 1 \notin Off
        BY <1>1, <2>3, <2>4
      <3>3. list[i] # NULL /\ rank[list[i]] < rank[list[k - 1]]
        BY <2>5, <3>1, <3>2
      <3>4. list[i] \in F
        BY <1>9, <3>3
      <3>5. rank[list[i]] \in Nat
        BY <1>8, <3>4
      <3>6. rank[list[i]] < rank[list[k]]
        BY <2>7, <3>3, <3>5
      <3> QED
        BY <2>3, <3>3, <3>6
    <2> QED
      BY <2>8, <2>9
  <1>11. ASSUME NEW i \in 0 .. N, NEW j \in 0 .. N, i < j, list[j] # NULL
         PROVE  list[i] # NULL /\ list[i] # list[j]
    <2>1. list[i] # NULL /\ rank[list[i]] < rank[list[j]]
      BY <1>10, <1>11
    <2>2. list[j] \in F
      BY <1>9, <1>11
    <2>3. rank[list[j]] \in Nat
      BY <1>8, <2>2
    <2> QED
      BY <2>1, <2>3
  <1>12. list[N] = NULL
    <2>1. SUFFICES ASSUME list[N] # NULL PROVE FALSE
      OBVIOUS
    <2>2. \A i \in 0 .. N : list[i] # NULL
      BY <1>1, <1>11, <2>1
    <2>3. PICK D : D = 0 .. N
      OBVIOUS
    <2>4. IsFiniteSet(D) /\ Cardinality(D) = N + 1
      BY <1>1, <2>3, FS_Interval
    <2>5. list \in [D -> F]
      BY <1>2, <1>9, <2>2, <2>3
    <2>6. Cardinality(F) < Cardinality(D)
      BY <1>0, <1>1, <2>4
    <2>7. \E x, y \in D : x # y /\ list[x] = list[y]
      BY <2>4, <2>5, <2>6, FS_PigeonHole
    <2>8. PICK x, y \in D : x # y /\ list[x] = list[y]
      BY <2>7
    <2>9. x \in 0 .. N /\ y \in 0 .. N /\ (x < y \/ y < x)
      BY <1>1, <2>3, <2>8
    <2> QED
      BY <1>11, <2>2, <2>8, <2>9
  <1>13. ASSUME NEW c \in F, BucketOf(h, c) = b PROVE \E i \in 0 .. N : list[i] = c
    <2> DEFINE Off == {x \in F : BucketOf(h, x) = b /\ \A i \in 0 .. N : list[i] # x}
               Ranks == {rank[x] : x \in Off}
    <2>1. SUFFICES ASSUME Off # {} PROVE FALSE
      BY <1>13
    <2>2. Ranks \subseteq Nat /\ Ranks # {}
      BY <1>8, <2>1
    <2>3. PICK m \in Ranks : \A k \in Ranks : m <= k
      BY <2>2, LeastOf
    <2>4. PICK x \in Off : m = rank[x]
      BY <2>3
    <2>5. x \in F /\ BucketOf(h, x) = b /\ \A i \in 0 .. N : list[i] # x
      BY <2>4
    <2>6. h.prev[x] # NULL
      <3>1. h.prev[x] = NULL => h.bucket[b] = x
        BY <2>5 DEF Listed
      <3> QED
        BY <1>1, <1>4, <2>5, <3>1
    <2>7. PICK p \in F : p = h.prev[x]
      BY <2>5, <2>6 DEF Listed
    <2>8. h.next[p] = x
      BY <2>5, <2>6, <2>7 DEF Listed
    <2>9. x # NULL
      BY <2>5
    <2>10. BucketOf(h, p) = b /\ rank[p] < rank[x] /\ rank[p] \in Nat /\ rank[x] \in Nat
      BY <1>6, <1>8, <2>5, <2>7, <2>8, <2>9
    <2>11. p \notin Off
      <3>1. p \in Off => rank[x] <= rank[p]
        BY <2>3, <2>4
      <3> QED
        BY <2>10, <3>1
    <2>12. PICK i \in 0 .. N : list[i] = p
      BY <2>7, <2>10, <2>11
    <2>13. i # N /\ p # NULL
      BY <1>12, <2>7, <2>12
    <2>14. i + 1 \in 0 .. N /\ i + 1 # 0 /\ (i + 1) - 1 = i
      BY <1>1, <2>13
    <2>15. list[i + 1] = x
      BY <1>5, <2>8, <2>12, <2>13, <2>14
    <2> QED
      BY <2>5, <2>14, <2>15
  <1> QED
    BY <1>0, <1>1, <1>3, <1>4, <1>9, <1>11, <1>13 DEF Met

LEMMA LeastIn ==
  ASSUME NEW T, T \subseteq Nat, T # {}
  PROVE  Min(T) \in T
  BY LeastOf DEF Min

LEMMA LastIsBucket == BucketCount \in Nat /\ LastBucket \in Int /\ LastBucket \in Bucket
  <1>1. BucketCount \in Nat /\ BucketCount >= 1
    BY LayoutAssumption DEF BucketCount, MinAlloc
  <1> QED
    BY <1>1 DEF LastBucket, Bucket

LEMMA BucketsGrow ==
  ASSUME NEW m \in Nat, m % 8 = 0, m >= MinAlloc, NEW n \in Nat, n % 8 = 0, n >= MinAlloc,
         BucketBySize(n) <= BucketBySize(m), BucketBySize(m) < LastBucket
  PROVE  m >= n
  <1>1. MaxBucketSize \in Nat /\ MaxBucketSize % 8 = 0 /\ MaxBucketSize > 24
    BY LayoutAssumption DEF MinAlloc
  <1>2. BucketCount \in Nat /\ LastBucket = BucketCount - 1
    BY LastIsBucket DEF LastBucket
  <1>3. m < MaxBucketSize
    BY <1>1, <1>2 DEF BucketBySize, MinAlloc
  <1>4. BucketBySize(m) = (m - 24) \div 8
    BY <1>3 DEF BucketBySize, MinAlloc
  <1>5. n < MaxBucketSize
    BY <1>1, <1>2, <1>4 DEF BucketBySize, LastBucket, MinAlloc
  <1>6. BucketBySize(n) = (n - 24) \div 8
    BY <1>5 DEF BucketBySize, MinAlloc
  <1>7. m >= 24 /\ n >= 24
    BY DEF MinAlloc
  <1>8. (n - 24) \div 8 <= (m - 24) \div 8
    BY <1>4, <1>6
  <1> QED
    BY <1>7, <1>8

LEMMA ChunksAreFinite ==
  ASSUME NEW h, HeapInv(h)
  PROVE  IsFiniteSet(DOMAIN h.size)
  <1>1. HiBound \in Int
    BY TotalAtLeast DEF HiBound, SizeField
  <1>2. ASSUME NEW c \in DOMAIN h.size PROVE c \in 0 .. HiBound
    <2>1. c \in Nat /\ c < End(h.size, c) /\ End(h.size, c) \in Nat
      BY NeverBackwards DEF HeapInv, Sizes
    <2>2. End(h.size, c) <= HiBound
      BY DEF HeapInv, Tiled
    <2> QED
      BY <1>1, <2>1, <2>2
  <1>3. IsFiniteSet(0 .. HiBound)
    BY <1>1, FS_Interval
  <1> QED
    BY <1>2, <1>3, FS_Subset

LEMMA FreeAreFinite ==
  ASSUME NEW h, HeapInv(h)
  PROVE  Cardinality(DOMAIN h.next) \in Nat
  <1>1. DOMAIN h.next \subseteq DOMAIN h.size
    BY DEF HeapInv, Loose, Listed
  <1>2. IsFiniteSet(DOMAIN h.next)
    BY <1>1, ChunksAreFinite, FS_Subset
  <1> QED
    BY <1>2, FS_CardinalityType

(* What FindChunk returns is free and big enough. *)
LEMMA FindIs ==
  ASSUME NEW h, HeapInv(h), NEW n, Proper(n), FindChunk(h, n) # NULL
  PROVE  FindChunk(h, n) \in DOMAIN h.size \ h.used /\ h.size[FindChunk(h, n)] >= n
  <1>1. PICK c : c = FindChunk(h, n)
    OBVIOUS
  <1>2. PICK F : F = DOMAIN h.size \ h.used
    OBVIOUS
  <1>3. Listed(h, F)
    <2>1. F = DOMAIN h.size \ (h.used \cup {})
      BY <1>2
    <2> QED
      BY <2>1 DEF HeapInv, Loose
  <1>4. \A x \in F : h.size[x] \in Nat /\ h.size[x] % 8 = 0 /\ h.size[x] >= MinAlloc
    BY <1>2 DEF HeapInv, Sizes
  <1>5. BucketCount \in Nat /\ LastBucket \in Bucket
    BY LastIsBucket
  <1>6. BucketBySize(n) \in Bucket
    BY BucketType DEF Proper
  <1> DEFINE exact == {b \in BucketBySize(n) .. LastBucket - 1 : h.bucket[b] # NULL}
  <1>7. CASE exact # {}
    <2>1. exact \subseteq Nat
      BY <1>5, <1>6 DEF Bucket
    <2>2. PICK b \in exact : c = h.bucket[b]
      BY <1>1, <1>7, <2>1, LeastIn DEF FindChunk
    <2>3. b \in Bucket /\ h.bucket[b] # NULL /\ BucketBySize(n) <= b /\ b < LastBucket
      BY <1>5, <1>6, <2>2 DEF Bucket, LastBucket
    <2>4. c \in F /\ BucketOf(h, c) = b
      BY <1>3, <2>2, <2>3 DEF Listed
    <2>5. h.size[c] >= n
      BY <1>4, <2>3, <2>4, BucketsGrow DEF Proper, BucketOf
    <2> QED
      BY <1>1, <1>2, <2>4, <2>5
  <1>8. CASE exact = {}
    <2>1. c = FirstFit(h, n)
      BY <1>1, <1>8 DEF FindChunk
    <2>2. PICK list : list = List(h, LastBucket)
      OBVIOUS
    <2> DEFINE fits == {i \in DOMAIN list : list[i] # NULL /\ h.size[list[i]] >= n}
    <2>3. c = IF fits = {} THEN NULL ELSE list[Min(fits)]
      BY <2>1, <2>2 DEF FirstFit
    <2>4. \A i \in DOMAIN list : i \in Nat /\ list[i] \in F \cup {NULL}
      BY <1>3, <1>5, <2>2, ListWithin, FreeAreFinite
    <2>5. fits # {} /\ fits \subseteq Nat
      BY <1>1, <2>3, <2>4
    <2>6. Min(fits) \in fits
      BY <2>5, LeastIn
    <2> QED
      BY <1>1, <1>2, <2>3, <2>4, <2>5, <2>6
  <1> QED
    BY <1>7, <1>8

LEMMA MallocKeeps ==
  ASSUME NEW h, HeapInv(h), NEW n, Proper(n), NEW c, c = FindChunk(h, n), c # NULL
  PROVE  LET g == Malloc(h, n) IN
         /\ HeapInv(g) /\ c \in DOMAIN h.size \ h.used
         /\ g.used = h.used \cup {c} /\ g.size[c] >= n
         /\ Keeps(h, g, h.used)
  <1>1. c \in DOMAIN h.size \ h.used /\ h.size[c] >= n
    BY FindIs
  <1>2. PICK a : a = Unlink(h, c)
    OBVIOUS
  <1>3. Loose(a, {} \cup {c}) /\ a.size = h.size /\ a.used = h.used /\ a.data = h.data
    BY <1>1, <1>2, LooseUnlink DEF HeapInv
  <1>4. {} \cup {c} = {c}
    OBVIOUS
  <1>5. Loose(a, {c}) /\ Sizes(a.size) /\ Tiled(a.size)
    BY <1>3, <1>4 DEF HeapInv
  <1>6. Merged(a.size, a.used \cup {c}) /\ End(a.size, c) \notin DOMAIN a.size \ a.used
    BY <1>1, <1>3 DEF HeapInv, Merged
  <1>7. PICK g : g = Carve(a, c, n)
    OBVIOUS
  <1>8. Carved(a, g, c, n)
    <2>1. a.size[c] >= n
      BY <1>1, <1>3
    <2> QED
      BY <1>5, <1>6, <1>7, <2>1, CarveKeeps
  <1>9. Keeps(h, g, h.used)
    BY <1>3, <1>8 DEF Keeps, Carved
  <1>10. g = Malloc(h, n)
    BY <1>2, <1>7 DEF Malloc
  <1> QED
    BY <1>1, <1>3, <1>8, <1>9, <1>10 DEF Carved

LEMMA NextFreeIs ==
  ASSUME NEW h, Sizes(h.size), Tiled(h.size), NEW c
  PROVE  NextFree(h, c) <=> End(h.size, c) \in DOMAIN h.size \ h.used
  <1>1. ASSUME NEW x \in DOMAIN h.size PROVE x < HiBound
    <2>1. x \in Nat /\ x < End(h.size, x) /\ End(h.size, x) \in Nat
      BY NeverBackwards DEF Sizes
    <2>2. End(h.size, x) <= HiBound
      BY DEF Tiled
    <2>3. HiBound \in Int
      BY TotalAtLeast DEF HiBound, SizeField
    <2> QED
      BY <2>1, <2>2, <2>3
  <1> QED
    BY <1>1, EndIs DEF NextFree, IsFree, Chunks

LEMMA PrevFreeIs ==
  ASSUME NEW h, Sizes(h.size), Tiled(h.size), NEW c \in DOMAIN h.size
  PROVE  /\ PrevFree(h, c) =>
              PrevChunk(h, c) \in DOMAIN h.size \ h.used /\ End(h.size, PrevChunk(h, c)) = c
         /\ ~PrevFree(h, c) => \A p \in DOMAIN h.size \ h.used : End(h.size, p) # c
  <1>1. c \in Nat
    BY DEF Sizes
  <1>2. CASE 0 < c
    <2>1. \E p \in DOMAIN h.size : NextChunk(h, p) = c
      BY <1>2, OneBefore, EndIs
    <2>2. PrevChunk(h, c) \in DOMAIN h.size /\ NextChunk(h, PrevChunk(h, c)) = c
      BY <2>1 DEF PrevChunk, Chunks
    <2>3. End(h.size, PrevChunk(h, c)) = c
      BY <2>2, EndIs
    <2>4. \A p \in DOMAIN h.size : End(h.size, p) = c => p = PrevChunk(h, c)
      BY <2>2, <2>3, EndOfTwo
    <2> QED
      BY <1>2, <2>2, <2>3, <2>4 DEF PrevFree, IsFree, Chunks
  <1>3. CASE ~(0 < c)
    <2>1. \A p \in DOMAIN h.size : p < End(h.size, p) /\ p \in Nat
      BY NeverBackwards DEF Sizes
    <2> QED
      BY <1>1, <1>3, <2>1 DEF PrevFree
  <1> QED
    BY <1>2, <1>3

(* Sizes t come from sizes s by making one chunk f of n bytes in place of  *)
(* those of `gone'.                                                        *)
MadeInto(s, t, gone, f, n) ==
    /\ Sizes(t) /\ Tiled(t)
    /\ DOMAIN t = (DOMAIN s \ gone) \cup {f} /\ t[f] = n
    /\ \A x \in DOMAIN s \ (gone \cup {f}) : t[x] = s[x]

(* Heap g, of used chunks u, has all that was in them in h. *)
Settled(h, g, u) == HeapInv(g) /\ g.used = u /\ Keeps(h, g, u)

LEMMA FinishFree ==
  ASSUME NEW h, NEW K, Loose(h, K), NEW gone, NEW c \in Nat, NEW n,
         NEW t, MadeInto(h.size, t, gone, c, n),
         gone \cup {c} \subseteq K \cup h.used, K \subseteq gone \cup {c},
         Merged(t, h.used \ (gone \cup {c}))
  PROVE  Settled(h, Link(SetChunk(h, gone, c, n), c), h.used \ (gone \cup {c}))
  <1>1. PICK a : a = SetChunk(h, gone, c, n)
    OBVIOUS
  <1>2. PICK g : g = Link(a, c)
    OBVIOUS
  <1>3. (gone \cup {c}) \cap (DOMAIN h.size \ (h.used \cup K)) = {}
    OBVIOUS
  <1>4. Loose(a, (K \ gone) \cup {c}) /\ ChunkSet(h, a, gone, c, n)
    BY <1>1, <1>3, LooseChunk
  <1>5. (K \ gone) \cup {c} = {c}
    OBVIOUS
  <1>6. a.size = t
    <2>1. DOMAIN a.size = DOMAIN t
      BY <1>4 DEF ChunkSet, MadeInto
    <2>2. \A x \in DOMAIN t : a.size[x] = t[x]
      BY <1>4 DEF ChunkSet, MadeInto
    <2>3. IsFcn(a.size, DOMAIN t) /\ IsFcn(t, DOMAIN t)
      BY <1>4, <2>1 DEF ChunkSet, IsFcn, Sizes, MadeInto
    <2> QED
      BY <2>2, <2>3, SameFcn
  <1>7. BucketOf(a, c) \in Bucket
    BY <1>6, BucketOk DEF MadeInto
  <1>8. Loose(a, {c})
    BY <1>4, <1>5
  <1>9. /\ Loose(g, {c} \ {c}) /\ g.size = a.size /\ g.used = a.used
        /\ \A x \in DOMAIN a.size \ {c} : g.data[x] = a.data[x]
    BY <1>2, <1>7, <1>8, LooseLink
  <1>10. {c} \ {c} = {}
    OBVIOUS
  <1>11. a.used = h.used \ (gone \cup {c})
    BY <1>4 DEF ChunkSet
  <1>12. HeapInv(g)
    BY <1>6, <1>9, <1>10, <1>11 DEF HeapInv, MadeInto
  <1>13. ASSUME NEW x \in h.used \ (gone \cup {c})
         PROVE  x \in DOMAIN g.size /\ g.size[x] = h.size[x] /\ g.data[x] = h.data[x]
    <2>1. x \in DOMAIN h.size /\ x \in DOMAIN a.size /\ x # c
      BY <1>4 DEF ChunkSet, Loose
    <2>2. a.data[x] = h.data[x] /\ a.size[x] = h.size[x]
      BY <1>4, <2>1 DEF ChunkSet
    <2> QED
      BY <1>9, <2>1, <2>2
  <1>14. Keeps(h, g, h.used \ (gone \cup {c}))
    BY <1>13 DEF Keeps
  <1> QED
    BY <1>1, <1>2, <1>9, <1>11, <1>12, <1>14 DEF Settled

(* Loose, and with the sizes, users and data of h *)
Taken(h, a, K) ==
    Loose(a, K) /\ a.size = h.size /\ a.used = h.used /\ a.data = h.data

LEMMA TakeOut ==
  ASSUME NEW h, NEW a, NEW K, Taken(h, a, K), NEW c \in DOMAIN h.size \ (h.used \cup K)
  PROVE  Taken(h, Unlink(a, c), K \cup {c})
  <1>1. c \in DOMAIN a.size \ (a.used \cup K) /\ Loose(a, K)
    BY DEF Taken
  <1>2. /\ Loose(Unlink(a, c), K \cup {c})
        /\ Unlink(a, c).size = a.size /\ Unlink(a, c).used = a.used
        /\ Unlink(a, c).data = a.data
    BY <1>1, LooseUnlink
  <1> QED
    BY <1>2 DEF Taken

LEMMA CountIn ==
  ASSUME NEW h, NEW a, NEW K, Taken(h, a, K), NEW x, NEW y
  PROVE  Taken(h, Account(a, x, y), K)
  <1>1. /\ Loose(Account(a, x, y), K)
        /\ Account(a, x, y).size = a.size /\ Account(a, x, y).used = a.used
        /\ Account(a, x, y).data = a.data
    BY LooseAccount DEF Taken
  <1> QED
    BY <1>1 DEF Taken

(* Like FinishFree, for what Free has taken out *)
LEMMA FreeEnds ==
  ASSUME NEW h, HeapInv(h), NEW a, NEW K, Taken(h, a, K), NEW c \in h.used,
         NEW gone, c \in gone, NEW f \in Nat, gone \cup {f} = K \cup {c}, NEW n,
         NEW t, MadeInto(h.size, t, gone, f, n), Merged(t, h.used \ {c})
  PROVE  Settled(h, Link(SetChunk(a, gone, f, n), f), h.used \ {c})
  <1>1. PICK g : g = Link(SetChunk(a, gone, f, n), f)
    OBVIOUS
  <1>2. Loose(a, K) /\ a.size = h.size /\ a.used = h.used /\ a.data = h.data
    BY DEF Taken
  <1>3. K \subseteq DOMAIN h.size \ h.used
    BY <1>2 DEF Loose
  <1>4. a.used \ (gone \cup {f}) = h.used \ {c}
    BY <1>2, <1>3
  <1>5. MadeInto(a.size, t, gone, f, n) /\ Merged(t, a.used \ (gone \cup {f}))
    BY <1>2, <1>4
  <1>6. gone \cup {f} \subseteq K \cup a.used /\ K \subseteq gone \cup {f}
    BY <1>2
  <1>7. Settled(a, g, a.used \ (gone \cup {f}))
    BY <1>1, <1>2, <1>5, <1>6, FinishFree
  <1>8. Settled(h, g, h.used \ {c})
    BY <1>2, <1>4, <1>7 DEF Settled, Keeps
  <1> QED
    BY <1>1, <1>8

LEMMA FreeKeeps ==
  ASSUME NEW h, HeapInv(h), NEW c \in h.used
  PROVE  Settled(h, Free(h, c), h.used \ {c})
  <1>1. PICK s : s = h.size
    OBVIOUS
  <1>2. PICK u : u = h.used \ {c}
    OBVIOUS
  <1>3. PICK n : n = NextChunk(h, c)
    OBVIOUS
  <1>4. PICK p : p = PrevChunk(h, c)
    OBVIOUS
  <1>5. /\ Sizes(s) /\ Tiled(s) /\ c \in DOMAIN s /\ h.used \subseteq DOMAIN s
        /\ c \in Nat /\ s[c] \in Nat /\ c \notin u
        /\ Sizes(h.size) /\ Tiled(h.size)
    BY <1>1, <1>2 DEF HeapInv, Loose, Sizes
  <1>6. Merged(s, u \cup {c})
    <2>1. u \cup {c} = h.used
      BY <1>2
    <2> QED
      BY <1>1, <2>1 DEF HeapInv
  <1>7. n = End(s, c) /\ n # c
    BY <1>1, <1>3, <1>5, EndIs, NeverBackwards
  <1>8. NextFree(h, c) <=> n \in DOMAIN s \ u
    <2>1. NextFree(h, c) <=> n \in DOMAIN s \ h.used
      BY <1>1, <1>5, <1>7, NextFreeIs
    <2> QED
      BY <1>2, <1>7, <2>1
  <1>9. PrevFree(h, c) => p \in DOMAIN s \ u /\ p # c /\ End(s, p) = c /\ p \in DOMAIN s \ h.used
    <2>1. PrevFree(h, c) => p \in DOMAIN s \ h.used /\ End(s, p) = c
      BY <1>1, <1>4, <1>5, PrevFreeIs
    <2> QED
      BY <1>2, <2>1
  <1>10. ~PrevFree(h, c) => \A q \in DOMAIN s \ u : End(s, q) # c
    <2>1. ~PrevFree(h, c) => \A q \in DOMAIN s \ h.used : End(s, q) # c
      BY <1>1, <1>5, PrevFreeIs
    <2>2. End(s, c) # c
      BY <1>7
    <2> QED
      BY <1>2, <2>1, <2>2
  <1>11. Taken(h, h, {})
    BY DEF Taken, HeapInv
  <1>12. \A x \in DOMAIN s : x \in Nat /\ s[x] \in Nat
    BY <1>5 DEF Sizes
  <1>13. CASE ~PrevFree(h, c) /\ ~NextFree(h, c)
    <2>1. PICK x, y : Free(h, c) = Link(SetChunk(Account(h, x, y), {c}, c, s[c]), c)
      <3>1. PICK y : Free(h, c) =
              Link(SetChunk(Account(h, -h.size[c], y), {c} \cup {}, c, h.size[c] + (0 + 0) + 0 + 0), c)
        BY <1>13 DEF Free
      <3>2. h.size[c] + (0 + 0) + 0 + 0 = s[c] /\ {c} \cup {} = {c}
        BY <1>1, <1>5
      <3> QED
        BY <3>1, <3>2
    <2>2. PICK a : a = Account(h, x, y)
      OBVIOUS
    <2>3. Taken(h, a, {})
      BY <1>11, <2>2, CountIn
    <2>4. Merged(s, u)
      BY <1>5, <1>6, <1>7, <1>8, <1>10, <1>13, AllMerged
    <2>5. MadeInto(h.size, s, {c}, c, s[c])
      BY <1>1, <1>5 DEF MadeInto
    <2>6. c \in {c} /\ {c} \cup {c} = {} \cup {c} /\ Merged(s, h.used \ {c})
      BY <1>2, <2>4
    <2>7. Settled(h, Link(SetChunk(a, {c}, c, s[c]), c), h.used \ {c})
      BY <1>5, <2>3, <2>5, <2>6, FreeEnds
    <2> QED
      BY <2>1, <2>2, <2>7
  <1>14. CASE ~PrevFree(h, c) /\ NextFree(h, c)
    <2>1. n \in DOMAIN s /\ n \in DOMAIN s \ h.used
      BY <1>2, <1>7, <1>8, <1>14
    <2>2. PICK t : t = Join(s, c)
      OBVIOUS
    <2>3. Sizes(t) /\ Tiled(t) /\ Joined(s, t, c, n)
      BY <1>5, <1>7, <2>1, <2>2, JoinKeeps
    <2>4. PICK x, y : Free(h, c) = Link(SetChunk(Account(Unlink(h, n), x, y), {c, n}, c, t[c]), c)
      <3>1. PICK y : Free(h, c) =
              Link(SetChunk(Account(Unlink(h, n), -h.size[c], y), {c} \cup {n}, c,
                            h.size[c] + (0 + 2 * SizeField) + 0 + h.size[n]), c)
        BY <1>3, <1>14 DEF Free
      <3>2. h.size[c] + (0 + 2 * SizeField) + 0 + h.size[n] = t[c]
        BY <1>1, <1>5, <1>12, <2>1, <2>3 DEF Joined, SizeField
      <3>3. {c} \cup {n} = {c, n}
        OBVIOUS
      <3> QED
        BY <3>1, <3>2, <3>3
    <2>5. PICK a : a = Account(Unlink(h, n), x, y)
      OBVIOUS
    <2>6. Taken(h, a, {} \cup {n})
      BY <1>1, <1>11, <2>1, <2>5, TakeOut, CountIn
    <2>7. /\ Merged(t, u \cup {c}) /\ End(t, c) \notin DOMAIN t \ u
          /\ \A q \in DOMAIN t \ u : End(t, q) # c
      BY <1>5, <1>6, <1>7, <1>8, <1>10, <1>14, <2>2, JoinNext
    <2>8. Merged(t, u)
      BY <1>5, <1>7, <2>3, <2>7, AllMerged DEF Joined
    <2>9. MadeInto(h.size, t, {c, n}, c, t[c])
      BY <1>1, <1>5, <2>3 DEF MadeInto, Joined
    <2>10. c \in {c, n} /\ {c, n} \cup {c} = ({} \cup {n}) \cup {c} /\ Merged(t, h.used \ {c})
      BY <1>2, <2>8
    <2>11. Settled(h, Link(SetChunk(a, {c, n}, c, t[c]), c), h.used \ {c})
      BY <1>5, <2>6, <2>9, <2>10, FreeEnds
    <2> QED
      BY <2>4, <2>5, <2>11
  <1>15. CASE PrevFree(h, c) /\ ~NextFree(h, c)
    <2>1. p \in DOMAIN s \ u /\ p \in DOMAIN s /\ p # c /\ End(s, p) = c /\ p \in DOMAIN s \ h.used
      BY <1>9, <1>15
    <2>2. PICK t : t = Join(s, p)
      OBVIOUS
    <2>3. Sizes(t) /\ Tiled(t) /\ Joined(s, t, p, c)
      BY <1>5, <2>1, <2>2, JoinKeeps
    <2>4. PICK x, y : Free(h, c) = Link(SetChunk(Account(Unlink(h, p), x, y), {c}, p, t[p]), p)
      <3>1. PICK y : Free(h, c) =
              Link(SetChunk(Account(Unlink(h, p), -h.size[c], y), {c} \cup {}, p,
                            h.size[c] + (2 * SizeField + 0) + h.size[p] + 0), p)
        BY <1>4, <1>15 DEF Free
      <3>2. h.size[c] + (2 * SizeField + 0) + h.size[p] + 0 = t[p]
        BY <1>1, <1>5, <1>12, <2>1, <2>3 DEF Joined, SizeField
      <3>3. {c} \cup {} = {c}
        OBVIOUS
      <3> QED
        BY <3>1, <3>2, <3>3
    <2>5. PICK a : a = Account(Unlink(h, p), x, y)
      OBVIOUS
    <2>6. Taken(h, a, {} \cup {p})
      BY <1>1, <1>11, <2>1, <2>5, TakeOut, CountIn
    <2>7. /\ Merged(t, u \cup {p}) /\ End(t, p) = End(s, c)
          /\ \A q \in DOMAIN t \ u : End(t, q) # p
      BY <1>5, <1>6, <2>1, <2>2, JoinPrev
    <2>8. Merged(t, u)
      <3>1. End(t, p) \notin DOMAIN t \ u
        BY <1>7, <1>8, <1>15, <2>3, <2>7 DEF Joined
      <3>2. p \in DOMAIN t /\ p \notin u
        BY <2>1, <2>3 DEF Joined
      <3> QED
        BY <2>7, <3>1, <3>2, AllMerged
    <2>9. MadeInto(h.size, t, {c}, p, t[p])
      BY <1>1, <2>1, <2>3 DEF MadeInto, Joined
    <2>10. c \in {c} /\ {c} \cup {p} = ({} \cup {p}) \cup {c} /\ Merged(t, h.used \ {c})
      BY <1>2, <2>8
    <2>11. p \in Nat
      BY <1>12, <2>1
    <2>12. Settled(h, Link(SetChunk(a, {c}, p, t[p]), p), h.used \ {c})
      BY <2>6, <2>9, <2>10, <2>11, FreeEnds
    <2> QED
      BY <2>4, <2>5, <2>12
  <1>16. CASE PrevFree(h, c) /\ NextFree(h, c)
    <2>1. p \in DOMAIN s \ u /\ p \in DOMAIN s /\ p # c /\ End(s, p) = c /\ p \in DOMAIN s \ h.used
      BY <1>9, <1>16
    <2>2. n \in DOMAIN s /\ n \in DOMAIN s \ h.used /\ n \in DOMAIN s \ u
      BY <1>2, <1>7, <1>8, <1>16
    <2>3. p # n
      BY <1>5, <1>7, <2>1, NeverBackwards DEF Sizes
    <2>4. PICK r : r = Join(s, c)
      OBVIOUS
    <2>5. Sizes(r) /\ Tiled(r) /\ Joined(s, r, c, n)
      BY <1>5, <1>7, <2>2, <2>4, JoinKeeps
    <2>6. p \in DOMAIN r /\ p \in DOMAIN r \ u /\ c \in DOMAIN r /\ End(r, p) = c /\ r[p] = s[p]
      BY <1>5, <2>1, <2>3, <2>5 DEF Joined
    <2>7. PICK t : t = Join(r, p)
      OBVIOUS
    <2>8. Sizes(t) /\ Tiled(t) /\ Joined(r, t, p, c)
      BY <2>5, <2>6, <2>7, JoinKeeps
    <2>9. PICK x, y : Free(h, c) =
            Link(SetChunk(Account(Unlink(Unlink(h, p), n), x, y), {c, n}, p, t[p]), p)
      <3>1. PICK y : Free(h, c) =
              Link(SetChunk(Account(Unlink(Unlink(h, p), n), -h.size[c], y), {c} \cup {n}, p,
                            h.size[c] + (2 * SizeField + 2 * SizeField) + h.size[p] + h.size[n]), p)
        BY <1>3, <1>4, <1>16 DEF Free
      <3>2. h.size[c] + (2 * SizeField + 2 * SizeField) + h.size[p] + h.size[n] = t[p]
        BY <1>1, <1>5, <1>12, <2>1, <2>2, <2>5, <2>6, <2>8 DEF Joined, SizeField
      <3>3. {c} \cup {n} = {c, n}
        OBVIOUS
      <3> QED
        BY <3>1, <3>2, <3>3
    <2>10. PICK a : a = Account(Unlink(Unlink(h, p), n), x, y)
      OBVIOUS
    <2>11. Taken(h, a, ({} \cup {p}) \cup {n})
      <3>1. PICK b : b = Unlink(h, p)
        OBVIOUS
      <3>2. Taken(h, b, {} \cup {p})
        BY <1>1, <1>11, <2>1, <3>1, TakeOut
      <3>3. n \in DOMAIN h.size \ (h.used \cup ({} \cup {p}))
        BY <1>1, <2>2, <2>3
      <3>4. Taken(h, Unlink(b, n), ({} \cup {p}) \cup {n})
        BY <3>2, <3>3, TakeOut
      <3> QED
        BY <2>10, <3>1, <3>4, CountIn
    <2>12. Merged(r, u \cup {c}) /\ End(r, c) \notin DOMAIN r \ u
      BY <1>5, <1>6, <1>7, <2>2, <2>4, JoinNext
    <2>13. /\ Merged(t, u \cup {p}) /\ End(t, p) = End(r, c)
           /\ \A q \in DOMAIN t \ u : End(t, q) # p
      BY <1>5, <2>5, <2>6, <2>7, <2>12, JoinPrev
    <2>14. Merged(t, u)
      <3>1. End(t, p) \notin DOMAIN t \ u
        BY <2>8, <2>12, <2>13 DEF Joined
      <3>2. p \in DOMAIN t /\ p \notin u
        BY <2>6, <2>8 DEF Joined
      <3> QED
        BY <2>13, <3>1, <3>2, AllMerged
    <2>15. MadeInto(h.size, t, {c, n}, p, t[p])
      <3>1. DOMAIN t = (DOMAIN s \ {c, n}) \cup {p}
        BY <2>1, <2>3, <2>5, <2>8 DEF Joined
      <3>2. \A z \in DOMAIN s \ ({c, n} \cup {p}) : t[z] = s[z]
        BY <2>5, <2>8 DEF Joined
      <3> QED
        BY <1>1, <2>8, <3>1, <3>2 DEF MadeInto
    <2>16. /\ c \in {c, n} /\ {c, n} \cup {p} = (({} \cup {p}) \cup {n}) \cup {c}
           /\ Merged(t, h.used \ {c})
      BY <1>2, <2>14
    <2>17. p \in Nat
      BY <1>12, <2>1
    <2>18. Settled(h, Link(SetChunk(a, {c, n}, p, t[p]), p), h.used \ {c})
      BY <2>11, <2>15, <2>16, <2>17, FreeEnds
    <2> QED
      BY <2>9, <2>10, <2>18
  <1> QED
    BY <1>13, <1>14, <1>15, <1>16

(* Block c has another size in g, and all blocks still hold their data. *)
Resized(h, g, c, n) ==
    /\ HeapInv(g) /\ g.used = h.used
    /\ Keeps(h, g, h.used \ {c})
    /\ g.data[c] = h.data[c] /\ g.size[c] >= n

LEMMA GrowKeeps ==
  ASSUME NEW h, HeapInv(h), NEW c \in h.used, NEW m, Proper(m),
         NextFree(h, c), GrownSize(h, c) >= m
  PROVE  Resized(h, Grow(h, c, m), c, m)
  <1>1. PICK s : s = h.size
    OBVIOUS
  <1>2. PICK u : u = h.used \ {c}
    OBVIOUS
  <1>3. PICK n : n = NextChunk(h, c)
    OBVIOUS
  <1>4. /\ Sizes(s) /\ Tiled(s) /\ c \in DOMAIN s /\ h.used \subseteq DOMAIN s
        /\ c \in Nat /\ c \notin u /\ u \cup {c} = h.used
        /\ Sizes(h.size) /\ Tiled(h.size)
    BY <1>1, <1>2 DEF HeapInv, Loose, Sizes
  <1>5. Merged(s, u \cup {c})
    BY <1>1, <1>4 DEF HeapInv
  <1>6. n = End(s, c) /\ n # c
    BY <1>1, <1>3, <1>4, EndIs, NeverBackwards
  <1>7. n \in DOMAIN s \ h.used /\ n \in DOMAIN s /\ n \in DOMAIN s \ u
    BY <1>1, <1>4, <1>6, NextFreeIs
  <1>8. PICK t : t = Join(s, c)
    OBVIOUS
  <1>9. Sizes(t) /\ Tiled(t) /\ Joined(s, t, c, n)
    BY <1>4, <1>6, <1>7, <1>8, JoinKeeps
  <1>10. GrownSize(h, c) = t[c]
    BY <1>1, <1>3, <1>9 DEF Joined, GrownSize
  <1>11. PICK a : a = Unlink(h, n)
    OBVIOUS
  <1>12. Taken(h, a, {} \cup {n})
    <2>1. Taken(h, h, {})
      BY DEF Taken, HeapInv
    <2>2. n \in DOMAIN h.size \ (h.used \cup {})
      BY <1>1, <1>7
    <2> QED
      BY <1>11, <2>1, <2>2, TakeOut
  <1>13. PICK b : b = SetChunk(a, {n}, c, t[c])
    OBVIOUS
  <1>14. Loose(b, {c}) /\ ChunkSet(a, b, {n}, c, t[c])
    <2>1. Loose(a, {} \cup {n}) /\ a.size = s /\ a.used = h.used
      BY <1>1, <1>12 DEF Taken
    <2>2. ({n} \cup {c}) \cap (DOMAIN a.size \ (a.used \cup ({} \cup {n}))) = {}
      BY <2>1
    <2>3. Loose(b, (({} \cup {n}) \ {n}) \cup {c}) /\ ChunkSet(a, b, {n}, c, t[c])
      BY <1>4, <1>13, <2>1, <2>2, LooseChunk
    <2>4. (({} \cup {n}) \ {n}) \cup {c} = {c}
      OBVIOUS
    <2> QED
      BY <2>3, <2>4
  <1>15. b.size = t
    <2>1. DOMAIN b.size = DOMAIN t
      BY <1>1, <1>4, <1>6, <1>9, <1>12, <1>14 DEF ChunkSet, Taken, Joined
    <2>2. \A x \in DOMAIN t : b.size[x] = t[x]
      BY <1>1, <1>9, <1>12, <1>14 DEF ChunkSet, Taken, Joined
    <2>3. IsFcn(b.size, DOMAIN t) /\ IsFcn(t, DOMAIN t)
      BY <1>9, <1>14, <2>1 DEF ChunkSet, IsFcn, Sizes
    <2> QED
      BY <2>2, <2>3, SameFcn
  <1>16. b.used = u
    BY <1>2, <1>7, <1>12, <1>14 DEF ChunkSet, Taken
  <1>17. \A x \in h.used : b.data[x] = h.data[x] /\ x \in DOMAIN b.size
    BY <1>1, <1>4, <1>7, <1>12, <1>14 DEF ChunkSet, Taken
  <1>18. \A x \in u : b.size[x] = h.size[x]
    BY <1>1, <1>2, <1>4, <1>7, <1>9, <1>15 DEF Joined
  <1>19. PICK x, y : Grow(h, c, m) = Carve(Account(b, x, y), c, m)
    BY <1>3, <1>10, <1>11, <1>13 DEF Grow
  <1>20. PICK e : e = Account(b, x, y)
    OBVIOUS
  <1>21. Loose(e, {c}) /\ e.size = t /\ e.used = u /\ e.data = b.data
    BY <1>14, <1>15, <1>16, <1>20, LooseAccount
  <1>22. Merged(t, u \cup {c}) /\ End(t, c) \notin DOMAIN t \ u
    BY <1>4, <1>5, <1>6, <1>7, <1>8, JoinNext
  <1>23. PICK g : g = Carve(e, c, m)
    OBVIOUS
  <1>24. Carved(e, g, c, m)
    <2>1. Sizes(e.size) /\ Tiled(e.size) /\ e.size[c] >= m
      BY <1>9, <1>10, <1>21
    <2>2. Merged(e.size, e.used \cup {c}) /\ End(e.size, c) \notin DOMAIN e.size \ e.used
      BY <1>21, <1>22
    <2> QED
      BY <1>21, <1>23, <2>1, <2>2, CarveKeeps
  <1>25. Keeps(h, g, u)
    BY <1>2, <1>15, <1>17, <1>18, <1>21, <1>24 DEF Keeps, Carved
  <1>26. g.used = h.used /\ g.data[c] = h.data[c]
    BY <1>4, <1>17, <1>21, <1>24 DEF Carved
  <1>27. Resized(h, g, c, m)
    BY <1>2, <1>24, <1>25, <1>26 DEF Resized, Carved
  <1> QED
    BY <1>19, <1>20, <1>23, <1>27

(* The rest r has been made a chunk of; block c gets its new size n. *)
LEMMA ShrinkEnds ==
  ASSUME NEW h, HeapInv(h), NEW c \in h.used, NEW b, NEW r, Loose(b, {r}), r # c,
         b.used = h.used, Keeps(h, b, h.used), BucketOf(b, r) \in Bucket,
         NEW n, Proper(n), NEW t, MadeInto(b.size, t, {}, c, n), Merged(t, h.used),
         NEW x, NEW y
  PROVE  Resized(h, Account(SetUsed(SetChunk(Link(b, r), {}, c, n), c), x, y), c, n)
  <1>1. PICK d : d = Link(b, r)
    OBVIOUS
  <1>2. /\ Loose(d, {}) /\ d.size = b.size /\ d.used = h.used
        /\ \A z \in DOMAIN b.size \ {r} : d.data[z] = b.data[z]
    <2>1. Loose(d, {r} \ {r}) /\ {r} \ {r} = {}
      BY <1>1, LooseLink
    <2> QED
      BY <1>1, <2>1, LooseLink
  <1>3. c \in Nat /\ c \in DOMAIN b.size /\ r \notin h.used
    BY DEF Loose, HeapInv, Sizes, Keeps
  <1>4. PICK e : e = SetChunk(d, {}, c, n)
    OBVIOUS
  <1>5. Loose(e, {c}) /\ ChunkSet(d, e, {}, c, n)
    <2>1. ({} \cup {c}) \cap (DOMAIN d.size \ (d.used \cup {})) = {}
      BY <1>2
    <2>2. Loose(e, ({} \ {}) \cup {c}) /\ ChunkSet(d, e, {}, c, n)
      BY <1>2, <1>3, <1>4, <2>1, LooseChunk
    <2>3. ({} \ {}) \cup {c} = {c}
      OBVIOUS
    <2> QED
      BY <2>2, <2>3
  <1>6. e.size = t
    <2>1. DOMAIN e.size = DOMAIN t
      BY <1>2, <1>5 DEF ChunkSet, MadeInto
    <2>2. \A z \in DOMAIN t : e.size[z] = t[z]
      BY <1>2, <1>5 DEF ChunkSet, MadeInto
    <2>3. IsFcn(e.size, DOMAIN t) /\ IsFcn(t, DOMAIN t)
      BY <1>5, <2>1 DEF ChunkSet, IsFcn, Sizes, MadeInto
    <2> QED
      BY <2>2, <2>3, SameFcn
  <1>7. e.used = h.used \ {c}
    BY <1>2, <1>5 DEF ChunkSet
  <1>8. PICK f : f = SetUsed(e, c)
    OBVIOUS
  <1>9. Loose(f, {}) /\ f.size = t /\ f.used = h.used /\ f.data = e.data
    <2>1. Loose(f, {c} \ {c}) /\ {c} \ {c} = {}
      BY <1>5, <1>8, LooseUsed
    <2>2. f.size = e.size /\ f.used = e.used \cup {c} /\ f.data = e.data
      BY <1>5, <1>8, LooseUsed
    <2> QED
      BY <1>6, <1>7, <2>1, <2>2
  <1>10. PICK g : g = Account(f, x, y)
    OBVIOUS
  <1>11. Loose(g, {}) /\ g.size = t /\ g.used = h.used /\ g.data = e.data
    BY <1>9, <1>10, LooseAccount
  <1>12. HeapInv(g)
    BY <1>11 DEF HeapInv, MadeInto
  <1>13. \A z \in h.used : z \in DOMAIN b.size /\ z \in DOMAIN t /\ e.data[z] = h.data[z]
    BY <1>2, <1>3, <1>5, <1>6 DEF ChunkSet, Keeps
  <1>14. \A z \in h.used \ {c} : t[z] = h.size[z]
    BY DEF MadeInto, Keeps
  <1>15. Keeps(h, g, h.used \ {c}) /\ g.data[c] = h.data[c]
    BY <1>11, <1>13, <1>14 DEF Keeps
  <1>16. g.size[c] >= n
    BY <1>11 DEF MadeInto, Proper
  <1>17. Resized(h, g, c, n)
    BY <1>11, <1>12, <1>15, <1>16 DEF Resized
  <1> QED
    BY <1>1, <1>4, <1>8, <1>10, <1>17

LEMMA ShrinkKeeps ==
  ASSUME NEW h, HeapInv(h), NEW c \in h.used, NEW m, Proper(m), m <= h.size[c] \div 4
  PROVE  Resized(h, Shrink(h, c, m), c, m)
  <1>1. PICK s : s = h.size
    OBVIOUS
  <1>2. PICK u : u = h.used \ {c}
    OBVIOUS
  <1>3. PICK n : n = NextChunk(h, c)
    OBVIOUS
  <1>4. PICK r : r = Rest(c, m)
    OBVIOUS
  <1>5. /\ Sizes(s) /\ Tiled(s) /\ c \in DOMAIN s /\ h.used \subseteq DOMAIN s
        /\ c \in Nat /\ c \notin u /\ u \cup {c} = h.used /\ u \subseteq DOMAIN s
        /\ Sizes(h.size) /\ Tiled(h.size) /\ s[c] \in Nat
    BY <1>1, <1>2 DEF HeapInv, Loose, Sizes
  <1>6. Merged(s, u \cup {c})
    BY <1>1, <1>5 DEF HeapInv
  <1>7. n = End(s, c) /\ n # c
    BY <1>1, <1>3, <1>5, EndIs, NeverBackwards
  <1>8. NextFree(h, c) <=> n \in DOMAIN s \ h.used
    BY <1>1, <1>5, <1>7, NextFreeIs
  <1>9. m \in Nat /\ m % 8 = 0 /\ m >= MinAlloc /\ s[c] >= m + 2 * SizeField + MinAlloc
    <2>1. m \in Nat /\ m % 8 = 0 /\ m >= 24 /\ m <= s[c] \div 4
      BY <1>1 DEF Proper, MinAlloc
    <2>2. s[c] >= 4 * m
      BY <1>5, <2>1
    <2> QED
      BY <1>5, <2>1, <2>2 DEF MinAlloc, SizeField
  <1>10. CASE ~NextFree(h, c)
    <2>1. PICK t : t = Cut(s, c, m)
      OBVIOUS
    <2>2. Sizes(t) /\ Tiled(t) /\ WasCut(s, t, c, m)
      BY <1>5, <1>9, <2>1, CutKeeps
    <2>3. PICK b : b = SetChunk(h, {}, r, t[r])
      OBVIOUS
    <2>4. r \in Nat /\ r # c /\ r \notin DOMAIN s
      BY <1>4, <2>2 DEF WasCut
    <2>5. Loose(b, {r}) /\ ChunkSet(h, b, {}, r, t[r])
      <3>1. ({} \cup {r}) \cap (DOMAIN h.size \ (h.used \cup {})) = {}
        BY <1>1, <2>4
      <3>2. Loose(h, {})
        BY DEF HeapInv
      <3>3. Loose(b, ({} \ {}) \cup {r}) /\ ChunkSet(h, b, {}, r, t[r])
        BY <2>3, <2>4, <3>1, <3>2, LooseChunk
      <3>4. ({} \ {}) \cup {r} = {r}
        OBVIOUS
      <3> QED
        BY <3>3, <3>4
    <2>6. b.used = h.used
      BY <1>5, <2>4, <2>5 DEF ChunkSet
    <2>7. Keeps(h, b, h.used)
      BY <1>1, <1>5, <2>4, <2>5 DEF ChunkSet, Keeps
    <2>8. BucketOf(b, r) \in Bucket
      <3>1. r \in DOMAIN t /\ b.size[r] = t[r]
        BY <1>4, <2>2, <2>5 DEF WasCut, ChunkSet
      <3> QED
        BY <2>2, <3>1, BucketType DEF Sizes, BucketOf
    <2>9. MadeInto(b.size, t, {}, c, m)
      <3>1. DOMAIN b.size = DOMAIN s \cup {r} /\ DOMAIN t = DOMAIN s \cup {r}
        BY <1>1, <1>4, <2>2, <2>5 DEF WasCut, ChunkSet
      <3>2. \A z \in DOMAIN b.size \ {c} : t[z] = b.size[z]
        BY <1>1, <1>4, <2>2, <2>5, <3>1 DEF WasCut, ChunkSet
      <3> QED
        BY <1>5, <2>2, <3>1, <3>2 DEF MadeInto, WasCut
    <2>10. Merged(t, h.used)
      <3>1. End(s, c) \notin DOMAIN s \ u
        BY <1>5, <1>7, <1>8, <1>10
      <3>2. Merged(t, u \cup {c})
        BY <1>5, <1>6, <1>9, <2>1, <3>1, CutMerged
      <3> QED
        BY <1>5, <3>2
    <2>11. PICK x, y : Shrink(h, c, m)
                         = Account(SetUsed(SetChunk(Link(b, r), {}, c, m), c), x, y)
      <3>1. PICK x, y : Shrink(h, c, m)
              = Account(SetUsed(SetChunk(Link(SetChunk(h, {}, r, h.size[c] - m - 2 * SizeField), r),
                                         {}, c, m), c), x, y)
        BY <1>4, <1>10 DEF Shrink, Rest
      <3>2. t[r] = h.size[c] - m - 2 * SizeField
        BY <1>1, <1>4, <2>2 DEF WasCut
      <3> QED
        BY <2>3, <3>1, <3>2
    <2>12. Resized(h, Account(SetUsed(SetChunk(Link(b, r), {}, c, m), c), x, y), c, m)
      BY <2>4, <2>5, <2>6, <2>7, <2>8, <2>9, <2>10, ShrinkEnds
    <2> QED
      BY <2>11, <2>12
  <1>11. CASE NextFree(h, c)
    <2>1. n \in DOMAIN s \ h.used /\ n \in DOMAIN s /\ n \in DOMAIN s \ u
      BY <1>5, <1>8, <1>11
    <2>2. PICK j : j = Join(s, c)
      OBVIOUS
    <2>3. Sizes(j) /\ Tiled(j) /\ Joined(s, j, c, n)
      BY <1>5, <1>7, <2>1, <2>2, JoinKeeps
    <2>4. s[n] \in Nat /\ n \in Nat
      BY <1>5, <2>1 DEF Sizes
    <2>5. c \in DOMAIN j /\ j[c] = s[c] + 2 * SizeField + s[n] /\ j[c] >= m + 2 * SizeField + MinAlloc
      BY <1>5, <1>7, <1>9, <2>3, <2>4 DEF Joined, SizeField, MinAlloc
    <2>6. PICK t : t = Cut(j, c, m)
      OBVIOUS
    <2>7. Sizes(t) /\ Tiled(t) /\ WasCut(j, t, c, m)
      BY <1>9, <2>3, <2>5, <2>6, CutKeeps
    <2>8. r < n /\ r \in Nat /\ r # c
      BY <1>4, <1>5, <1>7, <1>9, <2>7 DEF Rest, End, WasCut, SizeField, MinAlloc
    <2>9. r \notin DOMAIN s
      BY <1>4, <2>3, <2>4, <2>7, <2>8 DEF WasCut, Joined
    <2>10. PICK a : a = Unlink(h, n)
      OBVIOUS
    <2>11. Loose(a, {n}) /\ a.size = s /\ a.used = h.used /\ a.data = h.data
      <3>1. Taken(h, h, {})
        BY DEF Taken, HeapInv
      <3>2. n \in DOMAIN h.size \ (h.used \cup {})
        BY <1>1, <2>1
      <3>3. Taken(h, a, {} \cup {n}) /\ {} \cup {n} = {n}
        BY <2>10, <3>1, <3>2, TakeOut
      <3> QED
        BY <1>1, <3>3 DEF Taken
    <2>12. PICK b : b = SetChunk(a, {n}, r, t[r])
      OBVIOUS
    <2>13. Loose(b, {r}) /\ ChunkSet(a, b, {n}, r, t[r])
      <3>1. ({n} \cup {r}) \cap (DOMAIN a.size \ (a.used \cup {n})) = {}
        BY <2>9, <2>11
      <3>2. Loose(b, ({n} \ {n}) \cup {r}) /\ ChunkSet(a, b, {n}, r, t[r])
        BY <2>8, <2>11, <2>12, <3>1, LooseChunk
      <3>3. ({n} \ {n}) \cup {r} = {r}
        OBVIOUS
      <3> QED
        BY <3>2, <3>3
    <2>14. b.used = h.used
      BY <1>5, <2>1, <2>9, <2>11, <2>13 DEF ChunkSet
    <2>15. Keeps(h, b, h.used)
      BY <1>1, <1>5, <2>1, <2>9, <2>11, <2>13 DEF ChunkSet, Keeps
    <2>16. BucketOf(b, r) \in Bucket
      <3>1. r \in DOMAIN t /\ b.size[r] = t[r]
        BY <1>4, <2>7, <2>13 DEF WasCut, ChunkSet
      <3> QED
        BY <2>7, <3>1, BucketType DEF Sizes, BucketOf
    <2>17. MadeInto(b.size, t, {}, c, m)
      <3>1. DOMAIN b.size = (DOMAIN s \ {n}) \cup {r} /\ DOMAIN t = (DOMAIN s \ {n}) \cup {r}
        BY <1>4, <2>3, <2>7, <2>11, <2>13 DEF WasCut, ChunkSet, Joined
      <3>2. \A z \in DOMAIN s \ {n, c} : t[z] = s[z] /\ b.size[z] = s[z]
        BY <2>3, <2>7, <2>9, <2>11, <2>13 DEF WasCut, ChunkSet, Joined
      <3>3. t[r] = b.size[r]
        BY <2>13 DEF ChunkSet
      <3> QED
        BY <1>5, <1>7, <2>7, <3>1, <3>2, <3>3 DEF MadeInto, WasCut
    <2>18. Merged(t, h.used)
      <3>1. Merged(j, u \cup {c}) /\ End(j, c) \notin DOMAIN j \ u
        BY <1>5, <1>6, <1>7, <2>1, <2>2, JoinNext
      <3>2. u \subseteq DOMAIN j
        BY <1>2, <1>5, <2>1, <2>3 DEF Joined
      <3>3. Merged(t, u \cup {c})
        BY <1>9, <2>3, <2>5, <2>6, <3>1, <3>2, CutMerged
      <3> QED
        BY <1>5, <3>3
    <2>19. PICK x, y : Shrink(h, c, m)
                         = Account(SetUsed(SetChunk(Link(b, r), {}, c, m), c), x, y)
      <3>1. PICK x, y : Shrink(h, c, m)
              = Account(SetUsed(SetChunk(Link(SetChunk(Unlink(h, n), {n}, r,
                                                       h.size[n] + (h.size[c] - m)), r),
                                         {}, c, m), c), x, y)
        BY <1>3, <1>4, <1>11 DEF Shrink, Rest
      <3>2. t[r] = h.size[n] + (h.size[c] - m)
        BY <1>1, <1>4, <1>5, <1>9, <2>4, <2>5, <2>7 DEF WasCut, SizeField
      <3> QED
        BY <2>10, <2>12, <3>1, <3>2
    <2>20. Resized(h, Account(SetUsed(SetChunk(Link(b, r), {}, c, m), c), x, y), c, m)
      BY <2>8, <2>13, <2>14, <2>15, <2>16, <2>17, <2>18, ShrinkEnds
    <2> QED
      BY <2>19, <2>20
  <1> QED
    BY <1>10, <1>11

(* A block c of n bytes or more, with data d, has come to those of u. *)
Added(h, g, u, c, n, d) ==
    /\ HeapInv(g) /\ g.used = u \cup {c} /\ c \notin u
    /\ g.size[c] >= n /\ g.data[c] = d
    /\ Keeps(h, g, u)

LEMMA StoreKeeps ==
  ASSUME NEW h, HeapInv(h), NEW c \in h.used, NEW d \in Data \cup {Junk}
  PROVE  LET g == [h EXCEPT !.data[c] = d] IN
         /\ HeapInv(g) /\ g.size = h.size /\ g.used = h.used /\ g.data[c] = d
         /\ Keeps(h, g, h.used \ {c})
  <1>1. PICK g : g = [h EXCEPT !.data[c] = d]
    OBVIOUS
  <1>2. c \in DOMAIN h.size /\ Loose(h, {}) /\ h.used \subseteq DOMAIN h.size
    BY DEF HeapInv, Loose
  <1>3. /\ Loose(g, {}) /\ g.size = h.size /\ g.used = h.used
        /\ g.data[c] = d /\ \A x \in DOMAIN h.size \ {c} : g.data[x] = h.data[x]
    BY <1>1, <1>2, LooseStore
  <1>4. HeapInv(g)
    BY <1>3 DEF HeapInv
  <1>5. Keeps(h, g, h.used \ {c})
    BY <1>2, <1>3 DEF Keeps
  <1> QED
    BY <1>1, <1>3, <1>4, <1>5

(* malloc, followed by a store into the new block *)
LEMMA MallocStores ==
  ASSUME NEW h, HeapInv(h), NEW n, Proper(n), NEW c, c = FindChunk(h, n), c # NULL,
         NEW d \in Data \cup {Junk}
  PROVE  Added(h, [Malloc(h, n) EXCEPT !.data[c] = d], h.used, c, n, d)
  <1>1. PICK g : g = Malloc(h, n)
    OBVIOUS
  <1>2. /\ HeapInv(g) /\ c \in DOMAIN h.size \ h.used
        /\ g.used = h.used \cup {c} /\ g.size[c] >= n
        /\ Keeps(h, g, h.used)
    BY <1>1, MallocKeeps
  <1>3. PICK f : f = [g EXCEPT !.data[c] = d]
    OBVIOUS
  <1>4. /\ HeapInv(f) /\ f.size = g.size /\ f.used = g.used /\ f.data[c] = d
        /\ Keeps(g, f, g.used \ {c})
    BY <1>2, <1>3, StoreKeeps
  <1>5. Keeps(h, f, h.used)
    BY <1>2, <1>4 DEF Keeps
  <1>6. Added(h, f, h.used, c, n, d)
    BY <1>2, <1>4, <1>5 DEF Added
  <1> QED
    BY <1>1, <1>3, <1>6

LEMMA DataOf ==
  ASSUME NEW h, HeapInv(h), NEW c \in h.used
  PROVE  h.data[c] \in Data \cup {Junk}
  BY DEF HeapInv, Loose

LEMMA MoveKeeps ==
  ASSUME NEW h, HeapInv(h), NEW c \in h.used, NEW n, Proper(n),
         NEW w, w = FindChunk(h, n), w # NULL
  PROVE  Added(h, Move(h, c, n), h.used \ {c}, w, n, h.data[c])
  <1>1. PICK g : g = Malloc(h, n)
    OBVIOUS
  <1>2. PICK f : f = [g EXCEPT !.data[w] = h.data[c]]
    OBVIOUS
  <1>3. Added(h, f, h.used, w, n, h.data[c])
    BY <1>1, <1>2, DataOf, MallocStores
  <1>4. g.data[c] = h.data[c]
    BY <1>1, MallocKeeps DEF Keeps
  <1>5. Move(h, c, n) = Free(f, c)
    BY <1>1, <1>2, <1>4 DEF Move
  <1>6. PICK e : e = Free(f, c)
    OBVIOUS
  <1>7. Settled(f, e, f.used \ {c})
    BY <1>3, <1>6, FreeKeeps DEF Added
  <1>8. w \notin h.used /\ w # c
    BY <1>3 DEF Added
  <1>9. f.used \ {c} = (h.used \ {c}) \cup {w} /\ w \in f.used \ {c}
    BY <1>3, <1>8 DEF Added
  <1>10. e.size[w] >= n /\ e.data[w] = h.data[c]
    BY <1>3, <1>7, <1>9 DEF Added, Settled, Keeps
  <1>11. Keeps(h, e, h.used \ {c})
    BY <1>3, <1>7, <1>9 DEF Added, Settled, Keeps
  <1>12. Added(h, e, h.used \ {c}, w, n, h.data[c])
    BY <1>7, <1>8, <1>9, <1>10, <1>11 DEF Added, Settled
  <1> QED
    BY <1>5, <1>6, <1>12

LEMMA SqueezeKeeps ==
  ASSUME NEW h, HeapInv(h), NEW c \in h.used, NEW n, Proper(n),
         NEW w, w = FindChunk(Free(h, c), n), w # NULL
  PROVE  Added(h, Squeeze(h, c, n), h.used \ {c}, w, n, h.data[c])
  <1>1. PICK f : f = Free(h, c)
    OBVIOUS
  <1>2. HeapInv(f) /\ f.used = h.used \ {c} /\ Keeps(h, f, h.used \ {c})
    BY <1>1, FreeKeeps DEF Settled
  <1>3. PICK g : g = [Malloc(f, n) EXCEPT !.data[w] = h.data[c]]
    OBVIOUS
  <1>4. Added(f, g, f.used, w, n, h.data[c])
    BY <1>1, <1>2, <1>3, DataOf, MallocStores
  <1>5. Squeeze(h, c, n) = g
    BY <1>1, <1>3 DEF Squeeze
  <1>6. Keeps(h, g, h.used \ {c})
    BY <1>2, <1>4 DEF Added, Keeps
  <1> QED
    BY <1>2, <1>4, <1>5, <1>6 DEF Added

LEMMA ResizedIsAdded ==
  ASSUME NEW h, NEW g, NEW c \in h.used, NEW n, Resized(h, g, c, n)
  PROVE  Added(h, g, h.used \ {c}, c, n, h.data[c])
  BY DEF Resized, Added

LEMMA FreshIs == HeapInv(Fresh) /\ Fresh.used = {}
  <1>1. Total \in Nat /\ Total % 8 = 0 /\ Total >= MinAlloc
    BY InitialChunk, TotalAtLeast DEF MinAlloc
  <1>2. PICK h : h = Fresh
    OBVIOUS
  <1>3. /\ h.size = [c \in {0} |-> Total] /\ h.used = {}
        /\ h.prev = [c \in {0} |-> NULL] /\ h.next = [c \in {0} |-> NULL]
        /\ h.bucket = [b \in Bucket |-> IF b = BucketBySize(Total) THEN 0 ELSE NULL]
        /\ h.data = [c \in {0} |-> Junk]
    BY <1>2 DEF Fresh
  <1>4. IsHeap(h)
    BY <1>2 DEF Fresh, IsHeap
  <1>5. BucketBySize(Total) \in Bucket
    BY <1>1, BucketType
  <1>6. Sizes(h.size)
    BY <1>1, <1>3 DEF Sizes
  <1>7. End(h.size, 0) = HiBound
    BY <1>1, <1>3 DEF End, HiBound, SizeField
  <1>8. HiBound \in Nat /\ HiBound # 0
    BY <1>1 DEF HiBound, SizeField
  <1>9. Tiled(h.size) /\ Merged(h.size, h.used)
    BY <1>3, <1>7, <1>8 DEF Tiled, Merged
  <1>10. 0 # NULL
    BY MemAssumption
  <1>11. BucketOf(h, 0) = BucketBySize(Total)
    BY <1>3 DEF BucketOf
  <1>12. Listed(h, {0})
    <2>1. h.bucket \in [Bucket -> {0} \cup {NULL}]
      BY <1>3
    <2>2. h.prev = [x \in {0} |-> h.prev[x]] /\ h.next = [x \in {0} |-> h.next[x]]
      BY <1>3
    <2>3. h.prev[0] = NULL /\ h.next[0] = NULL
      BY <1>3
    <2>4. \A b \in Bucket : h.bucket[b] = IF b = BucketBySize(Total) THEN 0 ELSE NULL
      BY <1>3
    <2>5. Ordered(h, {0})
      <3>1. [x \in {0} |-> 0] \in [{0} -> Nat]
        OBVIOUS
      <3> QED
        BY <2>3, <3>1 DEF Ordered
    <2> QED
      BY <1>5, <1>10, <1>11, <2>1, <2>2, <2>3, <2>4, <2>5 DEF Listed
  <1>13. DOMAIN h.size \ (h.used \cup {}) = {0}
    BY <1>3
  <1>14. Loose(h, {})
    BY <1>3, <1>4, <1>12, <1>13 DEF Loose, IsFcn
  <1> QED
    BY <1>2, <1>3, <1>6, <1>9, <1>14 DEF HeapInv

-----------------------------------------------------------------------------
(* What FindChunk misses *)

LEMMA BucketsRise ==
  ASSUME NEW m \in Nat, NEW n \in Nat, n >= MinAlloc, m >= n
  PROVE  BucketBySize(n) <= BucketBySize(m)
  <1>1. MaxBucketSize \in Nat /\ MaxBucketSize % 8 = 0 /\ MaxBucketSize > 24
    BY LayoutAssumption DEF MinAlloc
  <1>2. BucketBySize(n) \in Bucket /\ BucketCount \in Nat
    BY BucketType, LastIsBucket
  <1>3. CASE m < MaxBucketSize
    <2>1. BucketBySize(n) = (n - 24) \div 8 /\ BucketBySize(m) = (m - 24) \div 8
      BY <1>1, <1>3 DEF BucketBySize, MinAlloc
    <2> QED
      BY <2>1 DEF MinAlloc
  <1>4. CASE ~(m < MaxBucketSize)
    BY <1>1, <1>2, <1>4 DEF BucketBySize, Bucket, MinAlloc
  <1> QED
    BY <1>3, <1>4

LEMMA FreeOf ==
  ASSUME NEW h, HeapInv(h), NEW F, F = DOMAIN h.size \ h.used
  PROVE  Listed(h, F) /\ NULL \notin F /\ IsFiniteSet(F) /\ IsFiniteSet(DOMAIN h.size)
  <1>1. F = DOMAIN h.size \ (h.used \cup {}) /\ F \subseteq Nat
    BY DEF HeapInv, Loose
  <1>2. IsFiniteSet(DOMAIN h.size)
    BY ChunksAreFinite
  <1>3. IsFiniteSet(F)
    BY <1>2, FS_Subset
  <1> QED
    BY <1>1, <1>2, <1>3, NullIsNone DEF HeapInv, Loose

(* When nothing is found there is nothing: a bucket of bigger chunks that  *)
(* had one would be looked at, and the walk along the last bucket meets    *)
(* every chunk in it.                                                      *)
LEMMA NothingIsMissed ==
  ASSUME NEW h, HeapInv(h), NEW n, Proper(n), FindChunk(h, n) = NULL,
         NEW c \in DOMAIN h.size \ h.used
  PROVE  h.size[c] < n
  <1>1. PICK F : F = DOMAIN h.size \ h.used
    OBVIOUS
  <1>2. Listed(h, F) /\ NULL \notin F /\ IsFiniteSet(F) /\ c \in F
    BY <1>1, FreeOf
  <1>3. h.size[c] \in Nat /\ h.size[c] >= MinAlloc /\ n \in Nat /\ n >= MinAlloc
    BY DEF HeapInv, Sizes, Proper
  <1>4. SUFFICES ASSUME h.size[c] >= n PROVE FALSE
    BY <1>3
  <1>5. PICK b : b = BucketOf(h, c)
    OBVIOUS
  <1>6. BucketBySize(n) <= b /\ BucketBySize(n) \in Bucket /\ b \in Bucket
    BY <1>3, <1>4, <1>5, BucketsRise, BucketType DEF BucketOf
  <1>7. BucketCount \in Nat /\ LastBucket \in Bucket /\ LastBucket = BucketCount - 1
    BY LastIsBucket DEF LastBucket
  <1>8. PICK list : list = List(h, b)
    OBVIOUS
  <1>9. c \in Met(h, F, b)
    BY <1>2, <1>5 DEF Met
  <1>10. /\ DOMAIN list = 0 .. Cardinality(F) /\ Cardinality(F) \in Nat
         /\ list[0] = h.bucket[b]
         /\ \A i, j \in DOMAIN list : i < j /\ list[j] # NULL => list[i] # NULL
         /\ \E i \in DOMAIN list : list[i] = c
    BY <1>2, <1>6, <1>8, <1>9, WalkMeets
  <1>11. PICK i \in DOMAIN list : list[i] = c
    BY <1>10
  <1>12. h.bucket[b] # NULL
    <2>1. list[i] # NULL /\ 0 \in DOMAIN list /\ (i = 0 \/ 0 < i)
      BY <1>2, <1>10, <1>11
    <2> QED
      BY <1>10, <1>11, <2>1
  <1> DEFINE exact == {d \in BucketBySize(n) .. LastBucket - 1 : h.bucket[d] # NULL}
  <1>13. exact = {}
    <2>1. SUFFICES ASSUME exact # {} PROVE FALSE
      OBVIOUS
    <2>2. exact \subseteq Nat
      BY <1>6, <1>7 DEF Bucket
    <2>3. Min(exact) \in exact
      BY <2>1, <2>2, LeastIn
    <2>4. FindChunk(h, n) = h.bucket[Min(exact)]
      BY <2>1 DEF FindChunk
    <2> QED
      BY <2>3, <2>4
  <1>14. b = LastBucket
    BY <1>6, <1>7, <1>12, <1>13 DEF Bucket
  <1>15. FirstFit(h, n) = NULL
    BY <1>13 DEF FindChunk
  <1> DEFINE fits == {k \in DOMAIN list : list[k] # NULL /\ h.size[list[k]] >= n}
  <1>16. i \in fits /\ fits \subseteq Nat
    BY <1>2, <1>4, <1>10, <1>11
  <1>17. Min(fits) \in fits
    BY <1>16, LeastIn
  <1>18. FirstFit(h, n) = list[Min(fits)]
    BY <1>8, <1>14, <1>16 DEF FirstFit
  <1> QED
    BY <1>15, <1>17, <1>18

-----------------------------------------------------------------------------
(* Sizes and byte counts of the heaps that calls make *)

LEMMA AccountIs ==
  ASSUME NEW h, IsHeap(h), NEW a, NEW b
  PROVE  LET g == Account(h, a, b) IN
         /\ IsHeap(g) /\ g.size = h.size /\ g.used = h.used /\ g.data = h.data
         /\ g.used_size = h.used_size + a /\ g.free_size = h.free_size + b
  <1>1. PICK m : m = h.used_size + a
    OBVIOUS
  <1>2. PICK n : n = h.free_size + b
    OBVIOUS
  <1>3. PICK g : g = Account(h, a, b)
    OBVIOUS
  <1>4. g = [h EXCEPT !.used_size = m, !.free_size = n]
    BY <1>1, <1>2, <1>3 DEF Account
  <1>5. g = [size |-> h.size, used |-> h.used, prev |-> h.prev, next |-> h.next,
             bucket |-> h.bucket, used_size |-> m, free_size |-> n, data |-> h.data]
    BY <1>4 DEF IsHeap
  <1>6. IsHeap(g)
    BY <1>5 DEF IsHeap
  <1> QED
    BY <1>1, <1>2, <1>3, <1>5, <1>6

LEMMA SetUsedIs ==
  ASSUME NEW h, IsHeap(h), NEW c
  PROVE  LET g == SetUsed(h, c) IN
         /\ IsHeap(g) /\ g.size = h.size /\ g.used = h.used \cup {c} /\ g.data = h.data
         /\ g.used_size = h.used_size /\ g.free_size = h.free_size
  <1>1. PICK u : u = h.used \cup {c}
    OBVIOUS
  <1>2. PICK g : g = SetUsed(h, c)
    OBVIOUS
  <1>3. g = [h EXCEPT !.used = u]
    BY <1>1, <1>2 DEF SetUsed
  <1>4. g = [size |-> h.size, used |-> u, prev |-> h.prev, next |-> h.next,
             bucket |-> h.bucket, used_size |-> h.used_size, free_size |-> h.free_size,
             data |-> h.data]
    BY <1>3 DEF IsHeap
  <1>5. IsHeap(g)
    BY <1>4 DEF IsHeap
  <1> QED
    BY <1>1, <1>2, <1>4, <1>5

(* A heap of data for every chunk *)
IsWhole(h) == IsHeap(h) /\ IsFcn(h.data, DOMAIN h.size)

(* Bytes moved between the counts: a more that are used, f more that are free *)
Booked(h, g, a, f) == g.used_size = h.used_size + a /\ g.free_size = h.free_size + f

LEMMA UnlinkBooks ==
  ASSUME NEW h, IsWhole(h), NEW c
  PROVE  LET g == Unlink(h, c) IN
         /\ IsWhole(g) /\ g.size = h.size /\ g.used = h.used
         /\ g.used_size = h.used_size /\ g.free_size = h.free_size
  <1>1. PICK g : g = Unlink(h, c)
    OBVIOUS
  <1>2. IsHeap(g) /\ Unlinked(h, g, c)
    BY <1>1, UnlinkIs DEF IsWhole
  <1> QED
    BY <1>1, <1>2 DEF Unlinked, IsWhole

LEMMA LinkBooks ==
  ASSUME NEW h, IsWhole(h), NEW c \in DOMAIN h.size
  PROVE  LET g == Link(h, c) IN
         /\ IsWhole(g) /\ g.size = h.size /\ g.used = h.used
         /\ g.used_size = h.used_size /\ g.free_size = h.free_size
  <1>1. PICK g : g = Link(h, c)
    OBVIOUS
  <1>2. DOMAIN h.data = DOMAIN h.size
    BY DEF IsWhole, IsFcn
  <1>3. IsHeap(g) /\ Linked(h, g, c)
    BY <1>1, <1>2, LinkIs DEF IsWhole
  <1> QED
    BY <1>1, <1>2, <1>3 DEF Linked, IsWhole

LEMMA SetChunkBooks ==
  ASSUME NEW h, IsWhole(h), NEW gone, NEW c, NEW n
  PROVE  LET g == SetChunk(h, gone, c, n) IN
         /\ IsWhole(g) /\ g.used = h.used \ (gone \cup {c})
         /\ DOMAIN g.size = (DOMAIN h.size \ gone) \cup {c}
         /\ g.size[c] = n
         /\ \A x \in DOMAIN h.size \ (gone \cup {c}) : g.size[x] = h.size[x]
         /\ g.used_size = h.used_size /\ g.free_size = h.free_size
  <1>1. PICK g : g = SetChunk(h, gone, c, n)
    OBVIOUS
  <1>2. IsHeap(g) /\ ChunkSet(h, g, gone, c, n)
    BY <1>1, SetChunkIs DEF IsWhole
  <1> QED
    BY <1>1, <1>2 DEF ChunkSet, IsWhole

(* What Free does with its neighbours: `over' bytes of size fields and the *)
(* chunks of `gone' turn into bytes of the free chunk f.                   *)
Freed(h, g, c, gone, f, over, n) ==
    /\ g.used = h.used \ (gone \cup {f})
    /\ DOMAIN g.size = (DOMAIN h.size \ gone) \cup {f}
    /\ g.size[f] = n
    /\ \A x \in DOMAIN h.size \ (gone \cup {f}) : g.size[x] = h.size[x]
    /\ Booked(h, g, -h.size[c], h.size[c] + over)

LEMMA FreeMakes ==
  ASSUME NEW h, IsWhole(h), NEW c \in DOMAIN h.size,
         h.size[c] \in Nat,
         NEW p, p = PrevChunk(h, c), NEW x, x = NextChunk(h, c),
         PrevFree(h, c) => p \in DOMAIN h.size /\ h.size[p] \in Nat,
         NextFree(h, c) => x \in DOMAIN h.size /\ h.size[x] \in Nat,
         NEW gone, gone = IF NextFree(h, c) THEN {c, x} ELSE {c},
         NEW f, f = IF PrevFree(h, c) THEN p ELSE c,
         NEW over,
         over = (IF PrevFree(h, c) THEN 16 ELSE 0) + (IF NextFree(h, c) THEN 16 ELSE 0)
  PROVE  Freed(h, Free(h, c), c, gone, f, over, FreedSize(h, c))
  <1>1. PICK a : a = IF PrevFree(h, c) THEN Unlink(h, p) ELSE h
    OBVIOUS
  <1>2. PICK b : b = IF NextFree(h, c) THEN Unlink(a, x) ELSE a
    OBVIOUS
  <1>3. IsWhole(a) /\ a.size = h.size /\ a.used = h.used /\ a.used_size = h.used_size
        /\ a.free_size = h.free_size
    BY <1>1, UnlinkBooks
  <1>4. IsWhole(b) /\ b.size = h.size /\ b.used = h.used /\ b.used_size = h.used_size
        /\ b.free_size = h.free_size
    BY <1>2, <1>3, UnlinkBooks
  <1>6. PICK d : d = Account(b, -h.size[c], h.size[c] + over)
    OBVIOUS
  <1>7. IsHeap(b) /\ IsFcn(b.data, DOMAIN b.size)
    BY <1>4 DEF IsWhole
  <1>8. /\ IsHeap(d) /\ d.size = b.size /\ d.used = b.used /\ d.data = b.data
        /\ d.used_size = b.used_size + (-h.size[c])
        /\ d.free_size = b.free_size + (h.size[c] + over)
    BY <1>6, <1>7, AccountIs
  <1>9. IsWhole(d)
    BY <1>7, <1>8 DEF IsWhole
  <1>10. gone = {c} \cup (IF NextFree(h, c) THEN {x} ELSE {})
    OBVIOUS
  <1>12. PICK n : n = FreedSize(h, c)
    OBVIOUS
  <1>13. PICK e : e = SetChunk(d, gone, f, n)
    OBVIOUS
  <1>14. /\ IsWhole(e) /\ e.used = d.used \ (gone \cup {f})
         /\ DOMAIN e.size = (DOMAIN d.size \ gone) \cup {f} /\ e.size[f] = n
         /\ \A y \in DOMAIN d.size \ (gone \cup {f}) : e.size[y] = d.size[y]
         /\ e.used_size = d.used_size /\ e.free_size = d.free_size
    BY <1>9, <1>13, SetChunkBooks
  <1>15. PICK g : g = Link(e, f)
    OBVIOUS
  <1>16. /\ g.size = e.size /\ g.used = e.used
         /\ g.used_size = e.used_size /\ g.free_size = e.free_size
    BY <1>14, <1>15, LinkBooks
  <1>17. Freed(h, g, c, gone, f, over, n)
    BY <1>4, <1>8, <1>14, <1>16 DEF Freed, Booked
  <1>18. Free(h, c) = g
    <2>1. n = h.size[c] + ((IF PrevFree(h, c) THEN 2 * SizeField ELSE 0) + (IF NextFree(h, c) THEN 2 * SizeField ELSE 0))
              + (IF PrevFree(h, c) THEN h.size[p] ELSE 0) + (IF NextFree(h, c) THEN h.size[x] ELSE 0)
      BY <1>12 DEF FreedSize, SizeField
    <2>2. over = (IF PrevFree(h, c) THEN 2 * SizeField ELSE 0) + (IF NextFree(h, c) THEN 2 * SizeField ELSE 0)
      BY DEF SizeField
    <2> QED
      BY <1>1, <1>2, <1>6, <1>10, <1>13, <1>15, <2>1, <2>2 DEF Free
  <1> QED
    BY <1>12, <1>17, <1>18

LEMMA FreeNeighbours ==
  ASSUME NEW h, HeapInv(h), NEW c \in h.used,
         NEW p, p = PrevChunk(h, c), NEW x, x = NextChunk(h, c)
  PROVE  /\ IsWhole(h) /\ c \in DOMAIN h.size /\ h.size[c] \in Nat /\ c \in Nat
         /\ PrevFree(h, c) => p \in DOMAIN h.size \ h.used /\ h.size[p] \in Nat
         /\ NextFree(h, c) => x \in DOMAIN h.size \ h.used /\ h.size[x] \in Nat
         /\ PrevFree(h, c) /\ NextFree(h, c) => p # x
  <1>1. c \in DOMAIN h.size /\ Sizes(h.size) /\ Tiled(h.size) /\ IsWhole(h)
    BY DEF HeapInv, Loose, IsWhole
  <1>2. \A y \in DOMAIN h.size : h.size[y] \in Nat /\ y \in Nat
    BY <1>1 DEF Sizes
  <1>3. x = End(h.size, c)
    BY EndIs
  <1>4. PrevFree(h, c) => p \in DOMAIN h.size \ h.used /\ End(h.size, p) = c
    BY <1>1, PrevFreeIs
  <1>5. NextFree(h, c) => x \in DOMAIN h.size \ h.used
    BY <1>1, <1>3, NextFreeIs
  <1>6. PrevFree(h, c) => p # x
    <2>1. c < x /\ x \in Nat
      BY <1>1, <1>3, NeverBackwards
    <2>2. PrevFree(h, c) => p < c /\ p \in Nat
      BY <1>1, <1>2, <1>4, NeverBackwards
    <2> QED
      BY <1>2, <1>1, <2>1, <2>2
  <1> QED
    BY <1>1, <1>2, <1>4, <1>5, <1>6

(* After free there is one free chunk of the size that __mem_realloc has   *)
(* computed for it, and no other that was not there.                       *)
LEMMA FreedIs ==
  ASSUME NEW h, HeapInv(h), NEW c \in h.used, NEW g, g = Free(h, c)
  PROVE  \E f \in DOMAIN g.size \ g.used :
           /\ g.size[f] = FreedSize(h, c)
           /\ \A y \in DOMAIN g.size \ (g.used \cup {f}) :
                y \in DOMAIN h.size \ h.used /\ g.size[y] = h.size[y]
  <1>1. PICK p : p = PrevChunk(h, c)
    OBVIOUS
  <1>2. PICK x : x = NextChunk(h, c)
    OBVIOUS
  <1>3. PICK gone : gone = IF NextFree(h, c) THEN {c, x} ELSE {c}
    OBVIOUS
  <1>4. PICK f : f = IF PrevFree(h, c) THEN p ELSE c
    OBVIOUS
  <1>5. PICK over : over = (IF PrevFree(h, c) THEN 16 ELSE 0) + (IF NextFree(h, c) THEN 16 ELSE 0)
    OBVIOUS
  <1>6. /\ IsWhole(h) /\ c \in DOMAIN h.size /\ h.size[c] \in Nat
        /\ PrevFree(h, c) => p \in DOMAIN h.size /\ h.size[p] \in Nat
        /\ NextFree(h, c) => x \in DOMAIN h.size /\ h.size[x] \in Nat
    BY <1>1, <1>2, FreeNeighbours
  <1>7. Freed(h, g, c, gone, f, over, FreedSize(h, c))
    BY <1>1, <1>2, <1>3, <1>4, <1>5, <1>6, FreeMakes
  <1>8. c \in gone
    BY <1>3
  <1> QED
    BY <1>7, <1>8 DEF Freed

-----------------------------------------------------------------------------
(* What tiles the memory adds up to it *)

LEMMA BeforeEnd ==
  ASSUME NEW s, Sizes(s), Tiled(s), NEW k \in DOMAIN s \cup {HiBound}, 0 < k
  PROVE  \E p \in DOMAIN s : End(s, p) = k
  <1>1. CASE k \in DOMAIN s
    BY <1>1, OneBefore
  <1>2. CASE k \notin DOMAIN s
    <2>1. k = HiBound /\ HiBound \in Nat
      BY <1>2, TotalAtLeast DEF HiBound, SizeField
    <2> DEFINE T == {k - p : p \in DOMAIN s}
    <2>2. \A x \in DOMAIN s : x \in Nat /\ x < End(s, x) /\ End(s, x) \in Nat /\ End(s, x) <= k
      BY <2>1, NeverBackwards DEF Sizes, Tiled
    <2>3. T \subseteq Nat /\ T # {}
      BY <2>1, <2>2 DEF Sizes
    <2>4. PICK d \in T : \A e \in T : d <= e
      BY <2>3, LeastOf
    <2>5. PICK p \in DOMAIN s : d = k - p
      BY <2>4
    <2>6. End(s, p) \notin DOMAIN s
      <3> SUFFICES ASSUME End(s, p) \in DOMAIN s PROVE FALSE
        OBVIOUS
      <3>1. k - p <= k - End(s, p)
        BY <2>4, <2>5
      <3> QED
        BY <2>1, <2>2, <3>1
    <2> QED
      BY <2>1, <2>6 DEF Tiled
  <1> QED
    BY <1>1, <1>2

LEMMA TilesAddUp ==
  ASSUME NEW s, Sizes(s), Tiled(s), IsFiniteSet(DOMAIN s)
  PROVE  SumOf(s, DOMAIN s) + 16 * Cardinality(DOMAIN s) = HiBound
  <1> DEFINE Below(k) == {x \in DOMAIN s : x < k}
             Filled(k) == SumOf(s, Below(k)) + 16 * Cardinality(Below(k)) = k
             Bad == {k \in DOMAIN s \cup {HiBound} : ~Filled(k)}
  <1>1. HiBound \in Nat /\ HiBound # 0
    <2>1. Total \in Nat /\ Total >= MinAlloc
      BY InitialChunk, TotalAtLeast DEF MinAlloc
    <2> QED
      BY <2>1 DEF HiBound, SizeField
  <1>2. \A x \in DOMAIN s : /\ x \in Nat /\ s[x] \in Nat
                            /\ x < End(s, x) /\ End(s, x) \in Nat /\ End(s, x) <= HiBound
    BY NeverBackwards DEF Sizes, Tiled
  <1>3. ASSUME NEW k \in DOMAIN s \cup {HiBound} PROVE Filled(k)
    <2>1. SUFFICES ASSUME Bad # {} PROVE FALSE
      BY <1>3
    <2>2. Bad \subseteq Nat
      BY <1>1, <1>2
    <2> HIDE DEF Filled
    <2>3. PICK j \in Bad : \A i \in Bad : j <= i
      BY <2>1, <2>2, LeastOf
    <2>4. j \in Nat /\ j \in DOMAIN s \cup {HiBound} /\ ~Filled(j)
      BY <2>2, <2>3
    <2> HIDE DEF Bad
    <2>5. CASE j = 0
      <3>1. Below(j) = {}
        BY <1>2, <2>5
      <3> QED
        BY <2>4, <2>5, <3>1, SumOfNone, FS_EmptySet DEF Filled
    <2>6. CASE j # 0
      <3>1. PICK p \in DOMAIN s : End(s, p) = j
        BY <2>4, <2>6, BeforeEnd
      <3>2. p \in Nat /\ p < j /\ s[p] \in Nat
        BY <1>2, <3>1
      <3>3. Filled(p)
        BY <2>3, <2>4, <3>2 DEF Bad
      <3>4. PICK B : B = Below(p)
        OBVIOUS
      <3>5. Below(j) = B \cup {p}
        <4>1. \A x \in DOMAIN s : p < x => j <= x
          BY <3>1 DEF Tiled
        <4>2. \A x \in DOMAIN s : x < j <=> x < p \/ x = p
          BY <1>2, <2>4, <3>2, <4>1
        <4> QED
          BY <3>4, <4>2
      <3>6. p \notin B /\ B \subseteq DOMAIN s
        BY <1>2, <3>4
      <3>7. IsFiniteSet(B)
        BY <3>6, FS_Subset
      <3>8. SumOf(s, B \cup {p}) = s[p] + SumOf(s, B) /\ SumOf(s, B) \in Nat
        BY <1>2, <3>6, <3>7, SumWith, SumType
      <3>9. Cardinality(B \cup {p}) = Cardinality(B) + 1 /\ Cardinality(B) \in Nat
        BY <3>6, <3>7, FS_AddElement, FS_CardinalityType
      <3>10. SumOf(s, B) + 16 * Cardinality(B) = p
        BY <3>3, <3>4 DEF Filled
      <3>11. j = p + s[p] + 16
        BY <3>1 DEF End, SizeField
      <3>12. SumOf(s, B \cup {p}) + 16 * Cardinality(B \cup {p}) = j
        BY <3>2, <3>8, <3>9, <3>10, <3>11
      <3>13. Filled(j)
        BY <3>5, <3>12 DEF Filled
      <3> QED
        BY <2>4, <3>13
    <2> QED
      BY <2>5, <2>6
  <1>4. Below(HiBound) = DOMAIN s
    BY <1>1, <1>2
  <1>5. Filled(HiBound)
    BY <1>3
  <1> QED
    BY <1>4, <1>5

-----------------------------------------------------------------------------
(* What the calls do to the byte counts *)

(* What the counts and the size fields take up together *)
Slack(h) == h.used_size + h.free_size + 16 * Cardinality(DOMAIN h.size)

Counts(h) == h.used_size \in Int /\ h.free_size \in Int /\ IsFiniteSet(DOMAIN h.size)

(* The used bytes are a more, and nothing else is gained or lost. *)
Moved(h, g, a) == Counts(g) /\ g.used_size = h.used_size + a /\ Slack(g) = Slack(h)

LEMMA SameChunks ==
  ASSUME NEW h, NEW g, Counts(h), NEW a \in Int,
         DOMAIN g.size = DOMAIN h.size, Booked(h, g, a, -a)
  PROVE  Moved(h, g, a)
  <1>1. PICK k : k = Cardinality(DOMAIN h.size)
    OBVIOUS
  <1>2. k \in Int /\ Cardinality(DOMAIN g.size) = k /\ IsFiniteSet(DOMAIN g.size)
    BY <1>1, FS_CardinalityType DEF Counts
  <1>3. g.used_size = h.used_size + a /\ g.free_size = h.free_size + (-a)
    BY DEF Booked
  <1>4. h.used_size \in Int /\ h.free_size \in Int
    BY DEF Counts
  <1>5. g.used_size \in Int /\ g.free_size \in Int
    BY <1>3, <1>4
  <1>6. g.used_size + g.free_size + 16 * k = h.used_size + h.free_size + 16 * k
    BY <1>2, <1>3, <1>4
  <1>7. Slack(g) = Slack(h)
    BY <1>1, <1>2, <1>6 DEF Slack
  <1> QED
    BY <1>2, <1>3, <1>5, <1>7 DEF Moved, Counts

LEMMA OneChunkMore ==
  ASSUME NEW h, NEW g, Counts(h), NEW a \in Int, NEW r, r \notin DOMAIN h.size,
         DOMAIN g.size = DOMAIN h.size \cup {r}, Booked(h, g, a, -a - 16)
  PROVE  Moved(h, g, a)
  <1>1. PICK k : k = Cardinality(DOMAIN h.size)
    OBVIOUS
  <1>2. k \in Int /\ Cardinality(DOMAIN g.size) = k + 1 /\ IsFiniteSet(DOMAIN g.size)
    BY <1>1, FS_CardinalityType, FS_AddElement DEF Counts
  <1>3. g.used_size = h.used_size + a /\ g.free_size = h.free_size + (-a - 16)
    BY DEF Booked
  <1>4. h.used_size \in Int /\ h.free_size \in Int
    BY DEF Counts
  <1>5. g.used_size \in Int /\ g.free_size \in Int
    BY <1>3, <1>4
  <1>6. g.used_size + g.free_size + 16 * (k + 1) = h.used_size + h.free_size + 16 * k
    BY <1>2, <1>3, <1>4
  <1>7. Slack(g) = Slack(h)
    BY <1>1, <1>2, <1>6 DEF Slack
  <1> QED
    BY <1>2, <1>3, <1>5, <1>7 DEF Moved, Counts

LEMMA OneChunkLess ==
  ASSUME NEW h, NEW g, Counts(h), NEW a \in Int, NEW r \in DOMAIN h.size,
         DOMAIN g.size = DOMAIN h.size \ {r}, Booked(h, g, a, -a + 16)
  PROVE  Moved(h, g, a)
  <1>1. PICK k : k = Cardinality(DOMAIN h.size)
    OBVIOUS
  <1>2. k \in Int /\ Cardinality(DOMAIN g.size) = k - 1 /\ IsFiniteSet(DOMAIN g.size)
    BY <1>1, FS_CardinalityType, FS_RemoveElement DEF Counts
  <1>3. g.used_size = h.used_size + a /\ g.free_size = h.free_size + (-a + 16)
    BY DEF Booked
  <1>4. h.used_size \in Int /\ h.free_size \in Int
    BY DEF Counts
  <1>5. g.used_size \in Int /\ g.free_size \in Int
    BY <1>3, <1>4
  <1>6. g.used_size + g.free_size + 16 * (k - 1) = h.used_size + h.free_size + 16 * k
    BY <1>2, <1>3, <1>4
  <1>7. Slack(g) = Slack(h)
    BY <1>1, <1>2, <1>6 DEF Slack
  <1> QED
    BY <1>2, <1>3, <1>5, <1>7 DEF Moved, Counts

LEMMA OneChunkFor ==
  ASSUME NEW h, NEW g, Counts(h), NEW a \in Int, NEW x \in DOMAIN h.size,
         NEW r, r \notin DOMAIN h.size \ {x},
         DOMAIN g.size = (DOMAIN h.size \ {x}) \cup {r}, Booked(h, g, a, -a)
  PROVE  Moved(h, g, a)
  <1>1. PICK k : k = Cardinality(DOMAIN h.size)
    OBVIOUS
  <1>2. PICK S : S = DOMAIN h.size \ {x}
    OBVIOUS
  <1>3. k \in Int /\ Cardinality(S) = k - 1 /\ IsFiniteSet(S)
    BY <1>1, <1>2, FS_CardinalityType, FS_RemoveElement DEF Counts
  <1>4. Cardinality(DOMAIN g.size) = Cardinality(S) + 1 /\ IsFiniteSet(DOMAIN g.size)
    <2>1. r \notin S /\ DOMAIN g.size = S \cup {r}
      BY <1>2
    <2> QED
      BY <1>3, <2>1, FS_AddElement
  <1>5. Cardinality(DOMAIN g.size) = k
    BY <1>3, <1>4
  <1>6. g.used_size = h.used_size + a /\ g.free_size = h.free_size + (-a)
    BY DEF Booked
  <1>7. h.used_size \in Int /\ h.free_size \in Int
    BY DEF Counts
  <1>8. g.used_size \in Int /\ g.free_size \in Int
    BY <1>6, <1>7
  <1>9. g.used_size + g.free_size + 16 * k = h.used_size + h.free_size + 16 * k
    BY <1>3, <1>6, <1>7
  <1>10. Slack(g) = Slack(h)
    BY <1>1, <1>5, <1>9 DEF Slack
  <1> QED
    BY <1>4, <1>6, <1>8, <1>10 DEF Moved, Counts

LEMMA TwoChunksLess ==
  ASSUME NEW h, NEW g, Counts(h), NEW a \in Int, NEW x \in DOMAIN h.size,
         NEW y \in DOMAIN h.size, x # y,
         DOMAIN g.size = DOMAIN h.size \ {x, y}, Booked(h, g, a, -a + 32)
  PROVE  Moved(h, g, a)
  <1>1. PICK k : k = Cardinality(DOMAIN h.size)
    OBVIOUS
  <1>2. PICK S : S = DOMAIN h.size \ {x}
    OBVIOUS
  <1>3. k \in Int /\ Cardinality(S) = k - 1 /\ IsFiniteSet(S)
    BY <1>1, <1>2, FS_CardinalityType, FS_RemoveElement DEF Counts
  <1>4. y \in S /\ DOMAIN g.size = S \ {y}
    BY <1>2
  <1>5. Cardinality(DOMAIN g.size) = Cardinality(S) - 1 /\ IsFiniteSet(DOMAIN g.size)
    BY <1>3, <1>4, FS_RemoveElement
  <1>6. Cardinality(DOMAIN g.size) = k - 2
    BY <1>3, <1>5
  <1>7. g.used_size = h.used_size + a /\ g.free_size = h.free_size + (-a + 32)
    BY DEF Booked
  <1>8. h.used_size \in Int /\ h.free_size \in Int
    BY DEF Counts
  <1>9. g.used_size \in Int /\ g.free_size \in Int
    BY <1>7, <1>8
  <1>10. g.used_size + g.free_size + 16 * (k - 2) = h.used_size + h.free_size + 16 * k
    BY <1>3, <1>7, <1>8
  <1>11. Slack(g) = Slack(h)
    BY <1>1, <1>6, <1>10 DEF Slack
  <1> QED
    BY <1>5, <1>7, <1>9, <1>11 DEF Moved, Counts

LEMMA MovedTwice ==
  ASSUME NEW f, NEW g, NEW h, Counts(f), NEW a \in Int, NEW b \in Int,
         Moved(f, g, a), Moved(g, h, b)
  PROVE  Moved(f, h, a + b)
  <1>1. h.used_size = (f.used_size + a) + b /\ f.used_size \in Int
    BY DEF Moved, Counts
  <1>2. h.used_size = f.used_size + (a + b)
    BY <1>1
  <1> QED
    BY <1>2 DEF Moved

(* A free chunk is used, as a whole or after a cut. *)
LEMMA CarveMoves ==
  ASSUME NEW h, IsWhole(h), Counts(h), NEW c \in DOMAIN h.size, h.size[c] \in Int,
         NEW n \in Int,
         h.size[c] >= n + 2 * SizeField + MinAlloc => Rest(c, n) \notin DOMAIN h.size,
         NEW g, g = Carve(h, c, n)
  PROVE  g.size[c] \in Int /\ Moved(h, g, g.size[c])
  <1>1. PICK w : w = h.size[c]
    OBVIOUS
  <1>2. w \in Int
    BY <1>1
  <1>3. CASE w < n + 2 * SizeField + MinAlloc
    <2>1. g = Account(SetUsed(h, c), w, -w)
      BY <1>1, <1>3 DEF Carve
    <2>2. PICK a : a = SetUsed(h, c)
      OBVIOUS
    <2>3. IsHeap(a) /\ a.size = h.size /\ a.used_size = h.used_size /\ a.free_size = h.free_size
      BY <2>2, SetUsedIs DEF IsWhole
    <2>4. g.size = a.size /\ g.used_size = a.used_size + w /\ g.free_size = a.free_size + (-w)
      BY <2>1, <2>2, <2>3, AccountIs
    <2>5. Booked(h, g, w, -w) /\ DOMAIN g.size = DOMAIN h.size /\ g.size[c] = w
      BY <1>1, <2>3, <2>4 DEF Booked
    <2>6. Moved(h, g, w)
      BY <1>2, <2>5, SameChunks
    <2> QED
      BY <1>2, <2>5, <2>6
  <1>4. CASE ~(w < n + 2 * SizeField + MinAlloc)
    <2>1. PICK r : r = Rest(c, n)
      OBVIOUS
    <2>2. PICK m : m = w - n - 2 * SizeField
      OBVIOUS
    <2>3. r \notin DOMAIN h.size
      BY <1>1, <1>2, <1>4, <2>1 DEF SizeField, MinAlloc
    <2>4. PICK a : a = SetChunk(h, {}, r, m)
      OBVIOUS
    <2>5. PICK b : b = SetChunk(a, {}, c, n)
      OBVIOUS
    <2>6. PICK d : d = Link(b, r)
      OBVIOUS
    <2>7. PICK e : e = SetUsed(d, c)
      OBVIOUS
    <2>8. g = Account(e, n, m - w)
      BY <1>1, <1>4, <2>1, <2>2, <2>4, <2>5, <2>6, <2>7 DEF Carve, Rest
    <2>9. /\ IsWhole(a) /\ DOMAIN a.size = (DOMAIN h.size \ {}) \cup {r}
          /\ a.used_size = h.used_size /\ a.free_size = h.free_size
      BY <2>4, SetChunkBooks
    <2>10. /\ IsWhole(b) /\ DOMAIN b.size = (DOMAIN a.size \ {}) \cup {c} /\ b.size[c] = n
           /\ b.used_size = a.used_size /\ b.free_size = a.free_size
      BY <2>5, <2>9, SetChunkBooks
    <2>11. r \in DOMAIN b.size
      BY <2>9, <2>10
    <2>12. /\ IsWhole(d) /\ d.size = b.size
           /\ d.used_size = b.used_size /\ d.free_size = b.free_size
      BY <2>6, <2>10, <2>11, LinkBooks
    <2>13. /\ IsHeap(e) /\ e.size = d.size
           /\ e.used_size = d.used_size /\ e.free_size = d.free_size
      BY <2>7, <2>12, SetUsedIs DEF IsWhole
    <2>14. g.size = e.size /\ g.used_size = e.used_size + n /\ g.free_size = e.free_size + (m - w)
      BY <2>8, <2>13, AccountIs
    <2>15. DOMAIN g.size = DOMAIN h.size \cup {r} /\ g.size[c] = n
      BY <2>9, <2>10, <2>12, <2>13, <2>14
    <2>16. m - w = -n - 16
      BY <1>2, <2>2 DEF SizeField
    <2>17. Booked(h, g, n, -n - 16)
      BY <2>9, <2>10, <2>12, <2>13, <2>14, <2>16 DEF Booked
    <2>18. Moved(h, g, n)
      BY <2>3, <2>15, <2>17, OneChunkMore
    <2> QED
      BY <2>15, <2>18
  <1> QED
    BY <1>3, <1>4

LEMMA MallocMoves ==
  ASSUME NEW h, HeapInv(h), Counts(h), NEW n, Proper(n), NEW c, c = FindChunk(h, n), c # NULL,
         NEW g, g = Malloc(h, n)
  PROVE  Moved(h, g, g.size[c])
  <1>1. c \in DOMAIN h.size
    BY FindIs
  <1>2. IsWhole(h) /\ Sizes(h.size) /\ Tiled(h.size) /\ h.size[c] \in Int /\ n \in Int
    BY <1>1 DEF HeapInv, Loose, IsWhole, Sizes, Proper
  <1>3. PICK a : a = Unlink(h, c)
    OBVIOUS
  <1>4. /\ IsWhole(a) /\ a.size = h.size
        /\ a.used_size = h.used_size /\ a.free_size = h.free_size
    BY <1>2, <1>3, UnlinkBooks
  <1>5. Counts(a) /\ Slack(a) = Slack(h)
    BY <1>4 DEF Counts, Slack
  <1>6. a.size[c] >= n + 2 * SizeField + MinAlloc => Rest(c, n) \notin DOMAIN a.size
    <2>1. SUFFICES ASSUME a.size[c] >= n + 2 * SizeField + MinAlloc
                   PROVE  Rest(c, n) \notin DOMAIN a.size
      OBVIOUS
    <2>2. WasCut(h.size, Cut(h.size, c, n), c, n)
      BY <1>1, <1>2, <1>4, <2>1, CutKeeps DEF Proper
    <2> QED
      BY <1>4, <2>2 DEF WasCut
  <1>7. g = Carve(a, c, n)
    BY <1>3 DEF Malloc
  <1>8. Moved(a, g, g.size[c])
    BY <1>1, <1>2, <1>4, <1>5, <1>6, <1>7, CarveMoves
  <1> QED
    BY <1>4, <1>5, <1>8 DEF Moved

LEMMA FreeMoves ==
  ASSUME NEW h, HeapInv(h), Counts(h), NEW c \in h.used, NEW g, g = Free(h, c)
  PROVE  Moved(h, g, -h.size[c])
  <1>1. PICK p : p = PrevChunk(h, c)
    OBVIOUS
  <1>2. PICK x : x = NextChunk(h, c)
    OBVIOUS
  <1>3. PICK gone : gone = IF NextFree(h, c) THEN {c, x} ELSE {c}
    OBVIOUS
  <1>4. PICK f : f = IF PrevFree(h, c) THEN p ELSE c
    OBVIOUS
  <1>5. PICK over : over = (IF PrevFree(h, c) THEN 16 ELSE 0) + (IF NextFree(h, c) THEN 16 ELSE 0)
    OBVIOUS
  <1>6. /\ IsWhole(h) /\ c \in DOMAIN h.size /\ h.size[c] \in Nat
        /\ PrevFree(h, c) => p \in DOMAIN h.size \ h.used /\ h.size[p] \in Nat
        /\ NextFree(h, c) => x \in DOMAIN h.size \ h.used /\ h.size[x] \in Nat
        /\ PrevFree(h, c) /\ NextFree(h, c) => p # x
    BY <1>1, <1>2, FreeNeighbours
  <1>7. Freed(h, g, c, gone, f, over, FreedSize(h, c))
    BY <1>1, <1>2, <1>3, <1>4, <1>5, <1>6, FreeMakes
  <1>8. PICK a : a = -h.size[c]
    OBVIOUS
  <1>9. a \in Int
    BY <1>6, <1>8
  <1>10. over \in Int /\ h.size[c] + over = -a + over
    BY <1>5, <1>6, <1>8
  <1>11. /\ DOMAIN g.size = (DOMAIN h.size \ gone) \cup {f}
         /\ Booked(h, g, a, -a + over)
    BY <1>7, <1>8, <1>10 DEF Freed
  <1>12. CASE PrevFree(h, c) /\ NextFree(h, c)
    <2>1. /\ DOMAIN g.size = DOMAIN h.size \ {c, x} /\ c # x
          /\ x \in DOMAIN h.size
      BY <1>3, <1>4, <1>6, <1>11, <1>12
    <2>2. over = 32
      BY <1>5, <1>12
    <2>3. Booked(h, g, a, -a + 32)
      BY <1>11, <2>2
    <2> QED
      BY <1>6, <1>8, <1>9, <2>1, <2>3, TwoChunksLess
  <1>13. CASE PrevFree(h, c) /\ ~NextFree(h, c)
    <2>1. DOMAIN g.size = DOMAIN h.size \ {c}
      BY <1>3, <1>4, <1>6, <1>11, <1>13
    <2>2. over = 16
      BY <1>5, <1>13
    <2>3. Booked(h, g, a, -a + 16)
      BY <1>11, <2>2
    <2> QED
      BY <1>6, <1>8, <1>9, <2>1, <2>3, OneChunkLess
  <1>14. CASE ~PrevFree(h, c) /\ NextFree(h, c)
    <2>1. DOMAIN g.size = DOMAIN h.size \ {x} /\ x \in DOMAIN h.size
      BY <1>3, <1>4, <1>6, <1>11, <1>14
    <2>2. over = 16
      BY <1>5, <1>14
    <2>3. Booked(h, g, a, -a + 16)
      BY <1>11, <2>2
    <2> QED
      BY <1>8, <1>9, <2>1, <2>3, OneChunkLess
  <1>15. CASE ~PrevFree(h, c) /\ ~NextFree(h, c)
    <2>1. DOMAIN g.size = DOMAIN h.size
      BY <1>3, <1>4, <1>6, <1>11, <1>15
    <2>2. over = 0
      BY <1>5, <1>15
    <2>3. -a + over = -a
      BY <1>9, <2>2
    <2>4. Booked(h, g, a, -a)
      BY <1>11, <2>3
    <2> QED
      BY <1>8, <1>9, <2>1, <2>4, SameChunks
  <1> QED
    BY <1>12, <1>13, <1>14, <1>15

LEMMA GrowMoves ==
  ASSUME NEW h, HeapInv(h), Counts(h), NEW c \in h.used, NEW m, Proper(m),
         NextFree(h, c), NEW g, g = Grow(h, c, m)
  PROVE  g.size[c] \in Int /\ Moved(h, g, -h.size[c] + g.size[c])
  <1>1. PICK s : s = h.size
    OBVIOUS
  <1>2. PICK n : n = NextChunk(h, c)
    OBVIOUS
  <1>3. /\ Sizes(s) /\ Tiled(s) /\ c \in DOMAIN s /\ s[c] \in Nat /\ IsWhole(h)
        /\ Sizes(h.size) /\ Tiled(h.size)
    BY <1>1 DEF HeapInv, Loose, Sizes, IsWhole
  <1>4. n = End(s, c) /\ n \in DOMAIN s /\ n # c
    BY <1>1, <1>2, <1>3, EndIs, NextFreeIs, NeverBackwards
  <1>5. PICK t : t = Join(s, c)
    OBVIOUS
  <1>6. Sizes(t) /\ Tiled(t) /\ Joined(s, t, c, n)
    BY <1>3, <1>4, <1>5, JoinKeeps
  <1>7. PICK w : w = GrownSize(h, c)
    OBVIOUS
  <1>8. t[c] = w /\ c \in DOMAIN t /\ DOMAIN t = DOMAIN s \ {n} /\ w \in Nat
    BY <1>1, <1>2, <1>3, <1>6, <1>7 DEF Joined, GrownSize, Sizes
  <1>9. PICK a : a = Unlink(h, n)
    OBVIOUS
  <1>10. /\ IsWhole(a) /\ a.size = h.size
         /\ a.used_size = h.used_size /\ a.free_size = h.free_size
    BY <1>3, <1>9, UnlinkBooks
  <1>11. PICK b : b = SetChunk(a, {n}, c, w)
    OBVIOUS
  <1>12. /\ IsWhole(b) /\ DOMAIN b.size = (DOMAIN a.size \ {n}) \cup {c} /\ b.size[c] = w
         /\ b.used_size = a.used_size /\ b.free_size = a.free_size
    BY <1>10, <1>11, SetChunkBooks
  <1>13. PICK e : e = Account(b, -h.size[c], h.size[c] + 2 * SizeField)
    OBVIOUS
  <1>14. /\ IsHeap(e) /\ e.size = b.size /\ e.data = b.data
         /\ e.used_size = b.used_size + (-h.size[c])
         /\ e.free_size = b.free_size + (h.size[c] + 2 * SizeField)
    BY <1>12, <1>13, AccountIs DEF IsWhole
  <1>15. IsWhole(e)
    BY <1>12, <1>14 DEF IsWhole
  <1>16. PICK v : v = -h.size[c]
    OBVIOUS
  <1>17. v \in Int /\ h.size[c] + 2 * SizeField = -v + 16
    BY <1>1, <1>3, <1>16 DEF SizeField
  <1>18. Booked(h, e, v, -v + 16)
    BY <1>10, <1>12, <1>14, <1>16, <1>17 DEF Booked
  <1>19. DOMAIN e.size = DOMAIN h.size \ {n} /\ n \in DOMAIN h.size /\ c \in DOMAIN e.size
    BY <1>1, <1>3, <1>4, <1>10, <1>12, <1>14
  <1>20. Moved(h, e, v)
    BY <1>17, <1>18, <1>19, OneChunkLess
  <1>21. g = Carve(e, c, m)
    BY <1>2, <1>7, <1>9, <1>11, <1>13 DEF Grow
  <1>22. e.size[c] = w /\ DOMAIN e.size = DOMAIN t /\ m \in Int
    BY <1>1, <1>8, <1>12, <1>14, <1>19 DEF Proper
  <1>23. e.size[c] >= m + 2 * SizeField + MinAlloc => Rest(c, m) \notin DOMAIN e.size
    <2>1. SUFFICES ASSUME t[c] >= m + 2 * SizeField + MinAlloc
                   PROVE  Rest(c, m) \notin DOMAIN t
      BY <1>8, <1>22
    <2>2. WasCut(t, Cut(t, c, m), c, m)
      BY <1>6, <1>8, <2>1, CutKeeps DEF Proper
    <2> QED
      BY <2>2 DEF WasCut
  <1>24. Counts(e) /\ e.size[c] \in Int
    BY <1>8, <1>20, <1>22 DEF Moved
  <1>25. g.size[c] \in Int /\ Moved(e, g, g.size[c])
    BY <1>15, <1>19, <1>21, <1>22, <1>23, <1>24, CarveMoves
  <1>26. Moved(h, g, v + g.size[c])
    BY <1>17, <1>20, <1>25, MovedTwice
  <1> QED
    BY <1>16, <1>25, <1>26

(* The block c keeps n bytes, and the rest becomes chunk r. *)
LEMMA ShrinkBooks ==
  ASSUME NEW b, IsWhole(b), NEW r \in DOMAIN b.size, NEW c \in DOMAIN b.size, NEW n,
         NEW x, NEW y,
         NEW g, g = Account(SetUsed(SetChunk(Link(b, r), {}, c, n), c), x, y)
  PROVE  DOMAIN g.size = DOMAIN b.size /\ g.size[c] = n /\ Booked(b, g, x, y)
  <1>1. PICK d : d = Link(b, r)
    OBVIOUS
  <1>2. PICK e : e = SetChunk(d, {}, c, n)
    OBVIOUS
  <1>3. PICK f : f = SetUsed(e, c)
    OBVIOUS
  <1>4. /\ IsWhole(d) /\ d.size = b.size
        /\ d.used_size = b.used_size /\ d.free_size = b.free_size
    BY <1>1, LinkBooks
  <1>5. /\ IsWhole(e) /\ DOMAIN e.size = (DOMAIN d.size \ {}) \cup {c} /\ e.size[c] = n
        /\ e.used_size = d.used_size /\ e.free_size = d.free_size
    BY <1>2, <1>4, SetChunkBooks
  <1>6. IsHeap(f) /\ f.size = e.size /\ f.used_size = e.used_size /\ f.free_size = e.free_size
    BY <1>3, <1>5, SetUsedIs DEF IsWhole
  <1>7. g = Account(f, x, y)
    BY <1>1, <1>2, <1>3
  <1>8. g.size = f.size /\ g.used_size = f.used_size + x /\ g.free_size = f.free_size + y
    BY <1>6, <1>7, AccountIs
  <1>9. DOMAIN g.size = DOMAIN b.size
    BY <1>4, <1>5, <1>6, <1>8
  <1> QED
    BY <1>4, <1>5, <1>6, <1>8, <1>9 DEF Booked

LEMMA ShrinkMoves ==
  ASSUME NEW h, HeapInv(h), Counts(h), NEW c \in h.used, NEW m, Proper(m),
         m <= h.size[c] \div 4, NEW g, g = Shrink(h, c, m)
  PROVE  Moved(h, g, -h.size[c] + g.size[c])
  <1>1. PICK s : s = h.size
    OBVIOUS
  <1>2. PICK n : n = NextChunk(h, c)
    OBVIOUS
  <1>3. PICK r : r = Rest(c, m)
    OBVIOUS
  <1>4. PICK cut : cut = h.size[c] - m
    OBVIOUS
  <1>5. /\ Sizes(s) /\ Tiled(s) /\ c \in DOMAIN s /\ s[c] \in Nat /\ IsWhole(h)
        /\ Sizes(h.size) /\ Tiled(h.size)
    BY <1>1 DEF HeapInv, Loose, Sizes, IsWhole
  <1>6. m \in Nat /\ m % 8 = 0 /\ m >= MinAlloc /\ s[c] >= m + 2 * SizeField + MinAlloc
    <2>1. m \in Nat /\ m % 8 = 0 /\ m >= 24 /\ m <= s[c] \div 4
      BY <1>1 DEF Proper, MinAlloc
    <2>2. s[c] >= 4 * m
      BY <1>5, <2>1
    <2> QED
      BY <1>5, <2>1, <2>2 DEF MinAlloc, SizeField
  <1>7. cut \in Int /\ -cut \in Int /\ -cut = -h.size[c] + m
    BY <1>1, <1>4, <1>5, <1>6
  <1>8. CASE ~NextFree(h, c)
    <2>1. WasCut(s, Cut(s, c, m), c, m)
      BY <1>5, <1>6, CutKeeps
    <2>2. r \notin DOMAIN h.size
      BY <1>1, <1>3, <2>1 DEF WasCut
    <2>3. PICK b : b = SetChunk(h, {}, r, cut - 2 * SizeField)
      OBVIOUS
    <2>4. /\ IsWhole(b) /\ DOMAIN b.size = (DOMAIN h.size \ {}) \cup {r}
          /\ b.used_size = h.used_size /\ b.free_size = h.free_size
      BY <1>5, <2>3, SetChunkBooks
    <2>5. g = Account(SetUsed(SetChunk(Link(b, r), {}, c, m), c), -cut, cut - 2 * SizeField)
      BY <1>3, <1>4, <1>8, <2>3 DEF Shrink, Rest
    <2>6. r \in DOMAIN b.size /\ c \in DOMAIN b.size
      BY <1>1, <1>5, <2>4
    <2>7. DOMAIN g.size = DOMAIN b.size /\ g.size[c] = m /\ Booked(b, g, -cut, cut - 2 * SizeField)
      BY <2>4, <2>5, <2>6, ShrinkBooks
    <2>8. PICK v : v = -cut
      OBVIOUS
    <2>9. v \in Int /\ cut - 2 * SizeField = -v - 16
      BY <1>7, <2>8 DEF SizeField
    <2>10. Booked(h, g, v, -v - 16)
      BY <2>4, <2>7, <2>8, <2>9 DEF Booked
    <2>11. DOMAIN g.size = DOMAIN h.size \cup {r}
      BY <2>4, <2>7
    <2>12. Moved(h, g, v)
      BY <2>2, <2>9, <2>10, <2>11, OneChunkMore
    <2> QED
      BY <1>7, <2>7, <2>8, <2>12
  <1>9. CASE NextFree(h, c)
    <2>1. n = End(s, c) /\ n \in DOMAIN s /\ n # c
      BY <1>1, <1>2, <1>5, <1>9, EndIs, NextFreeIs, NeverBackwards
    <2>2. PICK j : j = Join(s, c)
      OBVIOUS
    <2>3. Sizes(j) /\ Tiled(j) /\ Joined(s, j, c, n)
      BY <1>5, <2>1, <2>2, JoinKeeps
    <2>4. s[n] \in Nat
      BY <1>5, <2>1 DEF Sizes
    <2>5. /\ DOMAIN j = DOMAIN s \ {n} /\ c \in DOMAIN j
          /\ j[c] = s[c] + 2 * SizeField + s[n] /\ j[c] >= m + 2 * SizeField + MinAlloc
      BY <1>5, <1>6, <2>1, <2>3, <2>4 DEF Joined, SizeField, MinAlloc
    <2>6. WasCut(j, Cut(j, c, m), c, m)
      BY <1>6, <2>3, <2>5, CutKeeps
    <2>7. r \notin DOMAIN h.size \ {n}
      BY <1>1, <1>3, <2>5, <2>6 DEF WasCut
    <2>8. PICK a : a = Unlink(h, n)
      OBVIOUS
    <2>9. /\ IsWhole(a) /\ a.size = h.size
          /\ a.used_size = h.used_size /\ a.free_size = h.free_size
      BY <1>5, <2>8, UnlinkBooks
    <2>10. PICK b : b = SetChunk(a, {n}, r, h.size[n] + cut)
      OBVIOUS
    <2>11. /\ IsWhole(b) /\ DOMAIN b.size = (DOMAIN a.size \ {n}) \cup {r}
           /\ b.used_size = a.used_size /\ b.free_size = a.free_size
      BY <2>9, <2>10, SetChunkBooks
    <2>12. g = Account(SetUsed(SetChunk(Link(b, r), {}, c, m), c), -cut, cut)
      BY <1>2, <1>3, <1>4, <1>9, <2>8, <2>10 DEF Shrink, Rest
    <2>13. r \in DOMAIN b.size /\ c \in DOMAIN b.size
      BY <1>1, <1>5, <2>1, <2>9, <2>11
    <2>14. DOMAIN g.size = DOMAIN b.size /\ g.size[c] = m /\ Booked(b, g, -cut, cut)
      BY <2>11, <2>12, <2>13, ShrinkBooks
    <2>15. PICK v : v = -cut
      OBVIOUS
    <2>16. v \in Int /\ cut = -v
      BY <1>7, <2>15
    <2>17. Booked(h, g, v, -v)
      BY <2>9, <2>11, <2>14, <2>15, <2>16 DEF Booked
    <2>18. DOMAIN g.size = (DOMAIN h.size \ {n}) \cup {r} /\ n \in DOMAIN h.size
      BY <1>1, <2>1, <2>9, <2>11, <2>14
    <2>19. Moved(h, g, v)
      BY <2>7, <2>16, <2>17, <2>18, OneChunkFor
    <2> QED
      BY <1>7, <2>14, <2>15, <2>19
  <1> QED
    BY <1>8, <1>9

-----------------------------------------------------------------------------
(* The byte counts are the sums. *)
Counted(h) ==
    /\ h.used_size \in Int /\ h.free_size \in Int
    /\ h.used_size = SumOf(h.size, h.used)
    /\ Slack(h) = HiBound

LEMMA CountedCounts == ASSUME NEW h, HeapInv(h), Counted(h) PROVE Counts(h)
  BY ChunksAreFinite DEF Counted, Counts

LEMMA UsedAre ==
  ASSUME NEW h, HeapInv(h)
  PROVE  IsFiniteSet(h.used) /\ \A x \in h.used : h.size[x] \in Nat
  <1>1. h.used \subseteq DOMAIN h.size /\ \A x \in DOMAIN h.size : h.size[x] \in Nat
    BY DEF HeapInv, Loose, Sizes
  <1> QED
    BY <1>1, ChunksAreFinite, FS_Subset

LEMMA CountsCome ==
  ASSUME NEW h, HeapInv(h), Counted(h), NEW g, NEW c, NEW n, NEW d,
         Added(h, g, h.used, c, n, d), Moved(h, g, g.size[c])
  PROVE  Counted(g)
  <1>1. HeapInv(g) /\ g.used = h.used \cup {c} /\ c \notin h.used /\ Keeps(h, g, h.used)
    BY DEF Added
  <1>2. IsFiniteSet(h.used) /\ \A x \in h.used : g.size[x] = h.size[x]
    BY <1>1, UsedAre DEF Keeps
  <1>3. \A x \in h.used \cup {c} : g.size[x] \in Nat
    BY <1>1, UsedAre
  <1>4. SumOf(g.size, h.used) = SumOf(h.size, h.used)
    BY <1>2, SumSame
  <1>5. SumOf(g.size, h.used \cup {c}) = g.size[c] + SumOf(g.size, h.used)
    BY <1>1, <1>2, <1>3, SumWith
  <1>6. h.used_size = SumOf(h.size, h.used) /\ h.used_size \in Int /\ Slack(h) = HiBound
    BY DEF Counted
  <1>7. g.used_size = h.used_size + g.size[c] /\ Slack(g) = Slack(h)
        /\ g.used_size \in Int /\ g.free_size \in Int /\ g.size[c] \in Int
    BY <1>3 DEF Moved, Counts
  <1>8. g.used_size = g.size[c] + SumOf(g.size, h.used)
    BY <1>4, <1>6, <1>7
  <1> QED
    BY <1>1, <1>5, <1>6, <1>7, <1>8 DEF Counted

LEMMA CountsGo ==
  ASSUME NEW h, HeapInv(h), Counted(h), NEW g, NEW c \in h.used,
         Settled(h, g, h.used \ {c}), Moved(h, g, -h.size[c])
  PROVE  Counted(g)
  <1>1. PICK U : U = h.used \ {c}
    OBVIOUS
  <1>2. HeapInv(g) /\ g.used = U /\ Keeps(h, g, U)
    BY <1>1 DEF Settled
  <1>3. IsFiniteSet(h.used) /\ \A x \in h.used : h.size[x] \in Nat
    BY UsedAre
  <1>4. IsFiniteSet(U) /\ \A x \in U : g.size[x] = h.size[x] /\ h.size[x] \in Nat
    BY <1>1, <1>2, <1>3, FS_Subset DEF Keeps
  <1>5. SumOf(g.size, U) = SumOf(h.size, U) /\ SumOf(h.size, U) \in Nat
    BY <1>4, SumSame, SumType
  <1>6. SumOf(h.size, h.used) = h.size[c] + SumOf(h.size, U)
    BY <1>1, <1>3, SumWithout
  <1>7. h.used_size = SumOf(h.size, h.used) /\ Slack(h) = HiBound
    BY DEF Counted
  <1>8. g.used_size = h.used_size + (-h.size[c]) /\ Slack(g) = Slack(h)
        /\ g.used_size \in Int /\ g.free_size \in Int /\ h.size[c] \in Int
    BY <1>3 DEF Moved, Counts
  <1>9. g.used_size = SumOf(g.size, U)
    BY <1>5, <1>6, <1>7, <1>8
  <1> QED
    BY <1>2, <1>7, <1>8, <1>9 DEF Counted

LEMMA CountsChange ==
  ASSUME NEW h, HeapInv(h), Counted(h), NEW g, NEW c \in h.used, NEW n, NEW d,
         Added(h, g, h.used \ {c}, c, n, d), Moved(h, g, -h.size[c] + g.size[c])
  PROVE  Counted(g)
  <1>1. PICK U : U = h.used \ {c}
    OBVIOUS
  <1>2. HeapInv(g) /\ g.used = U \cup {c} /\ c \notin U /\ Keeps(h, g, U)
    BY <1>1 DEF Added
  <1>3. IsFiniteSet(h.used) /\ \A x \in h.used : h.size[x] \in Nat
    BY UsedAre
  <1>4. IsFiniteSet(U) /\ \A x \in U : g.size[x] = h.size[x] /\ h.size[x] \in Nat
    BY <1>1, <1>2, <1>3, FS_Subset DEF Keeps
  <1>5. \A x \in U \cup {c} : g.size[x] \in Nat
    BY <1>2, UsedAre
  <1>6. SumOf(g.size, U) = SumOf(h.size, U) /\ SumOf(h.size, U) \in Nat
    BY <1>4, SumSame, SumType
  <1>7. SumOf(h.size, h.used) = h.size[c] + SumOf(h.size, U)
    BY <1>1, <1>3, SumWithout
  <1>8. SumOf(g.size, U \cup {c}) = g.size[c] + SumOf(g.size, U)
    BY <1>2, <1>4, <1>5, SumWith
  <1>9. h.used_size = SumOf(h.size, h.used) /\ Slack(h) = HiBound
    BY DEF Counted
  <1>10. g.used_size = h.used_size + (-h.size[c] + g.size[c]) /\ Slack(g) = Slack(h)
         /\ g.used_size \in Int /\ g.free_size \in Int
    BY DEF Moved, Counts
  <1>11. h.size[c] \in Int /\ g.size[c] \in Int
    BY <1>3, <1>5
  <1>12. g.used_size = g.size[c] + SumOf(g.size, U)
    BY <1>6, <1>7, <1>9, <1>10, <1>11
  <1> QED
    BY <1>2, <1>8, <1>9, <1>10, <1>12 DEF Counted

(* What each call does to them *)
LEMMA MallocCounts ==
  ASSUME NEW h, HeapInv(h), Counted(h), NEW n, Proper(n), NEW c, c = FindChunk(h, n), c # NULL,
         NEW d \in Data \cup {Junk}, NEW g, g = [Malloc(h, n) EXCEPT !.data[c] = d]
  PROVE  Counted(g) /\ Added(h, g, h.used, c, n, d)
  <1>1. PICK f : f = Malloc(h, n)
    OBVIOUS
  <1>2. Moved(h, f, f.size[c])
    BY <1>1, CountedCounts, MallocMoves
  <1>3. IsHeap(f)
    BY <1>1, MallocKeeps DEF HeapInv, Loose
  <1>4. PICK e : e = [f.data EXCEPT ![c] = d]
    OBVIOUS
  <1>5. g = [size |-> f.size, used |-> f.used, prev |-> f.prev, next |-> f.next,
             bucket |-> f.bucket, used_size |-> f.used_size, free_size |-> f.free_size,
             data |-> e]
    BY <1>1, <1>3, <1>4 DEF IsHeap
  <1>6. g.size = f.size /\ g.used_size = f.used_size /\ g.free_size = f.free_size
    BY <1>5
  <1>7. Moved(h, g, g.size[c])
    BY <1>2, <1>6 DEF Moved, Counts, Slack
  <1>8. Added(h, g, h.used, c, n, d)
    BY MallocStores
  <1> QED
    BY <1>7, <1>8, CountsCome

LEMMA FreeCounts ==
  ASSUME NEW h, HeapInv(h), Counted(h), NEW c \in h.used
  PROVE  Counted(Free(h, c))
  <1>1. PICK g : g = Free(h, c)
    OBVIOUS
  <1>2. Settled(h, g, h.used \ {c}) /\ Moved(h, g, -h.size[c])
    BY <1>1, FreeKeeps, CountedCounts, FreeMoves
  <1> QED
    BY <1>1, <1>2, CountsGo

LEMMA GrowCounts ==
  ASSUME NEW h, HeapInv(h), Counted(h), NEW c \in h.used, NEW m, Proper(m),
         NextFree(h, c), GrownSize(h, c) >= m
  PROVE  Counted(Grow(h, c, m))
  <1>1. PICK g : g = Grow(h, c, m)
    OBVIOUS
  <1>2. Added(h, g, h.used \ {c}, c, m, h.data[c])
    BY <1>1, GrowKeeps, ResizedIsAdded
  <1>3. Moved(h, g, -h.size[c] + g.size[c])
    BY <1>1, CountedCounts, GrowMoves
  <1> QED
    BY <1>1, <1>2, <1>3, CountsChange

LEMMA ShrinkCounts ==
  ASSUME NEW h, HeapInv(h), Counted(h), NEW c \in h.used, NEW m, Proper(m),
         m <= h.size[c] \div 4
  PROVE  Counted(Shrink(h, c, m))
  <1>1. PICK g : g = Shrink(h, c, m)
    OBVIOUS
  <1>2. Added(h, g, h.used \ {c}, c, m, h.data[c])
    BY <1>1, ShrinkKeeps, ResizedIsAdded
  <1>3. Moved(h, g, -h.size[c] + g.size[c])
    BY <1>1, CountedCounts, ShrinkMoves
  <1> QED
    BY <1>1, <1>2, <1>3, CountsChange

LEMMA MoveCounts ==
  ASSUME NEW h, HeapInv(h), Counted(h), NEW c \in h.used, NEW n, Proper(n),
         FindChunk(h, n) # NULL
  PROVE  Counted(Move(h, c, n))
  <1>1. PICK w : w = FindChunk(h, n)
    OBVIOUS
  <1>2. PICK f : f = Malloc(h, n)
    OBVIOUS
  <1>3. PICK g : g = [f EXCEPT !.data[w] = h.data[c]]
    OBVIOUS
  <1>4. Counted(g) /\ Added(h, g, h.used, w, n, h.data[c])
    BY <1>1, <1>2, <1>3, DataOf, MallocCounts
  <1>5. f.data[c] = h.data[c]
    BY <1>1, <1>2, MallocKeeps DEF Keeps
  <1>6. Move(h, c, n) = Free(g, c)
    BY <1>1, <1>2, <1>3, <1>5 DEF Move
  <1>7. HeapInv(g) /\ c \in g.used
    BY <1>4 DEF Added
  <1> QED
    BY <1>4, <1>6, <1>7, FreeCounts

LEMMA SqueezeCounts ==
  ASSUME NEW h, HeapInv(h), Counted(h), NEW c \in h.used, NEW n, Proper(n),
         FindChunk(Free(h, c), n) # NULL
  PROVE  Counted(Squeeze(h, c, n))
  <1>1. PICK f : f = Free(h, c)
    OBVIOUS
  <1>2. PICK w : w = FindChunk(f, n)
    OBVIOUS
  <1>3. HeapInv(f) /\ Counted(f)
    BY <1>1, FreeKeeps, FreeCounts DEF Settled
  <1>4. PICK g : g = [Malloc(f, n) EXCEPT !.data[w] = h.data[c]]
    OBVIOUS
  <1>5. Counted(g)
    BY <1>1, <1>2, <1>3, <1>4, DataOf, MallocCounts
  <1>6. Squeeze(h, c, n) = g
    BY <1>1, <1>2, <1>4 DEF Squeeze
  <1> QED
    BY <1>5, <1>6

LEMMA FreshCounts == Counted(Fresh)
  <1>1. Total \in Nat /\ Total >= MinAlloc
    BY InitialChunk, TotalAtLeast DEF MinAlloc
  <1>2. PICK h : h = Fresh
    OBVIOUS
  <1>3. DOMAIN h.size = {0} /\ h.used = {} /\ h.used_size = 0 /\ h.free_size = Total
    BY <1>2 DEF Fresh
  <1>4. Cardinality(DOMAIN h.size) = 1
    BY <1>3, FS_Singleton
  <1>5. 0 + Total + 16 * 1 = Total + 2 * 8
    BY <1>1
  <1>6. Slack(h) = HiBound
    BY <1>3, <1>4, <1>5 DEF Slack, HiBound, SizeField
  <1>7. SumOf(h.size, {}) = 0
    BY SumOfNone
  <1> QED
    BY <1>1, <1>2, <1>3, <1>6, <1>7 DEF Counted

-----------------------------------------------------------------------------
(* What nt_mem_dump_stats counts *)

(* The steps of the walk are one to one with the chunks of the bucket. *)
LEMMA WalkCounts ==
  ASSUME NEW h, NEW F, NULL \notin F, Listed(h, F), IsFiniteSet(F), NEW b \in Bucket
  PROVE  CountFree(h, b) = Cardinality(Met(h, F, b))
  <1>1. PICK list : list = List(h, b)
    OBVIOUS
  <1>2. /\ DOMAIN list = 0 .. Cardinality(F) /\ Cardinality(F) \in Nat
        /\ \A i \in DOMAIN list : list[i] # NULL => list[i] \in Met(h, F, b)
        /\ \A i, j \in DOMAIN list : i < j /\ list[j] # NULL => list[i] # list[j]
        /\ \A c \in Met(h, F, b) : \E i \in DOMAIN list : list[i] = c
    BY <1>1, WalkMeets
  <1>3. PICK I : I = {i \in DOMAIN list : list[i] # NULL}
    OBVIOUS
  <1>4. PICK M : M = Met(h, F, b)
    OBVIOUS
  <1>5. NULL \notin M
    BY <1>4 DEF Met
  <1>6. PICK f : f = [i \in I |-> list[i]]
    OBVIOUS
  <1>7. f \in [I -> M]
    BY <1>2, <1>3, <1>4, <1>6
  <1>8. ASSUME NEW i \in I, NEW j \in I, f[i] = f[j] PROVE i = j
    <2>1. list[i] = list[j] /\ list[i] # NULL /\ list[j] # NULL
          /\ i \in DOMAIN list /\ j \in DOMAIN list
      BY <1>3, <1>6, <1>8
    <2>2. i \in Nat /\ j \in Nat
      BY <1>2, <2>1
    <2>3. ~(i < j) /\ ~(j < i)
      BY <1>2, <2>1
    <2> QED
      BY <2>2, <2>3
  <1>9. ASSUME NEW c \in M PROVE \E i \in I : f[i] = c
    BY <1>2, <1>3, <1>4, <1>5, <1>6
  <1>10. f \in Injection(I, M)
    BY <1>7, <1>8 DEF Injection, IsInjective
  <1>11. f \in Surjection(I, M)
    BY <1>7, <1>9 DEF Surjection
  <1>12. ExistsBijection(I, M)
    BY <1>10, <1>11 DEF ExistsBijection, Bijection
  <1>13. IsFiniteSet(I)
    <2>1. IsFiniteSet(0 .. Cardinality(F))
      BY <1>2, FS_Interval
    <2> QED
      BY <1>2, <1>3, <2>1, FS_Subset
  <1>14. Cardinality(M) = Cardinality(I)
    BY <1>12, <1>13, FS_Bijection
  <1> QED
    BY <1>1, <1>3, <1>4, <1>14 DEF CountFree

LEMMA BucketsFinite == IsFiniteSet(Bucket)
  <1>1. 0 \in Int /\ BucketCount - 1 \in Int
    BY LastIsBucket
  <1> QED
    BY <1>1, FS_Interval DEF Bucket

PerBucket(h, F, free) == \A b \in Bucket : free[b] = Cardinality(Met(h, F, b))

LEMMA BucketsAddUp ==
  ASSUME NEW h, NEW F, IsFiniteSet(F), \A c \in F : BucketOf(h, c) \in Bucket,
         NEW free, PerBucket(h, F, free)
  PROVE  SumOf(free, Bucket) = Cardinality(F)
  <1> DEFINE In(B) == {c \in F : BucketOf(h, c) \in B}
             AddsUp(B) == SumOf(free, B) = Cardinality(In(B))
             Bad == {B \in SUBSET Bucket : ~AddsUp(B)}
  <1>1. \A B \in SUBSET Bucket : IsFiniteSet(B) /\ Cardinality(B) \in Nat
    BY BucketsFinite, FS_Subset, FS_CardinalityType
  <1>2. \A B : IsFiniteSet(In(B)) /\ Cardinality(In(B)) \in Nat
    BY FS_Subset, FS_CardinalityType
  <1>3. \A b \in Bucket :
          /\ IsFiniteSet(Met(h, F, b)) /\ free[b] = Cardinality(Met(h, F, b)) /\ free[b] \in Nat
    BY FS_Subset, FS_CardinalityType DEF PerBucket, Met
  <1>4. ASSUME NEW B \in SUBSET Bucket PROVE AddsUp(B)
    <2>1. SUFFICES ASSUME Bad # {} PROVE FALSE
      BY <2>1
    <2>2. PICK A \in Bad : \A C \in Bad : Cardinality(A) <= Cardinality(C)
      BY <1>1, <2>1, SmallestSet
    <2>3. A \in SUBSET Bucket /\ ~AddsUp(A)
      BY <2>2
    <2>4. A # {}
      <3>1. In({}) = {}
        OBVIOUS
      <3>2. AddsUp({})
        BY <3>1, SumOfNone, FS_EmptySet
      <3> QED
        BY <2>3, <3>2
    <2>5. PICK b \in A : TRUE
      BY <2>4
    <2>6. PICK C : C = A \ {b}
      OBVIOUS
    <2>7. C \in SUBSET Bucket /\ Cardinality(C) = Cardinality(A) - 1
      BY <1>1, <2>3, <2>5, <2>6, FS_RemoveElement
    <2>8. Cardinality(A) \in Nat
      BY <1>1, <2>3
    <2> HIDE DEF AddsUp
    <2>9. C \notin Bad
      <3> HIDE DEF Bad
      <3> QED
        BY <2>2, <2>7, <2>8
    <2>10. AddsUp(C)
      BY <2>7, <2>9
    <2>11. SumOf(free, A) = free[b] + SumOf(free, C)
      BY <1>1, <1>3, <2>3, <2>5, <2>6, SumWithout
    <2>12. In(A) = In(C) \cup Met(h, F, b) /\ In(C) \cap Met(h, F, b) = {}
      BY <2>5, <2>6 DEF Met
    <2>13. SumOf(free, C) = Cardinality(In(C))
      BY <2>10 DEF AddsUp
    <2> HIDE DEF In
    <2>14. Cardinality(In(A)) = Cardinality(In(C)) + Cardinality(Met(h, F, b))
      <3>1. b \in Bucket
        BY <2>3, <2>5
      <3>2. Cardinality(In(C) \cup Met(h, F, b))
              = Cardinality(In(C)) + Cardinality(Met(h, F, b)) - Cardinality(In(C) \cap Met(h, F, b))
        BY <1>2, <1>3, <3>1, FS_Union
      <3>3. Cardinality(In(C) \cap Met(h, F, b)) = 0
        BY <2>12, FS_EmptySet
      <3>4. Cardinality(In(C)) \in Nat /\ Cardinality(Met(h, F, b)) \in Nat
        BY <1>2, <1>3, <3>1
      <3> QED
        BY <2>12, <3>2, <3>3, <3>4
    <2>15. free[b] = Cardinality(Met(h, F, b)) /\ free[b] \in Nat /\ Cardinality(In(C)) \in Nat
      BY <1>2, <1>3, <2>3, <2>5
    <2>16. SumOf(free, A) = Cardinality(In(A))
      BY <2>11, <2>13, <2>14, <2>15
    <2> QED
      BY <2>3, <2>16 DEF AddsUp
  <1>5. In(Bucket) = F
    OBVIOUS
  <1>6. AddsUp(Bucket)
    BY <1>4
  <1> QED
    BY <1>5, <1>6

LEMMA StatsAre ==
  ASSUME NEW h, HeapInv(h), Counted(h), NEW F, F = DOMAIN h.size \ h.used
  PROVE  /\ h.free_size = SumOf(h.size, F)
         /\ DumpStats(h).used = Cardinality(h.used)
         /\ \A b \in Bucket : DumpStats(h).free[b] = Cardinality(Met(h, F, b))
  <1>1. PICK s : s = h.size
    OBVIOUS
  <1>2. PICK D : D = DOMAIN s
    OBVIOUS
  <1>3. Listed(h, F) /\ NULL \notin F /\ IsFiniteSet(F) /\ IsFiniteSet(D)
    BY <1>1, <1>2, FreeOf
  <1>4. /\ Sizes(s) /\ Tiled(s) /\ h.used \subseteq D /\ F = D \ h.used
        /\ \A x \in D : s[x] \in Nat
    BY <1>1, <1>2 DEF HeapInv, Loose, Sizes
  <1>5. PICK k : k = Cardinality(D)
    OBVIOUS
  <1>6. PICK u : u = Cardinality(h.used)
    OBVIOUS
  <1>7. k \in Nat /\ u \in Nat /\ IsFiniteSet(h.used)
    BY <1>3, <1>4, <1>5, <1>6, FS_Subset, FS_CardinalityType
  <1>8. Cardinality(F) = k - u
    <2>1. D \cap h.used = h.used
      BY <1>4
    <2>2. Cardinality(D \ h.used) = Cardinality(D) - Cardinality(D \cap h.used)
      BY <1>3, FS_Difference
    <2> QED
      BY <1>4, <1>5, <1>6, <2>1, <2>2
  <1>9. PICK su : su = SumOf(s, h.used)
    OBVIOUS
  <1>10. PICK sf : sf = SumOf(s, F)
    OBVIOUS
  <1>11. su \in Nat /\ sf \in Nat
    BY <1>3, <1>4, <1>7, <1>9, <1>10, SumType
  <1>12. SumOf(s, D) = su + sf
    BY <1>3, <1>4, <1>9, <1>10, SumParts
  <1>13. SumOf(s, D) + 16 * k = HiBound
    BY <1>2, <1>3, <1>4, <1>5, TilesAddUp
  <1>14. h.used_size = su /\ h.used_size + h.free_size + 16 * k = HiBound /\ h.free_size \in Int
    BY <1>1, <1>2, <1>5, <1>9 DEF Counted, Slack
  <1>15. h.free_size = sf
    BY <1>7, <1>11, <1>12, <1>13, <1>14
  <1>16. CountChunks(h) = k
    <2>1. Total \in Int /\ HiBound = Total + 16
      BY TotalAtLeast DEF HiBound, SizeField
    <2>2. Total - h.used_size - h.free_size = 16 * (k - 1)
      BY <1>7, <1>11, <1>14, <2>1
    <2>3. (16 * (k - 1)) \div 16 = k - 1
      BY <1>7
    <2>4. CountChunks(h) = (Total - h.used_size - h.free_size) \div 16 + 1
      BY DEF CountChunks, SizeField
    <2> QED
      BY <1>7, <2>2, <2>3, <2>4
  <1>17. PICK free : free = [b \in Bucket |-> CountFree(h, b)]
    OBVIOUS
  <1>18. PerBucket(h, F, free)
    BY <1>3, <1>17, WalkCounts DEF PerBucket
  <1>19. SumOf(free, Bucket) = Cardinality(F)
    BY <1>3, <1>18, BucketsAddUp DEF Listed
  <1>20. DumpStats(h) = [free |-> free, used |-> CountChunks(h) - SumOf(free, Bucket)]
    BY <1>17 DEF DumpStats, SumOf
  <1>21. DumpStats(h).used = u /\ DumpStats(h).free = free
    BY <1>7, <1>8, <1>16, <1>19, <1>20
  <1> QED
    BY <1>1, <1>6, <1>10, <1>15, <1>18, <1>21 DEF PerBucket

-----------------------------------------------------------------------------
(* The specification *)

MInv == HeapInv(heap) /\ exited \in BOOLEAN

LEMMA ProperIs == ASSUME NEW n \in Request PROVE Proper(ProperSize(n)) /\ ProperSize(n) >= n
  <1>1. n \in Nat
    BY MemAssumption
  <1> QED
    BY <1>1, ProperSizeBounds DEF Proper

(* What a call that succeeds does: the heap stays, or is all fresh, or a   *)
(* block goes, or comes, or comes in place of another.                     *)
Comes(n, c, d) == Added(heap, heap', heap.used, c, n, d)
Goes(c) == c \in heap.used /\ Settled(heap, heap', heap.used \ {c})
Becomes(c, w, n) == c \in heap.used /\ Added(heap, heap', heap.used \ {c}, w, n, heap.data[c])

LEMMA StepIs ==
  ASSUME MInv, Next
  PROVE  /\ exited' \in BOOLEAN
         /\ \/ heap' = heap
            \/ heap' = Fresh
            \/ \E n \in Request, d \in Data : \E c : Comes(n, c, d)
            \/ \E c \in heap.used : Goes(c)
            \/ \E n \in Request, c \in heap.used : \E w : Becomes(c, w, n)
  <1> USE DEF MInv
  <1>1. ASSUME NEW n \in Request, NEW d \in Data, NtMemMalloc(n, d)
        PROVE  exited' \in BOOLEAN /\ \E c : Comes(n, c, d)
    <2>1. PICK m : m = ProperSize(n)
      OBVIOUS
    <2>2. PICK c : c = FindChunk(heap, m)
      OBVIOUS
    <2>3. Proper(m) /\ m >= n /\ n \in Nat
      BY <2>1, ProperIs, MemAssumption
    <2>4. c # NULL /\ heap' = [Malloc(heap, m) EXCEPT !.data[c] = d] /\ exited' = exited
      BY <1>1, <2>1, <2>2 DEF NtMemMalloc, Returns
    <2>5. Added(heap, heap', heap.used, c, m, d)
      BY <2>2, <2>3, <2>4, MallocStores
    <2>6. c \in DOMAIN heap'.size /\ heap'.size[c] \in Nat
      BY <2>5 DEF Added, HeapInv, Loose, Sizes
    <2>7. Added(heap, heap', heap.used, c, n, d)
      BY <2>3, <2>5, <2>6 DEF Added, Proper
    <2> QED
      BY <2>4, <2>7 DEF Comes
  <1>2. ASSUME OutOfMemory PROVE exited' \in BOOLEAN /\ heap' = heap
    BY <1>2, MemAssumption DEF OutOfMemory
  <1>3. ASSUME NEW n \in Request, MallocFails(n) PROVE exited' \in BOOLEAN /\ heap' = heap
    BY <1>2, <1>3 DEF MallocFails
  <1>4. ASSUME NEW c \in Address, NtMemFree(c) PROVE exited' \in BOOLEAN /\ Goes(c) /\ c \in heap.used
    BY <1>4, FreeKeeps DEF NtMemFree, Returns, Owned, Goes
  <1>5. ASSUME NEW c \in Address, NEW n \in Request, NtMemRealloc(c, ProperSize(n))
        PROVE  /\ exited' \in BOOLEAN
               /\ heap' = heap \/ (c \in heap.used /\ \E w : Becomes(c, w, n))
    <2>1. PICK m : m = ProperSize(n)
      OBVIOUS
    <2>2. Proper(m) /\ m >= n /\ n \in Nat
      BY <2>1, ProperIs, MemAssumption
    <2>3. ASSUME c \in heap.used, NEW w, Added(heap, heap', heap.used \ {c}, w, m, heap.data[c])
          PROVE  c \in heap.used /\ \E v : Becomes(c, v, n)
      <3>1. w \in DOMAIN heap'.size /\ heap'.size[w] \in Nat
        BY <2>3 DEF Added, HeapInv, Loose, Sizes
      <3>2. Added(heap, heap', heap.used \ {c}, w, n, heap.data[c])
        BY <2>2, <2>3, <3>1 DEF Added, Proper
      <3> QED
        BY <2>3, <3>2 DEF Becomes
    <2>4. CASE ReallocKeep(c, m)
      BY <2>4 DEF ReallocKeep, Returns
    <2>5. CASE ReallocShrink(c, m)
      <3>1. c \in heap.used /\ m <= heap.size[c] \div 4 /\ heap' = Shrink(heap, c, m) /\ exited' = exited
        BY <2>5 DEF ReallocShrink, Owned, Returns
      <3>2. Added(heap, heap', heap.used \ {c}, c, m, heap.data[c])
        BY <2>2, <3>1, ShrinkKeeps, ResizedIsAdded
      <3> QED
        BY <2>3, <3>1, <3>2
    <2>6. CASE ReallocGrow(c, m)
      <3>1. /\ c \in heap.used /\ NextFree(heap, c) /\ GrownSize(heap, c) >= m
            /\ heap' = Grow(heap, c, m) /\ exited' = exited
        BY <2>6 DEF ReallocGrow, Grows, Owned, Returns
      <3>2. Added(heap, heap', heap.used \ {c}, c, m, heap.data[c])
        BY <2>2, <3>1, GrowKeeps, ResizedIsAdded
      <3> QED
        BY <2>3, <3>1, <3>2
    <2>7. CASE ReallocMove(c, m)
      <3>1. /\ c \in heap.used /\ FindChunk(heap, m) # NULL
            /\ heap' = Move(heap, c, m) /\ exited' = exited
        BY <2>7 DEF ReallocMove, Owned, Returns
      <3>2. Added(heap, heap', heap.used \ {c}, FindChunk(heap, m), m, heap.data[c])
        BY <2>2, <3>1, MoveKeeps
      <3> QED
        BY <2>3, <3>1, <3>2
    <2>8. CASE ReallocSqueeze(c, m)
      <3>1. /\ c \in heap.used /\ FindChunk(Free(heap, c), m) # NULL
            /\ heap' = Squeeze(heap, c, m) /\ exited' = exited
        BY <2>8 DEF ReallocSqueeze, Owned, Returns
      <3>2. Added(heap, heap', heap.used \ {c}, FindChunk(Free(heap, c), m), m, heap.data[c])
        BY <2>2, <3>1, SqueezeKeeps
      <3> QED
        BY <2>3, <3>1, <3>2
    <2>9. CASE ReallocFails(c, m)
      BY <1>2, <2>9 DEF ReallocFails
    <2> QED
      BY <1>5, <2>1, <2>4, <2>5, <2>6, <2>7, <2>8, <2>9 DEF NtMemRealloc
  <1>6. ASSUME NtMemClear PROVE exited' \in BOOLEAN /\ heap' = Fresh
    BY <1>6 DEF NtMemClear, Returns
  <1>7. CASE \E n \in Request, d \in Data : NtMemMalloc(n, d)
    BY <1>1, <1>7
  <1>8. CASE \E n \in Request : MallocFails(n)
    BY <1>3, <1>8
  <1>9. CASE \E c \in Address : NtMemFree(c)
    BY <1>4, <1>9
  <1>10. CASE \E c \in Address, n \in Request : NtMemRealloc(c, ProperSize(n))
    BY <1>5, <1>10
  <1> QED
    BY <1>6, <1>7, <1>8, <1>9, <1>10 DEF Next

LEMMA MInvInductive == Spec => []MInv
  <1>1. Init => MInv
    BY FreshIs DEF Init, MInv
  <1>2. MInv /\ [Next]_vars => MInv'
    <2> SUFFICES ASSUME MInv, [Next]_vars PROVE MInv'
      OBVIOUS
    <2>1. CASE Next
      <3>1. exited' \in BOOLEAN
        BY <2>1, StepIs
      <3>2. HeapInv(heap')
        BY <2>1, StepIs, FreshIs DEF Comes, Goes, Becomes, Added, Settled, MInv
      <3> QED
        BY <3>1, <3>2 DEF MInv
    <2>2. CASE UNCHANGED vars
      BY <2>2 DEF vars, MInv
    <2> QED
      BY <2>1, <2>2
  <1> QED
    BY <1>1, <1>2, PTL DEF Spec

(* Between two calls every chunk has a size that the allocator makes, the  *)
(* chunks and their size fields tile the memory from lo_bound to hi_bound, *)
(* and no two free chunks lie side by side: of mem_split, merges on free   *)
(* and every way that __mem_realloc takes, none loses or doubles a byte.   *)
THEOREM ChunksTile == Spec => []Tiling
  <1>1. MInv => Tiling
    <2> SUFFICES ASSUME MInv PROVE Tiling
      OBVIOUS
    <2>1. PICK s : s = heap.size
      OBVIOUS
    <2>2. /\ Sizes(s) /\ Tiled(s) /\ heap.used \subseteq DOMAIN s
          /\ Merged(s, heap.used) /\ Chunks(heap) = DOMAIN s
          /\ IsFcn(heap.data, DOMAIN s)
          /\ \A x \in DOMAIN s : heap.data[x] \in Data \cup {Junk}
      BY <2>1 DEF MInv, HeapInv, Loose, Chunks
    <2>3. \A c \in DOMAIN s : NextChunk(heap, c) = End(s, c)
      BY <2>1, EndIs
    <2>4. Listed(heap, FreeChunks)
      <3>1. FreeChunks = DOMAIN heap.size \ (heap.used \cup {})
        BY DEF FreeChunks, Chunks
      <3> QED
        BY <3>1 DEF MInv, HeapInv, Loose
    <2>5. ASSUME NEW c \in DOMAIN s PROVE s[c] \in MinAlloc .. Total
      <3>1. c \in Nat /\ s[c] \in Nat /\ s[c] >= MinAlloc
        BY <2>2 DEF Sizes
      <3>2. c + s[c] + 16 <= Total + 16
        BY <2>2 DEF Tiled, End, HiBound, SizeField
      <3>3. Total \in Int
        BY TotalAtLeast
      <3> QED
        BY <3>1, <3>2, <3>3 DEF MinAlloc
    <2>6. heap.data \in [Chunks(heap) -> Data \cup {Junk}]
      BY <2>2 DEF IsFcn
    <2>7. TypeOK
      <3>1. DOMAIN heap.prev = FreeChunks /\ DOMAIN heap.next = FreeChunks
        BY <2>4 DEF Listed
      <3>2. \A c \in FreeChunks :
              {heap.prev[c], heap.next[c]} \subseteq FreeChunks \cup {NULL}
        BY <2>4 DEF Listed
      <3>3. heap.bucket \in [Bucket -> FreeChunks \cup {NULL}]
        BY <2>4 DEF Listed
      <3>4. \A c \in Chunks(heap) : c % 8 = 0 /\ heap.size[c] % 8 = 0
        BY <2>1, <2>2 DEF Sizes
      <3> QED
        BY <2>1, <2>2, <2>5, <2>6, <3>1, <3>2, <3>3, <3>4 DEF TypeOK, MInv
    <2>8. 0 \in Chunks(heap)
      BY <2>2 DEF Sizes
    <2>9. \A c \in Chunks(heap) : NextChunk(heap, c) \in Chunks(heap) \cup {HiBound}
      BY <2>2, <2>3 DEF Tiled
    <2>10. \A c, d \in Chunks(heap) : c < d => NextChunk(heap, c) <= d
      BY <2>2, <2>3 DEF Tiled
    <2>11. \A c \in FreeChunks : ~NextFree(heap, c)
      BY <2>1, <2>2, NextFreeIs DEF FreeChunks, Merged
    <2> QED
      BY <2>7, <2>8, <2>9, <2>10, <2>11 DEF Tiling
  <1> QED
    BY <1>1, MInvInductive, PTL

(* The lists in the memory of the free chunks are those of the bucket of   *)
(* every one: prev and next are inverse, and no free chunk is in another   *)
(* list or in none.                                                        *)
THEOREM ListsHoldTheFree == Spec => []ListsOk
  <1>1. MInv => ListsOk
    <2> SUFFICES ASSUME MInv PROVE ListsOk
      OBVIOUS
    <2>1. FreeChunks = DOMAIN heap.size \ (heap.used \cup {})
      BY DEF FreeChunks, Chunks
    <2>2. Listed(heap, FreeChunks) /\ NULL \notin FreeChunks
      <3>1. FreeChunks \subseteq Nat
        BY <2>1 DEF MInv, HeapInv, Loose
      <3> QED
        BY <2>1, <3>1, NullIsNone DEF MInv, HeapInv, Loose
    <2>3. \A c, d \in FreeChunks :
            /\ heap.next[c] = d => heap.prev[d] = c
            /\ heap.next[c] = d => BucketBySize(heap.size[d]) = BucketBySize(heap.size[c])
      BY <2>2 DEF Listed, BucketOf
    <2>4. \A c \in FreeChunks :
            IF heap.prev[c] = NULL
            THEN heap.bucket[BucketBySize(heap.size[c])] = c
            ELSE \E d \in FreeChunks : heap.prev[c] = d /\ heap.next[d] = c
      BY <2>2 DEF Listed, BucketOf
    <2>5. \A b \in Bucket : heap.bucket[b] # NULL =>
            \E c \in FreeChunks :
              heap.bucket[b] = c /\ heap.prev[c] = NULL /\ BucketBySize(heap.size[c]) = b
      BY <2>2 DEF Listed, BucketOf
    <2> QED
      BY <2>3, <2>4, <2>5 DEF ListsOk
  <1> QED
    BY <1>1, MInvInductive, PTL

(* A call fails only when it must: malloc finds a chunk whenever there is  *)
(* one that is big enough, and such a one; realloc returns without memory  *)
(* only where free followed by malloc would, and the size of the chunk     *)
(* that free would make is the one that __mem_realloc computes, so that    *)
(* THIS_SHOULD_NEVER_HAPPEN is never reached.                              *)
THEOREM CallsFailOnlyWhenTheyMust == Spec => []AllocExact
  <1>1. MInv => AllocExact
    <2> SUFFICES ASSUME MInv PROVE AllocExact
      OBVIOUS
    <2>1. HeapInv(heap) /\ FreeChunks = DOMAIN heap.size \ heap.used
      BY DEF MInv, FreeChunks, Chunks
    <2>2. ASSUME NEW r \in Request PROVE Proper(ProperSize(r))
      BY ProperIs
    <2>3. ASSUME NEW h, HeapInv(h), NEW c \in DOMAIN h.size PROVE h.size[c] \in Nat
      BY <2>3 DEF HeapInv, Sizes
    <2>4. MallocExact
      <3>1. SUFFICES ASSUME NEW r \in Request, NEW n, n = ProperSize(r)
                     PROVE  IF \E c \in FreeChunks : heap.size[c] >= n
                            THEN FindChunk(heap, n) \in {c \in FreeChunks : heap.size[c] >= n}
                            ELSE FindChunk(heap, n) = NULL
        BY DEF MallocExact
      <3>2. Proper(n) /\ n \in Nat
        BY <2>2, <3>1 DEF Proper
      <3>3. CASE FindChunk(heap, n) = NULL
        <4>1. ASSUME NEW c \in FreeChunks PROVE ~(heap.size[c] >= n)
          BY <2>1, <2>3, <3>2, <3>3, NothingIsMissed
        <4> QED
          BY <3>3, <4>1
      <3>4. CASE FindChunk(heap, n) # NULL
        BY <2>1, <3>2, <3>4, FindIs
      <3> QED
        BY <3>3, <3>4
    <2>5. ASSUME NEW c \in heap.used, NEW r \in Request, NEW n, n = ProperSize(r),
                 NoChunkBut(heap, c, n)
          PROVE  /\ n > FreedSize(heap, c) <=> FindChunk(Free(heap, c), n) = NULL
                 /\ n <= FreedSize(heap, c) <=> ~(n > FreedSize(heap, c))
      <3>1. Proper(n) /\ n \in Nat /\ FindChunk(heap, n) = NULL
        BY <2>2, <2>5 DEF Proper, NoChunkBut
      <3>2. PICK g : g = Free(heap, c)
        OBVIOUS
      <3>3. HeapInv(g)
        BY <2>1, <3>2, FreeKeeps DEF Settled
      <3>4. PICK f \in DOMAIN g.size \ g.used :
              /\ g.size[f] = FreedSize(heap, c)
              /\ \A y \in DOMAIN g.size \ (g.used \cup {f}) :
                   y \in DOMAIN heap.size \ heap.used /\ g.size[y] = heap.size[y]
        BY <2>1, <3>2, FreedIs
      <3>5. g.size[f] \in Nat
        BY <2>3, <3>3
      <3>6. CASE FindChunk(g, n) = NULL
        <4>1. g.size[f] < n
          BY <3>1, <3>3, <3>6, NothingIsMissed
        <4> QED
          BY <3>1, <3>2, <3>4, <3>5, <3>6, <4>1
      <3>7. CASE FindChunk(g, n) # NULL
        <4>1. PICK w : w = FindChunk(g, n)
          OBVIOUS
        <4>2. w \in DOMAIN g.size \ g.used /\ g.size[w] >= n
          BY <3>1, <3>3, <3>7, <4>1, FindIs
        <4>3. w = f
          <5>1. SUFFICES ASSUME w # f PROVE FALSE
            OBVIOUS
          <5>2. w \in DOMAIN heap.size \ heap.used /\ g.size[w] = heap.size[w]
            BY <3>4, <4>2, <5>1
          <5>3. heap.size[w] < n /\ heap.size[w] \in Nat
            BY <2>1, <2>3, <3>1, <5>2, NothingIsMissed
          <5> QED
            BY <3>1, <4>2, <5>2, <5>3
        <4> QED
          BY <3>1, <3>2, <3>4, <3>5, <3>7, <4>2, <4>3
      <3> QED
        BY <3>6, <3>7
    <2>6. ReallocExact
      BY <2>5 DEF ReallocExact, SqueezeImpossible
    <2> QED
      BY <2>4, <2>6 DEF AllocExact
  <1> QED
    BY <1>1, MInvInductive, PTL

CountInv == MInv /\ Counted(heap)

LEMMA StepCounts ==
  ASSUME CountInv, Next
  PROVE  Counted(heap')
  <1>1. HeapInv(heap) /\ Counted(heap)
    BY DEF CountInv, MInv
  <1>2. ASSUME NEW n \in Request, NEW d \in Data, NtMemMalloc(n, d) PROVE Counted(heap')
    <2>1. PICK m : m = ProperSize(n)
      OBVIOUS
    <2>2. PICK c : c = FindChunk(heap, m)
      OBVIOUS
    <2>3. c # NULL /\ heap' = [Malloc(heap, m) EXCEPT !.data[c] = d] /\ Proper(m)
      BY <1>2, <2>1, <2>2, ProperIs DEF NtMemMalloc
    <2> QED
      BY <1>1, <2>2, <2>3, MallocCounts
  <1>3. ASSUME OutOfMemory PROVE Counted(heap')
    BY <1>1, <1>3 DEF OutOfMemory
  <1>4. ASSUME NEW c \in Address, NtMemFree(c) PROVE Counted(heap')
    BY <1>1, <1>4, FreeCounts DEF NtMemFree, Owned
  <1>5. ASSUME NEW c \in Address, NEW n \in Request, NtMemRealloc(c, ProperSize(n))
        PROVE  Counted(heap')
    <2>1. PICK m : m = ProperSize(n)
      OBVIOUS
    <2>2. Proper(m)
      BY <2>1, ProperIs
    <2>3. CASE ReallocKeep(c, m)
      BY <1>1, <2>3 DEF ReallocKeep
    <2>4. CASE ReallocShrink(c, m)
      <3>1. c \in heap.used /\ m <= heap.size[c] \div 4 /\ heap' = Shrink(heap, c, m)
        BY <2>4 DEF ReallocShrink, Owned
      <3> QED
        BY <1>1, <2>2, <3>1, ShrinkCounts
    <2>5. CASE ReallocGrow(c, m)
      <3>1. /\ c \in heap.used /\ NextFree(heap, c) /\ GrownSize(heap, c) >= m
            /\ heap' = Grow(heap, c, m)
        BY <2>5 DEF ReallocGrow, Grows, Owned
      <3> QED
        BY <1>1, <2>2, <3>1, GrowCounts
    <2>6. CASE ReallocMove(c, m)
      <3>1. c \in heap.used /\ FindChunk(heap, m) # NULL /\ heap' = Move(heap, c, m)
        BY <2>6 DEF ReallocMove, Owned
      <3> QED
        BY <1>1, <2>2, <3>1, MoveCounts
    <2>7. CASE ReallocSqueeze(c, m)
      <3>1. c \in heap.used /\ FindChunk(Free(heap, c), m) # NULL /\ heap' = Squeeze(heap, c, m)
        BY <2>7 DEF ReallocSqueeze, Owned
      <3> QED
        BY <1>1, <2>2, <3>1, SqueezeCounts
    <2>8. CASE ReallocFails(c, m)
      BY <1>3, <2>8 DEF ReallocFails
    <2> QED
      BY <1>5, <2>1, <2>3, <2>4, <2>5, <2>6, <2>7, <2>8 DEF NtMemRealloc
  <1>6. ASSUME NtMemClear PROVE Counted(heap')
    BY <1>6, FreshCounts DEF NtMemClear
  <1>7. CASE \E n \in Request, d \in Data : NtMemMalloc(n, d)
    BY <1>2, <1>7
  <1>8. CASE \E n \in Request : MallocFails(n)
    BY <1>3, <1>8 DEF MallocFails
  <1>9. CASE \E c \in Address : NtMemFree(c)
    BY <1>4, <1>9
  <1>10. CASE \E c \in Address, n \in Request : NtMemRealloc(c, ProperSize(n))
    BY <1>5, <1>10
  <1> QED
    BY <1>6, <1>7, <1>8, <1>9, <1>10 DEF Next

(* The byte counts, kept by a dozen assignments in nt_mem.c, are always    *)
(* the sums of the sizes of the used and of the free chunks, although no   *)
(* assignment looks at more than three chunks; and so are the numbers of   *)
(* chunks that nt_mem_dump_stats derives from them and from its walk.      *)
THEOREM StatsAreExact == Spec => []ListsAndStats
  <1> DEFINE Kept == Counted(heap)
  <1>1. Init => Kept
    BY FreshCounts DEF Init
  <1>2. MInv /\ Kept /\ [Next]_vars => Kept'
    <2> SUFFICES ASSUME MInv, Kept, [Next]_vars PROVE Kept'
      OBVIOUS
    <2>1. CASE Next
      BY <2>1, StepCounts DEF CountInv
    <2>2. CASE UNCHANGED vars
      BY <2>2 DEF vars
    <2> QED
      BY <2>1, <2>2
  <1>3. MInv /\ Kept /\ ListsOk => ListsAndStats
    <2> SUFFICES ASSUME MInv, Kept, ListsOk PROVE ListsAndStats
      OBVIOUS
    <2>1. HeapInv(heap) /\ Counted(heap) /\ FreeChunks = DOMAIN heap.size \ heap.used
      BY DEF MInv, FreeChunks, Chunks
    <2>2. /\ heap.free_size = SumOf(heap.size, FreeChunks)
          /\ DumpStats(heap).used = Cardinality(heap.used)
          /\ \A b \in Bucket :
               DumpStats(heap).free[b] = Cardinality(Met(heap, FreeChunks, b))
      BY <2>1, StatsAre
    <2>3. heap.used_size = SumOf(heap.size, heap.used)
      BY <2>1 DEF Counted
    <2>4. heap.used_size = MapThenSumSet(LAMBDA c : heap.size[c], heap.used)
      BY <2>3 DEF SumOf
    <2>5. heap.free_size = MapThenSumSet(LAMBDA c : heap.size[c], FreeChunks)
      BY <2>2 DEF SumOf
    <2>6. \A b \in Bucket :
            Met(heap, FreeChunks, b) = {c \in FreeChunks : BucketBySize(heap.size[c]) = b}
      BY DEF Met, BucketOf
    <2>7. \A b \in Bucket : DumpStats(heap).free[b]
            = Cardinality({c \in FreeChunks : BucketBySize(heap.size[c]) = b})
      BY <2>2, <2>6
    <2> QED
      BY <2>2, <2>4, <2>5, <2>7 DEF ListsAndStats
  <1> HIDE DEF Kept
  <1>4. Spec => []Kept
    BY <1>1, <1>2, MInvInductive, PTL DEF Spec
  <1> QED
    BY <1>3, <1>4, MInvInductive, ListsHoldTheFree, PTL

-----------------------------------------------------------------------------
(* Refinement of MemPool *)

(* The blocks that the callers see *)
BlocksOf(h) ==
    [p \in {c + SizeField : c \in h.used} |->
       [size |-> h.size[p - SizeField], data |-> h.data[p - SizeField]]]

Ptrs(U) == {c + SizeField : c \in U}

Apart(a, m, b, n) == a + m <= b \/ b + n <= a

LEMMA BlocksAre ==
  ASSUME NEW h, h.used \subseteq Nat
  PROVE  /\ DOMAIN BlocksOf(h) = Ptrs(h.used)
         /\ \A c \in h.used : BlocksOf(h)[c + SizeField] = [size |-> h.size[c], data |-> h.data[c]]
  <1>1. \A c \in h.used : (c + SizeField) - SizeField = c
    BY DEF SizeField
  <1> QED
    BY <1>1 DEF BlocksOf, Ptrs

LEMMA BlocksApart ==
  ASSUME NEW g, HeapInv(g), NEW c \in g.used, NEW x \in g.used, c # x
  PROVE  Apart(c + SizeField, g.size[c], x + SizeField, g.size[x])
  <1>1. /\ c \in Nat /\ x \in Nat /\ c \in DOMAIN g.size /\ x \in DOMAIN g.size
        /\ g.size[c] \in Nat /\ g.size[x] \in Nat
    BY DEF HeapInv, Loose, Sizes
  <1>2. (c < x => c + g.size[c] + 16 <= x) /\ (x < c => x + g.size[x] + 16 <= c)
    BY <1>1 DEF HeapInv, Tiled, End, SizeField
  <1> QED
    BY <1>1, <1>2 DEF Apart, SizeField

(* Blocks C are those of S in B, and block a of m >= n bytes with data d. *)
BlockIn(B, C, S, a, m, n, d) ==
    /\ a \in DOMAIN C /\ C[a] = [size |-> m, data |-> d]
    /\ m >= n /\ a \notin S
    /\ 0 <= a /\ a + m <= HiBound
    /\ \A b \in S : Apart(a, m, b, B[b].size)
    /\ C = [b \in S \cup {a} |-> IF b = a THEN [size |-> m, data |-> d] ELSE B[b]]

LEMMA BlockComes ==
  ASSUME NEW h, HeapInv(h), NEW g, NEW U, U \subseteq h.used, NEW c, NEW n \in Nat, NEW d,
         Added(h, g, U, c, n, d)
  PROVE  BlockIn(BlocksOf(h), BlocksOf(g), Ptrs(U), c + SizeField, g.size[c], n, d)
  <1>1. PICK a : a = c + SizeField
    OBVIOUS
  <1>2. PICK m : m = g.size[c]
    OBVIOUS
  <1>3. HeapInv(g) /\ g.used = U \cup {c} /\ c \notin U /\ m >= n /\ g.data[c] = d
    BY <1>2 DEF Added
  <1>4. g.used \subseteq Nat /\ h.used \subseteq Nat /\ c \in Nat /\ m \in Nat /\ c \in DOMAIN g.size
    BY <1>2, <1>3 DEF HeapInv, Loose, Sizes
  <1>5. /\ DOMAIN BlocksOf(g) = Ptrs(g.used) /\ DOMAIN BlocksOf(h) = Ptrs(h.used)
        /\ \A x \in g.used : BlocksOf(g)[x + SizeField] = [size |-> g.size[x], data |-> g.data[x]]
        /\ \A x \in h.used : BlocksOf(h)[x + SizeField] = [size |-> h.size[x], data |-> h.data[x]]
    BY <1>4, BlocksAre
  <1>6. Ptrs(g.used) = Ptrs(U) \cup {a} /\ Ptrs(U) \subseteq Ptrs(h.used)
    BY <1>1, <1>3 DEF Ptrs
  <1>7. BlocksOf(g)[a] = [size |-> m, data |-> d]
    BY <1>1, <1>2, <1>3, <1>5
  <1>8. a \notin Ptrs(U)
    <2> SUFFICES ASSUME NEW x \in U, x + SizeField = c + SizeField PROVE FALSE
      BY <1>1 DEF Ptrs
    <2> QED
      BY <1>3, <1>4 DEF SizeField
  <1>9. 0 <= a /\ a + m <= HiBound
    <2>1. c + m + 16 <= HiBound /\ HiBound \in Int
      BY <1>2, <1>3, <1>4, TotalAtLeast DEF HeapInv, Tiled, End, SizeField, HiBound
    <2> QED
      BY <1>1, <1>4, <2>1 DEF SizeField
  <1>10. ASSUME NEW b \in Ptrs(U) PROVE BlocksOf(g)[b] = BlocksOf(h)[b] /\ Apart(a, m, b, BlocksOf(h)[b].size)
    <2>1. PICK x \in U : b = x + SizeField
      BY DEF Ptrs
    <2>2. x \in g.used /\ x \in h.used /\ c \in g.used /\ c # x
      BY <1>3
    <2>3. g.size[x] = h.size[x] /\ g.data[x] = h.data[x]
      BY DEF Added, Keeps
    <2>4. Apart(a, m, b, g.size[x])
      BY <1>1, <1>2, <1>3, <2>1, <2>2, BlocksApart
    <2>5. BlocksOf(h)[b] = [size |-> h.size[x], data |-> h.data[x]]
      BY <1>5, <2>1, <2>2
    <2>6. BlocksOf(g)[b] = [size |-> g.size[x], data |-> g.data[x]]
      BY <1>5, <2>1, <2>2
    <2> QED
      BY <2>3, <2>4, <2>5, <2>6
  <1>11. BlocksOf(g) = [b \in Ptrs(U) \cup {a} |->
                         IF b = a THEN [size |-> m, data |-> d] ELSE BlocksOf(h)[b]]
    <2>1. IsFcn(BlocksOf(g), Ptrs(U) \cup {a})
      <3>1. IsFcn(BlocksOf(g), Ptrs(g.used))
        BY DEF IsFcn, BlocksOf, Ptrs
      <3> QED
        BY <1>6, <3>1
    <2>2. \A b \in Ptrs(U) \cup {a} :
            BlocksOf(g)[b] = IF b = a THEN [size |-> m, data |-> d] ELSE BlocksOf(h)[b]
      BY <1>7, <1>8, <1>10
    <2>3. BlocksOf(g) = [b \in Ptrs(U) \cup {a} |-> BlocksOf(g)[b]]
      BY <2>1 DEF IsFcn
    <2> QED
      BY <2>2, <2>3
  <1>12. a \in DOMAIN BlocksOf(g)
    BY <1>5, <1>6
  <1> QED
    BY <1>1, <1>2, <1>3, <1>7, <1>8, <1>9, <1>10, <1>11, <1>12 DEF BlockIn

LEMMA BlockGoes ==
  ASSUME NEW h, HeapInv(h), NEW g, NEW c \in h.used, Settled(h, g, h.used \ {c})
  PROVE  /\ c + SizeField \in DOMAIN BlocksOf(h)
         /\ BlocksOf(g) = [b \in DOMAIN BlocksOf(h) \ {c + SizeField} |-> BlocksOf(h)[b]]
  <1>1. g.used = h.used \ {c} /\ HeapInv(g)
    BY DEF Settled
  <1>2. g.used \subseteq Nat /\ h.used \subseteq Nat
    BY <1>1 DEF HeapInv, Loose
  <1>3. /\ DOMAIN BlocksOf(g) = Ptrs(g.used) /\ DOMAIN BlocksOf(h) = Ptrs(h.used)
        /\ \A x \in g.used : BlocksOf(g)[x + SizeField] = [size |-> g.size[x], data |-> g.data[x]]
        /\ \A x \in h.used : BlocksOf(h)[x + SizeField] = [size |-> h.size[x], data |-> h.data[x]]
    BY <1>2, BlocksAre
  <1>4. Ptrs(g.used) = Ptrs(h.used) \ {c + SizeField}
    <2>1. \A x \in h.used : x + SizeField = c + SizeField => x = c
      BY <1>2 DEF SizeField
    <2> QED
      BY <1>1, <2>1 DEF Ptrs
  <1>5. ASSUME NEW b \in Ptrs(g.used) PROVE BlocksOf(g)[b] = BlocksOf(h)[b]
    <2>1. PICK x \in g.used : b = x + SizeField
      BY DEF Ptrs
    <2>2. g.size[x] = h.size[x] /\ g.data[x] = h.data[x] /\ x \in h.used
      BY <1>1 DEF Settled, Keeps
    <2> QED
      BY <1>3, <2>1, <2>2
  <1>6. BlocksOf(g) = [b \in Ptrs(g.used) |-> BlocksOf(g)[b]]
    BY DEF BlocksOf, Ptrs
  <1>7. c + SizeField \in Ptrs(h.used)
    BY DEF Ptrs
  <1> QED
    BY <1>3, <1>4, <1>5, <1>6, <1>7

LEMMA NoBlocks == ASSUME NEW h, h.used = {} PROVE BlocksOf(h) = <<>>
  <1>1. {c + SizeField : c \in {}} = {}
    OBVIOUS
  <1>2. BlocksOf(h) = [p \in {} |-> [size |-> h.size[p - SizeField], data |-> h.data[p - SizeField]]]
    BY <1>1 DEF BlocksOf
  <1> QED
    BY <1>2

(* The callers see a pool of disjoint blocks that keep their data: every   *)
(* step of nt_mem.c that succeeds allocates, resizes or releases one block *)
(* or all, in free memory, and leaves size and contents of all the others. *)
THEOREM KeepsData == Spec => BlocksKeepData
  <1>1. Init => Pool!Init
    <2> SUFFICES ASSUME Init PROVE Pool!Init
      OBVIOUS
    <2>1. BlocksOf(heap) = <<>>
      BY FreshIs, NoBlocks DEF Init
    <2> QED
      BY <2>1 DEF Pool!Init, BlocksOf
  <1>2. MInv /\ [Next]_vars => [Pool!Next]_(BlocksOf(heap))
    <2> SUFFICES ASSUME MInv, Next, heap' # heap PROVE Pool!Next
      BY DEF vars
    <2>1. HeapInv(heap)
      BY DEF MInv
    <2>2. CASE heap' = Fresh
      <3>1. BlocksOf(heap') = <<>>
        BY <2>2, FreshIs, NoBlocks
      <3>2. Pool!Reset
        BY <3>1 DEF Pool!Reset, BlocksOf
      <3> QED
        BY <3>2 DEF Pool!Next
    <2>3. CASE \E c \in heap.used : Goes(c)
      <3>1. PICK c \in heap.used : Settled(heap, heap', heap.used \ {c})
        BY <2>3 DEF Goes
      <3>2. PICK a : a = c + SizeField
        OBVIOUS
      <3>3. /\ a \in DOMAIN BlocksOf(heap)
            /\ BlocksOf(heap') = [b \in DOMAIN BlocksOf(heap) \ {a} |-> BlocksOf(heap)[b]]
        BY <2>1, <3>1, <3>2, BlockGoes
      <3>4. a \in DOMAIN BlocksOf(heap) /\ Pool!Release(a)
        BY <3>3 DEF Pool!Release, BlocksOf
      <3> QED
        BY <3>4 DEF Pool!Next, BlocksOf
    <2>4. CASE \E n \in Request, d \in Data : \E c : Comes(n, c, d)
      <3>1. PICK n \in Request, d \in Data : \E c : Comes(n, c, d)
        BY <2>4
      <3>2. PICK c : Added(heap, heap', heap.used, c, n, d)
        BY <3>1 DEF Comes
      <3>3. n \in Nat
        BY MemAssumption
      <3>4. PICK a : a = c + SizeField
        OBVIOUS
      <3>5. PICK m : m = heap'.size[c]
        OBVIOUS
      <3>6. DOMAIN BlocksOf(heap) = Ptrs(heap.used)
        BY <2>1, BlocksAre DEF HeapInv, Loose
      <3>7. BlockIn(BlocksOf(heap), BlocksOf(heap'), DOMAIN BlocksOf(heap), a, m, n, d)
        BY <2>1, <3>2, <3>3, <3>4, <3>5, <3>6, BlockComes
      <3>8. /\ BlocksOf(heap')[a].size = m /\ BlocksOf(heap')[a].data = d
            /\ a \in DOMAIN BlocksOf(heap') \ DOMAIN BlocksOf(heap)
            /\ BlocksOf(heap')[a].size >= n
        BY <3>7 DEF BlockIn
      <3>9. /\ 0 <= a /\ a + BlocksOf(heap')[a].size <= HiBound
            /\ \A b \in DOMAIN BlocksOf(heap) :
                 Apart(a, BlocksOf(heap')[a].size, b, BlocksOf(heap)[b].size)
        BY <3>7, <3>8 DEF BlockIn
      <3>10. BlocksOf(heap') =
               [b \in DOMAIN BlocksOf(heap) \cup {a} |->
                  IF b = a
                  THEN [size |-> BlocksOf(heap')[a].size, data |-> BlocksOf(heap')[a].data]
                  ELSE BlocksOf(heap)[b]]
        BY <3>7, <3>8 DEF BlockIn
      <3>11. /\ a \in DOMAIN BlocksOf(heap') \ DOMAIN BlocksOf(heap)
             /\ BlocksOf(heap')[a].size >= n
             /\ Pool!Allocate(a, BlocksOf(heap')[a].size, BlocksOf(heap')[a].data)
        BY <3>8, <3>9, <3>10
           DEF Pool!Allocate, Pool!Vacant, Pool!Disjoint, Apart, BlocksOf
      <3> QED
        BY <3>11 DEF Pool!Next, BlocksOf
    <2>5. CASE \E n \in Request, c \in heap.used : \E w : Becomes(c, w, n)
      <3>1. PICK n \in Request, c \in heap.used : \E w : Becomes(c, w, n)
        BY <2>5
      <3>2. PICK w : Added(heap, heap', heap.used \ {c}, w, n, heap.data[c])
        BY <3>1 DEF Becomes
      <3>3. n \in Nat
        BY MemAssumption
      <3>4. PICK a : a = c + SizeField
        OBVIOUS
      <3>5. PICK b : b = w + SizeField
        OBVIOUS
      <3>6. PICK m : m = heap'.size[w]
        OBVIOUS
      <3>7. PICK d : d = heap.data[c]
        OBVIOUS
      <3>8. heap.used \subseteq Nat
        BY <2>1 DEF HeapInv, Loose
      <3>9. /\ a \in DOMAIN BlocksOf(heap) /\ BlocksOf(heap)[a].data = d
            /\ Ptrs(heap.used \ {c}) = DOMAIN BlocksOf(heap) \ {a}
        <4>1. /\ DOMAIN BlocksOf(heap) = Ptrs(heap.used)
              /\ BlocksOf(heap)[a] = [size |-> heap.size[c], data |-> d]
          BY <3>4, <3>7, <3>8, BlocksAre
        <4>2. \A x \in heap.used : x + SizeField = a => x = c
          BY <3>4, <3>8 DEF SizeField
        <4>3. a \in Ptrs(heap.used) /\ Ptrs(heap.used \ {c}) = Ptrs(heap.used) \ {a}
          BY <3>4, <4>2 DEF Ptrs
        <4> QED
          BY <4>1, <4>3
      <3>10. BlockIn(BlocksOf(heap), BlocksOf(heap'), DOMAIN BlocksOf(heap) \ {a}, b, m, n, d)
        <4>1. heap.used \ {c} \subseteq heap.used
          OBVIOUS
        <4>2. BlockIn(BlocksOf(heap), BlocksOf(heap'), Ptrs(heap.used \ {c}), b, m, n, d)
          BY <2>1, <3>2, <3>3, <3>5, <3>6, <3>7, <4>1, BlockComes
        <4> QED
          BY <3>9, <4>2
      <3>11. /\ BlocksOf(heap')[b].size = m /\ b \in DOMAIN BlocksOf(heap')
             /\ BlocksOf(heap')[b].size >= n
        BY <3>10 DEF BlockIn
      <3>12. /\ 0 <= b /\ b + BlocksOf(heap')[b].size <= HiBound
             /\ \A x \in DOMAIN BlocksOf(heap) \ {a} :
                  Apart(b, BlocksOf(heap')[b].size, x, BlocksOf(heap)[x].size)
        BY <3>10, <3>11 DEF BlockIn
      <3>13. BlocksOf(heap') =
               [x \in (DOMAIN BlocksOf(heap) \ {a}) \cup {b} |->
                  IF x = b
                  THEN [size |-> BlocksOf(heap')[b].size, data |-> BlocksOf(heap)[a].data]
                  ELSE BlocksOf(heap)[x]]
        BY <3>9, <3>10, <3>11 DEF BlockIn
      <3>14. /\ a \in DOMAIN BlocksOf(heap) /\ b \in DOMAIN BlocksOf(heap')
             /\ BlocksOf(heap')[b].size >= n
             /\ Pool!Resize(a, b, BlocksOf(heap')[b].size)
        BY <3>9, <3>11, <3>12, <3>13
           DEF Pool!Resize, Pool!Vacant, Pool!Disjoint, Apart, BlocksOf
      <3> QED
        BY <3>14 DEF Pool!Next, BlocksOf
    <2> QED
      BY <2>2, <2>3, <2>4, <2>5, StepIs
  <1> QED
    BY <1>1, <1>2, MInvInductive, PTL DEF Spec, BlocksKeepData, Pool!Spec, BlocksOf

=============================================================================
