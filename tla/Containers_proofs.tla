--------------------------- MODULE Containers_proofs ---------------------------
(***************************************************************************)
(* Proofs about the containers, for any keys, values and nodes, any hash   *)
(* and any sizes the assumptions allow.                                    *)
(*                                                                         *)
(* Each container has its invariant, which every step of Containers keeps, *)
(* those of the others trivially, and which implies what the module of the *)
(* container says of it.                                                   *)
(***************************************************************************)
EXTENDS Containers, Primes, FiniteSetTheorems, SequenceTheorems, WellFoundedInduction, TLAPS

-----------------------------------------------------------------------------
(* Sets of naturals, and sequences whose entries differ *)

(* A set of naturals has a least one. *)
LEMMA LeastOf ==
  ASSUME NEW T, T \subseteq Nat, T # {}
  PROVE  \E x \in T : \A y \in T : x <= y
  <1>1. PICK x \in T : \A y \in T : ~(<<y, x>> \in OpToRel(<, Nat))
    BY NatLessThanWellFounded, WFMin
  <1>2. ASSUME NEW y \in T PROVE x <= y
    <2>1. ~(y < x)
      BY <1>1 DEF OpToRel
    <2> QED
      BY <2>1
  <1> QED
    BY <1>2

(* The entries of a sequence are told apart. *)
Distinct(s) == \A i, j \in 1 .. Len(s) : s[i] = s[j] => i = j

Met(s) == {s[i] : i \in 1 .. Len(s)}

(* As many different entries as places *)
LEMMA MetAreCounted ==
  ASSUME NEW S, NEW s \in Seq(S), Distinct(s)
  PROVE  IsFiniteSet(Met(s)) /\ Cardinality(Met(s)) = Len(s)
  <1>1. s \in Bijection(1 .. Len(s), Met(s))
    BY DEF Bijection, Injection, Surjection, IsInjective, Distinct, Met
  <1>2. Len(s) \in Nat
    OBVIOUS
  <1>3. IsFiniteSet(1 .. Len(s)) /\ Cardinality(1 .. Len(s)) = Len(s)
    BY <1>2, FS_Interval
  <1> QED
    BY <1>1, <1>3, FS_Bijection DEF ExistsBijection

LEMMA NoMoreThanThereAre ==
  ASSUME NEW S, IsFiniteSet(S), NEW s \in Seq(S), Distinct(s)
  PROVE  Len(s) <= Cardinality(S) /\ Cardinality(S) \in Nat
  <1>1. Met(s) \in SUBSET S
    BY DEF Met
  <1> QED
    BY <1>1, MetAreCounted, FS_Subset, FS_CardinalityType

(* The sequence with its entry d taken out *)
LEMMA TakenOut ==
  ASSUME NEW S, NEW s \in Seq(S), NEW d \in 1 .. Len(s)
  PROVE  LET t == SubSeq(s, 1, d - 1) \o SubSeq(s, d + 1, Len(s))
         IN  /\ t \in Seq(S) /\ Len(t) = Len(s) - 1
             /\ \A i \in 1 .. Len(s) - 1 : t[i] = IF i < d THEN s[i] ELSE s[i + 1]
  <1> DEFINE a == SubSeq(s, 1, d - 1)
             b == SubSeq(s, d + 1, Len(s))
  <1>1. Len(s) \in Nat
    OBVIOUS
  <1>2. a \in Seq(S) /\ Len(a) = d - 1 /\ \A i \in 1 .. d - 1 : a[i] = s[i]
    BY <1>1, SubSeqProperties
  <1>3. b \in Seq(S) /\ Len(b) = Len(s) - d /\ \A i \in 1 .. Len(s) - d : b[i] = s[d + i]
    BY <1>1, SubSeqProperties
  <1> HIDE DEF a, b
  <1>4. /\ a \o b \in Seq(S) /\ Len(a \o b) = Len(a) + Len(b)
        /\ \A i \in 1 .. Len(a) + Len(b) : (a \o b)[i] = IF i <= Len(a) THEN a[i] ELSE b[i - Len(a)]
    BY <1>2, <1>3, ConcatProperties
  <1>5. ASSUME NEW i \in 1 .. Len(s) - 1
        PROVE  (a \o b)[i] = IF i < d THEN s[i] ELSE s[i + 1]
    <2>1. i \in 1 .. Len(a) + Len(b)
      BY <1>1, <1>2, <1>3
    <2>2. CASE i < d
      BY <2>1, <2>2, <1>2, <1>4
    <2>3. CASE ~(i < d)
      <3>1. i - (d - 1) \in 1 .. Len(s) - d /\ d + (i - (d - 1)) = i + 1
        BY <2>3, <1>1
      <3>2. (a \o b)[i] = b[i - (d - 1)]
        BY <2>1, <2>3, <1>2, <1>4
      <3>3. b[i - (d - 1)] = s[d + (i - (d - 1))]
        BY <3>1, <1>3
      <3> QED
        BY <2>3, <3>1, <3>2, <3>3
    <2> QED
      BY <2>2, <2>3
  <1>6. SubSeq(s, 1, d - 1) \o SubSeq(s, d + 1, Len(s)) = a \o b
    BY DEF a, b
  <1>7. Len(a) + Len(b) = Len(s) - 1
    BY <1>1, <1>2, <1>3
  <1> QED
    BY <1>4, <1>5, <1>6, <1>7

-----------------------------------------------------------------------------
(* The list *)

LEMMA ListCards ==
  \A S : DL!Cardinality(S) = Cardinality(S)
  BY DEF DL!Cardinality, Cardinality

(* DL!Walk, of any set of nodes in use *)
WalkIn(U, link, node) ==
    LET met[i \in 0 .. DL!Cardinality(U)] ==
          IF i = 0 THEN <<>>
          ELSE LET so_far == met[i - 1]
                   at == IF so_far = <<>> THEN node ELSE link[DL!Last(so_far)]
               IN  IF at \in U THEN Append(so_far, at) ELSE so_far
    IN  met[DL!Cardinality(U)]

(* The entries of s are linked one to the next, from node on. *)
Chained(s, link, node, U) ==
    /\ s \in Seq(U) /\ Distinct(s)
    /\ node = IF s = <<>> THEN NULL ELSE s[1]
    /\ \A i \in 1 .. Len(s) : link[s[i]] = IF i = Len(s) THEN NULL ELSE s[i + 1]

(* A walk meets what is chained.  The recursion has a solution, and any    *)
(* solution goes through the beginnings of the sequence.                   *)
LEMMA WalkMeetsChain ==
  ASSUME NEW U, IsFiniteSet(U), NULL \notin U, NEW s, NEW link, NEW node,
         Chained(s, link, node, U)
  PROVE  WalkIn(U, link, node) = s
  <1> DEFINE n == Len(s)
             c == DL!Cardinality(U)
             Step(so_far) ==
               LET at == IF so_far = <<>> THEN node ELSE link[DL!Last(so_far)]
               IN  IF at \in U THEN Append(so_far, at) ELSE so_far
             Part(i) == SubSeq(s, 1, IF i < n THEN i ELSE n)
             IsWalk(met) == met = [i \in 0 .. c |-> IF i = 0 THEN <<>> ELSE Step(met[i - 1])]
             w == CHOOSE met : IsWalk(met)
  <1>1. s \in Seq(U) /\ n \in Nat /\ c \in Nat /\ n <= c
    BY ListCards, NoMoreThanThereAre, FS_CardinalityType DEF Chained
  <1>2. ASSUME NEW i \in 0 .. c
        PROVE  /\ Part(i) \in Seq(U)
               /\ Len(Part(i)) = IF i < n THEN i ELSE n
               /\ \A j \in 1 .. Len(Part(i)) : Part(i)[j] = s[j]
    BY <1>1, SubSeqProperties
  <1>e. /\ Part(0) = <<>>
        /\ \A i \in 0 .. c : i >= n => Part(i) = s
    BY <1>1, SubSeqEmpty, SubSeqFull
  <1> HIDE DEF Part, c
  <1>3. ASSUME NEW i \in 1 .. c
        PROVE  Step(Part(i - 1)) = Part(i)
    <2>0. i - 1 \in 0 .. c /\ i \in 0 .. c /\ i \in Nat
      BY <1>1
    <2>1. CASE i - 1 < n
      <3>0. Len(Part(i - 1)) = i - 1 /\ Part(i - 1) \in Seq(U)
        BY <1>1, <1>2, <2>0, <2>1
      <3>1. (IF Part(i - 1) = <<>> THEN node ELSE link[DL!Last(Part(i - 1))]) = s[i]
        <4>1. CASE i = 1
          <5>1. Part(i - 1) = <<>> /\ s # <<>>
            BY <4>1, <1>e, <1>1, <2>1
          <5> QED
            BY <5>1, <4>1 DEF Chained
        <4>2. CASE i > 1
          <5>1. Part(i - 1) # <<>>
            BY <3>0, <4>2
          <5>2. DL!Last(Part(i - 1)) = s[i - 1]
            BY <3>0, <4>2, <1>2, <2>0 DEF DL!Last
          <5>3. i - 1 \in 1 .. n /\ i - 1 # n
            BY <4>2, <2>1, <1>1
          <5> QED
            BY <5>1, <5>2, <5>3 DEF Chained
        <4> QED
          BY <4>1, <4>2
      <3>2. s[i] \in U
        BY <1>1, <2>1
      <3>3. Step(Part(i - 1)) = Append(Part(i - 1), s[i])
        BY <3>1, <3>2
      <3>4. Append(Part(i - 1), s[i]) = Part(i)
        <4>1. Append(Part(i - 1), s[i]) \in Seq(U) /\ Len(Append(Part(i - 1), s[i])) = i
          BY <3>0, <3>2
        <4>2. Part(i) \in Seq(U) /\ Len(Part(i)) = i
          BY <1>1, <1>2, <2>0, <2>1
        <4>3. ASSUME NEW j \in 1 .. i PROVE Append(Part(i - 1), s[i])[j] = Part(i)[j]
          <5>1. Part(i)[j] = s[j]
            BY <4>2, <1>2, <2>0
          <5>2. j < i => Part(i - 1)[j] = s[j]
            BY <3>0, <1>2, <2>0
          <5> QED
            BY <3>0, <3>2, <5>1, <5>2
        <4> QED
          BY <4>1, <4>2, <4>3, SeqEqual
      <3> QED
        BY <3>3, <3>4
    <2>2. CASE ~(i - 1 < n)
      <3>1. Part(i - 1) = s /\ Part(i) = s
        BY <1>1, <2>0, <2>2, <1>e
      <3>2. (IF s = <<>> THEN node ELSE link[DL!Last(s)]) = NULL
        BY <1>1 DEF Chained, DL!Last
      <3> QED
        BY <3>1, <3>2
    <2> QED
      BY <2>1, <2>2
  <1>4. IsWalk([i \in 0 .. c |-> Part(i)])
    <2>2. ASSUME NEW i \in 0 .. c
          PROVE  Part(i) = IF i = 0 THEN <<>> ELSE Step([k \in 0 .. c |-> Part(k)][i - 1])
      <3>1. CASE i = 0
        BY <3>1, <1>e
      <3>2. CASE i # 0
        <4>1. i \in 1 .. c /\ i - 1 \in 0 .. c
          BY <3>2, <1>1
        <4>2. [k \in 0 .. c |-> Part(k)][i - 1] = Part(i - 1)
          BY <4>1
        <4> HIDE DEF Step
        <4> QED
          BY <3>2, <4>1, <4>2, <1>3
      <3> QED
        BY <3>1, <3>2
    <2> HIDE DEF Step
    <2> QED
      BY <2>2
  <1>5. IsWalk(w)
    <2> HIDE DEF IsWalk
    <2> QED
      BY <1>4
  <1>6. w[0] = <<>> /\ \A i \in 1 .. c : w[i] = Step(w[i - 1])
    <2> HIDE DEF Step
    <2>1. w = [i \in 0 .. c |-> IF i = 0 THEN <<>> ELSE Step(w[i - 1])]
      BY <1>5
    <2> HIDE DEF w
    <2>2. 0 \in 0 .. c /\ \A i \in 1 .. c : i \in 0 .. c /\ i # 0
      BY <1>1
    <2> QED
      BY <2>1, <2>2
  <1>7. \A i \in 0 .. c : w[i] = Part(i)
    <2> DEFINE Bad == {i \in 0 .. c : w[i] # Part(i)}
    <2> HIDE DEF w, Step
    <2>1. SUFFICES ASSUME Bad # {} PROVE FALSE
      OBVIOUS
    <2>a. Bad \subseteq Nat
      BY <1>1
    <2>2. PICK i \in Bad : \A j \in Bad : i <= j
      <3> HIDE DEF Bad
      <3> QED
        BY <2>1, <2>a, LeastOf
    <2>3. i # 0
      BY <1>6, <1>e
    <2>4. i \in 1 .. c /\ i - 1 \in 0 .. c /\ ~(i <= i - 1)
      BY <2>3, <1>1
    <2>5. w[i - 1] = Part(i - 1)
      BY <2>2, <2>4
    <2> QED
      BY <2>4, <2>5, <1>3, <1>6
  <1>8. w[c] = s
    <2>1. Part(c) = s
      BY <1>1, <1>e
    <2> HIDE DEF w
    <2> QED
      BY <2>1, <1>7, <1>1
  <1> QED
    BY <1>8 DEF WalkIn, c

(* What is chained one way and back is what ddl.h means by a list.         *)
Linking(s) ==
    /\ Chained(s, next, entr, used)
    /\ \A i \in 1 .. Len(s) : prev[s[i]] = IF i = 1 THEN NULL ELSE s[i - 1]
    /\ IF s = <<>> THEN tail = NULL /\ curr = NULL /\ pos = NULL
       ELSE tail = s[Len(s)] /\ curr \in {tail, NULL} /\ \E i \in 1 .. Len(s) : pos = s[i]

ListTypes ==
    /\ used \subseteq Node /\ IsFiniteSet(used)
    /\ DOMAIN next = used /\ DOMAIN prev = used
    /\ num \in 0 .. NumModulus - 1

ListInv == ListTypes /\ \E s : Linking(s)

LEMMA ListConstants == NULL \notin Node /\ NumModulus \in Nat \ {0, 1}
  BY Assumptions DEF DL!DdlListAssumption

(* The sequence backwards *)
LEMMA ReverseIs ==
  ASSUME NEW S, NEW s \in Seq(S)
  PROVE  /\ DL!Reverse(s) \in Seq(S) /\ Len(DL!Reverse(s)) = Len(s)
         /\ \A i \in 1 .. Len(s) : DL!Reverse(s)[i] = s[Len(s) + 1 - i]
  <1>1. Len(s) \in Nat
    OBVIOUS
  <1>2. \A i \in 1 .. Len(s) : Len(s) - i + 1 \in 1 .. Len(s) /\ Len(s) - i + 1 = Len(s) + 1 - i
    BY <1>1
  <1>3. DL!Reverse(s) \in [1 .. Len(s) -> S]
    BY <1>2 DEF DL!Reverse
  <1>4. DL!Reverse(s) \in Seq(S) /\ Len(DL!Reverse(s)) = Len(s)
    BY <1>1, <1>3, SeqDef
  <1> QED
    BY <1>2, <1>4 DEF DL!Reverse

(* Linked the other way, the list is chained from its tail. *)
LEMMA ChainedBack ==
  ASSUME NEW s, Linking(s)
  PROVE  Chained(DL!Reverse(s), prev, tail, used)
  <1> DEFINE r == DL!Reverse(s)
             n == Len(s)
  <1>1. s \in Seq(used) /\ n \in Nat /\ Distinct(s)
    BY DEF Linking, Chained
  <1>2. r \in Seq(used) /\ Len(r) = n /\ \A i \in 1 .. n : r[i] = s[n + 1 - i]
    BY <1>1, ReverseIs
  <1>3. \A i \in 1 .. n : n + 1 - i \in 1 .. n
    BY <1>1
  <1> HIDE DEF r
  <1>4. Distinct(r)
    <2> SUFFICES ASSUME NEW i \in 1 .. n, NEW j \in 1 .. n, r[i] = r[j] PROVE i = j
      BY <1>2 DEF Distinct
    <2>1. s[n + 1 - i] = s[n + 1 - j]
      BY <1>2
    <2>2. n + 1 - i = n + 1 - j
      BY <1>1, <1>3, <2>1 DEF Distinct
    <2> QED
      BY <2>2, <1>1
  <1>5. tail = IF r = <<>> THEN NULL ELSE r[1]
    <2>1. r = <<>> <=> n = 0
      BY <1>2
    <2>2. s = <<>> <=> n = 0
      BY <1>1
    <2> QED
      BY <2>1, <2>2, <1>1, <1>2 DEF Linking
  <1>6. ASSUME NEW i \in 1 .. n
        PROVE  prev[r[i]] = IF i = n THEN NULL ELSE r[i + 1]
    <2>1. n + 1 - i \in 1 .. n /\ r[i] = s[n + 1 - i]
      BY <1>2, <1>3
    <2>2. prev[s[n + 1 - i]] = IF n + 1 - i = 1 THEN NULL ELSE s[n + 1 - i - 1]
      <3>1. PICK j \in 1 .. n : j = n + 1 - i
        BY <2>1
      <3>2. prev[s[j]] = IF j = 1 THEN NULL ELSE s[j - 1]
        BY DEF Linking
      <3> QED
        BY <3>1, <3>2
    <2>3. i # n => i + 1 \in 1 .. n /\ r[i + 1] = s[n + 1 - (i + 1)] /\ n + 1 - (i + 1) = n + 1 - i - 1
      BY <1>1, <1>2
    <2>4. n + 1 - i = 1 <=> i = n
      BY <1>1
    <2> QED
      BY <2>1, <2>2, <2>3, <2>4
  <1> QED
    BY <1>2, <1>4, <1>5, <1>6 DEF Chained, r

(* Both iterators visit the list, in either state of a step. *)
LEMMA WalksAre ==
  ASSUME ListTypes, NEW s, Linking(s)
  PROVE  DL!Forward = s /\ DL!Backward = DL!Reverse(s)
  <1>1. IsFiniteSet(used) /\ NULL \notin used
    BY ListConstants DEF ListTypes
  <1>2. WalkIn(used, next, entr) = s
    BY <1>1, WalkMeetsChain DEF Linking
  <1>3. WalkIn(used, prev, tail) = DL!Reverse(s)
    BY <1>1, ChainedBack, WalkMeetsChain
  <1> QED
    BY <1>2, <1>3 DEF DL!Forward, DL!Backward, DL!Walk, WalkIn

LEMMA WalksAreNext ==
  ASSUME ListTypes', NEW s, Linking(s)'
  PROVE  DL!Forward' = s
  <1>1. IsFiniteSet(used') /\ NULL \notin used'
    BY ListConstants DEF ListTypes
  <1>2. WalkIn(used', next', entr') = s
    BY <1>1, WalkMeetsChain DEF Linking
  <1> QED
    BY <1>2 DEF DL!Forward, DL!Walk, WalkIn

LEMMA ListIsLinked == ListInv => ListLinked
  <1> SUFFICES ASSUME ListInv PROVE ListLinked
    OBVIOUS
  <1>1. PICK s : Linking(s)
    BY DEF ListInv
  <1>2. DL!Forward = s /\ DL!Backward = DL!Reverse(s)
    BY <1>1, WalksAre DEF ListInv
  <1>3. s \in Seq(used) /\ Distinct(s) /\ Len(s) \in Nat
    BY <1>1 DEF Linking, Chained
  <1>4. DL!Reach = Met(s) /\ Met(s) \subseteq used
    BY <1>2, <1>3 DEF DL!Reach, DL!ToSet, Met
  <1>5. DL!Cardinality(DL!Reach) = Len(s)
    BY <1>3, <1>4, ListCards, MetAreCounted
  <1>6. s = <<>> <=> entr = NULL
    BY <1>1, <1>3, ListConstants DEF Linking, Chained, ListInv, ListTypes
  <1>7. IF entr = NULL THEN {tail, curr, pos} = {NULL}
        ELSE pos \in DL!Reach /\ tail \in DL!Reach /\ curr \in {tail, NULL}
    BY <1>1, <1>3, <1>4, <1>6 DEF Linking, Met
  <1> QED
    BY <1>2, <1>4, <1>5, <1>7 DEF ListLinked, DL!Linked, ListInv, ListTypes

(* Where a node is in a sequence; DL!CursorAt is where pos is. *)
PlaceOf(s, m) == IF m = NULL THEN 0 ELSE CHOOSE i \in DOMAIN s : s[i] = m

LEMMA PlaceIs ==
  ASSUME NEW s \in Seq(Node), Distinct(s), NEW i \in 1 .. Len(s)
  PROVE  PlaceOf(s, s[i]) = i
  <1>1. s[i] # NULL
    BY ListConstants
  <1>2. \A j \in DOMAIN s : s[j] = s[i] => j = i
    BY DEF Distinct
  <1> QED
    BY <1>1, <1>2 DEF PlaceOf

LEMMA CursorIs ==
  ASSUME ListTypes, NEW s, Linking(s)
  PROVE  /\ DL!CursorAt = PlaceOf(s, pos)
         /\ s \in Seq(Node) /\ s \in Seq(used) /\ Distinct(s) /\ Len(s) \in Nat
         /\ \A i \in 1 .. Len(s) : s[i] \in used /\ s[i] # NULL
         /\ s = <<>> => pos = NULL
         /\ s # <<>> => \E i \in 1 .. Len(s) : pos = s[i] /\ DL!CursorAt = i
  <1>1. DL!CursorAt = PlaceOf(s, pos)
    <2>1. DL!CursorAt = PlaceOf(DL!Forward, pos)
      BY DEF DL!CursorAt, PlaceOf
    <2> QED
      BY <2>1, WalksAre
  <1>2. s \in Seq(used) /\ Distinct(s) /\ Len(s) \in Nat
    BY DEF Linking, Chained
  <1>3. s \in Seq(Node)
    BY <1>2 DEF ListTypes
  <1>4. \A i \in 1 .. Len(s) : s[i] \in used /\ s[i] # NULL
    BY <1>2, ListConstants DEF ListTypes
  <1>5. s = <<>> => pos = NULL
    BY DEF Linking
  <1>6. s # <<>> => \E i \in 1 .. Len(s) : pos = s[i]
    BY DEF Linking
  <1> QED
    BY <1>1, <1>2, <1>3, <1>4, <1>5, <1>6, PlaceIs

LEMMA CursorNext ==
  ASSUME ListTypes', NEW s, Linking(s)'
  PROVE  /\ DL!CursorAt' = PlaceOf(s, pos')
         /\ DL!Forward' = s
  <1>1. DL!CursorAt' = PlaceOf(DL!Forward', pos')
    BY DEF DL!CursorAt, PlaceOf
  <1> QED
    BY <1>1, WalksAreNext

(* How a step takes the list s to the list t; the cursor is where it was,  *)
(* or as the step says.                                                    *)
NewList(t) == ListTypes' /\ Linking(t)'

(* A node that is put somewhere, or nowhere *)
LEMMA LinkTypes ==
  ASSUME ListTypes, NEW n \in Node, n \notin used, NEW nx, NEW pv, DL!Link(n, nx, pv),
         num' \in 0 .. NumModulus - 1
  PROVE  ListTypes' /\ used' = used \cup {n}
  BY FS_AddElement DEF ListTypes, DL!Link

LEMMA StepInEmpty ==
  ASSUME ListTypes, NEW s, Linking(s), NEW n \in Node, DL!InsertInEmpty(n)
  PROVE  /\ s = <<>> /\ NewList(<<n>>)
         /\ DL!Abstract!PutLast(n)
  <1>1. s = <<>>
    BY CursorIs DEF DL!InsertInEmpty, Linking, Chained
  <1>2. ListTypes' /\ used' = used \cup {n}
    BY LinkTypes, ListConstants DEF DL!InsertInEmpty
  <1>3. Linking(<<n>>)'
    <2>1. <<n>> \in Seq(used') /\ Len(<<n>>) = 1 /\ <<n>>[1] = n /\ <<n>> # <<>>
      BY <1>2
    <2>2. next'[n] = NULL /\ prev'[n] = NULL
      BY <1>2 DEF DL!InsertInEmpty, DL!Link
    <2>3. entr' = n /\ tail' = n /\ curr' = n /\ pos' = n
      BY DEF DL!InsertInEmpty
    <2> QED
      BY <2>1, <2>2, <2>3 DEF Linking, Chained, Distinct
  <1>4. DL!Forward = <<>> /\ DL!CursorAt = 0
    BY <1>1, WalksAre, CursorIs DEF PlaceOf
  <1>5. DL!Forward' = <<n>> /\ DL!CursorAt' = 1
    <2>1. DL!Forward' = <<n>> /\ DL!CursorAt' = PlaceOf(<<n>>, pos')
      BY <1>2, <1>3, CursorNext
    <2>2. pos' = n /\ n # NULL
      BY ListConstants DEF DL!InsertInEmpty
    <2>3. PlaceOf(<<n>>, n) = 1
      <3>1. \A i \in DOMAIN <<n>> : i = 1 /\ <<n>>[i] = n
        OBVIOUS
      <3>2. 1 \in DOMAIN <<n>>
        OBVIOUS
      <3> QED
        BY <2>2, <3>1, <3>2 DEF PlaceOf
    <2> QED
      BY <2>1, <2>2, <2>3
  <1>6. DL!Abstract!PutLast(n)
    BY <1>4, <1>5 DEF DL!Abstract!PutLast, DL!Abstract!ToSet
  <1> QED
    BY <1>1, <1>2, <1>3, <1>6 DEF NewList

LEMMA StepFirst ==
  ASSUME ListTypes, NEW s, Linking(s), NEW n \in Node, DL!InsertFirst(n)
  PROVE  /\ NewList(<<n>> \o s)
         /\ DL!Abstract!PutFirst(n)
  <1> DEFINE t == <<n>> \o s
             k == Len(s)
  <1>0. s \in Seq(used) /\ s \in Seq(Node) /\ Distinct(s) /\ k \in Nat /\ s # <<>> /\ k > 0
    <2>1. s \in Seq(used) /\ s \in Seq(Node) /\ Distinct(s) /\ k \in Nat
      BY CursorIs
    <2>2. s # <<>>
      BY DEF DL!InsertFirst, Linking, Chained
    <2> QED
      BY <2>1, <2>2
  <1>1. ListTypes' /\ used' = used \cup {n}
    BY LinkTypes, ListConstants DEF DL!InsertFirst, ListTypes
  <1>2. /\ t \in Seq(used') /\ Len(t) = k + 1 /\ t # <<>>
        /\ t[1] = n /\ \A i \in 2 .. k + 1 : t[i] = s[i - 1]
    BY <1>0, <1>1
  <1> HIDE DEF t
  <1>3. \A i \in 2 .. k + 1 : i - 1 \in 1 .. k /\ t[i] \in used /\ t[i] # n
    BY <1>0, <1>2 DEF DL!InsertFirst
  <1>4. entr = s[1] /\ tail = s[k] /\ \A i \in 1 .. k : next[s[i]] = IF i = k THEN NULL ELSE s[i + 1]
    BY <1>0 DEF Linking, Chained
  <1>5. \A i \in 1 .. k : prev[s[i]] = IF i = 1 THEN NULL ELSE s[i - 1]
    BY DEF Linking
  <1>6. /\ next' = [m \in used' |-> IF m = n THEN entr ELSE IF m = NULL THEN n ELSE next[m]]
        /\ prev' = [m \in used' |-> IF m = n THEN NULL ELSE IF m = entr THEN n ELSE prev[m]]
        /\ entr' = n /\ tail' = tail /\ curr' = curr /\ pos' = pos
    BY DEF DL!InsertFirst, DL!Link
  <1>7. Distinct(t)
    <2> SUFFICES ASSUME NEW i \in 1 .. k + 1, NEW j \in 1 .. k + 1, t[i] = t[j] PROVE i = j
      BY <1>2 DEF Distinct
    <2>1. CASE i = 1 \/ j = 1
      BY <2>1, <1>2, <1>3
    <2>2. CASE i # 1 /\ j # 1
      <3>1. i \in 2 .. k + 1 /\ j \in 2 .. k + 1
        BY <2>2
      <3>2. s[i - 1] = s[j - 1] /\ i - 1 \in 1 .. k /\ j - 1 \in 1 .. k
        BY <3>1, <1>2, <1>3
      <3>3. i - 1 = j - 1
        BY <3>2, <1>0 DEF Distinct
      <3> QED
        BY <3>3
    <2> QED
      BY <2>1, <2>2
  <1>8. ASSUME NEW i \in 1 .. k + 1
        PROVE  /\ next'[t[i]] = IF i = k + 1 THEN NULL ELSE t[i + 1]
               /\ prev'[t[i]] = IF i = 1 THEN NULL ELSE t[i - 1]
    <2>1. CASE i = 1
      BY <2>1, <1>0, <1>1, <1>2, <1>4, <1>6
    <2>2. CASE i # 1
      <3>1. i \in 2 .. k + 1 /\ t[i] = s[i - 1] /\ i - 1 \in 1 .. k /\ t[i] \in used' /\ t[i] # n
        BY <2>2, <1>1, <1>2, <1>3
      <3>2. t[i] # NULL
        BY <3>1, <1>0, ListConstants
      <3>3. next'[t[i]] = IF i - 1 = k THEN NULL ELSE s[i - 1 + 1]
        BY <3>1, <3>2, <1>4, <1>6
      <3>4. i # k + 1 => i + 1 \in 2 .. k + 1 /\ t[i + 1] = s[i]
        BY <3>1, <1>0, <1>2
      <3>5. t[i] = entr <=> i = 2
        BY <3>1, <1>0, <1>4 DEF Distinct
      <3>6. prev'[t[i]] = IF i = 2 THEN n ELSE prev[s[i - 1]]
        BY <3>1, <3>5, <1>6
      <3>7. prev[s[i - 1]] = IF i - 1 = 1 THEN NULL ELSE s[i - 1 - 1]
        BY <3>1, <1>5
      <3>8. i # 2 => i - 1 \in 2 .. k + 1 /\ t[i - 1] = s[i - 1 - 1]
        BY <3>1, <1>0, <1>2
      <3> QED
        BY <3>1, <3>3, <3>4, <3>6, <3>7, <3>8, <1>2
    <2> QED
      BY <2>1, <2>2
  <1>9. PICK c \in 1 .. k : pos = s[c] /\ DL!CursorAt = c
    BY <1>0, CursorIs
  <1>10. c + 1 \in 1 .. k + 1 /\ pos' = t[c + 1]
    BY <1>0, <1>2, <1>6, <1>9
  <1>11. Linking(t)'
    <2>1. tail' = t[k + 1] /\ curr' \in {tail', NULL}
      <3>1. k + 1 \in 2 .. k + 1
        BY <1>0
      <3>2. t[k + 1] = s[k]
        BY <3>1, <1>2, <1>0
      <3> QED
        BY <3>2, <1>0, <1>4, <1>6 DEF Linking
    <2>2. Chained(t, next', entr', used')
      BY <1>2, <1>6, <1>7, <1>8 DEF Chained
    <2> QED
      BY <2>1, <2>2, <1>2, <1>8, <1>10 DEF Linking
  <1>12. DL!Forward = s /\ DL!Forward' = t /\ DL!CursorAt' = c + 1
    <2>1. DL!Forward = s
      BY WalksAre
    <2>2. DL!Forward' = t /\ DL!CursorAt' = PlaceOf(t, pos')
      BY <1>1, <1>11, CursorNext
    <2>3. t \in Seq(Node)
      BY <1>1, <1>2 DEF ListTypes
    <2>4. PlaceOf(t, t[c + 1]) = c + 1
      BY <2>3, <1>2, <1>7, <1>10, PlaceIs
    <2> QED
      BY <2>1, <2>2, <2>4, <1>10
  <1>13. n \notin DL!Abstract!ToSet(s)
    BY <1>0 DEF DL!Abstract!ToSet, DL!InsertFirst
  <1> QED
    BY <1>1, <1>9, <1>11, <1>12, <1>13 DEF NewList, DL!Abstract!PutFirst, t

LEMMA StepEnd ==
  ASSUME ListTypes, NEW s, Linking(s), NEW n \in Node, DL!InsertEnd(n)
  PROVE  /\ NewList(Append(s, n))
         /\ DL!Abstract!PutLast(n)
  <1> DEFINE t == Append(s, n)
             k == Len(s)
  <1>0. s \in Seq(used) /\ s \in Seq(Node) /\ Distinct(s) /\ k \in Nat /\ s # <<>> /\ k > 0
    <2>1. s \in Seq(used) /\ s \in Seq(Node) /\ Distinct(s) /\ k \in Nat
      BY CursorIs
    <2>2. s # <<>>
      BY DEF DL!InsertEnd, Linking, Chained
    <2> QED
      BY <2>1, <2>2
  <1>1. ListTypes' /\ used' = used \cup {n}
    <2>1. num' \in 0 .. NumModulus - 1
      BY ListConstants DEF DL!InsertEnd, ListTypes
    <2> QED
      BY <2>1, LinkTypes DEF DL!InsertEnd
  <1>2. /\ t \in Seq(used') /\ Len(t) = k + 1 /\ t # <<>>
        /\ t[k + 1] = n /\ \A i \in 1 .. k : t[i] = s[i]
    BY <1>0, <1>1
  <1> HIDE DEF t
  <1>3. \A i \in 1 .. k : t[i] \in used /\ t[i] # n /\ t[i] # NULL
    BY <1>0, <1>2, ListConstants DEF DL!InsertEnd
  <1>4. /\ entr = s[1] /\ tail = s[k] /\ curr = s[k]
        /\ \A i \in 1 .. k : next[s[i]] = IF i = k THEN NULL ELSE s[i + 1]
    BY <1>0 DEF Linking, Chained, DL!InsertEnd
  <1>5. \A i \in 1 .. k : prev[s[i]] = IF i = 1 THEN NULL ELSE s[i - 1]
    BY DEF Linking
  <1>6. /\ next' = [m \in used' |-> IF m = n THEN NULL ELSE IF m = curr THEN n ELSE next[m]]
        /\ prev' = [m \in used' |-> IF m = n THEN curr ELSE IF m = NULL THEN n ELSE prev[m]]
        /\ entr' = entr /\ tail' = n /\ curr' = n /\ pos' = pos
    BY DEF DL!InsertEnd, DL!Link
  <1>7. Distinct(t)
    BY <1>0, <1>2, <1>3 DEF Distinct
  <1>8. ASSUME NEW i \in 1 .. k + 1
        PROVE  /\ next'[t[i]] = IF i = k + 1 THEN NULL ELSE t[i + 1]
               /\ prev'[t[i]] = IF i = 1 THEN NULL ELSE t[i - 1]
    <2>1. CASE i = k + 1
      <3>1. k + 1 - 1 = k /\ k \in 1 .. k /\ k + 1 # 1
        BY <1>0
      <3>2. t[i] = n /\ n \in used' /\ t[i - 1] = s[k]
        BY <2>1, <3>1, <1>1, <1>2
      <3>3. next'[n] = NULL /\ prev'[n] = curr
        BY <3>2, <1>6
      <3> QED
        BY <2>1, <3>1, <3>2, <3>3, <1>4
    <2>2. CASE i # k + 1
      <3>1. i \in 1 .. k /\ t[i] = s[i] /\ t[i] \in used' /\ t[i] # n /\ t[i] # NULL
        BY <2>2, <1>0, <1>1, <1>2, <1>3
      <3>2. t[i] = curr <=> i = k
        BY <3>1, <1>0, <1>4 DEF Distinct
      <3>3. next'[t[i]] = IF i = k THEN n ELSE s[i + 1]
        BY <3>1, <3>2, <1>4, <1>6
      <3>4. i # k => i + 1 \in 1 .. k /\ t[i + 1] = s[i + 1]
        BY <3>1, <1>0, <1>2
      <3>5. prev'[t[i]] = IF i = 1 THEN NULL ELSE s[i - 1]
        BY <3>1, <1>5, <1>6
      <3>6. i # 1 => i - 1 \in 1 .. k /\ t[i - 1] = s[i - 1]
        BY <3>1, <1>0, <1>2
      <3> QED
        BY <2>2, <3>3, <3>4, <3>5, <3>6, <1>2
    <2> QED
      BY <2>1, <2>2
  <1>9. PICK c \in 1 .. k : pos = s[c] /\ DL!CursorAt = c
    BY <1>0, CursorIs
  <1>10. c \in 1 .. k + 1 /\ pos' = t[c]
    BY <1>0, <1>2, <1>6, <1>9
  <1>11. Linking(t)'
    <2>1. entr' = t[1]
      BY <1>0, <1>2, <1>4, <1>6
    <2>2. Chained(t, next', entr', used')
      BY <2>1, <1>2, <1>7, <1>8 DEF Chained
    <2>3. \A i \in 1 .. Len(t) : prev'[t[i]] = IF i = 1 THEN NULL ELSE t[i - 1]
      BY <1>2, <1>8
    <2>4. tail' = t[Len(t)] /\ curr' \in {tail', NULL} /\ \E i \in 1 .. Len(t) : pos' = t[i]
      BY <1>2, <1>6, <1>10
    <2> QED
      BY <2>2, <2>3, <2>4, <1>2 DEF Linking
  <1>12. DL!Forward = s /\ DL!Forward' = t /\ DL!CursorAt' = c
    <2>1. DL!Forward = s
      BY WalksAre
    <2>2. DL!Forward' = t /\ DL!CursorAt' = PlaceOf(t, pos')
      BY <1>1, <1>11, CursorNext
    <2>3. t \in Seq(Node)
      BY <1>1, <1>2 DEF ListTypes
    <2>4. PlaceOf(t, t[c]) = c
      BY <2>3, <1>2, <1>7, <1>10, PlaceIs
    <2> QED
      BY <2>1, <2>2, <2>4, <1>10
  <1>13. n \notin DL!Abstract!ToSet(s)
    BY <1>0 DEF DL!Abstract!ToSet, DL!InsertEnd
  <1> QED
    BY <1>0, <1>1, <1>9, <1>11, <1>12, <1>13 DEF NewList, DL!Abstract!PutLast, t

(* A step that leaves the head and the links of the list alone *)
LEMMA StepNowhere ==
  ASSUME ListTypes, NEW s, Linking(s), NEW n \in Node, DL!InsertNowhere(n)
  PROVE  NewList(s) /\ DL!Forward' = DL!Forward /\ DL!CursorAt' = DL!CursorAt
  <1>1. ListTypes' /\ used' = used \cup {n}
    BY LinkTypes DEF DL!InsertNowhere, DL!head, ListTypes
  <1>2. UNCHANGED <<entr, tail, curr, pos>>
    BY DEF DL!InsertNowhere, DL!head
  <1>3. /\ s \in Seq(used') /\ Distinct(s)
        /\ \A i \in 1 .. Len(s) : s[i] \in used' /\ s[i] # n /\ s[i] # NULL
    BY <1>1, CursorIs DEF DL!InsertNowhere
  <1>4. /\ next' = [m \in used' |-> IF m = n THEN NULL ELSE IF m = NULL THEN n ELSE next[m]]
        /\ prev' = [m \in used' |-> IF m = n THEN NULL ELSE IF m = NULL THEN n ELSE prev[m]]
    BY DEF DL!InsertNowhere, DL!Link
  <1>5. \A i \in 1 .. Len(s) : next'[s[i]] = next[s[i]] /\ prev'[s[i]] = prev[s[i]]
    BY <1>3, <1>4
  <1>6. Linking(s)'
    BY <1>2, <1>3, <1>5 DEF Linking, Chained
  <1> QED
    BY <1>1, <1>2, <1>6, WalksAre, CursorIs, CursorNext DEF NewList

(* Nothing is left of the list: its first node is deleted, or all are. *)
LEMMA StepEmpty ==
  ASSUME ListTypes, DL!DeleteFirst \/ DL!Destory
  PROVE  NewList(<<>>) /\ DL!Abstract!Empty
  <1>1. entr' = NULL /\ tail' = NULL /\ curr' = NULL /\ pos' = NULL /\ num' = 0
    BY DEF DL!DeleteFirst, DL!Destory
  <1>2. \E gone : used' = used \ gone
    BY DEF DL!DeleteFirst, DL!Destory
  <1>3. DOMAIN next' = used' /\ DOMAIN prev' = used'
    BY DEF DL!DeleteFirst, DL!Destory, DL!Keep, ListTypes
  <1>4. IsFiniteSet(used')
    BY <1>2, FS_Subset DEF ListTypes
  <1>5. ListTypes'
    BY <1>1, <1>2, <1>3, <1>4, ListConstants DEF ListTypes
  <1>6. Linking(<<>>)'
    BY <1>1 DEF Linking, Chained, Distinct
  <1>7. DL!Forward' = <<>> /\ DL!CursorAt' = 0
    BY <1>1, <1>5, <1>6, CursorNext DEF PlaceOf
  <1> QED
    BY <1>5, <1>6, <1>7 DEF NewList, DL!Abstract!Empty

LEMMA RemoveAtIs ==
  ASSUME NEW S, NEW s \in Seq(S), NEW d \in 1 .. Len(s)
  PROVE  LET t == DL!Abstract!RemoveAt(s, d)
         IN  /\ t \in Seq(S) /\ Len(t) = Len(s) - 1
             /\ \A i \in 1 .. Len(s) - 1 : t[i] = IF i < d THEN s[i] ELSE s[i + 1]
  BY TakenOut DEF DL!Abstract!RemoveAt

LEMMA StepOther ==
  ASSUME ListTypes, NEW s, Linking(s), NEW n \in Node, DL!DeleteOther(n)
  PROVE  \E d \in 2 .. Len(s) :
           /\ NewList(DL!Abstract!RemoveAt(s, d))
           /\ DL!Forward = s /\ DL!Abstract!Delete(d)
  <1> DEFINE k == Len(s)
             tp == DL!Forward[CHOOSE i \in 1 .. Len(DL!Forward) - 1 : DL!Forward[i + 1] = n]
  <1>0. /\ s \in Seq(used) /\ s \in Seq(Node) /\ Distinct(s) /\ k \in Nat /\ DL!Forward = s
        /\ \A i \in 1 .. k : s[i] \in used /\ s[i] # NULL
    BY CursorIs, WalksAre
  <1>1. n \in DL!Reach /\ n # entr
    BY DEF DL!DeleteOther
  <1>2. PICK d \in 2 .. k : s[d] = n
    <2>1. PICK j \in 1 .. k : s[j] = n
      BY <1>0, <1>1 DEF DL!Reach, DL!ToSet
    <2>2. j # 1
      BY <2>1, <1>0, <1>1 DEF Linking, Chained
    <2> QED
      BY <2>1, <2>2
  <1>3. tp = s[d - 1]
    <2>1. d - 1 \in 1 .. k - 1 /\ s[d - 1 + 1] = n
      BY <1>0, <1>2
    <2>2. \A i \in 1 .. k - 1 : s[i + 1] = n => i = d - 1
      BY <1>0, <1>2 DEF Distinct
    <2>3. (CHOOSE i \in 1 .. k - 1 : s[i + 1] = n) = d - 1
      BY <2>1, <2>2
    <2> QED
      BY <2>3, <1>0
  <1>4. /\ used' = used \ {n}
        /\ next' = DL!Keep([next EXCEPT ![tp] = next[n]], n)
        /\ prev' = IF next[n] = NULL THEN DL!Keep(prev, n)
                   ELSE DL!Keep([prev EXCEPT ![next[n]] = tp], n)
        /\ tail' = IF next[n] = NULL THEN tp ELSE tail
        /\ curr' = IF n = curr THEN next[n] ELSE curr
        /\ pos' = IF n = pos THEN tp ELSE pos
        /\ num' = (num - 1) % NumModulus
        /\ entr' = entr
    BY DEF DL!DeleteOther
  <1> HIDE DEF tp
  <1>5. /\ \A i \in 1 .. k : next[s[i]] = IF i = k THEN NULL ELSE s[i + 1]
        /\ \A i \in 1 .. k : prev[s[i]] = IF i = 1 THEN NULL ELSE s[i - 1]
        /\ entr = s[1] /\ tail = s[k] /\ curr \in {tail, NULL}
    BY <1>0, <1>2 DEF Linking, Chained
  <1>6. next[n] = IF d = k THEN NULL ELSE s[d + 1]
    BY <1>2, <1>5
  <1>7. next[n] = NULL <=> d = k
    BY <1>0, <1>2, <1>6
  <1>8. \A i, j \in 1 .. k : s[i] = s[j] <=> i = j
    BY <1>0 DEF Distinct
  <1>9. ListTypes'
    <2>1. DOMAIN next' = used' /\ DOMAIN prev' = used'
      BY <1>4 DEF DL!Keep, ListTypes
    <2>2. num' \in 0 .. NumModulus - 1
      BY <1>4, ListConstants DEF ListTypes
    <2>3. IsFiniteSet(used')
      BY <1>4, FS_RemoveElement DEF ListTypes
    <2> QED
      BY <2>1, <2>2, <2>3, <1>4 DEF ListTypes
  <1>10. \A i \in 1 .. k : i # d => s[i] \in used' /\ s[i] # n
    BY <1>0, <1>2, <1>4, <1>8
  <1>11. ASSUME NEW i \in 1 .. k, i # d
         PROVE  /\ next'[s[i]] = IF i = d - 1 THEN next[n] ELSE next[s[i]]
                /\ prev'[s[i]] = IF i = d + 1 THEN s[d - 1] ELSE prev[s[i]]
    <2>0. s[i] \in DOMAIN next /\ s[i] \in DOMAIN prev /\ s[i] # n
      BY <1>0, <1>10, <1>11 DEF ListTypes
    <2>1. s[i] = tp <=> i = d - 1
      BY <1>0, <1>2, <1>3, <1>8
    <2>2. next'[s[i]] = IF i = d - 1 THEN next[n] ELSE next[s[i]]
      BY <2>0, <2>1, <1>4 DEF DL!Keep
    <2>3. CASE d = k
      BY <2>0, <2>2, <2>3, <1>4, <1>7 DEF DL!Keep
    <2>4. CASE d # k
      <3>1. next[n] = s[d + 1] /\ d + 1 \in 1 .. k
        BY <2>4, <1>0, <1>2, <1>6
      <3>2. s[i] = next[n] <=> i = d + 1
        BY <3>1, <1>8
      <3> QED
        BY <2>0, <2>2, <2>4, <3>2, <1>3, <1>4, <1>7 DEF DL!Keep
    <2> QED
      BY <2>3, <2>4
  <1> DEFINE t == DL!Abstract!RemoveAt(s, d)
             Old(i) == IF i < d THEN i ELSE i + 1
  <1>12. /\ t \in Seq(used) /\ t \in Seq(Node) /\ Len(t) = k - 1
         /\ \A i \in 1 .. k - 1 : t[i] = s[Old(i)]
    <2>1. d \in 1 .. k
      BY <1>0
    <2> QED
      BY <1>0, <2>1, RemoveAtIs
  <1> HIDE DEF t
  <1>13. \A i \in 1 .. k - 1 : Old(i) \in 1 .. k /\ Old(i) # d
    BY <1>0
  <1>14. t \in Seq(used') /\ Distinct(t)
    <2>1. \A i \in 1 .. Len(t) : t[i] \in used'
      BY <1>10, <1>12, <1>13
    <2>2. t \in Seq(used')
      BY <1>12, <2>1
    <2>3. \A i, j \in 1 .. k - 1 : Old(i) = Old(j) => i = j
      BY <1>0
    <2> QED
      BY <2>2, <2>3, <1>8, <1>12, <1>13 DEF Distinct
  <1>15. ASSUME NEW i \in 1 .. k - 1
         PROVE  /\ next'[t[i]] = IF i = k - 1 THEN NULL ELSE t[i + 1]
                /\ prev'[t[i]] = IF i = 1 THEN NULL ELSE t[i - 1]
    <2>1. i # k - 1 => i + 1 \in 1 .. k - 1 /\ t[i + 1] = s[Old(i + 1)]
      BY <1>0, <1>12
    <2>2. i # 1 => i - 1 \in 1 .. k - 1 /\ t[i - 1] = s[Old(i - 1)]
      BY <1>0, <1>12
    <2>3. /\ t[i] = s[Old(i)] /\ Old(i) \in 1 .. k /\ Old(i) # d
          /\ next'[t[i]] = IF Old(i) = d - 1 THEN next[n] ELSE next[s[Old(i)]]
          /\ prev'[t[i]] = IF Old(i) = d + 1 THEN s[d - 1] ELSE prev[s[Old(i)]]
      BY <1>11, <1>12, <1>13
    <2>4. /\ next[s[Old(i)]] = IF Old(i) = k THEN NULL ELSE s[Old(i) + 1]
          /\ prev[s[Old(i)]] = IF Old(i) = 1 THEN NULL ELSE s[Old(i) - 1]
      BY <2>3, <1>5
    <2>5. CASE i < d - 1
      <3>1. Old(i) = i /\ Old(i + 1) = i + 1 /\ Old(i - 1) = i - 1 /\ i # k /\ i # k - 1 /\ i # d + 1
        BY <2>5, <1>0
      <3> QED
        BY <2>1, <2>2, <2>3, <2>4, <3>1, <2>5
    <2>6. CASE i = d - 1
      <3>1. Old(i) = i /\ Old(i + 1) = d + 1 /\ Old(i - 1) = i - 1 /\ i # d + 1
            /\ (i = k - 1 <=> d = k)
        BY <2>6, <1>0
      <3> QED
        BY <2>1, <2>2, <2>3, <2>4, <3>1, <2>6, <1>6
    <2>7. CASE i >= d
      <3>1. Old(i) = i + 1 /\ Old(i + 1) = i + 1 + 1 /\ i # 1 /\ i + 1 # 1 /\ i + 1 # d - 1
            /\ (i + 1 = k <=> i = k - 1)
            /\ (i = d => i + 1 = d + 1 /\ Old(i - 1) = d - 1)
            /\ (i # d => i + 1 # d + 1 /\ Old(i - 1) = i + 1 - 1)
        BY <2>7, <1>0
      <3> QED
        BY <2>1, <2>2, <2>3, <2>4, <3>1
    <2> QED
      BY <2>5, <2>6, <2>7
  <1>16. entr' = t[1] /\ tail' = t[k - 1] /\ curr' \in {tail', NULL} /\ t # <<>>
    <2>0. 1 \in 1 .. k - 1 /\ k - 1 \in 1 .. k - 1 /\ Old(1) = 1
      BY <1>0
    <2>1. entr' = t[1] /\ t # <<>>
      <3>1. t[1] = s[1]
        BY <2>0, <1>12
      <3>2. entr' = s[1]
        BY <1>4, <1>5
      <3>3. t # <<>>
        BY <2>0, <1>12
      <3> QED
        BY <3>1, <3>2, <3>3
    <2>2. CASE d = k
      <3>1. tail' = s[d - 1] /\ Old(k - 1) = d - 1
        BY <2>2, <1>3, <1>4, <1>7
      <3>2. curr' = NULL
        BY <2>2, <1>2, <1>4, <1>5, <1>7
      <3> QED
        BY <2>0, <2>1, <3>1, <3>2, <1>12
    <2>3. CASE d # k
      <3>1. tail' = s[k] /\ Old(k - 1) = k
        BY <2>3, <1>0, <1>4, <1>5, <1>7
      <3>2. n # curr
        <4>1. n # s[k]
          BY <2>3, <1>0, <1>2, <1>8
        <4>2. n # NULL
          BY <1>0, <1>2
        <4> QED
          BY <4>1, <4>2, <1>5
      <3> QED
        BY <2>0, <2>1, <3>1, <3>2, <1>4, <1>5, <1>12
    <2> QED
      BY <2>2, <2>3
  <1>17. PICK c \in 1 .. k : pos = s[c] /\ DL!CursorAt = c
    BY <1>0, <1>2, CursorIs
  <1> DEFINE nc == IF c >= d THEN c - 1 ELSE c
  <1>18. nc \in 1 .. k - 1 /\ pos' = t[nc]
    <2>1. CASE c = d
      <3>1. pos' = s[d - 1] /\ nc = d - 1 /\ nc \in 1 .. k - 1 /\ Old(nc) = d - 1
        BY <2>1, <1>0, <1>2, <1>3, <1>4, <1>17
      <3> QED
        BY <3>1, <1>12
    <2>2. CASE c # d
      <3>1. n # s[c]
        BY <2>2, <1>0, <1>2, <1>8, <1>17
      <3>2. nc \in 1 .. k - 1 /\ Old(nc) = c
        BY <2>2, <1>0, <1>17
      <3>3. pos' = s[c]
        BY <3>1, <1>4, <1>17
      <3> QED
        BY <3>2, <3>3, <1>12
    <2> QED
      BY <2>1, <2>2
  <1>19. Linking(t)'
    <2>1. Chained(t, next', entr', used')
      BY <1>12, <1>14, <1>15, <1>16 DEF Chained
    <2> QED
      BY <2>1, <1>12, <1>15, <1>16, <1>18 DEF Linking
  <1>20. DL!Forward' = t /\ DL!CursorAt' = nc
    <2>1. DL!Forward' = t /\ DL!CursorAt' = PlaceOf(t, pos')
      BY <1>9, <1>19, CursorNext
    <2> HIDE DEF nc
    <2>2. PlaceOf(t, t[nc]) = nc
      BY <1>12, <1>14, <1>18, PlaceIs
    <2> QED
      BY <2>1, <2>2, <1>18
  <1>21. DL!Abstract!Delete(d)
    BY <1>0, <1>17, <1>20 DEF DL!Abstract!Delete, t
  <1> QED
    BY <1>0, <1>9, <1>19, <1>21 DEF NewList, t

LEMMA StepControl ==
  ASSUME ListTypes, NEW s, Linking(s), DL!Control(next) \/ DL!Control(prev)
  PROVE  NewList(s) /\ DL!Abstract!Move
  <1> DEFINE k == Len(s)
  <1>0. /\ s \in Seq(used) /\ s \in Seq(Node) /\ Distinct(s) /\ k \in Nat /\ DL!Forward = s
    BY CursorIs, WalksAre
  <1>1. UNCHANGED <<used, next, prev, entr, tail, curr, num>>
    BY DEF DL!Control, DL!links
  <1>2. s # <<>>
    BY DEF DL!Control, Linking
  <1>3. PICK c \in 1 .. k : pos = s[c] /\ DL!CursorAt = c
    BY <1>2, CursorIs
  <1>4. PICK nc \in 1 .. k : nc \in {c - 1, c + 1} /\ pos' = s[nc]
    <2>1. CASE DL!Control(next)
      <3>1. pos' = next[s[c]] /\ next[s[c]] # NULL
        BY <2>1, <1>3 DEF DL!Control
      <3>2. next[s[c]] = IF c = k THEN NULL ELSE s[c + 1]
        BY DEF Linking, Chained
      <3>3. c # k /\ pos' = s[c + 1]
        BY <3>1, <3>2
      <3>4. c + 1 \in 1 .. k
        BY <3>3, <1>0
      <3> QED
        BY <3>3, <3>4
    <2>2. CASE DL!Control(prev)
      <3>1. pos' = prev[s[c]] /\ prev[s[c]] # NULL
        BY <2>2, <1>3 DEF DL!Control
      <3>2. prev[s[c]] = IF c = 1 THEN NULL ELSE s[c - 1]
        BY DEF Linking
      <3>3. c # 1 /\ pos' = s[c - 1]
        BY <3>1, <3>2
      <3>4. c - 1 \in 1 .. k
        BY <3>3, <1>0
      <3> QED
        BY <3>3, <3>4
    <2> QED
      BY <2>1, <2>2
  <1>5. ListTypes'
    BY <1>1 DEF ListTypes
  <1>6. Linking(s)'
    BY <1>1, <1>2, <1>4 DEF Linking, Chained
  <1>7. DL!Forward' = s /\ DL!CursorAt' = nc
    BY <1>0, <1>4, <1>5, <1>6, CursorNext, PlaceIs
  <1> QED
    BY <1>0, <1>3, <1>4, <1>5, <1>6, <1>7 DEF NewList, DL!Abstract!Move

(* Every step of the list, and of the other containers *)
LEMMA ListStep ==
  ASSUME ListInv, [Next]_<<container, set, map, heap, list>>
  PROVE  /\ ListInv'
         /\ DL!Abstract!Next \/ UNCHANGED <<DL!Forward, DL!CursorAt>>
  <1>1. PICK s : Linking(s)
    BY DEF ListInv
  <1>2. ListTypes
    BY DEF ListInv
  <1>3. \A t : NewList(t) => ListInv'
    BY DEF NewList, ListInv
  <1>4. CASE UNCHANGED <<used, next, prev, entr, tail, curr, pos, num>>
    <2>1. ListTypes' /\ Linking(s)'
      BY <1>1, <1>2, <1>4 DEF ListTypes, Linking, Chained
    <2> QED
      BY <2>1, <1>1, <1>2, <1>3, <1>4, WalksAre, CursorIs, CursorNext DEF NewList
  <1>5. CASE DL!Next
    <2>1. ASSUME NEW n \in Node, DL!InsertInEmpty(n) PROVE ListInv' /\ DL!Abstract!Next
      BY <1>1, <1>2, <1>3, <2>1, StepInEmpty DEF DL!Abstract!Next
    <2>2. ASSUME NEW n \in Node, DL!InsertFirst(n) PROVE ListInv' /\ DL!Abstract!Next
      BY <1>1, <1>2, <1>3, <2>2, StepFirst DEF DL!Abstract!Next
    <2>3. ASSUME NEW n \in Node, DL!InsertEnd(n) PROVE ListInv' /\ DL!Abstract!Next
      BY <1>1, <1>2, <1>3, <2>3, StepEnd DEF DL!Abstract!Next
    <2>4. ASSUME NEW n \in Node, DL!InsertNowhere(n)
          PROVE  ListInv' /\ UNCHANGED <<DL!Forward, DL!CursorAt>>
      BY <1>1, <1>2, <1>3, <2>4, StepNowhere
    <2>5. ASSUME NEW n \in Node, DL!DeleteOther(n) PROVE ListInv' /\ DL!Abstract!Next
      BY <1>1, <1>2, <1>3, <2>5, StepOther DEF DL!Abstract!Next
    <2>6. CASE DL!DeleteFirst \/ DL!Destory
      BY <1>2, <1>3, <2>6, StepEmpty DEF DL!Abstract!Next
    <2>7. CASE DL!Control(next) \/ DL!Control(prev)
      BY <1>1, <1>2, <1>3, <2>7, StepControl DEF DL!Abstract!Next
    <2>8. CASE DL!DdlInit \/ DL!InsertEndCrashes \/ DL!ControlCrashes
      BY <2>8, <1>4 DEF DL!DdlInit, DL!InsertEndCrashes, DL!ControlCrashes, DL!links, DL!head
    <2> QED
      BY <1>5, <2>1, <2>2, <2>3, <2>4, <2>5, <2>6, <2>7, <2>8 DEF DL!Next
  <1>6. DL!Next \/ UNCHANGED <<used, next, prev, entr, tail, curr, pos, num>>
    BY DEF Next, SetNext, MapNext, HeapNext, ListNext, list
  <1> QED
    BY <1>4, <1>5, <1>6

LEMMA ListStarts == Init => ListInv /\ DL!Abstract!Init
  <1> SUFFICES ASSUME Init PROVE ListInv /\ DL!Abstract!Init
    OBVIOUS
  <1>1. /\ used = {} /\ next = <<>> /\ prev = <<>> /\ num = 0
        /\ entr = NULL /\ tail = NULL /\ curr = NULL /\ pos = NULL
    BY DEF Init, DL!Init
  <1>2. ListTypes
    <2>1. DOMAIN next = {} /\ DOMAIN prev = {}
      BY <1>1
    <2> QED
      BY <1>1, <2>1, ListConstants, FS_EmptySet DEF ListTypes
  <1>3. Linking(<<>>)
    BY <1>1 DEF Linking, Chained, Distinct
  <1>4. DL!Forward = <<>> /\ DL!CursorAt = 0
    BY <1>1, <1>2, <1>3, WalksAre, CursorIs DEF PlaceOf
  <1> QED
    BY <1>2, <1>3, <1>4 DEF ListInv, DL!Abstract!Init

(* Both directions of the list agree with its head, always. *)
THEOREM ListIsAList == Spec => []ListLinked
  <1>1. Init => ListInv
    BY ListStarts
  <1>2. ListInv /\ [Next]_<<container, set, map, heap, list>> => ListInv'
    BY ListStep
  <1> QED
    BY <1>1, <1>2, ListIsLinked, PTL DEF Spec

(* The list implements a sequence with a cursor. *)
THEOREM ListImplementsSequence == Spec => ListIsSequence
  <1>1. Init => ListInv /\ DL!Abstract!Init
    BY ListStarts
  <1>2. ListInv /\ [Next]_<<container, set, map, heap, list>> => ListInv'
    BY ListStep
  <1>3. ListInv /\ [Next]_<<container, set, map, heap, list>>
        => [DL!Abstract!Next]_<<DL!Forward, DL!CursorAt>>
    BY ListStep
  <1> QED
    BY <1>1, <1>2, <1>3, PTL DEF Spec, ListIsSequence, DL!IsCursorList, DL!Abstract!Spec

-----------------------------------------------------------------------------
(* Chains of entries, and tables of chains *)

(* The entries of a chain have different keys. *)
Unlike(c) == \A i, j \in 1 .. Len(c) : c[i].key = c[j].key => i = j

(* An entry is put at an end of the chain. *)
TakesIn(c, e, d) == d = Append(c, e) \/ d = <<e>> \o c

LEMMA ChainGrows ==
  ASSUME NEW E, NEW c \in Seq(E), NEW e \in E, NEW d, TakesIn(c, e, d)
  PROVE  /\ d \in Seq(E) /\ Len(d) = Len(c) + 1 /\ Met(d) = Met(c) \cup {e}
         /\ Unlike(c) /\ (\A f \in Met(c) : f.key # e.key) => Unlike(d)
  <1>0. Len(c) \in Nat
    OBVIOUS
  <1>1. CASE d = Append(c, e)
    <2>1. /\ d \in Seq(E) /\ Len(d) = Len(c) + 1 /\ d[Len(c) + 1] = e
          /\ \A i \in 1 .. Len(c) : d[i] = c[i]
      BY <1>1
    <2>2. Met(d) = Met(c) \cup {e}
      <3>1. ASSUME NEW x \in Met(d) PROVE x \in Met(c) \cup {e}
        BY <1>0, <2>1, <3>1 DEF Met
      <3>2. ASSUME NEW x \in Met(c) PROVE x \in Met(d)
        BY <1>0, <2>1, <3>2 DEF Met
      <3>3. e \in Met(d)
        BY <1>0, <2>1 DEF Met
      <3> QED
        BY <3>1, <3>2, <3>3
    <2>3. ASSUME Unlike(c), \A f \in Met(c) : f.key # e.key PROVE Unlike(d)
      <3>1. \A i \in 1 .. Len(c) : c[i].key # e.key
        BY <2>3 DEF Met
      <3> QED
        BY <1>0, <2>1, <2>3, <3>1 DEF Unlike
    <2> QED
      BY <2>1, <2>2, <2>3
  <1>2. CASE d = <<e>> \o c
    <2>0. <<e>> \in Seq(E) /\ Len(<<e>>) = 1 /\ <<e>>[1] = e
      OBVIOUS
    <2>1. /\ d \in Seq(E) /\ Len(d) = Len(c) + 1
          /\ \A i \in 1 .. Len(c) + 1 : d[i] = IF i <= 1 THEN <<e>>[i] ELSE c[i - 1]
      <3> HIDE <1>2
      <3>1. /\ <<e>> \o c \in Seq(E) /\ Len(<<e>> \o c) = 1 + Len(c)
            /\ \A i \in 1 .. 1 + Len(c) : (<<e>> \o c)[i] = IF i <= 1 THEN <<e>>[i] ELSE c[i - 1]
        BY <2>0, ConcatProperties
      <3> QED
        BY <1>0, <1>2, <3>1
    <2>a. d[1] = e /\ \A i \in 2 .. Len(c) + 1 : i - 1 \in 1 .. Len(c) /\ d[i] = c[i - 1]
      BY <1>0, <2>0, <2>1
    <2>2. Met(d) = Met(c) \cup {e}
      <3>1. ASSUME NEW x \in Met(d) PROVE x \in Met(c) \cup {e}
        <4>1. PICK i \in 1 .. Len(c) + 1 : x = d[i]
          BY <2>1 DEF Met
        <4>2. CASE i = 1
          BY <4>1, <4>2, <2>a
        <4>3. CASE i # 1
          BY <4>1, <4>3, <2>a, <1>0 DEF Met
        <4> QED
          BY <4>2, <4>3
      <3>2. ASSUME NEW x \in Met(c) PROVE x \in Met(d)
        <4>1. PICK i \in 1 .. Len(c) : x = c[i]
          BY DEF Met
        <4>2. i + 1 \in 2 .. Len(c) + 1 /\ i + 1 - 1 = i
          BY <1>0
        <4>3. x = d[i + 1] /\ i + 1 \in 1 .. Len(d)
          BY <4>1, <4>2, <2>1, <2>a
        <4> QED
          BY <4>3 DEF Met
      <3>3. e \in Met(d)
        BY <1>0, <2>1, <2>a DEF Met
      <3> QED
        BY <3>1, <3>2, <3>3
    <2>3. ASSUME Unlike(c), \A f \in Met(c) : f.key # e.key PROVE Unlike(d)
      <3>1. \A i \in 1 .. Len(c) : c[i].key # e.key
        BY <2>3 DEF Met
      <3>2. ASSUME NEW i \in 1 .. Len(d), NEW j \in 1 .. Len(d), d[i].key = d[j].key
            PROVE  i = j
        <4>0. \A k \in 1 .. Len(d) : k # 1 => k - 1 \in 1 .. Len(c) /\ d[k] = c[k - 1]
          BY <1>0, <2>1, <2>a
        <4>1. CASE i = 1 \/ j = 1
          <5>1. \A k \in 1 .. Len(d) : k # 1 => d[k].key # e.key
            BY <4>0, <3>1
          <5> QED
            BY <2>a, <3>2, <4>1, <5>1
        <4>2. CASE i # 1 /\ j # 1
          <5>1. i - 1 = j - 1
            BY <1>0, <2>1, <2>a, <2>3, <3>2, <4>2 DEF Unlike
          <5> QED
            BY <1>0, <2>1, <5>1
        <4> QED
          BY <4>1, <4>2
      <3> QED
        BY <3>2 DEF Unlike
    <2> QED
      BY <2>1, <2>2, <2>3
  <1> QED
    BY <1>1, <1>2 DEF TakesIn

(* The places of d are those of c but i, in another order. *)
TakesOut(c, i, d, was) ==
    /\ Len(d) = Len(c) - 1
    /\ was \in [1 .. Len(c) - 1 -> 1 .. Len(c)]
    /\ \A j \in 1 .. Len(c) - 1 : d[j] = c[was[j]]
    /\ \A j, k \in 1 .. Len(c) - 1 : was[j] = was[k] => j = k
    /\ \A k \in 1 .. Len(c) : (k # i) <=> (\E j \in 1 .. Len(c) - 1 : was[j] = k)

LEMMA ChainShrinks ==
  ASSUME NEW E, NEW c \in Seq(E), Unlike(c), NEW i \in 1 .. Len(c),
         NEW d \in Seq(E), NEW was, TakesOut(c, i, d, was)
  PROVE  Met(d) = Met(c) \ {c[i]} /\ Unlike(d)
  <1> USE DEF TakesOut
  <1>0. Len(c) \in Nat
    OBVIOUS
  <1>1. Unlike(d)
    <2>1. ASSUME NEW j \in 1 .. Len(d), NEW k \in 1 .. Len(d), d[j].key = d[k].key
          PROVE  j = k
      <3>1. was[j] \in 1 .. Len(c) /\ was[k] \in 1 .. Len(c) /\ c[was[j]].key = c[was[k]].key
        BY <2>1
      <3>2. was[j] = was[k]
        BY <3>1 DEF Unlike
      <3> QED
        BY <3>2
    <2> QED
      BY <2>1 DEF Unlike
  <1>2. ASSUME NEW x \in Met(d) PROVE x \in Met(c) \ {c[i]}
    <2>0. PICK j \in 1 .. Len(d) : x = d[j]
      BY DEF Met
    <2>1. j \in 1 .. Len(c) - 1 /\ x = c[was[j]]
      BY <2>0
    <2>2. was[j] \in 1 .. Len(c) /\ was[j] # i
      BY <1>0
    <2> QED
      BY <2>1, <2>2 DEF Met, Unlike
  <1>3. ASSUME NEW x \in Met(c) \ {c[i]} PROVE x \in Met(d)
    <2>1. PICK k \in 1 .. Len(c) : x = c[k]
      BY DEF Met
    <2>2. k # i
      BY <2>1, <1>3
    <2>3. PICK j \in 1 .. Len(c) - 1 : was[j] = k
      BY <2>2
    <2> QED
      BY <2>1, <2>3 DEF Met
  <1> QED
    BY <1>1, <1>2, <1>3

(* A chain with one of its entries taken out *)
LEMMA ChainWithout ==
  ASSUME NEW E, NEW c \in Seq(E), Unlike(c), NEW i \in 1 .. Len(c)
  PROVE  LET d == SubSeq(c, 1, i - 1) \o SubSeq(c, i + 1, Len(c))
         IN  /\ d \in Seq(E) /\ Len(d) = Len(c) - 1 /\ Met(d) = Met(c) \ {c[i]} /\ Unlike(d)
             /\ \A j \in 1 .. Len(c) - 1 : d[j] = IF j < i THEN c[j] ELSE c[j + 1]
  <1> DEFINE d == SubSeq(c, 1, i - 1) \o SubSeq(c, i + 1, Len(c))
             was == [j \in 1 .. Len(c) - 1 |-> IF j < i THEN j ELSE j + 1]
  <1>0. Len(c) \in Nat
    OBVIOUS
  <1>1. /\ d \in Seq(E) /\ Len(d) = Len(c) - 1
        /\ \A j \in 1 .. Len(c) - 1 : d[j] = IF j < i THEN c[j] ELSE c[j + 1]
    BY TakenOut
  <1> HIDE DEF d
  <1>2. was \in [1 .. Len(c) - 1 -> 1 .. Len(c)]
    BY <1>0
  <1>3. \A j \in 1 .. Len(c) - 1 : was[j] = IF j < i THEN j ELSE j + 1
    OBVIOUS
  <1> HIDE DEF was
  <1>4. \A j \in 1 .. Len(c) - 1 : d[j] = c[was[j]]
    BY <1>1, <1>3
  <1>5. \A j, k \in 1 .. Len(c) - 1 : was[j] = was[k] => j = k
    BY <1>0, <1>3
  <1>6. ASSUME NEW k \in 1 .. Len(c)
        PROVE  (k # i) <=> (\E j \in 1 .. Len(c) - 1 : was[j] = k)
    <2>1. ASSUME k < i PROVE k \in 1 .. Len(c) - 1 /\ was[k] = k
      BY <1>0, <1>3, <2>1
    <2>2. ASSUME k > i PROVE k - 1 \in 1 .. Len(c) - 1 /\ was[k - 1] = k
      BY <1>0, <1>3, <2>2
    <2>3. ASSUME NEW j \in 1 .. Len(c) - 1, was[j] = k PROVE k # i
      BY <1>0, <1>3, <2>3
    <2> QED
      BY <1>0, <2>1, <2>2, <2>3
  <1>7. Met(d) = Met(c) \ {c[i]} /\ Unlike(d)
    <2>1. TakesOut(c, i, d, was)
      BY <1>1, <1>2, <1>4, <1>5, <1>6 DEF TakesOut
    <2> QED
      BY <1>1, <2>1, ChainShrinks
  <1> QED
    BY <1>1, <1>7 DEF d

(* One entry less: its place is taken by the last. *)
LastMoves(c, i, d) == d = SubSeq([c EXCEPT ![i] = c[Len(c)]], 1, Len(c) - 1)

LEMMA LastTakesPlace ==
  ASSUME NEW E, NEW c \in Seq(E), Unlike(c), NEW i \in 1 .. Len(c),
         NEW d, LastMoves(c, i, d)
  PROVE  /\ d \in Seq(E) /\ Len(d) = Len(c) - 1 /\ Met(d) = Met(c) \ {c[i]} /\ Unlike(d)
         /\ \A j \in 1 .. Len(c) - 1 : d[j] = IF j = i THEN c[Len(c)] ELSE c[j]
  <1>2. Len(c) \in Nat /\ i \in 1 .. Len(c) /\ c \in Seq(E) /\ Unlike(c)
    OBVIOUS
  <1>3. PICK f : f = [c EXCEPT ![i] = c[Len(c)]]
    OBVIOUS
  <1>4. /\ f \in Seq(E) /\ Len(f) = Len(c)
        /\ \A j \in 1 .. Len(c) : f[j] = IF j = i THEN c[Len(c)] ELSE c[j]
    <2>1. c[Len(c)] \in E
      BY <1>2
    <2> QED
      BY <1>2, <1>3, <2>1
  <1>5. d = SubSeq(f, 1, Len(f) - 1)
    BY <1>3, <1>4 DEF LastMoves
  <1>6. /\ d \in Seq(E) /\ Len(d) = Len(c) - 1
        /\ \A j \in 1 .. Len(c) - 1 : d[j] = IF j = i THEN c[Len(c)] ELSE c[j]
    <2>1. /\ SubSeq(f, 1, Len(f) - 1) \in Seq(E)
          /\ Len(SubSeq(f, 1, Len(f) - 1)) = Len(f) - 1
          /\ \A j \in 1 .. Len(f) - 1 : SubSeq(f, 1, Len(f) - 1)[j] = f[j]
      BY <1>2, <1>4, SubSeqProperties
    <2>2. \A j \in 1 .. Len(c) - 1 : j \in 1 .. Len(c)
      BY <1>2
    <2> QED
      BY <1>4, <1>5, <2>1, <2>2
  <1>7. PICK was : was = [j \in 1 .. Len(c) - 1 |-> IF j = i THEN Len(c) ELSE j]
    OBVIOUS
  <1>8. TakesOut(c, i, d, was)
    <2>1. \A j \in 1 .. Len(c) - 1 : was[j] = IF j = i THEN Len(c) ELSE j
      BY <1>7
    <2>2. was \in [1 .. Len(c) - 1 -> 1 .. Len(c)]
      BY <1>2, <1>7
    <2>3. \A j \in 1 .. Len(c) - 1 : d[j] = c[was[j]]
      BY <1>6, <2>1
    <2>4. \A j, k \in 1 .. Len(c) - 1 : was[j] = was[k] => j = k
      BY <1>2, <2>1
    <2>5. ASSUME NEW k \in 1 .. Len(c)
          PROVE  (k # i) <=> (\E j \in 1 .. Len(c) - 1 : was[j] = k)
      <3>1. ASSUME k # i PROVE \E j \in 1 .. Len(c) - 1 : was[j] = k
        <4>1. CASE k = Len(c)
          <5>1. i \in 1 .. Len(c) - 1 /\ was[i] = k
            BY <1>2, <2>1, <3>1, <4>1
          <5> QED
            BY <5>1
        <4>2. CASE k # Len(c)
          <5>1. k \in 1 .. Len(c) - 1 /\ was[k] = k
            BY <1>2, <2>1, <3>1, <4>2
          <5> QED
            BY <5>1
        <4> QED
          BY <4>1, <4>2
      <3>2. ASSUME NEW j \in 1 .. Len(c) - 1, was[j] = k PROVE k # i
        BY <1>2, <2>1, <3>2
      <3> QED
        BY <3>1, <3>2
    <2> QED
      BY <1>6, <2>2, <2>3, <2>4, <2>5 DEF TakesOut
  <1>9. Met(d) = Met(c) \ {c[i]} /\ Unlike(d)
    BY ONLY <1>2, <1>6, <1>8, ChainShrinks
  <1> QED
    BY <1>6, <1>9

(* What a table of chains holds, and that it holds no key twice *)
Held(t) == UNION {Met(t[x]) : x \in DOMAIN t}

Good(t) ==
    /\ \A x \in DOMAIN t : Unlike(t[x])
    /\ \A x, y \in DOMAIN t : \A e \in Met(t[x]), f \in Met(t[y]) : e.key = f.key => x = y

(* Tables of chains of entries of E, over D, and a change to one chain *)
TablesOf(D, E) == [D -> Seq(E)]
Puts(D, E, t, s, d, u) ==
    t \in TablesOf(D, E) /\ s \in D /\ u = [t EXCEPT ![s] = d]

(* A chain has one entry of a key, and so has the table. *)
LEMMA MetOnce ==
  ASSUME NEW c, Unlike(c), NEW e \in Met(c), NEW f \in Met(c), e.key = f.key
  PROVE  e = f
  BY DEF Met, Unlike

LEMMA HeldOnce ==
  ASSUME NEW t, Good(t), NEW e \in Held(t), NEW f \in Held(t), e.key = f.key
  PROVE  e = f
  <1>1. PICK x \in DOMAIN t : e \in Met(t[x])
    BY DEF Held
  <1>2. PICK y \in DOMAIN t : f \in Met(t[y])
    BY DEF Held
  <1>3. x = y
    BY <1>1, <1>2 DEF Good
  <1> QED
    BY <1>1, <1>2, <1>3, MetOnce DEF Good

LEMMA TableGets ==
  ASSUME NEW D, NEW E, NEW t, NEW s, NEW d, NEW u, Puts(D, E, t, s, d, u),
         Good(t), NEW e \in E, TakesIn(t[s], e, d), \A f \in Held(t) : f.key # e.key
  PROVE  /\ u \in TablesOf(D, E) /\ Good(u)
         /\ Held(u) = Held(t) \cup {e}
         /\ Met(u[s]) = Met(t[s]) \cup {e}
         /\ \A x \in D \ {s} : u[x] = t[x]
  <1> USE DEF TablesOf, Puts
  <1>0. t \in [D -> Seq(E)] /\ s \in D
    OBVIOUS
  <1>1. t[s] \in Seq(E) /\ Met(t[s]) \subseteq Held(t)
    BY DEF Held
  <1>2. d \in Seq(E) /\ Met(d) = Met(t[s]) \cup {e} /\ Unlike(d)
    <2>1. Unlike(t[s]) /\ \A f \in Met(t[s]) : f.key # e.key
      BY <1>1 DEF Good
    <2> QED
      BY <1>1, <2>1, ChainGrows
  <1>3. u \in [D -> Seq(E)] /\ u[s] = d /\ \A x \in D \ {s} : u[x] = t[x]
    BY <1>2
  <1>4. Held(u) = Held(t) \cup {e}
    <2>1. ASSUME NEW x \in D, NEW f \in Met(u[x]) PROVE f \in Held(t) \cup {e}
      BY <1>1, <1>2, <1>3 DEF Held
    <2>2. ASSUME NEW x \in D, NEW f \in Met(t[x]) PROVE f \in Held(u)
      BY <1>2, <1>3 DEF Held
    <2>3. e \in Held(u)
      BY <1>2, <1>3 DEF Held
    <2>4. ASSUME NEW f \in Held(u) PROVE f \in Held(t) \cup {e}
      <3>1. PICK x \in D : f \in Met(u[x])
        BY <1>3 DEF Held
      <3> QED
        BY <3>1, <2>1
    <2>5. Held(t) \subseteq Held(u)
      BY <2>2 DEF Held
    <2> QED
      BY <2>3, <2>4, <2>5
  <1>5. Good(u)
    <2>1. ASSUME NEW x \in D PROVE Unlike(u[x])
      BY <1>2, <1>3 DEF Good
    <2>2. ASSUME NEW x \in D, NEW y \in D, NEW f \in Met(u[x]), NEW g \in Met(u[y]), f.key = g.key
          PROVE  x = y
      <3>1. \A z \in D : \A h \in Met(u[z]) : (h = e /\ z = s) \/ h \in Met(t[z])
        BY <1>2, <1>3
      <3>2. \A z \in D : \A h \in Met(t[z]) : h.key # e.key
        BY DEF Held
      <3>3. CASE f = e /\ x = s /\ g \in Met(t[y])
        BY <2>2, <3>2, <3>3
      <3>4. CASE g = e /\ y = s /\ f \in Met(t[x])
        BY <2>2, <3>2, <3>4
      <3>5. CASE f \in Met(t[x]) /\ g \in Met(t[y])
        BY <2>2, <3>5 DEF Good
      <3> QED
        BY <3>1, <3>3, <3>4, <3>5
    <2> QED
      BY <2>1, <2>2, <1>3 DEF Good
  <1> QED
    BY <1>2, <1>3, <1>4, <1>5

LEMMA TableLoses ==
  ASSUME NEW D, NEW E, NEW t, NEW s, NEW d, NEW u, Puts(D, E, t, s, d, u),
         Good(t), d \in Seq(E), Unlike(d), Met(d) \subseteq Met(t[s])
  PROVE  /\ u \in TablesOf(D, E) /\ Good(u)
         /\ Held(u) = Held(t) \ (Met(t[s]) \ Met(d))
         /\ u[s] = d
         /\ \A x \in D \ {s} : u[x] = t[x]
  <1> USE DEF TablesOf, Puts
  <1>0. t \in [D -> Seq(E)] /\ s \in D
    OBVIOUS
  <1>1. u \in [D -> Seq(E)] /\ u[s] = d /\ \A x \in D \ {s} : u[x] = t[x]
    OBVIOUS
  <1>2. \A x \in D : Met(u[x]) \subseteq Met(t[x])
    BY <1>1
  <1>3. Good(u)
    BY <1>1, <1>2 DEF Good
  <1>4. Held(u) = Held(t) \ (Met(t[s]) \ Met(d))
    <2>1. ASSUME NEW x \in D, NEW f \in Met(u[x]) PROVE f \in Held(t) \ (Met(t[s]) \ Met(d))
      <3>1. f \in Held(t)
        BY <1>2 DEF Held
      <3>2. ASSUME f \in Met(t[s]) PROVE f \in Met(d)
        <4>1. f \in Met(t[x])
          BY <1>2
        <4>2. x = s
          BY <3>2, <4>1 DEF Good
        <4> QED
          BY <4>2, <1>1
      <3> QED
        BY <3>1, <3>2
    <2>2. ASSUME NEW x \in D, NEW f \in Met(t[x]), f \notin Met(t[s]) \ Met(d)
          PROVE  f \in Met(u[x])
      BY <1>1, <2>2
    <2>3. Held(u) \subseteq Held(t) \ (Met(t[s]) \ Met(d))
      BY <2>1, <1>1 DEF Held
    <2>4. Held(t) \ (Met(t[s]) \ Met(d)) \subseteq Held(u)
      BY <2>2, <1>1 DEF Held
    <2> QED
      BY <2>3, <2>4
  <1> QED
    BY <1>1, <1>3, <1>4

(* A store by key of entries that differ in their keys *)
StoreOf(E) == [k \in {e.key : e \in E} |-> (CHOOSE e \in E : e.key = k).value]

LEMMA StoreGives ==
  ASSUME NEW E, \A e, f \in E : e.key = f.key => e = f, NEW e \in E
  PROVE  e.key \in DOMAIN StoreOf(E) /\ StoreOf(E)[e.key] = e.value
  <1>1. e.key \in {f.key : f \in E}
    OBVIOUS
  <1>2. (CHOOSE f \in E : f.key = e.key) = e
    OBVIOUS
  <1> QED
    BY <1>1, <1>2 DEF StoreOf

LEMMA StoreGets ==
  ASSUME NEW E, \A e, f \in E : e.key = f.key => e = f,
         NEW e, \A f \in E : f.key # e.key
  PROVE  StoreOf(E \cup {e}) =
           [k \in DOMAIN StoreOf(E) \cup {e.key} |-> IF k = e.key THEN e.value ELSE StoreOf(E)[k]]
  <1>1. DOMAIN StoreOf(E) = {f.key : f \in E}
    BY DEF StoreOf
  <1>2. {f.key : f \in E \cup {e}} = {f.key : f \in E} \cup {e.key}
    OBVIOUS
  <1>3. ASSUME NEW k \in {f.key : f \in E} \cup {e.key}
        PROVE  (CHOOSE f \in E \cup {e} : f.key = k).value =
                 IF k = e.key THEN e.value ELSE StoreOf(E)[k]
    <2>1. CASE k = e.key
      <3>1. (CHOOSE f \in E \cup {e} : f.key = k) = e
        BY <2>1
      <3> QED
        BY <2>1, <3>1
    <2>2. CASE k # e.key
      <3>1. PICK g \in E : g.key = k
        BY <2>2
      <3>2. (CHOOSE f \in E \cup {e} : f.key = k) = g
        BY <3>1, <2>2
      <3>3. StoreOf(E)[k] = g.value
        BY <3>1, StoreGives
      <3> QED
        BY <2>2, <3>2, <3>3
    <2> QED
      BY <2>1, <2>2
  <1> QED
    BY <1>1, <1>2, <1>3 DEF StoreOf

LEMMA StoreLoses ==
  ASSUME NEW E, \A e, f \in E : e.key = f.key => e = f, NEW e \in E
  PROVE  StoreOf(E \ {e}) = [k \in DOMAIN StoreOf(E) \ {e.key} |-> StoreOf(E)[k]]
  <1>1. DOMAIN StoreOf(E) = {f.key : f \in E}
    BY DEF StoreOf
  <1>2. {f.key : f \in E \ {e}} = {f.key : f \in E} \ {e.key}
    OBVIOUS
  <1>3. ASSUME NEW k \in {f.key : f \in E \ {e}}
        PROVE  (CHOOSE f \in E \ {e} : f.key = k).value = StoreOf(E)[k]
    <2>1. PICK g \in E \ {e} : g.key = k
      OBVIOUS
    <2>2. (CHOOSE f \in E \ {e} : f.key = k) = g
      BY <2>1
    <2>3. StoreOf(E)[k] = g.value
      BY <2>1, StoreGives
    <2> QED
      BY <2>2, <2>3
  <1> QED
    BY <1>1, <1>2, <1>3 DEF StoreOf

-----------------------------------------------------------------------------
(* Primes *)

LEMMA NatTimes ==
  \A a, b, c \in Nat : /\ a * b \in Nat /\ a * b = b * a /\ a * (b * c) = (a * b) * c
                       /\ a * (b + 1) = a * b + a
  OBVIOUS

LEMMA Larger1 == ASSUME NEW a \in Nat, NEW b \in Nat, b > 0 PROVE a * b >= a
  <1>1. PICK c \in Nat : b = c + 1
    <2>1. b - 1 \in Nat /\ b = (b - 1) + 1
      OBVIOUS
    <2> QED
      BY <2>1
  <1>2. a * b = a * c + a /\ a * c \in Nat
    BY <1>1, NatTimes
  <1> QED
    BY <1>2

Divides(b, a) == \E k \in Nat : a = b * k

LEMMA RemainderNull ==
  ASSUME NEW a \in Nat, NEW b \in Nat \ {0}, a % b = 0
  PROVE  Divides(b, a)
  <1>1. a = (b * (a \div b)) + (a % b) /\ (a \div b) \in Nat
    OBVIOUS
  <1> QED
    BY <1>1 DEF Divides

(* A number that all of 1 to n divide *)
LEMMA Multiples ==
  ASSUME NEW n \in Nat
  PROVE  \E p \in Nat \ {0} : \A i \in 1 .. n : Divides(i, p)
  <1> DEFINE Bad == {m \in Nat : ~ \E p \in Nat \ {0} : \A i \in 1 .. m : Divides(i, p)}
  <1>1. SUFFICES ASSUME Bad # {} PROVE FALSE
    OBVIOUS
  <1>2. PICK m \in Bad : \A k \in Bad : m <= k
    <2>1. Bad \subseteq Nat
      OBVIOUS
    <2> HIDE DEF Bad
    <2> QED
      BY <1>1, <2>1, LeastOf
  <1>3. m \in Nat /\ ~ \E p \in Nat \ {0} : \A i \in 1 .. m : Divides(i, p)
    OBVIOUS
  <1>4. m # 0
    BY <1>3
  <1>5. m - 1 \in Nat /\ m - 1 \notin Bad
    <2>1. m - 1 \in Nat /\ ~(m <= m - 1)
      BY <1>3, <1>4
    <2> HIDE DEF Bad
    <2> QED
      BY <2>1, <1>2
  <1>6. PICK p \in Nat \ {0} : \A i \in 1 .. m - 1 : Divides(i, p)
    BY <1>5
  <1>7. p * m \in Nat \ {0}
    BY <1>3, <1>4, NatTimes, Larger1
  <1>8. ASSUME NEW i \in 1 .. m PROVE Divides(i, p * m)
    <2>1. CASE i = m
      BY <2>1, <1>3, NatTimes DEF Divides
    <2>2. CASE i # m
      <3>0. i \in 1 .. m - 1
        BY <2>2, <1>3
      <3>1. PICK k \in Nat : p = i * k
        BY <3>0, <1>6 DEF Divides
      <3>2. p * m = i * (k * m) /\ k * m \in Nat
        BY <3>1, <1>3, NatTimes
      <3> QED
        BY <3>2 DEF Divides
    <2> QED
      BY <2>1, <2>2
  <1> QED
    BY <1>3, <1>7, <1>8

LEMMA DividesIsTransitive ==
  ASSUME NEW a \in Nat, NEW b \in Nat, NEW c \in Nat, Divides(a, b), Divides(b, c)
  PROVE  Divides(a, c)
  <1>1. PICK k \in Nat : b = a * k
    BY DEF Divides
  <1>2. PICK l \in Nat : c = b * l
    BY DEF Divides
  <1>3. c = a * (k * l) /\ k * l \in Nat
    BY <1>1, <1>2, NatTimes
  <1> QED
    BY <1>3 DEF Divides

LEMMA NoneDividesBoth ==
  ASSUME NEW d \in Nat, d > 1, NEW p \in Nat, Divides(d, p), Divides(d, p + 1)
  PROVE  FALSE
  <1>1. PICK a \in Nat : p = d * a
    BY DEF Divides
  <1>2. PICK b \in Nat : p + 1 = d * b
    BY DEF Divides
  <1>3. CASE b <= a
    <2>1. PICK c \in Nat : a = b + c
      <3>1. a - b \in Nat /\ a = b + (a - b)
        BY <1>3
      <3> QED
        BY <3>1
    <2>2. d * a = d * b + d * c /\ d * c \in Nat /\ d * b \in Nat
      BY <2>1, NatTimes
    <2> QED
      BY <2>2, <1>1, <1>2
  <1>4. CASE b > a
    <2>1. PICK c \in Nat : b = (a + c) + 1
      <3>1. b - a - 1 \in Nat /\ b = (a + (b - a - 1)) + 1
        BY <1>4
      <3> QED
        BY <3>1
    <2>2. d * b = d * a + d * c + d /\ d * c \in Nat /\ d * a \in Nat
      BY <2>1, NatTimes
    <2> QED
      BY <2>2, <1>1, <1>2
  <1> QED
    BY <1>3, <1>4

(* No number is the last that is_prime says yes to: the least divisor,     *)
(* from 2 on, of a common multiple of 1 to n and one more is beyond n.     *)
LEMMA PrimeAbove ==
  ASSUME NEW n \in Nat
  PROVE  \E q \in Nat : q >= n /\ IsPrime(q)
  <1>1. PICK p \in Nat \ {0} : \A i \in 1 .. n : Divides(i, p)
    BY Multiples
  <1> DEFINE D == {d \in Nat : d > 1 /\ Divides(d, p + 1)}
  <1>2. PICK d \in D : \A e \in D : d <= e
    <2>1. D \subseteq Nat
      OBVIOUS
    <2>2. Divides(p + 1, p + 1)
      <3>1. (p + 1) * 1 = p + 1
        OBVIOUS
      <3> QED
        BY <3>1 DEF Divides
    <2>3. p + 1 \in D
      BY <2>2
    <2> HIDE DEF D
    <2> QED
      BY <2>1, <2>3, LeastOf
  <1>3. d \in Nat /\ d > 1 /\ Divides(d, p + 1)
    OBVIOUS
  <1>4. d > n
    <2>1. SUFFICES ASSUME d <= n PROVE FALSE
      BY <1>3
    <2>2. Divides(d, p)
      BY <2>1, <1>1, <1>3
    <2> QED
      BY <2>2, <1>3, NoneDividesBoth
  <1>5. ASSUME NEW i \in Nat, i > 1, i < d PROVE d % i # 0
    <2>1. SUFFICES ASSUME d % i = 0 PROVE FALSE
      OBVIOUS
    <2>2. Divides(i, d)
      BY <2>1, <1>3, <1>5, RemainderNull
    <2>3. Divides(i, p + 1)
      BY <2>2, <1>3, DividesIsTransitive
    <2>4. i \in D
      BY <2>3, <1>5
    <2> QED
      BY <2>4, <1>2, <1>3, <1>5
  <1>6. IsPrime(d)
    <2>1. ASSUME d # 2 PROVE d > 2 /\ d % 2 # 0
      BY <1>3, <1>5, <2>1
    <2>2. ASSUME NEW i \in 3 .. d, i * i <= d PROVE d % i # 0
      <3>1. i < d
        <4>1. i * i >= i * 2
          <5>1. PICK j \in Nat : i = j + 2
            <6>1. i - 2 \in Nat /\ i = (i - 2) + 2
              OBVIOUS
            <6> QED
              BY <6>1
          <5>2. i * (j + 2) = i * j + i * 2 /\ i * j \in Nat
            OBVIOUS
          <5> QED
            BY <5>1, <5>2
        <4> QED
          BY <2>2, <4>1, <1>3
      <3>2. i \in Nat /\ i > 1
        OBVIOUS
      <3> QED
        BY <3>1, <3>2, <1>5
    <2> QED
      BY <2>1, <2>2 DEF IsPrime
  <1> QED
    BY <1>3, <1>4, <1>6

(* q is the first from m on that is_prime says yes to. *)
FirstPrime(m, q) ==
    q \in Nat /\ q >= m /\ IsPrime(q) /\ \A r \in m .. q - 1 : ~IsPrime(r)

LEMMA FirstPrimeExists == ASSUME NEW m \in Nat PROVE \E q : FirstPrime(m, q)
  <1> DEFINE S == {q \in Nat : q >= m /\ IsPrime(q)}
  <1>1. S \subseteq Nat /\ S # {}
    BY PrimeAbove
  <1>2. PICK q \in S : \A r \in S : q <= r
    <2> HIDE DEF S
    <2> QED
      BY <1>1, LeastOf
  <1>3. \A r \in m .. q - 1 : ~IsPrime(r)
    BY <1>2
  <1> QED
    BY <1>3 DEF FirstPrime

LEMMA FirstPrimeUnique ==
  ASSUME NEW m \in Nat, NEW p, NEW q, FirstPrime(m, p), FirstPrime(m, q) PROVE p = q
  BY DEF FirstPrime

LEMMA NextPrimeIs == ASSUME NEW n \in Nat PROVE FirstPrime(n, NextPrime(n))
  <1> DEFINE IsLoop(f) == f = [m \in Nat |-> IF IsPrime(m) THEN m ELSE f[m + 1]]
             f == CHOOSE g : IsLoop(g)
             h == [m \in Nat |-> CHOOSE q : FirstPrime(m, q)]
  <1>1. NextPrime(n) = f[n]
    BY DEF NextPrime
  <1>2. \A m \in Nat : FirstPrime(m, h[m])
    BY FirstPrimeExists
  <1>3. IsLoop(h)
    <2>1. ASSUME NEW m \in Nat PROVE h[m] = IF IsPrime(m) THEN m ELSE h[m + 1]
      <3>1. CASE IsPrime(m)
        <4>1. FirstPrime(m, m)
          BY <3>1 DEF FirstPrime
        <4> QED
          BY <3>1, <4>1, <1>2, FirstPrimeUnique
      <3>2. CASE ~IsPrime(m)
        <4>1. FirstPrime(m + 1, h[m + 1]) /\ m + 1 \in Nat
          BY <1>2
        <4>2. FirstPrime(m, h[m + 1])
          <5> HIDE DEF h
          <5> QED
            BY <4>1, <3>2 DEF FirstPrime
        <4> HIDE DEF h
        <4> QED
          BY <3>2, <4>2, <1>2, FirstPrimeUnique
      <3> QED
        BY <3>1, <3>2
    <2>2. h = [m \in Nat |-> h[m]]
      OBVIOUS
    <2> HIDE DEF h
    <2> QED
      BY <2>1, <2>2
  <1>4. IsLoop(f)
    <2> HIDE DEF IsLoop, h
    <2> QED
      BY <1>3
  <1>5. \A m \in Nat : f[m] = IF IsPrime(m) THEN m ELSE f[m + 1]
    BY <1>4
  <1> HIDE DEF f, h
  <1>6. PICK q : FirstPrime(n, q)
    BY FirstPrimeExists
  <1> DEFINE Bad == {j \in Nat : j <= q - n /\ f[q - j] # q}
  <1>7. Bad = {}
    <2>1. SUFFICES ASSUME Bad # {} PROVE FALSE
      OBVIOUS
    <2>2. PICK j \in Bad : \A k \in Bad : j <= k
      <3>1. Bad \subseteq Nat
        OBVIOUS
      <3> HIDE DEF Bad
      <3> QED
        BY <2>1, <3>1, LeastOf
    <2>3. j \in Nat /\ q \in Nat /\ q - j \in n .. q /\ f[q - j] # q
      BY <1>6 DEF FirstPrime
    <2>4. j # 0
      BY <2>3, <1>5, <1>6 DEF FirstPrime
    <2>5. ~IsPrime(q - j)
      BY <2>3, <2>4, <1>6 DEF FirstPrime
    <2>6. f[q - j] = f[q - j + 1] /\ q - j + 1 = q - (j - 1)
      BY <2>3, <2>5, <1>5
    <2>7. j - 1 \in Bad
      BY <2>3, <2>4, <2>6
    <2> QED
      BY <2>2, <2>3, <2>7
  <1>8. f[n] = q
    <2>1. q - n \in Nat /\ q - (q - n) = n
      BY <1>6 DEF FirstPrime
    <2> QED
      BY <1>7, <2>1
  <1> QED
    BY <1>1, <1>6, <1>8

(* next_prime returns a number of slots. *)
LEMMA NextPrimeIsLarge ==
  ASSUME NEW n \in Nat
  PROVE  NextPrime(n) \in Nat /\ NextPrime(n) >= n /\ NextPrime(n) >= 2
  BY NextPrimeIs DEF FirstPrime, IsPrime

-----------------------------------------------------------------------------
(* The hash set *)

LEMMA SetConstants ==
  /\ NoKey \notin Key /\ Hash \in [Key -> Nat]
  /\ InitSize \subseteq Nat /\ DefaultSlots \in Nat \ {0}
  BY Assumptions DEF HS!HashSetAssumption

LEMMA SlotIsThere ==
  ASSUME NEW n \in Nat \ {0}, NEW k \in Key PROVE Hash[k] % n \in 0 .. n - 1
  <1>1. Hash[k] \in Nat
    BY SetConstants
  <1> QED
    BY <1>1

SetTables(n) == TablesOf(0 .. n - 1, HS!Entry)

(* HS!MoveOut keeps what the table holds, and the entries that are         *)
(* afterwards in a slot belong there, or had been in it before.            *)
LEMMA SetMoveOut ==
  ASSUME NEW n \in Nat \ {0}, NEW t \in SetTables(n), Good(t), NEW s \in 0 .. n - 1
  PROVE  LET u == HS!MoveOut(s, n, t)
         IN  /\ u \in SetTables(n) /\ Good(u) /\ Held(u) = Held(t)
             /\ \A x \in 0 .. n - 1 : \A e \in Met(u[x]) :
                  Hash[e.key] % n = x \/ (x # s /\ e \in Met(t[x]))
  <1> DEFINE c == t[s]
             k == Len(c)
             base == [t EXCEPT ![s] = <<>>]
             To(i) == Hash[c[i].key] % n
             Step(w, i) == [w EXCEPT ![To(i)] = IF To(i) = s THEN Append(@, c[i]) ELSE <<c[i]>> \o @]
             LoopTo(f, m) == f = [i \in 0 .. m |-> IF i = 0 THEN base ELSE Step(f[i - 1], i)]
             after == CHOOSE f : LoopTo(f, k)
  <1>1. HS!MoveOut(s, n, t) = after[k]
    BY DEF HS!MoveOut
  <1>2. c \in Seq(HS!Entry) /\ k \in Nat /\ \A i \in 1 .. k : c[i] \in HS!Entry /\ c[i] \in Met(c)
    BY DEF SetTables, TablesOf, Met
  <1>3. Unlike(c) /\ Met(c) \subseteq Held(t) /\ DOMAIN t = 0 .. n - 1
    BY DEF Good, Held, SetTables, TablesOf
  <1> DEFINE Bad == {m \in Nat : ~ \E f : LoopTo(f, m)}
  <1>4. Bad = {}
    <2> HIDE DEF Step, base
    <2>1. SUFFICES ASSUME Bad # {} PROVE FALSE
      OBVIOUS
    <2>2. PICK m \in Bad : \A j \in Bad : m <= j
      <3>1. Bad \subseteq Nat
        OBVIOUS
      <3> HIDE DEF Bad
      <3> QED
        BY <2>1, <3>1, LeastOf
    <2>3. m \in Nat /\ ~ \E f : LoopTo(f, m)
      OBVIOUS
    <2>4. m # 0
      <3>1. LoopTo([i \in 0 .. 0 |-> base], 0)
        OBVIOUS
      <3> QED
        BY <2>3, <3>1
    <2>5. PICK f : LoopTo(f, m - 1)
      <3>1. m - 1 \in Nat /\ ~(m <= m - 1)
        BY <2>3, <2>4
      <3>2. m - 1 \notin Bad
        <4> HIDE DEF Bad
        <4> QED
          BY <2>2, <3>1
      <3> QED
        BY <3>1, <3>2
    <2> DEFINE g == [i \in 0 .. m |-> IF i < m THEN f[i] ELSE Step(f[m - 1], m)]
    <2>6. LoopTo(g, m)
      <3>1. ASSUME NEW i \in 0 .. m PROVE g[i] = IF i = 0 THEN base ELSE Step(g[i - 1], i)
        <4>1. \A j \in 0 .. m - 1 : f[j] = IF j = 0 THEN base ELSE Step(f[j - 1], j)
          BY <2>5
        <4>2. i # 0 => i - 1 \in 0 .. m /\ i - 1 < m
          BY <2>3
        <4> QED
          BY <2>3, <2>4, <4>1, <4>2
      <3>2. g = [i \in 0 .. m |-> g[i]]
        OBVIOUS
      <3> HIDE DEF g
      <3> QED
        BY <3>1, <3>2
    <2> QED
      BY <2>3, <2>6
  <1>5. LoopTo(after, k)
    <2>1. \E f : LoopTo(f, k)
      <3> HIDE DEF LoopTo
      <3> QED
        BY <1>2, <1>4
    <2> HIDE DEF LoopTo
    <2> QED
      BY <2>1
  <1>6. /\ after[0] = base
        /\ \A i \in 1 .. k : after[i] = Step(after[i - 1], i)
    <2> HIDE DEF base, Step, after
    <2>1. \A i \in 0 .. k : after[i] = IF i = 0 THEN base ELSE Step(after[i - 1], i)
      BY <1>5
    <2> QED
      BY <1>2, <2>1
  <1> HIDE DEF after, LoopTo, Bad
  <1> DEFINE Rest(i) == {c[j] : j \in i + 1 .. k}
             Ok(i) == /\ after[i] \in SetTables(n) /\ Good(after[i])
                      /\ Held(after[i]) = Held(t) \ Rest(i)
                      /\ \A x \in 0 .. n - 1 : \A e \in Met(after[i][x]) :
                           Hash[e.key] % n = x \/ (x # s /\ e \in Met(t[x]))
  <1>7. Ok(0)
    <2> DEFINE none == <<>>
    <2>1. none \in Seq(HS!Entry) /\ Unlike(none) /\ Met(none) = {}
      BY DEF Unlike, Met
    <2>2. Rest(0) = Met(c)
      BY <1>2 DEF Met
    <2>3. /\ after[0] \in TablesOf(0 .. n - 1, HS!Entry) /\ Good(after[0])
          /\ Held(after[0]) = Held(t) \ (Met(t[s]) \ Met(none))
          /\ after[0][s] = none
          /\ \A x \in (0 .. n - 1) \ {s} : after[0][x] = t[x]
      <3>1. Puts(0 .. n - 1, HS!Entry, t, s, none, after[0])
        BY <1>6 DEF SetTables, Puts
      <3>2. Met(none) \subseteq Met(t[s])
        BY <2>1
      <3> HIDE DEF none
      <3> QED
        BY <2>1, <3>1, <3>2, TableLoses
    <2> HIDE DEF none
    <2> HIDE DEF Rest
    <2>4. after[0] \in SetTables(n) /\ Held(after[0]) = Held(t) \ Rest(0)
      BY <2>1, <2>2, <2>3 DEF SetTables
    <2>5. ASSUME NEW x \in 0 .. n - 1, NEW e \in Met(after[0][x]) PROVE x # s /\ e \in Met(t[x])
      BY <2>1, <2>3
    <2> QED
      BY <2>3, <2>4, <2>5
  <1>8. ASSUME NEW i \in 1 .. k, Ok(i - 1) PROVE Ok(i)
    <2> DEFINE w == after[i - 1]
               e == c[i]
               d == IF To(i) = s THEN Append(w[To(i)], e) ELSE <<e>> \o w[To(i)]
    <2>1. i - 1 \in Nat /\ i \in Nat /\ e \in HS!Entry /\ e \in Held(t) /\ e.key \in Key
      BY <1>2, <1>3 DEF HS!Entry
    <2>2. To(i) \in 0 .. n - 1
      BY <2>1, SlotIsThere
    <2>3. w \in TablesOf(0 .. n - 1, HS!Entry) /\ Good(w)
      BY <1>8 DEF SetTables
    <2>4. Puts(0 .. n - 1, HS!Entry, w, To(i), d, after[i])
      <3>1. after[i] = Step(w, i)
        BY <1>6
      <3> HIDE DEF w, e, To
      <3> QED
        BY <3>1, <2>2, <2>3 DEF e, Puts, TablesOf
    <2>5. TakesIn(w[To(i)], e, d)
      <3> HIDE DEF w, e, To
      <3> QED
        BY DEF TakesIn
    <2>6. Rest(i - 1) = Rest(i) \cup {e} /\ e \notin Rest(i)
      <3>1. i \in i - 1 + 1 .. k /\ \A j \in i - 1 + 1 .. k : j = i \/ j \in i + 1 .. k
        BY <1>2
      <3>2. \A j \in i + 1 .. k : j \in 1 .. k /\ j # i /\ j \in i - 1 + 1 .. k
        BY <1>2
      <3>3. \A j \in i + 1 .. k : c[j] # c[i]
        BY <3>2, <1>3 DEF Unlike
      <3> QED
        BY <3>1, <3>2, <3>3
    <2> HIDE DEF w, d, Rest
    <2>7. \A f \in Held(w) : f.key # e.key
      <3>1. Held(w) = Held(t) \ Rest(i - 1)
        BY <1>8 DEF w
      <3> SUFFICES ASSUME NEW f \in Held(w), f.key = e.key PROVE FALSE
        OBVIOUS
      <3>2. f = e
        BY <3>1, <2>1, HeldOnce
      <3> QED
        BY <3>1, <3>2, <2>6
    <2> HIDE DEF e, To
    <2>8. /\ after[i] \in TablesOf(0 .. n - 1, HS!Entry) /\ Good(after[i])
          /\ Held(after[i]) = Held(w) \cup {e}
          /\ Met(after[i][To(i)]) = Met(w[To(i)]) \cup {e}
          /\ \A x \in (0 .. n - 1) \ {To(i)} : after[i][x] = w[x]
      BY <2>1, <2>2, <2>3, <2>4, <2>5, <2>7, TableGets
    <2>9. Held(after[i]) = Held(t) \ Rest(i)
      <3>1. Held(w) = Held(t) \ Rest(i - 1)
        BY <1>8 DEF w
      <3> QED
        BY <3>1, <2>1, <2>6, <2>8
    <2>10. ASSUME NEW x \in 0 .. n - 1, NEW f \in Met(after[i][x])
           PROVE  Hash[f.key] % n = x \/ (x # s /\ f \in Met(t[x]))
      <3>1. CASE f \in Met(w[x])
        BY <3>1, <1>8 DEF w
      <3>2. CASE f \notin Met(w[x])
        <4>1. x = To(i) /\ f = e
          BY <2>8, <3>2
        <4> QED
          BY <4>1 DEF To, e
      <3> QED
        BY <3>1, <3>2
    <2> QED
      BY <2>8, <2>9, <2>10 DEF SetTables
  <1>9. Ok(k)
    <2> HIDE DEF Ok
    <2> DEFINE Wrong == {i \in 0 .. k : ~Ok(i)}
    <2>1. SUFFICES ASSUME Wrong # {} PROVE FALSE
      BY <1>2
    <2>2. PICK i \in Wrong : \A j \in Wrong : i <= j
      <3>1. Wrong \subseteq Nat
        BY <1>2
      <3> HIDE DEF Wrong
      <3> QED
        BY <2>1, <3>1, LeastOf
    <2>3. i \in 0 .. k /\ ~Ok(i) /\ i # 0
      BY <1>7
    <2>4. i \in 1 .. k /\ i - 1 \in 0 .. k /\ ~(i <= i - 1)
      BY <1>2, <2>3
    <2>5. Ok(i - 1)
      <3>1. i - 1 \notin Wrong
        <4> HIDE DEF Wrong
        <4> QED
          BY <2>2, <2>4
      <3> QED
        BY <3>1, <2>4
    <2> QED
      BY <2>3, <2>4, <2>5, <1>8
  <1>10. Rest(k) = {}
    BY <1>2
  <1> QED
    BY <1>1, <1>9, <1>10

(* HS!Rehash keeps what the table holds and puts every entry in its place: *)
(* no slot is passed over while the table grows under the loop.            *)
LEMMA SetLarger ==
  ASSUME NEW m \in Nat \ {0}, NEW n \in Nat \ {0}, m <= n, NEW t \in SetTables(m), Good(t)
  PROVE  LET u == HS!Larger(t, m, n)
         IN  /\ u \in SetTables(n) /\ Good(u) /\ Held(u) = Held(t)
             /\ \A x \in 0 .. n - 1 : \A e \in Met(u[x]) : x < m
  <1> DEFINE u == HS!Larger(t, m, n)
  <1>1. \A x \in 0 .. n - 1 : u[x] = IF x < m THEN t[x] ELSE <<>>
    BY DEF HS!Larger
  <1>2. t \in [0 .. m - 1 -> Seq(HS!Entry)]
    BY DEF SetTables, TablesOf
  <1> HIDE DEF u
  <1>3. u \in [0 .. n - 1 -> Seq(HS!Entry)]
    <2>1. ASSUME NEW x \in 0 .. n - 1 PROVE u[x] \in Seq(HS!Entry)
      <3>1. CASE x < m
        BY <1>1, <1>2, <3>1
      <3>2. CASE ~(x < m)
        <4>1. u[x] = <<>>
          BY <1>1, <3>2
        <4> QED
          BY <4>1
      <3> QED
        BY <3>1, <3>2
    <2>2. u = [x \in 0 .. n - 1 |-> u[x]]
      BY DEF HS!Larger, u
    <2> QED
      BY <2>1, <2>2
  <1>4. Met(<<>>) = {} /\ Unlike(<<>>)
    BY DEF Met, Unlike
  <1>5. ASSUME NEW x \in 0 .. n - 1, NEW e \in Met(u[x]) PROVE x < m /\ x \in 0 .. m - 1 /\ u[x] = t[x]
    BY <1>1, <1>4
  <1>6. ASSUME NEW x \in 0 .. m - 1 PROVE x \in 0 .. n - 1 /\ u[x] = t[x]
    BY <1>1
  <1>7. Held(u) = Held(t)
    <2>1. ASSUME NEW e \in Held(u) PROVE e \in Held(t)
      <3>1. PICK x \in 0 .. n - 1 : e \in Met(u[x])
        BY <1>3 DEF Held
      <3> QED
        BY <3>1, <1>2, <1>5 DEF Held
    <2>2. ASSUME NEW e \in Held(t) PROVE e \in Held(u)
      <3>1. PICK x \in 0 .. m - 1 : e \in Met(t[x])
        BY <1>2 DEF Held
      <3> QED
        BY <3>1, <1>3, <1>6 DEF Held
    <2> QED
      BY <2>1, <2>2
  <1>8. Good(u)
    <2>1. ASSUME NEW x \in 0 .. n - 1 PROVE Unlike(u[x])
      <3>1. CASE x < m
        <4>1. x \in 0 .. m - 1 /\ u[x] = t[x]
          BY <1>1, <3>1
        <4> QED
          BY <4>1, <1>2 DEF Good
      <3>2. CASE ~(x < m)
        BY <1>1, <1>4, <3>2
      <3> QED
        BY <3>1, <3>2
    <2>2. ASSUME NEW x \in 0 .. n - 1, NEW y \in 0 .. n - 1,
                 NEW e \in Met(u[x]), NEW f \in Met(u[y]), e.key = f.key
          PROVE  x = y
      BY <1>2, <1>5, <2>2 DEF Good
    <2> QED
      BY <2>1, <2>2, <1>3 DEF Good
  <1> QED
    BY <1>3, <1>5, <1>7, <1>8 DEF u, SetTables, TablesOf

LEMMA SetRehash ==
  ASSUME NEW m \in Nat \ {0}, NEW n \in Nat \ {0}, m <= n, NEW t \in SetTables(m), Good(t)
  PROVE  LET u == HS!Rehash(t, m, n)
         IN  /\ u \in SetTables(n) /\ Good(u) /\ Held(u) = Held(t)
             /\ \A x \in 0 .. n - 1 : \A e \in Met(u[x]) : Hash[e.key] % n = x
  <1> DEFINE base == HS!Larger(t, m, n)
             Step(w, s) == HS!MoveOut(s - 1, n, w)
             LoopTo(f, j) == f = [s \in 0 .. j |-> IF s = 0 THEN base ELSE Step(f[s - 1], s)]
             after == CHOOSE f : LoopTo(f, m)
  <1>1. HS!Rehash(t, m, n) = after[m]
    BY DEF HS!Rehash
  <1> DEFINE Bad == {j \in Nat : ~ \E f : LoopTo(f, j)}
  <1>2. Bad = {}
    <2> HIDE DEF Step, base
    <2>1. SUFFICES ASSUME Bad # {} PROVE FALSE
      OBVIOUS
    <2>2. PICK j \in Bad : \A i \in Bad : j <= i
      <3>1. Bad \subseteq Nat
        OBVIOUS
      <3> HIDE DEF Bad
      <3> QED
        BY <2>1, <3>1, LeastOf
    <2>3. j \in Nat /\ ~ \E f : LoopTo(f, j)
      OBVIOUS
    <2>4. j # 0
      <3>1. LoopTo([s \in 0 .. 0 |-> base], 0)
        OBVIOUS
      <3> QED
        BY <2>3, <3>1
    <2>5. PICK f : LoopTo(f, j - 1)
      <3>1. j - 1 \in Nat /\ ~(j <= j - 1)
        BY <2>3, <2>4
      <3>2. j - 1 \notin Bad
        <4> HIDE DEF Bad
        <4> QED
          BY <2>2, <3>1
      <3> QED
        BY <3>1, <3>2
    <2> DEFINE g == [s \in 0 .. j |-> IF s < j THEN f[s] ELSE Step(f[j - 1], j)]
    <2>6. LoopTo(g, j)
      <3>1. ASSUME NEW s \in 0 .. j PROVE g[s] = IF s = 0 THEN base ELSE Step(g[s - 1], s)
        <4>1. \A i \in 0 .. j - 1 : f[i] = IF i = 0 THEN base ELSE Step(f[i - 1], i)
          BY <2>5
        <4>2. s # 0 => s - 1 \in 0 .. j /\ s - 1 < j
          BY <2>3
        <4> QED
          BY <2>3, <2>4, <4>1, <4>2
      <3>2. g = [s \in 0 .. j |-> g[s]]
        OBVIOUS
      <3> HIDE DEF g
      <3> QED
        BY <3>1, <3>2
    <2> QED
      BY <2>3, <2>6
  <1>3. LoopTo(after, m)
    <2>1. \E f : LoopTo(f, m)
      <3> HIDE DEF LoopTo
      <3> QED
        BY <1>2
    <2> HIDE DEF LoopTo
    <2> QED
      BY <2>1
  <1>4. /\ after[0] = base
        /\ \A s \in 1 .. m : after[s] = Step(after[s - 1], s)
    <2> HIDE DEF base, Step, after
    <2>1. \A s \in 0 .. m : after[s] = IF s = 0 THEN base ELSE Step(after[s - 1], s)
      BY <1>3
    <2> QED
      BY <2>1
  <1> HIDE DEF after, LoopTo, Bad
  <1> DEFINE Ok(s) == /\ after[s] \in SetTables(n) /\ Good(after[s]) /\ Held(after[s]) = Held(t)
                      /\ \A x \in 0 .. n - 1 : \A e \in Met(after[s][x]) :
                           Hash[e.key] % n = x \/ (s <= x /\ x < m)
  <1>5. Ok(0)
    <2>1. /\ base \in SetTables(n) /\ Good(base) /\ Held(base) = Held(t)
          /\ \A x \in 0 .. n - 1 : \A e \in Met(base[x]) : x < m
      BY SetLarger
    <2> HIDE DEF base
    <2>2. /\ after[0] \in SetTables(n) /\ Good(after[0]) /\ Held(after[0]) = Held(t)
          /\ \A x \in 0 .. n - 1 : \A e \in Met(after[0][x]) : x < m
      BY <1>4, <2>1
    <2>3. ASSUME NEW x \in 0 .. n - 1, NEW e \in Met(after[0][x])
          PROVE  Hash[e.key] % n = x \/ (0 <= x /\ x < m)
      BY <2>2
    <2> QED
      BY <2>2, <2>3
  <1>6. ASSUME NEW s \in 1 .. m, Ok(s - 1) PROVE Ok(s)
    <2> DEFINE w == after[s - 1]
    <2>1. s - 1 \in 0 .. n - 1 /\ w \in SetTables(n) /\ Good(w) /\ after[s] = HS!MoveOut(s - 1, n, w)
      BY <1>4, <1>6
    <2>2. \A x \in 0 .. n - 1 : \A e \in Met(w[x]) :
            Hash[e.key] % n = x \/ (s - 1 <= x /\ x < m)
      BY <1>6
    <2>3. Held(w) = Held(t)
      BY <1>6
    <2> HIDE DEF w
    <2>4. /\ after[s] \in SetTables(n) /\ Good(after[s]) /\ Held(after[s]) = Held(w)
          /\ \A x \in 0 .. n - 1 : \A e \in Met(after[s][x]) :
               Hash[e.key] % n = x \/ (x # s - 1 /\ e \in Met(w[x]))
      BY <2>1, SetMoveOut
    <2>5. ASSUME NEW x \in 0 .. n - 1, NEW e \in Met(after[s][x]), Hash[e.key] % n # x
          PROVE  s <= x /\ x < m
      <3>1. x # s - 1 /\ s - 1 <= x /\ x < m
        BY <2>2, <2>4, <2>5
      <3> QED
        BY <3>1
    <2> QED
      BY <2>3, <2>4, <2>5
  <1>7. Ok(m)
    <2> HIDE DEF Ok
    <2> DEFINE Wrong == {s \in 0 .. m : ~Ok(s)}
    <2>1. SUFFICES ASSUME Wrong # {} PROVE FALSE
      OBVIOUS
    <2>2. PICK s \in Wrong : \A j \in Wrong : s <= j
      <3>1. Wrong \subseteq Nat
        OBVIOUS
      <3> HIDE DEF Wrong
      <3> QED
        BY <2>1, <3>1, LeastOf
    <2>3. s \in 0 .. m /\ ~Ok(s) /\ s # 0
      BY <1>5
    <2>4. s \in 1 .. m /\ s - 1 \in 0 .. m /\ ~(s <= s - 1)
      BY <2>3
    <2>5. Ok(s - 1)
      <3>1. s - 1 \notin Wrong
        <4> HIDE DEF Wrong
        <4> QED
          BY <2>2, <2>4
      <3> QED
        BY <3>1, <2>4
    <2> QED
      BY <2>3, <2>4, <2>5, <1>6
  <1>8. ASSUME NEW x \in 0 .. n - 1, NEW e \in Met(after[m][x]) PROVE Hash[e.key] % n = x
    BY <1>7
  <1> QED
    BY <1>1, <1>7, <1>8

KeysIn(t) == {e.key : e \in Held(t)}

InItsSlot(n, t) == \A x \in DOMAIN t : \A e \in Met(t[x]) : Hash[e.key] % n = x

(* A table of n slots, or none, that holds d entries *)
SetTable(n, d, t) ==
    /\ n \in Nat /\ (t = <<>> \/ (n # 0 /\ t \in SetTables(n)))
    /\ Good(t) /\ InItsSlot(n, t)
    /\ IsFiniteSet(KeysIn(t)) /\ d = Cardinality(KeysIn(t))
    /\ n > 0 => d < (n * 4) \div 5

LEMMA SetOfNone ==
  /\ Held(<<>>) = {} /\ KeysIn(<<>>) = {} /\ Good(<<>>)
  /\ \A n \in Nat : InItsSlot(n, <<>>)
  /\ IsFiniteSet({}) /\ Cardinality({}) = 0
  <1>1. DOMAIN <<>> = {}
    OBVIOUS
  <1>2. Held(<<>>) = {}
    BY <1>1 DEF Held
  <1>3. Good(<<>>) /\ \A n \in Nat : InItsSlot(n, <<>>)
    BY <1>1 DEF Good, InItsSlot
  <1> QED
    BY <1>2, <1>3, FS_EmptySet DEF KeysIn

LEMMA SetEmpty ==
  ASSUME NEW n \in Nat, n # 1, NEW t, t = <<>> \/ t = HS!Empty(n)
  PROVE  SetTable(n, 0, t) /\ Held(t) = {} /\ KeysIn(t) = {}
  <1>1. n > 0 => 0 < (n * 4) \div 5
    OBVIOUS
  <1>2. CASE t = <<>>
    BY <1>1, <1>2, SetOfNone DEF SetTable
  <1>3. CASE t = HS!Empty(n) /\ n = 0
    <2>1. t = <<>>
      <3>1. 0 .. n - 1 = {}
        BY <1>3
      <3>2. t = [i \in {} |-> <<>>]
        BY <3>1, <1>3 DEF HS!Empty
      <3> QED
        BY <3>2
    <2> QED
      BY <2>1, <1>2
  <1>4. CASE t = HS!Empty(n) /\ n # 0
    <2>1. DOMAIN t = 0 .. n - 1 /\ \A x \in 0 .. n - 1 : t[x] = <<>>
      BY <1>4 DEF HS!Empty
    <2>2. t \in SetTables(n)
      <3>1. <<>> \in Seq(HS!Entry)
        OBVIOUS
      <3> QED
        BY <3>1, <1>4 DEF HS!Empty, SetTables, TablesOf
    <2>3. Met(<<>>) = {} /\ Unlike(<<>>)
      BY DEF Met, Unlike
    <2>4. Held(t) = {}
      BY <2>1, <2>3 DEF Held
    <2>5. Good(t) /\ InItsSlot(n, t)
      BY <2>1, <2>3 DEF Good, InItsSlot
    <2>6. KeysIn(t) = {}
      BY <2>4 DEF KeysIn
    <2> QED
      BY <1>1, <1>4, <2>2, <2>4, <2>5, <2>6, SetOfNone DEF SetTable
  <1> QED
    BY <1>2, <1>3, <1>4

(* Where the entries of a table are *)
LEMMA HeldIsThere ==
  ASSUME NEW n, NEW d, NEW t, SetTable(n, d, t), NEW e \in Held(t)
  PROVE  /\ n \in Nat \ {0} /\ t \in SetTables(n) /\ e \in HS!Entry
         /\ Hash[e.key] % n \in DOMAIN t /\ e \in Met(t[Hash[e.key] % n])
  <1>1. PICK x \in DOMAIN t : e \in Met(t[x])
    BY DEF Held
  <1>2. n \in Nat \ {0} /\ t \in SetTables(n)
    <2>1. t # <<>>
      BY <1>1
    <2> QED
      BY <2>1 DEF SetTable
  <1>3. Hash[e.key] % n = x
    BY <1>1 DEF SetTable, InItsSlot
  <1>4. e \in HS!Entry
    <2>1. t[x] \in Seq(HS!Entry)
      BY <1>1, <1>2 DEF SetTables, TablesOf
    <2> QED
      BY <1>1, <2>1 DEF Met
  <1> QED
    BY <1>1, <1>2, <1>3, <1>4

(* What insert and remove do to the table *)
SetPuts(n, t, k, v, u) == u = [t EXCEPT ![Hash[k] % n] = <<[key |-> k, value |-> v]>> \o @]
SetDrops(t, s, i, u) == u = [t EXCEPT ![s] = HS!RemoveAt(@, i)]

LEMMA SetInsert ==
  ASSUME NEW n \in Nat \ {0}, NEW d, NEW t \in SetTables(n), SetTable(n, d, t),
         NEW k \in Key \ KeysIn(t), NEW v \in Value, d + 1 < (n * 4) \div 5,
         NEW u, SetPuts(n, t, k, v, u)
  PROVE  /\ SetTable(n, d + 1, u) /\ u \in SetTables(n)
         /\ Held(u) = Held(t) \cup {[key |-> k, value |-> v]}
         /\ KeysIn(u) = KeysIn(t) \cup {k}
  <1>1. PICK e : e = [key |-> k, value |-> v]
    OBVIOUS
  <1>2. PICK s : s = Hash[k] % n
    OBVIOUS
  <1>3. PICK c : c = <<e>> \o t[s]
    OBVIOUS
  <1>4. e \in HS!Entry /\ e.key = k
    BY <1>1 DEF HS!Entry
  <1>5. s \in 0 .. n - 1
    BY <1>2, SlotIsThere
  <1>6. Puts(0 .. n - 1, HS!Entry, t, s, c, u)
    BY <1>1, <1>2, <1>3, <1>5 DEF Puts, SetTables, TablesOf, SetPuts
  <1>7. TakesIn(t[s], e, c)
    BY <1>3 DEF TakesIn
  <1>8. \A f \in Held(t) : f.key # e.key
    BY <1>4 DEF KeysIn
  <1>9. Good(t)
    BY DEF SetTable
  <1>10. /\ u \in TablesOf(0 .. n - 1, HS!Entry) /\ Good(u)
         /\ Held(u) = Held(t) \cup {e}
         /\ Met(u[s]) = Met(t[s]) \cup {e}
         /\ \A x \in (0 .. n - 1) \ {s} : u[x] = t[x]
    <2>1. PICK D : D = 0 .. n - 1
      OBVIOUS
    <2>2. PICK E : E = HS!Entry
      OBVIOUS
    <2>3. Puts(D, E, t, s, c, u) /\ e \in E
      BY <2>1, <2>2, <1>4, <1>6
    <2>4. /\ u \in TablesOf(D, E) /\ Good(u)
          /\ Held(u) = Held(t) \cup {e}
          /\ Met(u[s]) = Met(t[s]) \cup {e}
          /\ \A x \in D \ {s} : u[x] = t[x]
      BY ONLY <2>3, <1>7, <1>8, <1>9, TableGets
    <2> QED
      BY <2>1, <2>2, <2>4
  <1>11. InItsSlot(n, u)
    <2>1. DOMAIN u = 0 .. n - 1 /\ DOMAIN t = 0 .. n - 1
      BY <1>10 DEF TablesOf, SetTables
    <2>2. ASSUME NEW x \in 0 .. n - 1, NEW f \in Met(u[x]) PROVE Hash[f.key] % n = x
      <3>1. CASE f \in Met(t[x])
        BY <2>1, <3>1 DEF SetTable, InItsSlot
      <3>2. CASE f = e /\ x = s
        BY <3>2, <1>2, <1>4
      <3> QED
        BY <3>1, <3>2, <1>10
    <2> QED
      BY <2>1, <2>2 DEF InItsSlot
  <1>12. KeysIn(u) = KeysIn(t) \cup {k}
    BY <1>4, <1>10 DEF KeysIn
  <1>13. IsFiniteSet(KeysIn(u)) /\ d + 1 = Cardinality(KeysIn(u))
    <2>1. IsFiniteSet(KeysIn(t)) /\ d = Cardinality(KeysIn(t))
      BY DEF SetTable
    <2> QED
      BY <2>1, <1>12, FS_AddElement
  <1> QED
    BY <1>1, <1>10, <1>11, <1>12, <1>13 DEF SetTable, SetTables

LEMMA SetGrow ==
  ASSUME NEW m \in Nat \ {0}, NEW n \in Nat \ {0}, m <= n, NEW d \in Nat,
         NEW t \in SetTables(m), SetTable(m, d, t), NEW u, u = HS!Rehash(t, m, n)
  PROVE  SetTable(n, d, u) /\ u \in SetTables(n) /\ Held(u) = Held(t) /\ KeysIn(u) = KeysIn(t)
  <1>1. Good(t) /\ IsFiniteSet(KeysIn(t)) /\ d = Cardinality(KeysIn(t)) /\ d < (m * 4) \div 5
    BY DEF SetTable
  <1>2. /\ u \in SetTables(n) /\ Good(u) /\ Held(u) = Held(t)
        /\ \A x \in 0 .. n - 1 : \A e \in Met(u[x]) : Hash[e.key] % n = x
    BY <1>1, SetRehash
  <1>3. DOMAIN u = 0 .. n - 1
    BY <1>2 DEF SetTables, TablesOf
  <1>4. KeysIn(u) = KeysIn(t)
    BY <1>2 DEF KeysIn
  <1>5. (m * 4) \div 5 <= (n * 4) \div 5
    OBVIOUS
  <1>6. d < (n * 4) \div 5
    BY <1>1, <1>5
  <1> QED
    BY <1>1, <1>2, <1>3, <1>4, <1>6 DEF SetTable, InItsSlot

(* The place of a key in its chain *)
LEMMA SetPlaceOf ==
  ASSUME NEW E, NEW c \in Seq(E), Unlike(c), NEW i \in 1 .. Len(c)
  PROVE  HS!Position(c[i].key, c) = i
  <1>1. DOMAIN c = 1 .. Len(c)
    OBVIOUS
  <1>2. \A j \in DOMAIN c : c[j].key = c[i].key => j = i
    BY <1>1 DEF Unlike
  <1> QED
    BY <1>1, <1>2 DEF HS!Position

LEMMA SetWithout ==
  ASSUME NEW n \in Nat \ {0}, NEW d, NEW t \in SetTables(n), SetTable(n, d, t),
         NEW s \in 0 .. n - 1, NEW i \in 1 .. Len(t[s]),
         NEW u, SetDrops(t, s, i, u)
  PROVE  LET c == t[s]
         IN  /\ SetTable(n, d - 1, u) /\ u \in SetTables(n) /\ c[i] \in Held(t)
             /\ Held(u) = Held(t) \ {c[i]}
             /\ KeysIn(u) = KeysIn(t) \ {c[i].key}
             /\ Len(u[s]) = Len(c) - 1
             /\ \A j \in 1 .. Len(c) - 1 : u[s][j] = IF j < i THEN c[j] ELSE c[j + 1]
             /\ \A x \in (0 .. n - 1) \ {s} : u[x] = t[x]
  <1>1. PICK c : c = t[s]
    OBVIOUS
  <1>2. PICK b : b = SubSeq(c, 1, i - 1) \o SubSeq(c, i + 1, Len(c))
    OBVIOUS
  <1>3. c \in Seq(HS!Entry) /\ Unlike(c) /\ i \in 1 .. Len(c) /\ c[i] \in Held(t)
    <2>1. DOMAIN t = 0 .. n - 1 /\ t[s] \in Seq(HS!Entry)
      BY DEF SetTables, TablesOf
    <2>2. Unlike(t[s])
      BY <2>1 DEF SetTable, Good
    <2>3. t[s][i] \in Met(t[s])
      BY DEF Met
    <2> QED
      BY <1>1, <2>1, <2>2, <2>3 DEF Held
  <1>4. /\ b \in Seq(HS!Entry) /\ Len(b) = Len(c) - 1 /\ Met(b) = Met(c) \ {c[i]} /\ Unlike(b)
        /\ \A j \in 1 .. Len(c) - 1 : b[j] = IF j < i THEN c[j] ELSE c[j + 1]
    BY <1>2, <1>3, ChainWithout
  <1>5. Puts(0 .. n - 1, HS!Entry, t, s, b, u)
    BY <1>1, <1>2 DEF Puts, SetTables, TablesOf, HS!RemoveAt, SetDrops
  <1>6. Good(t) /\ Met(b) \subseteq Met(t[s])
    BY <1>1, <1>4 DEF SetTable
  <1>7. /\ u \in TablesOf(0 .. n - 1, HS!Entry) /\ Good(u)
        /\ Held(u) = Held(t) \ (Met(t[s]) \ Met(b))
        /\ u[s] = b
        /\ \A x \in (0 .. n - 1) \ {s} : u[x] = t[x]
    <2>1. PICK D : D = 0 .. n - 1
      OBVIOUS
    <2>2. PICK E : E = HS!Entry
      OBVIOUS
    <2>3. Puts(D, E, t, s, b, u) /\ b \in Seq(E)
      BY <2>1, <2>2, <1>4, <1>5
    <2>4. /\ u \in TablesOf(D, E) /\ Good(u)
          /\ Held(u) = Held(t) \ (Met(t[s]) \ Met(b))
          /\ u[s] = b
          /\ \A x \in D \ {s} : u[x] = t[x]
      BY ONLY <2>3, <1>4, <1>6, TableLoses
    <2> QED
      BY <2>1, <2>2, <2>4
  <1>8. Held(u) = Held(t) \ {c[i]}
    <2>1. Met(t[s]) \ Met(b) = {c[i]}
      BY <1>1, <1>3, <1>4 DEF Met
    <2> QED
      BY <2>1, <1>7
  <1>9. KeysIn(u) = KeysIn(t) \ {c[i].key}
    <2>1. \A e \in Held(t) : e.key = c[i].key => e = c[i]
      BY <1>3, <1>6, HeldOnce
    <2> QED
      BY <2>1, <1>3, <1>8 DEF KeysIn
  <1>10. c[i].key \in KeysIn(t)
    BY <1>3 DEF KeysIn
  <1>11. IsFiniteSet(KeysIn(u)) /\ d - 1 = Cardinality(KeysIn(u))
    <2>1. IsFiniteSet(KeysIn(t)) /\ d = Cardinality(KeysIn(t))
      BY DEF SetTable
    <2>2. PICK K : K = KeysIn(t)
      OBVIOUS
    <2>3. PICK k : k = c[i].key
      OBVIOUS
    <2>4. IsFiniteSet(K \ {k}) /\ Cardinality(K \ {k}) = Cardinality(K) - 1
      BY <2>1, <2>2, <2>3, <1>10, FS_RemoveElement
    <2> QED
      BY <2>1, <2>2, <2>3, <2>4, <1>9
  <1>12. InItsSlot(n, u)
    <2>1. DOMAIN u = 0 .. n - 1 /\ DOMAIN t = 0 .. n - 1
      BY <1>7 DEF TablesOf, SetTables
    <2>2. \A x \in 0 .. n - 1 : Met(u[x]) \subseteq Met(t[x])
      BY <1>6, <1>7
    <2> QED
      BY <2>1, <2>2 DEF InItsSlot, SetTable
  <1>13. d - 1 < (n * 4) \div 5
    <2>1. d \in Nat
      BY FS_CardinalityType DEF SetTable
    <2>2. d < (n * 4) \div 5
      BY DEF SetTable
    <2> QED
      BY <2>1, <2>2
  <1>14. SetTable(n, d - 1, u) /\ u \in SetTables(n)
    BY <1>7, <1>11, <1>12, <1>13 DEF SetTable, SetTables
  <1> QED
    BY <1>1, <1>3, <1>4, <1>7, <1>8, <1>9, <1>14

(* The keys in the slots after s, and those of a chain after its place i *)
LeftFrom(t, s) == {k \in KeysIn(t) : \E x \in DOMAIN t : x > s /\ \E e \in Met(t[x]) : e.key = k}
LeftIn(c, i) == {c[j].key : j \in i + 1 .. Len(c)}

(* A table of n slots that the iterator goes through *)
SetWalk(n, t) == n \in Nat \ {0} /\ t \in SetTables(n) /\ Good(t)

LEMMA SetWalkIs ==
  ASSUME NEW n, NEW t, SetWalk(n, t), NEW s \in DOMAIN t
  PROVE  /\ DOMAIN t = 0 .. n - 1 /\ t[s] \in Seq(HS!Entry) /\ Unlike(t[s])
         /\ Met(t[s]) \subseteq Held(t) /\ Len(t[s]) \in Nat
  BY DEF SetWalk, SetTables, TablesOf, Good, Held

LEMMA LeftStep ==
  ASSUME NEW n, NEW t, SetWalk(n, t), NEW s \in DOMAIN t, NEW i \in Nat, i + 1 <= Len(t[s])
  PROVE  LET k == t[s][i + 1].key
         IN  /\ i + 1 \in 1 .. Len(t[s]) /\ k \in LeftIn(t[s], i)
             /\ LeftFrom(t, s) \cup LeftIn(t[s], i + 1) = (LeftFrom(t, s) \cup LeftIn(t[s], i)) \ {k}
  <1> DEFINE c == t[s]
             k == c[i + 1].key
  <1>1. DOMAIN t = 0 .. n - 1 /\ c \in Seq(HS!Entry) /\ Unlike(c) /\ Len(c) \in Nat
    BY SetWalkIs
  <1>2. i + 1 \in 1 .. Len(c) /\ i + 1 \in i + 1 .. Len(c)
    BY <1>1
  <1>3. k \in LeftIn(c, i)
    BY <1>2 DEF LeftIn
  <1>4. k \notin LeftFrom(t, s)
    <2>1. c[i + 1] \in Met(c)
      BY <1>2 DEF Met
    <2>2. ASSUME NEW x \in DOMAIN t, x > s, NEW e \in Met(t[x]), e.key = k PROVE FALSE
      <3>1. x = s
        BY <2>1, <2>2 DEF SetWalk, Good
      <3> QED
        BY <3>1, <2>2, <1>1
    <2> QED
      BY <2>2 DEF LeftFrom
  <1>5. LeftIn(c, i + 1) = LeftIn(c, i) \ {k}
    <2>1. ASSUME NEW j \in i + 1 + 1 .. Len(c)
          PROVE  j \in i + 1 .. Len(c) /\ c[j].key # k
      <3>1. j \in 1 .. Len(c) /\ j \in i + 1 .. Len(c) /\ j # i + 1
        BY <1>1
      <3> QED
        BY <3>1, <1>1, <1>2 DEF Unlike
    <2>2. ASSUME NEW j \in i + 1 .. Len(c), c[j].key # k
          PROVE  j \in i + 1 + 1 .. Len(c)
      <3>1. j # i + 1
        BY <2>2
      <3> QED
        BY <3>1, <1>1
    <2> QED
      BY <2>1, <2>2 DEF LeftIn
  <1> HIDE DEF c, k
  <1>6. LeftFrom(t, s) \cup LeftIn(c, i + 1) = (LeftFrom(t, s) \cup LeftIn(c, i)) \ {k}
    BY <1>4, <1>5
  <1> QED
    BY <1>2, <1>3, <1>6 DEF c, k

(* Nothing is between the slots r and s. *)
LEMMA LeftSkip ==
  ASSUME NEW n, NEW t, SetWalk(n, t), NEW r \in Int, NEW s \in DOMAIN t, r < s,
         \A x \in DOMAIN t : x > r /\ x < s => t[x] = <<>>
  PROVE  LeftFrom(t, r) = LeftFrom(t, s) \cup LeftIn(t[s], 0)
  <1>1. /\ DOMAIN t = 0 .. n - 1 /\ n \in Nat /\ Len(t[s]) \in Nat /\ Met(t[s]) \subseteq Held(t)
        /\ s \in Int
    BY SetWalkIs DEF SetWalk
  <1>2. Met(<<>>) = {}
    BY DEF Met
  <1>3. LeftIn(t[s], 0) = {e.key : e \in Met(t[s])}
    <2>1. 0 + 1 .. Len(t[s]) = 1 .. Len(t[s])
      OBVIOUS
    <2>2. LeftIn(t[s], 0) = {t[s][j].key : j \in 1 .. Len(t[s])}
      BY <2>1 DEF LeftIn
    <2> QED
      BY <2>2 DEF Met
  <1>4. ASSUME NEW k \in LeftFrom(t, r) PROVE k \in LeftFrom(t, s) \cup LeftIn(t[s], 0)
    <2>1. PICK x \in DOMAIN t : x > r /\ \E e \in Met(t[x]) : e.key = k
      BY DEF LeftFrom
    <2>2. PICK e \in Met(t[x]) : e.key = k
      BY <2>1
    <2>3. x >= s
      <3>1. t[x] # <<>>
        BY <1>2, <2>2
      <3> QED
        BY <1>1, <2>1, <3>1
    <2>4. CASE x = s
      BY <2>2, <2>4, <1>3
    <2>5. CASE x # s
      <3>1. x > s
        BY <1>1, <2>3, <2>5
      <3> QED
        BY <3>1, <2>2 DEF LeftFrom
    <2> QED
      BY <2>4, <2>5
  <1>5. ASSUME NEW k \in LeftFrom(t, s) PROVE k \in LeftFrom(t, r)
    <2>1. PICK x \in DOMAIN t : x > s /\ \E e \in Met(t[x]) : e.key = k
      BY DEF LeftFrom
    <2>2. x > r
      BY <2>1, <1>1
    <2> QED
      BY <2>1, <2>2 DEF LeftFrom
  <1>6. ASSUME NEW k \in LeftIn(t[s], 0) PROVE k \in LeftFrom(t, r)
    <2>1. PICK e \in Met(t[s]) : e.key = k
      BY <1>3
    <2>2. k \in KeysIn(t)
      BY <2>1, <1>1 DEF KeysIn
    <2>3. s > r
      BY <1>1
    <2> QED
      BY <2>1, <2>2, <2>3 DEF LeftFrom
  <1> QED
    BY <1>4, <1>5, <1>6

(* The iterator is at its place, and todo is what is ahead of it. *)
SetIter(t, s, k, left) ==
    IF k = NoKey THEN left = LeftFrom(t, s)
    ELSE /\ s \in DOMAIN t
         /\ \E i \in 1 .. Len(t[s]) :
              t[s][i].key = k /\ left = LeftFrom(t, s) \cup LeftIn(t[s], i)

SetInv ==
    /\ SetTable(set_num_slots, set_num_data, set_slots)
    /\ set_status \in {"none", "up", "crashed"}
    /\ set_status = "none" => set_num_slots = 0 /\ set_slots = <<>> /\ ~HS!Iterating
    /\ iter_slot \in -2 .. set_num_slots - 1
    /\ iter_entry \in Key \cup {NoKey} /\ todo \subseteq Key
    /\ HS!Iterating => SetIter(set_slots, iter_slot, iter_entry, todo)

(* What the module of the set says in other words *)
LEMMA SetWords ==
  ASSUME SetTable(set_num_slots, set_num_data, set_slots)
  PROVE  /\ HS!EntriesOf(set_slots) = Held(set_slots) /\ HS!Keys = KeysIn(set_slots)
         /\ KeysIn(set_slots) \subseteq Key
         /\ \A x \in DOMAIN set_slots : /\ set_slots[x] \in Seq(HS!Entry)
                                        /\ HS!ToSet(set_slots[x]) = Met(set_slots[x])
  <1>1. ASSUME NEW x \in DOMAIN set_slots PROVE set_slots[x] \in Seq(HS!Entry)
    <2>1. set_slots # <<>>
      OBVIOUS
    <2> QED
      BY <2>1 DEF SetTable, SetTables, TablesOf
  <1>2. ASSUME NEW x \in DOMAIN set_slots PROVE HS!ToSet(set_slots[x]) = Met(set_slots[x])
    BY <1>1 DEF HS!ToSet, Met
  <1>3. HS!EntriesOf(set_slots) = Held(set_slots)
    BY <1>2 DEF HS!EntriesOf, Held
  <1>4. HS!Keys = KeysIn(set_slots)
    BY <1>3 DEF HS!Keys, KeysIn
  <1>5. KeysIn(set_slots) \subseteq Key
    <2>1. \A e \in Held(set_slots) : e.key \in Key
      BY HeldIsThere DEF HS!Entry
    <2> QED
      BY <2>1 DEF KeysIn
  <1> QED
    BY <1>1, <1>2, <1>3, <1>4, <1>5

LEMMA SetUp ==
  ASSUME SetInv, HS!Up
  PROVE  /\ set_num_slots \in Nat
         /\ set_num_slots = 0 => set_slots = <<>>
         /\ set_num_slots # 0 => set_slots \in SetTables(set_num_slots)
  BY DEF SetInv, HS!Up, SetTable

LEMMA SetNotFound ==
  ASSUME SetInv, HS!Up, NEW k \in Key
  PROVE  HS!Found(k) <=> k \in KeysIn(set_slots)
  <1> DEFINE s == Hash[k] % set_num_slots
  <1>1. CASE set_num_slots = 0
    <2>1. KeysIn(set_slots) = {}
      BY <1>1, SetUp, SetOfNone
    <2> QED
      BY <1>1, <2>1 DEF HS!Found
  <1>2. CASE set_num_slots # 0
    <2>1. s \in DOMAIN set_slots
      <3>1. s \in 0 .. set_num_slots - 1
        BY <1>2, SetUp, SlotIsThere
      <3> QED
        BY <3>1, <1>2, SetUp DEF SetTables, TablesOf
    <2>2. HS!KeysOf(set_slots[s]) = {e.key : e \in Met(set_slots[s])}
      BY <2>1, SetWords DEF HS!KeysOf, SetInv
    <2>3. HS!Found(k) <=> k \in {e.key : e \in Met(set_slots[s])}
      <3>1. set_num_slots > 0
        BY <1>2, SetUp
      <3> QED
        BY <3>1, <2>2 DEF HS!Found, HS!SlotOf
    <2>4. ASSUME NEW e \in Met(set_slots[s]), e.key = k PROVE k \in KeysIn(set_slots)
      BY <2>1, <2>4 DEF KeysIn, Held
    <2>5. ASSUME NEW e \in Held(set_slots), e.key = k PROVE e \in Met(set_slots[s])
      BY <2>5, HeldIsThere DEF SetInv
    <2> QED
      BY <2>3, <2>4, <2>5 DEF KeysIn
  <1> QED
    BY <1>1, <1>2

LEMMA SetPrime == ASSUME NEW n \in Nat PROVE HS!NextPrime(n) = NextPrime(n)
  BY DEF HS!NextPrime, NextPrime, HS!IsPrime, IsPrime

LEMMA SetRoomToGrow ==
  ASSUME NEW m \in Nat, m > 1, NEW d \in Nat, d < (m * 4) \div 5
  PROVE  LET n == HS!Grown(m) IN n \in Nat /\ m <= n /\ n > 1 /\ d + 1 < (n * 4) \div 5
  <1>1. (m * 3) \div 2 \in Nat
    OBVIOUS
  <1>2. PICK n \in Nat : n = HS!Grown(m) /\ n >= (m * 3) \div 2
    <2>1. PICK h \in Nat : h = (m * 3) \div 2
      BY <1>1
    <2>2. HS!Grown(m) = NextPrime(h)
      BY <2>1, SetPrime DEF HS!Grown
    <2> QED
      BY <2>1, <2>2, NextPrimeIsLarge
  <1>3. n >= m + 1
    <2>1. (m * 3) \div 2 >= m + 1
      OBVIOUS
    <2> QED
      BY <1>2, <2>1
  <1>4. (n * 4) \div 5 > (m * 4) \div 5
    <2>1. CASE m >= 4
      <3>1. (m * 3) \div 2 >= m + 2
        BY <2>1
      <3>2. n >= m + 2
        BY <3>1, <1>2
      <3> QED
        BY <3>2
    <2>2. CASE m = 2
      BY <2>2, <1>3
    <2>3. CASE m = 3
      BY <2>3, <1>3
    <2> QED
      BY <2>1, <2>2, <2>3
  <1> QED
    BY <1>2, <1>3, <1>4

(* The table as insert finds or makes it, and as it is when it has grown *)
LEMMA SetNow ==
  ASSUME SetInv, HS!Up
  PROVE  /\ HS!SlotsNow \in Nat /\ HS!SlotsNow > 1 /\ HS!TableNow \in SetTables(HS!SlotsNow)
         /\ SetTable(HS!SlotsNow, set_num_data, HS!TableNow)
         /\ Held(HS!TableNow) = Held(set_slots) /\ set_num_data \in Nat
         /\ set_num_slots <= HS!SlotsNow
  <1>1. /\ set_num_slots \in Nat
        /\ set_num_slots = 0 => set_slots = <<>>
        /\ set_num_slots # 0 => set_slots \in SetTables(set_num_slots)
    BY SetUp
  <1>2. SetTable(set_num_slots, set_num_data, set_slots) /\ set_num_data \in Nat
    BY FS_CardinalityType DEF SetInv, SetTable
  <1>3. CASE set_num_slots = 0
    <2>1. HS!SlotsNow \in Nat /\ HS!SlotsNow >= 2
      BY <1>3, SetConstants, SetPrime, NextPrimeIsLarge DEF HS!SlotsNow
    <2>2. HS!TableNow = HS!Empty(HS!SlotsNow)
      BY <1>3 DEF HS!TableNow
    <2>3. SetTable(HS!SlotsNow, 0, HS!TableNow) /\ Held(HS!TableNow) = {}
      BY <2>1, <2>2, SetEmpty
    <2>4. Held(set_slots) = {} /\ set_num_data = 0
      BY <1>1, <1>2, <1>3, SetOfNone DEF SetTable
    <2>5. HS!TableNow \in SetTables(HS!SlotsNow)
      BY <2>2 DEF HS!Empty, SetTables, TablesOf
    <2> QED
      BY <1>2, <1>3, <2>1, <2>3, <2>4, <2>5
  <1>4. CASE set_num_slots # 0
    <2>1. HS!SlotsNow = set_num_slots /\ HS!TableNow = set_slots
      BY <1>4 DEF HS!SlotsNow, HS!TableNow
    <2>2. set_num_slots > 1
      <3>1. set_num_slots # 1
        <4>1. set_num_slots = 1 => (set_num_slots * 4) \div 5 = 0
          OBVIOUS
        <4>2. set_num_data < (set_num_slots * 4) \div 5
          BY <1>1, <1>2, <1>4 DEF SetTable
        <4> QED
          BY <4>1, <4>2, <1>2
      <3> QED
        BY <1>1, <1>4, <3>1
    <2> QED
      BY <1>1, <1>2, <1>4, <2>1, <2>2
  <1> QED
    BY <1>3, <1>4

LEMMA SetThen ==
  ASSUME SetInv, HS!Up
  PROVE  /\ HS!SlotsNext \in Nat \ {0} /\ HS!TableNext \in SetTables(HS!SlotsNext)
         /\ SetTable(HS!SlotsNext, set_num_data, HS!TableNext)
         /\ Held(HS!TableNext) = Held(set_slots)
         /\ set_num_data + 1 < (HS!SlotsNext * 4) \div 5
         /\ set_num_slots <= HS!SlotsNext
  <1>1. PICK m : m = HS!SlotsNow
    OBVIOUS
  <1>2. PICK t : t = HS!TableNow
    OBVIOUS
  <1>3. /\ m \in Nat /\ m > 1 /\ t \in SetTables(m) /\ SetTable(m, set_num_data, t)
        /\ Held(t) = Held(set_slots) /\ set_num_data \in Nat /\ set_num_slots <= m
    BY <1>1, <1>2, SetNow
  <1>4. CASE HS!MustGrow(m)
    <2>1. PICK n : n = HS!Grown(m)
      OBVIOUS
    <2>2. HS!SlotsNext = n /\ HS!TableNext = HS!Rehash(t, m, n)
      BY <1>1, <1>2, <1>4, <2>1 DEF HS!SlotsNext, HS!TableNext
    <2>3. n \in Nat /\ m <= n /\ n > 1 /\ set_num_data + 1 < (n * 4) \div 5
      <3>1. set_num_data < (m * 4) \div 5
        BY <1>3 DEF SetTable
      <3> QED
        BY <2>1, <1>3, <3>1, SetRoomToGrow
    <2>4. PICK u : u = HS!Rehash(t, m, n)
      OBVIOUS
    <2>5. SetTable(n, set_num_data, u) /\ u \in SetTables(n) /\ Held(u) = Held(t)
      BY <1>3, <2>3, <2>4, SetGrow
    <2>6. set_num_slots \in Nat
      BY SetUp
    <2> QED
      BY <1>3, <2>2, <2>3, <2>4, <2>5, <2>6
  <1>5. CASE ~HS!MustGrow(m)
    <2>1. HS!SlotsNext = m /\ HS!TableNext = t
      BY <1>1, <1>2, <1>5 DEF HS!SlotsNext, HS!TableNext
    <2>2. set_num_data + 1 < (m * 4) \div 5
      BY <1>3, <1>5 DEF HS!MustGrow
    <2> QED
      BY <1>3, <2>1, <2>2
  <1> QED
    BY <1>4, <1>5

(* A step that leaves the iterator at rest *)
LEMMA SetRests ==
  ASSUME SetInv, ~HS!Iterating, UNCHANGED <<iter_slot, iter_entry, todo>>,
         SetTable(set_num_slots, set_num_data, set_slots)', set_status' \in {"up", "crashed"}
  PROVE  SetInv'
  <1>1. iter_slot' = -2 /\ set_num_slots' \in Nat
    BY DEF HS!Iterating, HS!ITER_FINISH, SetTable
  <1>2. iter_slot' \in -2 .. set_num_slots' - 1
    <2>1. \A n \in Nat : -2 \in -2 .. n - 1
      OBVIOUS
    <2> QED
      BY <1>1, <2>1
  <1>3. ~HS!Iterating'
    BY <1>1 DEF HS!Iterating, HS!ITER_FINISH
  <1> QED
    BY <1>2, <1>3 DEF SetInv

LEMMA SetInsertKeeps ==
  ASSUME SetInv, NEW k \in Key, NEW v \in Value, HS!Insert(k, v)
  PROVE  /\ SetInv' /\ k \notin KeysIn(set_slots)
         /\ Held(set_slots') = Held(set_slots) \cup {[key |-> k, value |-> v]}
  <1> USE DEF HS!Insert
  <1>1. PICK n : n = HS!SlotsNext
    OBVIOUS
  <1>2. PICK t : t = HS!TableNext
    OBVIOUS
  <1>3. /\ n \in Nat \ {0} /\ t \in SetTables(n) /\ SetTable(n, set_num_data, t)
        /\ Held(t) = Held(set_slots) /\ set_num_data + 1 < (n * 4) \div 5
    BY <1>1, <1>2, SetThen
  <1>4. k \in Key \ KeysIn(t) /\ k \notin KeysIn(set_slots)
    BY <1>3, SetNotFound DEF KeysIn
  <1>5. PICK u : SetPuts(n, t, k, v, u)
    BY DEF SetPuts
  <1>6. set_slots' = u /\ set_num_slots' = n /\ set_num_data' = set_num_data + 1
    BY <1>1, <1>2, <1>5 DEF SetPuts
  <1>7. /\ SetTable(n, set_num_data + 1, u)
        /\ Held(u) = Held(t) \cup {[key |-> k, value |-> v]}
    BY <1>3, <1>4, <1>5, SetInsert
  <1>8. SetTable(set_num_slots, set_num_data, set_slots)'
    BY <1>6, <1>7
  <1>9. set_status' \in {"up", "crashed"} /\ UNCHANGED <<iter_slot, iter_entry, todo>>
    BY DEF HS!Up, HS!iter
  <1> QED
    BY <1>3, <1>4, <1>6, <1>7, <1>8, <1>9, SetRests

LEMMA SetInsertFailsKeeps ==
  ASSUME SetInv, NEW k \in Key, HS!InsertFails(k)
  PROVE  SetInv' /\ Held(set_slots') = Held(set_slots)
  <1> USE DEF HS!InsertFails
  <1>1. /\ SetTable(set_num_slots, set_num_data, set_slots)'
        /\ Held(set_slots') = Held(set_slots)
    <2>1. CASE set_num_slots' = HS!SlotsNow /\ set_slots' = HS!TableNow
      BY <2>1, SetNow
    <2>2. CASE set_num_slots' = HS!SlotsNext /\ set_slots' = HS!TableNext
      BY <2>2, SetThen
    <2> QED
      BY <2>1, <2>2
  <1>2. set_status' \in {"up", "crashed"} /\ UNCHANGED <<iter_slot, iter_entry, todo>>
    BY DEF HS!Up, HS!iter
  <1> QED
    BY <1>1, <1>2, SetRests

(* The slot of a key that is there, and its place in it *)
LEMMA SetPlace ==
  ASSUME SetInv, HS!Up, NEW k \in KeysIn(set_slots)
  PROVE  LET s == Hash[k] % set_num_slots
         IN  /\ set_num_slots \in Nat \ {0} /\ set_slots \in SetTables(set_num_slots)
             /\ s \in 0 .. set_num_slots - 1
             /\ HS!Position(k, set_slots[s]) \in 1 .. Len(set_slots[s])
             /\ set_slots[s][HS!Position(k, set_slots[s])].key = k
  <1>0. SetTable(set_num_slots, set_num_data, set_slots)
    BY DEF SetInv
  <1>1. PICK e \in Held(set_slots) : e.key = k
    BY DEF KeysIn
  <1>2. PICK s : s = Hash[k] % set_num_slots
    OBVIOUS
  <1>3. /\ set_num_slots \in Nat \ {0} /\ set_slots \in SetTables(set_num_slots)
        /\ s \in DOMAIN set_slots /\ e \in Met(set_slots[s])
    BY <1>0, <1>1, <1>2, HeldIsThere
  <1>4. PICK c : c = set_slots[s]
    OBVIOUS
  <1>5. DOMAIN set_slots = 0 .. set_num_slots - 1 /\ c \in Seq(HS!Entry) /\ Unlike(c)
    BY <1>0, <1>3, <1>4 DEF SetTables, TablesOf, SetTable, Good
  <1>6. PICK i \in 1 .. Len(c) : c[i] = e
    BY <1>3, <1>4 DEF Met
  <1>7. HS!Position(k, c) = i
    BY <1>1, <1>5, <1>6, SetPlaceOf
  <1> QED
    BY <1>1, <1>2, <1>3, <1>4, <1>5, <1>6, <1>7

LEMMA SetRemoveKeeps ==
  ASSUME SetInv, NEW k \in Key, HS!RemoveKey(k)
  PROVE  /\ SetInv'
         /\ \E e \in Held(set_slots) : e.key = k /\ Held(set_slots') = Held(set_slots) \ {e}
  <1> USE DEF HS!RemoveKey
  <1>1. k \in KeysIn(set_slots) /\ SetTable(set_num_slots, set_num_data, set_slots)
    BY SetNotFound DEF SetInv
  <1>2. PICK s : s = Hash[k] % set_num_slots
    OBVIOUS
  <1>3. PICK i : i = HS!Position(k, set_slots[s])
    OBVIOUS
  <1>4. /\ set_num_slots \in Nat \ {0} /\ set_slots \in SetTables(set_num_slots)
        /\ s \in 0 .. set_num_slots - 1 /\ i \in 1 .. Len(set_slots[s])
        /\ set_slots[s][i].key = k
    BY <1>1, <1>2, <1>3, SetPlace
  <1>5. SetDrops(set_slots, s, i, set_slots')
    BY <1>2, <1>3 DEF HS!Without, HS!SlotOf, SetDrops
  <1>6. /\ SetTable(set_num_slots, set_num_data - 1, set_slots')
        /\ set_slots[s][i] \in Held(set_slots)
        /\ Held(set_slots') = Held(set_slots) \ {set_slots[s][i]}
    BY <1>1, <1>4, <1>5, SetWithout
  <1>7. SetTable(set_num_slots, set_num_data, set_slots)'
    BY <1>6
  <1>8. set_status' \in {"up", "crashed"} /\ UNCHANGED <<iter_slot, iter_entry, todo>>
    BY DEF HS!Up, HS!iter
  <1> QED
    BY <1>4, <1>6, <1>7, <1>8, SetRests

LEMMA SetClearKeeps ==
  ASSUME SetInv, HS!Clear
  PROVE  SetInv' /\ Held(set_slots') = {}
  <1> USE DEF HS!Clear
  <1>1. set_num_slots \in Nat /\ set_num_slots # 1
    <2>1. SetTable(set_num_slots, set_num_data, set_slots)
      BY DEF SetInv
    <2>2. set_num_data \in Nat
      BY <2>1, FS_CardinalityType DEF SetTable
    <2>3. set_num_slots = 1 => (set_num_slots * 4) \div 5 = 0
      OBVIOUS
    <2> QED
      BY <2>1, <2>2, <2>3 DEF SetTable
  <1>2. SetTable(set_num_slots, 0, set_slots') /\ Held(set_slots') = {}
    BY <1>1, SetEmpty
  <1>3. SetTable(set_num_slots, set_num_data, set_slots)'
    BY <1>2
  <1>4. set_status' \in {"up", "crashed"} /\ UNCHANGED <<iter_slot, iter_entry, todo>>
    BY DEF HS!Up, HS!iter
  <1> QED
    BY <1>2, <1>3, <1>4, SetRests

LEMMA SetCreateKeeps ==
  ASSUME SetInv, NEW n \in InitSize, HS!Create(n)
  PROVE  SetInv' /\ Held(set_slots) = {} /\ Held(set_slots') = {}
  <1> USE DEF HS!Create
  <1>1. set_num_slots = 0 /\ set_slots = <<>> /\ ~HS!Iterating
    BY DEF SetInv
  <1>2. set_num_data = 0 /\ Held(set_slots) = {}
    BY <1>1, SetOfNone DEF SetInv, SetTable
  <1>3. set_num_slots' \in Nat /\ set_num_slots' # 1
    BY SetConstants, SetPrime, NextPrimeIsLarge DEF HS!SlotsFor
  <1>4. SetTable(set_num_slots', 0, set_slots') /\ Held(set_slots') = {}
    BY <1>3, SetEmpty
  <1>5. SetTable(set_num_slots, set_num_data, set_slots)'
    BY <1>2, <1>4
  <1>6. set_status' \in {"up", "crashed"} /\ UNCHANGED <<iter_slot, iter_entry, todo>>
    BY DEF HS!iter
  <1> QED
    BY <1>1, <1>2, <1>4, <1>5, <1>6, SetRests

LEMMA SetNoSlotsKeeps ==
  ASSUME SetInv, HS!InsertNoSlots
  PROVE  SetInv' /\ Held(set_slots') = Held(set_slots)
  <1> USE DEF HS!InsertNoSlots
  <1>1. set_slots = <<>> /\ set_num_data = 0
    BY SetUp, SetOfNone DEF SetInv, SetTable
  <1>2. set_num_slots' \in Nat /\ set_num_slots' # 1
    BY SetConstants, SetPrime, NextPrimeIsLarge
  <1>3. SetTable(set_num_slots', 0, set_slots')
    BY <1>1, <1>2, SetEmpty
  <1>4. SetTable(set_num_slots, set_num_data, set_slots)'
    BY <1>1, <1>3
  <1>5. set_status' \in {"up", "crashed"} /\ UNCHANGED <<iter_slot, iter_entry, todo>>
    BY DEF HS!iter, HS!Up
  <1> QED
    BY <1>4, <1>5, SetRests

LEMMA SetDestroyKeeps ==
  ASSUME SetInv, HS!Destroy
  PROVE  SetInv' /\ Held(set_slots') = {}
  <1> USE DEF HS!Destroy
  <1>1. SetTable(0, 0, <<>>) /\ Held(<<>>) = {}
    BY SetEmpty
  <1>2. SetTable(set_num_slots, set_num_data, set_slots)'
    BY <1>1
  <1>3. iter_slot' = -2 /\ ~HS!Iterating'
    BY DEF HS!Iterating, HS!ITER_FINISH, HS!iter
  <1> QED
    BY <1>1, <1>2, <1>3 DEF SetInv, HS!iter

LEMMA SetFound ==
  ASSUME SetInv, HS!Up, set_slots # <<>>
  PROVE  /\ SetWalk(set_num_slots, set_slots) /\ DOMAIN set_slots = 0 .. set_num_slots - 1
         /\ SetTable(set_num_slots, set_num_data, set_slots)
  <1>1. set_num_slots \in Nat \ {0} /\ set_slots \in SetTables(set_num_slots)
    BY SetUp
  <1>2. SetTable(set_num_slots, set_num_data, set_slots) /\ Good(set_slots)
    BY DEF SetInv, SetTable
  <1> QED
    BY <1>1, <1>2 DEF SetWalk, SetTables, TablesOf

LEMMA SetResetKeeps ==
  ASSUME SetInv, HS!IterReset
  PROVE  SetInv'
  <1> USE DEF HS!IterReset
  <1>1. SetTable(set_num_slots, set_num_data, set_slots)
    BY DEF SetInv
  <1>2. HS!Keys = KeysIn(set_slots) /\ KeysIn(set_slots) \subseteq Key
    BY <1>1, SetWords
  <1>3. LeftFrom(set_slots, -1) = KeysIn(set_slots)
    <2>1. ASSUME NEW k \in KeysIn(set_slots) PROVE k \in LeftFrom(set_slots, -1)
      <3>1. PICK e \in Held(set_slots) : e.key = k
        BY DEF KeysIn
      <3>2. PICK x \in DOMAIN set_slots : e \in Met(set_slots[x])
        BY <3>1 DEF Held
      <3>3. set_slots # <<>>
        BY <3>2
      <3>4. x > -1
        <4>1. x \in 0 .. set_num_slots - 1 /\ set_num_slots \in Nat
          BY <3>2, <3>3, SetFound DEF SetWalk
        <4> QED
          BY <4>1
      <3> QED
        BY <3>1, <3>2, <3>4 DEF LeftFrom
    <2> QED
      BY <2>1 DEF LeftFrom
  <1>4. iter_slot' = -1 /\ iter_entry' = NoKey /\ todo' = LeftFrom(set_slots', -1)
    BY <1>2, <1>3 DEF HS!ITER_START, HS!table
  <1>5. SetIter(set_slots, iter_slot, iter_entry, todo)'
    BY <1>4 DEF SetIter
  <1>6. /\ set_num_slots' = set_num_slots /\ set_num_data' = set_num_data
        /\ set_slots' = set_slots /\ set_status' = "up"
    BY DEF HS!table, HS!Up
  <1>7. iter_slot' \in -2 .. set_num_slots' - 1
    BY <1>1, <1>4, <1>6 DEF SetTable
  <1>8. todo' \subseteq Key
    BY <1>2
  <1> QED
    BY <1>1, <1>4, <1>5, <1>6, <1>7, <1>8 DEF SetInv

LEMMA SetFinishKeeps ==
  ASSUME SetInv, HS!IterFinish
  PROVE  SetInv' /\ todo = {}
  <1> USE DEF HS!IterFinish
  <1>1. SetIter(set_slots, iter_slot, iter_entry, todo)
    BY DEF SetInv
  <1>2. LeftFrom(set_slots, iter_slot) = {}
    <2>1. ASSUME NEW x \in DOMAIN set_slots, x > iter_slot PROVE Met(set_slots[x]) = {}
      <3>1. set_slots[x] = <<>>
        BY <2>1 DEF HS!Ahead
      <3> QED
        BY <3>1 DEF Met
    <2> QED
      BY <2>1 DEF LeftFrom
  <1>3. todo = {}
    <2>1. CASE iter_entry = NoKey
      BY <1>1, <1>2, <2>1 DEF SetIter
    <2>2. CASE iter_entry # NoKey
      <3>1. iter_slot \in DOMAIN set_slots
        BY <1>1, <2>2 DEF SetIter
      <3>2. PICK c : c = set_slots[iter_slot]
        OBVIOUS
      <3>3. PICK i \in 1 .. Len(c) :
              c[i].key = iter_entry /\ todo = LeftFrom(set_slots, iter_slot) \cup LeftIn(c, i)
        BY <1>1, <2>2, <3>2 DEF SetIter
      <3>4. set_slots # <<>>
        BY <3>1
      <3>5. c \in Seq(HS!Entry) /\ Unlike(c) /\ Len(c) \in Nat /\ iter_slot # -1
        <4>1. SetWalk(set_num_slots, set_slots) /\ DOMAIN set_slots = 0 .. set_num_slots - 1
          BY <3>4, SetFound
        <4>2. c \in Seq(HS!Entry) /\ Unlike(c) /\ Len(c) \in Nat
          BY <3>1, <3>2, <4>1, SetWalkIs
        <4>3. iter_slot \in 0 .. set_num_slots - 1 /\ set_num_slots \in Nat
          BY <3>1, <4>1 DEF SetWalk
        <4> QED
          BY <4>2, <4>3
      <3>6. HS!Position(iter_entry, c) = i
        BY <3>3, <3>5, SetPlaceOf
      <3>7. ~(i < Len(c))
        BY <2>2, <3>2, <3>5, <3>6 DEF HS!HasNext, HS!ITER_START
      <3>8. i + 1 .. Len(c) = {}
        BY <3>5, <3>7
      <3> QED
        BY <1>2, <3>3, <3>8 DEF LeftIn
    <2> QED
      BY <2>1, <2>2
  <1>4. /\ set_num_slots' = set_num_slots /\ set_num_data' = set_num_data
        /\ set_slots' = set_slots /\ set_status' = "up" /\ iter_slot' = -2
        /\ iter_entry' = iter_entry /\ todo' = todo
    BY DEF HS!table, HS!Up, HS!ITER_FINISH
  <1>5. ~HS!Iterating' /\ iter_slot' \in -2 .. set_num_slots' - 1
    BY <1>4 DEF HS!Iterating, HS!ITER_FINISH, SetInv, SetTable
  <1> QED
    BY <1>3, <1>4, <1>5 DEF SetInv

LEMMA SetNextInChainKeeps ==
  ASSUME SetInv, HS!IterNextInChain
  PROVE  SetInv' /\ iter_entry' \in todo
  <1> USE DEF HS!IterNextInChain
  <1>1. SetIter(set_slots, iter_slot, iter_entry, todo) /\ iter_entry # NoKey
    BY DEF SetInv, HS!HasNext
  <1>2. iter_slot \in DOMAIN set_slots /\ set_slots # <<>>
    BY <1>1 DEF SetIter
  <1>3. PICK c : c = set_slots[iter_slot]
    OBVIOUS
  <1>4. PICK i \in 1 .. Len(c) :
          c[i].key = iter_entry /\ todo = LeftFrom(set_slots, iter_slot) \cup LeftIn(c, i)
    BY <1>1, <1>3 DEF SetIter
  <1>5. SetWalk(set_num_slots, set_slots)
    BY <1>2, SetFound
  <1>6. c \in Seq(HS!Entry) /\ Unlike(c) /\ Len(c) \in Nat
    BY <1>2, <1>3, <1>5, SetWalkIs
  <1>7. HS!Position(iter_entry, c) = i
    BY <1>4, <1>6, SetPlaceOf
  <1>8. i \in Nat /\ i + 1 <= Len(c) /\ i + 1 \in 1 .. Len(c)
    BY <1>3, <1>6, <1>7 DEF HS!HasNext
  <1>9. PICK k : k = c[i + 1].key
    OBVIOUS
  <1>10. iter_entry' = k /\ todo' = todo \ {k} /\ iter_slot' = iter_slot
    BY <1>3, <1>7, <1>9 DEF HS!Returned
  <1>11. /\ k \in LeftIn(c, i)
         /\ LeftFrom(set_slots, iter_slot) \cup LeftIn(c, i + 1)
              = (LeftFrom(set_slots, iter_slot) \cup LeftIn(c, i)) \ {k}
    BY <1>2, <1>3, <1>5, <1>8, <1>9, LeftStep
  <1>12. k \in todo /\ todo' = LeftFrom(set_slots, iter_slot) \cup LeftIn(c, i + 1)
    BY <1>4, <1>10, <1>11
  <1>13. k \in Key /\ k # NoKey
    BY <1>12, SetConstants DEF SetInv
  <1>14. /\ set_num_slots' = set_num_slots /\ set_num_data' = set_num_data
         /\ set_slots' = set_slots /\ set_status' = "up"
    BY DEF HS!table, HS!Up
  <1>15. SetIter(set_slots, iter_slot, k, todo')
    BY <1>2, <1>3, <1>8, <1>9, <1>12, <1>13 DEF SetIter
  <1> QED
    BY <1>10, <1>12, <1>13, <1>14, <1>15 DEF SetInv

LEMMA SetNextSlotKeeps ==
  ASSUME SetInv, HS!IterNextSlot
  PROVE  SetInv' /\ iter_entry' \in todo
  <1> USE DEF HS!IterNextSlot
  <1>1. SetIter(set_slots, iter_slot, iter_entry, todo)
    BY DEF SetInv
  <1>2. set_slots # <<>>
    <2>1. DOMAIN set_slots # {}
      BY DEF HS!Ahead
    <2> QED
      BY <2>1
  <1>3. SetWalk(set_num_slots, set_slots) /\ DOMAIN set_slots = 0 .. set_num_slots - 1
    BY <1>2, SetFound
  <1>4. PICK s \in HS!Ahead : \A x \in HS!Ahead : s <= x
    <2>1. HS!Ahead \subseteq Nat
      BY <1>3 DEF HS!Ahead, SetWalk
    <2> QED
      BY <2>1, LeastOf
  <1>5. iter_slot' \in HS!Ahead /\ \A x \in HS!Ahead : iter_slot' <= x
    <2>1. iter_slot' = CHOOSE r \in HS!Ahead : \A x \in HS!Ahead : r <= x
      OBVIOUS
    <2> QED
      BY <1>4, <2>1
  <1>6. PICK r : r = iter_slot'
    OBVIOUS
  <1>7. r \in DOMAIN set_slots /\ r > iter_slot /\ set_slots[r] # <<>> /\ iter_slot \in Int
    BY <1>5, <1>6 DEF HS!Ahead, SetInv
  <1>8. \A x \in DOMAIN set_slots : x > iter_slot /\ x < r => set_slots[x] = <<>>
    <2>1. ASSUME NEW x \in DOMAIN set_slots, x > iter_slot, x < r, set_slots[x] # <<>>
          PROVE  FALSE
      <3>1. x \in HS!Ahead
        BY <2>1 DEF HS!Ahead
      <3>2. r <= x
        BY <1>5, <1>6, <3>1
      <3>3. x \in Int /\ r \in Int
        BY <1>3, <1>7 DEF SetWalk
      <3> QED
        BY <2>1, <3>2, <3>3
    <2> QED
      BY <2>1
  <1>9. PICK c : c = set_slots[r]
    OBVIOUS
  <1>10. /\ c \in Seq(HS!Entry) /\ Unlike(c) /\ Len(c) \in Nat /\ c # <<>> /\ r \in Int
    <2>1. c \in Seq(HS!Entry) /\ Unlike(c) /\ Len(c) \in Nat
      BY <1>3, <1>7, <1>9, SetWalkIs
    <2> QED
      BY <1>3, <1>7, <1>9, <2>1 DEF SetWalk
  <1>11. Len(c) # 0 /\ 0 + 1 <= Len(c)
    BY <1>10
  <1>12. LeftFrom(set_slots, iter_slot) = LeftFrom(set_slots, r) \cup LeftIn(c, 0)
    <2>1. iter_slot < r
      BY <1>7, <1>10
    <2> QED
      BY <1>3, <1>7, <1>8, <1>9, <2>1, LeftSkip
  <1>13. PICK k : k = c[1].key
    OBVIOUS
  <1>14. /\ k \in LeftIn(c, 0) /\ 1 \in 1 .. Len(c)
         /\ LeftFrom(set_slots, r) \cup LeftIn(c, 1)
              = (LeftFrom(set_slots, r) \cup LeftIn(c, 0)) \ {k}
    <2>1. PICK z : z = 0
      OBVIOUS
    <2>2. z \in Nat /\ z + 1 <= Len(c) /\ k = c[z + 1].key
      BY <1>11, <1>13, <2>1
    <2>3. /\ k \in LeftIn(c, z)
          /\ LeftFrom(set_slots, r) \cup LeftIn(c, z + 1)
               = (LeftFrom(set_slots, r) \cup LeftIn(c, z)) \ {k}
      <3>1. PICK t : t = set_slots
        OBVIOUS
      <3>2. SetWalk(set_num_slots, t) /\ r \in DOMAIN t /\ z + 1 <= Len(t[r]) /\ z \in Nat
        BY <1>3, <1>7, <1>9, <2>2, <3>1
      <3>3. /\ t[r][z + 1].key \in LeftIn(t[r], z)
            /\ LeftFrom(t, r) \cup LeftIn(t[r], z + 1)
                 = (LeftFrom(t, r) \cup LeftIn(t[r], z)) \ {t[r][z + 1].key}
        BY ONLY <3>2, LeftStep
      <3> QED
        BY <1>9, <2>2, <3>1, <3>3
    <2>4. 1 \in 1 .. Len(c) /\ z + 1 = 1
      BY <1>10, <1>11, <2>1
    <2> QED
      BY <2>1, <2>3, <2>4
  <1>15. todo = LeftFrom(set_slots, iter_slot)
    <2>1. CASE iter_entry = NoKey
      BY <1>1, <2>1 DEF SetIter
    <2>2. CASE iter_entry # NoKey
      <3>1. iter_slot \in DOMAIN set_slots
        BY <1>1, <2>2 DEF SetIter
      <3>2. PICK b : b = set_slots[iter_slot]
        OBVIOUS
      <3>3. PICK i \in 1 .. Len(b) :
              b[i].key = iter_entry /\ todo = LeftFrom(set_slots, iter_slot) \cup LeftIn(b, i)
        BY <1>1, <2>2, <3>2 DEF SetIter
      <3>4. b \in Seq(HS!Entry) /\ Unlike(b) /\ Len(b) \in Nat
        BY <1>3, <3>1, <3>2, SetWalkIs
      <3>5. HS!Position(iter_entry, b) = i
        BY <3>3, <3>4, SetPlaceOf
      <3>6. iter_slot # -1
        <4>1. iter_slot \in 0 .. set_num_slots - 1 /\ set_num_slots \in Nat
          BY <1>3, <3>1 DEF SetWalk
        <4> QED
          BY <4>1
      <3>7. ~(i < Len(b))
        BY <2>2, <3>2, <3>5, <3>6 DEF HS!HasNext, HS!ITER_START
      <3>8. i + 1 .. Len(b) = {}
        BY <3>4, <3>7
      <3> QED
        BY <3>3, <3>8 DEF LeftIn
    <2> QED
      BY <2>1, <2>2
  <1>16. iter_entry' = k /\ todo' = todo \ {k}
    BY <1>6, <1>9, <1>13 DEF HS!Returned
  <1>17. k \in todo /\ todo' = LeftFrom(set_slots, r) \cup LeftIn(c, 1)
    BY <1>12, <1>14, <1>15, <1>16
  <1>18. k \in Key /\ k # NoKey
    BY <1>17, SetConstants DEF SetInv
  <1>19. /\ set_num_slots' = set_num_slots /\ set_num_data' = set_num_data
         /\ set_slots' = set_slots /\ set_status' = "up"
    BY DEF HS!table, HS!Up
  <1>20. SetIter(set_slots, r, k, todo')
    BY <1>7, <1>9, <1>13, <1>14, <1>17, <1>18 DEF SetIter
  <1>21. r \in -2 .. set_num_slots - 1
    BY <1>3, <1>7 DEF SetWalk
  <1> QED
    BY <1>6, <1>16, <1>17, <1>18, <1>19, <1>20, <1>21 DEF SetInv

LEMMA SetIterRemoveKeeps ==
  ASSUME SetInv, HS!IterRemove
  PROVE  /\ SetInv'
         /\ \E e \in Held(set_slots) :
              e.key = iter_entry /\ Held(set_slots') = Held(set_slots) \ {e}
  <1>0. /\ HS!Up /\ HS!Iterating /\ iter_slot # -1 /\ iter_entry # NoKey
        /\ set_slots' = HS!Without(iter_entry) /\ set_num_data' = set_num_data - 1
        /\ set_num_slots' = set_num_slots /\ set_status' = set_status /\ todo' = todo
    BY DEF HS!IterRemove, HS!ITER_START
  <1>1. SetIter(set_slots, iter_slot, iter_entry, todo)
    BY <1>0 DEF SetInv
  <1>2. iter_slot \in DOMAIN set_slots /\ set_slots # <<>>
    BY <1>0, <1>1 DEF SetIter
  <1>3. /\ SetWalk(set_num_slots, set_slots) /\ DOMAIN set_slots = 0 .. set_num_slots - 1
        /\ SetTable(set_num_slots, set_num_data, set_slots)
        /\ set_num_slots \in Nat \ {0} /\ set_slots \in SetTables(set_num_slots)
    BY <1>0, <1>2, SetFound DEF SetWalk
  <1>4. PICK s : s = iter_slot
    OBVIOUS
  <1>5. PICK c : c = set_slots[s]
    OBVIOUS
  <1>6. PICK i \in 1 .. Len(c) :
          c[i].key = iter_entry /\ todo = LeftFrom(set_slots, s) \cup LeftIn(c, i)
    BY <1>0, <1>1, <1>4, <1>5 DEF SetIter
  <1>7. /\ s \in 0 .. set_num_slots - 1 /\ s \in Int
        /\ c \in Seq(HS!Entry) /\ Unlike(c) /\ Len(c) \in Nat
    BY <1>2, <1>3, <1>4, <1>5, SetWalkIs
  <1>8. HS!Position(iter_entry, c) = i
    BY <1>6, <1>7, SetPlaceOf
  <1>9. Hash[iter_entry] % set_num_slots = s
    <2>1. c[i] \in Met(set_slots[s])
      BY <1>5 DEF Met
    <2> QED
      BY <1>2, <1>3, <1>4, <1>6, <2>1 DEF SetTable, InItsSlot
  <1>10. PICK u : u = set_slots'
    OBVIOUS
  <1>11. SetDrops(set_slots, s, i, u)
    BY <1>0, <1>5, <1>8, <1>9, <1>10 DEF HS!Without, HS!SlotOf, SetDrops
  <1>12. /\ SetTable(set_num_slots, set_num_data - 1, u) /\ u \in SetTables(set_num_slots)
         /\ c[i] \in Held(set_slots)
         /\ Held(u) = Held(set_slots) \ {c[i]}
         /\ KeysIn(u) = KeysIn(set_slots) \ {c[i].key}
         /\ Len(u[s]) = Len(c) - 1
         /\ \A j \in 1 .. Len(c) - 1 : u[s][j] = IF j < i THEN c[j] ELSE c[j + 1]
         /\ \A x \in (0 .. set_num_slots - 1) \ {s} : u[x] = set_slots[x]
    <2>1. PICK t : t = set_slots
      OBVIOUS
    <2>2. PICK n : n = set_num_slots
      OBVIOUS
    <2>3. PICK d : d = set_num_data
      OBVIOUS
    <2>4. /\ n \in Nat \ {0} /\ t \in SetTables(n) /\ SetTable(n, d, t)
          /\ s \in 0 .. n - 1 /\ i \in 1 .. Len(t[s]) /\ SetDrops(t, s, i, u)
      BY <1>3, <1>5, <1>7, <1>11, <2>1, <2>2, <2>3
    <2>5. /\ SetTable(n, d - 1, u) /\ u \in SetTables(n) /\ t[s][i] \in Held(t)
          /\ Held(u) = Held(t) \ {t[s][i]}
          /\ KeysIn(u) = KeysIn(t) \ {t[s][i].key}
          /\ Len(u[s]) = Len(t[s]) - 1
          /\ \A j \in 1 .. Len(t[s]) - 1 : u[s][j] = IF j < i THEN t[s][j] ELSE t[s][j + 1]
          /\ \A x \in (0 .. n - 1) \ {s} : u[x] = t[x]
      BY ONLY <2>4, SetWithout
    <2> QED
      BY <1>5, <2>1, <2>2, <2>3, <2>5
  <1>13. DOMAIN u = 0 .. set_num_slots - 1
    BY <1>12 DEF SetTables, TablesOf
  <1>14. SetWalk(set_num_slots, u)
    BY <1>3, <1>12 DEF SetWalk, SetTable
  <1>15. iter_entry \notin LeftFrom(set_slots, s)
    <2>1. c[i] \in Met(set_slots[s])
      BY <1>5 DEF Met
    <2>2. ASSUME NEW x \in DOMAIN set_slots, x > s, NEW e \in Met(set_slots[x]), e.key = iter_entry
          PROVE  FALSE
      <3>1. x = s
        BY <1>2, <1>3, <1>4, <1>6, <2>1, <2>2 DEF SetWalk, Good
      <3> QED
        BY <3>1, <2>2, <1>7
    <2> QED
      BY <2>2 DEF LeftFrom
  <1>16. LeftFrom(u, s) = LeftFrom(set_slots, s)
    <2>1. ASSUME NEW x \in 0 .. set_num_slots - 1, x > s PROVE u[x] = set_slots[x]
      <3>1. x # s
        BY <2>1, <1>7
      <3> QED
        BY <3>1, <1>12
    <2>2. ASSUME NEW k \in LeftFrom(u, s) PROVE k \in LeftFrom(set_slots, s)
      <3>1. PICK x \in 0 .. set_num_slots - 1 : x > s /\ \E e \in Met(u[x]) : e.key = k
        BY <2>2, <1>13 DEF LeftFrom
      <3>2. k \in KeysIn(set_slots)
        BY <2>2, <1>12 DEF LeftFrom
      <3> QED
        BY <3>1, <3>2, <2>1, <1>3 DEF LeftFrom
    <2>3. ASSUME NEW k \in LeftFrom(set_slots, s) PROVE k \in LeftFrom(u, s)
      <3>1. PICK x \in 0 .. set_num_slots - 1 : x > s /\ \E e \in Met(set_slots[x]) : e.key = k
        BY <2>3, <1>3 DEF LeftFrom
      <3>2. k \in KeysIn(u)
        BY <2>3, <1>6, <1>12, <1>15 DEF LeftFrom
      <3> QED
        BY <3>1, <3>2, <2>1, <1>13 DEF LeftFrom
    <2> QED
      BY <2>2, <2>3
  <1>17. LeftIn(u[s], i - 1) = LeftIn(c, i)
    <2>1. i - 1 + 1 .. Len(u[s]) = i .. Len(c) - 1
      BY <1>7, <1>12
    <2>2. ASSUME NEW j \in i .. Len(c) - 1
          PROVE  j + 1 \in i + 1 .. Len(c) /\ u[s][j] = c[j + 1]
      <3>1. j \in 1 .. Len(c) - 1 /\ ~(j < i) /\ j + 1 \in i + 1 .. Len(c)
        BY <1>7
      <3> QED
        BY <3>1, <1>12
    <2>3. ASSUME NEW j \in i + 1 .. Len(c)
          PROVE  j - 1 \in i .. Len(c) - 1 /\ u[s][j - 1] = c[j]
      <3>1. j - 1 \in i .. Len(c) - 1 /\ j - 1 + 1 = j
        BY <1>7
      <3> QED
        BY <3>1, <2>2
    <2>4. LeftIn(u[s], i - 1) = {u[s][j].key : j \in i .. Len(c) - 1}
      BY <2>1 DEF LeftIn
    <2>5. ASSUME NEW j \in i .. Len(c) - 1 PROVE u[s][j].key \in LeftIn(c, i)
      BY <2>2 DEF LeftIn
    <2>6. ASSUME NEW j \in i + 1 .. Len(c) PROVE c[j].key \in {u[s][h].key : h \in i .. Len(c) - 1}
      BY <2>3
    <2> QED
      BY <2>4, <2>5, <2>6 DEF LeftIn
  <1>18. todo = LeftFrom(u, s) \cup LeftIn(u[s], i - 1)
    BY <1>6, <1>16, <1>17
  <1>19. /\ iter_slot' = IF i = 1 THEN s - 1 ELSE s
         /\ iter_entry' = IF i = 1 THEN NoKey ELSE c[i - 1].key
    BY <1>4, <1>5, <1>8 DEF HS!IterRemove
  <1>20. SetIter(u, iter_slot', iter_entry', todo) /\ iter_entry' \in Key \cup {NoKey}
    <2>1. CASE i = 1
      <3>1. iter_slot' = s - 1 /\ iter_entry' = NoKey /\ s - 1 < s /\ s - 1 \in Int
        BY <1>7, <1>19, <2>1
      <3>2. \A x \in DOMAIN u : x > s - 1 /\ x < s => u[x] = <<>>
        BY <1>7, <1>13
      <3>3. s \in DOMAIN u
        BY <1>7, <1>13
      <3>4. LeftFrom(u, s - 1) = LeftFrom(u, s) \cup LeftIn(u[s], 0)
        <4>1. PICK r : r = s - 1
          OBVIOUS
        <4>2. LeftFrom(u, r) = LeftFrom(u, s) \cup LeftIn(u[s], 0)
          BY <1>14, <3>1, <3>2, <3>3, <4>1, LeftSkip
        <4> QED
          BY <4>1, <4>2
      <3>5. i - 1 = 0
        BY <2>1
      <3> QED
        BY <1>18, <3>1, <3>4, <3>5 DEF SetIter
    <2>2. CASE i # 1
      <3>1. i - 1 \in 1 .. Len(u[s]) /\ i - 1 \in 1 .. Len(c) - 1 /\ i - 1 < i /\ i - 1 \in 1 .. Len(c)
        BY <1>7, <1>12, <2>2
      <3>2. u[s][i - 1] = c[i - 1] /\ c[i - 1].key \in Key
        <4>1. c[i - 1] \in HS!Entry
          BY <3>1, <1>7
        <4> QED
          BY <4>1, <3>1, <1>12 DEF HS!Entry
      <3>3. c[i - 1].key # NoKey
        BY <3>2, SetConstants
      <3>4. s \in DOMAIN u
        BY <1>7, <1>13
      <3>5. iter_slot' = s /\ iter_entry' = c[i - 1].key
        BY <1>19, <2>2
      <3> QED
        BY <1>18, <3>1, <3>2, <3>3, <3>4, <3>5 DEF SetIter
    <2> QED
      BY <2>1, <2>2
  <1>21. iter_slot' \in -2 .. set_num_slots - 1
    BY <1>3, <1>7, <1>19
  <1>22. SetTable(set_num_slots, set_num_data, set_slots)' /\ set_status' = "up"
    BY <1>0, <1>10, <1>12 DEF HS!Up
  <1>23. SetInv'
    BY <1>0, <1>10, <1>20, <1>21, <1>22 DEF SetInv
  <1> QED
    BY <1>6, <1>10, <1>12, <1>23

LEMMA SetCards == \A S : HS!Cardinality(S) = Cardinality(S)
  BY DEF HS!Cardinality, Cardinality

LEMMA SetInPlaceHolds == SetInv => SetInPlace
  <1> SUFFICES ASSUME SetInv PROVE SetInPlace
    OBVIOUS
  <1>1. SetTable(set_num_slots, set_num_data, set_slots)
    BY DEF SetInv
  <1>2. /\ HS!Keys = KeysIn(set_slots)
        /\ \A x \in DOMAIN set_slots : /\ set_slots[x] \in Seq(HS!Entry)
                                       /\ HS!ToSet(set_slots[x]) = Met(set_slots[x])
    BY <1>1, SetWords
  <1>3. ASSUME set_slots # <<>>
        PROVE  DOMAIN set_slots = 0 .. set_num_slots - 1
    BY <1>1, <1>3 DEF SetTable, SetTables, TablesOf
  <1>4. HS!TypeOK
    <2>1. set_num_data = HS!Cardinality(HS!Keys)
      BY <1>1, <1>2, SetCards DEF SetTable
    <2> QED
      BY <1>1, <1>2, <1>3, <2>1 DEF HS!TypeOK, SetInv, SetTable, HS!ITER_FINISH
  <1>5. ASSUME NEW x \in DOMAIN set_slots
        PROVE  /\ \A e \in HS!ToSet(set_slots[x]) : Hash[e.key] % set_num_slots = x
               /\ HS!Cardinality(HS!KeysOf(set_slots[x])) = Len(set_slots[x])
    <2>1. PICK c : c = set_slots[x]
      OBVIOUS
    <2>2. c \in Seq(HS!Entry) /\ HS!ToSet(c) = Met(c) /\ Unlike(c)
      BY <1>1, <1>2, <2>1 DEF SetTable, Good
    <2>3. \A e \in Met(c) : Hash[e.key] % set_num_slots = x
      BY <1>1, <2>1 DEF SetTable, InItsSlot
    <2> DEFINE ks == [j \in 1 .. Len(c) |-> c[j].key]
    <2>4. ks \in Seq(Key) /\ Len(ks) = Len(c) /\ Len(c) \in Nat /\ \A j \in 1 .. Len(c) : ks[j] = c[j].key
      <3>1. \A j \in 1 .. Len(c) : c[j].key \in Key
        <4>1. \A j \in 1 .. Len(c) : c[j] \in HS!Entry
          BY <2>2
        <4> QED
          BY <4>1 DEF HS!Entry
      <3>2. Len(c) \in Nat
        BY <2>2
      <3> QED
        BY <3>1, <3>2
    <2> HIDE DEF ks
    <2>5. Distinct(ks)
      BY <2>2, <2>4 DEF Distinct, Unlike
    <2>6. Met(ks) = HS!KeysOf(c)
      <3>1. Met(ks) = {c[j].key : j \in 1 .. Len(c)}
        BY <2>4 DEF Met
      <3>2. HS!KeysOf(c) = {e.key : e \in {c[j] : j \in 1 .. Len(c)}}
        BY <2>2 DEF HS!KeysOf, Met
      <3> QED
        BY <3>1, <3>2
    <2>7. HS!Cardinality(HS!KeysOf(c)) = Len(c)
      BY <2>4, <2>5, <2>6, MetAreCounted, SetCards
    <2> QED
      BY <2>1, <2>2, <2>3, <2>7
  <1> QED
    BY <1>4, <1>5 DEF SetInPlace, HS!InPlace

(* The store of the dictionary *)
LEMMA SetStoreIs ==
  ASSUME SetTable(set_num_slots, set_num_data, set_slots)
  PROVE  /\ HS!Store = StoreOf(Held(set_slots)) /\ DOMAIN HS!Store = KeysIn(set_slots)
         /\ \A e, f \in Held(set_slots) : e.key = f.key => e = f
  <1>1. HS!EntriesOf(set_slots) = Held(set_slots) /\ HS!Keys = KeysIn(set_slots)
    BY SetWords
  <1>2. \A e, f \in Held(set_slots) : e.key = f.key => e = f
    BY HeldOnce DEF SetTable
  <1> QED
    BY <1>1, <1>2 DEF HS!Store, StoreOf, KeysIn

LEMMA SetStoreEq == SetInv => HS!Store = StoreOf(Held(set_slots))
  BY SetStoreIs DEF SetInv

LEMMA SetStoreEqThen == SetInv' => HS!Store' = StoreOf(Held(set_slots'))
  <1>1. (SetInv => HS!Store = StoreOf(Held(set_slots)))'
    BY SetStoreEq, PTL
  <1> QED
    BY <1>1

LEMMA SetStoreStays ==
  ASSUME SetInv, SetInv', Held(set_slots') = Held(set_slots)
  PROVE  HS!Store' = HS!Store
  <1>1. HS!Store = StoreOf(Held(set_slots))
    BY SetStoreIs DEF SetInv
  <1>2. HS!Store' = StoreOf(Held(set_slots'))
    BY SetStoreEqThen
  <1> QED
    BY <1>1, <1>2

LEMMA SetStoreEmpties ==
  ASSUME SetInv', Held(set_slots') = {}
  PROVE  HS!Store' = <<>>
  <1>1. HS!Store' = StoreOf(Held(set_slots'))
    BY SetStoreEqThen
  <1>2. StoreOf({}) = <<>>
    BY DEF StoreOf
  <1> QED
    BY <1>1, <1>2

LEMMA SetStoreGets ==
  ASSUME SetInv, SetInv', NEW k \in Key, NEW v \in Value, k \notin KeysIn(set_slots),
         Held(set_slots') = Held(set_slots) \cup {[key |-> k, value |-> v]}
  PROVE  HS!Dict!Put(k, v)
  <1>1. /\ HS!Store = StoreOf(Held(set_slots)) /\ DOMAIN HS!Store = KeysIn(set_slots)
        /\ \A e, f \in Held(set_slots) : e.key = f.key => e = f
    BY SetStoreIs DEF SetInv
  <1>2. HS!Store' = StoreOf(Held(set_slots'))
    BY SetStoreEqThen
  <1>3. PICK e : e = [key |-> k, value |-> v]
    OBVIOUS
  <1>4. PICK E : E = Held(set_slots)
    OBVIOUS
  <1>5. e.key = k /\ e.value = v /\ \A f \in E : f.key # e.key
    BY <1>3, <1>4 DEF KeysIn
  <1>6. StoreOf(E \cup {e}) =
          [x \in DOMAIN StoreOf(E) \cup {e.key} |-> IF x = e.key THEN e.value ELSE StoreOf(E)[x]]
    BY <1>1, <1>4, <1>5, StoreGets
  <1>7. HS!Store' = [x \in DOMAIN HS!Store \cup {k} |-> IF x = k THEN v ELSE HS!Store[x]]
    BY <1>1, <1>2, <1>3, <1>4, <1>5, <1>6
  <1> QED
    BY <1>1, <1>7 DEF HS!Dict!Put

LEMMA SetStoreLoses ==
  ASSUME SetInv, SetInv', NEW e \in Held(set_slots), Held(set_slots') = Held(set_slots) \ {e}
  PROVE  HS!Dict!Delete(e.key)
  <1>1. /\ HS!Store = StoreOf(Held(set_slots))
        /\ \A f, g \in Held(set_slots) : f.key = g.key => f = g
    BY SetStoreIs DEF SetInv
  <1>2. HS!Store' = StoreOf(Held(set_slots'))
    BY SetStoreEqThen
  <1>3. PICK E : E = Held(set_slots)
    OBVIOUS
  <1>4. StoreOf(E \ {e}) = [k \in DOMAIN StoreOf(E) \ {e.key} |-> StoreOf(E)[k]]
    BY <1>1, <1>3, StoreLoses
  <1> QED
    BY <1>1, <1>2, <1>3, <1>4 DEF HS!Dict!Delete, HS!Dict!Restrict

LEMMA SetStarts == Init => SetInv /\ HS!Dict!Init
  <1> SUFFICES ASSUME Init PROVE SetInv /\ HS!Dict!Init
    OBVIOUS
  <1>1. /\ set_num_slots = 0 /\ set_num_data = 0 /\ set_slots = <<>> /\ set_status = "none"
        /\ iter_slot = -2 /\ iter_entry = NoKey /\ todo = {}
    BY DEF Init, HS!Init, HS!ITER_FINISH
  <1>2. SetTable(0, 0, <<>>) /\ Held(<<>>) = {}
    BY SetEmpty
  <1>3. SetInv
    BY <1>1, <1>2 DEF SetInv, HS!Iterating, HS!ITER_FINISH
  <1>4. HS!Store = StoreOf({})
    BY <1>1, <1>2, SetStoreIs
  <1>5. StoreOf({}) = <<>>
    BY DEF StoreOf
  <1> QED
    BY <1>3, <1>4, <1>5 DEF HS!Dict!Init

(* What the steps that only iterate say *)
SetIterSays ==
    /\ HS!IterNextInChain \/ HS!IterNextSlot => iter_entry' \in todo
    /\ HS!IterFinish => todo = {}

LEMMA SetIterStays ==
  ASSUME HS!IterReset \/ HS!IterNextInChain \/ HS!IterNextSlot \/ HS!IterFinish
  PROVE  set_slots' = set_slots
  BY DEF HS!IterReset, HS!IterNextInChain, HS!IterNextSlot, HS!IterFinish, HS!table

LEMMA SetStep ==
  ASSUME SetInv, [Next]_<<container, set, map, heap, list>>
  PROVE  /\ SetInv'
         /\ HS!Dict!Next \/ UNCHANGED HS!Store
         /\ SetIterSays
  <1> DEFINE Goal == SetInv' /\ (HS!Dict!Next \/ UNCHANGED HS!Store)
  <1>1. ASSUME NEW n \in InitSize, HS!Create(n) PROVE Goal
    BY <1>1, SetCreateKeeps, SetStoreStays
  <1>2. ASSUME HS!Destroy PROVE Goal
    BY <1>2, SetDestroyKeeps, SetStoreEmpties DEF HS!Dict!Next, HS!Dict!Empty
  <1>3. ASSUME HS!Crash PROVE Goal
    <2>1. /\ UNCHANGED <<set_num_slots, set_num_data, set_slots, iter_slot, iter_entry, todo>>
          /\ set_status' = "crashed"
      BY <1>3 DEF HS!Crash, HS!table, HS!iter
    <2>2. SetInv'
      BY <2>1 DEF SetInv, HS!Iterating, HS!ITER_FINISH
    <2> QED
      BY <2>1, <2>2, SetStoreStays
  <1>4. ASSUME HS!InsertNoSlots PROVE Goal
    BY <1>4, SetNoSlotsKeeps, SetStoreStays
  <1>5. ASSUME HS!Clear PROVE Goal
    BY <1>5, SetClearKeeps, SetStoreEmpties DEF HS!Dict!Next, HS!Dict!Empty
  <1>6. ASSUME NEW k \in Key, NEW v \in Value, HS!Insert(k, v) PROVE Goal
    <2>1. /\ SetInv' /\ k \notin KeysIn(set_slots)
          /\ Held(set_slots') = Held(set_slots) \cup {[key |-> k, value |-> v]}
      BY <1>6, SetInsertKeeps
    <2>2. HS!Dict!Put(k, v)
      BY <2>1, SetStoreGets
    <2> QED
      BY <2>1, <2>2 DEF HS!Dict!Next
  <1>7. ASSUME NEW k \in Key, HS!InsertFails(k) PROVE Goal
    BY <1>7, SetInsertFailsKeeps, SetStoreStays
  <1>8. ASSUME NEW k \in Key, HS!RemoveKey(k) PROVE Goal
    <2>1. SetInv'
      BY <1>8, SetRemoveKeeps
    <2>2. PICK e \in Held(set_slots) : e.key = k /\ Held(set_slots') = Held(set_slots) \ {e}
      BY <1>8, SetRemoveKeeps
    <2>3. HS!Dict!Delete(k)
      BY <2>1, <2>2, SetStoreLoses
    <2> QED
      BY <2>1, <2>3 DEF HS!Dict!Next
  <1>9. ASSUME HS!IterReset PROVE Goal
    BY <1>9, SetResetKeeps, SetIterStays, SetStoreStays
  <1>10. ASSUME HS!IterNextInChain PROVE Goal /\ iter_entry' \in todo
    BY <1>10, SetNextInChainKeeps, SetIterStays, SetStoreStays
  <1>11. ASSUME HS!IterNextSlot PROVE Goal /\ iter_entry' \in todo
    BY <1>11, SetNextSlotKeeps, SetIterStays, SetStoreStays
  <1>12. ASSUME HS!IterFinish PROVE Goal /\ todo = {}
    BY <1>12, SetFinishKeeps, SetIterStays, SetStoreStays
  <1>13. ASSUME HS!IterRemove PROVE Goal
    <2>1. SetInv'
      BY <1>13, SetIterRemoveKeeps
    <2>2. PICK e \in Held(set_slots) : e.key = iter_entry /\ Held(set_slots') = Held(set_slots) \ {e}
      BY <1>13, SetIterRemoveKeeps
    <2>3. HS!Dict!Delete(iter_entry)
      BY <2>1, <2>2, SetStoreLoses
    <2>4. iter_entry \in Key
      BY <2>2, HeldIsThere DEF SetInv, HS!Entry
    <2> QED
      BY <2>1, <2>3, <2>4 DEF HS!Dict!Next
  <1>14. ASSUME UNCHANGED <<set_num_slots, set_num_data, set_slots, set_status, iter_slot,
                            iter_entry, todo>>
         PROVE  Goal
    <2>1. SetInv'
      BY <1>14 DEF SetInv, HS!Iterating, HS!ITER_FINISH
    <2> QED
      BY <1>14, <2>1, SetStoreStays
  <1>15. HS!Next \/ UNCHANGED <<set_num_slots, set_num_data, set_slots, set_status, iter_slot,
                                iter_entry, todo>>
    BY DEF Next, SetNext, MapNext, HeapNext, ListNext, set
  <1>16. Goal
    <2> HIDE DEF Goal
    <2> QED
      BY <1>1, <1>2, <1>3, <1>4, <1>5, <1>6, <1>7, <1>8, <1>9, <1>10, <1>11, <1>12, <1>13, <1>14,
         <1>15 DEF HS!Next
  <1>17. SetIterSays
    BY <1>10, <1>11, <1>12 DEF SetIterSays
  <1> QED
    BY <1>16, <1>17

(* A search looks at the slot where the entry is, whatever the table has   *)
(* been through while it grew.                                             *)
THEOREM SetFindsAll == Spec => []SetInPlace
  <1>1. Init => SetInv
    BY SetStarts
  <1>2. SetInv /\ [Next]_<<container, set, map, heap, list>> => SetInv'
    BY SetStep
  <1> QED
    BY <1>1, <1>2, SetInPlaceHolds, PTL DEF Spec

(* An iteration returns every entry that was there once, also those behind *)
(* one that it has removed.                                                *)
THEOREM SetIteratesAll == Spec => SetIterExact
  <1>1. Init => SetInv
    BY SetStarts
  <1>2. SetInv /\ [Next]_<<container, set, map, heap, list>> => SetInv'
    BY SetStep
  <1>3. SetInv /\ [Next]_<<container, set, map, heap, list>> => [SetIterSays]_HS!vars
    BY SetStep
  <1> QED
    BY <1>1, <1>2, <1>3, PTL DEF Spec, SetIterExact, HS!IterExact, SetIterSays

(* The set implements a dictionary in which what was inserted first stays. *)
THEOREM SetImplementsDictionary == Spec => SetIsDictionary
  <1>1. Init => SetInv /\ HS!Dict!Init
    BY SetStarts
  <1>2. SetInv /\ [Next]_<<container, set, map, heap, list>> => SetInv'
    BY SetStep
  <1>3. SetInv /\ [Next]_<<container, set, map, heap, list>> => [HS!Dict!Next]_HS!Store
    BY SetStep
  <1> QED
    BY <1>1, <1>2, <1>3, PTL DEF Spec, SetIsDictionary, HS!IsDictionary, HS!Dict!Spec

-----------------------------------------------------------------------------
(* The hash map *)

LEMMA MapConstants ==
  /\ Hash \in [Key -> Nat] /\ InitSize \subseteq Nat
  /\ DefaultSlots \in Nat \ {0} /\ CritLoadFactor \in Nat \ {0} /\ FirstEntries \in Nat \ {0}
  BY Assumptions DEF HM!HashMapAssumption

(* Arrays of entries that are not written past their end, tables of them,  *)
(* and the entries that they hold                                          *)
MapArray == {a \in [entries : Seq(HM!Entry), alloc : Nat] : Len(a.entries) <= a.alloc}
MapTables(n) == [0 .. n - 1 -> MapArray]
Chains(t) == [x \in DOMAIN t |-> t[x].entries]

LEMMA ChainsAre ==
  ASSUME NEW n, NEW t \in MapTables(n)
  PROVE  /\ Chains(t) \in TablesOf(0 .. n - 1, HM!Entry)
         /\ DOMAIN Chains(t) = 0 .. n - 1 /\ DOMAIN t = 0 .. n - 1
         /\ \A x \in 0 .. n - 1 : Chains(t)[x] = t[x].entries /\ t[x] \in MapArray
  BY DEF MapTables, MapArray, Chains, TablesOf

(* One more entry, and one less: its place is taken by the last. *)
LEMMA MapWith ==
  ASSUME NEW a \in MapArray, NEW e \in HM!Entry
  PROVE  HM!With(a, e) \in MapArray /\ HM!With(a, e).entries = Append(a.entries, e)
  <1>1. a.entries \in Seq(HM!Entry) /\ a.alloc \in Nat /\ Len(a.entries) <= a.alloc
    BY DEF MapArray
  <1>2. Len(a.entries) \in Nat
    BY <1>1
  <1>3. HM!EnsureFree(a) \in Nat /\ Len(a.entries) + 1 <= HM!EnsureFree(a)
    <2>1. CASE a.alloc = 0
      BY <1>1, <1>2, <2>1, MapConstants DEF HM!EnsureFree
    <2>2. CASE a.alloc # 0
      BY <1>1, <1>2, <2>2 DEF HM!EnsureFree
    <2> QED
      BY <2>1, <2>2
  <1>4. Append(a.entries, e) \in Seq(HM!Entry) /\ Len(Append(a.entries, e)) = Len(a.entries) + 1
    BY <1>1
  <1> QED
    BY <1>3, <1>4 DEF HM!With, MapArray

LEMMA MapDrop ==
  ASSUME NEW a \in MapArray, NEW i \in 1 .. Len(a.entries), Unlike(a.entries)
  PROVE  LET c == a.entries
             d == HM!Drop(a, i).entries
         IN  /\ HM!Drop(a, i) \in MapArray /\ d \in Seq(HM!Entry)
             /\ Len(d) = Len(c) - 1 /\ Met(d) = Met(c) \ {c[i]} /\ Unlike(d)
             /\ \A j \in 1 .. Len(c) - 1 : d[j] = IF j = i THEN c[Len(c)] ELSE c[j]
  <1>1. PICK c : c = a.entries
    OBVIOUS
  <1>2. c \in Seq(HM!Entry) /\ Len(c) \in Nat /\ Len(c) <= a.alloc /\ a.alloc \in Nat
        /\ i \in 1 .. Len(c) /\ Unlike(c)
    BY <1>1 DEF MapArray
  <1>3. PICK d : d = SubSeq([c EXCEPT ![i] = c[Len(c)]], 1, Len(c) - 1)
    OBVIOUS
  <1>4. /\ d \in Seq(HM!Entry) /\ Len(d) = Len(c) - 1 /\ Met(d) = Met(c) \ {c[i]} /\ Unlike(d)
        /\ \A j \in 1 .. Len(c) - 1 : d[j] = IF j = i THEN c[Len(c)] ELSE c[j]
    <2>1. LastMoves(c, i, d)
      BY <1>3 DEF LastMoves
    <2> QED
      BY ONLY <1>2, <2>1, LastTakesPlace
  <1>5. HM!Drop(a, i) = [a EXCEPT !.entries = d]
    <2>1. Len([c EXCEPT ![i] = c[Len(c)]]) = Len(c)
      BY <1>2
    <2> QED
      BY <1>1, <1>3, <2>1 DEF HM!Drop
  <1>6. HM!Drop(a, i) \in MapArray /\ HM!Drop(a, i).entries = d
    BY <1>1, <1>2, <1>4, <1>5 DEF MapArray
  <1> QED
    BY <1>1, <1>4, <1>6

(* What is put into a table of arrays is put into its chains. *)
MapPuts(n, t, s, a, u) ==
    t \in MapTables(n) /\ s \in 0 .. n - 1 /\ a \in MapArray /\ u = [t EXCEPT ![s] = a]

LEMMA MapPutsIs ==
  ASSUME NEW n, NEW t, NEW s, NEW a, NEW u, MapPuts(n, t, s, a, u)
  PROVE  /\ u \in MapTables(n) /\ u[s] = a /\ \A x \in (0 .. n - 1) \ {s} : u[x] = t[x]
         /\ Puts(0 .. n - 1, HM!Entry, Chains(t), s, a.entries, Chains(u))
  <1> USE DEF MapPuts
  <1>1. u \in MapTables(n) /\ u[s] = a /\ \A x \in (0 .. n - 1) \ {s} : u[x] = t[x]
    BY DEF MapTables
  <1>2. /\ Chains(t) \in TablesOf(0 .. n - 1, HM!Entry) /\ DOMAIN Chains(t) = 0 .. n - 1
        /\ \A x \in 0 .. n - 1 : Chains(t)[x] = t[x].entries
    BY ChainsAre
  <1>3. DOMAIN Chains(u) = 0 .. n - 1 /\ \A x \in 0 .. n - 1 : Chains(u)[x] = u[x].entries
    BY <1>1, ChainsAre
  <1>4. Chains(u) = [Chains(t) EXCEPT ![s] = a.entries]
    <2>1. PICK f : f = [Chains(t) EXCEPT ![s] = a.entries]
      OBVIOUS
    <2>2. DOMAIN f = 0 .. n - 1 /\ \A x \in 0 .. n - 1 : f[x] = IF x = s THEN a.entries ELSE Chains(t)[x]
      BY <1>2, <2>1
    <2>3. \A x \in 0 .. n - 1 : f[x] = Chains(u)[x]
      BY <1>1, <1>2, <1>3, <2>2
    <2>4. f = [x \in 0 .. n - 1 |-> f[x]] /\ Chains(u) = [x \in 0 .. n - 1 |-> Chains(u)[x]]
      BY <1>2, <1>3, <2>1 DEF Chains
    <2> QED
      BY <2>1, <2>3, <2>4
  <1> QED
    BY <1>1, <1>2, <1>4 DEF Puts

(* One more entry in a table, and one less *)
MapAdds(n, t, s, e, u) ==
    t \in MapTables(n) /\ s \in 0 .. n - 1 /\ u = [t EXCEPT ![s] = HM!With(t[s], e)]
MapDrops(n, t, s, i, u) ==
    t \in MapTables(n) /\ s \in 0 .. n - 1 /\ u = [t EXCEPT ![s] = HM!Drop(t[s], i)]

LEMMA MapGets ==
  ASSUME NEW n, NEW t, NEW s, NEW u, NEW e \in HM!Entry, MapAdds(n, t, s, e, u),
         Good(Chains(t)), \A f \in Held(Chains(t)) : f.key # e.key
  PROVE  /\ u \in MapTables(n) /\ Good(Chains(u))
         /\ Held(Chains(u)) = Held(Chains(t)) \cup {e}
         /\ Met(Chains(u)[s]) = Met(Chains(t)[s]) \cup {e}
         /\ \A x \in (0 .. n - 1) \ {s} : u[x] = t[x] /\ Chains(u)[x] = Chains(t)[x]
  <1>1. PICK a : a = HM!With(t[s], e)
    OBVIOUS
  <1>2. u = [t EXCEPT ![s] = a] /\ t \in MapTables(n) /\ s \in 0 .. n - 1
    BY <1>1 DEF MapAdds
  <1>3. t[s] \in MapArray /\ Chains(t)[s] = t[s].entries
    BY <1>2, ChainsAre
  <1>4. a \in MapArray /\ a.entries = Append(t[s].entries, e)
    BY <1>1, <1>3, MapWith
  <1>5. /\ u \in MapTables(n) /\ \A x \in (0 .. n - 1) \ {s} : u[x] = t[x]
        /\ Puts(0 .. n - 1, HM!Entry, Chains(t), s, a.entries, Chains(u))
    <2>1. MapPuts(n, t, s, a, u)
      BY <1>2, <1>4 DEF MapPuts
    <2> QED
      BY <2>1, MapPutsIs
  <1>6. PICK b, v, d, D, E :
          /\ b = Chains(t) /\ v = Chains(u) /\ d = a.entries /\ D = 0 .. n - 1 /\ E = HM!Entry
    OBVIOUS
  <1>7. Puts(D, E, b, s, d, v) /\ Good(b) /\ e \in E /\ TakesIn(b[s], e, d)
        /\ \A f \in Held(b) : f.key # e.key
    BY <1>3, <1>4, <1>5, <1>6 DEF TakesIn
  <1>8. /\ v \in TablesOf(D, E) /\ Good(v) /\ Held(v) = Held(b) \cup {e}
        /\ Met(v[s]) = Met(b[s]) \cup {e} /\ \A x \in D \ {s} : v[x] = b[x]
    BY ONLY <1>7, TableGets
  <1> QED
    BY <1>5, <1>6, <1>8

LEMMA MapLoses ==
  ASSUME NEW n, NEW t, NEW s, NEW i, NEW u, MapDrops(n, t, s, i, u),
         i \in 1 .. Len(t[s].entries), Good(Chains(t))
  PROVE  LET c == t[s].entries
         IN  /\ u \in MapTables(n) /\ Good(Chains(u))
             /\ Held(Chains(u)) = Held(Chains(t)) \ {c[i]} /\ c[i] \in Held(Chains(t))
             /\ Len(u[s].entries) = Len(c) - 1
             /\ \A j \in 1 .. Len(c) - 1 : u[s].entries[j] = IF j = i THEN c[Len(c)] ELSE c[j]
             /\ \A x \in (0 .. n - 1) \ {s} : u[x] = t[x] /\ Chains(u)[x] = Chains(t)[x]
  <1>1. PICK a : a = HM!Drop(t[s], i)
    OBVIOUS
  <1>2. u = [t EXCEPT ![s] = a] /\ t \in MapTables(n) /\ s \in 0 .. n - 1
    BY <1>1 DEF MapDrops
  <1>3. t[s] \in MapArray /\ Chains(t)[s] = t[s].entries /\ DOMAIN Chains(t) = 0 .. n - 1
    BY <1>2, ChainsAre
  <1>4. PICK c : c = t[s].entries
    OBVIOUS
  <1>5. Unlike(c) /\ c[i] \in Met(c)
    BY <1>2, <1>3, <1>4 DEF Good, Met
  <1>6. /\ a \in MapArray /\ a.entries \in Seq(HM!Entry) /\ Len(a.entries) = Len(c) - 1
        /\ Met(a.entries) = Met(c) \ {c[i]} /\ Unlike(a.entries)
        /\ \A j \in 1 .. Len(c) - 1 : a.entries[j] = IF j = i THEN c[Len(c)] ELSE c[j]
    <2>1. PICK r : r = t[s]
      OBVIOUS
    <2>2. r \in MapArray /\ i \in 1 .. Len(r.entries) /\ Unlike(r.entries)
      BY <1>3, <1>4, <1>5, <2>1
    <2>3. PICK d : d = HM!Drop(r, i).entries
      OBVIOUS
    <2>4. /\ d \in Seq(HM!Entry) /\ Len(d) = Len(r.entries) - 1
          /\ Met(d) = Met(r.entries) \ {r.entries[i]} /\ Unlike(d)
          /\ \A j \in 1 .. Len(r.entries) - 1 :
               d[j] = IF j = i THEN r.entries[Len(r.entries)] ELSE r.entries[j]
      BY ONLY <2>2, <2>3, MapDrop
    <2>5. a.entries = d
      BY <1>1, <2>1, <2>3
    <2>6. HM!Drop(r, i) \in MapArray
      BY ONLY <2>2, MapDrop
    <2> QED
      BY <1>1, <1>4, <2>1, <2>4, <2>5, <2>6
  <1>7. /\ u \in MapTables(n) /\ u[s] = a /\ \A x \in (0 .. n - 1) \ {s} : u[x] = t[x]
        /\ Puts(0 .. n - 1, HM!Entry, Chains(t), s, a.entries, Chains(u))
    <2>1. MapPuts(n, t, s, a, u)
      BY <1>2, <1>6 DEF MapPuts
    <2> QED
      BY <2>1, MapPutsIs
  <1>8. PICK b, v, d, D, E :
          /\ b = Chains(t) /\ v = Chains(u) /\ d = a.entries /\ D = 0 .. n - 1 /\ E = HM!Entry
    OBVIOUS
  <1>9. Puts(D, E, b, s, d, v) /\ Good(b) /\ d \in Seq(E) /\ Unlike(d) /\ Met(d) \subseteq Met(b[s])
    BY <1>3, <1>4, <1>6, <1>7, <1>8
  <1>10. /\ v \in TablesOf(D, E) /\ Good(v) /\ Held(v) = Held(b) \ (Met(b[s]) \ Met(d))
         /\ v[s] = d /\ \A x \in D \ {s} : v[x] = b[x]
    BY ONLY <1>9, TableLoses
  <1>11. Met(b[s]) \ Met(d) = {c[i]}
    BY <1>3, <1>4, <1>5, <1>6, <1>8
  <1>12. c[i] \in Held(b)
    BY <1>2, <1>3, <1>4, <1>5, <1>8 DEF Held
  <1> QED
    BY <1>4, <1>6, <1>7, <1>8, <1>10, <1>11, <1>12

(* One round of the loop of HM!MoveOut, and what holds after j of them: no *)
(* entry is lost, those before i are at home, and so is what was moved.    *)
MapRound(n, s, x) ==
    LET to == Hash[x.t[s].entries[x.i].key] % n
    IN  IF to = s THEN [x EXCEPT !.i = @ + 1]
        ELSE [x EXCEPT !.t = HM!Moved(@, s, to, x.i)]

MapMoving(n, t, s, x, j) ==
    /\ x \in [t : MapTables(n), i : Nat \ {0}]
    /\ Good(Chains(x.t)) /\ Held(Chains(x.t)) = Held(Chains(t))
    /\ Len(x.t[s].entries) = (x.i - 1) + (Len(t[s].entries) - j)
    /\ \A p \in 1 .. x.i - 1 : Hash[x.t[s].entries[p].key] % n = s
    /\ \A y \in (0 .. n - 1) \ {s} : \A e \in Met(Chains(x.t)[y]) :
         Hash[e.key] % n = y \/ e \in Met(Chains(t)[y])

LEMMA MapMoveOne ==
  ASSUME NEW n \in Nat \ {0}, NEW t \in MapTables(n), NEW s \in 0 .. n - 1,
         NEW j \in 1 .. Len(t[s].entries), NEW x, MapMoving(n, t, s, x, j - 1)
  PROVE  MapMoving(n, t, s, MapRound(n, s, x), j)
  <1>1. PICK w : w = x.t
    OBVIOUS
  <1>2. PICK i : i = x.i
    OBVIOUS
  <1>3. PICK c : c = w[s].entries
    OBVIOUS
  <1>4. PICK k : k = Len(t[s].entries)
    OBVIOUS
  <1>5. /\ w \in MapTables(n) /\ i \in Nat \ {0} /\ x = [t |-> w, i |-> i]
        /\ Good(Chains(w)) /\ Held(Chains(w)) = Held(Chains(t))
        /\ Len(c) = (i - 1) + (k - (j - 1))
        /\ \A p \in 1 .. i - 1 : Hash[c[p].key] % n = s
        /\ \A y \in (0 .. n - 1) \ {s} : \A e \in Met(Chains(w)[y]) :
             Hash[e.key] % n = y \/ e \in Met(Chains(t)[y])
    BY <1>1, <1>2, <1>3, <1>4 DEF MapMoving
  <1>6. k \in Nat /\ j \in 1 .. k
    <2>1. t[s] \in MapArray
      BY ChainsAre
    <2> QED
      BY <1>4, <2>1 DEF MapArray
  <1>7. c \in Seq(HM!Entry) /\ Len(c) \in Nat /\ i \in 1 .. Len(c) /\ w[s] \in MapArray
    <2>1. w[s] \in MapArray
      BY <1>5, ChainsAre
    <2>2. c \in Seq(HM!Entry) /\ Len(c) \in Nat
      BY <1>3, <2>1 DEF MapArray
    <2> QED
      BY <1>5, <1>6, <2>1, <2>2
  <1>8. PICK e : e = c[i]
    OBVIOUS
  <1>9. PICK to : to = Hash[e.key] % n
    OBVIOUS
  <1>10. e \in HM!Entry /\ to \in 0 .. n - 1
    <2>1. e \in HM!Entry
      BY <1>7, <1>8
    <2>2. e.key \in Key
      BY <2>1 DEF HM!Entry
    <2> QED
      BY <1>9, <2>1, <2>2, SlotIsThere
  <1>11. CASE to = s
    <2>1. MapRound(n, s, x) = [t |-> w, i |-> i + 1]
      BY <1>3, <1>5, <1>8, <1>9, <1>11 DEF MapRound
    <2>2. Len(c) = (i + 1 - 1) + (k - j)
      BY <1>5, <1>6
    <2>3. ASSUME NEW p \in 1 .. i + 1 - 1 PROVE Hash[c[p].key] % n = s
      <3>1. CASE p = i
        BY <1>8, <1>9, <1>11, <3>1
      <3>2. CASE p # i
        <4>1. p \in 1 .. i - 1
          BY <1>5, <3>2
        <4> QED
          BY <4>1, <1>5
      <3> QED
        BY <3>1, <3>2
    <2>4. PICK r : r = MapRound(n, s, x)
      OBVIOUS
    <2>5. r \in [t : MapTables(n), i : Nat \ {0}] /\ r.t = w /\ r.i = i + 1
      <3>1. i + 1 \in Nat \ {0}
        BY <1>5
      <3> QED
        BY <1>5, <2>1, <2>4, <3>1
    <2>6. MapMoving(n, t, s, r, j)
      <3>0. r.t[s].entries = c
        BY <1>3, <2>5
      <3>3. r.i - 1 = i + 1 - 1
        BY <1>5, <2>5
      <3>1. Len(r.t[s].entries) = (r.i - 1) + (Len(t[s].entries) - j)
        BY <3>0, <3>3, <1>4, <1>6, <2>2
      <3>2. \A p \in 1 .. r.i - 1 : Hash[r.t[s].entries[p].key] % n = s
        BY <3>0, <3>3, <2>3
      <3> QED
        BY <1>5, <2>5, <3>1, <3>2 DEF MapMoving
    <2> QED
      BY <2>4, <2>6
  <1>12. CASE to # s
    <2>1. PICK v : v = [w EXCEPT ![s] = HM!Drop(w[s], i)]
      OBVIOUS
    <2>2. PICK u : u = [v EXCEPT ![to] = HM!With(v[to], e)]
      OBVIOUS
    <2>3. /\ v \in MapTables(n) /\ Good(Chains(v))
          /\ Held(Chains(v)) = Held(Chains(w)) \ {e} /\ e \in Held(Chains(w))
          /\ Len(v[s].entries) = Len(c) - 1
          /\ \A p \in 1 .. Len(c) - 1 : v[s].entries[p] = IF p = i THEN c[Len(c)] ELSE c[p]
          /\ \A y \in (0 .. n - 1) \ {s} : v[y] = w[y] /\ Chains(v)[y] = Chains(w)[y]
      <3>1. MapDrops(n, w, s, i, v) /\ i \in 1 .. Len(w[s].entries) /\ Good(Chains(w))
        BY <1>3, <1>5, <1>7, <2>1 DEF MapDrops
      <3>2. LET b == w[s].entries
            IN  /\ v \in MapTables(n) /\ Good(Chains(v))
                /\ Held(Chains(v)) = Held(Chains(w)) \ {b[i]} /\ b[i] \in Held(Chains(w))
                /\ Len(v[s].entries) = Len(b) - 1
                /\ \A p \in 1 .. Len(b) - 1 : v[s].entries[p] = IF p = i THEN b[Len(b)] ELSE b[p]
                /\ \A y \in (0 .. n - 1) \ {s} : v[y] = w[y] /\ Chains(v)[y] = Chains(w)[y]
        BY ONLY <3>1, MapLoses
      <3> QED
        BY <1>3, <1>8, <3>2
    <2>4. /\ u \in MapTables(n) /\ Good(Chains(u)) /\ Held(Chains(u)) = Held(Chains(v)) \cup {e}
          /\ Met(Chains(u)[to]) = Met(Chains(v)[to]) \cup {e}
          /\ \A y \in (0 .. n - 1) \ {to} : u[y] = v[y] /\ Chains(u)[y] = Chains(v)[y]
      <3>1. MapAdds(n, v, to, e, u) /\ Good(Chains(v)) /\ e \in HM!Entry
        BY <1>10, <2>2, <2>3 DEF MapAdds
      <3>3. \A f \in Held(Chains(v)) : f.key # e.key
        <4>1. ASSUME NEW f \in Held(Chains(v)), f.key = e.key PROVE FALSE
          <5>1. f = e
            BY <1>5, <2>3, <4>1, HeldOnce
          <5> QED
            BY <5>1, <2>3
        <4> QED
          BY <4>1
      <3> QED
        BY ONLY <3>1, <3>3, MapGets
    <2>5. u = HM!Moved(w, s, to, i)
      <3>1. PICK a : a = HM!With(w[to], e)
        OBVIOUS
      <3>2. PICK b : b = HM!Drop(w[s], i)
        OBVIOUS
      <3>3. v[to] = w[to]
        BY <1>10, <1>12, <2>3
      <3>4. u = [[w EXCEPT ![s] = b] EXCEPT ![to] = a]
        BY <2>1, <2>2, <3>1, <3>2, <3>3
      <3>5. w = [y \in 0 .. n - 1 |-> w[y]]
        BY <1>5 DEF MapTables
      <3>6. [[w EXCEPT ![s] = b] EXCEPT ![to] = a] = [[w EXCEPT ![to] = a] EXCEPT ![s] = b]
        BY <1>10, <1>12, <3>5
      <3>7. [w EXCEPT ![to] = a][s] = w[s]
        BY <1>10, <1>12, <3>5
      <3>8. HM!Moved(w, s, to, i) = [[w EXCEPT ![to] = a] EXCEPT ![s] = b]
        BY <1>3, <1>8, <3>1, <3>2, <3>7 DEF HM!Moved
      <3> QED
        BY <3>4, <3>6, <3>8
    <2>6. MapRound(n, s, x) = [t |-> u, i |-> i]
      <3>1. Hash[x.t[s].entries[x.i].key] % n = to /\ x.t = w /\ x.i = i
        BY <1>1, <1>2, <1>3, <1>8, <1>9
      <3>2. MapRound(n, s, x) = [x EXCEPT !.t = u]
        BY <1>12, <2>5, <3>1 DEF MapRound
      <3> QED
        BY <1>5, <3>2
    <2>7. Len(u[s].entries) = (i - 1) + (k - j) /\ u[s] = v[s]
      <3>1. u[s] = v[s]
        BY <1>12, <2>4
      <3>2. Len(c) - 1 = (i - 1) + (k - j)
        BY <1>5, <1>6
      <3> QED
        BY <2>3, <3>1, <3>2
    <2>8. ASSUME NEW p \in 1 .. i - 1 PROVE Hash[u[s].entries[p].key] % n = s
      <3>1. p \in 1 .. Len(c) - 1 /\ p # i
        BY <1>7
      <3>2. u[s].entries[p] = c[p]
        BY <2>3, <2>7, <3>1
      <3> QED
        BY <1>5, <3>2
    <2>9. ASSUME NEW y \in (0 .. n - 1) \ {s}, NEW f \in Met(Chains(u)[y])
          PROVE  Hash[f.key] % n = y \/ f \in Met(Chains(t)[y])
      <3>1. CASE f = e /\ y = to
        BY <1>9, <3>1
      <3>2. CASE f \in Met(Chains(w)[y])
        BY <1>5, <3>2
      <3>3. Met(Chains(u)[y]) = Met(Chains(w)[y]) \/ (y = to /\ Met(Chains(u)[y]) = Met(Chains(w)[y]) \cup {e})
        BY <2>3, <2>4
      <3> QED
        BY <3>1, <3>2, <3>3
    <2>10. Held(Chains(u)) = Held(Chains(t))
      BY <1>5, <2>3, <2>4
    <2>11. PICK r : r = MapRound(n, s, x)
      OBVIOUS
    <2>12. r \in [t : MapTables(n), i : Nat \ {0}] /\ r.t = u /\ r.i = i
      BY <1>5, <2>4, <2>6, <2>11
    <2>13. MapMoving(n, t, s, r, j)
      BY <1>4, <2>4, <2>7, <2>8, <2>9, <2>10, <2>12 DEF MapMoving
    <2> QED
      BY <2>11, <2>13
  <1> QED
    BY <1>11, <1>12

(* HM!MoveOut keeps what the table holds, and the entries that are         *)
(* afterwards in a slot belong there, or had been in it before.            *)
LEMMA MapMoveOut ==
  ASSUME NEW n \in Nat \ {0}, NEW t \in MapTables(n), Good(Chains(t)), NEW s \in 0 .. n - 1
  PROVE  LET u == HM!MoveOut(s, n, t)
         IN  /\ u \in MapTables(n) /\ Good(Chains(u)) /\ Held(Chains(u)) = Held(Chains(t))
             /\ \A y \in 0 .. n - 1 : \A e \in Met(Chains(u)[y]) :
                  Hash[e.key] % n = y \/ (y # s /\ e \in Met(Chains(t)[y]))
  <1> DEFINE k == Len(t[s].entries)
             base == [t |-> t, i |-> 1]
             LoopTo(f, m) == f = [j \in 0 .. m |-> IF j = 0 THEN base ELSE MapRound(n, s, f[j - 1])]
             after == CHOOSE f : LoopTo(f, k)
  <1>1. HM!MoveOut(s, n, t) = after[k].t
    BY DEF HM!MoveOut, MapRound
  <1>2. k \in Nat
    <2>1. t[s] \in MapArray
      BY ChainsAre
    <2> QED
      BY <2>1 DEF MapArray
  <1> DEFINE Bad == {m \in Nat : ~ \E f : LoopTo(f, m)}
  <1>3. Bad = {}
    <2> HIDE DEF base
    <2>1. SUFFICES ASSUME Bad # {} PROVE FALSE
      OBVIOUS
    <2>2. PICK m \in Bad : \A j \in Bad : m <= j
      <3>1. Bad \subseteq Nat
        OBVIOUS
      <3> HIDE DEF Bad
      <3> QED
        BY <2>1, <3>1, LeastOf
    <2>3. m \in Nat /\ ~ \E f : LoopTo(f, m)
      OBVIOUS
    <2>4. m # 0
      <3>1. LoopTo([j \in 0 .. 0 |-> base], 0)
        OBVIOUS
      <3> QED
        BY <2>3, <3>1
    <2>5. PICK f : LoopTo(f, m - 1)
      <3>1. m - 1 \in Nat /\ ~(m <= m - 1)
        BY <2>3, <2>4
      <3>2. m - 1 \notin Bad
        <4> HIDE DEF Bad
        <4> QED
          BY <2>2, <3>1
      <3> QED
        BY <3>1, <3>2
    <2> DEFINE g == [j \in 0 .. m |-> IF j < m THEN f[j] ELSE MapRound(n, s, f[m - 1])]
    <2>6. LoopTo(g, m)
      <3>1. ASSUME NEW j \in 0 .. m PROVE g[j] = IF j = 0 THEN base ELSE MapRound(n, s, g[j - 1])
        <4>1. \A h \in 0 .. m - 1 : f[h] = IF h = 0 THEN base ELSE MapRound(n, s, f[h - 1])
          BY <2>5
        <4>2. j # 0 => j - 1 \in 0 .. m /\ j - 1 < m
          BY <2>3
        <4> QED
          BY <2>3, <2>4, <4>1, <4>2
      <3>2. g = [j \in 0 .. m |-> g[j]]
        OBVIOUS
      <3> HIDE DEF g
      <3> QED
        BY <3>1, <3>2
    <2> QED
      BY <2>3, <2>6
  <1>4. LoopTo(after, k)
    <2>1. \E f : LoopTo(f, k)
      <3> HIDE DEF LoopTo
      <3> QED
        BY <1>2, <1>3
    <2> HIDE DEF LoopTo
    <2> QED
      BY <2>1
  <1>5. /\ after[0] = base
        /\ \A j \in 1 .. k : after[j] = MapRound(n, s, after[j - 1])
    <2> HIDE DEF base, after
    <2>1. \A j \in 0 .. k : after[j] = IF j = 0 THEN base ELSE MapRound(n, s, after[j - 1])
      BY <1>4
    <2> QED
      BY <1>2, <2>1
  <1> HIDE DEF after, LoopTo, Bad
  <1>6. MapMoving(n, t, s, after[0], 0)
    <2>1. after[0] \in [t : MapTables(n), i : Nat \ {0}] /\ after[0].t = t /\ after[0].i = 1
      BY <1>5
    <2>2. k = (1 - 1) + (k - 0) /\ 1 .. 1 - 1 = {}
      BY <1>2
    <2> QED
      BY <2>1, <2>2 DEF MapMoving
  <1>7. ASSUME NEW j \in 1 .. k, MapMoving(n, t, s, after[j - 1], j - 1)
        PROVE  MapMoving(n, t, s, after[j], j)
    BY <1>5, <1>7, MapMoveOne
  <1>8. MapMoving(n, t, s, after[k], k)
    <2> DEFINE Wrong == {j \in 0 .. k : ~MapMoving(n, t, s, after[j], j)}
    <2>1. SUFFICES ASSUME Wrong # {} PROVE FALSE
      BY <1>2
    <2>2. PICK j \in Wrong : \A h \in Wrong : j <= h
      <3>1. Wrong \subseteq Nat
        BY <1>2
      <3> HIDE DEF Wrong
      <3> QED
        BY <2>1, <3>1, LeastOf
    <2>3. j \in 0 .. k /\ ~MapMoving(n, t, s, after[j], j) /\ j # 0
      BY <1>6
    <2>4. j \in 1 .. k /\ j - 1 \in 0 .. k /\ ~(j <= j - 1)
      BY <1>2, <2>3
    <2>5. MapMoving(n, t, s, after[j - 1], j - 1)
      <3>1. j - 1 \notin Wrong
        <4> HIDE DEF Wrong
        <4> QED
          BY <2>2, <2>4
      <3> QED
        BY <3>1, <2>4
    <2> QED
      BY <2>3, <2>4, <2>5, <1>7
  <1>9. PICK u : u = after[k].t
    OBVIOUS
  <1>10. PICK i : i = after[k].i
    OBVIOUS
  <1>11. /\ u \in MapTables(n) /\ i \in Nat \ {0} /\ Good(Chains(u)) /\ Held(Chains(u)) = Held(Chains(t))
         /\ Len(u[s].entries) = (i - 1) + (k - k)
         /\ \A p \in 1 .. i - 1 : Hash[u[s].entries[p].key] % n = s
         /\ \A y \in (0 .. n - 1) \ {s} : \A e \in Met(Chains(u)[y]) :
              Hash[e.key] % n = y \/ e \in Met(Chains(t)[y])
    BY <1>8, <1>9, <1>10 DEF MapMoving
  <1>12. ASSUME NEW y \in 0 .. n - 1, NEW e \in Met(Chains(u)[y])
         PROVE  Hash[e.key] % n = y \/ (y # s /\ e \in Met(Chains(t)[y]))
    <2>1. CASE y = s
      <3>1. Chains(u)[s] = u[s].entries
        BY <1>11, ChainsAre
      <3>2. PICK p \in 1 .. Len(u[s].entries) : e = u[s].entries[p]
        BY <2>1, <3>1 DEF Met
      <3>3. p \in 1 .. i - 1
        BY <1>2, <1>11
      <3> QED
        BY <2>1, <3>2, <3>3, <1>11
    <2>2. CASE y # s
      BY <1>11, <2>2
    <2> QED
      BY <2>1, <2>2
  <1> QED
    BY <1>1, <1>9, <1>11, <1>12

(* HM!Rehash keeps what the table holds and puts every entry in its place: *)
(* no slot is passed over while the table grows under the loop.            *)
LEMMA MapLarger ==
  ASSUME NEW m \in Nat \ {0}, NEW n \in Nat \ {0}, m <= n, NEW t \in MapTables(m),
         Good(Chains(t))
  PROVE  LET u == HM!Larger(t, m, n)
         IN  /\ u \in MapTables(n) /\ Good(Chains(u)) /\ Held(Chains(u)) = Held(Chains(t))
             /\ \A x \in 0 .. n - 1 : \A e \in Met(Chains(u)[x]) : x < m
  <1> DEFINE u == HM!Larger(t, m, n)
  <1>1. \A x \in 0 .. n - 1 : u[x] = IF x < m THEN t[x] ELSE HM!NoEntries
    BY DEF HM!Larger
  <1>2. /\ DOMAIN Chains(t) = 0 .. m - 1
        /\ \A x \in 0 .. m - 1 : Chains(t)[x] = t[x].entries /\ t[x] \in MapArray
    BY ChainsAre
  <1>3. HM!NoEntries \in MapArray /\ HM!NoEntries.entries = <<>>
    BY DEF HM!NoEntries, MapArray
  <1> HIDE DEF u
  <1>4. u \in MapTables(n)
    <2>1. ASSUME NEW x \in 0 .. n - 1 PROVE u[x] \in MapArray
      <3>1. CASE x < m
        <4>1. x \in 0 .. m - 1 /\ u[x] = t[x]
          BY <1>1, <3>1
        <4> QED
          BY <4>1, <1>2
      <3>2. CASE ~(x < m)
        BY <1>1, <1>3, <3>2
      <3> QED
        BY <3>1, <3>2
    <2>2. u = [x \in 0 .. n - 1 |-> u[x]]
      BY DEF HM!Larger, u
    <2> QED
      BY <2>1, <2>2 DEF MapTables
  <1>5. DOMAIN Chains(u) = 0 .. n - 1 /\ \A x \in 0 .. n - 1 : Chains(u)[x] = u[x].entries
    BY <1>4, ChainsAre
  <1>6. Met(<<>>) = {} /\ Unlike(<<>>)
    BY DEF Met, Unlike
  <1>7. ASSUME NEW x \in 0 .. n - 1, NEW e \in Met(Chains(u)[x])
        PROVE  x < m /\ x \in 0 .. m - 1 /\ Chains(u)[x] = Chains(t)[x]
    <2>1. x < m
      BY <1>1, <1>3, <1>5, <1>6
    <2>2. x \in 0 .. m - 1 /\ u[x] = t[x]
      BY <1>1, <2>1
    <2> QED
      BY <1>2, <1>5, <2>1, <2>2
  <1>8. ASSUME NEW x \in 0 .. m - 1 PROVE x \in 0 .. n - 1 /\ Chains(u)[x] = Chains(t)[x]
    <2>1. x \in 0 .. n - 1 /\ u[x] = t[x]
      BY <1>1
    <2> QED
      BY <1>2, <1>5, <2>1
  <1>9. Held(Chains(u)) = Held(Chains(t))
    <2>1. ASSUME NEW e \in Held(Chains(u)) PROVE e \in Held(Chains(t))
      <3>1. PICK x \in 0 .. n - 1 : e \in Met(Chains(u)[x])
        BY <1>5 DEF Held
      <3> QED
        BY <3>1, <1>2, <1>7 DEF Held
    <2>2. ASSUME NEW e \in Held(Chains(t)) PROVE e \in Held(Chains(u))
      <3>1. PICK x \in 0 .. m - 1 : e \in Met(Chains(t)[x])
        BY <1>2 DEF Held
      <3> QED
        BY <3>1, <1>5, <1>8 DEF Held
    <2> QED
      BY <2>1, <2>2
  <1>10. Good(Chains(u))
    <2>1. ASSUME NEW x \in 0 .. n - 1 PROVE Unlike(Chains(u)[x])
      <3>1. CASE x < m
        <4>1. x \in 0 .. m - 1
          BY <3>1
        <4> QED
          BY <4>1, <1>2, <1>8 DEF Good
      <3>2. CASE ~(x < m)
        <4>1. Chains(u)[x] = <<>>
          BY <1>1, <1>3, <1>5, <3>2
        <4> QED
          BY <4>1, <1>6
      <3> QED
        BY <3>1, <3>2
    <2>2. ASSUME NEW x \in 0 .. n - 1, NEW y \in 0 .. n - 1,
                 NEW e \in Met(Chains(u)[x]), NEW f \in Met(Chains(u)[y]), e.key = f.key
          PROVE  x = y
      BY <1>2, <1>7, <2>2 DEF Good
    <2> QED
      BY <2>1, <2>2, <1>5 DEF Good
  <1> QED
    BY <1>4, <1>7, <1>9, <1>10 DEF u

LEMMA MapRehash ==
  ASSUME NEW m \in Nat \ {0}, NEW n \in Nat \ {0}, m <= n, NEW t \in MapTables(m), Good(Chains(t))
  PROVE  LET u == HM!Rehash(t, m, n)
         IN  /\ u \in MapTables(n) /\ Good(Chains(u)) /\ Held(Chains(u)) = Held(Chains(t))
             /\ \A x \in 0 .. n - 1 : \A e \in Met(Chains(u)[x]) : Hash[e.key] % n = x
  <1> DEFINE base == HM!Larger(t, m, n)
             Step(w, s) == HM!MoveOut(s - 1, n, w)
             LoopTo(f, j) == f = [s \in 0 .. j |-> IF s = 0 THEN base ELSE Step(f[s - 1], s)]
             after == CHOOSE f : LoopTo(f, m)
  <1>1. HM!Rehash(t, m, n) = after[m]
    BY DEF HM!Rehash
  <1> DEFINE Bad == {j \in Nat : ~ \E f : LoopTo(f, j)}
  <1>2. Bad = {}
    <2> HIDE DEF Step, base
    <2>1. SUFFICES ASSUME Bad # {} PROVE FALSE
      OBVIOUS
    <2>2. PICK j \in Bad : \A i \in Bad : j <= i
      <3>1. Bad \subseteq Nat
        OBVIOUS
      <3> HIDE DEF Bad
      <3> QED
        BY <2>1, <3>1, LeastOf
    <2>3. j \in Nat /\ ~ \E f : LoopTo(f, j)
      OBVIOUS
    <2>4. j # 0
      <3>1. LoopTo([s \in 0 .. 0 |-> base], 0)
        OBVIOUS
      <3> QED
        BY <2>3, <3>1
    <2>5. PICK f : LoopTo(f, j - 1)
      <3>1. j - 1 \in Nat /\ ~(j <= j - 1)
        BY <2>3, <2>4
      <3>2. j - 1 \notin Bad
        <4> HIDE DEF Bad
        <4> QED
          BY <2>2, <3>1
      <3> QED
        BY <3>1, <3>2
    <2> DEFINE g == [s \in 0 .. j |-> IF s < j THEN f[s] ELSE Step(f[j - 1], j)]
    <2>6. LoopTo(g, j)
      <3>1. ASSUME NEW s \in 0 .. j PROVE g[s] = IF s = 0 THEN base ELSE Step(g[s - 1], s)
        <4>1. \A i \in 0 .. j - 1 : f[i] = IF i = 0 THEN base ELSE Step(f[i - 1], i)
          BY <2>5
        <4>2. s # 0 => s - 1 \in 0 .. j /\ s - 1 < j
          BY <2>3
        <4> QED
          BY <2>3, <2>4, <4>1, <4>2
      <3>2. g = [s \in 0 .. j |-> g[s]]
        OBVIOUS
      <3> HIDE DEF g
      <3> QED
        BY <3>1, <3>2
    <2> QED
      BY <2>3, <2>6
  <1>3. LoopTo(after, m)
    <2>1. \E f : LoopTo(f, m)
      <3> HIDE DEF LoopTo
      <3> QED
        BY <1>2
    <2> HIDE DEF LoopTo
    <2> QED
      BY <2>1
  <1>4. /\ after[0] = base
        /\ \A s \in 1 .. m : after[s] = Step(after[s - 1], s)
    <2> HIDE DEF base, Step, after
    <2>1. \A s \in 0 .. m : after[s] = IF s = 0 THEN base ELSE Step(after[s - 1], s)
      BY <1>3
    <2> QED
      BY <2>1
  <1> HIDE DEF after, LoopTo, Bad
  <1> DEFINE Ok(s) == /\ after[s] \in MapTables(n) /\ Good(Chains(after[s])) /\ Held(Chains(after[s])) = Held(Chains(t))
                      /\ \A x \in 0 .. n - 1 : \A e \in Met(Chains(after[s])[x]) :
                           Hash[e.key] % n = x \/ (s <= x /\ x < m)
  <1>5. Ok(0)
    <2>1. /\ base \in MapTables(n) /\ Good(Chains(base)) /\ Held(Chains(base)) = Held(Chains(t))
          /\ \A x \in 0 .. n - 1 : \A e \in Met(Chains(base)[x]) : x < m
      BY MapLarger
    <2> HIDE DEF base
    <2>2. /\ after[0] \in MapTables(n) /\ Good(Chains(after[0])) /\ Held(Chains(after[0])) = Held(Chains(t))
          /\ \A x \in 0 .. n - 1 : \A e \in Met(Chains(after[0])[x]) : x < m
      BY <1>4, <2>1
    <2>3. ASSUME NEW x \in 0 .. n - 1, NEW e \in Met(Chains(after[0])[x])
          PROVE  Hash[e.key] % n = x \/ (0 <= x /\ x < m)
      BY <2>2
    <2> QED
      BY <2>2, <2>3
  <1>6. ASSUME NEW s \in 1 .. m, Ok(s - 1) PROVE Ok(s)
    <2> DEFINE w == after[s - 1]
    <2>1. s - 1 \in 0 .. n - 1 /\ w \in MapTables(n) /\ Good(Chains(w)) /\ after[s] = HM!MoveOut(s - 1, n, w)
      BY <1>4, <1>6
    <2>2. \A x \in 0 .. n - 1 : \A e \in Met(Chains(w)[x]) :
            Hash[e.key] % n = x \/ (s - 1 <= x /\ x < m)
      BY <1>6
    <2>3. Held(Chains(w)) = Held(Chains(t))
      BY <1>6
    <2> HIDE DEF w
    <2>4. /\ after[s] \in MapTables(n) /\ Good(Chains(after[s])) /\ Held(Chains(after[s])) = Held(Chains(w))
          /\ \A x \in 0 .. n - 1 : \A e \in Met(Chains(after[s])[x]) :
               Hash[e.key] % n = x \/ (x # s - 1 /\ e \in Met(Chains(w)[x]))
      BY <2>1, MapMoveOut
    <2>5. ASSUME NEW x \in 0 .. n - 1, NEW e \in Met(Chains(after[s])[x]), Hash[e.key] % n # x
          PROVE  s <= x /\ x < m
      <3>1. x # s - 1 /\ s - 1 <= x /\ x < m
        BY <2>2, <2>4, <2>5
      <3> QED
        BY <3>1
    <2> QED
      BY <2>3, <2>4, <2>5
  <1>7. Ok(m)
    <2> HIDE DEF Ok
    <2> DEFINE Wrong == {s \in 0 .. m : ~Ok(s)}
    <2>1. SUFFICES ASSUME Wrong # {} PROVE FALSE
      OBVIOUS
    <2>2. PICK s \in Wrong : \A j \in Wrong : s <= j
      <3>1. Wrong \subseteq Nat
        OBVIOUS
      <3> HIDE DEF Wrong
      <3> QED
        BY <2>1, <3>1, LeastOf
    <2>3. s \in 0 .. m /\ ~Ok(s) /\ s # 0
      BY <1>5
    <2>4. s \in 1 .. m /\ s - 1 \in 0 .. m /\ ~(s <= s - 1)
      BY <2>3
    <2>5. Ok(s - 1)
      <3>1. s - 1 \notin Wrong
        <4> HIDE DEF Wrong
        <4> QED
          BY <2>2, <2>4
      <3> QED
        BY <3>1, <2>4
    <2> QED
      BY <2>3, <2>4, <2>5, <1>6
  <1>8. ASSUME NEW x \in 0 .. n - 1, NEW e \in Met(Chains(after[m])[x]) PROVE Hash[e.key] % n = x
    BY <1>7
  <1> QED
    BY <1>1, <1>7, <1>8

(* A table of n slots that holds d entries *)
MapTable(n, d, t) ==
    /\ n \in Nat \ {1} /\ t \in MapTables(n) /\ Good(Chains(t)) /\ InItsSlot(n, Chains(t))
    /\ IsFiniteSet(KeysIn(Chains(t))) /\ d = Cardinality(KeysIn(Chains(t)))

LEMMA MapEmpty ==
  ASSUME NEW n \in Nat \ {1}
  PROVE  /\ MapTable(n, 0, HM!Empty(n)) /\ Held(Chains(HM!Empty(n))) = {}
         /\ KeysIn(Chains(HM!Empty(n))) = {} /\ (n = 0 => HM!Empty(n) = <<>>)
  <1>1. PICK t : t = HM!Empty(n)
    OBVIOUS
  <1>2. HM!NoEntries \in MapArray /\ HM!NoEntries.entries = <<>>
    BY DEF HM!NoEntries, MapArray
  <1>3. t \in MapTables(n) /\ \A x \in 0 .. n - 1 : t[x] = HM!NoEntries
    BY <1>1, <1>2 DEF HM!Empty, MapTables
  <1>4. DOMAIN Chains(t) = 0 .. n - 1 /\ \A x \in 0 .. n - 1 : Chains(t)[x] = <<>>
    BY <1>2, <1>3, ChainsAre
  <1>5. Met(<<>>) = {} /\ Unlike(<<>>)
    BY DEF Met, Unlike
  <1>6. Held(Chains(t)) = {}
    BY <1>4, <1>5 DEF Held
  <1>7. Good(Chains(t)) /\ InItsSlot(n, Chains(t))
    BY <1>4, <1>5 DEF Good, InItsSlot
  <1>8. KeysIn(Chains(t)) = {}
    BY <1>6 DEF KeysIn
  <1>9. n = 0 => t = <<>>
    <2>1. ASSUME n = 0 PROVE t = <<>>
      <3>1. 0 .. n - 1 = {}
        BY <2>1
      <3>2. t = [i \in {} |-> HM!NoEntries]
        BY <3>1, <1>1 DEF HM!Empty
      <3> QED
        BY <3>2
    <2> QED
      BY <2>1
  <1> QED
    BY <1>1, <1>3, <1>6, <1>7, <1>8, <1>9, FS_EmptySet DEF MapTable

(* Where the entries of a table are *)
LEMMA MapHeldIsThere ==
  ASSUME NEW n, NEW d, NEW t, MapTable(n, d, t), NEW e \in Held(Chains(t))
  PROVE  LET s == Hash[e.key] % n
         IN  /\ n \in Nat \ {0} /\ e \in HM!Entry /\ s \in 0 .. n - 1
             /\ \E i \in 1 .. Len(t[s].entries) : t[s].entries[i] = e
  <1>1. PICK x \in DOMAIN Chains(t) : e \in Met(Chains(t)[x])
    BY DEF Held
  <1>2. n \in Nat /\ t \in MapTables(n) /\ InItsSlot(n, Chains(t))
    BY DEF MapTable
  <1>3. /\ DOMAIN Chains(t) = 0 .. n - 1 /\ Chains(t)[x] = t[x].entries /\ t[x] \in MapArray
    <2>1. DOMAIN Chains(t) = 0 .. n - 1
      BY <1>2, ChainsAre
    <2> QED
      BY <1>1, <1>2, <2>1, ChainsAre
  <1>4. n # 0
    BY <1>1, <1>2, <1>3
  <1>5. Hash[e.key] % n = x
    BY <1>1, <1>2 DEF InItsSlot
  <1>6. PICK i \in 1 .. Len(t[x].entries) : t[x].entries[i] = e
    BY <1>1, <1>3 DEF Met
  <1>7. e \in HM!Entry
    BY <1>3, <1>6 DEF MapArray
  <1> QED
    BY <1>1, <1>2, <1>3, <1>4, <1>5, <1>6, <1>7

LEMMA MapInsert ==
  ASSUME NEW n \in Nat \ {0}, NEW d, NEW t, MapTable(n, d, t), NEW e \in HM!Entry,
         e.key \notin KeysIn(Chains(t)), NEW u, MapAdds(n, t, Hash[e.key] % n, e, u)
  PROVE  /\ MapTable(n, d + 1, u) /\ Held(Chains(u)) = Held(Chains(t)) \cup {e}
         /\ KeysIn(Chains(u)) = KeysIn(Chains(t)) \cup {e.key}
  <1>1. PICK s : s = Hash[e.key] % n
    OBVIOUS
  <1>2. /\ n # 1 /\ t \in MapTables(n) /\ Good(Chains(t)) /\ InItsSlot(n, Chains(t))
        /\ IsFiniteSet(KeysIn(Chains(t))) /\ d = Cardinality(KeysIn(Chains(t)))
    BY DEF MapTable
  <1>3. \A f \in Held(Chains(t)) : f.key # e.key
    BY DEF KeysIn
  <1>4. MapAdds(n, t, s, e, u) /\ s \in 0 .. n - 1
    BY <1>1 DEF MapAdds
  <1>5. /\ u \in MapTables(n) /\ Good(Chains(u))
        /\ Held(Chains(u)) = Held(Chains(t)) \cup {e}
        /\ Met(Chains(u)[s]) = Met(Chains(t)[s]) \cup {e}
        /\ \A x \in (0 .. n - 1) \ {s} : u[x] = t[x] /\ Chains(u)[x] = Chains(t)[x]
    BY <1>2, <1>3, <1>4, MapGets
  <1>6. InItsSlot(n, Chains(u))
    <2>1. DOMAIN Chains(u) = 0 .. n - 1 /\ DOMAIN Chains(t) = 0 .. n - 1
      BY <1>2, <1>5, ChainsAre
    <2>2. ASSUME NEW x \in 0 .. n - 1, NEW f \in Met(Chains(u)[x]) PROVE Hash[f.key] % n = x
      <3>1. CASE f \in Met(Chains(t)[x])
        BY <1>2, <2>1, <3>1 DEF InItsSlot
      <3>2. CASE f = e /\ x = s
        BY <3>2, <1>1
      <3> QED
        BY <3>1, <3>2, <1>5
    <2> QED
      BY <2>1, <2>2 DEF InItsSlot
  <1>7. KeysIn(Chains(u)) = KeysIn(Chains(t)) \cup {e.key}
    BY <1>5 DEF KeysIn
  <1>8. IsFiniteSet(KeysIn(Chains(u))) /\ d + 1 = Cardinality(KeysIn(Chains(u)))
    BY <1>2, <1>7, FS_AddElement
  <1> QED
    BY <1>2, <1>5, <1>6, <1>7, <1>8 DEF MapTable

LEMMA MapGrow ==
  ASSUME NEW m \in Nat \ {0}, NEW n \in Nat \ {0, 1}, m <= n, NEW d, NEW t, MapTable(m, d, t),
         NEW u, u = HM!Rehash(t, m, n)
  PROVE  MapTable(n, d, u) /\ Held(Chains(u)) = Held(Chains(t))
  <1>1. /\ t \in MapTables(m) /\ Good(Chains(t))
        /\ IsFiniteSet(KeysIn(Chains(t))) /\ d = Cardinality(KeysIn(Chains(t)))
    BY DEF MapTable
  <1>2. n \in Nat \ {0}
    OBVIOUS
  <1>3. /\ u \in MapTables(n) /\ Good(Chains(u)) /\ Held(Chains(u)) = Held(Chains(t))
        /\ \A x \in 0 .. n - 1 : \A e \in Met(Chains(u)[x]) : Hash[e.key] % n = x
    BY <1>1, <1>2, MapRehash
  <1>4. InItsSlot(n, Chains(u))
    <2>1. DOMAIN Chains(u) = 0 .. n - 1
      BY <1>3, ChainsAre
    <2> QED
      BY <1>3, <2>1 DEF InItsSlot
  <1>5. KeysIn(Chains(u)) = KeysIn(Chains(t))
    BY <1>3 DEF KeysIn
  <1> QED
    BY <1>1, <1>3, <1>4, <1>5 DEF MapTable

LEMMA MapWithout ==
  ASSUME NEW n \in Nat \ {0}, NEW d, NEW t, MapTable(n, d, t), NEW s, NEW i, NEW u,
         MapDrops(n, t, s, i, u), i \in 1 .. Len(t[s].entries)
  PROVE  LET e == t[s].entries[i]
         IN  /\ MapTable(n, d - 1, u) /\ e \in Held(Chains(t))
             /\ Held(Chains(u)) = Held(Chains(t)) \ {e}
  <1>1. PICK e : e = t[s].entries[i]
    OBVIOUS
  <1>2. /\ n # 1 /\ t \in MapTables(n) /\ Good(Chains(t)) /\ InItsSlot(n, Chains(t))
        /\ IsFiniteSet(KeysIn(Chains(t))) /\ d = Cardinality(KeysIn(Chains(t)))
        /\ s \in 0 .. n - 1
    BY DEF MapTable, MapDrops
  <1>3. /\ u \in MapTables(n) /\ Good(Chains(u))
        /\ Held(Chains(u)) = Held(Chains(t)) \ {e} /\ e \in Held(Chains(t))
        /\ \A x \in (0 .. n - 1) \ {s} : Chains(u)[x] = Chains(t)[x]
    <2>1. LET c == t[s].entries
          IN  /\ u \in MapTables(n) /\ Good(Chains(u))
              /\ Held(Chains(u)) = Held(Chains(t)) \ {c[i]} /\ c[i] \in Held(Chains(t))
              /\ Len(u[s].entries) = Len(c) - 1
              /\ \A j \in 1 .. Len(c) - 1 : u[s].entries[j] = IF j = i THEN c[Len(c)] ELSE c[j]
              /\ \A x \in (0 .. n - 1) \ {s} : u[x] = t[x] /\ Chains(u)[x] = Chains(t)[x]
      BY <1>2, MapLoses
    <2> QED
      BY <1>1, <2>1
  <1>4. KeysIn(Chains(u)) = KeysIn(Chains(t)) \ {e.key} /\ e.key \in KeysIn(Chains(t))
    <2>1. \A f \in Held(Chains(t)) : f.key = e.key => f = e
      BY <1>2, <1>3, HeldOnce
    <2> QED
      BY <2>1, <1>3 DEF KeysIn
  <1>5. IsFiniteSet(KeysIn(Chains(u))) /\ d - 1 = Cardinality(KeysIn(Chains(u)))
    <2>1. PICK K : K = KeysIn(Chains(t))
      OBVIOUS
    <2>2. PICK k : k = e.key
      OBVIOUS
    <2>3. IsFiniteSet(K \ {k}) /\ Cardinality(K \ {k}) = Cardinality(K) - 1
      BY <1>2, <1>4, <2>1, <2>2, FS_RemoveElement
    <2> QED
      BY <1>2, <1>4, <2>1, <2>2, <2>3
  <1>6. InItsSlot(n, Chains(u))
    <2>1. DOMAIN Chains(u) = 0 .. n - 1 /\ DOMAIN Chains(t) = 0 .. n - 1
      BY <1>2, <1>3, ChainsAre
    <2>2. ASSUME NEW x \in 0 .. n - 1, NEW f \in Met(Chains(u)[x]) PROVE Hash[f.key] % n = x
      <3>1. CASE x # s
        BY <1>2, <1>3, <2>1, <2>2, <3>1 DEF InItsSlot
      <3>2. CASE x = s
        <4>1. f \in Held(Chains(u))
          BY <2>1, <2>2 DEF Held
        <4>2. PICK y \in 0 .. n - 1 : f \in Met(Chains(t)[y])
          BY <1>3, <2>1, <4>1 DEF Held
        <4>3. CASE y = x
          BY <1>2, <2>1, <4>2, <4>3 DEF InItsSlot
        <4>4. CASE y # x
          <5>1. f \in Met(Chains(u)[y])
            BY <1>3, <3>2, <4>2, <4>4
          <5> QED
            BY <1>3, <2>1, <2>2, <4>4, <5>1 DEF Good
        <4> QED
          BY <4>3, <4>4
      <3> QED
        BY <3>1, <3>2
    <2> QED
      BY <2>1, <2>2 DEF InItsSlot
  <1> QED
    BY <1>1, <1>2, <1>3, <1>5, <1>6 DEF MapTable

(* Entry i of a chain is given another value. *)
Alters(c, i, e, d) ==
    i \in 1 .. Len(c) /\ e.key = c[i].key /\ d = [c EXCEPT ![i] = e]

(* The same in slot s of table t, which becomes u *)
Changes(D, E, t, s, i, e, d, u) ==
    Puts(D, E, t, s, d, u) /\ Good(t) /\ e \in E /\ Alters(t[s], i, e, d)

(* Slot by slot, u has no key that t does not have *)
KeysStay(D, t, u) ==
    \A x \in D : \A f \in Met(u[x]) : \E g \in Met(t[x]) : g.key = f.key

LEMMA TableAlters ==
  ASSUME NEW D, NEW E, NEW t, NEW s, NEW d, NEW u, NEW i, NEW e, Changes(D, E, t, s, i, e, d, u)
  PROVE  /\ u \in TablesOf(D, E) /\ Good(u) /\ t[s][i] \in Held(t)
         /\ Held(u) = (Held(t) \ {t[s][i]}) \cup {e} /\ KeysIn(u) = KeysIn(t)
         /\ KeysStay(D, t, u)
  <1> USE DEF Changes
  <1>1. PICK c : c = t[s]
    OBVIOUS
  <1>2. /\ t \in [D -> Seq(E)] /\ s \in D /\ u = [t EXCEPT ![s] = d] /\ c \in Seq(E) /\ Unlike(c)
        /\ i \in 1 .. Len(c) /\ e.key = c[i].key /\ d = [c EXCEPT ![i] = e]
    <2>1. t \in [D -> Seq(E)] /\ s \in D /\ u = [t EXCEPT ![s] = d]
      BY DEF Puts, TablesOf
    <2>2. c \in Seq(E) /\ Unlike(c)
      BY <1>1, <2>1 DEF Good
    <2> QED
      BY <1>1, <2>1, <2>2 DEF Alters
  <1>3. /\ d \in Seq(E) /\ Len(d) = Len(c)
        /\ \A j \in 1 .. Len(c) : d[j] = IF j = i THEN e ELSE c[j]
    BY <1>2
  <1>4. u \in [D -> Seq(E)] /\ u[s] = d /\ \A x \in D \ {s} : u[x] = t[x]
    BY <1>2, <1>3
  <1>5. ASSUME NEW f \in Met(d) PROVE f = e \/ (f \in Met(c) /\ f # c[i])
    <2>1. PICK j \in 1 .. Len(c) : f = d[j]
      BY <1>3 DEF Met
    <2>2. ASSUME j # i PROVE f = c[j] /\ c[j] # c[i]
      BY <1>2, <1>3, <2>1, <2>2 DEF Unlike
    <2>3. ASSUME j = i PROVE f = e
      BY <1>3, <2>1, <2>3
    <2> QED
      BY <2>2, <2>3 DEF Met
  <1>6. ASSUME NEW f \in Met(c), f # c[i] PROVE f \in Met(d)
    <2>1. PICK j \in 1 .. Len(c) : f = c[j]
      BY DEF Met
    <2>2. d[j] = f /\ j \in 1 .. Len(d)
      BY <1>3, <1>6, <2>1
    <2> QED
      BY <2>2 DEF Met
  <1>7. e \in Met(d) /\ c[i] \in Met(c)
    <2>1. d[i] = e /\ i \in 1 .. Len(d)
      BY <1>2, <1>3
    <2> QED
      BY <1>2, <2>1 DEF Met
  <1>8. ASSUME NEW x \in D, NEW f \in Met(u[x]) PROVE \E g \in Met(t[x]) : g.key = f.key
    <2>1. CASE x = s
      BY <1>1, <1>2, <1>4, <1>5, <1>7, <2>1
    <2>2. CASE x # s
      BY <1>4, <2>2
    <2> QED
      BY <2>1, <2>2
  <1>9. Good(u)
    <2>1. ASSUME NEW x \in D PROVE Unlike(u[x])
      <3>1. CASE x = s
        <4>1. \A j \in 1 .. Len(d) : d[j].key = c[j].key
          BY <1>2, <1>3
        <4>2. Unlike(d)
          BY <1>2, <1>3, <4>1 DEF Unlike
        <4> QED
          BY <1>4, <3>1, <4>2
      <3>2. CASE x # s
        BY <1>2, <1>4, <3>2 DEF Good
      <3> QED
        BY <3>1, <3>2
    <2>2. ASSUME NEW x \in D, NEW y \in D, NEW f \in Met(u[x]), NEW g \in Met(u[y]), f.key = g.key
          PROVE  x = y
      <3>1. PICK f1 \in Met(t[x]) : f1.key = f.key
        BY <1>8
      <3>2. PICK g1 \in Met(t[y]) : g1.key = g.key
        BY <1>8
      <3> QED
        BY <1>2, <2>2, <3>1, <3>2 DEF Good
    <2> QED
      BY <1>4, <2>1, <2>2 DEF Good
  <1>10. Held(u) = (Held(t) \ {c[i]}) \cup {e} /\ c[i] \in Held(t)
    <2>1. c[i] \in Held(t)
      BY <1>1, <1>2, <1>7 DEF Held
    <2>2. ASSUME NEW f \in Held(u) PROVE f \in (Held(t) \ {c[i]}) \cup {e}
      <3>1. PICK x \in D : f \in Met(u[x])
        BY <1>4 DEF Held
      <3>2. CASE x = s
        <4>1. f = e \/ (f \in Met(c) /\ f # c[i])
          BY <1>4, <1>5, <3>1, <3>2
        <4> QED
          BY <1>1, <1>2, <4>1 DEF Held
      <3>3. CASE x # s
        <4>1. f \in Met(t[x])
          BY <1>4, <3>1, <3>3
        <4>2. f # c[i]
          BY <1>1, <1>2, <1>7, <3>3, <4>1 DEF Good
        <4> QED
          BY <1>2, <4>1, <4>2 DEF Held
      <3> QED
        BY <3>2, <3>3
    <2>3. ASSUME NEW f \in Held(t), f # c[i] PROVE f \in Held(u)
      <3>1. PICK x \in D : f \in Met(t[x])
        BY <1>2 DEF Held
      <3>2. f \in Met(u[x])
        <4>1. CASE x = s
          BY <1>1, <1>4, <1>6, <2>3, <3>1, <4>1
        <4>2. CASE x # s
          BY <1>4, <3>1, <4>2
        <4> QED
          BY <4>1, <4>2
      <3> QED
        BY <1>4, <3>2 DEF Held
    <2>4. e \in Held(u)
      BY <1>2, <1>4, <1>7 DEF Held
    <2>5. Held(u) \subseteq (Held(t) \ {c[i]}) \cup {e}
      BY <2>2
    <2>6. (Held(t) \ {c[i]}) \cup {e} \subseteq Held(u)
      BY <2>3, <2>4
    <2> QED
      BY <2>1, <2>5, <2>6
  <1>11. KeysIn(u) = KeysIn(t)
    <2>1. ASSUME NEW f \in Held(u) PROVE f.key \in KeysIn(t)
      BY <1>2, <1>10 DEF KeysIn
    <2>2. ASSUME NEW f \in Held(t) PROVE f.key \in KeysIn(u)
      BY <1>2, <1>10 DEF KeysIn
    <2> QED
      BY <2>1, <2>2 DEF KeysIn
  <1> QED
    BY <1>1, <1>4, <1>8, <1>9, <1>10, <1>11 DEF TablesOf, KeysStay

LEMMA StoreSets ==
  ASSUME NEW E, \A e, f \in E : e.key = f.key => e = f, NEW e \in E, NEW g, g.key = e.key
  PROVE  StoreOf((E \ {e}) \cup {g}) =
           [k \in DOMAIN StoreOf(E) \cup {g.key} |-> IF k = g.key THEN g.value ELSE StoreOf(E)[k]]
  <1>1. PICK F : F = E \ {e}
    OBVIOUS
  <1>2. (\A f, h \in F : f.key = h.key => f = h) /\ (\A f \in F : f.key # g.key)
    BY <1>1
  <1>3. StoreOf(F) = [k \in DOMAIN StoreOf(E) \ {e.key} |-> StoreOf(E)[k]]
    BY <1>1, StoreLoses
  <1>4. StoreOf(F \cup {g}) =
          [k \in DOMAIN StoreOf(F) \cup {g.key} |-> IF k = g.key THEN g.value ELSE StoreOf(F)[k]]
    BY <1>2, StoreGets
  <1>5. DOMAIN StoreOf(F) \cup {g.key} = DOMAIN StoreOf(E) \cup {g.key}
    BY <1>3
  <1>6. \A k \in DOMAIN StoreOf(E) \cup {g.key} : k # g.key => StoreOf(F)[k] = StoreOf(E)[k]
    BY <1>3
  <1> QED
    BY <1>1, <1>4, <1>5, <1>6

(* The map as it should be *)
MapInv ==
    /\ MapTable(map_num_slots, map_num_data, map_slots)
    /\ map_num_slots > 0 => map_num_data < map_num_slots * CritLoadFactor
    /\ map_status \in {"none", "up", "exited", "crashed"}
    /\ map_status = "none" => map_num_slots = 0

(* What the module of the map says in other words *)
LEMMA MapWords ==
  ASSUME MapTable(map_num_slots, map_num_data, map_slots)
  PROVE  /\ HM!EntriesOf(map_slots) = Held(Chains(map_slots))
         /\ HM!Keys = KeysIn(Chains(map_slots))
         /\ DOMAIN map_slots = 0 .. map_num_slots - 1
         /\ \A x \in DOMAIN map_slots :
              /\ map_slots[x].entries \in Seq(HM!Entry) /\ map_slots[x] \in MapArray
              /\ Unlike(map_slots[x].entries)
              /\ HM!Range(map_slots[x].entries) = Met(map_slots[x].entries)
         /\ \A e, f \in Held(Chains(map_slots)) : e.key = f.key => e = f
         /\ KeysIn(Chains(map_slots)) \subseteq Key
  <1>1. map_slots \in MapTables(map_num_slots) /\ Good(Chains(map_slots))
    BY DEF MapTable
  <1>2. /\ DOMAIN map_slots = 0 .. map_num_slots - 1
        /\ DOMAIN Chains(map_slots) = 0 .. map_num_slots - 1
        /\ \A x \in 0 .. map_num_slots - 1 :
             map_slots[x] \in MapArray /\ Chains(map_slots)[x] = map_slots[x].entries
    BY <1>1, ChainsAre
  <1>3. ASSUME NEW x \in DOMAIN map_slots
        PROVE  /\ map_slots[x].entries \in Seq(HM!Entry) /\ map_slots[x] \in MapArray
               /\ Unlike(map_slots[x].entries)
               /\ HM!Range(map_slots[x].entries) = Met(map_slots[x].entries)
    <2>1. PICK c : c = map_slots[x].entries
      OBVIOUS
    <2>2. c \in Seq(HM!Entry) /\ map_slots[x] \in MapArray
      BY <1>2, <2>1 DEF MapArray
    <2>3. Unlike(c)
      BY <1>1, <1>2, <2>1 DEF Good
    <2>4. HM!Range(c) = Met(c)
      BY <2>2 DEF HM!Range, Met
    <2> QED
      BY <2>1, <2>2, <2>3, <2>4
  <1>4. HM!EntriesOf(map_slots) = Held(Chains(map_slots))
    <2>1. \A x \in DOMAIN map_slots : HM!Range(map_slots[x].entries) = Met(Chains(map_slots)[x])
      BY <1>2, <1>3
    <2> QED
      BY <1>2, <2>1 DEF HM!EntriesOf, Held
  <1>5. HM!Keys = KeysIn(Chains(map_slots))
    BY <1>4 DEF HM!Keys, KeysIn
  <1>6. \A e, f \in Held(Chains(map_slots)) : e.key = f.key => e = f
    BY <1>1, HeldOnce
  <1>7. KeysIn(Chains(map_slots)) \subseteq Key
    <2>1. \A e \in Held(Chains(map_slots)) : e \in HM!Entry
      BY MapHeldIsThere
    <2> QED
      BY <2>1 DEF KeysIn, HM!Entry
  <1> QED
    BY <1>2, <1>3, <1>4, <1>5, <1>6, <1>7

(* A key that is found: its slot, and its place in it *)
LEMMA MapFound ==
  ASSUME MapInv, NEW k \in Key
  PROVE  /\ HM!Found(k) <=> k \in KeysIn(Chains(map_slots))
         /\ HM!Found(k) =>
              LET s == Hash[k] % map_num_slots
                  i == HM!IndexIn(map_slots[s], k)
              IN  /\ map_num_slots \in Nat \ {0} /\ s \in 0 .. map_num_slots - 1
                  /\ i \in 1 .. Len(map_slots[s].entries)
                  /\ map_slots[s].entries[i].key = k
                  /\ map_slots[s].entries[i] \in Held(Chains(map_slots))
  <1>0. MapTable(map_num_slots, map_num_data, map_slots)
    BY DEF MapInv
  <1>1. PICK s : s = Hash[k] % map_num_slots
    OBVIOUS
  <1>2. map_num_slots \in Nat /\ map_slots \in MapTables(map_num_slots)
    BY <1>0 DEF MapTable
  <1>3. ASSUME k \in KeysIn(Chains(map_slots)) PROVE HM!Found(k)
    <2>1. PICK e \in Held(Chains(map_slots)) : e.key = k
      BY <1>3 DEF KeysIn
    <2>2. /\ map_num_slots \in Nat \ {0} /\ s \in 0 .. map_num_slots - 1
          /\ \E i \in 1 .. Len(map_slots[s].entries) : map_slots[s].entries[i] = e
      BY <1>0, <1>1, <2>1, MapHeldIsThere
    <2>3. e \in Met(map_slots[s].entries)
      BY <2>2 DEF Met
    <2>4. e \in HM!Range(map_slots[s].entries)
      BY <1>0, <2>2, <2>3, MapWords
    <2>5. map_num_slots > 0
      BY <2>2
    <2> QED
      BY <1>1, <2>1, <2>4, <2>5 DEF HM!Found, HM!KeysOf, HM!SlotOf
  <1>4. ASSUME HM!Found(k)
        PROVE  /\ map_num_slots \in Nat \ {0} /\ s \in 0 .. map_num_slots - 1
               /\ HM!IndexIn(map_slots[s], k) \in 1 .. Len(map_slots[s].entries)
               /\ map_slots[s].entries[HM!IndexIn(map_slots[s], k)].key = k
               /\ map_slots[s].entries[HM!IndexIn(map_slots[s], k)] \in Held(Chains(map_slots))
    <2>1. map_num_slots \in Nat \ {0} /\ s \in 0 .. map_num_slots - 1
      <3>1. map_num_slots # 0
        BY <1>4 DEF HM!Found
      <3> QED
        BY <1>1, <1>2, <3>1, SlotIsThere
    <2>2. PICK c : c = map_slots[s].entries
      OBVIOUS
    <2>3. c \in Seq(HM!Entry) /\ HM!Range(c) = Met(c)
      BY <1>0, <2>1, <2>2, MapWords
    <2>4. \E i \in 1 .. Len(c) : c[i].key = k
      <3>1. k \in {e.key : e \in Met(c)}
        BY <1>1, <1>4, <2>2, <2>3 DEF HM!Found, HM!KeysOf, HM!SlotOf
      <3> QED
        BY <3>1 DEF Met
    <2>5. DOMAIN c = 1 .. Len(c)
      BY <2>3
    <2>6. PICK i : i = HM!IndexIn(map_slots[s], k)
      OBVIOUS
    <2>7. i \in 1 .. Len(c) /\ c[i].key = k
      BY <2>2, <2>4, <2>5, <2>6 DEF HM!IndexIn
    <2>8. c[i] \in Held(Chains(map_slots))
      <3>1. DOMAIN Chains(map_slots) = 0 .. map_num_slots - 1 /\ Chains(map_slots)[s] = c
        BY <1>2, <2>1, <2>2, ChainsAre
      <3>2. c[i] \in Met(c)
        BY <2>7 DEF Met
      <3> QED
        BY <2>1, <3>1, <3>2 DEF Held
    <2> QED
      BY <2>1, <2>2, <2>6, <2>7, <2>8
  <1>5. HM!Found(k) => k \in KeysIn(Chains(map_slots))
    BY <1>4 DEF KeysIn
  <1> QED
    BY <1>1, <1>3, <1>4, <1>5

LEMMA MapPrime == ASSUME NEW n \in Nat PROVE HM!NextPrime(n) = NextPrime(n)
  BY DEF HM!NextPrime, NextPrime, HM!IsPrime, IsPrime

LEMMA MapRoom ==
  ASSUME NEW n \in Nat, n > 0
  PROVE  0 < n * CritLoadFactor
  <1>1. PICK c \in Nat : c = CritLoadFactor /\ c > 0
    BY MapConstants
  <1>2. n * c >= n /\ n * c \in Nat
    BY <1>1, Larger1, NatTimes
  <1> QED
    BY <1>1, <1>2

LEMMA MapRoomToGrow ==
  ASSUME NEW m \in Nat, m > 1, NEW d \in Nat, d < m * CritLoadFactor
  PROVE  LET n == HM!Grown(m)
         IN  /\ n \in Nat \ {0, 1} /\ m <= n /\ d + 1 < n * CritLoadFactor
             /\ m * CritLoadFactor \in Nat
  <1>1. PICK h \in Nat : h = (m * 3) \div 2 /\ h >= m + 1
    OBVIOUS
  <1>2. PICK n \in Nat : n = HM!Grown(m) /\ n >= h
    <2>1. HM!Grown(m) = NextPrime(h)
      BY <1>1, MapPrime DEF HM!Grown
    <2> QED
      BY <2>1, NextPrimeIsLarge
  <1>3. PICK c \in Nat : c = CritLoadFactor /\ c > 0
    BY MapConstants
  <1>4. PICK q \in Nat : n = (m + 1) + q
    <2>1. n - (m + 1) \in Nat /\ n = (m + 1) + (n - (m + 1))
      BY <1>1, <1>2
    <2> QED
      BY <2>1
  <1>5. n * c >= m * c + c /\ m * c \in Nat
    <2>1. c * n = c * ((m + q) + 1)
      BY <1>4
    <2>2. m + q \in Nat
      OBVIOUS
    <2>3. c * ((m + q) + 1) = c * (m + q) + c /\ c * (m + q) \in Nat
      BY <2>2, NatTimes
    <2>4. c * (m + q) = c * m + c * q /\ c * m \in Nat /\ c * q \in Nat
      <3>1. \A x, y, z \in Nat : x * (y + z) = x * y + x * z
        OBVIOUS
      <3> QED
        BY <3>1, NatTimes
    <2>5. c * n = n * c /\ c * m = m * c
      BY NatTimes
    <2> QED
      BY <2>1, <2>3, <2>4, <2>5
  <1>6. d + 1 < n * c
    <2>1. d < m * c /\ n * c \in Nat
      BY <1>3, NatTimes
    <2>2. PICK a \in Nat : a = m * c
      BY <1>5
    <2>3. PICK b \in Nat : b = n * c
      BY <2>1
    <2>4. b >= a + c /\ d < a
      BY <1>5, <2>1, <2>2, <2>3
    <2> QED
      BY <1>3, <2>3, <2>4
  <1>7. n \in Nat \ {0, 1} /\ m <= n
    BY <1>1, <1>2
  <1> QED
    BY <1>2, <1>3, <1>5, <1>6, <1>7

LEMMA MapCreateKeeps ==
  ASSUME MapInv, NEW n \in InitSize, HM!Create(n)
  PROVE  MapInv' /\ Held(Chains(map_slots')) = Held(Chains(map_slots))
  <1> USE DEF HM!Create
  <1>1. MapTable(0, map_num_data, map_slots)
    BY DEF MapInv
  <1>2. Held(Chains(map_slots)) = {} /\ map_num_data = 0
    <2>1. Held(Chains(map_slots)) = {}
      <3>1. ASSUME NEW e \in Held(Chains(map_slots)) PROVE FALSE
        <4>1. 0 \in Nat \ {0}
          BY <1>1, MapHeldIsThere
        <4> QED
          BY <4>1
      <3> QED
        BY <3>1
    <2>2. KeysIn(Chains(map_slots)) = {}
      BY <2>1 DEF KeysIn
    <2> QED
      BY <1>1, <2>1, <2>2, FS_EmptySet DEF MapTable
  <1>3. PICK m : m = HM!SlotsFor(n)
    OBVIOUS
  <1>4. m \in Nat \ {1}
    <2>1. n \in Nat
      BY MapConstants
    <2> QED
      BY <1>3, <2>1, MapPrime, NextPrimeIsLarge DEF HM!SlotsFor
  <1>5. MapTable(m, 0, HM!Empty(m)) /\ Held(Chains(HM!Empty(m))) = {}
    BY <1>4, MapEmpty
  <1>6. map_num_slots' = m /\ map_slots' = HM!Empty(m) /\ map_num_data' = 0 /\ map_status' = "up"
    BY <1>2, <1>3
  <1>7. m > 0 => 0 < m * CritLoadFactor
    BY <1>4, MapRoom
  <1> QED
    BY <1>2, <1>5, <1>6, <1>7 DEF MapInv

LEMMA MapDestroyKeeps ==
  ASSUME MapInv, HM!Destroy
  PROVE  MapInv' /\ Held(Chains(map_slots')) = {}
  <1> USE DEF HM!Destroy
  <1>1. PICK z : z = 0
    OBVIOUS
  <1>2. z \in Nat \ {1} /\ z = 0
    BY <1>1
  <1>3. MapTable(z, 0, HM!Empty(z)) /\ Held(Chains(HM!Empty(z))) = {} /\ HM!Empty(z) = <<>>
    BY ONLY <1>2, MapEmpty
  <1>4. /\ map_num_slots' = z /\ map_num_data' = 0 /\ map_slots' = HM!Empty(z)
        /\ map_status' = "none"
    BY <1>1, <1>3
  <1> QED
    BY <1>1, <1>3, <1>4 DEF MapInv

LEMMA MapClearKeeps ==
  ASSUME MapInv, HM!Clear
  PROVE  MapInv' /\ Held(Chains(map_slots')) = {}
  <1> USE DEF HM!Clear
  <1>1. map_num_slots \in Nat \ {1}
    BY DEF MapInv, MapTable
  <1>2. /\ MapTable(map_num_slots, 0, HM!Empty(map_num_slots))
        /\ Held(Chains(HM!Empty(map_num_slots))) = {}
    BY <1>1, MapEmpty
  <1>3. map_num_slots > 0 => 0 < map_num_slots * CritLoadFactor
    BY <1>1, MapRoom
  <1>4. map_status' = "up"
    BY DEF HM!Up
  <1> QED
    BY <1>2, <1>3, <1>4 DEF MapInv

LEMMA MapRemoveKeeps ==
  ASSUME MapInv, NEW k \in Key, HM!Remove_(k)
  PROVE  /\ MapInv'
         /\ \E e \in Held(Chains(map_slots)) :
              e.key = k /\ Held(Chains(map_slots')) = Held(Chains(map_slots)) \ {e}
  <1> USE DEF HM!Remove_
  <1>1. PICK n, d, t, u : n = map_num_slots /\ d = map_num_data /\ t = map_slots /\ u = map_slots'
    OBVIOUS
  <1>2. PICK s : s = Hash[k] % n
    OBVIOUS
  <1>3. PICK i : i = HM!IndexIn(t[s], k)
    OBVIOUS
  <1>4. /\ n \in Nat \ {0} /\ s \in 0 .. n - 1 /\ i \in 1 .. Len(t[s].entries)
        /\ t[s].entries[i].key = k
    BY <1>1, <1>2, <1>3, MapFound
  <1>5. MapTable(n, d, t) /\ d < n * CritLoadFactor /\ n > 0 /\ d \in Nat
    BY <1>1, <1>4, FS_CardinalityType DEF MapInv, MapTable
  <1>6. MapDrops(n, t, s, i, u)
    <2>1. t \in MapTables(n)
      BY <1>5 DEF MapTable
    <2>2. u = [t EXCEPT ![s] = HM!Drop(t[s], i)]
      BY <1>1, <1>2, <1>3 DEF HM!SlotOf
    <2> QED
      BY <1>4, <2>1, <2>2 DEF MapDrops
  <1>7. /\ MapTable(n, d - 1, u) /\ t[s].entries[i] \in Held(Chains(t))
        /\ Held(Chains(u)) = Held(Chains(t)) \ {t[s].entries[i]}
    BY ONLY <1>4, <1>5, <1>6, MapWithout
  <1>8. map_num_slots' = n /\ map_num_data' = d - 1 /\ map_status' = "up"
    BY <1>1 DEF HM!Up
  <1>9. d - 1 < n * CritLoadFactor
    <2>1. n * CritLoadFactor \in Int
      BY <1>4, MapConstants
    <2>2. PICK r \in Int : r = n * CritLoadFactor
      BY <2>1
    <2> QED
      BY <1>5, <2>2
  <1>10. MapInv'
    BY <1>1, <1>5, <1>7, <1>8, <1>9 DEF MapInv
  <1> QED
    BY <1>1, <1>4, <1>7, <1>10

LEMMA MapSetOldKeeps ==
  ASSUME MapInv, NEW k \in Key, NEW v \in Value, HM!SetOld(k, v)
  PROVE  /\ MapInv'
         /\ \E e \in Held(Chains(map_slots)) :
              /\ e.key = k
              /\ Held(Chains(map_slots')) =
                   (Held(Chains(map_slots)) \ {e}) \cup {[key |-> k, value |-> v]}
  <1> USE DEF HM!SetOld
  <1>1. PICK n, d, t, u : n = map_num_slots /\ d = map_num_data /\ t = map_slots /\ u = map_slots'
    OBVIOUS
  <1>2. PICK s : s = Hash[k] % n
    OBVIOUS
  <1>3. PICK i : i = HM!IndexIn(t[s], k)
    OBVIOUS
  <1>4. /\ n \in Nat \ {0} /\ s \in 0 .. n - 1 /\ i \in 1 .. Len(t[s].entries)
        /\ t[s].entries[i].key = k
    BY <1>1, <1>2, <1>3, MapFound
  <1>5. MapTable(n, d, t)
    BY <1>1 DEF MapInv
  <1>6. /\ t \in MapTables(n) /\ Good(Chains(t)) /\ InItsSlot(n, Chains(t))
    BY <1>5 DEF MapTable
  <1>7. PICK a : a = t[s]
    OBVIOUS
  <1>8. PICK c : c = a.entries
    OBVIOUS
  <1>9. /\ a \in MapArray /\ c \in Seq(HM!Entry) /\ i \in 1 .. Len(c) /\ c[i] \in HM!Entry
        /\ c[i].key = k /\ Chains(t)[s] = c /\ DOMAIN Chains(t) = 0 .. n - 1
    <2>1. a \in MapArray /\ Chains(t)[s] = c /\ DOMAIN Chains(t) = 0 .. n - 1
      BY <1>4, <1>6, <1>7, <1>8, ChainsAre
    <2> QED
      BY <1>4, <1>7, <1>8, <2>1 DEF MapArray
  <1>10. PICK e : e = [key |-> k, value |-> v]
    OBVIOUS
  <1>11. e \in HM!Entry /\ e.key = c[i].key /\ e = [c[i] EXCEPT !.value = v]
    <2>1. c[i] = [key |-> c[i].key, value |-> c[i].value]
      BY <1>9 DEF HM!Entry
    <2> QED
      BY <1>9, <1>10, <2>1 DEF HM!Entry
  <1>12. PICK b : b = [c EXCEPT ![i] = e]
    OBVIOUS
  <1>13. PICK w : w = [a EXCEPT !.entries = b]
    OBVIOUS
  <1>14. u = [t EXCEPT ![s] = w]
    <2>1. u = [t EXCEPT ![s].entries[i].value = v]
      BY <1>1, <1>2, <1>3 DEF HM!SlotOf
    <2> QED
      BY <1>7, <1>8, <1>11, <1>12, <1>13, <2>1
  <1>15. b \in Seq(HM!Entry) /\ Len(b) = Len(c)
    BY <1>9, <1>11, <1>12
  <1>16. w \in MapArray /\ w.entries = b
    <2>1. Len(c) <= a.alloc
      BY <1>8, <1>9 DEF MapArray
    <2> QED
      BY <1>9, <1>13, <1>15, <2>1 DEF MapArray
  <1>17. MapPuts(n, t, s, w, u)
    BY <1>4, <1>6, <1>14, <1>16 DEF MapPuts
  <1>18. u \in MapTables(n) /\ Puts(0 .. n - 1, HM!Entry, Chains(t), s, b, Chains(u))
    BY <1>16, <1>17, MapPutsIs
  <1>19. PICK D, E, f, g : D = 0 .. n - 1 /\ E = HM!Entry /\ f = Chains(t) /\ g = Chains(u)
    OBVIOUS
  <1>20. Changes(D, E, f, s, i, e, b, g) /\ f[s] = c
    <2>1. f[s] = c
      BY <1>9, <1>19
    <2>2. Alters(c, i, e, b)
      BY <1>9, <1>11, <1>12 DEF Alters
    <2> QED
      BY <1>6, <1>11, <1>18, <1>19, <2>1, <2>2 DEF Changes
  <1>21. /\ g \in TablesOf(D, E) /\ Good(g) /\ f[s][i] \in Held(f)
         /\ Held(g) = (Held(f) \ {f[s][i]}) \cup {e} /\ KeysIn(g) = KeysIn(f)
         /\ KeysStay(D, f, g)
    BY ONLY <1>20, TableAlters
  <1>22. InItsSlot(n, g)
    <2>1. DOMAIN g = D /\ DOMAIN f = D
      BY <1>9, <1>19, <1>21 DEF TablesOf
    <2> QED
      BY <1>6, <1>19, <1>21, <2>1 DEF InItsSlot, KeysStay
  <1>23. MapTable(n, d, u)
    BY <1>5, <1>18, <1>19, <1>21, <1>22 DEF MapTable
  <1>24. map_num_slots' = n /\ map_num_data' = d /\ map_status' = "up"
    BY <1>1 DEF HM!Up
  <1>25. MapInv'
    BY <1>1, <1>23, <1>24 DEF MapInv
  <1> QED
    BY <1>1, <1>9, <1>10, <1>19, <1>20, <1>21, <1>25

LEMMA MapSetNewKeeps ==
  ASSUME MapInv, NEW k \in Key, NEW v \in Value, HM!SetNew(k, v)
  PROVE  /\ MapInv' /\ k \notin KeysIn(Chains(map_slots))
         /\ Held(Chains(map_slots')) =
              Held(Chains(map_slots)) \cup {[key |-> k, value |-> v]}
  <1>1. PICK n : n = IF map_num_slots = 0 THEN HM!NextPrime(DefaultSlots) ELSE map_num_slots
    OBVIOUS
  <1>2. PICK now : now = IF map_num_slots = 0 THEN HM!Empty(n) ELSE map_slots
    OBVIOUS
  <1>3. PICK e : e = [key |-> k, value |-> v]
    OBVIOUS
  <1>4. PICK t : t = [now EXCEPT ![Hash[k] % n] = HM!With(@, e)]
    OBVIOUS
  <1>5. PICK d : d = map_num_data
    OBVIOUS
  <1>6. /\ HM!Up /\ ~HM!Found(k) /\ map_num_data' = d + 1 /\ map_status' = "up"
        /\ map_num_slots' = IF d + 1 >= n * CritLoadFactor THEN HM!Grown(n) ELSE n
        /\ map_slots' = IF d + 1 >= n * CritLoadFactor THEN HM!Rehash(t, n, HM!Grown(n)) ELSE t
    BY <1>1, <1>2, <1>3, <1>4, <1>5 DEF HM!SetNew, HM!Up
  <1>7. MapTable(map_num_slots, d, map_slots) /\ d \in Nat
    BY <1>5, FS_CardinalityType DEF MapInv, MapTable
  <1>8. /\ n \in Nat /\ n > 1 /\ MapTable(n, d, now) /\ Held(Chains(now)) = Held(Chains(map_slots))
        /\ d < n * CritLoadFactor
    <2>1. CASE map_num_slots = 0
      <3>1. n \in Nat /\ n > 1
        BY <1>1, <2>1, MapConstants, MapPrime, NextPrimeIsLarge
      <3>2. n \in Nat \ {1} /\ now = HM!Empty(n)
        BY <1>2, <2>1, <3>1
      <3>3. MapTable(n, 0, now) /\ Held(Chains(now)) = {}
        BY <3>2, MapEmpty
      <3>4. Held(Chains(map_slots)) = {}
        <4>1. ASSUME NEW f \in Held(Chains(map_slots)) PROVE FALSE
          BY <1>7, <2>1, MapHeldIsThere
        <4> QED
          BY <4>1
      <3>5. d = 0
        <4>1. KeysIn(Chains(map_slots)) = {}
          BY <3>4 DEF KeysIn
        <4> QED
          BY <1>7, <4>1, FS_EmptySet DEF MapTable
      <3> QED
        BY <3>1, <3>3, <3>4, <3>5, MapRoom
    <2>2. CASE map_num_slots # 0
      <3>1. n = map_num_slots /\ now = map_slots
        BY <1>1, <1>2, <2>2
      <3>2. n \in Nat /\ n > 1
        BY <1>7, <2>2, <3>1 DEF MapTable
      <3> QED
        BY <1>5, <1>7, <3>1, <3>2 DEF MapInv
    <2> QED
      BY <2>1, <2>2
  <1>9. k \notin KeysIn(Chains(map_slots)) /\ k \notin KeysIn(Chains(now))
    BY <1>6, <1>8, MapFound DEF KeysIn
  <1>10. e \in HM!Entry /\ e.key = k
    BY <1>3 DEF HM!Entry
  <1>11. MapAdds(n, now, Hash[e.key] % n, e, t)
    <2>1. Hash[k] % n \in 0 .. n - 1
      BY <1>8, SlotIsThere
    <2> QED
      BY <1>4, <1>8, <1>10, <2>1 DEF MapAdds, MapTable
  <1>12. MapTable(n, d + 1, t) /\ Held(Chains(t)) = Held(Chains(now)) \cup {e}
    <2>1. n \in Nat \ {0} /\ MapTable(n, d, now) /\ e.key \notin KeysIn(Chains(now))
      BY <1>8, <1>9, <1>10
    <2> QED
      BY ONLY <2>1, <1>10, <1>11, MapInsert
  <1>13. CASE d + 1 >= n * CritLoadFactor
    <2>1. PICK m : m = HM!Grown(n)
      OBVIOUS
    <2>2. m \in Nat \ {0, 1} /\ n <= m /\ d + 1 < m * CritLoadFactor
      BY <1>7, <1>8, <2>1, MapRoomToGrow
    <2>3. PICK u : u = HM!Rehash(t, n, m)
      OBVIOUS
    <2>4. MapTable(m, d + 1, u) /\ Held(Chains(u)) = Held(Chains(t))
      <3>1. n \in Nat \ {0}
        BY <1>8
      <3> QED
        BY ONLY <3>1, <1>12, <2>2, <2>3, MapGrow
    <2>5. map_num_slots' = m /\ map_slots' = u
      BY <1>6, <1>13, <2>1, <2>3
    <2>6. MapInv'
      BY <1>6, <2>2, <2>4, <2>5 DEF MapInv
    <2> QED
      BY <1>3, <1>8, <1>9, <1>12, <2>4, <2>5, <2>6
  <1>14. CASE ~(d + 1 >= n * CritLoadFactor)
    <2>1. map_num_slots' = n /\ map_slots' = t
      BY <1>6, <1>14
    <2>2. d + 1 < n * CritLoadFactor
      <3>1. n * CritLoadFactor \in Nat
        BY <1>7, <1>8, MapRoomToGrow
      <3>2. PICK r \in Nat : r = n * CritLoadFactor
        BY <3>1
      <3> QED
        BY <1>7, <1>14, <3>2
    <2>3. MapInv'
      BY <1>6, <1>12, <2>1, <2>2 DEF MapInv
    <2> QED
      BY <1>3, <1>8, <1>9, <1>12, <2>1, <2>3
  <1> QED
    BY <1>13, <1>14

LEMMA MapCards == \A S : HM!Cardinality(S) = Cardinality(S)
  BY DEF HM!Cardinality, Cardinality

(* The store of the dictionary *)
LEMMA MapStoreIs ==
  ASSUME MapTable(map_num_slots, map_num_data, map_slots)
  PROVE  /\ HM!Store = StoreOf(Held(Chains(map_slots)))
         /\ DOMAIN HM!Store = KeysIn(Chains(map_slots))
         /\ \A e, f \in Held(Chains(map_slots)) : e.key = f.key => e = f
  <1>1. /\ HM!EntriesOf(map_slots) = Held(Chains(map_slots))
        /\ HM!Keys = KeysIn(Chains(map_slots))
        /\ \A e, f \in Held(Chains(map_slots)) : e.key = f.key => e = f
    BY MapWords
  <1> QED
    BY <1>1 DEF HM!Store, StoreOf, KeysIn

LEMMA MapGetExactHolds == MapInv => MapGetExact
  <1> SUFFICES ASSUME MapInv PROVE MapGetExact
    OBVIOUS
  <1>1. MapTable(map_num_slots, map_num_data, map_slots)
    BY DEF MapInv
  <1>2. /\ HM!Keys = KeysIn(Chains(map_slots))
        /\ DOMAIN map_slots = 0 .. map_num_slots - 1
        /\ \A x \in DOMAIN map_slots :
             map_slots[x].entries \in Seq(HM!Entry) /\ map_slots[x] \in MapArray
    BY <1>1, MapWords
  <1>3. HM!TypeOK
    <2>1. map_num_data = HM!Cardinality(HM!Keys)
      BY <1>1, <1>2, MapCards DEF MapTable
    <2> QED
      BY <1>1, <1>2, <2>1 DEF HM!TypeOK, MapInv, MapTable
  <1>4. /\ HM!Store = StoreOf(Held(Chains(map_slots)))
        /\ DOMAIN HM!Store = KeysIn(Chains(map_slots))
        /\ \A e, f \in Held(Chains(map_slots)) : e.key = f.key => e = f
    BY <1>1, MapStoreIs
  <1>5. ASSUME NEW k \in Key
        PROVE  HM!Get(k) = IF k \in DOMAIN HM!Store THEN HM!Store[k] ELSE 0
    <2>1. CASE HM!Found(k)
      <3>1. PICK e : e = map_slots[Hash[k] % map_num_slots].entries
                           [HM!IndexIn(map_slots[Hash[k] % map_num_slots], k)]
        OBVIOUS
      <3>2. e \in Held(Chains(map_slots)) /\ e.key = k
        BY <2>1, <3>1, MapFound
      <3>3. HM!Get(k) = e.value
        BY <2>1, <3>1 DEF HM!Get, HM!SlotOf
      <3>4. k \in DOMAIN HM!Store /\ HM!Store[k] = e.value
        BY <1>4, <3>2, StoreGives
      <3> QED
        BY <3>3, <3>4
    <2>2. CASE ~HM!Found(k)
      BY <1>4, <2>2, MapFound DEF HM!Get
    <2> QED
      BY <2>1, <2>2
  <1>6. \A x \in DOMAIN map_slots : Len(map_slots[x].entries) <= map_slots[x].alloc
    BY <1>2 DEF MapArray
  <1>7. map_num_slots > 0 => map_num_data < map_num_slots * CritLoadFactor
    BY DEF MapInv
  <1> QED
    BY <1>3, <1>5, <1>6, <1>7 DEF MapGetExact, HM!GetExact

LEMMA MapStoreEq == MapInv => HM!Store = StoreOf(Held(Chains(map_slots)))
  BY MapStoreIs DEF MapInv

LEMMA MapStoreEqThen == MapInv' => HM!Store' = StoreOf(Held(Chains(map_slots')))
  <1>1. (MapInv => HM!Store = StoreOf(Held(Chains(map_slots))))'
    BY MapStoreEq, PTL
  <1> QED
    BY <1>1

LEMMA MapStoreStays ==
  ASSUME MapInv, MapInv', Held(Chains(map_slots')) = Held(Chains(map_slots))
  PROVE  HM!Store' = HM!Store
  <1>1. HM!Store = StoreOf(Held(Chains(map_slots)))
    BY MapStoreIs DEF MapInv
  <1>2. HM!Store' = StoreOf(Held(Chains(map_slots')))
    BY MapStoreEqThen
  <1> QED
    BY <1>1, <1>2

LEMMA MapStoreEmpties ==
  ASSUME MapInv', Held(Chains(map_slots')) = {}
  PROVE  HM!Store' = <<>>
  <1>1. HM!Store' = StoreOf(Held(Chains(map_slots')))
    BY MapStoreEqThen
  <1>2. StoreOf({}) = <<>>
    BY DEF StoreOf
  <1> QED
    BY <1>1, <1>2

LEMMA MapStoreGets ==
  ASSUME MapInv, MapInv', NEW k \in Key, NEW v \in Value, k \notin KeysIn(Chains(map_slots)),
         Held(Chains(map_slots')) = Held(Chains(map_slots)) \cup {[key |-> k, value |-> v]}
  PROVE  HM!Dict!Put(k, v)
  <1>1. /\ HM!Store = StoreOf(Held(Chains(map_slots)))
        /\ \A e, f \in Held(Chains(map_slots)) : e.key = f.key => e = f
    BY MapStoreIs DEF MapInv
  <1>2. HM!Store' = StoreOf(Held(Chains(map_slots')))
    BY MapStoreEqThen
  <1>3. PICK e : e = [key |-> k, value |-> v]
    OBVIOUS
  <1>4. PICK E : E = Held(Chains(map_slots))
    OBVIOUS
  <1>5. e.key = k /\ e.value = v /\ \A f \in E : f.key # e.key
    BY <1>3, <1>4 DEF KeysIn
  <1>6. StoreOf(E \cup {e}) =
          [x \in DOMAIN StoreOf(E) \cup {e.key} |-> IF x = e.key THEN e.value ELSE StoreOf(E)[x]]
    BY <1>1, <1>4, <1>5, StoreGets
  <1>7. HM!Store' = [x \in DOMAIN HM!Store \cup {k} |-> IF x = k THEN v ELSE HM!Store[x]]
    BY <1>1, <1>2, <1>3, <1>4, <1>5, <1>6
  <1> QED
    BY <1>7 DEF HM!Dict!Put

LEMMA MapStoreSets ==
  ASSUME MapInv, MapInv', NEW k \in Key, NEW v \in Value,
         NEW e \in Held(Chains(map_slots)), e.key = k,
         Held(Chains(map_slots')) =
           (Held(Chains(map_slots)) \ {e}) \cup {[key |-> k, value |-> v]}
  PROVE  HM!Dict!Put(k, v)
  <1>1. /\ HM!Store = StoreOf(Held(Chains(map_slots)))
        /\ \A f, h \in Held(Chains(map_slots)) : f.key = h.key => f = h
    BY MapStoreIs DEF MapInv
  <1>2. HM!Store' = StoreOf(Held(Chains(map_slots')))
    BY MapStoreEqThen
  <1>3. PICK g : g = [key |-> k, value |-> v]
    OBVIOUS
  <1>4. PICK E : E = Held(Chains(map_slots))
    OBVIOUS
  <1>5. g.key = k /\ g.value = v /\ g.key = e.key /\ e \in E
    BY <1>3, <1>4
  <1>6. StoreOf((E \ {e}) \cup {g}) =
          [x \in DOMAIN StoreOf(E) \cup {g.key} |-> IF x = g.key THEN g.value ELSE StoreOf(E)[x]]
    BY <1>1, <1>4, <1>5, StoreSets
  <1>7. HM!Store' = [x \in DOMAIN HM!Store \cup {k} |-> IF x = k THEN v ELSE HM!Store[x]]
    BY <1>1, <1>2, <1>3, <1>4, <1>5, <1>6
  <1> QED
    BY <1>7 DEF HM!Dict!Put

LEMMA MapStoreLoses ==
  ASSUME MapInv, MapInv', NEW e \in Held(Chains(map_slots)),
         Held(Chains(map_slots')) = Held(Chains(map_slots)) \ {e}
  PROVE  HM!Dict!Delete(e.key)
  <1>1. /\ HM!Store = StoreOf(Held(Chains(map_slots)))
        /\ \A f, g \in Held(Chains(map_slots)) : f.key = g.key => f = g
    BY MapStoreIs DEF MapInv
  <1>2. HM!Store' = StoreOf(Held(Chains(map_slots')))
    BY MapStoreEqThen
  <1>3. PICK E : E = Held(Chains(map_slots))
    OBVIOUS
  <1>4. StoreOf(E \ {e}) = [k \in DOMAIN StoreOf(E) \ {e.key} |-> StoreOf(E)[k]]
    BY <1>1, <1>3, StoreLoses
  <1> QED
    BY <1>1, <1>2, <1>3, <1>4 DEF HM!Dict!Delete, HM!Dict!Restrict

LEMMA MapStarts == Init => MapInv /\ HM!Dict!Init
  <1> SUFFICES ASSUME Init PROVE MapInv /\ HM!Dict!Init
    OBVIOUS
  <1>1. PICK z : z = 0
    OBVIOUS
  <1>2. z \in Nat \ {1} /\ z = 0
    BY <1>1
  <1>3. MapTable(z, 0, HM!Empty(z)) /\ Held(Chains(HM!Empty(z))) = {} /\ HM!Empty(z) = <<>>
    BY ONLY <1>2, MapEmpty
  <1>4. map_num_slots = z /\ map_num_data = 0 /\ map_slots = HM!Empty(z) /\ map_status = "none"
    BY <1>1, <1>3 DEF Init, HM!Init
  <1>5. MapInv
    BY <1>1, <1>3, <1>4 DEF MapInv
  <1>6. HM!Store = StoreOf({})
    BY <1>3, <1>4, <1>5, MapStoreEq
  <1>7. StoreOf({}) = <<>>
    BY DEF StoreOf
  <1> QED
    BY <1>5, <1>6, <1>7 DEF HM!Dict!Init

LEMMA MapStep ==
  ASSUME MapInv, [Next]_<<container, set, map, heap, list>>
  PROVE  MapInv' /\ (HM!Dict!Next \/ UNCHANGED HM!Store)
  <1> DEFINE Goal == MapInv' /\ (HM!Dict!Next \/ UNCHANGED HM!Store)
  <1>1. ASSUME NEW n \in InitSize, HM!Create(n) PROVE Goal
    BY <1>1, MapCreateKeeps, MapStoreStays
  <1>2. ASSUME HM!Destroy PROVE Goal
    BY <1>2, MapDestroyKeeps, MapStoreEmpties DEF HM!Dict!Next, HM!Dict!Empty
  <1>3. ASSUME HM!OutOfMemory PROVE Goal
    <2>1. /\ UNCHANGED <<map_num_slots, map_num_data, map_slots>>
          /\ map_status' \in {"crashed", "exited"}
      BY <1>3 DEF HM!OutOfMemory, HM!table
    <2>2. MapInv'
      BY <2>1 DEF MapInv
    <2> QED
      BY <2>1, <2>2, MapStoreStays
  <1>4. ASSUME HM!Clear PROVE Goal
    BY <1>4, MapClearKeeps, MapStoreEmpties DEF HM!Dict!Next, HM!Dict!Empty
  <1>5. ASSUME NEW k \in Key, NEW v \in Value, HM!SetOld(k, v) PROVE Goal
    <2>1. MapInv'
      BY <1>5, MapSetOldKeeps
    <2>2. PICK e \in Held(Chains(map_slots)) :
             /\ e.key = k
             /\ Held(Chains(map_slots')) =
                  (Held(Chains(map_slots)) \ {e}) \cup {[key |-> k, value |-> v]}
      BY <1>5, MapSetOldKeeps
    <2>3. HM!Dict!Put(k, v)
      BY <2>1, <2>2, MapStoreSets
    <2> QED
      BY <2>1, <2>3 DEF HM!Dict!Next
  <1>6. ASSUME NEW k \in Key, NEW v \in Value, HM!SetNew(k, v) PROVE Goal
    <2>1. /\ MapInv' /\ k \notin KeysIn(Chains(map_slots))
          /\ Held(Chains(map_slots')) = Held(Chains(map_slots)) \cup {[key |-> k, value |-> v]}
      BY <1>6, MapSetNewKeeps
    <2>2. HM!Dict!Put(k, v)
      BY <2>1, MapStoreGets
    <2> QED
      BY <2>1, <2>2 DEF HM!Dict!Next
  <1>7. ASSUME NEW k \in Key, HM!Remove_(k) PROVE Goal
    <2>1. MapInv'
      BY <1>7, MapRemoveKeeps
    <2>2. PICK e \in Held(Chains(map_slots)) :
             e.key = k /\ Held(Chains(map_slots')) = Held(Chains(map_slots)) \ {e}
      BY <1>7, MapRemoveKeeps
    <2>3. HM!Dict!Delete(k)
      BY <2>1, <2>2, MapStoreLoses
    <2> QED
      BY <2>1, <2>3 DEF HM!Dict!Next
  <1>8. ASSUME UNCHANGED <<map_num_slots, map_num_data, map_slots, map_status>> PROVE Goal
    <2>1. MapInv'
      BY <1>8 DEF MapInv
    <2> QED
      BY <1>8, <2>1, MapStoreStays
  <1>9. HM!Next \/ UNCHANGED <<map_num_slots, map_num_data, map_slots, map_status>>
    BY DEF Next, SetNext, MapNext, HeapNext, ListNext, map
  <1> HIDE DEF Goal
  <1>10. Goal
    BY <1>1, <1>2, <1>3, <1>4, <1>5, <1>6, <1>7, <1>8, <1>9 DEF HM!Next
  <1> QED
    BY <1>10 DEF Goal

(* nt_hashmap_get looks into one slot, and finds there what was set last,  *)
(* however the table grew; no array is written past its end.               *)
THEOREM MapGetsAll == Spec => []MapGetExact
  <1>1. Init => MapInv
    BY MapStarts
  <1>2. MapInv /\ [Next]_<<container, set, map, heap, list>> => MapInv'
    BY MapStep
  <1> QED
    BY <1>1, <1>2, MapGetExactHolds, PTL DEF Spec

(* The map implements a dictionary: a key has the value it was given last, *)
(* until it is removed.                                                    *)
THEOREM MapImplementsDictionary == Spec => MapIsDictionary
  <1>1. Init => MapInv /\ HM!Dict!Init
    BY MapStarts
  <1>2. MapInv /\ [Next]_<<container, set, map, heap, list>> => MapInv'
    BY MapStep
  <1>3. MapInv /\ [Next]_<<container, set, map, heap, list>> => [HM!Dict!Next]_HM!Store
    BY MapStep
  <1> QED
    BY <1>1, <1>2, <1>3, PTL DEF Spec, MapIsDictionary, HM!IsDictionary, HM!Dict!Spec

-----------------------------------------------------------------------------
(* The binary heap *)

LEMMA HeapConstants ==
  /\ HeapData \subseteq Int /\ FirstElems \in Nat \ {0} /\ MaxElems \in Nat \ {0}
  /\ (Absent \cup {FAIL}) \cap (1 .. MaxElems) = {}
  BY Assumptions DEF BH!BinaryHeapAssumption

(* The parent of a place *)
LEMMA Halves ==
  \A i \in Nat : i >= 2 =>
    /\ i \div 2 \in Nat /\ 1 <= i \div 2 /\ i \div 2 < i
    /\ i = 2 * (i \div 2) \/ i = 2 * (i \div 2) + 1
  OBVIOUS

LEMMA DataAreInts ==
  ASSUME NEW h \in Seq(BH!Elem)
  PROVE  \A i \in 1 .. Len(h) : h[i] \in BH!Elem /\ h[i].key \in HeapKey /\ h[i].data \in Int
  <1>1. \A i \in 1 .. Len(h) : h[i] \in BH!Elem
    OBVIOUS
  <1> QED
    BY <1>1, HeapConstants DEF BH!Elem

(* The element of a place is not less than that of its parent. *)
Ordered(h, i) == h[i \div 2].data <= h[i].data

(* Place p is not less than its parent, and not greater than its children. *)
Below(h, p) == p > 1 => Ordered(h, p)
Above(h, p) == \A i \in 2 .. Len(h) : i \div 2 = p => Ordered(h, i)

(* What is under p is not less than the parent of p. *)
Spanned(h, p) == \A i \in 2 .. Len(h) : i \div 2 = p /\ p > 1 => h[p \div 2].data <= h[i].data

(* The heap is in order but for the element at p and those around it, or   *)
(* but for that and those under it.                                        *)
LooseAt(h, p) == Spanned(h, p) /\ \A i \in 2 .. Len(h) : i # p /\ i \div 2 # p => Ordered(h, i)
HeavyAt(h, p) == Spanned(h, p) /\ \A i \in 2 .. Len(h) : i \div 2 # p => Ordered(h, i)

InOrder(h) == \A i \in 2 .. Len(h) : Ordered(h, i)

LEMMA OrderedAgain ==
  ASSUME NEW h, NEW p
  PROVE  /\ LooseAt(h, p) /\ Below(h, p) => HeavyAt(h, p)
         /\ HeavyAt(h, p) /\ Above(h, p) => InOrder(h)
         /\ LooseAt(h, p) /\ Below(h, p) /\ Above(h, p) => InOrder(h)
  <1>1. ASSUME LooseAt(h, p), Below(h, p) PROVE HeavyAt(h, p)
    BY <1>1 DEF LooseAt, Below, HeavyAt
  <1>2. ASSUME HeavyAt(h, p), Above(h, p) PROVE InOrder(h)
    BY <1>2 DEF HeavyAt, Above, InOrder
  <1> QED
    BY <1>1, <1>2

(* Two elements change places. *)
Swapped(h, i, j, g) ==
    /\ h \in Seq(BH!Elem) /\ Unlike(h)
    /\ i \in 1 .. Len(h) /\ j \in 1 .. Len(h) /\ i # j
    /\ g = [h EXCEPT ![i] = h[j], ![j] = h[i]]

LEMMA SwappedIs ==
  ASSUME NEW h, NEW i, NEW j, NEW g, Swapped(h, i, j, g)
  PROVE  /\ g \in Seq(BH!Elem) /\ Len(g) = Len(h) /\ Unlike(g) /\ Met(g) = Met(h)
         /\ g[i] = h[j] /\ g[j] = h[i]
         /\ \A k \in 1 .. Len(h) : k # i /\ k # j => g[k] = h[k]
  <1> USE DEF Swapped
  <1>1. Len(h) \in Nat /\ h[i] \in BH!Elem /\ h[j] \in BH!Elem
    OBVIOUS
  <1>2. /\ g \in Seq(BH!Elem) /\ Len(g) = Len(h) /\ g[i] = h[j] /\ g[j] = h[i]
        /\ \A k \in 1 .. Len(h) : k # i /\ k # j => g[k] = h[k]
    BY <1>1
  <1>3. \A k \in 1 .. Len(h) :
          \E m \in 1 .. Len(h) : g[k] = h[m] /\ m = IF k = i THEN j ELSE IF k = j THEN i ELSE k
    BY <1>2
  <1>4. Unlike(g)
    <2>1. ASSUME NEW k \in 1 .. Len(h), NEW l \in 1 .. Len(h), g[k].key = g[l].key PROVE k = l
      <3>1. PICK m \in 1 .. Len(h) : g[k] = h[m] /\ m = IF k = i THEN j ELSE IF k = j THEN i ELSE k
        BY <1>3
      <3>2. PICK o \in 1 .. Len(h) : g[l] = h[o] /\ o = IF l = i THEN j ELSE IF l = j THEN i ELSE l
        BY <1>3
      <3>3. m = o
        BY <2>1, <3>1, <3>2 DEF Unlike
      <3> QED
        BY <3>1, <3>2, <3>3
    <2> QED
      BY <1>2, <2>1 DEF Unlike
  <1>5. Met(g) = Met(h)
    <2>1. ASSUME NEW k \in 1 .. Len(h) PROVE g[k] \in Met(h) /\ h[k] \in Met(g)
      <3>1. g[k] \in Met(h)
        BY <1>3 DEF Met
      <3>2. \E m \in 1 .. Len(h) : h[k] = g[m]
        BY <1>2
      <3> QED
        BY <1>2, <3>1, <3>2 DEF Met
    <2> QED
      BY <1>2, <2>1 DEF Met
  <1> QED
    BY <1>2, <1>4, <1>5

(* An element that is less than its parent changes places with it. *)
LEMMA RiseOrders ==
  ASSUME NEW h, NEW p, NEW q, NEW g, Swapped(h, q, p, g), p > 1, q = p \div 2, LooseAt(h, p),
         h[p].data < h[q].data
  PROVE  LooseAt(g, q) /\ Above(g, q)
  <1>1. /\ h \in Seq(BH!Elem) /\ Len(h) \in Nat /\ p \in 2 .. Len(h) /\ q \in 1 .. Len(h)
        /\ q < p /\ Len(g) = Len(h)
    BY SwappedIs DEF Swapped
  <1>2. /\ g[q] = h[p] /\ g[p] = h[q]
        /\ \A k \in 1 .. Len(h) : k # q /\ k # p => g[k] = h[k]
    BY SwappedIs
  <1>3. \A i \in 1 .. Len(h) : h[i].data \in Int
    BY <1>1, DataAreInts
  <1>4. ASSUME NEW i \in 2 .. Len(h)
        PROVE  /\ i # q /\ i \div 2 # q => g[i \div 2].data <= g[i].data
               /\ i \div 2 = q => g[q].data <= g[i].data
               /\ i \div 2 = q /\ q > 1 => g[q \div 2].data <= g[i].data
    <2>1. PICK r \in 1 .. Len(h) : r = i \div 2 /\ r < i
      BY <1>1, Halves
    <2>2. i # p /\ r # p => h[r].data <= h[i].data
      BY <2>1 DEF LooseAt, Ordered
    <2>3. r = p => h[q].data <= h[i].data
      BY <2>1 DEF LooseAt, Spanned
    <2>4. CASE i # q /\ r # q
      <3>1. i # p
        BY <2>1, <2>4
      <3>2. CASE r = p
        BY <1>1, <1>2, <2>1, <2>3, <2>4, <3>1, <3>2
      <3>3. CASE r # p
        BY <1>1, <1>2, <2>1, <2>2, <2>4, <3>1, <3>3
      <3> QED
        BY <2>1, <2>4, <3>2, <3>3
    <2>5. CASE i = q
      BY <2>1, <2>5
    <2>6. CASE r = q
      <3>1. i # q /\ r # p
        BY <1>1, <2>1, <2>6
      <3>2. h[q].data <= g[i].data
        <4>1. CASE i = p
          BY <1>1, <1>2, <1>3, <4>1
        <4>2. CASE i # p
          BY <1>1, <1>2, <2>2, <2>6, <3>1, <4>2
        <4> QED
          BY <4>1, <4>2
      <3>3. g[i].data \in Int
        BY <1>1, SwappedIs, DataAreInts
      <3>4. g[q].data <= g[i].data
        BY <1>1, <1>2, <1>3, <3>2, <3>3
      <3>5. ASSUME q > 1 PROVE g[q \div 2].data <= g[i].data
        <4>1. PICK o \in 1 .. Len(h) : o = q \div 2 /\ o < q
          BY <1>1, <3>5, Halves
        <4>2. h[o].data <= h[q].data
          <5>1. q \in 2 .. Len(h) /\ q # p /\ q \div 2 # p
            BY <1>1, <3>5, <4>1
          <5> QED
            BY <4>1, <5>1 DEF LooseAt, Ordered
        <4>3. g[o] = h[o]
          BY <1>1, <1>2, <4>1
        <4> QED
          BY <1>1, <1>3, <3>2, <3>3, <4>1, <4>2, <4>3
      <3> QED
        BY <2>1, <2>6, <3>4, <3>5
    <2> QED
      BY <2>1, <2>4, <2>5, <2>6
  <1>5. LooseAt(g, q)
    BY <1>1, <1>4 DEF LooseAt, Spanned, Ordered
  <1>6. Above(g, q)
    BY <1>1, <1>4 DEF Above, Ordered
  <1> QED
    BY <1>5, <1>6

(* An element changes places with its least child, which is less. *)
LEMMA SinkOrders ==
  ASSUME NEW h, NEW p, NEW c, NEW g, Swapped(h, p, c, g), c > 1, p = c \div 2, HeavyAt(h, p),
         h[c].data < h[p].data,
         \A i \in 2 .. Len(h) : i \div 2 = p => h[c].data <= h[i].data
  PROVE  HeavyAt(g, c)
  <1>1. /\ h \in Seq(BH!Elem) /\ Len(h) \in Nat /\ c \in 2 .. Len(h) /\ p \in 1 .. Len(h)
        /\ p < c /\ Len(g) = Len(h)
    BY SwappedIs DEF Swapped
  <1>2. /\ g[p] = h[c] /\ g[c] = h[p]
        /\ \A k \in 1 .. Len(h) : k # p /\ k # c => g[k] = h[k]
    BY SwappedIs
  <1>3. \A i \in 1 .. Len(h) : h[i].data \in Int
    BY <1>1, DataAreInts
  <1>4. ASSUME NEW i \in 2 .. Len(h)
        PROVE  /\ i \div 2 # c => g[i \div 2].data <= g[i].data
               /\ i \div 2 = c => g[p].data <= g[i].data
    <2>1. PICK r \in 1 .. Len(h) : r = i \div 2 /\ r < i
      BY <1>1, Halves
    <2>2. r # p => h[r].data <= h[i].data
      BY <2>1 DEF HeavyAt, Ordered
    <2>3. CASE r = c
      <3>1. i # c /\ i # p /\ r # p
        BY <1>1, <2>1, <2>3
      <3> QED
        BY <1>1, <1>2, <2>1, <2>2, <2>3, <3>1
    <2>4. CASE r = p
      <3>1. i # p /\ p # c
        BY <1>1, <2>1, <2>4
      <3>2. CASE i = c
        BY <1>1, <1>2, <1>3, <2>1, <2>4, <3>1, <3>2
      <3>3. CASE i # c
        <4>1. h[c].data <= h[i].data
          BY <2>1, <2>4
        <4> QED
          BY <1>1, <1>2, <2>1, <2>4, <3>1, <3>3, <4>1
      <3> QED
        BY <3>2, <3>3
    <2>5. CASE r # c /\ r # p
      <3>1. i # c
        BY <2>1, <2>5
      <3>2. CASE i = p
        <4>1. h[r].data <= h[c].data
          <5>1. c \in 2 .. Len(h) /\ c \div 2 = p /\ p > 1 /\ p \div 2 = r
            BY <1>1, <2>1, <3>2
          <5> QED
            BY <5>1 DEF HeavyAt, Spanned
        <4> QED
          BY <1>1, <1>2, <2>1, <2>5, <3>2, <4>1
      <3>3. CASE i # p
        BY <1>1, <1>2, <2>1, <2>2, <2>5, <3>1, <3>3
      <3> QED
        BY <3>2, <3>3
    <2> QED
      BY <2>3, <2>4, <2>5
  <1> QED
    BY <1>1, <1>4 DEF HeavyAt, Spanned, Ordered

(* The index knows every place, or every place but p. *)
KeysHeld(h) == {h[i].key : i \in 1 .. Len(h)}
IndexAll(h, ix) ==
    direct =>
      /\ DOMAIN ix = KeysHeld(h)
      /\ \A i \in 1 .. Len(h) : ix[h[i].key] = i
IndexBut(h, ix, p) ==
    direct =>
      /\ DOMAIN ix \cup {h[p].key} = KeysHeld(h)
      /\ \A i \in 1 .. Len(h) : i # p => h[i].key \in DOMAIN ix /\ ix[h[i].key] = i

LEMMA IndexAllIsBut ==
  ASSUME NEW h, NEW ix, NEW p \in 1 .. Len(h), IndexAll(h, ix)
  PROVE  IndexBut(h, ix, p)
  <1>1. \A i \in 1 .. Len(h) : h[i].key \in KeysHeld(h)
    BY DEF KeysHeld
  <1> QED
    BY <1>1 DEF IndexAll, IndexBut

LEMMA IndexedInKeys ==
  ASSUME NEW ix, NEW k \in HeapKey, NEW i, DOMAIN ix \subseteq HeapKey
  PROVE  DOMAIN BH!Indexed(ix, k, i) \subseteq HeapKey
  BY DEF BH!Indexed

LEMMA IndexLast ==
  ASSUME NEW h \in Seq(BH!Elem), Unlike(h), NEW p \in 1 .. Len(h), NEW ix, IndexBut(h, ix, p)
  PROVE  IndexAll(h, BH!Indexed(ix, h[p].key, p))
  <1>1. SUFFICES ASSUME direct
                 PROVE  IndexAll(h, BH!Indexed(ix, h[p].key, p))
    BY DEF IndexAll
  <1>2. PICK jx : jx = BH!Indexed(ix, h[p].key, p)
    OBVIOUS
  <1>3. /\ DOMAIN jx = DOMAIN ix \cup {h[p].key} /\ jx[h[p].key] = p
        /\ \A x \in DOMAIN ix : x # h[p].key => jx[x] = ix[x]
    BY <1>1, <1>2 DEF BH!Indexed
  <1>4. ASSUME NEW i \in 1 .. Len(h) PROVE jx[h[i].key] = i
    <2>1. CASE i = p
      BY <1>3, <2>1
    <2>2. CASE i # p
      <3>1. h[i].key # h[p].key
        BY <2>2 DEF Unlike
      <3>2. h[i].key \in DOMAIN ix /\ ix[h[i].key] = i
        BY <1>1, <2>2 DEF IndexBut
      <3> QED
        BY <1>3, <3>1, <3>2
    <2> QED
      BY <2>1, <2>2
  <1>5. DOMAIN jx = KeysHeld(h)
    BY <1>1, <1>3 DEF IndexBut
  <1> QED
    BY <1>2, <1>4, <1>5 DEF IndexAll

(* A swap indexes both elements anew. *)
LEMMA SwapIndexes ==
  ASSUME NEW h, NEW i, NEW j, NEW g, Swapped(h, i, j, g), NEW p \in {i, j}, NEW ix,
         IndexBut(h, ix, p)
  PROVE  IndexAll(g, BH!Indexed(BH!Indexed(ix, g[i].key, i), g[j].key, j))
  <1>1. SUFFICES ASSUME direct
                 PROVE  IndexAll(g, BH!Indexed(BH!Indexed(ix, g[i].key, i), g[j].key, j))
    BY DEF IndexAll
  <1>2. /\ Unlike(g) /\ Len(g) = Len(h) /\ Len(h) \in Nat /\ g[i] = h[j] /\ g[j] = h[i]
        /\ \A k \in 1 .. Len(h) : k # i /\ k # j => g[k] = h[k]
        /\ i \in 1 .. Len(h) /\ j \in 1 .. Len(h) /\ i # j
    <2>1. h \in Seq(BH!Elem) /\ i \in 1 .. Len(h) /\ j \in 1 .. Len(h) /\ i # j
      BY DEF Swapped
    <2> QED
      BY <2>1, SwappedIs
  <1>3. PICK a, b : a = g[i].key /\ b = g[j].key
    OBVIOUS
  <1>4. a # b
    BY <1>2, <1>3 DEF Unlike
  <1>5. PICK jx : jx = BH!Indexed(ix, a, i)
    OBVIOUS
  <1>6. /\ DOMAIN jx = DOMAIN ix \cup {a} /\ jx[a] = i
        /\ \A x \in DOMAIN ix : x # a => jx[x] = ix[x]
    BY <1>1, <1>5 DEF BH!Indexed
  <1>7. PICK kx : kx = BH!Indexed(jx, b, j)
    OBVIOUS
  <1>8. /\ DOMAIN kx = DOMAIN jx \cup {b} /\ kx[b] = j
        /\ \A x \in DOMAIN jx : x # b => kx[x] = jx[x]
    BY <1>1, <1>7 DEF BH!Indexed
  <1>9. ASSUME NEW k \in 1 .. Len(g) PROVE kx[g[k].key] = k
    <2>1. CASE k = j
      BY <1>3, <1>8, <2>1
    <2>2. CASE k = i
      <3>1. a \in DOMAIN jx
        BY <1>6
      <3> QED
        BY <1>3, <1>4, <1>6, <1>8, <2>2, <3>1
    <2>3. CASE k # i /\ k # j
      <3>1. g[k] = h[k] /\ k # p
        BY <1>2, <2>3
      <3>2. h[k].key \in DOMAIN ix /\ ix[h[k].key] = k
        BY <1>1, <1>2, <3>1 DEF IndexBut
      <3>3. g[k].key # a /\ g[k].key # b
        BY <1>2, <1>3, <2>3 DEF Unlike
      <3> QED
        BY <1>6, <1>8, <3>1, <3>2, <3>3
    <2> QED
      BY <2>1, <2>2, <2>3
  <1>10. DOMAIN kx = KeysHeld(g)
    <2>1. DOMAIN kx = DOMAIN ix \cup {a, b}
      BY <1>6, <1>8
    <2>2. {a, b} = {h[i].key, h[j].key}
      BY <1>2, <1>3
    <2>3. KeysHeld(h) = KeysHeld(g)
      <3>1. ASSUME NEW k \in 1 .. Len(h)
            PROVE  h[k].key \in KeysHeld(g) /\ g[k].key \in KeysHeld(h)
        <4>1. (\E m \in 1 .. Len(h) : h[k] = g[m]) /\ (\E m \in 1 .. Len(h) : g[k] = h[m])
          BY <1>2
        <4> QED
          BY <1>2, <4>1 DEF KeysHeld
      <3> QED
        BY <1>2, <3>1 DEF KeysHeld
    <2>4. h[p].key \in {a, b} /\ {a, b} \subseteq KeysHeld(h)
      <3>1. h[i].key \in KeysHeld(h) /\ h[j].key \in KeysHeld(h)
        BY <1>2 DEF KeysHeld
      <3> QED
        BY <2>2, <3>1
    <2>5. DOMAIN ix \cup {h[p].key} = KeysHeld(h)
      BY <1>1 DEF IndexBut
    <2> QED
      BY <2>1, <2>3, <2>4, <2>5
  <1> QED
    BY <1>3, <1>5, <1>7, <1>9, <1>10 DEF IndexAll

(* An array of n elements S that one of them moves through *)
HeapAt(x, n, S) ==
    /\ x = BH!At(x.elems, x.index, x.at)
    /\ x.elems \in Seq(BH!Elem) /\ Len(x.elems) = n /\ x.at \in 1 .. n
    /\ Unlike(x.elems) /\ Met(x.elems) = S /\ IndexBut(x.elems, x.index, x.at)
    /\ DOMAIN x.index \subseteq HeapKey

(* From x to y the element has risen, or sunk. *)
RisingFrom(x, y, n, S) ==
    /\ HeapAt(y, n, S) /\ LooseAt(y.elems, y.at) /\ x.at \in 1 .. n /\ y.at <= x.at
    /\ y.at = x.at => y = x
    /\ y.at # x.at => Above(y.elems, y.at) /\ IndexAll(y.elems, y.index)

SinkingFrom(x, y, n, S) ==
    /\ HeapAt(y, n, S) /\ HeavyAt(y.elems, y.at) /\ x.at \in 1 .. n /\ y.at >= x.at
    /\ y.at = x.at => y = x
    /\ y.at # x.at => IndexAll(y.elems, y.index)

LEMMA RiseKeeps ==
  ASSUME NEW x, NEW y, NEW n, NEW S, RisingFrom(x, y, n, S)
  PROVE  /\ RisingFrom(x, BH!Rise(y), n, S)
         /\ (BH!Rise(y) = y /\ Below(y.elems, y.at)) \/ BH!Rise(y).at < y.at
  <1> USE DEF RisingFrom
  <1>1. PICK h, ix, p : h = y.elems /\ ix = y.index /\ p = y.at
    OBVIOUS
  <1>2. /\ h \in Seq(BH!Elem) /\ Len(h) = n /\ n \in Nat /\ p \in 1 .. n /\ Unlike(h) /\ Met(h) = S
        /\ IndexBut(h, ix, p) /\ DOMAIN ix \subseteq HeapKey /\ LooseAt(h, p) /\ x.at \in 1 .. n /\ p <= x.at
    BY <1>1 DEF HeapAt
  <1>3. \A i \in 1 .. Len(h) : h[i].data \in Int
    BY <1>2, DataAreInts
  <1>4. CASE p > 1 /\ h[p].data < h[p \div 2].data
    <2>1. PICK q \in 1 .. n : q = p \div 2 /\ q < p
      BY <1>2, <1>4, Halves
    <2>2. PICK g : g = [h EXCEPT ![q] = h[p], ![p] = h[q]]
      OBVIOUS
    <2>3. Swapped(h, q, p, g)
      BY <1>2, <2>1, <2>2 DEF Swapped
    <2>4. /\ g \in Seq(BH!Elem) /\ Len(g) = n /\ Unlike(g) /\ Met(g) = S
      BY <1>2, <2>3, SwappedIs
    <2>5. LooseAt(g, q) /\ Above(g, q)
      BY <1>2, <1>4, <2>1, <2>3, RiseOrders
    <2>6. PICK jx : jx = BH!Indexed(BH!Indexed(ix, g[q].key, q), g[p].key, p)
      OBVIOUS
    <2>7. IndexAll(g, jx) /\ DOMAIN jx \subseteq HeapKey
      <3>1. g[q].key \in HeapKey /\ g[p].key \in HeapKey
        BY <1>2, <2>1, <2>4, DataAreInts
      <3>2. IndexAll(g, jx)
        BY <1>2, <2>3, <2>6, SwapIndexes
      <3> QED
        BY <1>2, <2>6, <3>1, <3>2, IndexedInKeys
    <2>8. BH!Rise(y) = BH!At(g, jx, q)
      <3>1. BH!Swap(y, q, p) = BH!At(g, jx, p)
        BY <1>1, <2>2, <2>6 DEF BH!Swap
      <3>2. BH!Rise(y) = [BH!Swap(y, q, p) EXCEPT !.at = q]
        BY <1>1, <1>4, <2>1 DEF BH!Rise, BH!Less
      <3> QED
        BY <3>1, <3>2 DEF BH!At
    <2>9. PICK z : z = BH!Rise(y)
      OBVIOUS
    <2>10. z.elems = g /\ z.index = jx /\ z.at = q /\ z = BH!At(z.elems, z.index, z.at)
      BY <2>8, <2>9 DEF BH!At
    <2>11. IndexBut(g, jx, q)
      BY <2>1, <2>4, <2>7, IndexAllIsBut
    <2>12. HeapAt(z, n, S)
      BY <2>1, <2>4, <2>7, <2>10, <2>11 DEF HeapAt
    <2>13. q < x.at
      BY <1>2, <2>1
    <2>14. RisingFrom(x, z, n, S)
      BY <1>2, <2>1, <2>5, <2>7, <2>10, <2>12, <2>13
    <2> QED
      BY <1>1, <2>1, <2>9, <2>10, <2>14
  <1>5. CASE ~(p > 1 /\ h[p].data < h[p \div 2].data)
    <2>1. BH!Rise(y) = y
      BY <1>1, <1>5 DEF BH!Rise, BH!Less
    <2>2. Below(h, p)
      <3>1. ASSUME p > 1 PROVE h[p \div 2].data <= h[p].data
        <4>1. p \div 2 \in 1 .. n
          BY <1>2, <3>1, Halves
        <4>2. h[p].data \in Int /\ h[p \div 2].data \in Int
          BY <1>2, <1>3, <4>1
        <4> QED
          BY <1>5, <3>1, <4>2
      <3> QED
        BY <3>1 DEF Below, Ordered
    <2> QED
      BY <1>1, <2>1, <2>2
  <1> QED
    BY <1>4, <1>5

(* The child that is chosen is the least. *)
LEMMA LeastChildIs ==
  ASSUME NEW h \in Seq(BH!Elem), NEW ix, NEW p \in 1 .. Len(h), 2 * p <= Len(h)
  PROVE  LET c == BH!LeastChild(BH!At(h, ix, p), p)
         IN  /\ c \in 2 .. Len(h) /\ c \div 2 = p
             /\ \A i \in 2 .. Len(h) : i \div 2 = p => h[c].data <= h[i].data
  <1>1. PICK c : c = BH!LeastChild(BH!At(h, ix, p), p)
    OBVIOUS
  <1>2. Len(h) \in Nat /\ \A i \in 1 .. Len(h) : h[i].data \in Int
    BY DataAreInts
  <1>3. \A i \in 2 .. Len(h) : i \div 2 = p => i = 2 * p \/ i = 2 * p + 1
    BY <1>2, Halves
  <1>4. 2 * p \in 2 .. Len(h) /\ (2 * p) \div 2 = p /\ (2 * p + 1) \div 2 = p
    BY <1>2
  <1>5. CASE 2 * p + 1 <= Len(h) /\ h[2 * p + 1].data < h[2 * p].data
    <2>1. c = 2 * p + 1
      BY <1>1, <1>5 DEF BH!LeastChild, BH!Less, BH!At
    <2>2. 2 * p + 1 \in 2 .. Len(h)
      BY <1>2, <1>4, <1>5
    <2>3. \A i \in 2 .. Len(h) : i \div 2 = p => h[c].data <= h[i].data
      BY <1>2, <1>3, <1>5, <2>1, <2>2
    <2> QED
      BY <1>1, <1>4, <2>1, <2>2, <2>3
  <1>6. CASE ~(2 * p + 1 <= Len(h) /\ h[2 * p + 1].data < h[2 * p].data)
    <2>1. c = 2 * p
      BY <1>1, <1>6 DEF BH!LeastChild, BH!Less, BH!At
    <2>2. ASSUME NEW i \in 2 .. Len(h), i \div 2 = p PROVE h[c].data <= h[i].data
      <3>1. h[2 * p].data \in Int /\ h[i].data \in Int
        BY <1>2, <1>4
      <3>2. CASE i = 2 * p
        BY <2>1, <3>1, <3>2
      <3>3. CASE i = 2 * p + 1
        BY <1>2, <1>6, <2>1, <3>1, <3>3
      <3> QED
        BY <1>3, <2>2, <3>2, <3>3
    <2> QED
      BY <1>1, <1>4, <2>1, <2>2
  <1> QED
    BY <1>5, <1>6

LEMMA SinkKeeps ==
  ASSUME NEW x, NEW y, NEW n, NEW S, SinkingFrom(x, y, n, S)
  PROVE  /\ SinkingFrom(x, BH!Sink(y), n, S)
         /\ (BH!Sink(y) = y /\ Above(y.elems, y.at)) \/ BH!Sink(y).at > y.at
  <1> USE DEF SinkingFrom
  <1>1. PICK h, ix, p : h = y.elems /\ ix = y.index /\ p = y.at
    OBVIOUS
  <1>2. /\ h \in Seq(BH!Elem) /\ Len(h) = n /\ n \in Nat /\ p \in 1 .. n /\ Unlike(h) /\ Met(h) = S
        /\ IndexBut(h, ix, p) /\ DOMAIN ix \subseteq HeapKey /\ HeavyAt(h, p) /\ x.at \in 1 .. n /\ p >= x.at
        /\ y = BH!At(h, ix, p)
    BY <1>1 DEF HeapAt
  <1>3. \A i \in 1 .. Len(h) : h[i].data \in Int
    BY <1>2, DataAreInts
  <1>4. PICK c : c = BH!LeastChild(y, p)
    OBVIOUS
  <1>5. ASSUME 2 * p <= n
        PROVE  /\ c \in 2 .. n /\ c \div 2 = p
               /\ \A i \in 2 .. n : i \div 2 = p => h[c].data <= h[i].data
    BY <1>2, <1>4, <1>5, LeastChildIs
  <1>6. CASE 2 * p <= n /\ h[c].data < h[p].data
    <2>1. /\ c \in 2 .. n /\ c \div 2 = p /\ p < c
          /\ \A i \in 2 .. n : i \div 2 = p => h[c].data <= h[i].data
      BY <1>2, <1>5, <1>6, Halves
    <2>2. PICK g : g = [h EXCEPT ![p] = h[c], ![c] = h[p]]
      OBVIOUS
    <2>3. Swapped(h, p, c, g)
      BY <1>2, <2>1, <2>2 DEF Swapped
    <2>4. /\ g \in Seq(BH!Elem) /\ Len(g) = n /\ Unlike(g) /\ Met(g) = S
      BY <1>2, <2>3, SwappedIs
    <2>5. HeavyAt(g, c)
      <3>1. c > 1 /\ p = c \div 2 /\ h[c].data < h[p].data /\ HeavyAt(h, p)
            /\ \A i \in 2 .. Len(h) : i \div 2 = p => h[c].data <= h[i].data
        BY <1>2, <1>6, <2>1
      <3> QED
        BY ONLY <2>3, <3>1, SinkOrders
    <2>6. PICK jx : jx = BH!Indexed(BH!Indexed(ix, g[p].key, p), g[c].key, c)
      OBVIOUS
    <2>7. IndexAll(g, jx) /\ DOMAIN jx \subseteq HeapKey
      <3>1. g[p].key \in HeapKey /\ g[c].key \in HeapKey
        BY <1>2, <2>1, <2>4, DataAreInts
      <3>2. IndexAll(g, jx)
        BY <1>2, <2>3, <2>6, SwapIndexes
      <3> QED
        BY <1>2, <2>6, <3>1, <3>2, IndexedInKeys
    <2>8. BH!Sink(y) = BH!At(g, jx, c)
      <3>1. BH!Swap(y, p, c) = BH!At(g, jx, p)
        BY <1>1, <2>2, <2>6 DEF BH!Swap
      <3>2. BH!Sink(y) = [BH!Swap(y, p, c) EXCEPT !.at = c]
        BY <1>1, <1>2, <1>4, <1>6 DEF BH!Sink, BH!Less
      <3> QED
        BY <3>1, <3>2 DEF BH!At
    <2>9. PICK z : z = BH!Sink(y)
      OBVIOUS
    <2>10. z.elems = g /\ z.index = jx /\ z.at = c /\ z = BH!At(z.elems, z.index, z.at)
      BY <2>8, <2>9 DEF BH!At
    <2>11. IndexBut(g, jx, c)
      BY <2>1, <2>4, <2>7, IndexAllIsBut
    <2>12. HeapAt(z, n, S)
      BY <1>2, <2>1, <2>4, <2>7, <2>10, <2>11 DEF HeapAt
    <2>13. c > x.at
      BY <1>2, <2>1
    <2>14. SinkingFrom(x, z, n, S)
      BY <1>2, <2>1, <2>5, <2>7, <2>10, <2>12, <2>13
    <2> QED
      BY <1>1, <2>1, <2>9, <2>10, <2>14
  <1>7. CASE ~(2 * p <= n /\ h[c].data < h[p].data)
    <2>1. BH!Sink(y) = y
      BY <1>1, <1>2, <1>4, <1>7 DEF BH!Sink, BH!Less
    <2>2. ASSUME NEW i \in 2 .. n, i \div 2 = p PROVE h[p].data <= h[i].data
      <3>1. 2 * p <= n
        BY <1>2, <2>2, Halves
      <3>2. c \in 1 .. n /\ h[c].data <= h[i].data
        BY <1>2, <1>5, <2>2, <3>1
      <3>3. h[c].data \in Int /\ h[p].data \in Int /\ h[i].data \in Int
        BY <1>2, <1>3, <3>2
      <3> QED
        BY <1>7, <3>1, <3>2, <3>3
    <2>3. Above(h, p)
      BY <1>2, <2>2 DEF Above, Ordered
    <2> QED
      BY <1>1, <2>1, <2>3
  <1> QED
    BY <1>6, <1>7

(* One that is in its place stays.                                         *)
LEMMA RiseRests ==
  ASSUME NEW x, NEW y, NEW n, NEW S, RisingFrom(x, y, n, S), Below(y.elems, y.at)
  PROVE  BH!Rise(y) = y
  <1>1. y.elems \in Seq(BH!Elem) /\ y.at \in 1 .. Len(y.elems)
    BY DEF RisingFrom, HeapAt
  <1>2. \A i \in 1 .. Len(y.elems) : y.elems[i].data \in Int
    BY <1>1, DataAreInts
  <1>3. ASSUME y.at > 1 PROVE ~(y.elems[y.at].data < y.elems[y.at \div 2].data)
    <2>1. y.at \div 2 \in 1 .. Len(y.elems)
      BY <1>1, <1>3, Halves
    <2>2. y.elems[y.at \div 2].data <= y.elems[y.at].data
      BY <1>3 DEF Below, Ordered
    <2> QED
      BY <1>1, <1>2, <2>1, <2>2
  <1> QED
    BY <1>3 DEF BH!Rise, BH!Less

(* The same for one that has sunk.                                         *)
LEMMA SinkRests ==
  ASSUME NEW x, NEW y, NEW n, NEW S, SinkingFrom(x, y, n, S), Above(y.elems, y.at)
  PROVE  BH!Sink(y) = y
  <1>1. y.elems \in Seq(BH!Elem) /\ y.at \in 1 .. Len(y.elems) /\ y = BH!At(y.elems, y.index, y.at)
    BY DEF SinkingFrom, HeapAt
  <1>2. \A i \in 1 .. Len(y.elems) : y.elems[i].data \in Int
    BY <1>1, DataAreInts
  <1>3. PICK c : c = BH!LeastChild(y, y.at)
    OBVIOUS
  <1>4. ASSUME 2 * y.at <= Len(y.elems) PROVE ~(y.elems[c].data < y.elems[y.at].data)
    <2>1. c \in 2 .. Len(y.elems) /\ c \div 2 = y.at
      BY <1>1, <1>3, <1>4, LeastChildIs
    <2>2. y.elems[y.at].data <= y.elems[c].data
      BY <2>1 DEF Above, Ordered
    <2> QED
      BY <1>1, <1>2, <2>1, <2>2
  <1> QED
    BY <1>3, <1>4 DEF BH!Sink, BH!Less

(* As many turns as there are elements are enough to get to the top.       *)
LEMMA BubbleUpIs ==
  ASSUME NEW n, NEW S, NEW x, HeapAt(x, n, S), LooseAt(x.elems, x.at)
  PROVE  LET y == BH!BubbleUp(x)
         IN  RisingFrom(x, y, n, S) /\ Below(y.elems, y.at)
  <1> DEFINE LoopTo(f, m) == f = [i \in 0 .. m |-> IF i = 0 THEN x ELSE BH!Rise(f[i - 1])]
             after == CHOOSE f : LoopTo(f, n)
             Bad == {m \in Nat : ~ \E f : LoopTo(f, m)}
  <1>1. Len(x.elems) = n /\ n \in Nat /\ x.at \in 1 .. n
    BY DEF HeapAt
  <1>2. BH!BubbleUp(x) = after[n]
    BY <1>1 DEF BH!BubbleUp
  <1>3. Bad = {}
    <2>1. SUFFICES ASSUME Bad # {} PROVE FALSE
      OBVIOUS
    <2>2. PICK m \in Bad : \A j \in Bad : m <= j
      <3>1. Bad \subseteq Nat
        OBVIOUS
      <3> HIDE DEF Bad
      <3> QED
        BY <2>1, <3>1, LeastOf
    <2>3. m \in Nat /\ ~ \E f : LoopTo(f, m)
      OBVIOUS
    <2>4. m # 0
      <3>1. LoopTo([i \in 0 .. 0 |-> x], 0)
        OBVIOUS
      <3> QED
        BY <2>3, <3>1
    <2>5. PICK f : LoopTo(f, m - 1)
      <3>1. m - 1 \in Nat /\ ~(m <= m - 1)
        BY <2>3, <2>4
      <3>2. m - 1 \notin Bad
        <4> HIDE DEF Bad
        <4> QED
          BY <2>2, <3>1
      <3> QED
        BY <3>1, <3>2
    <2> DEFINE g == [i \in 0 .. m |-> IF i < m THEN f[i] ELSE BH!Rise(f[m - 1])]
    <2>6. LoopTo(g, m)
      <3>1. ASSUME NEW i \in 0 .. m PROVE g[i] = IF i = 0 THEN x ELSE BH!Rise(g[i - 1])
        <4>1. \A j \in 0 .. m - 1 : f[j] = IF j = 0 THEN x ELSE BH!Rise(f[j - 1])
          BY <2>5
        <4>2. i # 0 => i - 1 \in 0 .. m /\ i - 1 < m
          BY <2>3
        <4> QED
          BY <2>3, <2>4, <4>1, <4>2
      <3>2. g = [i \in 0 .. m |-> g[i]]
        OBVIOUS
      <3> HIDE DEF g
      <3> QED
        BY <3>1, <3>2
    <2> QED
      BY <2>3, <2>6
  <1>4. LoopTo(after, n)
    <2>1. \E f : LoopTo(f, n)
      <3> HIDE DEF LoopTo
      <3> QED
        BY <1>1, <1>3
    <2> HIDE DEF LoopTo
    <2> QED
      BY <2>1
  <1>5. after[0] = x /\ \A i \in 1 .. n : after[i] = BH!Rise(after[i - 1])
    <2> HIDE DEF after
    <2>1. \A i \in 0 .. n : after[i] = IF i = 0 THEN x ELSE BH!Rise(after[i - 1])
      BY <1>4
    <2> QED
      BY <1>1, <2>1
  <1> HIDE DEF after, LoopTo, Bad
  <1> DEFINE Ok(i) == /\ RisingFrom(x, after[i], n, S)
                      /\ Below(after[i].elems, after[i].at) \/ after[i].at <= x.at - i
             Wrong == {m \in 0 .. n : ~Ok(m)}
  <1>6. Ok(0)
    BY <1>1, <1>5 DEF RisingFrom
  <1>7. ASSUME NEW i \in 0 .. n, i > 0, Ok(i - 1) PROVE Ok(i)
    <2>1. PICK y : y = after[i - 1]
      OBVIOUS
    <2>2. PICK z : z = after[i]
      OBVIOUS
    <2>3. z = BH!Rise(y)
      BY <1>1, <1>5, <1>7, <2>1, <2>2
    <2>4. RisingFrom(x, y, n, S)
      BY <1>7, <2>1
    <2>5. RisingFrom(x, z, n, S) /\ ((z = y /\ Below(y.elems, y.at)) \/ z.at < y.at)
      BY <2>3, <2>4, RiseKeeps
    <2>6. y.at \in 1 .. n /\ z.at \in 1 .. n
      BY <2>4, <2>5 DEF RisingFrom, HeapAt
    <2>7. Below(z.elems, z.at) \/ z.at <= x.at - i
      <3>1. Below(y.elems, y.at) \/ y.at <= x.at - (i - 1)
        BY <1>7, <2>1
      <3>2. ASSUME Below(y.elems, y.at), z # y PROVE FALSE
        BY <2>3, <2>4, <3>2, RiseRests
      <3>3. CASE z = y /\ Below(y.elems, y.at)
        BY <3>3
      <3>4. CASE z.at < y.at
        <4>1. z # y
          BY <2>6, <3>4
        <4>2. y.at <= x.at - (i - 1)
          BY <3>1, <3>2, <4>1
        <4> QED
          BY <1>1, <2>6, <3>4, <4>2
      <3> QED
        BY <2>5, <3>3, <3>4
    <2> QED
      BY <2>2, <2>5, <2>7
  <1>8. Wrong = {}
    <2> HIDE DEF Ok
    <2>1. SUFFICES ASSUME Wrong # {} PROVE FALSE
      OBVIOUS
    <2>2. PICK m \in Wrong : \A j \in Wrong : m <= j
      <3>1. Wrong \subseteq Nat
        BY <1>1
      <3> HIDE DEF Wrong
      <3> QED
        BY <2>1, <3>1, LeastOf
    <2>3. m \in 0 .. n /\ ~Ok(m) /\ m # 0
      BY <1>6
    <2>4. m - 1 \in 0 .. n /\ ~(m <= m - 1)
      BY <1>1, <2>3
    <2>5. Ok(m - 1)
      BY <2>2, <2>4
    <2> QED
      BY <1>1, <1>7, <2>3, <2>5
  <1>9. Ok(n)
    <2> HIDE DEF Ok
    <2>1. n \in 0 .. n
      BY <1>1
    <2> QED
      BY <1>8, <2>1
  <1>10. after[n].at \in 1 .. n
    BY <1>9 DEF RisingFrom, HeapAt
  <1> QED
    BY <1>1, <1>2, <1>9, <1>10

(* And to get to the bottom.                                               *)
LEMMA BubbleDownIs ==
  ASSUME NEW n, NEW S, NEW x, HeapAt(x, n, S), HeavyAt(x.elems, x.at)
  PROVE  LET y == BH!BubbleDown(x)
         IN  SinkingFrom(x, y, n, S) /\ Above(y.elems, y.at)
  <1> DEFINE LoopTo(f, m) == f = [i \in 0 .. m |-> IF i = 0 THEN x ELSE BH!Sink(f[i - 1])]
             after == CHOOSE f : LoopTo(f, n)
             Bad == {m \in Nat : ~ \E f : LoopTo(f, m)}
  <1>1. Len(x.elems) = n /\ n \in Nat /\ x.at \in 1 .. n
    BY DEF HeapAt
  <1>2. BH!BubbleDown(x) = after[n]
    BY <1>1 DEF BH!BubbleDown
  <1>3. Bad = {}
    <2>1. SUFFICES ASSUME Bad # {} PROVE FALSE
      OBVIOUS
    <2>2. PICK m \in Bad : \A j \in Bad : m <= j
      <3>1. Bad \subseteq Nat
        OBVIOUS
      <3> HIDE DEF Bad
      <3> QED
        BY <2>1, <3>1, LeastOf
    <2>3. m \in Nat /\ ~ \E f : LoopTo(f, m)
      OBVIOUS
    <2>4. m # 0
      <3>1. LoopTo([i \in 0 .. 0 |-> x], 0)
        OBVIOUS
      <3> QED
        BY <2>3, <3>1
    <2>5. PICK f : LoopTo(f, m - 1)
      <3>1. m - 1 \in Nat /\ ~(m <= m - 1)
        BY <2>3, <2>4
      <3>2. m - 1 \notin Bad
        <4> HIDE DEF Bad
        <4> QED
          BY <2>2, <3>1
      <3> QED
        BY <3>1, <3>2
    <2> DEFINE g == [i \in 0 .. m |-> IF i < m THEN f[i] ELSE BH!Sink(f[m - 1])]
    <2>6. LoopTo(g, m)
      <3>1. ASSUME NEW i \in 0 .. m PROVE g[i] = IF i = 0 THEN x ELSE BH!Sink(g[i - 1])
        <4>1. \A j \in 0 .. m - 1 : f[j] = IF j = 0 THEN x ELSE BH!Sink(f[j - 1])
          BY <2>5
        <4>2. i # 0 => i - 1 \in 0 .. m /\ i - 1 < m
          BY <2>3
        <4> QED
          BY <2>3, <2>4, <4>1, <4>2
      <3>2. g = [i \in 0 .. m |-> g[i]]
        OBVIOUS
      <3> HIDE DEF g
      <3> QED
        BY <3>1, <3>2
    <2> QED
      BY <2>3, <2>6
  <1>4. LoopTo(after, n)
    <2>1. \E f : LoopTo(f, n)
      <3> HIDE DEF LoopTo
      <3> QED
        BY <1>1, <1>3
    <2> HIDE DEF LoopTo
    <2> QED
      BY <2>1
  <1>5. after[0] = x /\ \A i \in 1 .. n : after[i] = BH!Sink(after[i - 1])
    <2> HIDE DEF after
    <2>1. \A i \in 0 .. n : after[i] = IF i = 0 THEN x ELSE BH!Sink(after[i - 1])
      BY <1>4
    <2> QED
      BY <1>1, <2>1
  <1> HIDE DEF after, LoopTo, Bad
  <1> DEFINE Ok(i) == /\ SinkingFrom(x, after[i], n, S)
                      /\ Above(after[i].elems, after[i].at) \/ after[i].at >= x.at + i
             Wrong == {m \in 0 .. n : ~Ok(m)}
  <1>6. Ok(0)
    BY <1>1, <1>5 DEF SinkingFrom
  <1>7. ASSUME NEW i \in 0 .. n, i > 0, Ok(i - 1) PROVE Ok(i)
    <2>1. PICK y : y = after[i - 1]
      OBVIOUS
    <2>2. PICK z : z = after[i]
      OBVIOUS
    <2>3. z = BH!Sink(y)
      BY <1>1, <1>5, <1>7, <2>1, <2>2
    <2>4. SinkingFrom(x, y, n, S)
      BY <1>7, <2>1
    <2>5. SinkingFrom(x, z, n, S) /\ ((z = y /\ Above(y.elems, y.at)) \/ z.at > y.at)
      BY <2>3, <2>4, SinkKeeps
    <2>6. y.at \in 1 .. n /\ z.at \in 1 .. n
      BY <2>4, <2>5 DEF SinkingFrom, HeapAt
    <2>7. Above(z.elems, z.at) \/ z.at >= x.at + i
      <3>1. Above(y.elems, y.at) \/ y.at >= x.at + (i - 1)
        BY <1>7, <2>1
      <3>2. ASSUME Above(y.elems, y.at), z # y PROVE FALSE
        BY <2>3, <2>4, <3>2, SinkRests
      <3>3. CASE z = y /\ Above(y.elems, y.at)
        BY <3>3
      <3>4. CASE z.at > y.at
        <4>1. z # y
          BY <2>6, <3>4
        <4>2. y.at >= x.at + (i - 1)
          BY <3>1, <3>2, <4>1
        <4> QED
          BY <1>1, <2>6, <3>4, <4>2
      <3> QED
        BY <2>5, <3>3, <3>4
    <2> QED
      BY <2>2, <2>5, <2>7
  <1>8. Wrong = {}
    <2> HIDE DEF Ok
    <2>1. SUFFICES ASSUME Wrong # {} PROVE FALSE
      OBVIOUS
    <2>2. PICK m \in Wrong : \A j \in Wrong : m <= j
      <3>1. Wrong \subseteq Nat
        BY <1>1
      <3> HIDE DEF Wrong
      <3> QED
        BY <2>1, <3>1, LeastOf
    <2>3. m \in 0 .. n /\ ~Ok(m) /\ m # 0
      BY <1>6
    <2>4. m - 1 \in 0 .. n /\ ~(m <= m - 1)
      BY <1>1, <2>3
    <2>5. Ok(m - 1)
      BY <2>2, <2>4
    <2> QED
      BY <1>1, <1>7, <2>3, <2>5
  <1>9. Ok(n)
    <2> HIDE DEF Ok
    <2>1. n \in 0 .. n
      BY <1>1
    <2> QED
      BY <1>8, <2>1
  <1>10. after[n].at \in 1 .. n
    BY <1>9 DEF SinkingFrom, HeapAt
  <1> QED
    BY <1>1, <1>2, <1>9, <1>10

LEMMA SettleIs ==
  ASSUME NEW n, NEW S, NEW x, HeapAt(x, n, S), LooseAt(x.elems, x.at)
  PROVE  LET y == BH!Settle(x)
         IN  /\ HeapAt(y, n, S) /\ InOrder(y.elems)
             /\ y.at = x.at => y = x
             /\ y.at # x.at => IndexAll(y.elems, y.index)
  <1>1. PICK u : u = BH!BubbleUp(x)
    OBVIOUS
  <1>2. RisingFrom(x, u, n, S) /\ Below(u.elems, u.at)
    BY <1>1, BubbleUpIs
  <1>3. HeapAt(u, n, S) /\ LooseAt(u.elems, u.at) /\ (u.at = x.at => u = x)
        /\ (u.at # x.at => Above(u.elems, u.at) /\ IndexAll(u.elems, u.index))
    BY <1>2 DEF RisingFrom
  <1>4. CASE u.at # x.at
    <2>1. BH!Settle(x) = u
      BY <1>1, <1>4 DEF BH!Settle
    <2>2. InOrder(u.elems)
      BY <1>2, <1>3, <1>4, OrderedAgain
    <2> QED
      BY <1>3, <1>4, <2>1, <2>2
  <1>5. CASE u.at = x.at
    <2>1. u = x
      BY <1>3, <1>5
    <2>2. PICK y : y = BH!BubbleDown(x)
      OBVIOUS
    <2>3. BH!Settle(x) = y
      BY <1>1, <1>5, <2>1, <2>2 DEF BH!Settle
    <2>4. HeavyAt(x.elems, x.at)
      BY <1>2, <2>1, OrderedAgain
    <2>5. SinkingFrom(x, y, n, S) /\ Above(y.elems, y.at)
      BY <2>2, <2>4, BubbleDownIs
    <2>6. HeapAt(y, n, S) /\ HeavyAt(y.elems, y.at) /\ (y.at = x.at => y = x)
          /\ (y.at # x.at => IndexAll(y.elems, y.index))
      BY <2>5 DEF SinkingFrom
    <2>7. InOrder(y.elems)
      BY <2>5, <2>6, OrderedAgain
    <2> QED
      BY <2>3, <2>6, <2>7
  <1> QED
    BY <1>4, <1>5

(* After IndexOf the index knows all places. *)
LEMMA IndexOfIs ==
  ASSUME NEW n, NEW S, NEW y, HeapAt(y, n, S), NEW i, y.at # i => IndexAll(y.elems, y.index)
  PROVE  /\ IndexAll(y.elems, BH!IndexOf(y, i))
         /\ DOMAIN BH!IndexOf(y, i) \subseteq HeapKey
  <1>1. /\ y.elems \in Seq(BH!Elem) /\ Unlike(y.elems) /\ y.at \in 1 .. Len(y.elems)
        /\ IndexBut(y.elems, y.index, y.at) /\ DOMAIN y.index \subseteq HeapKey
    BY DEF HeapAt
  <1>2. CASE y.at = i
    <2>1. BH!IndexOf(y, i) = BH!Indexed(y.index, y.elems[i].key, i)
      BY <1>2 DEF BH!IndexOf
    <2>2. y.elems[i].key \in HeapKey
      BY <1>1, <1>2, DataAreInts
    <2> QED
      BY <1>1, <1>2, <2>1, <2>2, IndexLast, IndexedInKeys
  <1>3. CASE y.at # i
    BY <1>1, <1>3 DEF BH!IndexOf
  <1> QED
    BY <1>2, <1>3

(* The heap between two calls *)
HeapArray(h, ix) ==
    /\ h \in Seq(BH!Elem) /\ Unlike(h) /\ InOrder(h)
    /\ IndexAll(h, ix) /\ DOMAIN ix \subseteq HeapKey

(* h is c, or the beginning of it, but for its element i. *)
AgreesBut(c, h, i) ==
    /\ c \in Seq(BH!Elem) /\ h \in Seq(BH!Elem) /\ Len(h) <= Len(c) /\ i \in 1 .. Len(h)
    /\ \A j \in 1 .. Len(h) : j # i => h[j] = c[j]

LEMMA AgreesIsLoose ==
  ASSUME NEW c, NEW h, NEW i, AgreesBut(c, h, i), InOrder(c)
  PROVE  LooseAt(h, i)
  <1>1. /\ Len(c) \in Nat /\ Len(h) \in Nat /\ Len(h) <= Len(c) /\ i \in 1 .. Len(h)
        /\ \A j \in 1 .. Len(h) : j # i => h[j] = c[j]
        /\ \A j \in 1 .. Len(c) : c[j].data \in Int
    BY DataAreInts DEF AgreesBut
  <1>2. ASSUME NEW j \in 2 .. Len(h)
        PROVE  /\ j # i /\ j \div 2 # i => h[j \div 2].data <= h[j].data
               /\ j \div 2 = i /\ i > 1 => h[i \div 2].data <= h[j].data
    <2>1. PICK r \in 1 .. Len(h) : r = j \div 2 /\ r < j
      BY <1>1, Halves
    <2>2. c[r].data <= c[j].data
      BY <1>1, <2>1 DEF InOrder, Ordered
    <2>3. ASSUME r = i, i > 1 PROVE h[i \div 2].data <= h[j].data
      <3>1. PICK o \in 1 .. Len(h) : o = i \div 2 /\ o < i
        BY <1>1, <2>3, Halves
      <3>2. c[o].data <= c[i].data
        BY <1>1, <2>3, <3>1 DEF InOrder, Ordered
      <3>3. h[o] = c[o] /\ h[j] = c[j]
        BY <1>1, <2>1, <2>3, <3>1
      <3>4. c[o].data \in Int /\ c[i].data \in Int /\ c[j].data \in Int
        BY <1>1
      <3> QED
        BY <2>2, <2>3, <3>1, <3>2, <3>3, <3>4
    <2> QED
      BY <1>1, <2>1, <2>2, <2>3
  <1> QED
    BY <1>2 DEF LooseAt, Spanned, Ordered

LEMMA KeysHeldAre ==
  ASSUME NEW h
  PROVE  KeysHeld(h) = {e.key : e \in Met(h)}
  BY DEF KeysHeld, Met

(* One element more, which finds its place from the end *)
LEMMA HeapTakesIn ==
  ASSUME NEW h, NEW ix, HeapArray(h, ix), NEW e \in BH!Elem, e.key \notin KeysHeld(h)
  PROVE  LET n == Len(h) + 1
             y == BH!BubbleUp(BH!At(Append(h, e), ix, n))
         IN  /\ HeapArray(y.elems, BH!IndexOf(y, n))
             /\ Len(y.elems) = n /\ Met(y.elems) = Met(h) \cup {e}
  <1>1. /\ h \in Seq(BH!Elem) /\ Unlike(h) /\ InOrder(h) /\ IndexAll(h, ix)
        /\ DOMAIN ix \subseteq HeapKey
    BY DEF HeapArray
  <1>2. PICK n : n = Len(h) + 1
    OBVIOUS
  <1>3. PICK g : g = Append(h, e)
    OBVIOUS
  <1>4. /\ g \in Seq(BH!Elem) /\ Len(g) = n /\ n \in Nat /\ n \in 1 .. n /\ g[n] = e
        /\ \A j \in 1 .. n - 1 : g[j] = h[j]
    BY <1>1, <1>2, <1>3
  <1>5. Met(g) = Met(h) \cup {e} /\ Unlike(g)
    <2>1. TakesIn(h, e, g)
      BY <1>3 DEF TakesIn
    <2>2. \A f \in Met(h) : f.key # e.key
      BY KeysHeldAre
    <2> QED
      BY <1>1, <2>1, <2>2, ChainGrows
  <1>6. IndexBut(g, ix, n)
    <2>1. SUFFICES ASSUME direct PROVE IndexBut(g, ix, n)
      BY DEF IndexBut
    <2>2. KeysHeld(g) = KeysHeld(h) \cup {e.key}
      BY <1>5, KeysHeldAre
    <2>3. ASSUME NEW j \in 1 .. Len(g), j # n PROVE g[j].key \in DOMAIN ix /\ ix[g[j].key] = j
      <3>1. j \in 1 .. n - 1 /\ j \in 1 .. Len(h)
        BY <1>1, <1>2, <1>4, <2>3
      <3>2. g[j] = h[j] /\ h[j].key \in KeysHeld(h)
        BY <1>4, <3>1 DEF KeysHeld
      <3> QED
        BY <1>1, <2>1, <3>1, <3>2 DEF IndexAll
    <2> QED
      BY <1>1, <1>4, <2>1, <2>2, <2>3 DEF IndexAll, IndexBut
  <1>7. PICK x : x = BH!At(g, ix, n)
    OBVIOUS
  <1>8. x.elems = g /\ x.index = ix /\ x.at = n /\ x = BH!At(x.elems, x.index, x.at)
    BY <1>7 DEF BH!At
  <1>9. PICK S : S = Met(h) \cup {e}
    OBVIOUS
  <1>10. HeapAt(x, n, S)
    BY <1>1, <1>4, <1>5, <1>6, <1>8, <1>9 DEF HeapAt
  <1>11. \A j \in 2 .. n : j \div 2 # n
    BY <1>4, Halves
  <1>12. Above(g, n) /\ LooseAt(g, n)
    <2>1. ASSUME NEW j \in 2 .. n, j # n, j \div 2 # n PROVE g[j \div 2].data <= g[j].data
      <3>1. j \in 2 .. Len(h) /\ j \in 1 .. n - 1
        BY <1>1, <1>2, <1>4, <2>1
      <3>2. j \div 2 \in 1 .. n - 1
        BY <1>4, <2>1, Halves
      <3>3. h[j \div 2].data <= h[j].data
        BY <1>1, <3>1 DEF InOrder, Ordered
      <3> QED
        BY <1>4, <3>1, <3>2, <3>3
    <2> QED
      BY <1>4, <1>11, <2>1 DEF LooseAt, Spanned, Above, Ordered
  <1>13. PICK y : y = BH!BubbleUp(x)
    OBVIOUS
  <1>14. RisingFrom(x, y, n, S) /\ Below(y.elems, y.at)
    BY <1>8, <1>10, <1>12, <1>13, BubbleUpIs
  <1>15. HeapAt(y, n, S) /\ LooseAt(y.elems, y.at) /\ (y.at = x.at => y = x)
         /\ (y.at # x.at => Above(y.elems, y.at) /\ IndexAll(y.elems, y.index))
    BY <1>14 DEF RisingFrom
  <1>16. InOrder(y.elems)
    <2>1. Above(y.elems, y.at)
      BY <1>8, <1>12, <1>15
    <2> QED
      BY <1>14, <1>15, <2>1, OrderedAgain
  <1>17. /\ IndexAll(y.elems, BH!IndexOf(y, n))
         /\ DOMAIN BH!IndexOf(y, n) \subseteq HeapKey
    BY <1>8, <1>15, IndexOfIs
  <1>18. y.elems \in Seq(BH!Elem) /\ Len(y.elems) = n /\ Unlike(y.elems) /\ Met(y.elems) = S
    BY <1>15 DEF HeapAt
  <1>19. HeapArray(y.elems, BH!IndexOf(y, n))
    BY <1>16, <1>17, <1>18 DEF HeapArray
  <1> QED
    BY <1>2, <1>3, <1>7, <1>9, <1>13, <1>18, <1>19

(* The last element takes the place of element i, and the index no longer  *)
(* knows the key of that.                                                  *)
Departs(h, ix, i, g, jx) ==
    /\ HeapArray(h, ix) /\ i \in 1 .. Len(h) /\ LastMoves(h, i, g)
    /\ IF direct THEN jx = [k \in DOMAIN ix \ {h[i].key} |-> ix[k]] ELSE jx = ix

LEMMA DepartsIs ==
  ASSUME NEW h, NEW ix, NEW i, NEW g, NEW jx, Departs(h, ix, i, g, jx)
  PROVE  /\ g \in Seq(BH!Elem) /\ Len(g) = Len(h) - 1 /\ Met(g) = Met(h) \ {h[i]} /\ Unlike(g)
         /\ DOMAIN jx \subseteq HeapKey
         /\ i = Len(h) => HeapArray(g, jx)
         /\ i # Len(h) => LooseAt(g, i) /\ IndexBut(g, jx, i)
  <1>1. /\ h \in Seq(BH!Elem) /\ Unlike(h) /\ InOrder(h) /\ IndexAll(h, ix)
        /\ DOMAIN ix \subseteq HeapKey /\ i \in 1 .. Len(h) /\ Len(h) \in Nat
    BY DEF Departs, HeapArray
  <1>2. LastMoves(h, i, g)
    BY DEF Departs
  <1>3. IF direct THEN jx = [k \in DOMAIN ix \ {h[i].key} |-> ix[k]] ELSE jx = ix
    BY DEF Departs
  <1>4. /\ g \in Seq(BH!Elem) /\ Len(g) = Len(h) - 1 /\ Met(g) = Met(h) \ {h[i]} /\ Unlike(g)
        /\ \A j \in 1 .. Len(h) - 1 : g[j] = IF j = i THEN h[Len(h)] ELSE h[j]
    BY ONLY <1>1, <1>2, LastTakesPlace
  <1>5. DOMAIN jx \subseteq HeapKey
    BY <1>1, <1>3
  <1>6. KeysHeld(g) = KeysHeld(h) \ {h[i].key}
    <2>1. ASSUME NEW e \in Met(h), e.key = h[i].key PROVE e = h[i]
      BY <1>1, <2>1 DEF Met, Unlike
    <2> QED
      BY <1>4, <2>1, KeysHeldAre
  <1>7. ASSUME NEW j \in 1 .. Len(g), direct, j # i \/ i = Len(h)
        PROVE  g[j].key \in DOMAIN jx /\ jx[g[j].key] = j
    <2>1. j \in 1 .. Len(h) /\ j # i /\ g[j] = h[j]
      BY <1>1, <1>4, <1>7
    <2>2. h[j].key \in KeysHeld(h) /\ h[j].key # h[i].key
      BY <1>1, <2>1 DEF KeysHeld, Unlike
    <2>3. h[j].key \in DOMAIN ix /\ ix[h[j].key] = j
      BY <1>1, <1>7, <2>1, <2>2 DEF IndexAll
    <2> QED
      BY <1>3, <1>7, <2>1, <2>2, <2>3
  <1>8. direct => DOMAIN jx = KeysHeld(g)
    BY <1>1, <1>3, <1>6 DEF IndexAll
  <1>9. ASSUME i = Len(h) PROVE HeapArray(g, jx)
    <2>1. \A j \in 1 .. Len(g) : g[j] = h[j]
      BY <1>1, <1>4, <1>9
    <2>2. InOrder(g)
      <3>1. ASSUME NEW j \in 2 .. Len(g) PROVE g[j \div 2].data <= g[j].data
        <4>1. j \div 2 \in 1 .. Len(g)
          BY <1>4, Halves
        <4>2. j \in 2 .. Len(h)
          BY <1>1, <1>4
        <4>3. h[j \div 2].data <= h[j].data
          BY <1>1, <4>2 DEF InOrder, Ordered
        <4> QED
          BY <1>4, <2>1, <4>1, <4>3
      <3> QED
        BY <3>1 DEF InOrder, Ordered
    <2>3. IndexAll(g, jx)
      BY <1>7, <1>8, <1>9 DEF IndexAll
    <2> QED
      BY <1>4, <1>5, <2>2, <2>3 DEF HeapArray
  <1>10. ASSUME i # Len(h) PROVE LooseAt(g, i) /\ IndexBut(g, jx, i)
    <2>1. i \in 1 .. Len(g)
      BY <1>1, <1>4, <1>10
    <2>2. AgreesBut(h, g, i)
      BY <1>1, <1>4, <2>1 DEF AgreesBut
    <2>3. LooseAt(g, i)
      BY <1>1, <2>2, AgreesIsLoose
    <2>4. g[i].key \in KeysHeld(g)
      BY <2>1 DEF KeysHeld
    <2>5. IndexBut(g, jx, i)
      BY <1>7, <1>8, <2>4 DEF IndexBut
    <2> QED
      BY <2>3, <2>5
  <1> QED
    BY <1>4, <1>5, <1>9, <1>10

(* After which it finds its place, up or down. *)
LEMMA HeapLoses ==
  ASSUME NEW h, NEW ix, NEW i, NEW g, NEW jx, Departs(h, ix, i, g, jx), i # Len(h)
  PROVE  LET y == BH!Settle(BH!At(g, jx, i))
         IN  /\ HeapArray(y.elems, BH!IndexOf(y, i))
             /\ Len(y.elems) = Len(h) - 1 /\ Met(y.elems) = Met(h) \ {h[i]}
  <1>1. /\ g \in Seq(BH!Elem) /\ Len(g) = Len(h) - 1 /\ Met(g) = Met(h) \ {h[i]} /\ Unlike(g)
        /\ DOMAIN jx \subseteq HeapKey /\ LooseAt(g, i) /\ IndexBut(g, jx, i)
    BY DepartsIs
  <1>2. i \in 1 .. Len(h) /\ Len(h) \in Nat
    BY DEF Departs, HeapArray
  <1>3. PICK n, S, x : n = Len(h) - 1 /\ S = Met(h) \ {h[i]} /\ x = BH!At(g, jx, i)
    OBVIOUS
  <1>4. x.elems = g /\ x.index = jx /\ x.at = i /\ x = BH!At(x.elems, x.index, x.at)
    BY <1>3 DEF BH!At
  <1>5. i \in 1 .. n
    BY <1>2, <1>3
  <1>6. HeapAt(x, n, S)
    BY <1>1, <1>3, <1>4, <1>5 DEF HeapAt
  <1>7. PICK y : y = BH!Settle(x)
    OBVIOUS
  <1>8. /\ HeapAt(y, n, S) /\ InOrder(y.elems)
        /\ y.at # i => IndexAll(y.elems, y.index)
    BY <1>1, <1>4, <1>6, <1>7, SettleIs
  <1>9. /\ IndexAll(y.elems, BH!IndexOf(y, i))
        /\ DOMAIN BH!IndexOf(y, i) \subseteq HeapKey
    BY <1>8, IndexOfIs
  <1>10. y.elems \in Seq(BH!Elem) /\ Len(y.elems) = n /\ Unlike(y.elems) /\ Met(y.elems) = S
    BY <1>8 DEF HeapAt
  <1>11. HeapArray(y.elems, BH!IndexOf(y, i))
    BY <1>8, <1>9, <1>10 DEF HeapArray
  <1> QED
    BY <1>3, <1>7, <1>10, <1>11

(* From the top there is only down. *)
LEMMA HeapLosesMin ==
  ASSUME NEW h, NEW ix, NEW g, NEW jx, Departs(h, ix, 1, g, jx), Len(h) # 1
  PROVE  LET y == BH!BubbleDown(BH!At(g, jx, 1))
         IN  /\ HeapArray(y.elems, BH!IndexOf(y, 1))
             /\ Len(y.elems) = Len(h) - 1 /\ Met(y.elems) = Met(h) \ {h[1]}
  <1>1. /\ g \in Seq(BH!Elem) /\ Len(g) = Len(h) - 1 /\ Met(g) = Met(h) \ {h[1]} /\ Unlike(g)
        /\ DOMAIN jx \subseteq HeapKey /\ LooseAt(g, 1) /\ IndexBut(g, jx, 1)
    <2>1. 1 # Len(h)
      OBVIOUS
    <2> QED
      BY <2>1, DepartsIs
  <1>2. 1 \in 1 .. Len(h) /\ Len(h) \in Nat
    BY DEF Departs, HeapArray
  <1>3. PICK n, S, x : n = Len(h) - 1 /\ S = Met(h) \ {h[1]} /\ x = BH!At(g, jx, 1)
    OBVIOUS
  <1>4. x.elems = g /\ x.index = jx /\ x.at = 1 /\ x = BH!At(x.elems, x.index, x.at)
    BY <1>3 DEF BH!At
  <1>5. 1 \in 1 .. n
    BY <1>2, <1>3
  <1>6. HeapAt(x, n, S)
    BY <1>1, <1>3, <1>4, <1>5 DEF HeapAt
  <1>7. HeavyAt(g, 1)
    <2>1. Below(g, 1)
      BY DEF Below
    <2> QED
      BY <1>1, <2>1, OrderedAgain
  <1>8. PICK y : y = BH!BubbleDown(x)
    OBVIOUS
  <1>9. SinkingFrom(x, y, n, S) /\ Above(y.elems, y.at)
    BY <1>4, <1>6, <1>7, <1>8, BubbleDownIs
  <1>10. /\ HeapAt(y, n, S) /\ HeavyAt(y.elems, y.at)
         /\ y.at # 1 => IndexAll(y.elems, y.index)
    BY <1>4, <1>9 DEF SinkingFrom
  <1>11. InOrder(y.elems)
    BY <1>9, <1>10, OrderedAgain
  <1>12. /\ IndexAll(y.elems, BH!IndexOf(y, 1))
         /\ DOMAIN BH!IndexOf(y, 1) \subseteq HeapKey
    BY <1>10, IndexOfIs
  <1>13. y.elems \in Seq(BH!Elem) /\ Len(y.elems) = n /\ Unlike(y.elems) /\ Met(y.elems) = S
    BY <1>10 DEF HeapAt
  <1>14. HeapArray(y.elems, BH!IndexOf(y, 1))
    BY <1>11, <1>12, <1>13 DEF HeapArray
  <1> QED
    BY <1>3, <1>8, <1>13, <1>14

(* Element i is given other data, and finds its new place. *)
Renews(h, ix, i, e, g) ==
    /\ HeapArray(h, ix) /\ i \in 1 .. Len(h) /\ e \in BH!Elem /\ e.key = h[i].key
    /\ g = [h EXCEPT ![i] = e]

LEMMA HeapRenews ==
  ASSUME NEW h, NEW ix, NEW i, NEW e, NEW g, Renews(h, ix, i, e, g)
  PROVE  LET y == BH!Settle(BH!At(g, ix, i))
         IN  /\ HeapArray(y.elems, y.index)
             /\ Len(y.elems) = Len(h) /\ Met(y.elems) = (Met(h) \ {h[i]}) \cup {e}
  <1>1. /\ h \in Seq(BH!Elem) /\ Unlike(h) /\ InOrder(h) /\ IndexAll(h, ix)
        /\ DOMAIN ix \subseteq HeapKey /\ i \in 1 .. Len(h) /\ Len(h) \in Nat
        /\ e \in BH!Elem /\ e.key = h[i].key
    BY DEF Renews, HeapArray
  <1>2. /\ g \in Seq(BH!Elem) /\ Len(g) = Len(h)
        /\ \A j \in 1 .. Len(h) : g[j] = IF j = i THEN e ELSE h[j]
    BY <1>1 DEF Renews
  <1>3. \A j \in 1 .. Len(h) : g[j].key = h[j].key
    BY <1>1, <1>2
  <1>4. Unlike(g) /\ KeysHeld(g) = KeysHeld(h)
    BY <1>1, <1>2, <1>3 DEF Unlike, KeysHeld
  <1>5. Met(g) = (Met(h) \ {h[i]}) \cup {e}
    <2>1. ASSUME NEW f \in Met(g) PROVE f = e \/ (f \in Met(h) /\ f # h[i])
      <3>1. PICK j \in 1 .. Len(h) : f = g[j]
        BY <1>2 DEF Met
      <3>2. j # i => h[j] # h[i]
        BY <1>1 DEF Unlike
      <3> QED
        BY <1>2, <3>1, <3>2 DEF Met
    <2>2. ASSUME NEW f \in Met(h), f # h[i] PROVE f \in Met(g)
      <3>1. PICK j \in 1 .. Len(h) : f = h[j]
        BY DEF Met
      <3>2. g[j] = f
        BY <1>2, <2>2, <3>1
      <3> QED
        BY <1>2, <3>2 DEF Met
    <2>3. e \in Met(g)
      <3>1. g[i] = e
        BY <1>1, <1>2
      <3> QED
        BY <1>1, <1>2, <3>1 DEF Met
    <2> QED
      BY <2>1, <2>2, <2>3
  <1>6. IndexAll(g, ix)
    BY <1>1, <1>2, <1>3, <1>4 DEF IndexAll
  <1>7. LooseAt(g, i)
    <2>1. AgreesBut(h, g, i)
      BY <1>1, <1>2 DEF AgreesBut
    <2> QED
      BY <1>1, <2>1, AgreesIsLoose
  <1>8. PICK n, S, x : n = Len(h) /\ S = (Met(h) \ {h[i]}) \cup {e} /\ x = BH!At(g, ix, i)
    OBVIOUS
  <1>9. x.elems = g /\ x.index = ix /\ x.at = i /\ x = BH!At(x.elems, x.index, x.at)
    BY <1>8 DEF BH!At
  <1>10. IndexBut(g, ix, i)
    BY <1>1, <1>2, <1>6, IndexAllIsBut
  <1>11. HeapAt(x, n, S)
    BY <1>1, <1>2, <1>4, <1>5, <1>8, <1>9, <1>10 DEF HeapAt
  <1>12. PICK y : y = BH!Settle(x)
    OBVIOUS
  <1>13. /\ HeapAt(y, n, S) /\ InOrder(y.elems) /\ (y.at = x.at => y = x)
         /\ y.at # x.at => IndexAll(y.elems, y.index)
    BY <1>7, <1>9, <1>11, <1>12, SettleIs
  <1>14. IndexAll(y.elems, y.index)
    BY <1>6, <1>9, <1>13
  <1>15. /\ y.elems \in Seq(BH!Elem) /\ Len(y.elems) = n /\ Unlike(y.elems) /\ Met(y.elems) = S
         /\ DOMAIN y.index \subseteq HeapKey
    BY <1>13 DEF HeapAt
  <1>16. HeapArray(y.elems, y.index)
    BY <1>13, <1>14, <1>15 DEF HeapArray
  <1> QED
    BY <1>8, <1>12, <1>15, <1>16

(* The invariant of the heap: the array is in order, no two elements have *)
(* the same key, and the index knows their places.                         *)
HeapOk ==
    /\ HeapArray(elems, key_index)
    /\ elems_alloc \in Nat /\ Len(elems) <= elems_alloc /\ Len(elems) <= MaxElems
    /\ heap_status \in {"up", "exited", "crashed"} /\ direct \in BOOLEAN /\ absent \in Absent

LEMMA HeapOkIs ==
  ASSUME HeapOk
  PROVE  /\ elems \in Seq(BH!Elem) /\ Len(elems) \in Nat /\ DOMAIN elems = 1 .. Len(elems)
         /\ Unlike(elems) /\ InOrder(elems) /\ IndexAll(elems, key_index)
         /\ DOMAIN key_index \subseteq HeapKey
         /\ BH!Keys = KeysHeld(elems) /\ BH!Range(elems) = Met(elems)
  <1>1. /\ elems \in Seq(BH!Elem) /\ Unlike(elems) /\ InOrder(elems) /\ IndexAll(elems, key_index)
        /\ DOMAIN key_index \subseteq HeapKey
    BY DEF HeapOk, HeapArray
  <1>2. Len(elems) \in Nat /\ DOMAIN elems = 1 .. Len(elems)
    BY <1>1
  <1>3. BH!Keys = KeysHeld(elems) /\ BH!Range(elems) = Met(elems)
    BY <1>2 DEF BH!Keys, KeysHeld, BH!Range, Met
  <1> QED
    BY <1>1, <1>2, <1>3

LEMMA HeapInvHolds == HeapOk => HeapInv
  <1> SUFFICES ASSUME HeapOk PROVE HeapInv
    OBVIOUS
  <1>1. /\ elems \in Seq(BH!Elem) /\ Len(elems) \in Nat /\ DOMAIN elems = 1 .. Len(elems)
        /\ InOrder(elems) /\ IndexAll(elems, key_index) /\ DOMAIN key_index \subseteq HeapKey
        /\ BH!Keys = KeysHeld(elems)
    BY HeapOkIs
  <1>2. BH!TypeOK
    BY <1>1 DEF BH!TypeOK, HeapOk
  <1>3. BH!HeapOrder
    BY <1>1 DEF BH!HeapOrder, InOrder, Ordered
  <1>4. BH!KeyIndexExact
    BY <1>1 DEF BH!KeyIndexExact, IndexAll
  <1> QED
    BY <1>2, <1>3, <1>4 DEF HeapInv, BH!HeapInv

LEMMA HeapArrayThen ==
  ASSUME NEW h, NEW ix, HeapArray(h, ix), elems' = h, key_index' = ix, direct' = direct
  PROVE  HeapArray(elems, key_index)'
  BY DEF HeapArray, IndexAll, KeysHeld, InOrder, Ordered, Unlike

(* Nothing is less than the first element. *)
LEMMA FirstIsLeast ==
  ASSUME NEW h \in Seq(BH!Elem), InOrder(h), NEW i \in 1 .. Len(h)
  PROVE  h[1].data <= h[i].data
  <1> DEFINE Lesser == {j \in 1 .. Len(h) : h[j].data < h[1].data}
  <1>1. Len(h) \in Nat /\ \A j \in 1 .. Len(h) : h[j].data \in Int
    BY DataAreInts
  <1>2. ASSUME NEW m \in Lesser, \A j \in Lesser : m <= j PROVE FALSE
    <2>1. m \in 1 .. Len(h) /\ m # 1 /\ h[m].data < h[1].data
      BY <1>1, <1>2
    <2>2. m \div 2 \in 1 .. Len(h) /\ m \div 2 < m /\ m \in 2 .. Len(h)
      BY <1>1, <2>1, Halves
    <2>3. h[m \div 2].data <= h[m].data
      BY <2>2 DEF InOrder, Ordered
    <2>4. m \div 2 \in Lesser
      BY <1>1, <2>1, <2>2, <2>3
    <2> QED
      BY <1>1, <1>2, <2>2, <2>4
  <1>3. Lesser \subseteq Nat
    BY <1>1
  <1> HIDE DEF Lesser
  <1>4. Lesser = {}
    BY <1>2, <1>3, LeastOf
  <1> QED
    BY <1>1, <1>4 DEF Lesser

(* Bags of elements that are all different *)
BagOf(S) == [e \in S |-> 1]

LEMMA BagGets ==
  ASSUME NEW S, NEW e, e \notin S
  PROVE  BH!Queue!BagAdd(BagOf(S), e) = BagOf(S \cup {e})
  BY DEF BH!Queue!BagAdd, BagOf

LEMMA BagLoses ==
  ASSUME NEW S, NEW e, e \in S
  PROVE  /\ BH!Queue!BagRemove(BagOf(S), e) = BagOf(S \ {e})
         /\ e \in DOMAIN BagOf(S)
  BY DEF BH!Queue!BagRemove, BagOf

LEMMA BagIs == HeapOk => BH!BagOfElems = BagOf(Met(elems))
  <1> SUFFICES ASSUME HeapOk PROVE BH!BagOfElems = BagOf(Met(elems))
    OBVIOUS
  <1>1. /\ Unlike(elems) /\ DOMAIN elems = 1 .. Len(elems) /\ BH!Range(elems) = Met(elems)
    BY HeapOkIs
  <1>2. ASSUME NEW e \in Met(elems) PROVE BH!Cardinality({i \in DOMAIN elems : elems[i] = e}) = 1
    <2>1. PICK i \in 1 .. Len(elems) : elems[i] = e
      BY DEF Met
    <2>2. {j \in DOMAIN elems : elems[j] = e} = {i}
      BY <1>1, <2>1 DEF Unlike
    <2>3. BH!Cardinality({i}) = Cardinality({i})
      BY DEF BH!Cardinality, Cardinality
    <2> QED
      BY <2>2, <2>3, FS_Singleton
  <1> QED
    BY <1>1, <1>2 DEF BH!BagOfElems, BagOf

LEMMA BagIsThen == HeapOk' => BH!BagOfElems' = BagOf(Met(elems'))
  <1>1. (HeapOk => BH!BagOfElems = BagOf(Met(elems)))'
    BY BagIs, PTL
  <1> QED
    BY <1>1

LEMMA HeapInsertKeeps ==
  ASSUME HeapOk, NEW e \in BH!Elem, BH!Insert(e)
  PROVE  HeapOk' /\ BH!Queue!Insert(e) /\ heap_status' = "up"
  <1>1. PICK h, ix, n : h = elems /\ ix = key_index /\ n = Len(h) + 1
    OBVIOUS
  <1>2. /\ h \in Seq(BH!Elem) /\ Len(h) \in Nat /\ HeapArray(h, ix)
        /\ IndexAll(h, ix) /\ BH!Keys = KeysHeld(h)
    BY <1>1, HeapOkIs DEF HeapOk
  <1>3. e.key \notin KeysHeld(h)
    <2>1. CASE direct
      <3>1. BH!Get(e.key) = FAIL
        BY <2>1 DEF BH!Insert, BH!MayEnter
      <3>2. ASSUME e.key \in KeysHeld(h) PROVE FALSE
        <4>1. PICK i \in 1 .. Len(h) : e.key = h[i].key
          BY <3>2 DEF KeysHeld
        <4>2. e.key \in DOMAIN ix /\ ix[e.key] = i
          BY <1>2, <2>1, <3>2, <4>1 DEF IndexAll
        <4>3. i = FAIL
          BY <1>1, <3>1, <4>2 DEF BH!Get
        <4>4. i \in 1 .. MaxElems
          BY <1>1, <1>2, HeapConstants DEF HeapOk
        <4> QED
          BY <4>3, <4>4, HeapConstants
      <3> QED
        BY <3>2
    <2>2. CASE ~direct
      BY <1>2, <2>2 DEF BH!Insert, BH!MayEnter
    <2> QED
      BY <2>1, <2>2
  <1>4. PICK y : y = BH!BubbleUp(BH!At(Append(h, e), ix, n))
    OBVIOUS
  <1>5. HeapArray(y.elems, BH!IndexOf(y, n)) /\ Len(y.elems) = n /\ Met(y.elems) = Met(h) \cup {e}
    BY <1>1, <1>2, <1>3, <1>4, HeapTakesIn
  <1>6. /\ elems' = y.elems /\ key_index' = BH!IndexOf(y, n) /\ n <= MaxElems
        /\ elems_alloc' = BH!EnsureFree /\ heap_status = "up"
        /\ UNCHANGED <<heap_status, direct, absent>>
    BY <1>1, <1>4 DEF BH!Insert, BH!Becomes, BH!options, BH!Up
  <1>7. elems_alloc' \in Nat /\ n <= elems_alloc'
    <2>1. elems_alloc \in Nat /\ Len(h) <= elems_alloc
      BY <1>1 DEF HeapOk
    <2> QED
      BY <1>1, <1>2, <1>6, <2>1, HeapConstants DEF BH!EnsureFree
  <1>8. PICK g, jx : g = y.elems /\ jx = BH!IndexOf(y, n)
    OBVIOUS
  <1>9. HeapArray(elems, key_index)'
    BY <1>5, <1>6, <1>8, HeapArrayThen
  <1>10. HeapOk'
    BY <1>5, <1>6, <1>7, <1>9 DEF HeapOk
  <1>11. e \notin Met(h)
    BY <1>3, KeysHeldAre
  <1>12. BH!BagOfElems = BagOf(Met(h)) /\ BH!BagOfElems' = BagOf(Met(h) \cup {e})
    BY <1>1, <1>5, <1>6, <1>10, BagIs, BagIsThen
  <1> QED
    BY <1>6, <1>10, <1>11, <1>12, BagGets DEF BH!Queue!Insert

(* What is gone from the heap is gone from the bag. *)
LEMMA BagOfLost ==
  ASSUME HeapOk, HeapOk', NEW e \in Met(elems), Met(elems') = Met(elems) \ {e}
  PROVE  e \in DOMAIN BH!BagOfElems /\ BH!Queue!Delete(e)
  <1>1. BH!BagOfElems = BagOf(Met(elems)) /\ BH!BagOfElems' = BagOf(Met(elems) \ {e})
    BY BagIs, BagIsThen
  <1> QED
    BY <1>1, BagLoses DEF BH!Queue!Delete

LEMMA HeapRemoveMinKeeps ==
  ASSUME HeapOk, BH!RemoveMin
  PROVE  /\ HeapOk' /\ heap_status' = "up"
         /\ \E e \in BH!Elem : BH!Queue!RemoveMin(e)
  <1> DEFINE index == IF direct THEN BH!Forgotten(elems[1].key) ELSE key_index
  <1>1. PICK h, ix, g, jx : h = elems /\ ix = key_index /\ g = BH!Without(1) /\ jx = index
    OBVIOUS
  <1>2. /\ h \in Seq(BH!Elem) /\ Len(h) \in Nat /\ HeapArray(h, ix) /\ InOrder(h)
    BY <1>1, HeapOkIs DEF HeapOk
  <1>3. 1 \in 1 .. Len(h)
    BY <1>1, <1>2 DEF BH!RemoveMin
  <1>4. Departs(h, ix, 1, g, jx)
    <2>1. LastMoves(h, 1, g)
      <3>1. Len([elems EXCEPT ![1] = elems[Len(elems)]]) = Len(elems)
        BY <1>1, <1>2
      <3> QED
        BY <1>1, <3>1 DEF LastMoves, BH!Without
    <2>2. IF direct THEN jx = [k \in DOMAIN ix \ {h[1].key} |-> ix[k]] ELSE jx = ix
      BY <1>1 DEF BH!Forgotten, BH!Restrict
    <2> QED
      BY <1>2, <1>3, <2>1, <2>2 DEF Departs
  <1>5. PICK y : y = BH!BubbleDown(BH!At(g, jx, 1))
    OBVIOUS
  <1>6. /\ IF Len(elems) = 1 THEN elems' = <<>> /\ key_index' = jx
           ELSE elems' = y.elems /\ key_index' = BH!IndexOf(y, 1)
        /\ heap_status = "up" /\ UNCHANGED <<elems_alloc, heap_status, direct, absent>>
    BY <1>1, <1>5 DEF BH!RemoveMin, BH!Becomes, BH!options, BH!Up
  <1> HIDE DEF index
  <1>7. HeapArray(elems, key_index)' /\ Len(elems') = Len(h) - 1 /\ Met(elems') = Met(h) \ {h[1]}
    <2>1. CASE Len(h) = 1
      <3>1. HeapArray(g, jx) /\ g \in Seq(BH!Elem) /\ Len(g) = 0 /\ Met(g) = Met(h) \ {h[1]}
        <4>1. PICK i : i = 1
          OBVIOUS
        <4>2. Departs(h, ix, i, g, jx) /\ i = Len(h)
          BY <1>4, <2>1, <4>1
        <4>3. HeapArray(g, jx) /\ g \in Seq(BH!Elem) /\ Len(g) = Len(h) - 1 /\ Met(g) = Met(h) \ {h[i]}
          BY ONLY <4>2, DepartsIs
        <4> QED
          BY <2>1, <4>1, <4>3
      <3>2. g = <<>>
        BY <3>1
      <3>3. elems' = g /\ key_index' = jx /\ direct' = direct
        BY <1>1, <1>6, <2>1, <3>2
      <3>4. HeapArray(elems, key_index)'
        BY <3>1, <3>3, HeapArrayThen
      <3> QED
        BY <2>1, <3>1, <3>3, <3>4
    <2>2. CASE Len(h) # 1
      <3>1. PICK g2, j2 : g2 = y.elems /\ j2 = BH!IndexOf(y, 1)
        OBVIOUS
      <3>2. HeapArray(g2, j2) /\ Len(g2) = Len(h) - 1 /\ Met(g2) = Met(h) \ {h[1]}
        BY <1>4, <1>5, <2>2, <3>1, HeapLosesMin
      <3>3. elems' = g2 /\ key_index' = j2 /\ direct' = direct
        BY <1>1, <1>6, <2>2, <3>1
      <3>4. HeapArray(elems, key_index)'
        BY <3>2, <3>3, HeapArrayThen
      <3> QED
        BY <3>2, <3>3, <3>4
    <2> QED
      BY <2>1, <2>2
  <1>8. HeapOk'
    BY <1>1, <1>2, <1>3, <1>6, <1>7, HeapConstants DEF HeapOk
  <1>9. h[1] \in Met(h) /\ h[1] \in BH!Elem
    BY <1>2, <1>3 DEF Met
  <1>10. h[1] \in DOMAIN BH!BagOfElems /\ BH!Queue!Delete(h[1])
    BY <1>1, <1>7, <1>8, <1>9, BagOfLost
  <1>11. ASSUME NEW f \in DOMAIN BH!BagOfElems PROVE h[1].data <= f.data
    <2>1. f \in Met(h)
      BY <1>1, <1>11, BagIs DEF BagOf
    <2>2. PICK i \in 1 .. Len(h) : f = h[i]
      BY <2>1 DEF Met
    <2> QED
      BY <1>2, <2>2, FirstIsLeast
  <1>12. BH!Queue!RemoveMin(h[1])
    BY <1>10, <1>11 DEF BH!Queue!RemoveMin, BH!Queue!Delete
  <1> QED
    BY <1>6, <1>8, <1>9, <1>12

(* A place that get returns is that of the key. *)
LEMMA HeapGets ==
  ASSUME HeapOk, direct, NEW k, BH!Get(k) \in DOMAIN elems
  PROVE  elems[BH!Get(k)].key = k /\ BH!Get(k) \in 1 .. Len(elems)
  <1>1. PICK i : i = BH!Get(k)
    OBVIOUS
  <1>2. /\ IndexAll(elems, key_index) /\ DOMAIN elems = 1 .. Len(elems) /\ Len(elems) \in Nat
        /\ Len(elems) <= MaxElems /\ absent \in Absent
    BY HeapOkIs DEF HeapOk
  <1>3. i \in 1 .. MaxElems
    BY <1>1, <1>2, HeapConstants
  <1>4. k \in DOMAIN key_index /\ i = key_index[k]
    BY <1>1, <1>2, <1>3, HeapConstants DEF BH!Get
  <1>5. PICK j \in 1 .. Len(elems) : k = elems[j].key
    BY <1>2, <1>4 DEF IndexAll, KeysHeld
  <1>6. key_index[elems[j].key] = j
    BY <1>2, <1>5 DEF IndexAll
  <1> QED
    BY <1>1, <1>2, <1>4, <1>5, <1>6

LEMMA HeapCrashes ==
  ASSUME HeapOk, heap_status' \in {"exited", "crashed"},
         UNCHANGED <<elems, elems_alloc, key_index, direct, absent>>
  PROVE  HeapOk'
  BY DEF HeapOk, HeapArray, IndexAll, KeysHeld, InOrder, Ordered, Unlike

LEMMA HeapUpdateKeeps ==
  ASSUME HeapOk, NEW e \in BH!Elem, BH!Update(e)
  PROVE  /\ HeapOk'
         /\ heap_status' = "up" => \E old \in BH!Elem : BH!Queue!Update(old, e)
         /\ heap_status' # "up" => UNCHANGED elems
  <1>1. PICK i, g : i = BH!Get(e.key) /\ g = [elems EXCEPT ![i] = e]
    OBVIOUS
  <1>2. PICK y : y = BH!Settle(BH!At(g, key_index, i))
    OBVIOUS
  <1>3. /\ heap_status = "up" /\ direct /\ UNCHANGED <<elems_alloc, direct, absent>>
        /\ BH!Reaching(i, y.elems, y.index)
    BY <1>1, <1>2 DEF BH!Update, BH!Up, BH!options
  <1>4. CASE i \in DOMAIN elems
    <2>1. PICK h, ix : h = elems /\ ix = key_index
      OBVIOUS
    <2>2. h[i].key = e.key /\ i \in 1 .. Len(h)
      BY <1>1, <1>3, <1>4, <2>1, HeapGets
    <2>3. HeapArray(h, ix) /\ h \in Seq(BH!Elem)
      BY <2>1, HeapOkIs DEF HeapOk
    <2>4. Renews(h, ix, i, e, g)
      BY <1>1, <2>1, <2>2, <2>3 DEF Renews
    <2>5. PICK g2, j2 : g2 = y.elems /\ j2 = y.index
      OBVIOUS
    <2>6. HeapArray(g2, j2) /\ Len(g2) = Len(h) /\ Met(g2) = (Met(h) \ {h[i]}) \cup {e}
      BY <1>2, <2>1, <2>4, <2>5, HeapRenews
    <2>7. elems' = g2 /\ key_index' = j2 /\ direct' = direct /\ heap_status' = "up"
      BY <1>3, <1>4, <2>5 DEF BH!Reaching, BH!Becomes
    <2>8. HeapArray(elems, key_index)'
      BY <2>6, <2>7, HeapArrayThen
    <2>9. HeapOk'
      BY <1>3, <2>1, <2>6, <2>7, <2>8 DEF HeapOk
    <2>10. h[i] \in Met(h) /\ h[i] \in BH!Elem
      BY <2>2, <2>3 DEF Met
    <2>11. e \notin Met(h) \ {h[i]}
      <3>1. \A f \in Met(h) : f.key = h[i].key => f = h[i]
        BY <2>2, <2>3 DEF HeapArray, Unlike, Met
      <3> QED
        BY <2>2, <3>1
    <2>12. /\ BH!BagOfElems = BagOf(Met(h))
           /\ BH!BagOfElems' = BagOf((Met(h) \ {h[i]}) \cup {e})
      BY <2>1, <2>6, <2>7, <2>9, BagIs, BagIsThen
    <2>13. /\ BH!Queue!BagRemove(BH!BagOfElems, h[i]) = BagOf(Met(h) \ {h[i]})
           /\ h[i] \in DOMAIN BH!BagOfElems
      BY <2>10, <2>12, BagLoses
    <2>14. BH!Queue!BagAdd(BagOf(Met(h) \ {h[i]}), e) = BagOf((Met(h) \ {h[i]}) \cup {e})
      BY <2>11, BagGets
    <2>15. BH!Queue!Update(h[i], e)
      BY <2>2, <2>12, <2>13, <2>14 DEF BH!Queue!Update
    <2> QED
      BY <2>7, <2>9, <2>10, <2>15
  <1>5. CASE i \notin DOMAIN elems
    BY <1>3, <1>5, HeapCrashes DEF BH!Reaching
  <1> QED
    BY <1>4, <1>5

LEMMA HeapRemoveDirectKeeps ==
  ASSUME HeapOk, NEW k \in HeapKey, BH!RemoveDirect(k)
  PROVE  /\ HeapOk'
         /\ heap_status' = "up" => \E e \in BH!Elem : e.key = k /\ BH!Queue!Delete(e)
         /\ heap_status' # "up" => UNCHANGED elems
  <1>1. PICK i, g, jx : i = BH!Get(k) /\ g = BH!Without(i) /\ jx = BH!Forgotten(k)
    OBVIOUS
  <1>2. PICK y : y = BH!Settle(BH!At(g, jx, i))
    OBVIOUS
  <1>3. /\ heap_status = "up" /\ direct /\ UNCHANGED <<elems_alloc, direct, absent>>
        /\ IF i = Len(elems) THEN BH!Reaching(i, g, jx)
           ELSE BH!Reaching(i, y.elems, BH!IndexOf(y, i))
    BY <1>1, <1>2 DEF BH!RemoveDirect, BH!Up, BH!options
  <1>4. CASE i \in DOMAIN elems
    <2>1. PICK h, ix : h = elems /\ ix = key_index
      OBVIOUS
    <2>2. h[i].key = k /\ i \in 1 .. Len(h)
      BY <1>1, <1>3, <1>4, <2>1, HeapGets
    <2>3. HeapArray(h, ix) /\ h \in Seq(BH!Elem) /\ Len(h) \in Nat
      BY <2>1, HeapOkIs DEF HeapOk
    <2>4. Departs(h, ix, i, g, jx)
      <3>1. LastMoves(h, i, g)
        <4>1. Len([elems EXCEPT ![i] = elems[Len(elems)]]) = Len(elems)
          BY <2>1, <2>3
        <4> QED
          BY <1>1, <2>1, <4>1 DEF LastMoves, BH!Without
      <3>2. IF direct THEN jx = [x \in DOMAIN ix \ {h[i].key} |-> ix[x]] ELSE jx = ix
        BY <1>1, <1>3, <2>1, <2>2 DEF BH!Forgotten, BH!Restrict
      <3> QED
        BY <2>2, <2>3, <3>1, <3>2 DEF Departs
    <2>5. PICK g2, j2 : IF i = Len(h) THEN g2 = g /\ j2 = jx
                        ELSE g2 = y.elems /\ j2 = BH!IndexOf(y, i)
      OBVIOUS
    <2>6. HeapArray(g2, j2) /\ Len(g2) = Len(h) - 1 /\ Met(g2) = Met(h) \ {h[i]}
      <3>1. CASE i = Len(h)
        BY <2>4, <2>5, <3>1, DepartsIs
      <3>2. CASE i # Len(h)
        BY <1>2, <2>4, <2>5, <3>2, HeapLoses
      <3> QED
        BY <3>1, <3>2
    <2>7. elems' = g2 /\ key_index' = j2 /\ direct' = direct /\ heap_status' = "up"
      BY <1>3, <1>4, <2>1, <2>5 DEF BH!Reaching, BH!Becomes
    <2>8. HeapArray(elems, key_index)'
      BY <2>6, <2>7, HeapArrayThen
    <2>9. HeapOk'
      BY <1>3, <2>1, <2>3, <2>6, <2>7, <2>8, HeapConstants DEF HeapOk
    <2>10. h[i] \in Met(h) /\ h[i] \in BH!Elem
      BY <2>2, <2>3 DEF Met
    <2>11. BH!Queue!Delete(h[i])
      BY <2>1, <2>6, <2>7, <2>9, <2>10, BagOfLost
    <2> QED
      BY <2>2, <2>7, <2>9, <2>10, <2>11
  <1>5. CASE i \notin DOMAIN elems
    <2>1. heap_status' = "crashed" /\ UNCHANGED <<elems, key_index>>
      BY <1>3, <1>5 DEF BH!Reaching
    <2> QED
      BY <1>3, <2>1, HeapCrashes
  <1> QED
    BY <1>4, <1>5

LEMMA HeapArrayOfNone == HeapArray(<<>>, <<>>) /\ Met(<<>>) = {}
  BY DEF HeapArray, IndexAll, KeysHeld, InOrder, Ordered, Unlike, Met

LEMMA NoneIsInBag == BagOf({}) = <<>>
  BY DEF BagOf

LEMMA HeapClearKeeps ==
  ASSUME HeapOk, BH!Clear
  PROVE  HeapOk' /\ BH!Queue!Empty /\ heap_status' = "up"
  <1>1. /\ elems' = <<>> /\ elems_alloc' = 0 /\ key_index' = <<>> /\ heap_status = "up"
        /\ UNCHANGED <<heap_status, direct, absent>>
    BY DEF BH!Clear, BH!options, BH!Up
  <1>2. PICK h, ix : h = <<>> /\ ix = <<>>
    OBVIOUS
  <1>3. HeapArray(h, ix) /\ Met(h) = {}
    BY <1>2, HeapArrayOfNone
  <1>4. elems' = h /\ key_index' = ix /\ direct' = direct
    BY <1>1, <1>2
  <1>5. HeapArray(elems, key_index)'
    BY <1>3, <1>4, HeapArrayThen
  <1>6. HeapOk'
    BY <1>1, <1>5, HeapConstants DEF HeapOk
  <1>7. BH!BagOfElems' = BagOf({})
    BY <1>3, <1>4, <1>6, BagIsThen
  <1> QED
    BY <1>1, <1>6, <1>7, NoneIsInBag DEF BH!Queue!Empty

LEMMA HeapStarts == Init => HeapOk
  <1> SUFFICES ASSUME Init PROVE HeapOk
    OBVIOUS
  <1>1. /\ elems = <<>> /\ elems_alloc = 0 /\ key_index = <<>> /\ heap_status = "up"
        /\ direct \in BOOLEAN /\ absent \in Absent
    BY DEF Init, BH!Init
  <1>2. HeapArray(elems, key_index)
    BY <1>1, HeapArrayOfNone
  <1> QED
    BY <1>1, <1>2, HeapConstants DEF HeapOk

(* The steps of the other containers leave the heap as it is. *)
LEMMA HeapStays ==
  ASSUME HeapOk, UNCHANGED <<elems, elems_alloc, key_index, heap_status, direct, absent>>
  PROVE  HeapOk'
  BY DEF HeapOk, HeapArray, IndexAll, KeysHeld, InOrder, Ordered, Unlike

LEMMA HeapStep ==
  ASSUME HeapOk, [Next]_<<container, set, map, heap, list>>
  PROVE  HeapOk' /\ (heap_status' # "up" => UNCHANGED elems)
  <1> DEFINE Goal == HeapOk' /\ (heap_status' # "up" => UNCHANGED elems)
  <1>1. ASSUME NEW e \in BH!Elem, BH!Insert(e) PROVE Goal
    BY <1>1, HeapInsertKeeps
  <1>2. ASSUME NEW e \in BH!Elem, BH!InsertRefused(e) \/ BH!InsertFails(e) PROVE Goal
    <2>1. /\ heap_status' \in {"exited", "crashed"}
          /\ UNCHANGED <<elems, elems_alloc, key_index, direct, absent>>
      BY <1>2 DEF BH!InsertRefused, BH!InsertFails, BH!heap, BH!options
    <2> QED
      BY <2>1, HeapCrashes
  <1>3. ASSUME NEW e \in BH!Elem, BH!Update(e) PROVE Goal
    BY <1>3, HeapUpdateKeeps
  <1>4. ASSUME NEW k \in HeapKey, BH!RemoveDirect(k) PROVE Goal
    BY <1>4, HeapRemoveDirectKeeps
  <1>5. ASSUME BH!RemoveMin PROVE Goal
    BY <1>5, HeapRemoveMinKeeps
  <1>6. ASSUME BH!Misused PROVE Goal
    <2>1. /\ heap_status' \in {"exited", "crashed"}
          /\ UNCHANGED <<elems, elems_alloc, key_index, direct, absent>>
      BY <1>6 DEF BH!Misused, BH!heap, BH!options
    <2> QED
      BY <2>1, HeapCrashes
  <1>7. ASSUME BH!Clear PROVE Goal
    BY <1>7, HeapClearKeeps
  <1>8. ASSUME UNCHANGED <<elems, elems_alloc, key_index, heap_status, direct, absent>> PROVE Goal
    BY <1>8, HeapStays
  <1>9. BH!Next \/ UNCHANGED <<elems, elems_alloc, key_index, heap_status, direct, absent>>
    BY DEF Next, SetNext, MapNext, HeapNext, ListNext, heap
  <1> HIDE DEF Goal
  <1>10. Goal
    BY <1>1, <1>2, <1>3, <1>4, <1>5, <1>6, <1>7, <1>8, <1>9 DEF BH!Next
  <1> QED
    BY <1>10 DEF Goal

(* nt_algo.h:206, a min-heap: whatever is inserted, updated and removed,   *)
(* no element is less than its parent, and with the DIRECT option the map  *)
(* knows the place of every key.                                           *)
THEOREM HeapStaysInOrder == Spec => []HeapInv
  <1>1. Init => HeapOk
    BY HeapStarts
  <1>2. HeapOk /\ [Next]_<<container, set, map, heap, list>> => HeapOk'
    BY HeapStep
  <1> QED
    BY <1>1, <1>2, HeapInvHolds, PTL DEF Spec

LEMMA HeapStepIsTheQueues ==
  ASSUME HeapOk, [Next]_<<container, set, map, heap, list>>
  PROVE  /\ \A e \in BH!Elem :
              /\ BH!Insert(e) => BH!Queue!Insert(e)
              /\ BH!Update(e) /\ heap_status' = "up" => \E old \in BH!Elem : BH!Queue!Update(old, e)
         /\ BH!RemoveMin => \E e \in BH!Elem : BH!Queue!RemoveMin(e)
         /\ \A k \in HeapKey : BH!RemoveDirect(k) /\ heap_status' = "up" =>
              \E e \in BH!Elem : e.key = k /\ BH!Queue!Delete(e)
         /\ BH!Clear => BH!Queue!Empty
         /\ heap_status' # "up" => UNCHANGED BH!BagOfElems
  <1>1. heap_status' # "up" => UNCHANGED BH!BagOfElems
    BY HeapStep, BagIs, BagIsThen
  <1>2. ASSUME NEW e \in BH!Elem
        PROVE  /\ BH!Insert(e) => BH!Queue!Insert(e)
               /\ BH!Update(e) /\ heap_status' = "up" =>
                    \E old \in BH!Elem : BH!Queue!Update(old, e)
    BY HeapInsertKeeps, HeapUpdateKeeps
  <1>3. BH!RemoveMin => \E e \in BH!Elem : BH!Queue!RemoveMin(e)
    BY HeapRemoveMinKeeps
  <1>4. ASSUME NEW k \in HeapKey, BH!RemoveDirect(k), heap_status' = "up"
        PROVE  \E e \in BH!Elem : e.key = k /\ BH!Queue!Delete(e)
    BY <1>4, HeapRemoveDirectKeeps
  <1>5. BH!Clear => BH!Queue!Empty
    BY HeapClearKeeps
  <1> QED
    BY <1>1, <1>2, <1>3, <1>4, <1>5

(* The heap implements a priority queue: remove_min takes a minimum, and   *)
(* update and remove reach the element of their key.                       *)
THEOREM HeapImplementsQueue == Spec => HeapIsPriorityQueue
  <1>1. Init => HeapOk
    BY HeapStarts
  <1>2. HeapOk /\ [Next]_<<container, set, map, heap, list>> => HeapOk'
    BY HeapStep
  <1>3. HeapOk /\ [Next]_<<container, set, map, heap, list>> =>
        [ /\ \A e \in BH!Elem :
               /\ BH!Insert(e) => BH!Queue!Insert(e)
               /\ BH!Update(e) /\ heap_status' = "up" => \E old \in BH!Elem : BH!Queue!Update(old, e)
          /\ BH!RemoveMin => \E e \in BH!Elem : BH!Queue!RemoveMin(e)
          /\ \A k \in HeapKey : BH!RemoveDirect(k) /\ heap_status' = "up" =>
               \E e \in BH!Elem : e.key = k /\ BH!Queue!Delete(e)
          /\ BH!Clear => BH!Queue!Empty
          /\ heap_status' # "up" => UNCHANGED BH!BagOfElems ]_BH!vars
    BY HeapStepIsTheQueues
  <1> QED
    BY <1>1, <1>2, <1>3, PTL DEF Spec, HeapIsPriorityQueue, BH!IsPriorityQueue

=============================================================================
