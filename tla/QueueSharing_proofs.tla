------------------------- MODULE QueueSharing_proofs -------------------------
(***************************************************************************)
(* Proofs about the sharing of the task queue, for any number of           *)
(* processes, addresses, tasks, nodes and objects, and with no assumption  *)
(* on who calls what, or when.                                             *)
(*                                                                         *)
(* SharingInv says that every pointer in a queue is NULL or of an address  *)
(* where the queue was put since its create, that a queue is linked as a   *)
(* whole or not at all, and that who is past its create, or opened it      *)
(* after that, finds it linked.  TasksInv says in addition what the nodes  *)
(* of a queue that was created once hold.                                  *)
(***************************************************************************)
EXTENDS QueueSharing, FiniteSetTheorems, WellFoundedInduction, TLAPS

(* Pointers into a queue that is at one of the addresses S *)
Led(S) == [at : S, node : Node]

Pointers == Led(Address) \cup {Null}

Cycles ==
    [head : Pointers, tail : Pointers, next : [Node -> Pointers],
     task : [Node -> Task \cup {NoTask}], mutex : 0 .. 1, slots : Nat, items : Nat]

(* A ring that some create has linked, and one that none has *)
Linked(r, S) ==
    r.head \in Led(S) /\ r.tail \in Led(S) /\ \A i \in Node : r.next[i] \in Led(S)
Blank(r, S) ==
    /\ r.head = Null /\ r.tail = Null /\ r.items = 0
    /\ \A i \in Node : r.next[i] \in Led(S) \cup {Null}

RingOk(r, S) ==
    /\ S \subseteq Address /\ r \in Cycles /\ r.slots + r.items <= MaxLength
    /\ Linked(r, S) \/ Blank(r, S)

Objects ==
    /\ \E n \in Nat : DOMAIN ring = 1 .. n
    /\ ring = [o \in DOMAIN ring |-> ring[o]]
    /\ fifo = [o \in DOMAIN ring |-> fifo[o]]
    /\ spots = [o \in DOMAIN ring |-> spots[o]]
    /\ creates = [o \in DOMAIN ring |-> creates[o]]

RingsOk == \A o \in DOMAIN ring : RingOk(ring[o], spots[o])

(* p has its queue at one of the spots; and if p did not open it too      *)
(* early, a create has linked it.                                          *)
MappingOk(p) ==
    HasQueue(p) =>
      LET m == mapped[p] IN
      /\ m = [object |-> m.object, at |-> m.at, stage |-> m.stage,
              linked |-> m.linked, early |-> m.early]
      /\ m.object \in DOMAIN ring /\ m.at \in spots[m.object]
      /\ m.linked \in 0 .. MaxLength /\ (m.stage = "relink" => m.linked \in Node)
      /\ m.stage \in {"sems", "links", "relink", "ready"}
      /\ m.stage \in {"relink", "ready"} /\ ~m.early => ring[m.object].tail # Null

MappingsOk ==
    /\ mapped = [p \in Proc |-> mapped[p]]
    /\ \A p \in Proc : MappingOk(p)

(* The causes of a fault *)
Excused(p) == mapped[p].early \/ \E a, b \in spots[mapped[p].object] : a # b

KilledOk == \A p \in killed : p \in Proc /\ HasQueue(p) /\ Excused(p)

(* Nobody is given an object whose name was destroyed. *)
NameOk ==
    /\ named \in DOMAIN ring \cup {None}
    /\ over \subseteq DOMAIN ring /\ named \notin over

SharingInv == Objects /\ RingsOk /\ MappingsOk /\ KilledOk /\ NameOk

-----------------------------------------------------------------------------
LEMMA LedIs ==
  ASSUME NEW S, S \subseteq Address
  PROVE  /\ Led(S) \subseteq Pointers /\ Null \notin Led(S)
         /\ \A x \in Led(S) : x.at \in S /\ x.node \in Node
         /\ Null.at \notin Address /\ Null.node \in Node /\ Null \in Pointers
  BY SharingAssumption DEF Led, Pointers, Null, Pointer, Node

LEMMA NextNode ==
  ASSUME NEW i \in Node
  PROVE  (i + 1) % MaxLength \in Node
  BY SharingAssumption DEF Node

LEMMA NextPointerIs ==
  ASSUME NEW S, NEW a \in S, NEW i \in Node
  PROVE  NextPointer(a, i) \in Led(S)
  BY NextNode DEF NextPointer, Pointer, Led

LEMMA ObjectIs ==
  ASSUME SharingInv, NEW o, o = ObjectToCreate
  PROVE  /\ o # None /\ o \notin over /\ None \notin DOMAIN ring
         /\ \E n \in Nat : DOMAIN ring \cup {o} = 1 .. n
         /\ o \in DOMAIN ring => o = named
  <1>1. PICK n \in Nat : DOMAIN ring = 1 .. n
    BY DEF SharingInv, Objects
  <1>2. Cardinality(1 .. n) = n
    BY <1>1, FS_Interval
  <1>3. None \notin DOMAIN ring
    BY <1>1 DEF None
  <1>4. CASE named = None
    <2>1. o = n + 1
      BY <1>1, <1>2, <1>4 DEF ObjectToCreate
    <2>2. DOMAIN ring \cup {o} = 1 .. n + 1 /\ o \notin DOMAIN ring
      BY <1>1, <2>1
    <2> QED
      BY <1>1, <1>3, <2>1, <2>2 DEF SharingInv, NameOk, None
  <1>5. CASE named # None
    <2>1. o = named /\ o \in DOMAIN ring
      BY <1>5 DEF ObjectToCreate, SharingInv, NameOk
    <2> QED
      BY <1>1, <1>3, <1>5, <2>1 DEF SharingInv, NameOk
  <1> QED
    BY <1>4, <1>5

LEMMA RingStaysOk ==
  ASSUME NEW r, NEW S, NEW T, RingOk(r, S), S \subseteq T, T \subseteq Address
  PROVE  RingOk(r, T)
  BY DEF RingOk, Linked, Blank, Led

LEMMA InitSharing == Init => SharingInv
  <1> SUFFICES ASSUME Init PROVE SharingInv
    OBVIOUS
  <1>1. DOMAIN ring = 1 .. 0 /\ DOMAIN ring = {}
    BY DEF Init
  <1>2. \A p \in Proc : ~HasQueue(p)
    BY DEF Init, HasQueue, Unmapped
  <1>3. Objects
    <2>1. DOMAIN fifo = {} /\ DOMAIN spots = {} /\ DOMAIN creates = {}
      BY DEF Init
    <2> QED
      BY <1>1, <2>1 DEF Init, Objects
  <1> QED
    BY <1>1, <1>2, <1>3 DEF Init, SharingInv, RingsOk, MappingsOk, MappingOk, KilledOk, NameOk, None

-----------------------------------------------------------------------------
(* One process takes a step: what keeps the mappings of the others right,  *)
(* and the causes of faults there.                                         *)
LEMMA InvFrom ==
  ASSUME SharingInv, Objects', NameOk', NEW p \in Proc, p \notin killed, NEW m,
         mapped' = [mapped EXCEPT ![p] = m], MappingOk(p)',
         \A o \in DOMAIN ring :
           /\ o \in DOMAIN ring' /\ spots[o] \subseteq spots'[o]
           /\ ring[o].tail # Null => ring'[o].tail # Null,
         \A o \in DOMAIN ring' : RingOk(ring'[o], spots'[o]),
         \A q \in killed' \ killed : q \in Proc /\ HasQueue(q)' /\ Excused(q)'
  PROVE  SharingInv'
  <1>1. mapped' = [q \in Proc |-> mapped'[q]] /\ mapped'[p] = m /\ \A q \in Proc \ {p} : mapped'[q] = mapped[q]
    BY DEF SharingInv, MappingsOk
  <1>2. RingsOk'
    <2>1. ASSUME NEW o \in DOMAIN ring', RingOk(ring'[o], spots'[o]) PROVE RingOk(ring[o], spots[o])'
      BY <2>1 DEF RingOk, Linked, Blank
    <2> QED
      BY <2>1 DEF RingsOk
  <1>3. ASSUME NEW q \in Proc \ {p} PROVE MappingOk(q)'
    <2>1. MappingOk(q) /\ mapped'[q] = mapped[q]
      BY <1>1 DEF SharingInv, MappingsOk
    <2> QED
      BY <2>1 DEF MappingOk, HasQueue
  <1>4. MappingsOk'
    BY <1>1, <1>3 DEF MappingsOk
  <1>5. ASSUME NEW q \in killed, q \in killed' PROVE q \in Proc /\ HasQueue(q)' /\ Excused(q)'
    <2>1. q \in Proc \ {p} /\ HasQueue(q) /\ Excused(q)
      BY DEF SharingInv, KilledOk
    <2>2. mapped'[q] = mapped[q] /\ mapped[q].object \in DOMAIN ring
      BY <1>1, <2>1 DEF SharingInv, MappingsOk, MappingOk
    <2> QED
      BY <2>1, <2>2 DEF HasQueue, Excused
  <1>6. KilledOk'
    BY <1>5 DEF KilledOk
  <1> QED
    BY <1>2, <1>4, <1>6 DEF SharingInv

(* ... when it writes to one ring: *)
LEMMA OneRingChanges ==
  ASSUME SharingInv, NEW o \in DOMAIN ring, NEW r, ring' = [ring EXCEPT ![o] = r],
         fifo' = fifo \/ \E q : fifo' = [fifo EXCEPT ![o] = q],
         RingOk(r, spots[o]), ring[o].tail # Null => r.tail # Null,
         UNCHANGED <<named, spots, creates, over>>
  PROVE  /\ Objects' /\ NameOk' /\ DOMAIN ring' = DOMAIN ring /\ ring'[o] = r
         /\ \A x \in DOMAIN ring \ {o} : ring'[x] = ring[x]
         /\ \A x \in DOMAIN ring : ring[x].tail # Null => ring'[x].tail # Null
         /\ \A x \in DOMAIN ring' : RingOk(ring'[x], spots'[x])
  <1>1. /\ DOMAIN ring' = DOMAIN ring /\ ring'[o] = r
        /\ \A x \in DOMAIN ring \ {o} : ring'[x] = ring[x]
    BY DEF SharingInv, Objects
  <1>2. ring' = [x \in DOMAIN ring' |-> ring'[x]] /\ DOMAIN fifo' = DOMAIN fifo
        /\ fifo' = [x \in DOMAIN ring' |-> fifo'[x]]
    BY <1>1 DEF SharingInv, Objects
  <1>3. Objects' /\ NameOk'
    BY <1>1, <1>2 DEF SharingInv, Objects, NameOk
  <1>4. \A x \in DOMAIN ring' : RingOk(ring'[x], spots'[x])
    BY <1>1 DEF SharingInv, RingsOk
  <1> QED
    BY <1>1, <1>3, <1>4

(* ... and when it only changes its mapping, the name or the addresses.    *)
LEMMA RingsAreTheSame ==
  ASSUME SharingInv, UNCHANGED <<ring, fifo, creates>>,
         spots' = [o \in DOMAIN ring |-> spots'[o]],
         \A o \in DOMAIN ring : spots[o] \subseteq spots'[o] /\ spots'[o] \subseteq Address
  PROVE  Objects' /\ \A o \in DOMAIN ring' : RingOk(ring'[o], spots'[o])
  <1>1. Objects'
    BY DEF SharingInv, Objects
  <1> QED
    BY <1>1, RingStaysOk DEF SharingInv, RingsOk

-----------------------------------------------------------------------------
(* What Create and CreateFails do to the object, given the addresses *)
LEMMA ObjectOpened ==
  ASSUME SharingInv, NEW o, o = ObjectToCreate, OpenObject(o), over' = over,
         NEW S, S \subseteq Address, o \in DOMAIN ring => spots[o] \subseteq S,
         spots' = With(spots, o, S),
         fifo' = IF o \in DOMAIN ring THEN fifo ELSE With(fifo, o, <<>>),
         creates' = creates \/ \E n : creates' = With(creates, o, n),
         o \notin DOMAIN ring => creates' # creates
  PROVE  /\ Objects' /\ NameOk'
         /\ o \in DOMAIN ring' /\ spots'[o] = S
         /\ \A x \in DOMAIN ring :
              /\ x \in DOMAIN ring' /\ spots[x] \subseteq spots'[x]
              /\ ring[x].tail # Null => ring'[x].tail # Null
         /\ \A x \in DOMAIN ring' : RingOk(ring'[x], spots'[x])
  <1>1. /\ o # None /\ o \notin over /\ \E n \in Nat : DOMAIN ring \cup {o} = 1 .. n
    BY ObjectIs
  <1>2. /\ named' = o /\ ring' = IF o \in DOMAIN ring THEN ring ELSE With(ring, o, Zeros)
    BY DEF OpenObject
  <1>3. /\ DOMAIN ring' = DOMAIN ring \cup {o} /\ \A x \in DOMAIN ring : ring'[x] = ring[x]
        /\ o \notin DOMAIN ring => ring'[o] = Zeros
        /\ ring' = [x \in DOMAIN ring' |-> ring'[x]]
    <2>1. ring = [x \in DOMAIN ring |-> ring[x]]
      BY DEF SharingInv, Objects
    <2>2. CASE o \in DOMAIN ring
      BY <1>2, <2>1, <2>2
    <2>3. CASE o \notin DOMAIN ring
      <3>1. ring' = [y \in DOMAIN ring \cup {o} |-> IF y = o THEN Zeros ELSE ring[y]]
        BY <1>2, <2>3 DEF With
      <3>2. DOMAIN ring' = DOMAIN ring \cup {o} /\ ring'[o] = Zeros
        BY <3>1
      <3> QED
        BY <2>3, <3>1, <3>2
    <2> QED
      BY <2>2, <2>3
  <1>4. /\ DOMAIN spots' = DOMAIN ring' /\ spots'[o] = S
        /\ \A x \in DOMAIN ring \ {o} : spots'[x] = spots[x]
        /\ spots' = [x \in DOMAIN ring' |-> spots'[x]]
    <2>1. DOMAIN spots = DOMAIN ring
      BY DEF SharingInv, Objects
    <2>2. spots' = [y \in DOMAIN spots \cup {o} |-> IF y = o THEN S ELSE spots[y]]
      BY DEF With
    <2>3. DOMAIN spots' = DOMAIN spots \cup {o} /\ spots'[o] = S
      BY <2>2
    <2> QED
      BY <1>3, <2>1, <2>2, <2>3
  <1>5. fifo' = [x \in DOMAIN ring' |-> fifo'[x]]
    <2>1. DOMAIN fifo = DOMAIN ring /\ fifo = [x \in DOMAIN ring |-> fifo[x]]
      BY DEF SharingInv, Objects
    <2>2. CASE o \in DOMAIN ring
      BY <1>3, <2>1, <2>2
    <2>3. CASE o \notin DOMAIN ring
      <3>1. fifo' = [y \in DOMAIN fifo \cup {o} |-> IF y = o THEN <<>> ELSE fifo[y]]
        BY <2>3 DEF With
      <3>2. DOMAIN fifo' = DOMAIN fifo \cup {o}
        BY <3>1
      <3> QED
        BY <1>3, <2>1, <3>1, <3>2
    <2> QED
      BY <2>2, <2>3
  <1>6. creates' = [x \in DOMAIN ring' |-> creates'[x]]
    <2>1. DOMAIN creates = DOMAIN ring /\ creates = [x \in DOMAIN ring |-> creates[x]]
      BY DEF SharingInv, Objects
    <2>3. ASSUME NEW n, creates' = With(creates, o, n) PROVE creates' = [x \in DOMAIN ring' |-> creates'[x]]
      <3>1. creates' = [y \in DOMAIN creates \cup {o} |-> IF y = o THEN n ELSE creates[y]]
        BY <2>3 DEF With
      <3>2. DOMAIN creates' = DOMAIN creates \cup {o}
        BY <3>1
      <3> QED
        BY <1>3, <2>1, <3>1, <3>2
    <2>4. CASE creates' = creates
      <3>1. o \in DOMAIN ring
        BY <2>4
      <3> QED
        BY <1>3, <2>1, <2>4, <3>1
    <2> QED
      BY <2>3, <2>4
  <1>7. Objects'
    BY <1>1, <1>3, <1>4, <1>5, <1>6 DEF Objects
  <1>8. NameOk'
    BY <1>1, <1>2, <1>3 DEF SharingInv, NameOk
  <1>9. \A x \in DOMAIN ring : spots[x] \subseteq spots'[x]
    BY <1>4
  <1>10. RingOk(Zeros, S)
    <2>1. Zeros \in Cycles
      <3>1. Null \in Pointers /\ MaxLength \in Nat /\ 0 \in 0 .. 1 /\ 0 \in Nat
        BY SharingAssumption DEF Pointers
      <3>2. [i \in Node |-> Null] \in [Node -> Pointers]
        BY <3>1
      <3>3. [i \in Node |-> NoTask] \in [Node -> Task \cup {NoTask}]
        OBVIOUS
      <3> QED
        BY <3>1, <3>2, <3>3 DEF Zeros, Cycles
    <2> QED
      BY <2>1, SharingAssumption DEF RingOk, Zeros, Blank
  <1>11. ASSUME NEW x \in DOMAIN ring' PROVE RingOk(ring'[x], spots'[x])
    <2>1. CASE x \in DOMAIN ring
      <3>1. RingOk(ring[x], spots[x])
        BY <2>1 DEF SharingInv, RingsOk
      <3>2. spots'[x] \subseteq Address
        BY <1>4, <2>1, <3>1 DEF RingOk
      <3> QED
        BY <1>3, <1>9, <2>1, <3>1, <3>2, RingStaysOk
    <2>2. CASE x \notin DOMAIN ring
      BY <1>3, <1>4, <1>10, <2>2
    <2> QED
      BY <2>1, <2>2
  <1> QED
    BY <1>3, <1>4, <1>7, <1>8, <1>9, <1>11

LEMMA SpotsAre ==
  ASSUME SharingInv, NEW o \in DOMAIN ring
  PROVE  spots[o] \subseteq Address
  BY DEF SharingInv, RingsOk, RingOk

LEMMA CreateKeeps ==
  ASSUME SharingInv, NEW p \in Creator, NEW a \in Address, Create(p, a)
  PROVE  SharingInv'
  <1> DEFINE o == ObjectToCreate
             S == IF o \in DOMAIN ring \ over THEN spots[o] \cup {a} ELSE {a}
             n == IF o \in DOMAIN ring \ over THEN creates[o] + 1 ELSE 1
             m == [object |-> o, at |-> a, stage |-> "sems", linked |-> 0, early |-> FALSE]
  <1>1. /\ IdleProc(p) /\ OpenObject(o) /\ over' = over /\ killed' = killed
        /\ mapped' = [mapped EXCEPT ![p] = m]
        /\ fifo' = IF o \in DOMAIN ring THEN fifo ELSE With(fifo, o, <<>>)
        /\ spots' = With(spots, o, S) /\ creates' = With(creates, o, n)
    BY DEF Create
  <1>2. o # None /\ o \notin over
    BY ObjectIs
  <1>3. S \subseteq Address /\ a \in S /\ (o \in DOMAIN ring => spots[o] \subseteq S)
    BY <1>2, SpotsAre
  <1>4. o \notin DOMAIN ring => creates' # creates
    <2>1. DOMAIN creates = DOMAIN ring
      BY DEF SharingInv, Objects
    <2>2. DOMAIN creates' = DOMAIN creates \cup {o}
      BY <1>1 DEF With
    <2> QED
      BY <2>1, <2>2
  <1>5. p \in Proc /\ p \notin killed
    BY <1>1 DEF Proc, IdleProc
  <1>6. mapped'[p] = m
    BY <1>1, <1>5 DEF SharingInv, MappingsOk
  <1> HIDE DEF S, n
  <1>7. /\ Objects' /\ NameOk' /\ o \in DOMAIN ring' /\ spots'[o] = S
        /\ \A x \in DOMAIN ring :
             /\ x \in DOMAIN ring' /\ spots[x] \subseteq spots'[x]
             /\ ring[x].tail # Null => ring'[x].tail # Null
        /\ \A x \in DOMAIN ring' : RingOk(ring'[x], spots'[x])
    BY <1>1, <1>3, <1>4, ObjectOpened
  <1>8. MappingOk(p)'
    BY <1>3, <1>6, <1>7, SharingAssumption DEF MappingOk
  <1> HIDE DEF m
  <1> QED
    BY <1>1, <1>5, <1>7, <1>8, InvFrom

LEMMA CreateFailsKeeps ==
  ASSUME SharingInv, NEW p \in Creator, CreateFails(p)
  PROVE  SharingInv'
  <1> DEFINE o == ObjectToCreate
             S == IF o \in DOMAIN ring THEN spots[o] ELSE {}
  <1>1. o # None /\ o \notin over
    BY ObjectIs
  <1>2. /\ IdleProc(p) /\ OpenObject(o) /\ over' = over /\ killed' = killed /\ mapped' = mapped
        /\ fifo' = IF o \in DOMAIN ring THEN fifo ELSE With(fifo, o, <<>>)
        /\ spots' = IF o \in DOMAIN ring THEN spots ELSE With(spots, o, {})
        /\ creates' = IF o \in DOMAIN ring THEN creates ELSE With(creates, o, 0)
    BY <1>1 DEF CreateFails
  <1>3. S \subseteq Address /\ (o \in DOMAIN ring => spots[o] \subseteq S)
    BY SpotsAre
  <1>4. o \notin DOMAIN ring => creates' # creates
    <2>1. DOMAIN creates = DOMAIN ring
      BY DEF SharingInv, Objects
    <2>2. ASSUME o \notin DOMAIN ring PROVE DOMAIN creates' = DOMAIN creates \cup {o}
      BY <1>2, <2>2 DEF With
    <2> QED
      BY <2>1, <2>2
  <1>5. spots' = With(spots, o, S)
    <2>1. spots = [x \in DOMAIN ring |-> spots[x]] /\ DOMAIN spots = DOMAIN ring
      BY DEF SharingInv, Objects
    <2>2. CASE o \in DOMAIN ring
      <3>1. With(spots, o, S) = [x \in DOMAIN ring |-> spots[x]]
        BY <2>1, <2>2 DEF With
      <3> QED
        BY <1>2, <2>1, <2>2, <3>1
    <2>3. CASE o \notin DOMAIN ring
      BY <1>2, <2>3
    <2> QED
      BY <2>2, <2>3
  <1>6. creates' = creates \/ \E n : creates' = With(creates, o, n)
    BY <1>2
  <1> HIDE DEF S
  <1>7. /\ Objects' /\ NameOk' /\ o \in DOMAIN ring' /\ spots'[o] = S
        /\ \A x \in DOMAIN ring :
             /\ x \in DOMAIN ring' /\ spots[x] \subseteq spots'[x]
             /\ ring[x].tail # Null => ring'[x].tail # Null
        /\ \A x \in DOMAIN ring' : RingOk(ring'[x], spots'[x])
    BY <1>2, <1>3, <1>4, <1>5, <1>6, ObjectOpened
  <1>8. p \in Proc /\ p \notin killed /\ ~HasQueue(p)
    BY <1>2 DEF Proc, IdleProc
  <1>9. MappingOk(p)' /\ mapped' = [mapped EXCEPT ![p] = mapped[p]]
    BY <1>2, <1>8 DEF MappingOk, HasQueue, SharingInv, MappingsOk
  <1> QED
    BY <1>2, <1>7, <1>8, <1>9, InvFrom

-----------------------------------------------------------------------------
(* Who has a queue finds it made, and is at one of its addresses. *)
LEMMA UserHasIt ==
  ASSUME SharingInv, NEW p \in Proc, HasQueue(p), NEW o, o = mapped[p].object
  PROVE  /\ o \in DOMAIN ring /\ RingOk(ring[o], spots[o]) /\ Ring(p) = ring[o]
         /\ mapped[p].at \in spots[o] /\ mapped[p].at \in Address /\ MappingOk(p)
  BY SpotsAre DEF SharingInv, MappingsOk, MappingOk, RingsOk, Ring

LEMMA InitSemsKeeps ==
  ASSUME SharingInv, NEW p \in Creator, InitSems(p)
  PROVE  SharingInv'
  <1> DEFINE o == mapped[p].object
             m == [object |-> o, at |-> mapped[p].at, stage |-> "links",
                   linked |-> mapped[p].linked, early |-> mapped[p].early]
  <1>1. /\ HasQueue(p) /\ p \in Proc /\ p \notin killed /\ UNCHANGED <<named, killed, histories>>
    BY DEF InitSems, At, Proc
  <1>2. o \in DOMAIN ring /\ RingOk(ring[o], spots[o]) /\ MappingOk(p)
    BY <1>1, UserHasIt
  <1>3. PICK r : r = [ring[o] EXCEPT !.mutex = 1, !.slots = MaxLength, !.items = 0]
    OBVIOUS
  <1>4. ring' = [ring EXCEPT ![o] = r]
    BY <1>3 DEF InitSems
  <1>5. /\ r \in Cycles /\ r.slots = MaxLength /\ r.items = 0 /\ r.head = ring[o].head
        /\ r.tail = ring[o].tail /\ r.next = ring[o].next
    <2>1. r = [head |-> ring[o].head, tail |-> ring[o].tail, next |-> ring[o].next,
               task |-> ring[o].task, mutex |-> 1, slots |-> MaxLength, items |-> 0]
      BY <1>2, <1>3 DEF RingOk, Cycles
    <2> QED
      BY <1>2, <2>1, SharingAssumption DEF RingOk, Cycles
  <1>6. RingOk(r, spots[o])
    BY <1>2, <1>5, SharingAssumption DEF RingOk, Linked, Blank
  <1>7. mapped' = [mapped EXCEPT ![p] = m]
    <2>1. [mapped[p] EXCEPT !.stage = "links"] = m
      BY <1>1, <1>2 DEF MappingOk
    <2> QED
      BY <2>1 DEF InitSems
  <1>8. mapped'[p] = m
    BY <1>1, <1>7 DEF SharingInv, MappingsOk
  <1> HIDE DEF o
  <1>9. /\ Objects' /\ NameOk' /\ DOMAIN ring' = DOMAIN ring
        /\ \A x \in DOMAIN ring : ring[x].tail # Null => ring'[x].tail # Null
        /\ \A x \in DOMAIN ring' : RingOk(ring'[x], spots'[x])
    BY <1>1, <1>2, <1>4, <1>5, <1>6, OneRingChanges DEF histories
  <1>10. MappingOk(p)'
    BY <1>1, <1>2, <1>8, <1>9 DEF MappingOk, HasQueue, histories, o
  <1> HIDE DEF m
  <1> QED
    BY <1>1, <1>7, <1>9, <1>10, InvFrom DEF histories

LEMMA LinkRingKeeps ==
  ASSUME SharingInv, NEW p \in Creator, LinkRing(p)
  PROVE  SharingInv'
  <1> DEFINE o == mapped[p].object
             a == mapped[p].at
             m == [object |-> o, at |-> a, stage |-> "ready",
                   linked |-> mapped[p].linked, early |-> mapped[p].early]
  <1>1. /\ HasQueue(p) /\ p \in Proc /\ p \notin killed /\ UNCHANGED <<named, killed, histories>>
    BY DEF LinkRing, At, Proc
  <1>2. /\ o \in DOMAIN ring /\ RingOk(ring[o], spots[o]) /\ MappingOk(p)
        /\ a \in spots[o] /\ spots[o] \subseteq Address
    BY <1>1, UserHasIt, SpotsAre
  <1>3. PICK r : r = [ring[o] EXCEPT !.next = [i \in Node |-> NextPointer(a, i)],
                                     !.head = Pointer(a, 0), !.tail = Pointer(a, 0)]
    OBVIOUS
  <1>4. ring' = [ring EXCEPT ![o] = r]
    BY <1>3 DEF LinkRing
  <1>5. /\ r.next = [i \in Node |-> NextPointer(a, i)] /\ r.head = Pointer(a, 0) /\ r.tail = Pointer(a, 0)
        /\ r.slots = ring[o].slots /\ r.items = ring[o].items /\ r.mutex = ring[o].mutex
        /\ r = [head |-> r.head, tail |-> r.tail, next |-> r.next, task |-> ring[o].task,
                mutex |-> r.mutex, slots |-> r.slots, items |-> r.items]
    BY <1>2, <1>3 DEF RingOk, Cycles
  <1>6. /\ Pointer(a, 0) \in Led(spots[o]) /\ \A i \in Node : NextPointer(a, i) \in Led(spots[o])
        /\ Led(spots[o]) \subseteq Pointers /\ Null \notin Led(spots[o])
    <2>1. Pointer(a, 0) \in Led(spots[o])
      BY <1>2, SharingAssumption DEF Pointer, Led, Node
    <2> QED
      BY <1>2, <2>1, NextPointerIs, LedIs
  <1>7. r \in Cycles
    <2>1. r.next \in [Node -> Pointers]
      BY <1>5, <1>6
    <2> QED
      BY <1>2, <1>5, <1>6, <2>1 DEF RingOk, Cycles
  <1>8. RingOk(r, spots[o]) /\ r.tail # Null
    BY <1>2, <1>5, <1>6, <1>7 DEF RingOk, Linked
  <1>9. mapped' = [mapped EXCEPT ![p] = m]
    <2>1. [mapped[p] EXCEPT !.stage = "ready"] = m
      BY <1>1, <1>2 DEF MappingOk
    <2> QED
      BY <2>1 DEF LinkRing
  <1>10. mapped'[p] = m
    BY <1>1, <1>9 DEF SharingInv, MappingsOk
  <1> HIDE DEF o, a
  <1>11. /\ Objects' /\ NameOk' /\ DOMAIN ring' = DOMAIN ring /\ ring'[o] = r
         /\ \A x \in DOMAIN ring : ring[x].tail # Null => ring'[x].tail # Null
         /\ \A x \in DOMAIN ring' : RingOk(ring'[x], spots'[x])
    BY <1>1, <1>2, <1>4, <1>8, OneRingChanges DEF histories
  <1>12. MappingOk(p)'
    BY <1>1, <1>2, <1>8, <1>10, <1>11 DEF MappingOk, HasQueue, histories, o, a
  <1> HIDE DEF m
  <1> QED
    BY <1>1, <1>9, <1>11, <1>12, InvFrom DEF histories

LEMMA OpenKeeps ==
  ASSUME SharingInv, NEW p \in Opener, NEW a \in Address, Open(p, a)
  PROVE  SharingInv'
  <1> DEFINE m == [object |-> named, at |-> a, stage |-> "relink", linked |-> 0,
                   early |-> ring[named].tail = Null]
  <1>1. /\ p \in Proc /\ p \notin killed /\ named \in DOMAIN ring
        /\ mapped' = [mapped EXCEPT ![p] = m]
        /\ spots' = [spots EXCEPT ![named] = @ \cup {a}]
        /\ UNCHANGED <<named, ring, killed, fifo, creates, over>>
    BY DEF Open, IdleProc, Proc, SharingInv, NameOk
  <1>2. mapped'[p] = m
    BY <1>1 DEF SharingInv, MappingsOk
  <1>3. /\ spots' = [o \in DOMAIN ring |-> spots'[o]] /\ a \in spots'[named]
        /\ \A o \in DOMAIN ring : spots[o] \subseteq spots'[o] /\ spots'[o] \subseteq Address
    BY <1>1, SpotsAre DEF SharingInv, Objects
  <1>4. Objects' /\ \A o \in DOMAIN ring' : RingOk(ring'[o], spots'[o])
    BY <1>1, <1>3, RingsAreTheSame
  <1>5. NameOk'
    BY <1>1 DEF SharingInv, NameOk
  <1>6. MappingOk(p)'
    <2>1. m.early <=> ring[named].tail = Null
      OBVIOUS
    <2>2. ~mapped'[p].early => ring'[named].tail # Null
      BY <1>1, <1>2, <2>1
    <2>3. mapped'[p] = [object |-> named, at |-> a, stage |-> "relink", linked |-> 0,
                        early |-> mapped'[p].early]
      BY <1>2
    <2> HIDE DEF m
    <2>4. 0 \in 0 .. MaxLength /\ 0 \in Node
      BY SharingAssumption DEF Node
    <2>5. PICK v : v = mapped'[p]
      OBVIOUS
    <2>6. v.object = named /\ v.at = a /\ v.stage = "relink" /\ v.linked = 0
          /\ v = [object |-> v.object, at |-> v.at, stage |-> v.stage,
                  linked |-> v.linked, early |-> v.early]
      BY <2>3, <2>5
    <2> QED
      BY <1>1, <1>3, <2>2, <2>4, <2>5, <2>6 DEF MappingOk
  <1> HIDE DEF m
  <1> QED
    BY <1>1, <1>3, <1>4, <1>5, <1>6, InvFrom

(* Relink writes to the ring and to the mapping. *)
LEMMA RelinkKeeps ==
  ASSUME SharingInv, NEW p \in Opener, Relink(p)
  PROVE  SharingInv'
  <1> DEFINE o == mapped[p].object
             k == mapped[p].linked
             x == NextPointer(mapped[p].at, k)
             s == IF k + 1 = MaxLength THEN "ready" ELSE "relink"
             m == [object |-> o, at |-> mapped[p].at, stage |-> s,
                   linked |-> k + 1, early |-> mapped[p].early]
  <1>1. /\ HasQueue(p) /\ p \in Proc /\ p \notin killed /\ mapped[p].stage = "relink"
        /\ ring' = [ring EXCEPT ![o].next[k] = x]
        /\ mapped' = [mapped EXCEPT ![p] = AfterRelink(mapped[p])]
        /\ UNCHANGED <<named, killed, histories>>
    BY DEF Relink, At, Proc
  <1>2. /\ o \in DOMAIN ring /\ RingOk(ring[o], spots[o]) /\ MappingOk(p)
        /\ mapped[p].at \in spots[o] /\ spots[o] \subseteq Address
    BY <1>1, UserHasIt, SpotsAre
  <1>3. k \in Node /\ x \in Led(spots[o]) /\ Led(spots[o]) \subseteq Pointers
    BY <1>1, <1>2, NextPointerIs, LedIs DEF MappingOk
  <1> HIDE DEF x
  <1>4. PICK r : r = [ring[o] EXCEPT !.next[k] = x]
    OBVIOUS
  <1>5. /\ r.next = [ring[o].next EXCEPT ![k] = x] /\ r.head = ring[o].head /\ r.tail = ring[o].tail
        /\ r.items = ring[o].items /\ r.slots = ring[o].slots /\ ring[o].next \in [Node -> Pointers]
    BY <1>2, <1>4 DEF RingOk, Cycles
  <1>6. r \in Cycles
    <2>1. r.next \in [Node -> Pointers]
      BY <1>3, <1>5
    <2> QED
      BY <1>2, <1>4, <2>1 DEF RingOk, Cycles
  <1>7. RingOk(r, spots[o])
    <2>1. \A i \in Node : r.next[i] = x \/ r.next[i] = ring[o].next[i]
      BY <1>3, <1>5
    <2> QED
      BY <1>2, <1>3, <1>5, <1>6, <2>1 DEF RingOk, Linked, Blank
  <1>8. ring' = [ring EXCEPT ![o] = r]
    BY <1>1, <1>2, <1>4
  <1>9. mapped' = [mapped EXCEPT ![p] = m]
    <2>1. PICK v : v = mapped[p]
      OBVIOUS
    <2>2. v = [object |-> v.object, at |-> v.at, stage |-> v.stage,
               linked |-> v.linked, early |-> v.early]
      BY <1>1, <1>2, <2>1 DEF MappingOk
    <2>3. AfterRelink(v) = [v EXCEPT !.linked = k + 1, !.stage = s]
      BY <2>1 DEF AfterRelink
    <2>4. AfterRelink(v) = m
      BY <2>1, <2>2, <2>3
    <2>5. AfterRelink(mapped[p]) = m
      BY <2>1, <2>4
    <2> QED
      BY <1>1, <2>5
  <1>10. mapped'[p] = m
    BY <1>1, <1>9 DEF SharingInv, MappingsOk
  <1>11. k + 1 \in 0 .. MaxLength /\ (s = "relink" => k + 1 \in Node)
    BY <1>3, SharingAssumption DEF Node
  <1> HIDE DEF o
  <1>12. /\ Objects' /\ NameOk' /\ DOMAIN ring' = DOMAIN ring
         /\ \A y \in DOMAIN ring : ring[y].tail # Null => ring'[y].tail # Null
         /\ \A y \in DOMAIN ring' : RingOk(ring'[y], spots'[y])
    BY <1>1, <1>2, <1>5, <1>7, <1>8, OneRingChanges DEF histories
  <1>13. MappingOk(p)'
    <2>1. mapped[p].early \/ ring[o].tail # Null
      BY <1>1, <1>2 DEF MappingOk, o
    <2> QED
      BY <1>1, <1>2, <1>10, <1>11, <1>12, <2>1 DEF MappingOk, HasQueue, histories
  <1> HIDE DEF m
  <1> QED
    BY <1>1, <1>9, <1>12, <1>13, InvFrom DEF histories

LEMMA ForkKeeps ==
  ASSUME SharingInv, NEW p \in Proc, NEW child \in Forked, Fork(p, child)
  PROVE  SharingInv'
  <1>1. /\ child \in Proc /\ child \notin killed /\ mapped' = [mapped EXCEPT ![child] = mapped[p]]
        /\ UNCHANGED <<named, ring, killed, histories>>
    BY DEF Fork, IdleProc, Proc
  <1>2. mapped'[child] = mapped[p] /\ MappingOk(p)
    BY <1>1 DEF SharingInv, MappingsOk
  <1>3. MappingOk(child)'
    BY <1>1, <1>2 DEF HasQueue, MappingOk, histories
  <1>4. Objects' /\ (\A o \in DOMAIN ring' : RingOk(ring'[o], spots'[o])) /\ NameOk'
    BY <1>1, SpotsAre, RingsAreTheSame DEF SharingInv, Objects, NameOk, histories
  <1> QED
    BY <1>1, <1>3, <1>4, InvFrom DEF histories

LEMMA DestroyKeeps ==
  ASSUME SharingInv, NEW p \in Proc, Destroy(p)
  PROVE  SharingInv'
  <1>1. /\ p \notin killed /\ mapped' = [mapped EXCEPT ![p] = Unmapped] /\ named' = None
        /\ over' = over \cup ({named} \ {None})
        /\ UNCHANGED <<ring, killed, fifo, spots, creates>>
    BY DEF Destroy, Attached, At
  <1>2. mapped'[p] = Unmapped
    BY <1>1 DEF SharingInv, MappingsOk
  <1>3. MappingOk(p)'
    BY <1>2 DEF MappingOk, HasQueue, Unmapped
  <1>4. NameOk'
    <2>1. None \notin DOMAIN ring
      BY DEF SharingInv, Objects, None
    <2> QED
      BY <1>1, <2>1 DEF SharingInv, NameOk
  <1>5. Objects' /\ (\A o \in DOMAIN ring' : RingOk(ring'[o], spots'[o]))
    BY <1>1, SpotsAre, RingsAreTheSame DEF SharingInv, Objects
  <1> QED
    BY <1>1, <1>3, <1>4, <1>5, InvFrom

-----------------------------------------------------------------------------
(* What push and pop have taken when they reach for the node *)
LEMMA TakenIs ==
  ASSUME NEW S, NEW r, RingOk(r, S), NEW t, t \in Cycles, t.head = r.head, t.tail = r.tail,
         t.next = r.next, t.slots + t.items + 1 = r.slots + r.items, t.items <= r.items
  PROVE  t.slots + t.items < MaxLength /\ RingOk(t, S)
  <1>1. /\ r \in Cycles /\ r.slots + r.items <= MaxLength /\ MaxLength \in Nat /\ S \subseteq Address
        /\ r.slots \in Nat /\ r.items \in Nat /\ t.slots \in Nat /\ t.items \in Nat
    BY SharingAssumption DEF RingOk, Cycles
  <1>2. t.slots + t.items < MaxLength
    BY <1>1
  <1> QED
    BY <1>1, <1>2 DEF RingOk, Linked, Blank

LEMMA WithoutMutex ==
  ASSUME NEW S, NEW r, RingOk(r, S), NEW w, w = [r EXCEPT !.mutex = 0]
  PROVE  RingOk(w, S) /\ w.tail = r.tail
  <1>1. r \in Cycles
    BY DEF RingOk
  <1>2. w = [head |-> r.head, tail |-> r.tail, next |-> r.next, task |-> r.task, mutex |-> 0,
             slots |-> r.slots, items |-> r.items]
    BY <1>1 DEF Cycles
  <1>3. w \in Cycles
    BY <1>1, <1>2 DEF Cycles
  <1> QED
    BY <1>2, <1>3 DEF RingOk, Linked, Blank

(* A process that follows a pointer of another address had two addresses   *)
(* to meet, or came too early.                                             *)
LEMMA FaultKeeps ==
  ASSUME SharingInv, NEW p \in Proc, Attached(p), NEW o, o = mapped[p].object,
         ring[o].head.at # mapped[p].at \/ ring[o].tail.at # mapped[p].at,
         NEW r, RingOk(r, spots[o]), r.tail = ring[o].tail,
         Fault(p, o, r)
  PROVE  SharingInv'
  <1>1. HasQueue(p) /\ p \notin killed /\ mapped[p].stage = "ready"
    BY DEF Attached, At
  <1>2. /\ o \in DOMAIN ring /\ RingOk(ring[o], spots[o]) /\ MappingOk(p)
        /\ mapped[p].at \in spots[o] /\ mapped[p].at \in Address /\ spots[o] \subseteq Address
    BY <1>1, UserHasIt, SpotsAre
  <1>3. /\ killed' = killed \cup {p} /\ ring' = [ring EXCEPT ![o] = [r EXCEPT !.mutex = 0]]
        /\ UNCHANGED <<named, mapped, histories>>
    BY DEF Fault
  <1>4. Excused(p)
    <2>1. CASE mapped[p].early
      BY <2>1 DEF Excused
    <2>2. CASE ~mapped[p].early
      <3>1. ring[o].tail # Null
        BY <1>1, <1>2, <2>2 DEF MappingOk
      <3>2. ring[o].head \in Led(spots[o]) /\ ring[o].tail \in Led(spots[o])
        BY <1>2, <3>1 DEF RingOk, Linked, Blank
      <3>3. ring[o].head.at \in spots[o] /\ ring[o].tail.at \in spots[o]
        BY <1>2, <3>2, LedIs
      <3> QED
        BY <1>2, <3>3 DEF Excused
    <2> QED
      BY <2>1, <2>2
  <1>5. PICK w : w = [r EXCEPT !.mutex = 0]
    OBVIOUS
  <1>6. RingOk(w, spots[o]) /\ (ring[o].tail # Null => w.tail # Null) /\ ring' = [ring EXCEPT ![o] = w]
    BY <1>3, <1>5, WithoutMutex
  <1>7. /\ Objects' /\ NameOk' /\ DOMAIN ring' = DOMAIN ring
        /\ \A x \in DOMAIN ring : ring[x].tail # Null => ring'[x].tail # Null
        /\ \A x \in DOMAIN ring' : RingOk(ring'[x], spots'[x])
    BY <1>2, <1>3, <1>6, OneRingChanges DEF histories
  <1>8. MappingOk(p)' /\ mapped' = [mapped EXCEPT ![p] = mapped[p]]
    <2>1. mapped' = [mapped EXCEPT ![p] = mapped[p]]
      BY <1>3 DEF SharingInv, MappingsOk
    <2> QED
      BY <1>1, <1>2, <1>3, <1>7, <2>1 DEF MappingOk, HasQueue, histories
  <1>9. HasQueue(p)' /\ Excused(p)'
    BY <1>1, <1>3, <1>4 DEF HasQueue, Excused, histories
  <1> QED
    BY <1>1, <1>3, <1>7, <1>8, <1>9, InvFrom DEF histories

LEMMA PushKeeps ==
  ASSUME SharingInv, NEW p \in Proc, NEW t \in Task, Push(p, t)
  PROVE  SharingInv'
  <1> DEFINE o == mapped[p].object
  <1>1. HasQueue(p) /\ Attached(p) /\ p \notin killed /\ Ring(p).slots > 0
    BY DEF Push, CanUse, Attached, At
  <1>2. /\ o \in DOMAIN ring /\ Ring(p) = ring[o] /\ RingOk(ring[o], spots[o])
        /\ mapped[p].at \in Address /\ MappingOk(p) /\ spots[o] \subseteq Address
    BY <1>1, UserHasIt, SpotsAre
  <1>3. PICK r : r = [ring[o] EXCEPT !.slots = @ - 1]
    OBVIOUS
  <1>4. /\ r \in Cycles /\ r.head = ring[o].head /\ r.tail = ring[o].tail
        /\ r.next = ring[o].next /\ r.slots + r.items < MaxLength /\ RingOk(r, spots[o])
    <2>1. ring[o] \in Cycles
      BY <1>2 DEF RingOk
    <2>2. /\ r \in Cycles /\ r.head = ring[o].head /\ r.tail = ring[o].tail
          /\ r.next = ring[o].next /\ r.items = ring[o].items /\ r.slots = ring[o].slots - 1
      BY <1>1, <1>2, <1>3, <2>1 DEF Cycles
    <2>3. ring[o].slots \in Nat /\ ring[o].items \in Nat
      BY <2>1 DEF Cycles
    <2>4. r.slots + r.items + 1 = ring[o].slots + ring[o].items /\ r.items <= ring[o].items
      BY <2>2, <2>3
    <2> QED
      BY <1>2, <2>2, <2>4, TakenIs
  <1>5. CASE r.tail.at # mapped[p].at
    <2>1. Fault(p, o, r)
      BY <1>2, <1>3, <1>5 DEF Push
    <2> HIDE DEF o
    <2>2. o = mapped[p].object
      BY DEF o
    <2> QED
      BY <1>1, <1>4, <1>5, <2>1, <2>2, FaultKeeps
  <1>6. CASE r.tail.at = mapped[p].at
    <2>1. PICK n : n = r.tail.node
      OBVIOUS
    <2>2. PICK w : w = [r EXCEPT !.task[n] = t, !.tail = r.next[n], !.items = @ + 1]
      OBVIOUS
    <2>3. ring' = [ring EXCEPT ![o] = w] /\ UNCHANGED <<named, mapped, killed, spots, creates, over>>
          /\ \E q : fifo' = [fifo EXCEPT ![o] = q]
      <3>1. ring' = [ring EXCEPT ![o] = w] /\ UNCHANGED <<named, mapped, killed, spots, creates, over>>
        BY <1>2, <1>3, <1>6, <2>1, <2>2 DEF Push
      <3>2. fifo' = [fifo EXCEPT ![o] = Append(fifo[o], t)]
        BY <1>2, <1>3, <1>6 DEF Push
      <3> QED
        BY <3>1, <3>2
    <2>4. Linked(r, spots[o])
      BY <1>2, <1>4, <1>6, LedIs DEF RingOk, Blank
    <2>5. n \in Node /\ r.next[n] \in Led(spots[o]) /\ r.next[n] \in Pointers /\ r.next[n] # Null
      BY <1>2, <2>1, <2>4, LedIs DEF Linked
    <2>6. w = [head |-> r.head, tail |-> r.next[n], next |-> r.next,
               task |-> [r.task EXCEPT ![n] = t], mutex |-> r.mutex, slots |-> r.slots,
               items |-> r.items + 1]
      BY <1>4, <2>2 DEF Cycles
    <2>7. w \in Cycles /\ w.slots + w.items <= MaxLength
      <3>1. [r.task EXCEPT ![n] = t] \in [Node -> Task \cup {NoTask}]
        BY <1>4, <2>5 DEF Cycles
      <3>2. r.items \in Nat /\ r.slots \in Nat /\ MaxLength \in Nat
        BY <1>4, SharingAssumption DEF Cycles
      <3> QED
        BY <1>4, <2>5, <2>6, <3>1, <3>2 DEF Cycles
    <2>8. RingOk(w, spots[o]) /\ w.tail # Null
      BY <1>2, <2>4, <2>5, <2>6, <2>7 DEF RingOk, Linked
    <2> HIDE DEF o
    <2>9. /\ Objects' /\ NameOk' /\ DOMAIN ring' = DOMAIN ring
          /\ \A x \in DOMAIN ring : ring[x].tail # Null => ring'[x].tail # Null
          /\ \A x \in DOMAIN ring' : RingOk(ring'[x], spots'[x])
      BY <1>2, <2>3, <2>8, OneRingChanges
    <2>10. mapped' = [mapped EXCEPT ![p] = mapped[p]]
      BY <2>3 DEF SharingInv, MappingsOk
    <2>11. MappingOk(p)'
      BY <1>1, <1>2, <2>3, <2>9 DEF MappingOk, HasQueue
    <2> QED
      BY <1>1, <2>3, <2>9, <2>10, <2>11, InvFrom
  <1> QED
    BY <1>5, <1>6

LEMMA PopKeeps ==
  ASSUME SharingInv, NEW p \in Proc, Pop(p)
  PROVE  SharingInv'
  <1> DEFINE o == mapped[p].object
  <1>1. HasQueue(p) /\ Attached(p) /\ p \notin killed /\ Ring(p).items > 0
    BY DEF Pop, CanUse, Attached, At
  <1>2. /\ o \in DOMAIN ring /\ Ring(p) = ring[o] /\ RingOk(ring[o], spots[o])
        /\ mapped[p].at \in Address /\ MappingOk(p) /\ spots[o] \subseteq Address
    BY <1>1, UserHasIt, SpotsAre
  <1>3. PICK r : r = [ring[o] EXCEPT !.items = @ - 1]
    OBVIOUS
  <1>4. /\ r \in Cycles /\ r.head = ring[o].head /\ r.tail = ring[o].tail
        /\ r.next = ring[o].next /\ r.slots + r.items < MaxLength /\ RingOk(r, spots[o])
    <2>1. ring[o] \in Cycles
      BY <1>2 DEF RingOk
    <2>2. /\ r \in Cycles /\ r.head = ring[o].head /\ r.tail = ring[o].tail
          /\ r.next = ring[o].next /\ r.slots = ring[o].slots /\ r.items = ring[o].items - 1
      BY <1>1, <1>2, <1>3, <2>1 DEF Cycles
    <2>3. ring[o].slots \in Nat /\ ring[o].items \in Nat
      BY <2>1 DEF Cycles
    <2>4. r.slots + r.items + 1 = ring[o].slots + ring[o].items /\ r.items <= ring[o].items
      BY <2>2, <2>3
    <2> QED
      BY <1>2, <2>2, <2>4, TakenIs
  <1>5. CASE r.head.at # mapped[p].at
    <2>1. Fault(p, o, r)
      BY <1>2, <1>3, <1>5 DEF Pop
    <2> HIDE DEF o
    <2>2. o = mapped[p].object
      BY DEF o
    <2> QED
      BY <1>1, <1>4, <1>5, <2>1, <2>2, FaultKeeps
  <1>6. CASE r.head.at = mapped[p].at
    <2>1. PICK n : n = r.head.node
      OBVIOUS
    <2>2. PICK w : w = [r EXCEPT !.head = r.next[n], !.slots = @ + 1]
      OBVIOUS
    <2>3. ring' = [ring EXCEPT ![o] = w] /\ UNCHANGED <<named, mapped, killed, spots, creates, over>>
          /\ \E q : fifo' = [fifo EXCEPT ![o] = q]
      <3>1. ring' = [ring EXCEPT ![o] = w] /\ UNCHANGED <<named, mapped, killed, spots, creates, over>>
        BY <1>2, <1>3, <1>6, <2>1, <2>2 DEF Pop
      <3>2. fifo' = [fifo EXCEPT ![o] = Tail(fifo[o])]
        BY <1>2, <1>3, <1>6 DEF Pop
      <3> QED
        BY <3>1, <3>2
    <2>4. Linked(r, spots[o])
      BY <1>2, <1>4, <1>6, LedIs DEF RingOk, Blank
    <2>5. n \in Node /\ r.next[n] \in Led(spots[o]) /\ r.next[n] \in Pointers /\ r.tail # Null
      BY <1>2, <2>1, <2>4, LedIs DEF Linked
    <2>6. w = [head |-> r.next[n], tail |-> r.tail, next |-> r.next, task |-> r.task,
               mutex |-> r.mutex, slots |-> r.slots + 1, items |-> r.items]
      BY <1>4, <2>2 DEF Cycles
    <2>7. w \in Cycles /\ w.slots + w.items <= MaxLength
      <3>1. r.items \in Nat /\ r.slots \in Nat /\ MaxLength \in Nat
        BY <1>4, SharingAssumption DEF Cycles
      <3> QED
        BY <1>4, <2>5, <2>6, <3>1 DEF Cycles
    <2>8. RingOk(w, spots[o]) /\ w.tail # Null
      BY <1>2, <2>4, <2>5, <2>6, <2>7 DEF RingOk, Linked
    <2> HIDE DEF o
    <2>9. /\ Objects' /\ NameOk' /\ DOMAIN ring' = DOMAIN ring
          /\ \A x \in DOMAIN ring : ring[x].tail # Null => ring'[x].tail # Null
          /\ \A x \in DOMAIN ring' : RingOk(ring'[x], spots'[x])
      BY <1>2, <2>3, <2>8, OneRingChanges
    <2>10. mapped' = [mapped EXCEPT ![p] = mapped[p]]
      BY <2>3 DEF SharingInv, MappingsOk
    <2>11. MappingOk(p)'
      BY <1>1, <1>2, <2>3, <2>9 DEF MappingOk, HasQueue
    <2> QED
      BY <1>1, <2>3, <2>9, <2>10, <2>11, InvFrom
  <1> QED
    BY <1>5, <1>6

-----------------------------------------------------------------------------
LEMMA StutterKeeps ==
  ASSUME SharingInv, UNCHANGED vars
  PROVE  SharingInv'
  BY DEF SharingInv, vars, histories, Objects, RingsOk, RingOk, Linked, Blank, MappingsOk,
         MappingOk, KilledOk, Excused, NameOk, HasQueue

LEMMA SharingStep == SharingInv /\ [Next]_vars => SharingInv'
  <1> SUFFICES ASSUME SharingInv, [Next]_vars PROVE SharingInv'
    OBVIOUS
  <1>1. ASSUME NEW p \in Creator, NEW a \in Address, Create(p, a) PROVE SharingInv'
    BY <1>1, CreateKeeps
  <1>2. ASSUME NEW p \in Creator, CreateFails(p) \/ InitSems(p) \/ LinkRing(p) PROVE SharingInv'
    BY <1>2, CreateFailsKeeps, InitSemsKeeps, LinkRingKeeps
  <1>3. ASSUME NEW p \in Opener, NEW a \in Address, Open(p, a) PROVE SharingInv'
    BY <1>3, OpenKeeps
  <1>4. ASSUME NEW p \in Opener, Relink(p) PROVE SharingInv'
    BY <1>4, RelinkKeeps
  <1>5. ASSUME NEW p \in Proc, NEW child \in Forked, Fork(p, child) PROVE SharingInv'
    BY <1>5, ForkKeeps
  <1>6. ASSUME NEW p \in Proc, Destroy(p) PROVE SharingInv'
    BY <1>6, DestroyKeeps
  <1>7. ASSUME NEW p \in Proc, NEW t \in Task, Push(p, t) PROVE SharingInv'
    BY <1>7, PushKeeps
  <1>8. ASSUME NEW p \in Proc, Pop(p) PROVE SharingInv'
    BY <1>8, PopKeeps
  <1>9. CASE UNCHANGED vars
    BY <1>9, StutterKeeps
  <1> QED
    BY <1>1, <1>2, <1>3, <1>4, <1>5, <1>6, <1>7, <1>8, <1>9 DEF Next

(* nt_cycle.c: whoever creates the queue, opens it, forks, links its nodes *)
(* once more, destroys it or makes another one under its name, at any      *)
(* addresses: who is led out of his mapping opened the queue before it was *)
(* made, or the object he uses was put at two addresses.  Nothing is       *)
(* assumed of the callers.                                                 *)
THEOREM FaultsAreExplained == Spec => []FaultsHaveACause
  <1>1. Init => SharingInv
    BY InitSharing
  <1>2. SharingInv /\ [Next]_vars => SharingInv'
    BY SharingStep
  <1>3. SharingInv => FaultsHaveACause
    BY DEF SharingInv, KilledOk, Excused, FaultsHaveACause
  <1> QED
    BY <1>1, <1>2, <1>3, PTL DEF Spec

-----------------------------------------------------------------------------
(* What is in a queue that was created once: once linked, its nodes are a  *)
(* ring, and the tasks lie in the ring from the head on, up to the tail.   *)
(* The counts agree with them while the mutex can be taken; a process that *)
(* died in pop has counted one task less, and nobody takes the mutex after *)
(* it.                                                                     *)

NodeAfter(i) == IF i + 1 = MaxLength THEN 0 ELSE i + 1
NodeFrom(h, k) == IF h + k < MaxLength THEN h + k ELSE h + k - MaxLength

Holds(r, q) ==
    /\ q \in Seq(Task) /\ Len(q) <= MaxLength
    /\ r.tail.node = NodeFrom(r.head.node, Len(q))
    /\ \A k \in 1 .. Len(q) : r.task[NodeFrom(r.head.node, k - 1)] = q[k]
    /\ r.tail = Null => q = <<>>
    /\ r.tail # Null => \A i \in Node : r.next[i].node = NodeAfter(i)
    /\ r.mutex = 1 => r.items = Len(q) /\ r.slots + Len(q) = MaxLength
    /\ r.items = Len(q) \/ (r.mutex = 0 /\ r.items + 1 = Len(q))

(* p has called task_queue_create for o, and is not through. *)
Maker(p, o) == HasQueue(p) /\ mapped[p].object = o /\ mapped[p].stage \in {"sems", "links"}

(* Of a queue created once, one process at most is the maker, and links it *)
(* when nobody has used it.                                                *)
QueueOk(o) ==
    /\ creates[o] \in Nat
    /\ creates[o] <= 1 =>
         /\ Holds(ring[o], fifo[o])
         /\ ring[o].items # Len(fifo[o]) => \E p \in killed : mapped[p].object = o
    /\ creates[o] = 0 => ring[o].tail = Null /\ \A p \in Proc : ~Maker(p, o)
    /\ creates[o] = 1 =>
         \A p \in Proc : Maker(p, o) =>
           ring[o].tail = Null /\ \A q \in Proc : Maker(q, o) => q = p

QueuesOk == \A o \in DOMAIN ring : QueueOk(o)

TasksInv == SharingInv /\ QueuesOk

LEMMA NodeAfterIs ==
  ASSUME NEW i \in Node
  PROVE  (i + 1) % MaxLength = NodeAfter(i) /\ NodeAfter(i) \in Node
  <1>1. i \in Nat /\ i + 1 <= MaxLength /\ MaxLength \in Nat \ {0}
    BY SharingAssumption DEF Node
  <1> QED
    BY <1>1 DEF NodeAfter, Node

LEMMA NodesFrom ==
  ASSUME NEW h \in Node
  PROVE  /\ NodeFrom(h, 0) = h
         /\ \A k \in 0 .. MaxLength : NodeFrom(h, k) \in Node
         /\ \A k \in 0 .. MaxLength - 1 : /\ NodeFrom(h, k + 1) = NodeAfter(NodeFrom(h, k))
                                          /\ NodeFrom(NodeAfter(h), k) = NodeFrom(h, k + 1)
         /\ \A k, m \in 0 .. MaxLength - 1 : NodeFrom(h, k) = NodeFrom(h, m) => k = m
  BY SharingAssumption DEF Node, NodeFrom, NodeAfter

LEMMA NodesDiffer ==
  ASSUME NEW h \in Node, NEW k \in 0 .. MaxLength - 1, NEW m \in 0 .. MaxLength - 1, k # m
  PROVE  NodeFrom(h, k) \in Node /\ NodeFrom(h, k) # NodeFrom(h, m)
  <1>1. k \in 0 .. MaxLength
    BY SharingAssumption
  <1> QED
    BY <1>1, NodesFrom

LEMMA LeastOf ==
  ASSUME NEW T, T \subseteq Nat, T # {}
  PROVE  \E x \in T : \A y \in T : x <= y
  <1>1. PICK x \in T : \A y \in T : ~(<<y, x>> \in OpToRel(<, Nat))
    BY NatLessThanWellFounded, WFMin
  <1>2. ASSUME NEW y \in T PROVE x <= y
    <2>1. ~(y < x)
      BY <1>1 DEF OpToRel
    <2> QED
      BY <2>1
  <1> QED
    BY <1>2

(* The nodes that following next from head leads to *)
Follow(r, f, k) == IF k = 1 THEN r.head.node ELSE r.next[f[k - 1]].node

(* The ring of a queue that holds something, as far as its links go *)
LEMMA RingIs ==
  ASSUME NEW r, NEW S, RingOk(r, S), NEW q, Holds(r, q)
  PROVE  /\ r.head.node \in Node /\ r.items \in Nat /\ r.items <= Len(q)
         /\ Len(q) \in Nat /\ Len(q) <= MaxLength /\ MaxLength \in Nat
         /\ r.items # 0 => \A i \in Node : r.next[i].node = NodeAfter(i)
  <1>1. r \in Cycles /\ q \in Seq(Task) /\ Len(q) \in Nat /\ S \subseteq Address
    BY DEF RingOk, Holds
  <1>2. r.head \in Pointers /\ r.items \in Nat
    BY <1>1 DEF Cycles
  <1>3. r.head.node \in Node
    BY <1>2, LedIs DEF Pointers
  <1>4. r.items # 0 => r.tail # Null
    BY <1>1, LedIs DEF RingOk, Linked, Blank
  <1> QED
    BY <1>1, <1>2, <1>3, <1>4, SharingAssumption DEF Holds

LEMMA FollowedFrom ==
  ASSUME NEW r, NEW S, RingOk(r, S), NEW q, Holds(r, q),
         NEW f, f = [k \in 1 .. r.items |-> Follow(r, f, k)]
  PROVE  \A k \in 1 .. r.items : f[k] = NodeFrom(r.head.node, k - 1)
  <1> DEFINE h == r.head.node
             Bad == {k \in 1 .. r.items : f[k] # NodeFrom(h, k - 1)}
  <1>1. /\ h \in Node /\ r.items \in Nat /\ r.items <= MaxLength /\ MaxLength \in Nat
        /\ r.items # 0 => \A i \in Node : r.next[i].node = NodeAfter(i)
    BY RingIs
  <1> HIDE DEF h
  <1>2. SUFFICES ASSUME Bad # {} PROVE FALSE
    BY <1>2 DEF h
  <1>3. PICK k \in Bad : \A j \in Bad : k <= j
    <2>1. Bad \subseteq Nat
      OBVIOUS
    <2> QED
      BY <1>2, <2>1, LeastOf
  <1>4. k \in 1 .. r.items /\ f[k] = Follow(r, f, k) /\ f[k] # NodeFrom(h, k - 1)
    BY <1>3
  <1>5. CASE k = 1
    <2>1. f[k] = h
      BY <1>4, <1>5 DEF Follow, h
    <2>2. NodeFrom(h, k - 1) = h
      BY <1>1, <1>5, NodesFrom
    <2> QED
      BY <1>4, <2>1, <2>2
  <1>6. CASE k # 1
    <2>1. k - 1 \in 1 .. r.items /\ k - 1 \notin Bad
      <3>1. k \in Nat /\ k - 1 \in 1 .. r.items /\ ~(k <= k - 1)
        BY <1>1, <1>4, <1>6
      <3> QED
        BY <1>3, <3>1
    <2>2. f[k - 1] = NodeFrom(h, (k - 1) - 1)
      BY <2>1
    <2>3. (k - 1) - 1 \in 0 .. MaxLength - 1 /\ ((k - 1) - 1) + 1 = k - 1
      BY <1>1, <2>1
    <2>4. f[k] = NodeAfter(f[k - 1])
      <3>1. f[k - 1] \in Node
        BY <1>1, <2>2, <2>3, NodesFrom
      <3>2. f[k] = r.next[f[k - 1]].node
        BY <1>4, <1>6 DEF Follow
      <3>3. r.items # 0
        BY <1>1, <1>4
      <3> QED
        BY <1>1, <3>1, <3>2, <3>3
    <2> QED
      BY <1>1, <1>4, <2>2, <2>3, <2>4, NodesFrom
  <1> QED
    BY <1>5, <1>6 DEF h

LEMMA FollowExists ==
  ASSUME NEW r, NEW S, RingOk(r, S), NEW q, Holds(r, q)
  PROVE  \E f : f = [k \in 1 .. r.items |-> Follow(r, f, k)]
  <1> DEFINE h == r.head.node
             f == [k \in 1 .. r.items |-> NodeFrom(h, k - 1)]
  <1>1. /\ h \in Node /\ r.items \in Nat /\ r.items <= MaxLength /\ MaxLength \in Nat
        /\ r.items # 0 => \A i \in Node : r.next[i].node = NodeAfter(i)
    BY RingIs
  <1> HIDE DEF h
  <1>2. ASSUME NEW k \in 1 .. r.items PROVE Follow(r, f, k) = NodeFrom(h, k - 1)
    <2>1. CASE k = 1
      BY <1>1, <2>1, NodesFrom DEF Follow, h
    <2>2. CASE k # 1
      <3>1. k - 1 \in 1 .. r.items /\ (k - 1) - 1 \in 0 .. MaxLength - 1 /\ ((k - 1) - 1) + 1 = k - 1
        BY <1>1, <2>2
      <3>2. f[k - 1] = NodeFrom(h, (k - 1) - 1) /\ f[k - 1] \in Node
        BY <1>1, <3>1, NodesFrom
      <3>3. Follow(r, f, k) = NodeAfter(f[k - 1])
        BY <1>1, <2>2, <3>2 DEF Follow
      <3> QED
        BY <1>1, <3>1, <3>2, <3>3, NodesFrom
    <2> QED
      BY <2>1, <2>2
  <1>3. f = [k \in 1 .. r.items |-> Follow(r, f, k)]
    BY <1>2 DEF h
  <1> QED
    BY <1>3

LEMMA ContentsAre ==
  ASSUME NEW r, NEW S, RingOk(r, S), NEW q, Holds(r, q)
  PROVE  Contents(r) = SubSeq(q, 1, r.items)
  <1> DEFINE f == CHOOSE g : g = [k \in 1 .. r.items |-> Follow(r, g, k)]
  <1>1. f = [k \in 1 .. r.items |-> Follow(r, f, k)]
    BY FollowExists
  <1>2. Contents(r) = [k \in 1 .. r.items |-> r.task[f[k]]]
    BY DEF Contents, Follow
  <1> HIDE DEF f
  <1>3. r.items \in Nat /\ r.items <= Len(q) /\ Len(q) \in Nat
    BY RingIs
  <1>4. \A k \in 1 .. r.items : r.task[f[k]] = q[k]
    <2>1. \A k \in 1 .. r.items : f[k] = NodeFrom(r.head.node, k - 1)
      BY <1>1, FollowedFrom
    <2> QED
      BY <1>3, <2>1 DEF Holds
  <1>5. q \in Seq(Task)
    BY DEF Holds
  <1>6. SubSeq(q, 1, r.items) = [k \in 1 .. r.items |-> q[k]]
    BY <1>3, <1>5
  <1> QED
    BY <1>2, <1>4, <1>6

-----------------------------------------------------------------------------
(* Who is killed stays where he was, and nobody becomes a maker unless he  *)
(* calls task_queue_create.                                                *)
LEMMA MappingsAreKept ==
  ASSUME TasksInv, NEW p \in Proc, p \notin killed, NEW m, mapped' = [mapped EXCEPT ![p] = m],
         \A o : m.object # None /\ m.object = o /\ m.stage \in {"sems", "links"} => Maker(p, o)
  PROVE  /\ \A q \in killed : mapped'[q] = mapped[q]
         /\ \A q \in Proc : \A o : Maker(q, o)' => Maker(q, o)
         /\ \A o : Maker(p, o)' => m.object = o /\ m.stage \in {"sems", "links"}
  <1>1. mapped'[p] = m /\ \A q \in Proc \ {p} : mapped'[q] = mapped[q]
    BY DEF TasksInv, SharingInv, MappingsOk
  <1>2. \A q \in killed : q \in Proc \ {p}
    BY DEF TasksInv, SharingInv, KilledOk
  <1>3. ASSUME NEW q \in Proc, NEW o, Maker(q, o)' PROVE Maker(q, o)
    BY <1>1, <1>3 DEF Maker, HasQueue
  <1>4. ASSUME NEW o, Maker(p, o)' PROVE m.object = o /\ m.stage \in {"sems", "links"}
    BY <1>1, <1>4 DEF Maker, HasQueue
  <1> QED
    BY <1>1, <1>2, <1>3, <1>4

LEMMA QueueStaysOk ==
  ASSUME NEW o, QueueOk(o), creates'[o] = creates[o], ring'[o] = ring[o], fifo'[o] = fifo[o],
         \A q \in Proc : Maker(q, o)' => Maker(q, o),
         killed \subseteq killed', \A q \in killed : mapped'[q] = mapped[q]
  PROVE  QueueOk(o)'
  <1>1. Holds(ring[o], fifo[o]) => Holds(ring[o], fifo[o])'
    BY DEF Holds
  <1> QED
    BY <1>1 DEF QueueOk

(* A call that leaves all rings as they are *)
LEMMA QueuesStay ==
  ASSUME TasksInv, UNCHANGED <<ring, fifo, creates, killed>>,
         NEW p \in Proc, p \notin killed, NEW m, mapped' = [mapped EXCEPT ![p] = m],
         \A o : m.object # None /\ m.object = o /\ m.stage \in {"sems", "links"} => Maker(p, o)
  PROVE  QueuesOk'
  <1>1. /\ \A q \in killed : mapped'[q] = mapped[q]
        /\ \A q \in Proc : \A o : Maker(q, o)' => Maker(q, o)
    BY MappingsAreKept
  <1>2. ASSUME NEW o \in DOMAIN ring PROVE QueueOk(o)'
    BY <1>1, QueueStaysOk DEF TasksInv, QueuesOk
  <1> QED
    BY <1>2 DEF QueuesOk

(* A call that writes to one ring, and perhaps to its queue *)
LEMMA OneQueueChanges ==
  ASSUME TasksInv, NEW o \in DOMAIN ring, NEW r, NEW q,
         ring' = [ring EXCEPT ![o] = r], fifo' = [fifo EXCEPT ![o] = q], creates' = creates,
         NEW p \in Proc, p \notin killed, NEW m, mapped' = [mapped EXCEPT ![p] = m],
         \A x : m.object # None /\ m.object = x /\ m.stage \in {"sems", "links"} => Maker(p, x),
         killed \subseteq killed',
         creates[o] <= 1 => Holds(r, q),
         creates[o] <= 1 /\ r.items # Len(q) =>
           (fifo[o] = q /\ ring[o].items # Len(q)) \/ (p \in killed' /\ m.object = o),
         \/ r.tail = ring[o].tail
         \/ r.tail # Null /\ ring[o].tail # Null
         \/ Maker(p, o) /\ m.stage = "ready"
  PROVE  QueuesOk'
  <1>1. /\ \A x \in killed : mapped'[x] = mapped[x]
        /\ \A x \in Proc : \A y : Maker(x, y)' => Maker(x, y)
        /\ \A x : Maker(p, x)' => m.object = x /\ m.stage \in {"sems", "links"}
    BY MappingsAreKept
  <1>2. /\ DOMAIN ring' = DOMAIN ring /\ ring'[o] = r /\ fifo'[o] = q /\ mapped'[p] = m
        /\ \A x \in DOMAIN ring \ {o} : ring'[x] = ring[x] /\ fifo'[x] = fifo[x]
    BY DEF TasksInv, SharingInv, Objects, MappingsOk
  <1>3. ASSUME NEW x \in DOMAIN ring \ {o} PROVE QueueOk(x)'
    BY <1>1, <1>2, QueueStaysOk DEF TasksInv, QueuesOk
  <1>4. QueueOk(o)'
    <2>0. QueueOk(o) /\ creates'[o] = creates[o]
      BY DEF TasksInv, QueuesOk
    <2>1. ASSUME creates[o] <= 1 PROVE Holds(ring[o], fifo[o])'
      <3>1. Holds(ring'[o], fifo'[o])
        BY <1>2, <2>1
      <3> QED
        BY <3>1 DEF Holds
    <2>2. ASSUME creates[o] <= 1, r.items # Len(q) PROVE \E x \in killed' : mapped'[x].object = o
      <3>1. CASE p \in killed' /\ m.object = o
        BY <1>2, <3>1
      <3>2. CASE fifo[o] = q /\ ring[o].items # Len(q)
        <4>1. PICK x \in killed : mapped[x].object = o
          BY <2>0, <2>2, <3>2 DEF QueueOk
        <4> QED
          BY <1>1, <4>1
      <3> QED
        BY <2>2, <3>1, <3>2
    <2>3. ASSUME creates[o] = 0 PROVE ring'[o].tail = Null /\ \A x \in Proc : ~Maker(x, o)'
      BY <1>1, <1>2, <2>0, <2>3 DEF QueueOk
    <2>4. ASSUME creates[o] = 1, NEW x \in Proc, Maker(x, o)'
          PROVE  ring'[o].tail = Null /\ \A y \in Proc : Maker(y, o)' => y = x
      <3>1. Maker(x, o) /\ ring[o].tail = Null /\ \A y \in Proc : Maker(y, o) => y = x
        BY <1>1, <2>0, <2>4 DEF QueueOk
      <3>2. ~(Maker(p, o) /\ m.stage = "ready")
        BY <1>1, <2>4, <3>1
      <3> QED
        BY <1>1, <1>2, <3>1, <3>2
    <2> QED
      BY <1>2, <2>0, <2>1, <2>2, <2>3, <2>4 DEF QueueOk
  <1> QED
    BY <1>2, <1>3, <1>4 DEF QueuesOk

(* An object as ftruncate makes it holds nothing. *)
LEMMA ZerosHold == Holds(Zeros, <<>>)
  <1>1. /\ Zeros.tail = Null /\ Zeros.head = Null /\ Zeros.mutex = 0 /\ Zeros.items = 0
        /\ Null.node = 0
    BY DEF Zeros, Null, Pointer
  <1>2. NodeFrom(0, 0) = 0
    BY SharingAssumption DEF NodeFrom
  <1>3. <<>> \in Seq(Task) /\ Len(<<>>) = 0 /\ 0 <= MaxLength
    BY SharingAssumption
  <1> QED
    BY <1>1, <1>2, <1>3 DEF Holds

(* Create and CreateFails: a new object, or one more call for the old one *)
LEMMA OpenedHolds ==
  ASSUME TasksInv, NEW o, o = ObjectToCreate, OpenObject(o), killed' = killed,
         fifo' = IF o \in DOMAIN ring THEN fifo ELSE With(fifo, o, <<>>)
  PROVE  /\ DOMAIN ring' = DOMAIN ring \cup {o}
         /\ \A x \in DOMAIN ring : ring'[x] = ring[x] /\ fifo'[x] = fifo[x]
         /\ o \notin DOMAIN ring => ring'[o] = Zeros /\ fifo'[o] = <<>>
         /\ o \notin DOMAIN ring => \A p \in Proc : ~Maker(p, o)
         /\ o # None /\ o \notin over
  <1>1. ring' = (IF o \in DOMAIN ring THEN ring ELSE With(ring, o, Zeros)) /\ DOMAIN fifo = DOMAIN ring
    BY DEF OpenObject, TasksInv, SharingInv, Objects
  <1>2. CASE o \in DOMAIN ring
    BY <1>1, <1>2, ObjectIs DEF TasksInv
  <1>3. CASE o \notin DOMAIN ring
    <2>1. ring' = [y \in DOMAIN ring \cup {o} |-> IF y = o THEN Zeros ELSE ring[y]]
      BY <1>1, <1>3 DEF With
    <2>2. fifo' = [y \in DOMAIN ring \cup {o} |-> IF y = o THEN <<>> ELSE fifo[y]]
      BY <1>1, <1>3 DEF With
    <2>3. \A p \in Proc : ~Maker(p, o)
      BY <1>3 DEF TasksInv, SharingInv, MappingsOk, MappingOk, Maker
    <2> QED
      BY <1>3, <2>1, <2>2, <2>3, ObjectIs DEF TasksInv
  <1> QED
    BY <1>2, <1>3

LEMMA CreateHolds ==
  ASSUME TasksInv, NEW p \in Creator, NEW a \in Address, Create(p, a)
  PROVE  QueuesOk'
  <1> PICK o : o = ObjectToCreate
    OBVIOUS
  <1> PICK n : n = IF o \in DOMAIN ring \ over THEN creates[o] + 1 ELSE 1
    OBVIOUS
  <1> DEFINE m == [object |-> o, at |-> a, stage |-> "sems", linked |-> 0, early |-> FALSE]
  <1>1. /\ IdleProc(p) /\ OpenObject(o) /\ killed' = killed
        /\ mapped' = [mapped EXCEPT ![p] = m]
        /\ fifo' = IF o \in DOMAIN ring THEN fifo ELSE With(fifo, o, <<>>)
        /\ creates' = With(creates, o, n)
    BY DEF Create
  <1>2. /\ DOMAIN ring' = DOMAIN ring \cup {o}
        /\ \A x \in DOMAIN ring : ring'[x] = ring[x] /\ fifo'[x] = fifo[x]
        /\ o \notin DOMAIN ring => ring'[o] = Zeros /\ fifo'[o] = <<>>
        /\ o \notin DOMAIN ring => \A q \in Proc : ~Maker(q, o)
        /\ o # None /\ o \notin over
    BY <1>1, OpenedHolds
  <1>3. p \in Proc /\ p \notin killed /\ ~HasQueue(p)
    BY <1>1 DEF Proc, IdleProc
  <1>4. mapped'[p] = m /\ \A q \in Proc \ {p} : mapped'[q] = mapped[q]
    BY <1>1, <1>3 DEF TasksInv, SharingInv, MappingsOk
  <1>5. m.object = o
    OBVIOUS
  <1>6. creates'[o] = n /\ \A x \in DOMAIN ring \ {o} : creates'[x] = creates[x]
    <2>1. creates' = [y \in DOMAIN creates \cup {o} |-> IF y = o THEN n ELSE creates[y]]
      BY <1>1 DEF With
    <2>2. DOMAIN creates = DOMAIN ring
      BY DEF TasksInv, SharingInv, Objects
    <2> QED
      BY <2>1, <2>2
  <1>7. n = IF o \in DOMAIN ring THEN creates[o] + 1 ELSE 1
    BY <1>2
  <1> HIDE DEF m
  <1>8. \A q \in Proc : \A x : Maker(q, x)' => Maker(q, x) \/ (q = p /\ x = o)
    BY <1>4, <1>5 DEF Maker, HasQueue
  <1>9. \A q \in killed : mapped'[q] = mapped[q]
    BY <1>3, <1>4 DEF TasksInv, SharingInv, KilledOk
  <1>10. ASSUME NEW x \in DOMAIN ring \ {o} PROVE QueueOk(x)'
    BY <1>1, <1>2, <1>6, <1>8, <1>9, QueueStaysOk DEF TasksInv, QueuesOk
  <1>11. QueueOk(o)'
    <2>1. CASE o \in DOMAIN ring
      <3>1. /\ QueueOk(o) /\ ring'[o] = ring[o] /\ fifo'[o] = fifo[o]
            /\ creates[o] \in Nat /\ creates'[o] = creates[o] + 1
        BY <1>2, <1>6, <1>7, <2>1 DEF TasksInv, QueuesOk, QueueOk
      <3>2. CASE creates[o] = 0
        <4>1. creates'[o] = 1 /\ ring[o].tail = Null /\ \A q \in Proc : ~Maker(q, o)
          BY <3>1, <3>2 DEF QueueOk
        <4>2. \A q \in Proc : Maker(q, o)' => q = p
          BY <1>8, <4>1
        <4>3. /\ Holds(ring[o], fifo[o])
              /\ ring[o].items # Len(fifo[o]) => \E q \in killed : mapped[q].object = o
          BY <3>1, <3>2 DEF QueueOk
        <4>4. Holds(ring[o], fifo[o])'
          BY <3>1, <4>3 DEF Holds
        <4>5. ring'[o].items # Len(fifo'[o]) => \E q \in killed' : mapped'[q].object = o
          BY <1>1, <1>9, <3>1, <4>3
        <4> QED
          BY <3>1, <4>1, <4>2, <4>4, <4>5 DEF QueueOk
      <3>3. CASE creates[o] # 0
        <4>1. creates'[o] \in Nat /\ creates'[o] > 1
          BY <3>1, <3>3
        <4> QED
          BY <4>1 DEF QueueOk
      <3> QED
        BY <3>2, <3>3
    <2>2. CASE o \notin DOMAIN ring
      <3>1. ring'[o] = Zeros /\ fifo'[o] = <<>> /\ creates'[o] = 1 /\ \A q \in Proc : Maker(q, o)' => q = p
        BY <1>2, <1>6, <1>7, <1>8, <2>2
      <3>2. Holds(ring'[o], fifo'[o])
        BY <3>1, ZerosHold
      <3>3. Holds(ring[o], fifo[o])'
        BY <3>2 DEF Holds
      <3>4. ring'[o].items = Len(fifo'[o]) /\ ring'[o].tail = Null
        BY <3>1 DEF Zeros
      <3> QED
        BY <3>1, <3>3, <3>4 DEF QueueOk
    <2> QED
      BY <2>1, <2>2
  <1> QED
    BY <1>2, <1>10, <1>11 DEF QueuesOk

LEMMA CreateFailsHolds ==
  ASSUME TasksInv, NEW p \in Creator, CreateFails(p)
  PROVE  QueuesOk'
  <1> PICK o : o = ObjectToCreate
    OBVIOUS
  <1>0. o \notin over
    BY ObjectIs DEF TasksInv
  <1>1. /\ IdleProc(p) /\ OpenObject(o) /\ killed' = killed /\ mapped' = mapped
        /\ fifo' = IF o \in DOMAIN ring THEN fifo ELSE With(fifo, o, <<>>)
        /\ creates' = IF o \in DOMAIN ring THEN creates ELSE With(creates, o, 0)
    BY <1>0 DEF CreateFails
  <1>2. /\ DOMAIN ring' = DOMAIN ring \cup {o}
        /\ \A x \in DOMAIN ring : ring'[x] = ring[x] /\ fifo'[x] = fifo[x]
        /\ o \notin DOMAIN ring => ring'[o] = Zeros /\ fifo'[o] = <<>>
        /\ o \notin DOMAIN ring => \A q \in Proc : ~Maker(q, o)
    BY <1>1, OpenedHolds
  <1>3. /\ \A x \in DOMAIN ring : creates'[x] = creates[x]
        /\ o \notin DOMAIN ring => creates'[o] = 0
    <2>1. DOMAIN creates = DOMAIN ring
      BY DEF TasksInv, SharingInv, Objects
    <2>2. CASE o \in DOMAIN ring
      BY <1>1, <2>2
    <2>3. CASE o \notin DOMAIN ring
      <3>1. creates' = [y \in DOMAIN creates \cup {o} |-> IF y = o THEN 0 ELSE creates[y]]
        BY <1>1, <2>3 DEF With
      <3> QED
        BY <2>1, <2>3, <3>1
    <2> QED
      BY <2>2, <2>3
  <1>4. \A q \in Proc : \A x : Maker(q, x)' => Maker(q, x)
    BY <1>1 DEF Maker, HasQueue
  <1>5. ASSUME NEW x \in DOMAIN ring PROVE QueueOk(x)'
    BY <1>1, <1>2, <1>3, <1>4, QueueStaysOk DEF TasksInv, QueuesOk
  <1>6. ASSUME o \notin DOMAIN ring PROVE QueueOk(o)'
    <2>1. ring'[o] = Zeros /\ fifo'[o] = <<>> /\ creates'[o] = 0 /\ \A q \in Proc : ~Maker(q, o)'
      BY <1>2, <1>3, <1>4, <1>6
    <2>2. Holds(ring'[o], fifo'[o])
      BY <2>1, ZerosHold
    <2>3. Holds(ring[o], fifo[o])'
      BY <2>2 DEF Holds
    <2>4. ring'[o].items = Len(fifo'[o]) /\ ring'[o].tail = Null
      BY <2>1 DEF Zeros
    <2> QED
      BY <2>1, <2>3, <2>4 DEF QueueOk
  <1> QED
    BY <1>2, <1>5, <1>6 DEF QueuesOk

-----------------------------------------------------------------------------
LEMMA UserKnows ==
  ASSUME TasksInv, NEW p \in Proc, HasQueue(p), NEW o, o = mapped[p].object
  PROVE  /\ o \in DOMAIN ring /\ Ring(p) = ring[o] /\ QueueOk(o) /\ o # None
         /\ ring[o] \in Cycles /\ RingOk(ring[o], spots[o]) /\ mapped[p].at \in Address
         /\ fifo = [fifo EXCEPT ![o] = fifo[o]] /\ mapped = [mapped EXCEPT ![p] = mapped[p]]
         /\ creates[o] <= 1 => Holds(ring[o], fifo[o])
         /\ mapped[p].object # None /\ creates[o] \in Nat
  <1>1. SharingInv
    BY DEF TasksInv
  <1>2. /\ o \in DOMAIN ring /\ RingOk(ring[o], spots[o]) /\ Ring(p) = ring[o]
        /\ mapped[p].at \in Address
    BY <1>1, UserHasIt
  <1>3. fifo = [fifo EXCEPT ![o] = fifo[o]] /\ mapped = [mapped EXCEPT ![p] = mapped[p]]
    BY <1>1 DEF SharingInv, Objects, MappingsOk
  <1>4. QueueOk(o) /\ ring[o] \in Cycles
    BY <1>2 DEF TasksInv, QueuesOk, RingOk
  <1> QED
    BY <1>2, <1>3, <1>4 DEF QueueOk, HasQueue

(* What the maker of a queue that was created once finds in it. *)
LEMMA MakerFinds ==
  ASSUME TasksInv, NEW p \in Proc, NEW o, Maker(p, o), o = mapped[p].object, creates[o] <= 1
  PROVE  /\ ring[o].tail = Null /\ ring[o].head.node = 0 /\ fifo[o] = <<>>
         /\ ring[o].items = 0 /\ ring[o].items = Len(fifo[o])
  <1>1. /\ HasQueue(p) /\ QueueOk(o) /\ RingOk(ring[o], spots[o]) /\ Holds(ring[o], fifo[o])
        /\ ring[o].items \in Nat /\ creates[o] \in Nat
    BY UserKnows DEF Maker, Cycles
  <1>2. ring[o].tail = Null
    BY <1>1 DEF QueueOk
  <1>3. fifo[o] = <<>> /\ Len(fifo[o]) = 0
    BY <1>1, <1>2 DEF Holds
  <1>4. Blank(ring[o], spots[o])
    BY <1>1, <1>2, LedIs DEF RingOk, Linked
  <1> QED
    BY <1>2, <1>3, <1>4 DEF Blank, Null, Pointer

LEMMA InitSemsHolds ==
  ASSUME TasksInv, NEW p \in Creator, InitSems(p)
  PROVE  QueuesOk'
  <1> PICK o : o = mapped[p].object
    OBVIOUS
  <1> PICK m : m = [mapped[p] EXCEPT !.stage = "links"]
    OBVIOUS
  <1>1. /\ HasQueue(p) /\ p \in Proc /\ p \notin killed /\ mapped[p].stage = "sems" /\ Maker(p, o)
        /\ UNCHANGED <<named, killed, histories>>
    BY DEF InitSems, At, Proc, Maker
  <1>2. /\ o \in DOMAIN ring /\ ring[o] \in Cycles /\ MappingOk(p)
        /\ fifo' = [fifo EXCEPT ![o] = fifo[o]] /\ mapped = [mapped EXCEPT ![p] = mapped[p]]
    BY <1>1, UserKnows DEF histories, TasksInv, SharingInv, MappingsOk
  <1>3. mapped' = [mapped EXCEPT ![p] = m] /\ m.object = o
    BY <1>1, <1>2 DEF InitSems, MappingOk
  <1>4. PICK r : r = [ring[o] EXCEPT !.mutex = 1, !.slots = MaxLength, !.items = 0]
    OBVIOUS
  <1>5. ring' = [ring EXCEPT ![o] = r]
    BY <1>4 DEF InitSems
  <1>6. /\ r.head = ring[o].head /\ r.tail = ring[o].tail /\ r.next = ring[o].next
        /\ r.task = ring[o].task /\ r.mutex = 1 /\ r.slots = MaxLength /\ r.items = 0
    BY <1>2, <1>4 DEF Cycles
  <1>7. ASSUME creates[o] <= 1 PROVE Holds(r, fifo[o]) /\ r.items = Len(fifo[o])
    <2>1. Holds(ring[o], fifo[o]) /\ fifo[o] = <<>> /\ ring[o].tail = Null
      BY <1>1, <1>7, UserKnows, MakerFinds
    <2>2. Len(fifo[o]) = 0 /\ MaxLength \in Nat
      BY <2>1, SharingAssumption
    <2> QED
      BY <1>6, <2>1, <2>2 DEF Holds
  <1>8. \A x : m.object # None /\ m.object = x /\ m.stage \in {"sems", "links"} => Maker(p, x)
    BY <1>1, <1>3
  <1>9. killed \subseteq killed' /\ creates' = creates /\ r.tail = ring[o].tail
    BY <1>1, <1>6 DEF histories
  <1> QED
    BY <1>1, <1>2, <1>3, <1>5, <1>7, <1>8, <1>9, OneQueueChanges

LEMMA LinkRingHolds ==
  ASSUME TasksInv, NEW p \in Creator, LinkRing(p)
  PROVE  QueuesOk'
  <1> PICK o : o = mapped[p].object
    OBVIOUS
  <1> PICK a : a = mapped[p].at
    OBVIOUS
  <1> PICK m : m = [mapped[p] EXCEPT !.stage = "ready"]
    OBVIOUS
  <1>1. /\ HasQueue(p) /\ p \in Proc /\ p \notin killed /\ mapped[p].stage = "links" /\ Maker(p, o)
        /\ UNCHANGED <<named, killed, histories>>
    BY DEF LinkRing, At, Proc, Maker
  <1>2. /\ o \in DOMAIN ring /\ ring[o] \in Cycles /\ MappingOk(p) /\ a \in Address
        /\ fifo' = [fifo EXCEPT ![o] = fifo[o]] /\ mapped = [mapped EXCEPT ![p] = mapped[p]]
    BY <1>1, UserKnows DEF histories, TasksInv, SharingInv, MappingsOk
  <1>3. mapped' = [mapped EXCEPT ![p] = m] /\ m.object = o /\ m.stage = "ready"
    BY <1>1, <1>2 DEF LinkRing, MappingOk
  <1>4. PICK r : r = [ring[o] EXCEPT !.next = [i \in Node |-> NextPointer(a, i)],
                                     !.head = Pointer(a, 0), !.tail = Pointer(a, 0)]
    OBVIOUS
  <1>5. ring' = [ring EXCEPT ![o] = r]
    BY <1>4 DEF LinkRing
  <1>6. /\ r.head = Pointer(a, 0) /\ r.tail = Pointer(a, 0)
        /\ r.next = [i \in Node |-> NextPointer(a, i)] /\ r.task = ring[o].task
        /\ r.mutex = ring[o].mutex /\ r.slots = ring[o].slots /\ r.items = ring[o].items
    BY <1>2, <1>4 DEF Cycles
  <1>7. /\ r.head.node = 0 /\ r.tail.node = 0 /\ r.tail # Null
        /\ \A i \in Node : r.next[i].node = NodeAfter(i)
    <2>1. r.head.node = 0 /\ r.tail.node = 0 /\ r.tail.at = a /\ Null.at = Nowhere
      BY <1>6 DEF Pointer, Null
    <2>2. \A i \in Node : r.next[i].node = NodeAfter(i)
      BY <1>6, NodeAfterIs DEF NextPointer, Pointer
    <2> QED
      BY <1>2, <2>1, <2>2, SharingAssumption
  <1>8. ASSUME creates[o] <= 1 PROVE Holds(r, fifo[o]) /\ r.items = Len(fifo[o])
    <2>1. /\ Holds(ring[o], fifo[o]) /\ fifo[o] = <<>> /\ ring[o].items = Len(fifo[o])
      BY <1>1, <1>8, UserKnows, MakerFinds
    <2>2. Len(fifo[o]) = 0 /\ NodeFrom(0, 0) = 0
      BY <2>1, SharingAssumption DEF NodeFrom
    <2> QED
      BY <1>6, <1>7, <2>1, <2>2 DEF Holds
  <1> QED
    BY <1>1, <1>2, <1>3, <1>5, <1>8, OneQueueChanges DEF histories

LEMMA RelinkHolds ==
  ASSUME TasksInv, NEW p \in Opener, Relink(p)
  PROVE  QueuesOk'
  <1> PICK o : o = mapped[p].object
    OBVIOUS
  <1> PICK k : k = mapped[p].linked
    OBVIOUS
  <1> PICK x : x = NextPointer(mapped[p].at, k)
    OBVIOUS
  <1> PICK m : m = AfterRelink(mapped[p])
    OBVIOUS
  <1>1. /\ HasQueue(p) /\ p \in Proc /\ p \notin killed /\ mapped[p].stage = "relink"
        /\ ring' = [ring EXCEPT ![o].next[k] = x] /\ mapped' = [mapped EXCEPT ![p] = m]
        /\ UNCHANGED <<named, killed, histories>>
    BY DEF Relink, At, Proc
  <1>2. /\ o \in DOMAIN ring /\ ring[o] \in Cycles /\ MappingOk(p) /\ k \in Node
        /\ fifo' = [fifo EXCEPT ![o] = fifo[o]]
    BY <1>1, UserKnows DEF histories, TasksInv, SharingInv, MappingsOk, MappingOk
  <1>3. m.stage \in {"relink", "ready"}
    BY <1>1, <1>2 DEF AfterRelink, MappingOk
  <1>4. PICK r : r = [ring[o] EXCEPT !.next[k] = x]
    OBVIOUS
  <1>5. /\ r.next = [ring[o].next EXCEPT ![k] = x] /\ r.head = ring[o].head /\ r.tail = ring[o].tail
        /\ r.task = ring[o].task /\ r.mutex = ring[o].mutex /\ r.slots = ring[o].slots
        /\ r.items = ring[o].items
    BY <1>2, <1>4 DEF Cycles
  <1>6. ring' = [ring EXCEPT ![o] = r]
    BY <1>1, <1>2, <1>4
  <1>7. ASSUME creates[o] <= 1 PROVE Holds(r, fifo[o])
    <2>1. Holds(ring[o], fifo[o])
      BY <1>1, <1>7, UserKnows
    <2>2. x.node = NodeAfter(k)
      BY <1>2, NodeAfterIs DEF NextPointer, Pointer
    <2>3. r.tail # Null => \A i \in Node : r.next[i].node = NodeAfter(i)
      BY <1>2, <1>5, <2>1, <2>2 DEF Cycles, Holds
    <2> QED
      BY <1>5, <2>1, <2>3 DEF Holds
  <1>8. \A y : m.object # None /\ m.object = y /\ m.stage \in {"sems", "links"} => Maker(p, y)
    BY <1>3
  <1>9. /\ killed \subseteq killed' /\ creates' = creates /\ r.tail = ring[o].tail
        /\ r.items = ring[o].items
    BY <1>1, <1>5 DEF histories
  <1>10. p \in Proc /\ p \notin killed /\ mapped' = [mapped EXCEPT ![p] = m]
    BY <1>1
  <1> PICK q : q = fifo[o]
    OBVIOUS
  <1>11. /\ creates[o] <= 1 => Holds(r, q)
         /\ creates[o] <= 1 /\ r.items # Len(q) => fifo[o] = q /\ ring[o].items # Len(q)
         /\ fifo' = [fifo EXCEPT ![o] = q] /\ o \in DOMAIN ring
    BY <1>2, <1>7, <1>9
  <1> QED
    BY <1>6, <1>8, <1>9, <1>10, <1>11, OneQueueChanges

(* A process that dies in push has counted nothing yet, one that dies in   *)
(* pop has counted a task less.                                            *)
(* What Holds says of the pointers and the tasks alone. *)
LEMMA HoldsAlso ==
  ASSUME NEW r, NEW q, Holds(r, q),
         NEW w, w.head = r.head, w.tail = r.tail, w.next = r.next, w.task = r.task
  PROVE  /\ q \in Seq(Task) /\ Len(q) <= MaxLength
         /\ w.tail.node = NodeFrom(w.head.node, Len(q))
         /\ \A k \in 1 .. Len(q) : w.task[NodeFrom(w.head.node, k - 1)] = q[k]
         /\ w.tail = Null => q = <<>>
         /\ w.tail # Null => \A i \in Node : w.next[i].node = NodeAfter(i)
  <1>1. /\ q \in Seq(Task) /\ Len(q) <= MaxLength
        /\ w.tail = Null => q = <<>>
    BY Zenon DEF Holds
  <1>2. w.tail.node = NodeFrom(w.head.node, Len(q))
    BY Zenon DEF Holds
  <1>3. \A k \in 1 .. Len(q) : w.task[NodeFrom(w.head.node, k - 1)] = q[k]
    BY Zenon DEF Holds
  <1>4. w.tail # Null => \A i \in Node : w.next[i].node = NodeAfter(i)
    BY Zenon DEF Holds
  <1> QED
    BY <1>1, <1>2, <1>3, <1>4, Zenon

LEMMA FaultHolds ==
  ASSUME TasksInv, NEW p \in Proc, Attached(p), NEW o, o = mapped[p].object,
         NEW r, r.head = ring[o].head, r.tail = ring[o].tail, r.next = ring[o].next,
         r.task = ring[o].task, ring[o].mutex = 1, r \in Cycles,
         r.items = ring[o].items \/ r.items + 1 = ring[o].items,
         Fault(p, o, r)
  PROVE  QueuesOk'
  <1>1. HasQueue(p) /\ p \notin killed /\ mapped[p].stage = "ready"
    BY DEF Attached, At
  <1>2. /\ killed' = killed \cup {p} /\ ring' = [ring EXCEPT ![o] = [r EXCEPT !.mutex = 0]]
        /\ UNCHANGED <<named, mapped, histories>>
    BY DEF Fault
  <1>3. /\ o \in DOMAIN ring /\ fifo' = [fifo EXCEPT ![o] = fifo[o]]
        /\ mapped' = [mapped EXCEPT ![p] = mapped[p]]
    BY <1>1, <1>2, UserKnows DEF histories
  <1>4. PICK w : w = [r EXCEPT !.mutex = 0]
    OBVIOUS
  <1>5. /\ w.head = r.head /\ w.tail = r.tail /\ w.next = r.next /\ w.task = r.task
        /\ w.mutex = 0 /\ w.slots = r.slots /\ w.items = r.items
    BY <1>4 DEF Cycles
  <1>6. ring' = [ring EXCEPT ![o] = w]
    BY <1>2, <1>4
  <1>7. ASSUME creates[o] <= 1 PROVE Holds(w, fifo[o])
    <2>1. Holds(ring[o], fifo[o])
      BY <1>1, <1>7, UserKnows
    <2>2. w.items = Len(fifo[o]) \/ (w.mutex = 0 /\ w.items + 1 = Len(fifo[o]))
      BY <1>5, <2>1 DEF Holds
    <2>3. /\ fifo[o] \in Seq(Task) /\ Len(fifo[o]) <= MaxLength
          /\ w.tail.node = NodeFrom(w.head.node, Len(fifo[o]))
          /\ \A k \in 1 .. Len(fifo[o]) : w.task[NodeFrom(w.head.node, k - 1)] = fifo[o][k]
          /\ w.tail = Null => fifo[o] = <<>>
          /\ w.tail # Null => \A i \in Node : w.next[i].node = NodeAfter(i)
      <3>1. w.head = ring[o].head /\ w.tail = ring[o].tail /\ w.next = ring[o].next /\ w.task = ring[o].task
        BY <1>5
      <3> QED
        BY <2>1, <3>1, HoldsAlso
    <2>5. w.mutex # 1
      BY <1>5
    <2> QED
      BY <2>2, <2>3, <2>5, Zenon DEF Holds
  <1>8. p \in killed' /\ mapped[p].object = o /\ mapped[p].stage \notin {"sems", "links"}
    BY <1>1, <1>2
  <1>9. /\ killed \subseteq killed' /\ creates' = creates /\ w.tail = ring[o].tail
        /\ \A y : mapped[p].object # None /\ mapped[p].object = y /\ mapped[p].stage \in {"sems", "links"}
                  => Maker(p, y)
    BY <1>1, <1>2, <1>5 DEF histories
  <1> QED
    BY <1>1, <1>3, <1>6, <1>7, <1>8, <1>9, OneQueueChanges

-----------------------------------------------------------------------------
(* A process that can use a queue created once and reaches the node: *)
LEMMA UserReaches ==
  ASSUME TasksInv, NEW p \in Proc, CanUse(p), NEW o, o = mapped[p].object
  PROVE  /\ Attached(p) /\ HasQueue(p) /\ p \notin killed /\ mapped[p].stage = "ready"
         /\ ring[o].mutex = 1
         /\ mapped[p].at # Nowhere
         /\ creates[o] <= 1 => ring[o].items = Len(fifo[o]) /\ ring[o].slots + Len(fifo[o]) = MaxLength
  <1>1. Attached(p) /\ HasQueue(p) /\ p \notin killed /\ mapped[p].stage = "ready" /\ Ring(p).mutex > 0
    BY DEF CanUse, Attached, At
  <1>2. Ring(p) = ring[o] /\ ring[o] \in Cycles /\ mapped[p].at \in Address
    BY <1>1, UserKnows
  <1>3. ring[o].mutex = 1
    BY <1>1, <1>2 DEF Cycles
  <1>4. ASSUME creates[o] <= 1 PROVE Holds(ring[o], fifo[o])
    BY <1>1, <1>4, UserKnows
  <1> QED
    BY <1>1, <1>2, <1>3, <1>4, SharingAssumption DEF Holds

(* The node at the tail is none of those that hold a task. *)
LEMMA AppendHolds ==
  ASSUME NEW r \in Cycles, NEW f, Holds(r, f), NEW t \in Task, r.tail # Null,
         r.items = Len(f), r.slots + Len(f) = MaxLength, r.slots > 0,
         NEW n, n = r.tail.node, r.next[n] # Null,
         NEW w, w.head = r.head, w.tail = r.next[n], w.next = r.next, w.mutex = r.mutex,
         w.slots = r.slots - 1, w.items = r.items + 1, w.task = [r.task EXCEPT ![n] = t]
  PROVE  Holds(w, Append(f, t)) /\ w.items = Len(Append(f, t))
  <1> PICK q : q = Append(f, t)
    OBVIOUS
  <1> PICK h : h = r.head.node
    OBVIOUS
  <1> PICK m : m = Len(f)
    OBVIOUS
  <1>1. /\ h \in Node /\ n \in Node /\ m \in Nat /\ m < MaxLength /\ MaxLength \in Nat
        /\ m + 1 \in 0 .. MaxLength /\ n = NodeFrom(h, m) /\ f \in Seq(Task)
    <2>1. r.head \in Pointers /\ r.tail \in Pointers /\ r.slots \in Nat
      BY DEF Cycles
    <2>2. h \in Node /\ n \in Node
      BY <2>1, LedIs DEF Pointers
    <2>3. f \in Seq(Task) /\ n = NodeFrom(h, m)
      BY DEF Holds
    <2>4. m \in Nat /\ m < MaxLength /\ MaxLength \in Nat
      BY <2>1, <2>3, SharingAssumption
    <2> QED
      BY <2>2, <2>3, <2>4
  <1>2. w.task[n] = t /\ \A i \in Node \ {n} : w.task[i] = r.task[i]
    BY <1>1 DEF Cycles
  <1>3. q \in Seq(Task) /\ Len(q) = m + 1 /\ q[m + 1] = t /\ \A k \in 1 .. m : q[k] = f[k]
    BY <1>1
  <1>4. w.tail.node = NodeFrom(h, m + 1)
    <2>1. w.tail.node = NodeAfter(n) /\ m \in 0 .. MaxLength - 1
      BY <1>1 DEF Holds
    <2> QED
      BY <1>1, <2>1, NodesFrom
  <1>5. ASSUME NEW k \in 1 .. m + 1 PROVE w.task[NodeFrom(h, k - 1)] = q[k]
    <2>1. CASE k = m + 1
      BY <1>1, <1>2, <1>3, <2>1
    <2>2. CASE k # m + 1
      <3>1. k \in 1 .. m /\ k - 1 \in 0 .. MaxLength - 1 /\ m \in 0 .. MaxLength - 1 /\ k - 1 # m
        BY <1>1, <2>2
      <3>2. NodeFrom(h, k - 1) \in Node \ {n}
        <4>1. /\ h \in Node /\ k - 1 \in 0 .. MaxLength - 1 /\ m \in 0 .. MaxLength - 1
              /\ k - 1 # m /\ n = NodeFrom(h, m)
          BY <1>1, <3>1
        <4>2. NodeFrom(h, k - 1) \in Node /\ NodeFrom(h, k - 1) # NodeFrom(h, m)
          BY <4>1, NodesDiffer, Zenon
        <4> QED
          BY <4>1, <4>2, Zenon
      <3>3. r.task[NodeFrom(h, k - 1)] = f[k]
        BY <3>1 DEF Holds
      <3> QED
        BY <1>2, <1>3, <3>1, <3>2, <3>3
    <2> QED
      BY <2>1, <2>2
  <1>6. w.slots + Len(q) = MaxLength /\ w.items = Len(q) /\ Len(q) <= MaxLength
    BY <1>1, <1>3 DEF Cycles
  <1>7. \A i \in Node : w.next[i].node = NodeAfter(i)
    BY DEF Holds
  <1>8. Holds(w, q)
    <2>1. w.tail # Null
      OBVIOUS
    <2>2. w.tail.node = NodeFrom(w.head.node, Len(q))
      BY <1>3, <1>4
    <2>3. \A k \in 1 .. Len(q) : w.task[NodeFrom(w.head.node, k - 1)] = q[k]
      BY <1>3, <1>5
    <2> QED
      BY <1>3, <1>6, <1>7, <2>1, <2>2, <2>3, Zenon DEF Holds
  <1> QED
    BY <1>6, <1>8

LEMMA TailHolds ==
  ASSUME NEW r \in Cycles, NEW f, Holds(r, f), r.tail # Null,
         r.items = Len(f), r.slots + Len(f) = MaxLength, r.items > 0,
         NEW n, n = r.head.node,
         NEW w, w.head = r.next[n], w.tail = r.tail, w.next = r.next, w.mutex = r.mutex,
         w.slots = r.slots + 1, w.items = r.items - 1, w.task = r.task
  PROVE  Holds(w, Tail(f)) /\ w.items = Len(Tail(f))
  <1> PICK q : q = Tail(f)
    OBVIOUS
  <1> PICK m : m = Len(f) - 1
    OBVIOUS
  <1>1. /\ n \in Node /\ m \in Nat /\ m < MaxLength /\ MaxLength \in Nat
        /\ f \in Seq(Task) /\ Len(f) = m + 1 /\ f # <<>> /\ r.tail.node = NodeFrom(n, m + 1)
    <2>1. r.head \in Pointers /\ r.items \in Nat /\ r.slots \in Nat
      BY DEF Cycles
    <2>2. n \in Node
      BY <2>1, LedIs DEF Pointers
    <2>3. f \in Seq(Task) /\ Len(f) <= MaxLength /\ MaxLength \in Nat
      BY SharingAssumption DEF Holds
    <2>4. m \in Nat /\ m < MaxLength /\ Len(f) = m + 1 /\ f # <<>>
      BY <2>1, <2>3
    <2> QED
      BY <2>2, <2>3, <2>4 DEF Holds
  <1>2. q \in Seq(Task) /\ Len(q) = m /\ \A k \in 1 .. m : q[k] = f[k + 1]
    BY <1>1
  <1>3. w.head.node = NodeAfter(n)
    BY <1>1 DEF Holds
  <1>4. ASSUME NEW k \in 1 .. m PROVE w.task[NodeFrom(w.head.node, k - 1)] = q[k]
    <2>1. k - 1 \in 0 .. MaxLength - 1 /\ (k - 1) + 1 = k /\ k + 1 \in 1 .. m + 1 /\ (k + 1) - 1 = k
      BY <1>1
    <2>2. NodeFrom(w.head.node, k - 1) = NodeFrom(n, k)
      BY <1>1, <1>3, <2>1, NodesFrom
    <2>3. r.task[NodeFrom(n, (k + 1) - 1)] = f[k + 1]
      BY <1>1, <2>1 DEF Holds
    <2> QED
      BY <1>2, <2>1, <2>2, <2>3
  <1>5. w.tail.node = NodeFrom(w.head.node, m)
    <2>1. m \in 0 .. MaxLength - 1
      BY <1>1
    <2> QED
      BY <1>1, <1>3, <2>1, NodesFrom
  <1>6. w.slots + Len(q) = MaxLength /\ w.items = Len(q) /\ Len(q) <= MaxLength
    BY <1>1, <1>2 DEF Cycles
  <1>7. \A i \in Node : w.next[i].node = NodeAfter(i)
    BY DEF Holds
  <1>8. Holds(w, q)
    BY <1>2, <1>4, <1>5, <1>6, <1>7 DEF Holds
  <1> QED
    BY <1>6, <1>8

LEMMA PushHolds ==
  ASSUME TasksInv, NEW p \in Proc, NEW t \in Task, Push(p, t)
  PROVE  QueuesOk'
  <1> PICK o : o = mapped[p].object
    OBVIOUS
  <1>1. CanUse(p) /\ Ring(p).slots > 0
    BY DEF Push
  <1>2. /\ Attached(p) /\ HasQueue(p) /\ p \notin killed /\ mapped[p].stage = "ready"
        /\ ring[o].mutex = 1 /\ mapped[p].at # Nowhere
        /\ creates[o] <= 1 => ring[o].items = Len(fifo[o]) /\ ring[o].slots + Len(fifo[o]) = MaxLength
    BY <1>1, UserReaches
  <1>3. /\ o \in DOMAIN ring /\ Ring(p) = ring[o] /\ RingOk(ring[o], spots[o]) /\ ring[o] \in Cycles
        /\ creates[o] <= 1 => Holds(ring[o], fifo[o])
        /\ mapped = [mapped EXCEPT ![p] = mapped[p]] /\ o # None
    BY <1>2, UserKnows
  <1>4. PICK r : r = [ring[o] EXCEPT !.slots = @ - 1]
    OBVIOUS
  <1>5. /\ r.head = ring[o].head /\ r.tail = ring[o].tail /\ r.next = ring[o].next
        /\ r.slots = ring[o].slots - 1 /\ r.items = ring[o].items /\ r.mutex = ring[o].mutex
        /\ r.task = ring[o].task /\ r \in Cycles
    BY <1>1, <1>3, <1>4 DEF Cycles
  <1>6. CASE r.tail.at # mapped[p].at
    <2>1. Fault(p, o, r)
      BY <1>3, <1>4, <1>6 DEF Push
    <2> QED
      BY <1>2, <1>5, <2>1, FaultHolds
  <1>7. CASE r.tail.at = mapped[p].at
    <2>1. PICK n : n = r.tail.node
      OBVIOUS
    <2>2. PICK w : w = [r EXCEPT !.task[n] = t, !.tail = r.next[n], !.items = @ + 1]
      OBVIOUS
    <2>3. PICK q : q = Append(fifo[o], t)
      OBVIOUS
    <2>4. /\ ring' = [ring EXCEPT ![o] = w] /\ fifo' = [fifo EXCEPT ![o] = q]
          /\ mapped' = [mapped EXCEPT ![p] = mapped[p]] /\ killed' = killed /\ creates' = creates
      BY <1>3, <1>4, <1>7, <2>1, <2>2, <2>3 DEF Push
    <2>5. r.tail # Null
      BY <1>2, <1>7 DEF Null, Pointer
    <2>6. r.next[n] # Null
      <3>1. Linked(ring[o], spots[o]) /\ spots[o] \subseteq Address
        BY <1>3, <1>5, <2>5 DEF RingOk, Blank
      <3>2. n \in Node /\ r.next[n] \in Led(spots[o])
        BY <1>5, <2>1, <3>1, LedIs DEF Linked
      <3> QED
        BY <3>1, <3>2, LedIs
    <2>7. /\ w.head = ring[o].head /\ w.tail = ring[o].next[n] /\ w.next = ring[o].next
          /\ w.mutex = ring[o].mutex /\ w.slots = ring[o].slots - 1 /\ w.items = ring[o].items + 1
          /\ w.task = [ring[o].task EXCEPT ![n] = t]
      <3>1. w = [head |-> r.head, tail |-> r.next[n], next |-> r.next,
                 task |-> [r.task EXCEPT ![n] = t], mutex |-> r.mutex, slots |-> r.slots,
                 items |-> r.items + 1]
        BY <1>5, <2>2 DEF Cycles
      <3> QED
        BY <1>5, <3>1
    <2>8. ASSUME creates[o] <= 1 PROVE Holds(w, q) /\ w.items = Len(q)
      <3>1. PICK x : x = ring[o]
        OBVIOUS
      <3>2. PICK f : f = fifo[o]
        OBVIOUS
      <3>3. /\ x \in Cycles /\ Holds(x, f) /\ x.tail # Null /\ x.items = Len(f)
            /\ x.slots + Len(f) = MaxLength /\ x.slots > 0 /\ n = x.tail.node /\ x.next[n] # Null
        BY <1>1, <1>2, <1>3, <1>5, <2>1, <2>5, <2>6, <2>8, <3>1, <3>2
      <3>4. /\ w.head = x.head /\ w.tail = x.next[n] /\ w.next = x.next /\ w.mutex = x.mutex
            /\ w.slots = x.slots - 1 /\ w.items = x.items + 1 /\ w.task = [x.task EXCEPT ![n] = t]
        BY <2>7, <3>1
      <3> QED
        BY <2>3, <3>2, <3>3, <3>4, AppendHolds
    <2>9. w.tail # Null /\ ring[o].tail # Null /\ killed \subseteq killed'
          /\ \A y : mapped[p].object # None /\ mapped[p].object = y /\ mapped[p].stage \in {"sems", "links"}
                     => Maker(p, y)
      BY <1>2, <1>5, <2>4, <2>5, <2>6, <2>7
    <2> QED
      BY <1>2, <1>3, <2>4, <2>8, <2>9, OneQueueChanges
  <1> QED
    BY <1>6, <1>7

LEMMA PopHolds ==
  ASSUME TasksInv, NEW p \in Proc, Pop(p)
  PROVE  QueuesOk'
  <1> PICK o : o = mapped[p].object
    OBVIOUS
  <1>1. CanUse(p) /\ Ring(p).items > 0
    BY DEF Pop
  <1>2. /\ Attached(p) /\ HasQueue(p) /\ p \notin killed /\ mapped[p].stage = "ready"
        /\ ring[o].mutex = 1 /\ mapped[p].at # Nowhere
        /\ creates[o] <= 1 => ring[o].items = Len(fifo[o]) /\ ring[o].slots + Len(fifo[o]) = MaxLength
    BY <1>1, UserReaches
  <1>3. /\ o \in DOMAIN ring /\ Ring(p) = ring[o] /\ RingOk(ring[o], spots[o]) /\ ring[o] \in Cycles
        /\ creates[o] <= 1 => Holds(ring[o], fifo[o])
        /\ mapped = [mapped EXCEPT ![p] = mapped[p]] /\ o # None
    BY <1>2, UserKnows
  <1>4. PICK r : r = [ring[o] EXCEPT !.items = @ - 1]
    OBVIOUS
  <1>5. /\ r.head = ring[o].head /\ r.tail = ring[o].tail /\ r.next = ring[o].next
        /\ r.slots = ring[o].slots /\ r.items = ring[o].items - 1 /\ r.mutex = ring[o].mutex
        /\ r.task = ring[o].task /\ r \in Cycles /\ ring[o].items \in Nat
    BY <1>1, <1>3, <1>4 DEF Cycles
  <1>6. CASE r.head.at # mapped[p].at
    <2>1. Fault(p, o, r)
      BY <1>3, <1>4, <1>6 DEF Pop
    <2>2. r.items + 1 = ring[o].items
      BY <1>5
    <2> QED
      BY <1>2, <1>5, <2>1, <2>2, FaultHolds
  <1>7. CASE r.head.at = mapped[p].at
    <2>1. PICK n : n = r.head.node
      OBVIOUS
    <2>2. PICK w : w = [r EXCEPT !.head = r.next[n], !.slots = @ + 1]
      OBVIOUS
    <2>3. PICK q : q = Tail(fifo[o])
      OBVIOUS
    <2>4. /\ ring' = [ring EXCEPT ![o] = w] /\ fifo' = [fifo EXCEPT ![o] = q]
          /\ mapped' = [mapped EXCEPT ![p] = mapped[p]] /\ killed' = killed /\ creates' = creates
      BY <1>3, <1>4, <1>7, <2>1, <2>2, <2>3 DEF Pop
    <2>5. ring[o].tail # Null
      <3>1. ring[o].head # Null
        BY <1>2, <1>5, <1>7 DEF Null, Pointer
      <3>2. Linked(ring[o], spots[o]) /\ spots[o] \subseteq Address
        BY <1>3, <3>1 DEF RingOk, Blank
      <3> QED
        BY <3>2, LedIs DEF Linked
    <2>6. /\ w.head = ring[o].next[n] /\ w.tail = ring[o].tail /\ w.next = ring[o].next
          /\ w.mutex = ring[o].mutex /\ w.slots = ring[o].slots + 1 /\ w.items = ring[o].items - 1
          /\ w.task = ring[o].task
      <3>1. w = [head |-> r.next[n], tail |-> r.tail, next |-> r.next, task |-> r.task,
                 mutex |-> r.mutex, slots |-> r.slots + 1, items |-> r.items]
        BY <1>5, <2>2 DEF Cycles
      <3> QED
        BY <1>5, <3>1
    <2>7. ASSUME creates[o] <= 1 PROVE Holds(w, q) /\ w.items = Len(q)
      <3>1. PICK x : x = ring[o]
        OBVIOUS
      <3>2. PICK f : f = fifo[o]
        OBVIOUS
      <3>3. /\ x \in Cycles /\ Holds(x, f) /\ x.tail # Null /\ x.items = Len(f)
            /\ x.slots + Len(f) = MaxLength /\ x.items > 0 /\ n = x.head.node
        BY <1>1, <1>2, <1>3, <1>5, <2>1, <2>5, <2>7, <3>1, <3>2
      <3>4. /\ w.head = x.next[n] /\ w.tail = x.tail /\ w.next = x.next /\ w.mutex = x.mutex
            /\ w.slots = x.slots + 1 /\ w.items = x.items - 1 /\ w.task = x.task
        BY <2>6, <3>1
      <3> QED
        BY <2>3, <3>2, <3>3, <3>4, TailHolds
    <2>8. w.tail = ring[o].tail /\ killed \subseteq killed'
          /\ \A y : mapped[p].object # None /\ mapped[p].object = y /\ mapped[p].stage \in {"sems", "links"}
                     => Maker(p, y)
      BY <1>2, <2>4, <2>6
    <2> QED
      BY <1>2, <1>3, <2>4, <2>7, <2>8, OneQueueChanges
  <1> QED
    BY <1>6, <1>7

-----------------------------------------------------------------------------
LEMMA StepKeepsTasks == TasksInv /\ [Next]_vars => TasksInv'
  <1> SUFFICES ASSUME TasksInv, [Next]_vars PROVE QueuesOk'
    BY SharingStep DEF TasksInv
  <1>1. ASSUME NEW p \in Creator, NEW a \in Address, Create(p, a) PROVE QueuesOk'
    BY <1>1, CreateHolds
  <1>2. ASSUME NEW p \in Creator, CreateFails(p) \/ InitSems(p) \/ LinkRing(p) PROVE QueuesOk'
    BY <1>2, CreateFailsHolds, InitSemsHolds, LinkRingHolds
  <1>3. ASSUME NEW p \in Opener, NEW a \in Address, Open(p, a) PROVE QueuesOk'
    <2> PICK m : m = [object |-> named, at |-> a, stage |-> "relink", linked |-> 0,
                      early |-> ring[named].tail = Null]
      OBVIOUS
    <2>1. /\ p \in Proc /\ p \notin killed /\ mapped' = [mapped EXCEPT ![p] = m]
          /\ UNCHANGED <<ring, fifo, creates, killed>> /\ m.stage = "relink"
      BY <1>3 DEF Open, IdleProc, Proc
    <2> QED
      BY <2>1, QueuesStay
  <1>4. ASSUME NEW p \in Opener, Relink(p) PROVE QueuesOk'
    BY <1>4, RelinkHolds
  <1>5. ASSUME NEW p \in Proc, NEW child \in Forked, Fork(p, child) PROVE QueuesOk'
    <2>1. /\ child \in Proc /\ child \notin killed /\ mapped' = [mapped EXCEPT ![child] = mapped[p]]
          /\ UNCHANGED <<ring, fifo, creates, killed>> /\ mapped[p].stage = "ready"
      BY <1>5 DEF Fork, IdleProc, Proc, Attached, At, histories
    <2> QED
      BY <2>1, QueuesStay
  <1>6. ASSUME NEW p \in Proc, Destroy(p) PROVE QueuesOk'
    <2>1. /\ p \notin killed /\ mapped' = [mapped EXCEPT ![p] = Unmapped]
          /\ UNCHANGED <<ring, fifo, creates, killed>> /\ Unmapped.object = None
      BY <1>6 DEF Destroy, Attached, At, Unmapped
    <2> QED
      BY <2>1, QueuesStay
  <1>7. ASSUME NEW p \in Proc, NEW t \in Task, Push(p, t) PROVE QueuesOk'
    BY <1>7, PushHolds
  <1>8. ASSUME NEW p \in Proc, Pop(p) PROVE QueuesOk'
    BY <1>8, PopHolds
  <1>9. CASE UNCHANGED vars
    BY <1>9 DEF vars, histories, TasksInv, QueuesOk, QueueOk, Holds, Maker, HasQueue
  <1> QED
    BY <1>1, <1>2, <1>3, <1>4, <1>5, <1>6, <1>7, <1>8, <1>9 DEF Next

LEMMA TasksInvSays == TasksInv => TasksSurvive
  <1> SUFFICES ASSUME TasksInv PROVE TasksSurvive
    OBVIOUS
  <1>1. ASSUME NEW o \in DOMAIN ring, creates[o] <= 1 PROVE HoldsItsTasks(o)
    <2>1. RingOk(ring[o], spots[o]) /\ QueueOk(o) /\ Holds(ring[o], fifo[o])
      BY <1>1 DEF TasksInv, SharingInv, RingsOk, QueuesOk, QueueOk
    <2>2. Contents(ring[o]) = SubSeq(fifo[o], 1, ring[o].items)
      BY <2>1, ContentsAre
    <2>3. fifo[o] \in Seq(Task) /\ ring[o].items \in Nat
      BY <2>1 DEF Holds, RingOk, Cycles
    <2>4. CASE ring[o].items = Len(fifo[o])
      <3>1. SubSeq(fifo[o], 1, Len(fifo[o])) = fifo[o]
        BY <2>3
      <3> QED
        BY <2>2, <2>4, <3>1 DEF HoldsItsTasks
    <2>5. CASE ring[o].items # Len(fifo[o])
      <3>1. ring[o].mutex = 0 /\ ring[o].items = Len(fifo[o]) - 1
        BY <2>1, <2>3, <2>5 DEF Holds
      <3>2. \E p \in killed : mapped[p].object = o
        BY <1>1, <2>1, <2>5 DEF QueueOk
      <3> QED
        BY <2>2, <3>1, <3>2 DEF HoldsItsTasks
    <2> QED
      BY <2>4, <2>5
  <1>2. ASSUME NEW o \in DOMAIN ring
        PROVE  /\ {ring[o].head, ring[o].tail} \subseteq [at : Address, node : Node] \cup {Null}
               /\ ring[o].next \in [Node -> [at : Address, node : Node] \cup {Null}]
               /\ ring[o].task \in [Node -> Task \cup {NoTask}]
               /\ ring[o].mutex \in 0 .. 1
               /\ {ring[o].items, ring[o].slots} \subseteq 0 .. MaxLength
    <2>1. ring[o] \in Cycles /\ ring[o].slots + ring[o].items <= MaxLength /\ MaxLength \in Nat
      BY SharingAssumption DEF TasksInv, SharingInv, RingsOk, RingOk
    <2>2. ring[o].slots \in 0 .. MaxLength /\ ring[o].items \in 0 .. MaxLength
      BY <2>1 DEF Cycles
    <2> QED
      BY <2>1, <2>2 DEF Cycles, Pointers, Led
  <1>3. \A p \in Proc : mapped[p].object \in DOMAIN ring \cup {None}
    BY DEF TasksInv, SharingInv, MappingsOk, MappingOk, HasQueue
  <1>4. killed \subseteq Proc /\ named \in DOMAIN ring \cup {None}
    BY DEF TasksInv, SharingInv, KilledOk, NameOk
  <1>5. TypeOK
    BY <1>2, <1>3, <1>4 DEF TypeOK
  <1> QED
    BY <1>1, <1>5 DEF TasksSurvive

(* nt_cycle.c: a queue that task_queue_create was called for once holds    *)
(* the tasks pushed and not popped, in their order, whoever opens it,      *)
(* wherever and whenever, and whoever dies in it; except for the one task  *)
(* that a process killed in task_queue_pop has counted.  Nothing is        *)
(* assumed of the callers.                                                 *)
THEOREM TasksAreKept == Spec => []TasksSurvive
  <1>1. Init => TasksInv
    <2>1. Init => QueuesOk
      BY DEF Init, QueuesOk
    <2> QED
      BY <2>1, InitSharing DEF TasksInv
  <1>2. TasksInv /\ [Next]_vars => TasksInv'
    BY StepKeepsTasks
  <1>3. TasksInv => TasksSurvive
    BY TasksInvSays
  <1> QED
    BY <1>1, <1>2, <1>3, PTL DEF Spec

=============================================================================
