--------------------------- MODULE TaskQueue_proofs ---------------------------
(***************************************************************************)
(* Proofs about TaskQueue, for every finite set of producers, consumers    *)
(* and mortal processes, every set of tasks and every max_length.          *)
(***************************************************************************)
EXTENDS TaskQueue, FiniteSetTheorems, SequenceTheorems, TLAPS

-----------------------------------------------------------------------------
(* Arithmetic of the ring *)

(* NextNode stays in the array; it undoes one step of NodeAt. *)
LEMMA NextNodeType ==
    ASSUME NEW i \in Node
    PROVE  /\ NextNode(i) \in Node
           /\ NextNode(i) = IF i + 1 < MaxLength THEN i + 1 ELSE 0
<1>1. MaxLength \in Nat \ {0} /\ i + 1 \in 0 .. 2 * MaxLength - 1
    BY QueueAssumption DEF Node
<1>2. CASE i + 1 < MaxLength
    BY <1>1, <1>2 DEF NextNode, Node
<1>3. CASE i + 1 >= MaxLength
    BY <1>1, <1>3 DEF NextNode, Node
<1>. QED BY <1>1, <1>2, <1>3

(* The node k places after the head is a node, found with one              *)
(* comparison instead of a division.                                       *)
LEMMA NodeAtType ==
    ASSUME head \in Node, NEW k \in 0 .. MaxLength
    PROVE  /\ NodeAt(k) \in Node
           /\ NodeAt(k) = IF head + k < MaxLength THEN head + k
                                                  ELSE head + k - MaxLength
<1>1. MaxLength \in Nat \ {0} /\ head + k \in 0 .. 2 * MaxLength - 1
    BY QueueAssumption DEF Node
<1>2. CASE head + k < MaxLength
    BY <1>1, <1>2 DEF NodeAt, Node
<1>3. CASE head + k >= MaxLength
    BY <1>1, <1>3 DEF NodeAt, Node
<1>. QED BY <1>1, <1>2, <1>3

(* The nodes of a full turn are distinct. *)
LEMMA NodeAtDistinct ==
    ASSUME head \in Node,
           NEW j \in 0 .. MaxLength - 1, NEW k \in 0 .. MaxLength - 1, j # k
    PROVE  NodeAt(j) # NodeAt(k)
<1>1. MaxLength \in Nat \ {0} /\ j \in 0 .. MaxLength /\ k \in 0 .. MaxLength
    BY QueueAssumption
<1>. QED BY <1>1, NodeAtType DEF Node

(* Following next goes one place further from the head.                    *)
LEMMA NodeAtNext ==
    ASSUME head \in Node, NEW k \in 0 .. MaxLength - 1
    PROVE  NextNode(NodeAt(k)) = NodeAt(k + 1)
<1>1. MaxLength \in Nat \ {0} /\ k \in 0 .. MaxLength /\ k + 1 \in 0 .. MaxLength
    BY QueueAssumption
<1>. QED BY <1>1, NodeAtType, NextNodeType DEF Node

(* When head moves on (line 162), what was k places behind it is k - 1     *)
(* places behind it.                                                       *)
LEMMA NodeAtHeadMoves ==
    ASSUME head \in Node, head' = NextNode(head), NEW k \in 1 .. MaxLength
    PROVE  NodeAt(k - 1)' = NodeAt(k)
<1>1. MaxLength \in Nat \ {0} /\ k \in 0 .. MaxLength /\ k - 1 \in 0 .. MaxLength
    BY QueueAssumption
<1>2. head' \in Node /\ head' = IF head + 1 < MaxLength THEN head + 1 ELSE 0
    BY NextNodeType
<1>3. NodeAt(k) = IF head + k < MaxLength THEN head + k ELSE head + k - MaxLength
    BY <1>1, NodeAtType
<1>4. NodeAt(k - 1)' = (head' + (k - 1)) % MaxLength
    BY DEF NodeAt
<1>5. CASE head + 1 < MaxLength /\ head + k < MaxLength
    BY <1>1, <1>2, <1>3, <1>4, <1>5 DEF Node
<1>6. CASE head + 1 < MaxLength /\ head + k >= MaxLength
    BY <1>1, <1>2, <1>3, <1>4, <1>6 DEF Node
<1>7. CASE head + 1 >= MaxLength
    BY <1>1, <1>2, <1>3, <1>4, <1>7 DEF Node
<1>. QED BY <1>1, <1>5, <1>6, <1>7 DEF Node

-----------------------------------------------------------------------------
(* Counting processes *)

(* The processes in each stage of push and pop are finitely many, so that  *)
(* they can be counted.                                                    *)
LEMMA Stages ==
    /\ IsFiniteSet(Reserved) /\ Cardinality(Reserved) \in Nat
    /\ IsFiniteSet(Published) /\ Cardinality(Published) \in Nat
    /\ IsFiniteSet(Claimed) /\ Cardinality(Claimed) \in Nat
    /\ IsFiniteSet(Released) /\ Cardinality(Released) \in Nat
<1>1. IsFiniteSet(Producer) /\ IsFiniteSet(Consumer)
    BY QueueAssumption
<1>2. /\ Reserved \in SUBSET Producer /\ Published \in SUBSET Producer
      /\ Claimed \in SUBSET Consumer /\ Released \in SUBSET Consumer
    BY DEF Reserved, Published, Claimed, Released
<1>3. /\ IsFiniteSet(Reserved) /\ IsFiniteSet(Published)
      /\ IsFiniteSet(Claimed) /\ IsFiniteSet(Released)
    BY <1>1, <1>2, FS_Subset
<1>. QED BY <1>3, FS_CardinalityType

(* A process that enters a stage is counted there.                         *)
LEMMA Enter ==
    ASSUME NEW S, IsFiniteSet(S), NEW x, x \notin S
    PROVE  Cardinality(S \cup {x}) = Cardinality(S) + 1
BY FS_AddElement

(* A process that leaves a stage is not counted there any more.            *)
LEMMA Leave ==
    ASSUME NEW S, IsFiniteSet(S), NEW x, x \in S
    PROVE  Cardinality(S \ {x}) = Cardinality(S) - 1
BY FS_RemoveElement

(* A process in a stage counts. *)
LEMMA Inhabited ==
    ASSUME NEW S, IsFiniteSet(S), NEW x \in S
    PROVE  Cardinality(S) >= 1
<1>1. Cardinality(S) \in Nat /\ Cardinality(S) # 0
    BY FS_CardinalityType, FS_EmptySet
<1>. QED BY <1>1

-----------------------------------------------------------------------------
(* Initially nobody is anywhere in the queue. *)
LEMMA InitInv == Init => QueueInv
<1>. SUFFICES ASSUME Init PROVE QueueInv
    OBVIOUS
<1>1. /\ Reserved = {} /\ Published = {} /\ Claimed = {} /\ Released = {}
      /\ InMutex = {}
    BY QueueAssumption DEF Init, Proc, Reserved, Published, Claimed, Released, InMutex
<1>2. Length = 0 /\ Cardinality(Reserved) = 0 /\ Cardinality(Released) = 0
    BY <1>1, FS_EmptySet DEF Init, Length
<1>3. TypeOK
    BY QueueAssumption DEF Init, TypeOK, Node, Proc, PushPc, PopPc
<1>4. MutualExclusion
    BY <1>1 DEF Init, MutualExclusion
<1>5. SlotAccounting
    BY <1>2, QueueAssumption DEF Init, SlotAccounting
<1>6. TailFollowsQueue
    <2>1. NodeAt(0) = 0
        BY QueueAssumption, NodeAtType DEF Init, Node
    <2>. QED BY <1>2, <2>1 DEF Init, TailFollowsQueue
<1>7. HandOver
    BY <1>2, QueueAssumption DEF Init, HandOver, Proc
<1>. QED BY <1>3, <1>4, <1>5, <1>6, <1>7 DEF QueueInv

-----------------------------------------------------------------------------
(* One lemma per action.  Each first says which stages the acting process  *)
(* leaves and enters, then proves the conjuncts that the action disturbs.  *)

(* The facts that every step starts from. *)
LEMMA Context ==
    ASSUME QueueInv
    PROVE  /\ MaxLength \in Nat /\ MaxLength > 0
           /\ Length \in 0 .. MaxLength
           /\ Length = items + Cardinality(Published) + Cardinality(Claimed)
           /\ Reserved # {} => Length < MaxLength
           /\ Claimed # {} => Length > 0
           /\ tail = NodeAt(Length)
<1>1. MaxLength \in Nat /\ MaxLength > 0 /\ items \in Nat /\ slots \in Nat
    BY QueueAssumption DEF QueueInv, TypeOK
<1>2. Length \in Nat
    BY <1>1, Stages DEF Length
<1>3. slots + Cardinality(Reserved) + Length + Cardinality(Released) = MaxLength
    BY DEF QueueInv, SlotAccounting
<1>4. Reserved # {} => Cardinality(Reserved) >= 1
    BY Stages, Inhabited
<1>5. Claimed # {} => Cardinality(Claimed) >= 1
    BY Stages, Inhabited
<1>. QED BY <1>1, <1>2, <1>3, <1>4, <1>5, Stages DEF Length, QueueInv, TailFollowsQueue

(* The call of push: nothing in the ring changes.                          *)
LEMMA CallPushInv ==
    ASSUME QueueInv, NEW p \in Producer, NEW t \in Task, CallPush(p, t)
    PROVE  QueueInv'
<1>. USE DEF CallPush, Goto, ring
<1>1. /\ Reserved' = Reserved /\ Published' = Published
      /\ Claimed' = Claimed /\ Released' = Released /\ InMutex' = InMutex
    BY QueueAssumption DEF QueueInv, TypeOK, Proc,
       Reserved, Published, Claimed, Released, InMutex
<1>2. Length' = Length
    BY <1>1 DEF Length
<1>3. TypeOK'
    BY QueueAssumption DEF QueueInv, TypeOK, Proc, PushPc, PopPc
<1>4. MutualExclusion'
    BY <1>1 DEF QueueInv, MutualExclusion
<1>5. SlotAccounting'
    BY <1>1, <1>2 DEF QueueInv, SlotAccounting
<1>6. TailFollowsQueue'
    BY <1>2 DEF QueueInv, TailFollowsQueue, NodeAt
<1>7. HandOver'
    BY <1>2, QueueAssumption DEF QueueInv, TypeOK, HandOver, Proc, NodeAt
<1>. QED BY <1>3, <1>4, <1>5, <1>6, <1>7 DEF QueueInv

(* sem_wait(&slots): a free node becomes a reserved one.                   *)
LEMMA WaitSlotsInv ==
    ASSUME QueueInv, NEW p \in Producer, WaitSlots(p)
    PROVE  QueueInv'
<1>. USE DEF WaitSlots, Goto, ring
<1>1. /\ p \notin Reserved /\ Reserved' = Reserved \cup {p}
      /\ Published' = Published
      /\ Claimed' = Claimed /\ Released' = Released /\ InMutex' = InMutex
    BY QueueAssumption DEF QueueInv, TypeOK, Proc,
       Reserved, Published, Claimed, Released, InMutex
<1>2. Length' = Length /\ Cardinality(Reserved') = Cardinality(Reserved) + 1
    BY <1>1, Stages, Enter DEF Length
<1>3. TypeOK'
    BY QueueAssumption DEF QueueInv, TypeOK, Proc, PushPc, PopPc
<1>4. MutualExclusion'
    BY <1>1 DEF QueueInv, MutualExclusion
<1>5. SlotAccounting'
    BY <1>1, <1>2, Stages, Context DEF QueueInv, TypeOK, SlotAccounting
<1>6. TailFollowsQueue'
    BY <1>2 DEF QueueInv, TailFollowsQueue, NodeAt
<1>7. HandOver'
    BY <1>2, QueueAssumption DEF QueueInv, TypeOK, HandOver, Proc, NodeAt
<1>. QED BY <1>3, <1>4, <1>5, <1>6, <1>7 DEF QueueInv

(* Both kinds of process take the mutex in the same way. *)
LEMMA LockInv ==
    ASSUME QueueInv, NEW p \in Proc, NEW to, TakeMutex(p, to),
           \/ p \in Producer /\ to = "write"
           \/ p \in Consumer /\ to = "read"
    PROVE  QueueInv'
<1>. USE DEF TakeMutex, Goto, ring
<1>1. /\ Reserved' = Reserved /\ Published' = Published
      /\ Claimed' = Claimed /\ Released' = Released
      /\ InMutex' = InMutex \cup {p}
    BY QueueAssumption DEF QueueInv, TypeOK, Proc,
       Reserved, Published, Claimed, Released, InMutex
<1>2. Length' = Length
    BY <1>1 DEF Length
<1>3. TypeOK'
    BY QueueAssumption DEF QueueInv, TypeOK, Proc, PushPc, PopPc
<1>4. MutualExclusion'
    BY <1>1 DEF QueueInv, TypeOK, MutualExclusion
<1>5. SlotAccounting'
    BY <1>1, <1>2 DEF QueueInv, SlotAccounting
<1>6. TailFollowsQueue'
    BY <1>2 DEF QueueInv, TailFollowsQueue, NodeAt
<1>7. HandOver'
    BY <1>2, QueueAssumption DEF QueueInv, TypeOK, HandOver, Proc, NodeAt
<1>. QED BY <1>3, <1>4, <1>5, <1>6, <1>7 DEF QueueInv

(* The node that is written is behind all that are queued.                 *)
LEMMA WriteTaskInv ==
    ASSUME QueueInv, NEW p \in Producer, WriteTask(p)
    PROVE  QueueInv'
<1>. USE DEF WriteTask, Goto, ring
<1>1. /\ Reserved' = Reserved /\ Published' = Published
      /\ Claimed' = Claimed /\ Released' = Released
      /\ InMutex' = InMutex /\ p \in InMutex
    BY QueueAssumption DEF QueueInv, TypeOK, Proc,
       Reserved, Published, Claimed, Released, InMutex
<1>2. Length' = Length
    BY <1>1 DEF Length
<1>3. TypeOK'
    BY QueueAssumption DEF QueueInv, TypeOK, Proc, PushPc, PopPc
<1>4. MutualExclusion'
    BY <1>1 DEF QueueInv, MutualExclusion
<1>5. SlotAccounting'
    BY <1>1, <1>2 DEF QueueInv, SlotAccounting
<1>6. TailFollowsQueue'
    BY <1>2 DEF QueueInv, TailFollowsQueue, NodeAt
<1>7. HandOver'
    <2>1. \A q \in Proc : q # p => pc[q] # "advance"
        BY <1>1 DEF QueueInv, MutualExclusion, InMutex
    <2>2. task[p] \in Task /\ nodes'[tail'] = task[p]
        BY DEF QueueInv, TypeOK, HandOver
    <2>3. \A q \in Proc : pc'[q] = "advance" => q = p
        BY <2>1 DEF QueueInv, TypeOK
    <2>4. \A k \in 1 .. Length' : nodes'[NodeAt(k - 1)'] \in Task
        <3>. SUFFICES ASSUME NEW k \in 1 .. Length
                      PROVE  nodes'[NodeAt(k - 1)] \in Task
            BY <1>2 DEF NodeAt
        <3>1. NodeAt(k - 1) \in Node
            BY Context, NodeAtType DEF QueueInv, TypeOK
        <3>. QED BY <2>2, <3>1 DEF QueueInv, TypeOK, HandOver
    <2>. QED BY <2>2, <2>3, <2>4, QueueAssumption
             DEF QueueInv, TypeOK, HandOver, Proc
<1>. QED BY <1>3, <1>4, <1>5, <1>6, <1>7 DEF QueueInv

(* The reserved node becomes the last that is queued.                      *)
LEMMA AdvanceTailInv ==
    ASSUME QueueInv, NEW p \in Producer, AdvanceTail(p)
    PROVE  QueueInv'
<1>. USE DEF AdvanceTail, Goto, ring
<1>1. /\ p \in Reserved /\ Reserved' = Reserved \ {p}
      /\ p \notin Published /\ Published' = Published \cup {p}
      /\ Claimed' = Claimed /\ Released' = Released
      /\ InMutex' = InMutex /\ p \in InMutex
    BY QueueAssumption DEF QueueInv, TypeOK, Proc,
       Reserved, Published, Claimed, Released, InMutex
<1>2. /\ Length' = Length + 1 /\ Length < MaxLength
      /\ Cardinality(Reserved') = Cardinality(Reserved) - 1
    <2>1. /\ Cardinality(Reserved') = Cardinality(Reserved) - 1
          /\ Cardinality(Published') = Cardinality(Published) + 1
        BY <1>1, Stages, Enter, Leave
    <2>. QED BY <1>1, <2>1, Stages, Context DEF QueueInv, TypeOK, Length
<1>3. TypeOK'
    BY QueueAssumption, NextNodeType DEF QueueInv, TypeOK, Proc, PushPc, PopPc
<1>4. MutualExclusion'
    BY <1>1 DEF QueueInv, TypeOK, MutualExclusion
<1>5. SlotAccounting'
    BY <1>1, <1>2, Stages, Context DEF QueueInv, TypeOK, SlotAccounting
<1>6. TailFollowsQueue'
    <2>1. NextNode(NodeAt(Length)) = NodeAt(Length + 1)
        BY <1>2, Context, NodeAtNext DEF QueueInv, TypeOK
    <2>2. NodeAt(Length)' = NodeAt(Length + 1)
        BY <1>2 DEF NodeAt
    <2>. QED BY <2>1, <2>2 DEF QueueInv, TailFollowsQueue
<1>7. HandOver'
    <2>1. \A q \in Proc : q # p => pc[q] # "advance"
        BY <1>1 DEF QueueInv, MutualExclusion, InMutex
    <2>2. nodes[NodeAt(Length)] \in Task
        BY DEF QueueInv, HandOver, TailFollowsQueue
    <2>3. \A k \in 1 .. Length' : nodes'[NodeAt(k - 1)'] \in Task
        <3>. SUFFICES ASSUME NEW k \in 1 .. Length + 1
                      PROVE  nodes[NodeAt(k - 1)] \in Task
            BY <1>2 DEF NodeAt
        <3>1. CASE k \in 1 .. Length
            BY <3>1 DEF QueueInv, HandOver
        <3>2. CASE k = Length + 1
            <4>1. k - 1 = Length
                BY <3>2, Context
            <4>. QED BY <2>2, <4>1
        <3>. QED BY <3>1, <3>2, Context
    <2>4. \A q \in Proc : pc'[q] # "advance"
        BY <2>1 DEF QueueInv, TypeOK
    <2>. QED BY <2>3, <2>4, QueueAssumption DEF QueueInv, TypeOK, HandOver, Proc
<1>. QED BY <1>3, <1>4, <1>5, <1>6, <1>7 DEF QueueInv

(* Both kinds of process release the mutex in the same way. *)
LEMMA PostMutexInv ==
    ASSUME QueueInv, NEW p \in Proc, PostMutex(p)
    PROVE  QueueInv'
<1>. USE DEF PostMutex, Goto, ring
<1>1. /\ Reserved' = Reserved /\ Published' = Published
      /\ Claimed' = Claimed /\ Released' = Released
      /\ p \in InMutex /\ InMutex' = InMutex \ {p}
    BY QueueAssumption DEF QueueInv, TypeOK, Proc,
       Reserved, Published, Claimed, Released, InMutex
<1>2. Length' = Length
    BY <1>1 DEF Length
<1>3. TypeOK'
    BY <1>1, QueueAssumption DEF QueueInv, MutualExclusion, TypeOK, Proc, PushPc, PopPc
<1>4. MutualExclusion'
    BY <1>1 DEF QueueInv, TypeOK, MutualExclusion
<1>5. SlotAccounting'
    BY <1>1, <1>2, Stages, Context DEF QueueInv, TypeOK, SlotAccounting
<1>6. TailFollowsQueue'
    BY <1>2 DEF QueueInv, TailFollowsQueue, NodeAt
<1>7. HandOver'
    BY <1>2, QueueAssumption DEF QueueInv, TypeOK, HandOver, Proc, NodeAt
<1>. QED BY <1>3, <1>4, <1>5, <1>6, <1>7 DEF QueueInv

(* sem_post(&items): a queued task is announced.                           *)
LEMMA PostItemsInv ==
    ASSUME QueueInv, NEW p \in Producer, PostItems(p)
    PROVE  QueueInv'
<1>. USE DEF PostItems, Goto, ring
<1>1. /\ Reserved' = Reserved
      /\ p \in Published /\ Published' = Published \ {p}
      /\ Claimed' = Claimed /\ Released' = Released /\ InMutex' = InMutex
    BY QueueAssumption DEF QueueInv, TypeOK, Proc,
       Reserved, Published, Claimed, Released, InMutex
<1>2. Length' = Length /\ items' <= Length'
    <2>1. Cardinality(Published') = Cardinality(Published) - 1
        BY <1>1, Stages, Leave
    <2>. QED BY <1>1, <2>1, Stages, Inhabited DEF QueueInv, TypeOK, Length
<1>3. TypeOK'
    BY <1>2, Context, QueueAssumption DEF QueueInv, TypeOK, Proc, PushPc, PopPc
<1>4. MutualExclusion'
    BY <1>1 DEF QueueInv, TypeOK, MutualExclusion
<1>5. SlotAccounting'
    BY <1>1, <1>2, Stages, Context DEF QueueInv, TypeOK, SlotAccounting
<1>6. TailFollowsQueue'
    BY <1>2 DEF QueueInv, TailFollowsQueue, NodeAt
<1>7. HandOver'
    BY <1>2, QueueAssumption DEF QueueInv, TypeOK, HandOver, Proc, NodeAt
<1>. QED BY <1>3, <1>4, <1>5, <1>6, <1>7 DEF QueueInv

(* sem_wait(&items): an announced task is claimed by one consumer.         *)
LEMMA WaitItemsInv ==
    ASSUME QueueInv, NEW c \in Consumer, WaitItems(c)
    PROVE  QueueInv'
<1>. USE DEF WaitItems, Goto, ring
<1>1. /\ c \notin Claimed /\ Claimed' = Claimed \cup {c}
      /\ Reserved' = Reserved /\ Published' = Published
      /\ Released' = Released /\ InMutex' = InMutex
    BY QueueAssumption DEF QueueInv, TypeOK, Proc,
       Reserved, Published, Claimed, Released, InMutex
<1>2. Length' = Length
    <2>1. Cardinality(Claimed') = Cardinality(Claimed) + 1
        BY <1>1, Stages, Enter
    <2>. QED BY <1>1, <2>1, Stages DEF QueueInv, TypeOK, Length
<1>3. TypeOK'
    BY QueueAssumption DEF QueueInv, TypeOK, Proc, PushPc, PopPc
<1>4. MutualExclusion'
    BY <1>1 DEF QueueInv, TypeOK, MutualExclusion
<1>5. SlotAccounting'
    BY <1>1, <1>2, Stages, Context DEF QueueInv, TypeOK, SlotAccounting
<1>6. TailFollowsQueue'
    BY <1>2 DEF QueueInv, TailFollowsQueue, NodeAt
<1>7. HandOver'
    BY <1>2, QueueAssumption DEF QueueInv, TypeOK, HandOver, Proc, NodeAt
<1>. QED BY <1>3, <1>4, <1>5, <1>6, <1>7 DEF QueueInv

(* The consumer reads the head, which is written.                          *)
LEMMA ReadTaskInv ==
    ASSUME QueueInv, NEW c \in Consumer, ReadTask(c)
    PROVE  QueueInv'
<1>. USE DEF ReadTask, Goto, ring
<1>1. /\ Reserved' = Reserved /\ Published' = Published
      /\ Claimed' = Claimed /\ Released' = Released /\ InMutex' = InMutex
    BY QueueAssumption DEF QueueInv, TypeOK, Proc,
       Reserved, Published, Claimed, Released, InMutex
<1>2. Length' = Length
    BY <1>1 DEF Length
<1>3. TypeOK'
    BY QueueAssumption DEF QueueInv, TypeOK, Proc, PushPc, PopPc
<1>4. MutualExclusion'
    BY <1>1 DEF QueueInv, TypeOK, MutualExclusion
<1>5. SlotAccounting'
    BY <1>1, <1>2, Stages, Context DEF QueueInv, TypeOK, SlotAccounting
<1>6. TailFollowsQueue'
    BY <1>2 DEF QueueInv, TailFollowsQueue, NodeAt
<1>7. HandOver'
    BY <1>2, QueueAssumption DEF QueueInv, TypeOK, HandOver, Proc, NodeAt
<1>. QED BY <1>3, <1>4, <1>5, <1>6, <1>7 DEF QueueInv

(* The first queued node becomes one that is to be handed back.            *)
LEMMA AdvanceHeadInv ==
    ASSUME QueueInv, NEW c \in Consumer, AdvanceHead(c)
    PROVE  QueueInv'
<1>. USE DEF AdvanceHead, Goto, ring
<1>1. /\ c \in Claimed /\ Claimed' = Claimed \ {c}
      /\ c \notin Released /\ Released' = Released \cup {c}
      /\ Reserved' = Reserved /\ Published' = Published
      /\ InMutex' = InMutex /\ c \in InMutex
    BY QueueAssumption DEF QueueInv, TypeOK, Proc,
       Reserved, Published, Claimed, Released, InMutex
<1>2. /\ Length' = Length - 1 /\ Length > 0
      /\ Cardinality(Released') = Cardinality(Released) + 1
    <2>1. /\ Cardinality(Claimed') = Cardinality(Claimed) - 1
          /\ Cardinality(Released') = Cardinality(Released) + 1
        BY <1>1, Stages, Enter, Leave
    <2>. QED BY <1>1, <2>1, Stages, Context DEF QueueInv, TypeOK, Length
<1>3. TypeOK'
    BY QueueAssumption, NextNodeType DEF QueueInv, TypeOK, Proc, PushPc, PopPc
<1>4. MutualExclusion'
    BY <1>1 DEF QueueInv, TypeOK, MutualExclusion
<1>5. SlotAccounting'
    BY <1>1, <1>2, Stages, Context DEF QueueInv, TypeOK, SlotAccounting
<1>a. \A k \in 1 .. MaxLength : NodeAt(k - 1)' = NodeAt(k)
    BY NodeAtHeadMoves DEF QueueInv, TypeOK
<1>6. TailFollowsQueue'
    <2>1. PICK k \in 1 .. MaxLength : k = Length
        BY <1>2, Context
    <2>2. NodeAt(k - 1)' = tail'
        BY <1>a, <2>1 DEF QueueInv, TailFollowsQueue
    <2>3. Length' = k - 1
        BY <1>2, <2>1
    <2>. QED BY <2>2, <2>3 DEF TailFollowsQueue, NodeAt
<1>7. HandOver'
    <2>1. \A q \in Proc : q # c => pc[q] # "advance"
        BY <1>1 DEF QueueInv, MutualExclusion, InMutex
    <2>2. \A q \in Proc : pc'[q] # "advance"
        BY <2>1 DEF QueueInv, TypeOK
    <2>3. task[c] \in Task
        <3>1. NodeAt(0) = head
            BY Context, NodeAtType DEF QueueInv, TypeOK, Node
        <3>2. nodes[NodeAt(1 - 1)] \in Task
            BY <1>2, Context DEF QueueInv, HandOver
        <3>. QED BY <3>1, <3>2 DEF QueueInv, HandOver
    <2>4. \A k \in 1 .. Length' : nodes'[NodeAt(k - 1)'] \in Task
        <3>. SUFFICES ASSUME NEW k \in 1 .. Length - 1
                      PROVE  nodes[NodeAt(k)] \in Task
            BY <1>2, <1>a, Context
        <3>1. k + 1 \in 1 .. Length /\ (k + 1) - 1 = k
            BY Context
        <3>. QED BY <3>1 DEF QueueInv, HandOver
    <2>. QED BY <2>2, <2>3, <2>4, QueueAssumption
             DEF QueueInv, TypeOK, HandOver, Proc
<1>. QED BY <1>3, <1>4, <1>5, <1>6, <1>7 DEF QueueInv

(* sem_post(&slots): the node is free again.                               *)
LEMMA PostSlotsInv ==
    ASSUME QueueInv, NEW c \in Consumer, PostSlots(c)
    PROVE  QueueInv'
<1>. USE DEF PostSlots, Goto, ring
<1>1. /\ c \in Released /\ Released' = Released \ {c}
      /\ Reserved' = Reserved /\ Published' = Published
      /\ Claimed' = Claimed /\ InMutex' = InMutex
    BY QueueAssumption DEF QueueInv, TypeOK, Proc,
       Reserved, Published, Claimed, Released, InMutex
<1>2. /\ Length' = Length /\ slots' <= MaxLength
      /\ Cardinality(Released') = Cardinality(Released) - 1
    <2>1. /\ Cardinality(Released') = Cardinality(Released) - 1
          /\ Cardinality(Released) >= 1
        BY <1>1, Stages, Leave, Inhabited
    <2>2. Length' = Length
        BY <1>1 DEF Length
    <2>. QED BY <2>1, <2>2, Stages, Context DEF QueueInv, TypeOK, SlotAccounting
<1>3. TypeOK'
    BY <1>2, QueueAssumption DEF QueueInv, TypeOK, Proc, PushPc, PopPc
<1>4. MutualExclusion'
    BY <1>1 DEF QueueInv, TypeOK, MutualExclusion
<1>5. SlotAccounting'
    BY <1>1, <1>2, Stages, Context DEF QueueInv, TypeOK, SlotAccounting
<1>6. TailFollowsQueue'
    BY <1>2 DEF QueueInv, TailFollowsQueue, NodeAt
<1>7. HandOver'
    BY <1>2, QueueAssumption DEF QueueInv, TypeOK, HandOver, Proc, NodeAt
<1>. QED BY <1>3, <1>4, <1>5, <1>6, <1>7 DEF QueueInv

(* The worker's own work does not touch the ring.                          *)
LEMMA HandleInv ==
    ASSUME QueueInv, NEW c \in Consumer, Handle(c)
    PROVE  QueueInv'
<1>. USE DEF Handle, Goto, ring
<1>1. /\ Reserved' = Reserved /\ Published' = Published
      /\ Claimed' = Claimed /\ Released' = Released /\ InMutex' = InMutex
    BY QueueAssumption DEF QueueInv, TypeOK, Proc,
       Reserved, Published, Claimed, Released, InMutex
<1>2. Length' = Length
    BY <1>1 DEF Length
<1>3. TypeOK'
    BY QueueAssumption DEF QueueInv, TypeOK, Proc, PushPc, PopPc
<1>4. MutualExclusion'
    BY <1>1 DEF QueueInv, TypeOK, MutualExclusion
<1>5. SlotAccounting'
    BY <1>1, <1>2, Stages, Context DEF QueueInv, TypeOK, SlotAccounting
<1>6. TailFollowsQueue'
    BY <1>2 DEF QueueInv, TailFollowsQueue, NodeAt
<1>7. HandOver'
    BY <1>2, QueueAssumption DEF QueueInv, TypeOK, HandOver, Proc, NodeAt
<1>. QED BY <1>3, <1>4, <1>5, <1>6, <1>7 DEF QueueInv

(* A death changes who is alive and leaves every count as it is.           *)
LEMMA CrashInv ==
    ASSUME QueueInv, NEW p \in Proc, Crash(p)
    PROVE  QueueInv'
<1>. USE DEF Crash, Goto, ring
<1>1. /\ Reserved' = Reserved /\ Published' = Published
      /\ Claimed' = Claimed /\ Released' = Released /\ InMutex' = InMutex
    BY QueueAssumption DEF QueueInv, TypeOK, Proc,
       Reserved, Published, Claimed, Released, InMutex
<1>2. Length' = Length
    BY <1>1 DEF Length
<1>3. TypeOK'
    BY QueueAssumption DEF QueueInv, TypeOK, Proc, PushPc, PopPc
<1>4. MutualExclusion'
    BY <1>1 DEF QueueInv, TypeOK, MutualExclusion
<1>5. SlotAccounting'
    BY <1>1, <1>2, Stages, Context DEF QueueInv, TypeOK, SlotAccounting
<1>6. TailFollowsQueue'
    BY <1>2 DEF QueueInv, TailFollowsQueue, NodeAt
<1>7. HandOver'
    BY <1>2, QueueAssumption DEF QueueInv, TypeOK, HandOver, Proc, NodeAt
<1>. QED BY <1>3, <1>4, <1>5, <1>6, <1>7 DEF QueueInv

(* Every step of the queue preserves the invariant.                        *)
LEMMA NextInv == QueueInv /\ [Next]_vars => QueueInv'
<1>. SUFFICES ASSUME QueueInv, [Next]_vars PROVE QueueInv'
    OBVIOUS
<1>1. ASSUME NEW p \in Producer, NEW t \in Task, CallPush(p, t)
      PROVE  QueueInv'
    BY <1>1, CallPushInv
<1>2. ASSUME NEW p \in Producer, PushStep(p) PROVE QueueInv'
    <2>. p \in Proc
        BY DEF Proc
    <2>1. CASE WaitSlots(p)
        BY <2>1, WaitSlotsInv
    <2>2. CASE LockPush(p)
        BY <2>2, LockInv DEF LockPush
    <2>3. CASE WriteTask(p)
        BY <2>3, WriteTaskInv
    <2>4. CASE AdvanceTail(p)
        BY <2>4, AdvanceTailInv
    <2>5. CASE PostMutex(p)
        BY <2>5, PostMutexInv
    <2>6. CASE PostItems(p)
        BY <2>6, PostItemsInv
    <2>. QED BY <1>2, <2>1, <2>2, <2>3, <2>4, <2>5, <2>6 DEF PushStep
<1>3. ASSUME NEW c \in Consumer, PopStep(c) PROVE QueueInv'
    <2>. c \in Proc
        BY DEF Proc
    <2>1. CASE WaitItems(c)
        BY <2>1, WaitItemsInv
    <2>2. CASE LockPop(c)
        BY <2>2, LockInv DEF LockPop
    <2>3. CASE ReadTask(c)
        BY <2>3, ReadTaskInv
    <2>4. CASE AdvanceHead(c)
        BY <2>4, AdvanceHeadInv
    <2>5. CASE PostMutex(c)
        BY <2>5, PostMutexInv
    <2>6. CASE PostSlots(c)
        BY <2>6, PostSlotsInv
    <2>7. CASE Handle(c)
        BY <2>7, HandleInv
    <2>. QED BY <1>3, <2>1, <2>2, <2>3, <2>4, <2>5, <2>6, <2>7 DEF PopStep
<1>4. ASSUME NEW p \in Proc, Crash(p) PROVE QueueInv'
    BY <1>4, CrashInv
<1>5. CASE UNCHANGED vars
    BY <1>5 DEF vars, QueueInv, TypeOK, MutualExclusion, SlotAccounting,
       TailFollowsQueue, HandOver, Length, NodeAt,
       Reserved, Published, Claimed, Released, InMutex
<1>. QED BY <1>1, <1>2, <1>3, <1>4, <1>5 DEF Next

(* The inductive invariant holds in every reachable state. *)
THEOREM Invariance == Spec => []QueueInv
BY InitInv, NextInv, PTL DEF Spec

(* head and tail stay in the array and no semaphore exceeds its initial    *)
(* value, however many processes push, pop and die.                        *)
THEOREM TypeCorrect == Spec => []TypeOK
<1>1. QueueInv => TypeOK
    BY DEF QueueInv
<1>. QED BY <1>1, Invariance, PTL

(* task_queue_push and task_queue_pop exclude each other around the ring. *)
THEOREM RingIsExclusive == Spec => []MutualExclusion
<1>1. QueueInv => MutualExclusion
    BY DEF QueueInv
<1>. QED BY <1>1, Invariance, PTL

(* Every node is at all times free, reserved, queued or being released. *)
THEOREM NoNodeIsLost == Spec => []SlotAccounting
<1>1. QueueInv => SlotAccounting
    BY DEF QueueInv
<1>. QED BY <1>1, Invariance, PTL

-----------------------------------------------------------------------------
(* Refinement: the ring implements the bounded FIFO *)

(* What is queued is a sequence of tasks, all of them written.             *)
LEMMA QueuedType ==
    ASSUME QueueInv
    PROVE  Queued \in Seq(Task) /\ Len(Queued) = Length
<1>1. Length \in Nat
    BY Context
<1>2. Queued \in [1 .. Length -> Task]
    BY DEF Queued, QueueInv, HandOver
<1>. QED BY <1>1, <1>2

(* The queue is the same while head, Length and its nodes are. *)
LEMMA QueuedSame ==
    ASSUME head' = head, nodes' = nodes, Length' = Length
    PROVE  Queued' = Queued
BY DEF Queued, NodeAt

(* Writing the task of a node that is not linked in changes nothing of     *)
(* what is queued.                                                         *)
LEMMA WriteTaskFifo ==
    ASSUME QueueInv, NEW p \in Producer, WriteTask(p)
    PROVE  Queued' = Queued
<1>1. /\ Published' = Published /\ Claimed' = Claimed /\ Reserved # {}
    BY QueueAssumption DEF WriteTask, Goto, QueueInv, TypeOK, Proc,
       Reserved, Published, Claimed
<1>2. Length' = Length /\ Length < MaxLength
    BY <1>1, Context DEF Length, WriteTask
<1>3. \A k \in 1 .. Length : NodeAt(k - 1) \in Node /\ NodeAt(k - 1) # tail
    <2>. TAKE k \in 1 .. Length
    <2>1. /\ k - 1 \in 0 .. MaxLength - 1 /\ Length \in 0 .. MaxLength - 1
          /\ k - 1 # Length /\ k - 1 \in 0 .. MaxLength /\ head \in Node
        BY <1>2, Context DEF QueueInv, TypeOK
    <2>2. NodeAt(k - 1) # NodeAt(Length)
        BY <2>1, NodeAtDistinct
    <2>. QED BY <2>1, <2>2, NodeAtType, Context
<1>4. \A k \in 1 .. Length : nodes'[NodeAt(k - 1)] = nodes[NodeAt(k - 1)]
    BY <1>3 DEF WriteTask, QueueInv, TypeOK
<1>. QED BY <1>2, <1>4 DEF Queued, NodeAt, WriteTask

(* tail = tail->next appends the producer's task, and there is room.       *)
LEMMA AdvanceTailFifo ==
    ASSUME QueueInv, NEW p \in Producer, AdvanceTail(p)
    PROVE  /\ Len(Queued) < MaxLength
           /\ Queued' = Append(Queued, task[p])
<1>1. /\ p \notin Published /\ Published' = Published \cup {p}
      /\ Claimed' = Claimed /\ Reserved # {}
    BY QueueAssumption DEF AdvanceTail, Goto, QueueInv, TypeOK, Proc,
       Reserved, Published, Claimed
<1>2. Cardinality(Published') = Cardinality(Published) + 1
    BY <1>1, Stages, Enter
<1>3. Length' = Length + 1 /\ Length < MaxLength /\ Length \in Nat
    BY <1>1, <1>2, Stages, Context DEF AdvanceTail, QueueInv, TypeOK, Length
<1>4. nodes[NodeAt(Length)] = task[p]
    BY DEF AdvanceTail, Goto, QueueInv, HandOver, TailFollowsQueue
<1>5. Queued' = [k \in 1 .. Length + 1 |-> nodes[NodeAt(k - 1)]]
    BY <1>3 DEF Queued, NodeAt, AdvanceTail
<1>6. Append(Queued, task[p]) = [k \in 1 .. Length + 1 |->
                        IF k = Length + 1 THEN task[p] ELSE Queued[k]]
    BY <1>3, QueuedType DEF QueueInv, TypeOK
<1>7. \A k \in 1 .. Length + 1 :
         nodes[NodeAt(k - 1)] = IF k = Length + 1 THEN task[p] ELSE Queued[k]
    <2>. TAKE k \in 1 .. Length + 1
    <2>1. CASE k = Length + 1
        <3>1. k - 1 = Length
            BY <2>1, <1>3
        <3>. QED BY <2>1, <3>1, <1>4
    <2>2. CASE k # Length + 1
        BY <2>2, <1>3 DEF Queued
    <2>. QED BY <2>1, <2>2
<1>. QED BY <1>3, <1>5, <1>6, <1>7, QueuedType

(* head = head->next takes the oldest task, the one the consumer has read. *)
LEMMA AdvanceHeadFifo ==
    ASSUME QueueInv, QueueInv', NEW c \in Consumer, AdvanceHead(c)
    PROVE  /\ Queued # <<>>
           /\ task[c] = Head(Queued)
           /\ Queued' = Tail(Queued)
<1>1. /\ c \in Claimed /\ Claimed' = Claimed \ {c} /\ Published' = Published
    BY QueueAssumption DEF AdvanceHead, Goto, QueueInv, TypeOK, Proc,
       Published, Claimed
<1>2. Cardinality(Claimed') = Cardinality(Claimed) - 1
    BY <1>1, Stages, Leave
<1>3. Length' = Length - 1 /\ Length > 0 /\ Length \in 0 .. MaxLength
    BY <1>1, <1>2, Stages, Context DEF AdvanceHead, QueueInv, TypeOK, Length
<1>4. Queued[1] = task[c]
    <2>1. NodeAt(0) = head
        BY Context, NodeAtType DEF QueueInv, TypeOK, Node
    <2>2. Queued[1] = nodes[NodeAt(1 - 1)]
        BY <1>3 DEF Queued
    <2>. QED BY <2>1, <2>2 DEF AdvanceHead, Goto, QueueInv, HandOver
<1>5. \A k \in 1 .. MaxLength : NodeAt(k - 1)' = NodeAt(k)
    BY NodeAtHeadMoves DEF AdvanceHead, QueueInv, TypeOK
<1>6. \A k \in 1 .. Length - 1 : Queued'[k] = Queued[k + 1]
    <2>. TAKE k \in 1 .. Length - 1
    <2>1. k \in 1 .. MaxLength /\ k + 1 \in 1 .. Length /\ (k + 1) - 1 = k
        BY <1>3, Context
    <2>2. Queued'[k] = nodes'[NodeAt(k - 1)'] /\ nodes' = nodes
        <3>1. Queued' = [j \in 1 .. Length' |-> nodes'[NodeAt(j - 1)']]
            BY DEF Queued
        <3>2. k \in 1 .. Length'
            BY <1>3
        <3>. QED BY <3>1, <3>2, Zenon DEF AdvanceHead
    <2>3. Queued[k + 1] = nodes[NodeAt(k)]
        BY <2>1 DEF Queued
    <2>. QED BY <2>1, <2>2, <2>3, <1>5
<1>7. Queued \in Seq(Task) /\ Len(Queued) = Length /\ Queued # <<>>
    BY <1>3, QueuedType
<1>8. Queued' \in Seq(Task) /\ Len(Queued') = Length - 1
    <2>1. Queued' \in [1 .. Length' -> Task]
        BY DEF Queued, QueueInv, HandOver
    <2>. QED BY <2>1, <1>3
<1>9. /\ Head(Queued) = Queued[1] /\ Tail(Queued) \in Seq(Task)
      /\ Len(Tail(Queued)) = Length - 1
      /\ \A k \in 1 .. Length - 1 : Tail(Queued)[k] = Queued[k + 1]
    BY <1>7, HeadTailProperties
<1>10. Queued' = Tail(Queued)
    BY <1>6, <1>8, <1>9, SeqEqual
<1>. QED BY <1>4, <1>7, <1>9, <1>10

(* A queue that was just created is an empty fifo.                         *)
LEMMA InitFifo == Init => Fifo!Init
<1>. SUFFICES ASSUME Init PROVE Fifo!Init
    OBVIOUS
<1>1. Published = {} /\ Claimed = {}
    BY QueueAssumption DEF Init, Proc, Published, Claimed
<1>2. Length = 0
    BY <1>1, FS_EmptySet DEF Init, Length
<1>3. Queued = <<>>
    BY <1>2, InitInv, QueuedType
<1>4. \A p \in Producer : pc[p] = "serve"
    BY DEF Init, Proc
<1>5. \A c \in Consumer : pc[c] = "items"
    BY QueueAssumption DEF Init, Proc
<1>. QED BY <1>3, <1>4, <1>5 DEF Fifo!Init, Offered, Taken

(* What callers of the queue see changes only in CallPush, AdvanceTail,    *)
(* AdvanceHead and Handle.                                                 *)
LEMMA StepFifo ==
    ASSUME QueueInv, QueueInv', [Next]_vars
    PROVE  [Fifo!Next]_(Fifo!vars)
<1>. USE QueueAssumption DEF Goto, ring
<1>t. /\ pc \in [Proc -> PushPc \cup PopPc] /\ task \in [Proc -> Task \cup {NoTask}]
      /\ Producer \subseteq Proc /\ Consumer \subseteq Proc
    BY DEF QueueInv, TypeOK, Proc
<1>1. ASSUME NEW p \in Producer, NEW t \in Task, CallPush(p, t)
      PROVE  Fifo!Offer(p, t)
    <2>1. Length' = Length /\ Queued' = Queued
        <3>1. Published' = Published /\ Claimed' = Claimed
            BY <1>1, <1>t DEF CallPush, Published, Claimed
        <3>. QED BY <1>1, <3>1, QueuedSame DEF CallPush, Length
    <2>2. Offered[p] = NoTask
        BY <1>1 DEF CallPush, Offered
    <2>3. Offered' = [Offered EXCEPT ![p] = t]
        BY <1>1, <1>t DEF CallPush, Offered
    <2>4. Taken' = Taken
        BY <1>1, <1>t DEF CallPush, Taken
    <2>. QED BY <2>1, <2>2, <2>3, <2>4 DEF Fifo!Offer
<1>2. ASSUME NEW p \in Producer, AdvanceTail(p)
      PROVE  Fifo!Enqueue(p)
    <2>1. Offered[p] = task[p] /\ task[p] \in Task
        BY <1>2 DEF AdvanceTail, Offered, QueueInv, HandOver
    <2>2. Len(Queued) < MaxLength /\ Queued' = Append(Queued, Offered[p])
        BY <1>2, <2>1, AdvanceTailFifo
    <2>3. Offered' = [Offered EXCEPT ![p] = NoTask]
        BY <1>2, <1>t DEF AdvanceTail, Offered
    <2>4. Taken' = Taken
        BY <1>2, <1>t DEF AdvanceTail, Taken
    <2>. QED BY <2>1, <2>2, <2>3, <2>4 DEF Fifo!Enqueue
<1>3. ASSUME NEW c \in Consumer, AdvanceHead(c)
      PROVE  Fifo!Dequeue(c)
    <2>1. Taken[c] = NoTask
        BY <1>3 DEF AdvanceHead, Taken
    <2>2. Queued # <<>> /\ task[c] = Head(Queued) /\ Queued' = Tail(Queued)
        BY <1>3, AdvanceHeadFifo
    <2>3. Taken' = [Taken EXCEPT ![c] = task[c]]
        BY <1>3, <1>t DEF AdvanceHead, Taken
    <2>4. Offered' = Offered
        BY <1>3, <1>t DEF AdvanceHead, Offered
    <2>. QED BY <2>1, <2>2, <2>3, <2>4 DEF Fifo!Dequeue
<1>4. ASSUME NEW c \in Consumer, Handle(c)
      PROVE  Fifo!Finish(c)
    <2>1. Length' = Length /\ Queued' = Queued
        <3>1. Published' = Published /\ Claimed' = Claimed
            BY <1>4, <1>t DEF Handle, Published, Claimed
        <3>. QED BY <1>4, <3>1, QueuedSame DEF Handle, Length
    <2>2. Taken[c] # NoTask
        BY <1>4 DEF Handle, Taken, QueueInv, HandOver
    <2>3. Taken' = [Taken EXCEPT ![c] = NoTask]
        BY <1>4, <1>t DEF Handle, Taken
    <2>4. Offered' = Offered
        BY <1>4, <1>t DEF Handle, Offered
    <2>. QED BY <2>1, <2>2, <2>3, <2>4 DEF Fifo!Finish
<1>5. ASSUME NEW p \in Producer, WriteTask(p)
      PROVE  UNCHANGED Fifo!vars
    <2>1. Queued' = Queued
        BY <1>5, WriteTaskFifo
    <2>2. Offered' = Offered /\ Taken' = Taken
        BY <1>5, <1>t DEF WriteTask, Offered, Taken
    <2>. QED BY <2>1, <2>2 DEF Fifo!vars
<1>6. ASSUME NEW p \in Producer,
             WaitSlots(p) \/ LockPush(p) \/ PostMutex(p) \/ PostItems(p)
      PROVE  UNCHANGED Fifo!vars
    <2>1. Claimed' = Claimed
        BY <1>6, <1>t DEF WaitSlots, LockPush, TakeMutex, PostMutex, PostItems, Claimed
    <2>2. Length' = Length
        <3>1. CASE PostItems(p)
            <4>1. p \in Published /\ Published' = Published \ {p}
                BY <3>1, <1>t DEF PostItems, Published
            <4>2. Cardinality(Published') = Cardinality(Published) - 1
                BY <4>1, Stages, Leave
            <4>. QED BY <3>1, <4>2, <2>1, Stages
                     DEF PostItems, Length, QueueInv, TypeOK
        <3>2. CASE WaitSlots(p) \/ LockPush(p) \/ PostMutex(p)
            <4>1. Published' = Published /\ items' = items
                BY <3>2, <1>t DEF WaitSlots, LockPush, TakeMutex, PostMutex, Published
            <4>. QED BY <4>1, <2>1 DEF Length
        <3>. QED BY <1>6, <3>1, <3>2
    <2>3. Offered' = Offered /\ Taken' = Taken
        BY <1>6, <1>t DEF WaitSlots, LockPush, TakeMutex, PostMutex, PostItems,
           Offered, Taken
    <2>4. Queued' = Queued
        BY <1>6, <2>2, QueuedSame DEF WaitSlots, LockPush, TakeMutex, PostMutex, PostItems
    <2>. QED BY <2>3, <2>4 DEF Fifo!vars
<1>7. ASSUME NEW c \in Consumer,
             \/ WaitItems(c) \/ LockPop(c) \/ ReadTask(c)
             \/ PostMutex(c) \/ PostSlots(c)
      PROVE  UNCHANGED Fifo!vars
    <2>1. Published' = Published
        BY <1>7, <1>t DEF WaitItems, LockPop, TakeMutex, ReadTask, PostMutex,
           PostSlots, Published
    <2>2. Length' = Length
        <3>1. CASE WaitItems(c)
            <4>1. c \notin Claimed /\ Claimed' = Claimed \cup {c}
                BY <3>1, <1>t DEF WaitItems, Claimed
            <4>2. Cardinality(Claimed') = Cardinality(Claimed) + 1
                BY <4>1, Stages, Enter
            <4>. QED BY <3>1, <4>2, <2>1, Stages
                     DEF WaitItems, Length, QueueInv, TypeOK
        <3>2. CASE LockPop(c) \/ ReadTask(c) \/ PostMutex(c) \/ PostSlots(c)
            <4>1. Claimed' = Claimed /\ items' = items
                BY <3>2, <1>t DEF LockPop, TakeMutex, ReadTask, PostMutex, PostSlots,
                   Claimed
            <4>. QED BY <4>1, <2>1 DEF Length
        <3>. QED BY <1>7, <3>1, <3>2
    <2>3. Offered' = Offered /\ Taken' = Taken
        BY <1>7, <1>t DEF WaitItems, LockPop, TakeMutex, ReadTask, PostMutex,
           PostSlots, Offered, Taken
    <2>4. Queued' = Queued
        BY <1>7, <2>2, QueuedSame DEF WaitItems, LockPop, TakeMutex, ReadTask,
           PostMutex, PostSlots
    <2>. QED BY <2>3, <2>4 DEF Fifo!vars
<1>8. ASSUME \/ \E p \in Proc : Crash(p)
             \/ UNCHANGED vars
      PROVE  UNCHANGED Fifo!vars
    <2>1. UNCHANGED <<head, nodes, items, pc, task>>
        BY <1>8 DEF Crash, vars
    <2>. QED BY <2>1 DEF Fifo!vars, Queued, NodeAt, Length, Published, Claimed,
             Offered, Taken
<1>. QED
    BY <1>1, <1>2, <1>3, <1>4, <1>5, <1>6, <1>7, <1>8
       DEF Next, PushStep, PopStep, Fifo!Next, Fifo!AnyEnqueue, Fifo!AnyDequeue

(* The ring implements the bounded FIFO: no task is lost, repeated,        *)
(* reordered or overwritten, also when processes are killed anywhere.      *)
THEOREM RingIsFifo == Spec => FifoOrder
<1>1. QueueInv /\ QueueInv' /\ [Next]_vars => [Fifo!Next]_(Fifo!vars)
    BY StepFifo
<1>. QED BY InitFifo, <1>1, Invariance, PTL DEF Spec, FifoOrder, Fifo!Spec

=============================================================================
