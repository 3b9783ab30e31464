----------------------------- MODULE QueueSharing -----------------------------
(***************************************************************************)
(* How processes come to share the task queue of nt_cycle.c, which         *)
(* TaskQueue takes for granted: task_queue_create, task_queue_open,        *)
(* task_queue_destroy, and fork (nt_thread_start), by which a child gets   *)
(* the mapping of its parent.                                              *)
(*                                                                         *)
(* head, tail and every next are pointers, kept in the shared memory as    *)
(* the process that stored them sees them: the address at which mmap put   *)
(* the queue there, and a node.  mmap(NULL) may choose any address, in     *)
(* every process.  A process that follows a pointer of another address     *)
(* than its own, or a NULL one, leaves its mapping and is killed, in push  *)
(* and pop with the mutex taken.                                           *)
(*                                                                         *)
(* shm_unlink takes the name away and leaves the object to those who have  *)
(* it mapped; the next task_queue_create makes a new object.  A create     *)
(* that finds the name initialises the object once more, and any process   *)
(* may open it while a create is still under way.                          *)
(*                                                                         *)
(* Push and pop are one action each.  TaskQueue shows that the semaphores  *)
(* make them so in a queue that nobody initialises again; of a queue that  *)
(* somebody does, the properties only say which addresses are found in     *)
(* it.                                                                     *)
(***************************************************************************)
EXTENDS Naturals, Sequences, FiniteSets

CONSTANTS
    Creator,    \* processes that call task_queue_create
    Opener,     \* processes that call task_queue_open
    Forked,     \* processes started by nt_thread_start
    Address,    \* where mmap may put the queue
    Task,
    MaxLength,
    MaxObject   \* bound on the number of shared memory objects made

None == 0       \* no object
NoTask == 0     \* what ftruncate fills an object with
Nowhere == 0    \* the address of a NULL pointer

ASSUME SharingAssumption ==
    /\ NoTask \notin Task
    /\ Nowhere \notin Address
    /\ MaxLength \in Nat \ {0}
    /\ MaxObject \in Nat \ {0}

VARIABLES
    named,      \* the object that the name stands for, or None
    ring,       \* ring[o]: the cycle_t in object o
    mapped,     \* mapped[p]: [object, at, stage, linked, early]
    killed,     \* processes killed by SIGSEGV; they keep their mapped[p]
    (* history variables, of each object *)
    fifo,       \* fifo[o]: the tasks pushed and not popped
    spots,      \* spots[o]: the addresses where create and open have put it
    creates,    \* creates[o]: how often it was created
    over        \* objects whose name somebody has destroyed

histories == <<fifo, spots, creates, over>>
vars == <<named, ring, mapped, killed, histories>>

Proc == Creator \cup Opener \cup Forked
Object == 1 .. MaxObject
Node == 0 .. MaxLength - 1

Pointer(a, i) == [at |-> a, node |-> i]
Null == Pointer(Nowhere, 0)

(* &queue->nodes[(i + 1) % max_length] *)
NextPointer(a, i) == Pointer(a, (i + 1) % MaxLength)

Unmapped == [object |-> None]
HasQueue(p) == mapped[p].object # None
At(p, stage) == p \notin killed /\ HasQueue(p) /\ mapped[p].stage = stage
Attached(p) == At(p, "ready")
IdleProc(p) == p \notin killed /\ ~HasQueue(p)

Ring(p) == ring[mapped[p].object]

-----------------------------------------------------------------------------
Init ==
    /\ named = None
    /\ ring = [o \in {} |-> None]
    /\ mapped = [p \in Proc |-> Unmapped]
    /\ killed = {}
    /\ fifo = [o \in {} |-> <<>>]
    /\ spots = [o \in {} |-> {}]
    /\ creates = [o \in {} |-> 0]
    /\ over = {}

(* The shared memory object as ftruncate makes it: filled with zeros. *)
Zeros ==
    [head |-> Null, tail |-> Null, next |-> [i \in Node |-> Null],
     task |-> [i \in Node |-> NoTask], mutex |-> 0, slots |-> 0, items |-> 0]

(* shm_open with O_CREAT, but without O_EXCL: the object that is there, or *)
(* a new one                                                               *)
ObjectToCreate == IF named = None THEN Cardinality(DOMAIN ring) + 1 ELSE named

With(f, o, x) == [y \in DOMAIN f \cup {o} |-> IF y = o THEN x ELSE f[y]]

OpenObject(o) ==
    /\ o \in Object
    /\ named' = o
    /\ ring' = IF o \in DOMAIN ring THEN ring ELSE With(ring, o, Zeros)

(* task_queue_create: shm_open, ftruncate and mmap, ...                    *)
Create(p, a) ==
    LET o == ObjectToCreate
        again == o \in DOMAIN ring \ over
    IN /\ IdleProc(p)
       /\ OpenObject(o)
       /\ mapped' = [mapped EXCEPT ![p] = [object |-> o, at |-> a, stage |-> "sems",
                                           linked |-> 0, early |-> FALSE]]
       /\ fifo' = IF o \in DOMAIN ring THEN fifo ELSE With(fifo, o, <<>>)
       /\ spots' = With(spots, o, IF again THEN spots[o] \cup {a} ELSE {a})
       /\ creates' = With(creates, o, IF again THEN creates[o] + 1 ELSE 1)
       /\ UNCHANGED <<killed, over>>

(* ... of which ftruncate or mmap may fail, when the name is there         *)
(* already, ...                                                            *)
CreateFails(p) ==
    LET o == ObjectToCreate
        again == o \in DOMAIN ring \ over
    IN /\ IdleProc(p)
       /\ OpenObject(o)
       /\ fifo' = IF o \in DOMAIN ring THEN fifo ELSE With(fifo, o, <<>>)
       /\ spots' = IF again THEN spots ELSE With(spots, o, {})
       /\ creates' = IF again THEN creates ELSE With(creates, o, 0)
       /\ UNCHANGED <<mapped, killed, over>>

(* ... then the three calls of sem_init, ...                               *)
InitSems(p) ==
    LET o == mapped[p].object
    IN /\ At(p, "sems")
       /\ ring' = [ring EXCEPT ![o] =
                     [@ EXCEPT !.mutex = 1, !.slots = MaxLength, !.items = 0]]
       /\ mapped' = [mapped EXCEPT ![p].stage = "links"]
       /\ UNCHANGED <<named, killed, histories>>

(* Mutant: the tail is forgotten. *)
LinkRingHeadOnly(p) ==
    LET o == mapped[p].object
        a == mapped[p].at
    IN /\ At(p, "links")
       /\ ring' = [ring EXCEPT ![o] =
                     [@ EXCEPT !.next = [i \in Node |-> NextPointer(a, i)],
                               !.head = Pointer(a, 0)]]
       /\ mapped' = [mapped EXCEPT ![p].stage = "ready"]
       /\ UNCHANGED <<named, killed, histories>>

(* ... and the nodes, the head and the tail.  The tasks stay in the nodes. *)
LinkRing(p) ==
    LET o == mapped[p].object
        a == mapped[p].at
    IN /\ At(p, "links")
       /\ ring' = [ring EXCEPT ![o] =
                     [@ EXCEPT !.next = [i \in Node |-> NextPointer(a, i)],
                               !.head = Pointer(a, 0), !.tail = Pointer(a, 0)]]
       /\ mapped' = [mapped EXCEPT ![p].stage = "ready"]
       /\ UNCHANGED <<named, killed, histories>>

(* task_queue_open: maps the queue, wherever mmap puts it, ...             *)
Open(p, a) ==
    /\ IdleProc(p)
    /\ named # None
    /\ mapped' = [mapped EXCEPT ![p] =
                    [object |-> named, at |-> a, stage |-> "relink", linked |-> 0,
                     early |-> ring[named].tail = Null]]
    /\ spots' = [spots EXCEPT ![named] = @ \cup {a}]
    /\ UNCHANGED <<named, ring, killed, fifo, creates, over>>

AfterRelink(m) ==
    [m EXCEPT !.linked = @ + 1,
              !.stage = IF m.linked + 1 = MaxLength THEN "ready" ELSE "relink"]

(* ... then links its nodes once more, one by one and without the mutex,   *)
(* but leaves head and tail as they are.                                   *)
Relink(p) ==
    LET m == mapped[p]
    IN /\ At(p, "relink")
       /\ ring' = [ring EXCEPT ![m.object].next[m.linked] = NextPointer(m.at, m.linked)]
       /\ mapped' = [mapped EXCEPT ![p] = AfterRelink(m)]
       /\ UNCHANGED <<named, killed, histories>>

(* nt_thread_start *)
Fork(p, child) ==
    /\ Attached(p)
    /\ IdleProc(child)
    /\ mapped' = [mapped EXCEPT ![child] = mapped[p]]
    /\ UNCHANGED <<named, ring, killed, histories>>

(* Mutant: the name is left behind. *)
DestroyKeepsName(p) ==
    /\ Attached(p)
    /\ mapped' = [mapped EXCEPT ![p] = Unmapped]
    /\ over' = over \cup ({named} \ {None})
    /\ UNCHANGED <<named, ring, killed, fifo, spots, creates>>

(* task_queue_destroy.  sem_destroy leaves the semaphore as it is.  What   *)
(* shm_unlink takes away is the name, also when it stands for a queue made *)
(* after the one p has mapped.                                             *)
Destroy(p) ==
    /\ Attached(p)
    /\ mapped' = [mapped EXCEPT ![p] = Unmapped]
    /\ named' = None
    /\ over' = over \cup ({named} \ {None})
    /\ UNCHANGED <<ring, killed, fifo, spots, creates>>

-----------------------------------------------------------------------------
(* What push and pop do with the pointers *)

CanUse(p) == Attached(p) /\ Ring(p).mutex > 0

(* The process follows a pointer out of its mapping and dies in the        *)
(* critical section.                                                       *)
Fault(p, o, taken) ==
    /\ killed' = killed \cup {p}
    /\ ring' = [ring EXCEPT ![o] = [taken EXCEPT !.mutex = 0]]
    /\ UNCHANGED <<named, mapped, histories>>

(* task_queue_push *)
Push(p, t) ==
    LET o == mapped[p].object
        r == [Ring(p) EXCEPT !.slots = @ - 1]
        n == r.tail.node
    IN /\ CanUse(p)
       /\ Ring(p).slots > 0
       /\ IF r.tail.at # mapped[p].at THEN Fault(p, o, r)
          ELSE /\ ring' = [ring EXCEPT ![o] =
                             [r EXCEPT !.task[n] = t, !.tail = r.next[n],
                                       !.items = @ + 1]]
               /\ fifo' = [fifo EXCEPT ![o] = Append(@, t)]
               /\ UNCHANGED <<named, mapped, killed, spots, creates, over>>

(* task_queue_pop *)
Pop(p) ==
    LET o == mapped[p].object
        r == [Ring(p) EXCEPT !.items = @ - 1]
        n == r.head.node
    IN /\ CanUse(p)
       /\ Ring(p).items > 0
       /\ IF r.head.at # mapped[p].at THEN Fault(p, o, r)
          ELSE /\ ring' = [ring EXCEPT ![o] =
                             [r EXCEPT !.head = r.next[n], !.slots = @ + 1]]
               /\ fifo' = [fifo EXCEPT ![o] = Tail(@)]
               /\ UNCHANGED <<named, mapped, killed, spots, creates, over>>

Next ==
    \/ \E p \in Proc, t \in Task : Push(p, t)
    \/ \E p \in Proc : Pop(p)
    \/ \E p \in Creator : InitSems(p) \/ LinkRing(p)
    \/ \E p \in Creator, a \in Address : Create(p, a)
    \/ \E p \in Creator : CreateFails(p)
    \/ \E p \in Opener : Relink(p)
    \/ \E p \in Opener, a \in Address : Open(p, a)
    \/ \E p \in Proc, child \in Forked : Fork(p, child)
    \/ \E p \in Proc : Destroy(p)

Spec == Init /\ [][Next]_vars

-----------------------------------------------------------------------------
(* Properties *)

(* The tasks found in an object by following its pointers. *)
Contents(r) ==
    LET at[k \in 1 .. r.items] == IF k = 1 THEN r.head.node ELSE r.next[at[k - 1]].node
    IN [k \in 1 .. r.items |-> r.task[at[k]]]

(* task_queue_push and task_queue_pop lead a process out of its mapping    *)
(* for two reasons only: it opened the queue before task_queue_create was  *)
(* through, or the queue it uses was put at two addresses between its      *)
(* create and now.  So neither a second create of the name, nor a destroy  *)
(* and what is made elsewhere under the name afterwards, nor a failed      *)
(* create, nor a fault in another queue leads anybody astray.              *)
FaultsHaveACause ==
    \A p \in killed :
      \/ mapped[p].early
      \/ \E a, b \in spots[mapped[p].object] : a # b

(* Every pointer and count has its type, and a name stands for an object   *)
(* that was made.                                                          *)
TypeOK ==
    LET Pointers == [at : Address, node : Node] \cup {Null} IN
    /\ named \in DOMAIN ring \cup {None}
    /\ \A o \in DOMAIN ring :
         /\ {ring[o].head, ring[o].tail} \subseteq Pointers
         /\ ring[o].next \in [Node -> Pointers]
         /\ ring[o].task \in [Node -> Task \cup {NoTask}]
         /\ ring[o].mutex \in 0 .. 1
         /\ {ring[o].items, ring[o].slots} \subseteq 0 .. MaxLength
    /\ \A p \in Proc : mapped[p].object \in DOMAIN ring \cup {None}
    /\ killed \subseteq Proc

(* By its pointers object o holds the tasks pushed and not popped, in that *)
(* order; but a process killed in pop has taken one from the count, for    *)
(* good, and the mutex with it.                                            *)
HoldsItsTasks(o) ==
    \/ Contents(ring[o]) = fifo[o]
    \/ /\ Contents(ring[o]) = SubSeq(fifo[o], 1, Len(fifo[o]) - 1)
       /\ ring[o].mutex = 0
       /\ \E p \in killed : mapped[p].object = o

(* A queue that was created once holds its tasks: nobody who opens it,     *)
(* wherever, before or after its create is through, who links its nodes    *)
(* while others follow them, destroys it or makes another one under its    *)
(* name takes tasks away or makes a count or a node wrong.                 *)
TasksSurvive ==
    /\ TypeOK
    /\ \A o \in DOMAIN ring : creates[o] <= 1 => HoldsItsTasks(o)

(* nt_cycle.c:79 says that task_queue_open opens an existing queue: with a *)
(* queue that was created once, and opened only when it was there, nobody  *)
(* is killed.                                                              *)
OpenedQueueWorks ==
    \A p \in killed :
      \/ creates[mapped[p].object] > 1
      \/ \E q \in Proc : HasQueue(q) /\ mapped[q].object = mapped[p].object /\ mapped[q].early

(* nt_cycle.c:16 says that task_queue_create creates the queue or opens    *)
(* it: a queue that is there keeps its tasks.                              *)
CreateOpens == \A o \in DOMAIN ring : HoldsItsTasks(o)

=============================================================================
