------------------------------ MODULE TaskQueue ------------------------------
(***************************************************************************)
(* The task queue of nt_cycle.c: a ring of max_length nodes in POSIX       *)
(* shared memory, a semaphore `slots' counting free nodes, a semaphore     *)
(* `items' counting queued tasks, and a semaphore `mutex' around the ring. *)
(* Any number of processes push (net_server, nt_socket.c) and pop          *)
(* (worker_thread, cycle_worker).  Every semaphore operation and every     *)
(* access to the ring is an action of its own, so that the processes       *)
(* interleave wherever the kernel may switch between them.                 *)
(*                                                                         *)
(* The processes of Mortal may be killed between any two of their actions. *)
(* The semaphores are POSIX semaphores in shared memory: nothing is undone *)
(* when their holder dies (the SysV locks of nt_mutexs.c use SEM_UNDO,     *)
(* these do not).                                                          *)
(***************************************************************************)
EXTENDS Naturals, Sequences, FiniteSets

CONSTANTS
    Producer,   \* processes that push
    Consumer,   \* processes that pop
    Mortal,     \* the processes that may be killed
    Task,       \* the tasks: client_fd, data, data_len
    NoTask,     \* contents of a task_t nobody has written yet
    MaxLength   \* max_length of task_queue_create

ASSUME QueueAssumption ==
    /\ IsFiniteSet(Producer)
    /\ IsFiniteSet(Consumer)
    /\ Producer \cap Consumer = {}
    /\ NoTask \notin Task
    /\ MaxLength \in Nat \ {0}

VARIABLES
    head,       \* index of the node that is popped next
    tail,       \* index of the node that is pushed next
    nodes,      \* nodes[i]: the task stored in node i
    mutex, slots, items,    \* the semaphores' values
    pc,         \* pc[p]: where process p is
    task,       \* task[p]: argument of p's push, result of p's pop
    alive       \* the processes that have not been killed

ring == <<head, tail, nodes>>
vars == <<head, tail, nodes, mutex, slots, items, pc, task, alive>>

Proc == Producer \cup Consumer
Node == 0 .. MaxLength - 1

(* Where a process can be.  "serve" and "handle" are outside the queue.    *)
PushPc == {"serve", "slots", "lock", "write", "advance", "unlock", "post"}
PopPc == {"items", "lock", "read", "advance", "unlock", "post", "handle"}

(* nodes[i].next, as task_queue_create links it. *)
NextNode(i) == (i + 1) % MaxLength

-----------------------------------------------------------------------------
(* task_queue_create; every producer is in its event loop and every        *)
(* consumer enters its first task_queue_pop.                               *)
Init ==
    /\ head = 0
    /\ tail = 0
    /\ nodes = [i \in Node |-> NoTask]
    /\ mutex = 1
    /\ slots = MaxLength
    /\ items = 0
    /\ pc = [p \in Proc |-> IF p \in Producer THEN "serve" ELSE "items"]
    /\ task = [p \in Proc |-> NoTask]
    /\ alive = Proc

Goto(p, from, to) ==
    /\ p \in alive
    /\ pc[p] = from
    /\ pc' = [pc EXCEPT ![p] = to]
    /\ UNCHANGED alive

(* Mutant: sem_trywait instead of sem_wait, its result unchecked. *)
TakeMutexTry(p, to) ==
    /\ Goto(p, "lock", to)
    /\ mutex' = IF mutex > 0 THEN mutex - 1 ELSE mutex
    /\ UNCHANGED <<ring, slots, items, task>>

(* Both operations take and return the mutex around their critical section. *)
TakeMutex(p, to) ==
    /\ Goto(p, "lock", to)
    /\ mutex > 0
    /\ mutex' = mutex - 1
    /\ UNCHANGED <<ring, slots, items, task>>

PostMutex(p) ==
    /\ Goto(p, "unlock", "post")
    /\ mutex' = mutex + 1
    /\ UNCHANGED <<ring, slots, items, task>>

-----------------------------------------------------------------------------
(* task_queue_push *)

CallPush(p, t) ==
    /\ Goto(p, "serve", "slots")
    /\ task' = [task EXCEPT ![p] = t]
    /\ UNCHANGED <<ring, mutex, slots, items>>

WaitSlots(p) ==
    /\ Goto(p, "slots", "lock")
    /\ slots > 0
    /\ slots' = slots - 1
    /\ UNCHANGED <<ring, mutex, items, task>>

LockPush(p) == TakeMutex(p, "write")

(* Mutant: the tail is moved before the node is written. *)
WriteTaskAhead(p) ==
    /\ Goto(p, "write", "advance")
    /\ nodes' = [nodes EXCEPT ![NextNode(tail)] = task[p]]
    /\ UNCHANGED <<head, tail, mutex, slots, items, task>>

WriteTask(p) ==
    /\ Goto(p, "write", "advance")
    /\ nodes' = [nodes EXCEPT ![tail] = task[p]]
    /\ UNCHANGED <<head, tail, mutex, slots, items, task>>

AdvanceTail(p) ==
    /\ Goto(p, "advance", "unlock")
    /\ tail' = NextNode(tail)
    /\ UNCHANGED <<head, nodes, mutex, slots, items, task>>

PostItems(p) ==
    /\ Goto(p, "post", "serve")
    /\ items' = items + 1
    /\ UNCHANGED <<ring, mutex, slots, task>>

PushStep(p) ==
    \/ WaitSlots(p)
    \/ LockPush(p)
    \/ WriteTask(p)
    \/ AdvanceTail(p)
    \/ PostMutex(p)
    \/ PostItems(p)

-----------------------------------------------------------------------------
(* task_queue_pop, called for ever by worker_thread and cycle_worker *)

(* Mutant: the last task is never fetched. *)
WaitItemsKeepsOne(c) ==
    /\ Goto(c, "items", "lock")
    /\ items > 1
    /\ items' = items - 1
    /\ UNCHANGED <<ring, mutex, slots, task>>

WaitItems(c) ==
    /\ Goto(c, "items", "lock")
    /\ items > 0
    /\ items' = items - 1
    /\ UNCHANGED <<ring, mutex, slots, task>>

(* Mutant: pop reads the ring without the mutex. *)
LockPopNoMutex(c) ==
    /\ Goto(c, "lock", "read")
    /\ UNCHANGED <<ring, mutex, slots, items, task>>

LockPop(c) == TakeMutex(c, "read")

ReadTask(c) ==
    /\ Goto(c, "read", "advance")
    /\ task' = [task EXCEPT ![c] = nodes[head]]
    /\ UNCHANGED <<ring, mutex, slots, items>>

AdvanceHead(c) ==
    /\ Goto(c, "advance", "unlock")
    /\ head' = NextNode(head)
    /\ UNCHANGED <<tail, nodes, mutex, slots, items, task>>

(* Mutants: the node is not handed back; slots used as a flag. *)
PostSlotsForgotten(c) ==
    /\ Goto(c, "post", "handle")
    /\ UNCHANGED <<ring, mutex, slots, items, task>>

PostSlotsFlag(c) ==
    /\ Goto(c, "post", "handle")
    /\ slots' = 1
    /\ UNCHANGED <<ring, mutex, items, task>>

PostSlots(c) ==
    /\ Goto(c, "post", "handle")
    /\ slots' = slots + 1
    /\ UNCHANGED <<ring, mutex, items, task>>

(* The worker prints (and echoes) the task and loops. *)
Handle(c) ==
    /\ Goto(c, "handle", "items")
    /\ UNCHANGED <<ring, mutex, slots, items, task>>

PopStep(c) ==
    \/ WaitItems(c)
    \/ LockPop(c)
    \/ ReadTask(c)
    \/ AdvanceHead(c)
    \/ PostMutex(c)
    \/ PostSlots(c)
    \/ Handle(c)

-----------------------------------------------------------------------------
(* SIGKILL, a fault in the process, exit() in a signal handler. *)
Crash(p) ==
    /\ p \in alive \cap Mortal
    /\ alive' = alive \ {p}
    /\ UNCHANGED <<ring, mutex, slots, items, pc, task>>

Next ==
    \/ \E p \in Producer, t \in Task : CallPush(p, t)
    \/ \E p \in Producer : PushStep(p)
    \/ \E c \in Consumer : PopStep(c)
    \/ \E p \in Proc : Crash(p)

Spec == Init /\ [][Next]_vars

(* The scheduler runs every process that is not blocked in sem_wait.  A    *)
(* semaphore wakes any one of its waiters: no process is promised its turn, *)
(* so fairness is weak.  Nothing makes a client send a message (CallPush). *)
FairSpec ==
    /\ Spec
    /\ \A p \in Producer : WF_vars(PushStep(p))
    /\ \A c \in Consumer : WF_vars(PopStep(c))

-----------------------------------------------------------------------------
(* The state of the queue as its users see it *)

(* Producers that own a free node and have not yet linked it in; producers *)
(* whose task is in the ring but not yet announced; and the same two       *)
(* stages of a consumer.                                                   *)
Reserved == {p \in Producer : pc[p] \in {"lock", "write", "advance"}}
Published == {p \in Producer : pc[p] \in {"unlock", "post"}}
Claimed == {c \in Consumer : pc[c] \in {"lock", "read", "advance"}}
Released == {c \in Consumer : pc[c] \in {"unlock", "post"}}

(* The processes between sem_wait(&mutex) and sem_post(&mutex). *)
InMutex == {p \in Proc : pc[p] \in {"write", "read", "advance", "unlock"}}

Length == items + Cardinality(Published) + Cardinality(Claimed)

(* The node k places after the head. *)
NodeAt(k) == (head + k) % MaxLength

Queued == [k \in 1 .. Length |-> nodes[NodeAt(k - 1)]]

(* The task a producer has not linked in yet, the task a consumer has      *)
(* unlinked and is not done with.                                          *)
Offered == [p \in Producer |->
              IF pc[p] \in {"slots", "lock", "write", "advance"}
              THEN task[p] ELSE NoTask]
Taken == [c \in Consumer |->
            IF pc[c] \in {"unlock", "post", "handle"}
            THEN task[c] ELSE NoTask]

Fifo == INSTANCE BoundedFifo WITH
    fifo <- Queued, offered <- Offered, taken <- Taken

-----------------------------------------------------------------------------
(* Properties *)

(* The variables have their types: in particular head and tail stay inside *)
(* the node array and the semaphores never exceed what sem_init gave them. *)
TypeOK ==
    /\ head \in Node
    /\ tail \in Node
    /\ nodes \in [Node -> Task \cup {NoTask}]
    /\ mutex \in 0 .. 1
    /\ slots \in 0 .. MaxLength
    /\ items \in 0 .. MaxLength
    /\ pc \in [Proc -> PushPc \cup PopPc]
    /\ \A p \in Producer : pc[p] \in PushPc
    /\ \A c \in Consumer : pc[c] \in PopPc
    /\ task \in [Proc -> Task \cup {NoTask}]
    /\ alive \in SUBSET Proc

(* At most one process is between sem_wait(&mutex) and sem_post(&mutex) of *)
(* task_queue_push or task_queue_pop, and the mutex is taken exactly while *)
(* there is one (dead or alive).                                           *)
MutualExclusion ==
    /\ \A p, q \in InMutex : p = q
    /\ mutex = 0 <=> InMutex # {}

(* No node of the ring is lost or counted twice, wherever the processes    *)
(* are between sem_wait and sem_post: each is free, reserved by one        *)
(* producer, queued, or popped but not yet handed back.                    *)
SlotAccounting ==
    slots + Cardinality(Reserved) + Length + Cardinality(Released) = MaxLength

(* head and tail enclose exactly the queued tasks: the next push goes to   *)
(* the first node after them.                                              *)
TailFollowsQueue == tail = NodeAt(Length)

(* What is handed over does not change under way: the node a producer has  *)
(* written keeps its task until it is linked in, the head a consumer has   *)
(* read is still the head when it moves on, and only written nodes are     *)
(* queued.                                                                 *)
HandOver ==
    /\ \A p \in Producer :
         /\ pc[p] \in {"slots", "lock", "write", "advance"} => task[p] \in Task
         /\ pc[p] = "advance" => nodes[tail] = task[p]
    /\ \A c \in Consumer :
         /\ pc[c] = "advance" => task[c] = nodes[head]
         /\ pc[c] \in {"unlock", "post", "handle"} => task[c] \in Task
    /\ \A k \in 1 .. Length : nodes[NodeAt(k - 1)] \in Task

(* The inductive invariant of the proofs. *)
QueueInv ==
    /\ TypeOK
    /\ MutualExclusion
    /\ SlotAccounting
    /\ TailFollowsQueue
    /\ HandOver

(* The ring is a bounded FIFO: every task that is read from it was pushed, *)
(* is read once, in the order of the writes, and no write overtakes the    *)
(* readers - also when processes are killed anywhere.                      *)
FifoOrder == Fifo!Spec

(* As long as nobody is killed the fifo is fair: while there is room       *)
(* pushes get through, while there are tasks they are handed out, whatever *)
(* the processes compete for.                                              *)
FifoProgress == [](alive = Proc) => Fifo!Fairness

(* A process that is killed inside an operation leaves its stage of the    *)
(* accounting for ever.  DeadInside are those that can hurt the others.    *)
DeadInside == {p \in Proc \ alive : pc[p] \notin {"serve", "handle", "slots", "items"}}

(* Queue progress: while somebody waits for a task, the oldest task does   *)
(* not stay the oldest for ever (the head of the ring moves).              *)
OldestLeaves == \A i \in Node : (head = i /\ Length > 0) ~> (head # i)

PushersWaiting == \E p \in Producer \cap alive : pc[p] = "slots"

(* A process killed outside task_queue_push/pop, or still blocked in the   *)
(* first sem_wait of one, harms nobody: as long as no process dies in      *)
(* between and one consumer lives, every task leaves the queue.            *)
CrashOutsideHarmless ==
    ([](DeadInside = {}) /\ []<>(alive \cap Consumer # {})) => OldestLeaves

(* A process killed inside an operation, but not holding the mutex, costs  *)
(* the queue one node and no more: while nodes are left and a consumer     *)
(* lives, producers that wait for a node keep getting one.                 *)
CrashCostsOneNode ==
    /\ [](/\ DeadInside \cap InMutex = {}
          /\ Cardinality(DeadInside) < MaxLength)
    /\ []<>(alive \cap Consumer # {})
    => \A i \in Node :
         (tail = i /\ PushersWaiting) ~> (tail # i \/ ~PushersWaiting)

=============================================================================
