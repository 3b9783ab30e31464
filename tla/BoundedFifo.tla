----------------------------- MODULE BoundedFifo -----------------------------
(***************************************************************************)
(* What the task queue of nt_cycle.c promises its callers: a first-in      *)
(* first-out buffer of at most MaxLength tasks.  task_queue_push takes     *)
(* effect at one instant (Enqueue) between its call (Offer) and its        *)
(* return; task_queue_pop takes effect at one instant (Dequeue) and the    *)
(* caller then owns the task until it is done with it (Finish).  TaskQueue *)
(* is shown to implement this specification.                               *)
(***************************************************************************)
EXTENDS Naturals, Sequences

CONSTANTS
    Producer,   \* processes that call task_queue_push
    Consumer,   \* processes that call task_queue_pop
    Task,       \* the tasks (client, data) that may be queued
    NoTask,     \* "no task": not a member of Task
    MaxLength   \* number of tasks the queue can hold

VARIABLES
    fifo,       \* the queued tasks, oldest first
    offered,    \* offered[p]: the task p is pushing, NoTask if none
    taken       \* taken[c]: the task c owns, NoTask if none

vars == <<fifo, offered, taken>>

Init ==
    /\ fifo = <<>>
    /\ offered = [p \in Producer |-> NoTask]
    /\ taken = [c \in Consumer |-> NoTask]

(* A producer calls task_queue_push with task t. *)
Offer(p, t) ==
    /\ offered[p] = NoTask
    /\ offered' = [offered EXCEPT ![p] = t]
    /\ UNCHANGED <<fifo, taken>>

(* The pushed task becomes the youngest of the queue, if there is room. *)
Enqueue(p) ==
    /\ offered[p] # NoTask
    /\ Len(fifo) < MaxLength
    /\ fifo' = Append(fifo, offered[p])
    /\ offered' = [offered EXCEPT ![p] = NoTask]
    /\ UNCHANGED taken

(* The oldest task leaves the queue and belongs to consumer c alone. *)
Dequeue(c) ==
    /\ taken[c] = NoTask
    /\ fifo # <<>>
    /\ taken' = [taken EXCEPT ![c] = Head(fifo)]
    /\ fifo' = Tail(fifo)
    /\ UNCHANGED offered

(* Consumer c is done with its task. *)
Finish(c) ==
    /\ taken[c] # NoTask
    /\ taken' = [taken EXCEPT ![c] = NoTask]
    /\ UNCHANGED <<fifo, offered>>

AnyEnqueue == \E p \in Producer : Enqueue(p)
AnyDequeue == \E c \in Consumer : Dequeue(c)

Next ==
    \/ \E p \in Producer, t \in Task : Offer(p, t)
    \/ AnyEnqueue
    \/ AnyDequeue
    \/ \E c \in Consumer : Finish(c)

Spec == Init /\ [][Next]_vars

(* The queue as a whole never stands still: it neither refuses room that   *)
(* it has nor keeps a task from consumers that wait for one.  Nothing is   *)
(* promised to an individual process.                                      *)
Fairness == WF_vars(AnyEnqueue) /\ WF_vars(AnyDequeue)

=============================================================================
