--------------------------- MODULE TaskQueueSignal ---------------------------
(***************************************************************************)
(* TaskQueue with signals.  daemon_start installs its handlers without     *)
(* SA_RESTART (nt_phreads.c, sa_flags = SA_SIGINFO) and several of them    *)
(* return (SIGUSR1, SIGALRM, SIGPIPE, SIGINT in a child): a process that   *)
(* is blocked in sem_wait then gets -1 with errno EINTR.                   *)
(* task_queue_push and task_queue_pop never look at what sem_wait returns  *)
(* and go on as if they had the semaphore.                                 *)
(***************************************************************************)
EXTENDS TaskQueue

(* sem_wait(&slots) or sem_wait(&items) fails with EINTR. *)
CountInterrupted(p) ==
    /\ \/ Goto(p, "slots", "lock") /\ slots = 0
       \/ Goto(p, "items", "lock") /\ items = 0
    /\ UNCHANGED <<ring, mutex, slots, items, task>>

(* sem_wait(&mutex) fails with EINTR. *)
MutexInterrupted(p) ==
    /\ mutex = 0
    /\ Goto(p, "lock", IF p \in Producer THEN "write" ELSE "read")
    /\ UNCHANGED <<ring, mutex, slots, items, task>>

SignalNext ==
    \/ Next
    \/ \E p \in Proc : CountInterrupted(p) \/ MutexInterrupted(p)

SignalSpec == Init /\ [][SignalNext]_vars

(* "Wait for an available task" (nt_cycle.c:152): what a worker handles is *)
(* a task some producer pushed, not a node nobody has written.             *)
HandledTaskWasPushed ==
    \A c \in Consumer : pc[c] = "handle" => task[c] \in Task

=============================================================================
