------------------------------- MODULE NetServer -------------------------------
(***************************************************************************)
(* net_server of nt_socket.c with its clients, the kernel's epoll, and the *)
(* workers of nt_cycle.c behind the task queue.  The queue is what         *)
(* BoundedFifo promises (TaskQueue implements it).                         *)
(*                                                                         *)
(* Connections are edge-triggered: the kernel reports one only when it is  *)
(* added or something arrives.  The listening socket is level-triggered:   *)
(* it is reported for as long as there are clients to be accepted.         *)
(* A descriptor that is closed is free, and accept takes any free one (the *)
(* kernel the lowest; the process has others that come and go).            *)
(***************************************************************************)
EXTENDS Naturals, Sequences, FiniteSets, SequencesExt

CONSTANTS
    Client,      \* each connects once
    Worker,      \* worker_thread, or cycle_worker
    Fd,          \* the descriptors there are for connections
    MaxLength,   \* MAX_QUEUE_LENGTH
    MaxEvents,   \* MAX_EVENTS
    MaxPieces,   \* bound on what a client sends, in pieces of a buffer
    Signals,     \* signals with a handler that returns may come
    SameProcess, \* the workers are threads of the server: worker_thread
    NoClient, NoTask, Listen, Server

(* A task: who sent it (known to the model only), client_fd, and the       *)
(* process on whose heap data is.                                          *)
Task == [from : Client, client_fd : Fd, heap : {Server}]

ASSUME NetAssumption ==
    /\ NoClient \notin Client
    /\ NoTask \notin Task
    /\ Listen \notin Fd
    /\ IsFiniteSet(Worker)
    /\ MaxLength \in Nat \ {0}
    /\ MaxEvents \in Nat \ {0}
    /\ Signals \in BOOLEAN
    /\ SameProcess \in BOOLEAN

VARIABLES
    fifo, offered, taken, \* of BoundedFifo
    backlog,    \* clients waiting to be accepted, in order
    unread,     \* unread[c]: pieces c has sent that were not read
    sent,       \* pieces c has sent
    shut,       \* clients that have closed their end, or were turned away
    fds,        \* fds[f]: the client at the other end, NoClient if f is free
    ready,      \* what epoll has to report, in order
    pc, conn,   \* of the server: where it is, and its client_fd, or Listen
    events,     \* the events left of this round: [fd, client]
    served,     \* served[c]: tasks of c that workers are done with
    written,    \* <<from, to>>: workers have written data of from to to
    dead,       \* workers that were killed by SIGSEGV
    refused     \* clients turned away after a read that found nothing

queue == <<fifo, offered, taken>>
clients == <<unread, sent, shut>>
server == <<backlog, fds, ready, pc, conn, events>>
losses == <<dead, refused>>
vars == <<queue, clients, server, served, written, losses>>

Q == INSTANCE BoundedFifo WITH Producer <- {Server}, Consumer <- Worker

Init ==
    /\ Q!Init
    /\ backlog = <<>>
    /\ unread = [c \in Client |-> 0]
    /\ sent = [c \in Client |-> 0]
    /\ shut = {}
    /\ fds = [f \in Fd |-> NoClient]
    /\ ready = <<>>
    /\ pc = "wait"
    /\ conn = Listen
    /\ events = <<>>
    /\ served = [c \in Client |-> 0]
    /\ written = {}
    /\ dead = {}
    /\ refused = {}

-----------------------------------------------------------------------------
(* The clients and the network *)

Free(f) == fds[f] = NoClient
FdsOf(c) == {f \in Fd : fds[f] = c}
Unaccepted(c) == c \in ToSet(backlog)
Connected(c) == Unaccepted(c) \/ FdsOf(c) # {}

(* epoll notes that it has f to report, unless it has noted that before. *)
Report(list, f) == IF f \in ToSet(list) THEN list ELSE Append(list, f)
ReportAll(S) == FoldSet(LAMBDA f, list : Report(list, f), ready, S)

(* Every client connects before it does anything else. *)
NeverCame(c) == sent[c] = 0 /\ c \notin shut /\ ~Connected(c)

Connect(c) ==
    /\ NeverCame(c)
    /\ pc # "ended"
    /\ backlog' = Append(backlog, c)
    /\ ready' = Report(ready, Listen)
    /\ UNCHANGED <<queue, clients, fds, pc, conn, events, served, written, losses>>

(* The first piece may be long in coming, and the client may never send. *)
Send(c) ==
    /\ Connected(c) /\ c \notin shut
    /\ sent[c] < MaxPieces
    /\ sent' = [sent EXCEPT ![c] = @ + 1]
    /\ unread' = [unread EXCEPT ![c] = @ + 1]
    /\ ready' = ReportAll(FdsOf(c))
    /\ UNCHANGED <<queue, shut, backlog, fds, pc, conn, events, served, written, losses>>

Shut(c) ==
    /\ Connected(c) /\ c \notin shut
    /\ shut' = shut \cup {c}
    /\ ready' = ReportAll(FdsOf(c))
    /\ UNCHANGED <<queue, unread, sent, backlog, fds, pc, conn, events, served, written, losses>>

(* epoll may report what turns out to be nothing. *)
Spurious(f) ==
    /\ ~Free(f)
    /\ f \notin ToSet(ready)
    /\ ready' = Append(ready, f)
    /\ UNCHANGED <<queue, clients, backlog, fds, pc, conn, events, served, written, losses>>

-----------------------------------------------------------------------------
(* net_server *)

(* epoll_wait reports what is ready, each descriptor once, and at most     *)
(* MaxEvents of them; the others come first the next time.                 *)
EpollWait ==
    LET live == IF backlog = <<>> THEN RemoveFirst(ready, Listen) ELSE ready
        n == IF Len(live) < MaxEvents THEN Len(live) ELSE MaxEvents
        round == SubSeq(live, 1, n)
        later == SubSeq(live, n + 1, Len(live))
    IN
    /\ pc = "wait"
    /\ live # <<>>
    /\ events' = [i \in 1 .. n |-> [fd |-> round[i],
         client |-> IF round[i] = Listen THEN NoClient ELSE fds[round[i]]]]
    /\ ready' = IF Listen \in ToSet(round) THEN Append(later, Listen) ELSE later
    /\ pc' = "next"
    /\ UNCHANGED <<queue, clients, backlog, fds, conn, served, written, losses>>

(* epoll_wait is interrupted: the loop is left, and the process ends.      *)
EpollInterrupted ==
    /\ Signals
    /\ pc = "wait"
    /\ pc' = "ended"
    /\ backlog' = <<>>
    /\ fds' = [f \in Fd |-> NoClient]
    /\ ready' = <<>>
    /\ shut' = shut \cup {c \in Client : Connected(c)}
    /\ UNCHANGED <<queue, unread, sent, conn, events, served, written, losses>>

(* The loop over the events *)
NextEvent ==
    /\ pc = "next"
    /\ IF events = <<>>
       THEN pc' = "wait" /\ UNCHANGED <<conn, events>>
       ELSE /\ conn' = Head(events).fd
            /\ events' = Tail(events)
            /\ pc' = IF conn' = Listen THEN "accept" ELSE "read"
    /\ UNCHANGED <<queue, clients, backlog, fds, ready, served, written, losses>>

(* accept, set_nonblocking, epoll_ctl: EPOLL_CTL_ADD reports at once what  *)
(* has already come.                                                       *)
Accept ==
    /\ pc = "accept"
    /\ backlog # <<>>
    /\ \E f \in Fd :
         /\ Free(f)
         /\ fds' = [fds EXCEPT ![f] = Head(backlog)]
         /\ ready' = IF unread[Head(backlog)] > 0 \/ Head(backlog) \in shut
                     THEN Append(ready, f) ELSE ready
    /\ backlog' = Tail(backlog)
    /\ UNCHANGED <<queue, clients, pc, conn, events, served, written, losses>>

(* accept, then set_nonblocking or epoll_ctl fails: the client is turned   *)
(* away.  Or accept itself fails with ECONNABORTED, which ends the loop.   *)
AcceptFails ==
    /\ pc = "accept"
    /\ backlog # <<>>
    /\ \E f \in Fd : Free(f)
    /\ backlog' = Tail(backlog)
    /\ shut' = shut \cup {Head(backlog)}
    /\ pc' \in {"accept", "next"}
    /\ UNCHANGED <<queue, unread, sent, fds, ready, conn, events, served, written, losses>>

(* accept returns -1: EAGAIN, EINTR, or EMFILE when no descriptor is free. *)
AcceptNone ==
    /\ pc = "accept"
    /\ backlog = <<>> \/ Signals \/ \A f \in Fd : ~Free(f)
    /\ pc' = "next"
    /\ UNCHANGED <<queue, clients, backlog, fds, ready, conn, events, served, written, losses>>

(* close: the connection is gone, whatever it was, and epoll, which has    *)
(* everything at most once, has nothing to report of it.                   *)
Closed(f) == fds' = [fds EXCEPT ![f] = NoClient] /\ ready' = RemoveFirst(ready, f)

(* read returns some of what has come, and that is pushed. *)
Read ==
    /\ pc = "read"
    /\ ~Free(conn)
    /\ unread[fds[conn]] > 0
    /\ \E k \in 1 .. unread[fds[conn]] :
         unread' = [unread EXCEPT ![fds[conn]] = @ - k]
    /\ Q!Offer(Server, [from |-> fds[conn], client_fd |-> conn, heap |-> Server])
    /\ pc' = "push"
    /\ UNCHANGED <<sent, shut, backlog, fds, ready, conn, events, served, written, losses>>

(* read returns -1 with EAGAIN. *)
ReadNothing ==
    /\ pc = "read"
    /\ ~Free(conn)
    /\ unread[fds[conn]] = 0 /\ fds[conn] \notin shut
    /\ pc' = "next" /\ conn' = Listen
    /\ UNCHANGED <<queue, clients, backlog, fds, ready, events, served, written, losses>>

(* The same, but errno is looked at after nt_log, where a call may have    *)
(* failed (rotate_log removes an old file that may not be there), ...      *)
ReadErrnoLost ==
    /\ pc = "read"
    /\ ~Free(conn)
    /\ unread[fds[conn]] = 0 /\ fds[conn] \notin shut
    /\ pc' = "failed"
    /\ UNCHANGED <<queue, clients, backlog, fds, ready, conn, events, served, written, losses>>

(* ... and then the client is turned away, whatever it has sent meanwhile. *)
CloseFailed ==
    /\ pc = "failed"
    /\ Closed(conn)
    /\ shut' = shut \cup {fds[conn]}
    /\ refused' = refused \cup {fds[conn]}
    /\ pc' = "next" /\ conn' = Listen
    /\ UNCHANGED <<queue, unread, sent, backlog, events, served, written, dead>>

(* Mutant: a connection that its client has closed is only left alone. *)
ReadEndLeaks ==
    /\ pc = "read"
    /\ IF Free(conn) THEN TRUE ELSE unread[fds[conn]] = 0 /\ fds[conn] \in shut
    /\ pc' = "next" /\ conn' = Listen
    /\ UNCHANGED <<queue, clients, backlog, fds, ready, events, served, written, losses>>

(* read returns 0, or -1 with another error: EBADF, after the close that   *)
(* follows push.  That a reset discards what was not read is left out.     *)
ReadEnd ==
    /\ pc = "read"
    /\ IF Free(conn) THEN TRUE ELSE unread[fds[conn]] = 0 /\ fds[conn] \in shut
    /\ Closed(conn)
    /\ pc' = "next" /\ conn' = Listen
    /\ UNCHANGED <<queue, clients, backlog, events, served, written, losses>>

(* Mutant: it does not wait, and the task is dropped. *)
PushOrDrop ==
    /\ pc = "push"
    /\ fifo' = IF Len(fifo) < MaxLength THEN Append(fifo, offered[Server]) ELSE fifo
    /\ offered' = [offered EXCEPT ![Server] = NoTask]
    /\ pc' = "close"
    /\ UNCHANGED <<taken, clients, backlog, fds, ready, conn, events, served, written, losses>>

(* task_queue_push; it waits while the queue is full. *)
Push ==
    /\ pc = "push"
    /\ Q!Enqueue(Server)
    /\ pc' = "close"
    /\ UNCHANGED <<clients, backlog, fds, ready, conn, events, served, written, losses>>

(* Mutants: the connection stays open for the rest, which is read now, or  *)
(* at the next event.                                                      *)
CloseNotMore ==
    /\ pc = "close"
    /\ pc' = "read"
    /\ UNCHANGED <<queue, clients, backlog, fds, ready, conn, events, served, written, losses>>

CloseNotYet ==
    /\ pc = "close"
    /\ pc' = "next" /\ conn' = Listen
    /\ UNCHANGED <<queue, clients, backlog, fds, ready, events, served, written, losses>>

(* close(client_fd), and round again *)
Close ==
    /\ pc = "close"
    /\ Closed(conn)
    /\ pc' = "read"
    /\ UNCHANGED <<queue, clients, backlog, conn, events, served, written, losses>>

-----------------------------------------------------------------------------
(* The workers *)

(* worker_thread is a thread of the server; nt_thread_start forks, so that *)
(* cycle_worker and the server have each a heap of its own.                *)
ProcessOf(w) == IF SameProcess THEN Server ELSE w

Pop(w) ==
    /\ w \notin dead
    /\ Q!Dequeue(w)
    /\ UNCHANGED <<clients, server, served, written, losses>>

(* Mutant: the worker closes the connection, as its last comment suggests. *)
WorkCloses(w) ==
    /\ w \notin dead
    /\ Q!Finish(w)
    /\ Closed(taken[w].client_fd)
    /\ served' = [served EXCEPT ![taken[w].from] = @ + 1]
    /\ UNCHANGED <<clients, backlog, pc, conn, events, written, losses>>

(* The task is printed; worker_thread writes it to client_fd, whoever is   *)
(* there now.                                                              *)
Work(w) ==
    /\ w \notin dead
    /\ Q!Finish(w)
    /\ served' = [served EXCEPT ![taken[w].from] = @ + 1]
    /\ written' = IF SameProcess /\ ~Free(taken[w].client_fd)
                  THEN written \cup {<<taken[w].from, fds[taken[w].client_fd]>>}
                  ELSE written
    /\ UNCHANGED <<clients, server, losses>>

(* cycle_worker prints data by a pointer into the heap of the server.      *)
(* Where that leads in its own is not said: to bytes, or out of memory.    *)
WorkDies(w) ==
    /\ w \notin dead
    /\ taken[w] # NoTask /\ taken[w].heap # ProcessOf(w)
    /\ dead' = dead \cup {w}
    /\ UNCHANGED <<queue, clients, server, served, written, refused>>

ServerStep ==
    \/ EpollWait \/ NextEvent \/ Accept \/ AcceptFails \/ AcceptNone
    \/ Read \/ ReadNothing \/ ReadErrnoLost \/ CloseFailed \/ ReadEnd \/ Push \/ Close

Next ==
    \/ \E c \in Client : Connect(c) \/ Send(c) \/ Shut(c)
    \/ \E f \in Fd : Spurious(f)
    \/ ServerStep
    \/ EpollInterrupted
    \/ \E w \in Worker : Pop(w) \/ Work(w) \/ WorkDies(w)

Spec == Init /\ [][Next]_vars

(* The server and the workers run.  The clients owe nothing to anybody,    *)
(* and the queue serves one of the workers that wait.                      *)
Fairness ==
    /\ WF_vars(ServerStep)
    /\ WF_vars(\E w \in Worker : Pop(w))
    /\ \A w \in Worker : WF_vars(Work(w) \/ WorkDies(w))

FairSpec == Spec /\ Fairness

-----------------------------------------------------------------------------
(* Properties *)

(* Every variable has its type. *)
TypeOK ==
    /\ fifo \in Seq(Task) /\ Len(fifo) <= MaxLength
    /\ offered[Server] \in Task \cup {NoTask}
    /\ \A w \in Worker : taken[w] \in Task \cup {NoTask}
    /\ fds \in [Fd -> Client \cup {NoClient}]
    /\ ToSet(ready) \subseteq {f \in Fd : ~Free(f)} \cup {Listen}
    /\ IsInjective(ready)
    /\ conn \in Fd \cup {Listen}
    /\ pc \in {"wait", "next", "accept", "read", "failed", "push", "close", "ended"}
    /\ (pc = "push") <=> (offered[Server] # NoTask)
    /\ \A c \in Client : unread[c] <= sent[c] /\ Cardinality(FdsOf(c)) <= 1

(* No wakeup is lost: when the server goes to sleep in epoll_wait with     *)
(* edge-triggered connections, epoll still has to report every one of them *)
(* on which there is something to be read.                                 *)
NoLostWakeup ==
    pc = "wait" => \A f \in Fd :
        ~Free(f) /\ (unread[fds[f]] > 0 \/ fds[f] \in shut) => f \in ToSet(ready)

(* Tasks of c, from the push to the end of the worker's care. *)
TasksOf(c) ==
    served[c] + Cardinality({i \in DOMAIN fifo : fifo[i].from = c})
      + Cardinality({w \in Worker : taken[w] # NoTask /\ taken[w].from = c})
      + IF offered[Server] # NoTask /\ offered[Server].from = c THEN 1 ELSE 0

(* A connection makes one task, and is closed for it: no client keeps a    *)
(* descriptor, or the workers, for itself.  (And every variable has its    *)
(* type.)                                                                  *)
OneTaskEach ==
    /\ TypeOK
    /\ \A c \in Client :
         /\ TasksOf(c) <= 1
         /\ TasksOf(c) = 1 /\ FdsOf(c) # {} => pc \in {"push", "close"}

(* An event is handled for the connection that it was reported for,        *)
(* although connections are closed and descriptors are given out again     *)
(* while the events of a round wait their turn.                            *)
EventsFresh ==
    \A i \in DOMAIN events :
        events[i].fd # Listen => fds[events[i].fd] = events[i].client

(* The worker that had the task of c is dead, or all are, when the server  *)
(* waits in push in the end.                                               *)
Bereft(c) == dead = Worker \/ \E w \in dead : taken[w].from = c

(* Whoever has sent something on a connection that was accepted is served, *)
(* unless a signal ends the server, the task takes its worker with it, or  *)
(* the connection is closed after a read that found nothing.               *)
SentIsServed ==
    \A c \in Client :
        (FdsOf(c) # {} /\ sent[c] > 0) ~>
          (served[c] > 0 \/ c \in refused \/ Bereft(c) \/ pc = "ended")

(* A client that goes away leaves no descriptor behind: net_server closes  *)
(* its end too, if a worker is left.                                       *)
ShutIsClosed ==
    \A c \in Client : (c \in shut /\ FdsOf(c) # {}) ~> (FdsOf(c) = {} \/ dead = Worker)

(* nt_socket.c:232: a connection is closed after an error of read, and not *)
(* with data of the client still to be read.                               *)
NothingDiscarded == \A c \in refused : unread[c] = 0

(* nt_cycle.c:185: a worker echoes the data to the client. *)
EchoToSender == \A e \in written : e[1] = e[2]

(* nt_phreads.c:271: SIGINT is ignored in children, and the server is one. *)
ServerStays == pc # "ended"

(* nt_cycle.h:47: the data of a task are what was received, which a worker *)
(* can read.                                                               *)
DataReadable ==
    \A w \in Worker : taken[w] # NoTask => taken[w].heap = ProcessOf(w)

=============================================================================
