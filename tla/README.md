# A TLA+ verification of nt_shm

nt_shm is a small C code base for a multi-process server: a shared memory task
queue between a network server and its workers, a shared memory allocator with
hash sets, hash maps and heaps on top of it, System V locks, a log file shared
by the processes, and the signal and daemon plumbing around them.  These
modules state what the parts promise, model how the code does it, check the
models with TLC and prove the most important results with TLAPS.

Contents: 1 inventory, 2 plan, 3 the modules, 4 the runs, 5 fairness,
6 the proofs, 7 what the code does otherwise than it says, 8 what is not modelled.

## 1. Inventory

### Components and their state

| component | source | state | operations |
|---|---|---|---|
| Task queue | `nt_cycle.c` | in POSIX shared memory: a ring of `max_length` nodes, `head`, `tail`, semaphores `mutex`, `slots`, `items` | `task_queue_create/open/destroy`, `task_queue_push/pop`, the loops `worker_thread`, `cycle_worker` |
| Network server | `nt_socket.c` | listening socket, epoll set, open connections | `net_server`: accept loop, read loop, one push per message |
| Shared memory allocator | `nt_mem.c` | a memory segment tiled by chunks with boundary tags, lists of free chunks by size, byte counts | `nt_mem_create`, `malloc`, `realloc`, `free`, `clear`, `dump_stats`, `required_size` |
| Hash set | `hashset.c` | slots of singly linked entries, `num_slots`, `num_data`, iterators | create, insert, search, remove, remove by pointer, clear, iteration, key/value wrappers |
| Hash map | `nt_hashmap.c` | slots of entry arrays | create, get, set, remove, clear, string-keyed wrappers |
| Binary heap | `nt_binaryheap.c` | array of elements, with the DIRECT option a hash map from key to index | create, insert, update, remove, find and remove the minimum |
| Linked list | `ddl.c` | doubly linked list with head, tail, insertion point `curr`, cursor `pos`, count | init, insert first/last, delete, iterate, move the cursor, destroy |
| Hashes, comparisons, primes | `nt_algodefs.c` | none | hash and compare functions, `next_prime`, `isqrt32` |
| Locks | `nt_mutexs.c` | a System V semaphore set, a count of locks created | create, lock, unlock, destroy |
| Log | `nt_log.c` | the log file, its size at the last message, the saved signal mask | open, message, rotate, close |
| Processes and signals | `nt_phreads.c` | signal dispositions, `sig_parent_pid`, `sig_exiting` | fork, handlers, daemon start and stop |
| PID file | `nt_phreads.c` | the file, its record lock | create, drop |
| Cache set-up | `nt_shm.c` | up to five pools, the containers in them, the locks and their numbers | `init_cache`, `init_sync_cache`, `init_trend_cache`, `init_nt_map`, `free_sync_cache` |
| Wire protocol | `nt_ptcl.c` | a frame, a SHA-1 context | `ntptcl_send`, `ntptcl_handle`, `SHA1Init/Update/Final/Transform` |
| Utilities | `common.c`, `fatal.c` | an alarm flag | strings, time, allocation with retries, crash report |

### How they interact

`main` (`nt_shm.c`) is meant to create the queue, fork `net_server` and some
workers with `nt_thread_start` (a fork in spite of its name), and wait for
them; that part of `main` is under `#if 0` at this commit, and what runs is
the cache set-up.  The functions are all compiled, and the modules are about
them, put together as the disabled lines put them together.

- `net_server` calls `task_queue_push`, workers call `task_queue_pop`: shared
  memory and three POSIX semaphores.
- All processes call `nt_log`, from their programs and from their signal
  handlers: one System V semaphore (with `SEM_UNDO`) and one file.
- The kernel calls the signal handlers, at any point where the signal is not
  blocked, and interrupts `sem_wait`, `semop` and `epoll_wait`.
- Hash sets, hash maps and heaps get their memory from function pointers, which
  for the caches lead to `nt_mem.c`; an allocation may fail, or end the process.
- A heap with the DIRECT option calls the hash map.

### What is hard here, and what makes each part correct

| component | hard behaviour | correct when |
|---|---|---|
| Task queue | interleaving of any number of processes at every semaphore and memory access; processes killed in between; addresses that differ between processes; interrupted waits | it is a bounded FIFO; a death costs at most what it must; a process is led out of its mapping for no reason but those of create and open |
| Network server | edge-triggered events; descriptors that are reused while events and tasks still name them; one thread that accepts, reads and blocks in push | no connection is forgotten, none serves twice, no event reaches another connection |
| Allocator | long sequences of calls; exact sizes; splits and merges; the last resort of realloc | chunks tile the memory, lists and counts agree with them, blocks keep their contents, calls fail only when they must |
| Hash set, hash map | growth in place; removal during iteration; failing allocations | a dictionary; an iteration returns each entry once |
| Binary heap | replacement of removed elements, the index kept by swaps | a priority queue; the index names every place |
| Log, locks, signals | handlers that log inside a process that logs; deaths in the critical section; two processes that rotate at once | the lock is never lost nor waited for by its holder, rotation loses nothing, SIGTERM ends a process |
| PID file | starts, failures and deaths between lock, close and reopen | one daemon runs, the file names it |
| Linked list | four pointers of the head that every insert and delete has to keep up | the links of both directions agree with the head, the list is a sequence with a cursor |
| Cache set-up | set-ups that fail half-way and are gone past; locks created and destroyed without being paired, where the last destroy removes all of them | each container lies in the pool its functions allocate from; the log's lock is there while the log is open |
| Wire protocol | blocks that are exactly full, paddings that need another block, a count in two words, offsets computed twice | the hash is that of FIPS 180 for every length and every way of feeding it; a frame comes apart as it was put together |

`PROJECT.json` lists the hazards line by line with the properties that would catch them.

## 2. Plan

The order of the modules follows what the system depends on most: the queue
with its abstract specification and proofs; how processes come to share it;
the allocator with the layout of its segment; log, locks and signals; the
server over the abstract queue; PID file; the containers; the set-up of the
caches; the wire protocol.  What composes what:

| module | uses |
|---|---|
| `TaskQueue`, `TaskQueueSignal` | implement, or extend, the queue; `TaskQueue` refines `BoundedFifo` |
| `NetServer` | an instance of `BoundedFifo` as its queue |
| `MemAlloc` | `MemLayout` for where the first chunk lies; refines `MemPool` |
| `HashSet`, `HashMap` | `Primes` for the number of slots; refine `Dictionary` |
| `Containers` | `HashSet`, `HashMap`, `BinaryHeap` (refines `PriorityQueue`), `DdlList` (refines `CursorList`) side by side |
| `DaemonFile` | `PidFile`, under names of its own, for the proofs about it |
| `Ptcl` | `Sha1`, which uses `Sha1Block` |

All of these are written and checked, and eight modules hold proofs.  Every
safety property a run checks is proved but `FrameRoundTrip` (section 6).  What
would add most from here: the key/value wrappers of the set and the string
wrappers of the map, and a model of `net_server` that reads a message in parts.

No module that is proved about declares a RECURSIVE operator.

## 3. The modules

### TaskQueue, BoundedFifo, MCTaskQueue, TaskQueue_proofs

`TaskQueue` has the fields of `cycle_t` (`head`, `tail`, `nodes`, the values of
the three semaphores) and of every process where it is (`pc`) and its `task`.
Nodes are known by their index and `next` is `NextNode`, as `task_queue_create`
links it.  Every `sem_wait`, `sem_post` and every access to the ring is an action:

| C (`nt_cycle.c`) | action | C | action |
|---|---|---|---|
| call of push | `CallPush` | `sem_wait(&items)` | `WaitItems` |
| `sem_wait(&slots)` | `WaitSlots` | `sem_wait(&mutex)` | `LockPop` |
| `sem_wait(&mutex)` | `LockPush` | `*task = head->task` | `ReadTask` |
| `tail->task = task` | `WriteTask` | `head = head->next` | `AdvanceHead` |
| `tail = tail->next` | `AdvanceTail` | `sem_post(&mutex)` | `PostMutex` |
| `sem_post(&mutex)` | `PostMutex` | `sem_post(&slots)` | `PostSlots` |
| `sem_post(&items)` | `PostItems` | the worker's loop body | `Handle` |

`Crash` kills a process of `Mortal` anywhere; nothing is undone.
`BoundedFifo` is what the callers may rely on.  The refinement takes a push to
happen at `AdvanceTail` and a pop at `AdvanceHead`.
`TaskQueueSignal` adds what `TaskQueue` leaves out: `sem_wait` that returns
`EINTR` because a handler ran, which push and pop do not look at.

### QueueSharing, QueueSharing_proofs

Create, open, destroy and fork, with the pointers `head`, `tail` and `next` as
the addresses they are.  A process that follows a pointer of another address
than its own mapping, or NULL, is killed (`killed`) with the mutex taken.  Push
and pop are single actions here (justified by `FifoOrder` for a queue that nobody
initialises again).  Nothing is assumed of the callers: any process may create,
which makes an object or initialises the one that is there (`shm_open` has no
`O_EXCL`), any may open, at any address (`mmap` is asked for none), and also
while a create is under way.  A create is in three steps, `Create` (shm_open,
ftruncate, mmap), `InitSems` and `LinkRing`, and may fail after it has made the
name (`CreateFails`).  `Relink` is one turn of the loop of `task_queue_open`,
which writes `next` without the mutex.  What was pushed and not popped, where the
queue was mapped and how often it was created is history (`fifo`, `spots`,
`creates`, `over`).

### MemAlloc, MemLayout, MemPool, MemAlloc_proofs

The heap is a record (sizes, used chunks, list links, bucket heads, counts, contents);
`mem_link_chunk`, `mem_unlink_chunk`, `__mem_malloc`, `__mem_free` and the branches of
`__mem_realloc` are operators from heaps to heaps, and an action is one call of
`nt_mem_malloc`, `nt_mem_realloc`, `nt_mem_free` or `nt_mem_clear`.  Addresses
and sizes are the byte numbers of the code.  Linking a chunk destroys what its
memory held (`Junk`), so that a realloc that frees before it saves is seen.
`MemPool` is a set of disjoint blocks with contents.  `MemLayout` is the
arithmetic of `nt_mem_create`: where the info record, the bucket pointers, the
names and the first chunk lie in the segment, and what `nt_mem_required_size`
says a segment must have; `MemAlloc` starts from its `Total`.  `DumpStats` is
what `nt_mem_dump_stats` derives from the byte counts and the lists.

### NetServer, NetServer_proofs

`net_server` is a program counter over the calls of its loop (wait, next event,
accept, read, push, close); clients connect, send and leave at any time; epoll
keeps a list of what it has to report.  The queue is an instance of
`BoundedFifo`.  Accept may take any free descriptor, `epoll_wait` may be
interrupted, `accept` and `epoll_ctl` may fail.  A `read` that finds nothing, the
`nt_log` after it (which may overwrite `errno`) and the `close` are steps of their own
(`pc = "failed"` in between), and clients go on sending.  A worker that follows the `data`
of a task into the heap of another process may be killed (`WorkDies`); it may
also find memory of its own there.

### SharedLog, Processes_proofs

Processes are stacks of frames: the program, and handlers that interrupted it.
The frame on top runs `nt_handle_log`, `lock_log`, `rotate_log`, the write and
`unlock_log` call by call.  The state has the semaphore with the undo the kernel
keeps for each process, the signal masks and the one static `orig_mask` of each
process, pending signals, and the sizes of the log and of its `.old` file.  The
`Skip` is a call whose level is not logged, and the size of the log may stay as it
was when a message is written (`fopen` failed).  The
handlers are those of `nt_set_common_signal_handlers` (parent) and of the same
with SIGCHLD (`set_daemon_signal_handlers`), as `daemon_start` installs them.

### PidFile, DaemonFile, Processes_proofs

The path, the files that were created, their contents and record locks, and the
daemons with a program counter over the calls of `create_pid_file` and
`drop_pid_file`; `open` and `fopen` may fail (`OpenFails`).  `Leftover` is a daemon
that was killed before and left its file, or nobody.  `DaemonFile` gives the variables other names, so that the
proofs can stand beside those about the log.  A record lock is gone when its process closes any descriptor of the file.

### HashSet, HashMap, Primes, Dictionary

Tables as functions from slot numbers to sequences of entries.  The rehash in
place moves entry by entry, in the order of the code, as recursive functions
(`MoveOut`, `Rehash`).  `Primes` is `next_prime`, from which both take the
number of slots they start with and grow to.  `Dictionary` is a partial function from keys to values; the set keeps
the first value of a key, the map the last; 0 is a value like any other, though
`nt_hashmap_get` returns 0 for an absent key, too.  Allocations of the set that fail
are actions of their own (`Oom`).

### BinaryHeap, PriorityQueue

The array as a sequence, `key_index` as a function.  A turn of a sift loop is
`Rise` or `Sink`; the loops (`BubbleUp`, `BubbleDown`) are recursive functions
that take as many turns as there are elements, the last of which move nothing.
`direct` chooses the option.  `absent` is what `nt_hashmap_get` returns for a
key that is not there: the compiled one (`nt_hashmap.c:129-152`) returns 0, with
which every insert with the DIRECT option is refused (section 7); the heap was
written for `FAIL` (the variant under `#if 0`, `nt_hashmap.c:104-127`).  What is
checked and proved holds for both; what it says of non-empty heaps with the
option is about the second only.  Heaps without the option work with either, and
the mutants of `HeapInv` and `HeapIsPriorityQueue` break those.  `PriorityQueue` is a bag of elements.

### DdlList, CursorList

Nodes with `next` and `prev`, and the four pointers of the head.  Every
operation is an action, with the crash of an insert at the end after the node
it would link to has been deleted, and of moving the cursor of an empty list.
`CursorList` is a sequence with a cursor, and the list refines it along the
walk from the entry.  `ddl.h` promises nothing, so that deleting the first element
empties the sequence is taken from `ddl.c:182-190`: what the refinement adds to it
is that all other calls change nothing but what they are called for.

### CacheSetup, CacheSetup_proofs

`main` and the functions it calls, system call by system call, each of which may
fail.  `main` has text under `#if 0`, so it is read in three ways (`build`):
*live*, what the compiler sees; *map*, with `init_nt_map`; *server*, with the
locks and the log set up before the caches and with `free_sync_cache` and
`nt_close_log` at the end.  These two have no callers at this commit, and the
worker loop that stands before them is left out, since it never ends.  Locks
are numbers of semaphores of one set with a count (`mutexes`, an unsigned
char), pools are segments, and `made` says in which pool a container allocates.

### Sha1Block, Sha1, Ptcl, Sha1_proofs

`Sha1Block` is `SHA1Transform`: a word is the set of its bits, the schedule and
the rounds are folds.  `Sha1` is `SHA1Update` and `SHA1Final` with the buffer
and the two words of the count; `stream` and `blocks` are history.  `Ptcl` puts
`ntptcl_send`, a wire that may change one byte, and `ntptcl_handle` round it.  A
frame is a sequence of bytes, with the fields at the offsets of `struct ntptcli`.

### Containers, MCContainers, Containers_proofs

The containers share nothing, so one run takes them all: each behaviour is about
one of the four, and the steps of one leave the others as they are.  The keys of the heap and the addresses of the list are told
apart by nothing, and its `VIEW` says so.  `Containers_proofs` proves of each
container what its module says, as theorems about `Containers`.

## 4. The runs

All runs take a few seconds to two minutes.  Every property has a mutant: a
changed definition of the model, as a plausible error in the C code would have
it, under which the run finds the property violated.

| run | instance | distinct states | what it shows |
|---|---|---|---|
| `queue_safety` | 2 producers, 2 consumers, 2 nodes, 2 tasks, all may be killed; symmetry | 238k | exclusion, node accounting, the inductive invariant, and that the ring implements `BoundedFifo` whoever dies |
| `queue_crash` | the same with one task, fair | 83k | a death outside push and pop hurts nobody; inside, off the mutex, it costs one node; with nobody killed the FIFO is fair (so nobody deadlocks) |
| `sharing` | 2 processes that create or open, a forked one, 2 addresses, 2 objects of 2 nodes, 1 task; symmetry | 3.0M | pointers lead out of a mapping only for a known reason, and a queue created once keeps its tasks, however it is opened, relinked, destroyed and made again elsewhere |
| `mem` | 224 bytes, 3 buckets, 5 request sizes, 2 contents | 39k | tiling, merging, lists, counts, exact failures, and that the allocator implements `MemPool` |
| `log` | parent and child, limit of 1 message, 2 signals, both may be killed, fair | 117k | the lock and its undo, no self-deadlock, masks, rotation, SIGTERM ends, the parent follows its child |
| `net` | 3 clients, 2 descriptors, queue of 1, 1 worker, 2 events a round, 1 piece from a client, fair | 271k | no lost wakeup, one task per connection, fresh events, service, no descriptor leak |
| `pid_alone` | 4 daemons, 4 files, one start or stop at a time | 30k | one runs, the file names it, a start fails only because one runs |
| `containers` | a hash set of 5 keys (2 of one hash), 2 values (one of them 0), 2 to 11 slots; a hash map of the same, 2 to 7 slots, arrays from 1 entry; a heap of 7 elements with 3 data, both options; a list of 6 nodes whose count wraps at 4 | 28k | entries in place, iteration with removal, `get` exact, dictionaries; heap order, exact index, priority queue; both directions of the list agree, sequence with a cursor |
| `setup` | the three readings of `main`, every call may fail | 248 | the log keeps its semaphore, and what init reported made is in its pool |
| `wire` | 7 messages of 0 to 200 bytes in pieces of 1, 63, 64 and 130; 3 payloads, 5 places to damage | 16k | FIPS 180, with the digests that others publish, and frames taken apart |
| `queue_signal` | 1 producer, 1 consumer | violation | see section 7 |
| `pid_race` | 2 daemons that start together over the file of a killed one | violation | see section 7 |

Why the bounds are enough for what they are used for.  *Queue*: two of each
role give every conflict of two processes on each semaphore; two nodes let the ring
be empty, full, and wrap round; larger instances are covered by the proofs.
*Sharing*: a foreign pointer takes two addresses, a second create two processes
of one object, or one that destroys what the other has mapped and makes another,
and a half-done loop of `task_queue_open` two nodes; that the tasks keep their
order, which one task does not show, is proved.  *Memory*: six chunks are more than any operation touches
(a chunk, both neighbours, and the list neighbours of each); requests
hit each bucket, the exact fit, and a rest that is one unit too small; list
pointers occupy 16 of at least 24 bytes as in the code.  *Log*: the lock has
one holder and one waiter; handlers nest through both processes' signals; the
limit of one message makes every second write rotate.  *Net*: one client more
than descriptors makes accept fail and a number be reused while two events wait;
a full queue is one task, while the worker has the one before, or is dead; what a
client sends after its first piece is covered by the proofs.  Clients differ by
their names only, so the run looks at those behaviours in which they connect in
one order (`OrderedSpec` of `MCNetServer`): any other is one of these with other names.
*PID file*: a running daemon, one killed before
it, one that fails, one after.  *Containers*: the table grows four times and
entries move both to slots already visited and to slots still to come; a
heap of six is the least in which a replacement must move up; a list of six has
nodes before, at, between and after the cursor and `curr`.  *Set-up*: there is
no bound: the sizes are four times what a container takes away, and a proof
covers all others.  *Wire*: lengths on both sides of a block and of the 56
bytes after which a padding needs another; `WordModulus` is 1024 in place of
2^32, so that the count carries into its second word at 128 bytes; the
uninitialized buffer holds one value (`Junk`), because the proof covers any.

A bound is never the reason why a run ends: `MaxPieces`, `MaxSend`, `MaxFile`,
`MaxObject`, `MaxElems` and `Limit` are guards on what the environment does,
and are named in the modules.  `CHECK_DEADLOCK FALSE` stands where the
system may stop (everybody served, killed, ended or exited); in `queue_crash`,
`FifoProgress` says that the queue itself does not block while nobody is killed.

## 5. Fairness

Weak fairness of each process's own steps says that the scheduler runs it.
*TaskQueue*: per process; no process is promised a semaphore (sem_wait of two
processes competes), so progress is stated of the queue and not of each
process; `CallPush` is not fair: clients need not send.  *NetServer*: the
server, the workers that have a task (to be done with it, or to die of it), and
some worker that waits; clients owe nothing.  *SharedLog*: a process goes on with
its own steps (`Step`, `Skip` among them);
strong fairness of `Lock`, since System V semaphores wake
waiters in turn, and of the delivery of SIGTERM, since a pending signal is
delivered when `sigprocmask` unblocks it, however often it is blocked again;
SIGCHLD is never blocked and needs weak fairness only.  Nothing is fair about
SIGINT, kills, calls of `nt_log` or spurious events.

## 6. The proofs

Eight modules hold proofs.  Each theorem is for every value of the constants that
the named assumption of its module allows.

`TaskQueue_proofs` holds for every finite set of producers and consumers, any
set of mortal processes, every set of tasks and every `max_length` > 0
(`QueueAssumption`).  The safety results include processes killed anywhere.

- `Invariance`: `Spec => []QueueInv`.  Mutual exclusion is not inductive
  without the count of who is where, and the FIFO order is not without knowing
  where `tail` is; `QueueInv` is therefore the types, `MutualExclusion`,
  `SlotAccounting` (free + reserved + queued + being returned = `max_length`),
  `TailFollowsQueue` (`tail` is `Length` nodes after `head`) and `HandOver` (the
  node written is the one linked, the head read is the one unlinked, queued
  nodes are written).  There is one lemma per action.  They rest on lemmas about
  the arithmetic of the ring (`NodeAtType`, `NodeAtDistinct`: the nodes of one
  turn differ, so writing `tail` leaves queued nodes alone; `NodeAtNext`,
  `NodeAtHeadMoves`) and about the cardinalities of the stages (`Stages`, `Enter`, `Leave`).
- `TypeCorrect`, `RingIsExclusive`, `NoNodeIsLost` follow from it.
- `RingIsFifo`: `Spec => FifoOrder`.  `InitFifo` maps the initial state;
  `StepFifo` maps `CallPush` to `Offer`, `AdvanceTail` to `Enqueue`
  (`AdvanceTailFifo`: there is room, and exactly the task is appended),
  `AdvanceHead` to `Dequeue` (`AdvanceHeadFifo`), `Handle` to `Finish`, and all
  other steps, crashes included, to stuttering.

- `MemAlloc_proofs` (segments and bucket limits of every size `LayoutAssumption`
  and `MemAssumption` allow, any requests and data, both values of `AllowOom`):
  - `InitialChunk` and `RequiredSizeSuffices` are about the layout, for every
    base, every segment and every length of the names: the bytes that
    `nt_mem_required_size` allows for alignment are enough, wherever the segment
    is attached.  That is what `Init` starts from.
  - `ChunksTile`, `ListsHoldTheFree` and `KeepsData`.  The invariant (`HeapInv`)
    takes the heap apart: the sizes are aligned (`Sizes`), the chunks tile
    the memory (`Tiled`), no two free ones are neighbours (`Merged`), and the
    lists hold exactly the free ones (`Listed`).  It does not hold within a
    call, where a chunk is out of its list before it is used or merged, so the
    lemmas about the helpers are of a heap with some chunks `Loose`.  Whatever a
    call does to sizes is a split (`CutKeeps`) or a merge (`JoinKeeps`); what it
    does to lists is `UnlinkKeeps` and `LinkKeeps`.  `FindIs` says that the
    chunk found is free and big enough, and each call ends in a heap that has
    one block more, one less, or one of another size, and all other blocks with
    their data: that is a step of `MemPool`.
  - `CallsFailOnlyWhenTheyMust` needs more of the lists than `ListsOk` says:
    free chunks that form a ring of their own, off every bucket, satisfy it, and
    no search would find them.  So `Listed` has the lists `Ordered`: chunks can
    be numbered so that `next` leads upwards.  From that the walk along a bucket
    meets every chunk of it, and none twice (`WalkMeets`), and what
    `FindChunk` does not find is not there (`NothingIsMissed`).  `FreedIs` says
    that `__mem_free` makes one chunk of exactly the size `__mem_realloc`
    computes before it (`FreedSize`), so its last resort fails only when it must
    and never finds itself without a chunk.
  - `StatsAreExact`: the invariant (`Counted`) is that `used_size` is the sum of
    the used chunks, and that both counts and 16 bytes for each chunk are the
    whole memory.  A call only moves bytes between the counts and the size
    fields (`Moved`): `CarveMoves`, `FreeMoves`, `GrowMoves`, `ShrinkMoves`, each from
    the assignments the code makes and the number of chunks it adds or takes
    away.  Since the chunks fill the memory (`TilesAddUp`), `free_size` is the
    sum of the free ones; since each is met in one bucket (`BucketsAddUp`),
    `nt_mem_dump_stats` reports what there is.

- `NetServer_proofs` (any clients, any finite set of workers, any descriptors
  and queue length): `WakeupsAreKept`, `OneTaskPerConnection`, `EventsStayFresh`.
  The invariant (`NetInv`) has four parts besides the types.  `Places`: a client
  waits in the backlog once or has one descriptor, and epoll reports each open
  descriptor at most once.  `Round`: the events that are left of a round are of
  different descriptors, none of them the one being handled, and each descriptor
  is still whose it was when the event was made - a number that is given out
  again is never in an event, because only the one being handled is closed.
  `Wakeups`: a connection that can be read is in the ready list, or among those
  events, or being handled.  `Single`: who has a task has sent something, has
  only this one, and its connection is closed or about to be.  `EventsFresh` is
  not inductive without the first two, `OneTaskEach` not without the last.
  `ServerUsesQueue` says that the server and the workers use the queue as
  `BoundedFifo`, so what `RingIsFifo` says of `task_queue_push` and
  `task_queue_pop` is all they need of it.

- `Processes_proofs`, `PidFile` (`Overlap = FALSE`, any number of daemons and files,
  with or without a file that was left over):
  `OneRunsAlone`, `FileNamesDaemonAlone`, `FailsOnlyIfRunningAlone`.  The
  invariant says where the one daemon that starts or stops has got to, that a
  record lock belongs to whoever has the file open, and that who runs holds the
  lock of the file the path names.

- `CacheSetup_proofs` (every `Server` and all sizes): `SetUpIsRight` by an
  invariant that says, for each `pc`, which pools and containers are there
  (`SetUpInv`).  `LogLockKept` adds an invariant of counting (`LockInv`): at
  each `pc` it gives the value of `mutexes` from the locks taken and dropped up to
  there, which is why `cache_ids_lock`, destroyed and never created, makes up
  for `sync_lock`, created and never destroyed.

- `Sha1_proofs` (messages of every length, pieces of every size, words of any
  modulus that 512 divides): `HashIsExact`.  The invariant (`HashInv`) relates
  the buffer, the count and the blocks to the bytes taken in so far; most of the
  work is arithmetic - what division and remainder do to a sum, that the
  padding ends on a block - and concatenation of sequences.  For a frame,
  `FrameOk` and `SentOk` say that the length read is the length written.

- `Processes_proofs`, `SharedLog` (any set of children, any limit, any mortal processes):
  `LockIsAccounted`, `NoDeadlockWithItself`, `MaskIsRestored`, `OldFileIsFull`.
  The invariant is about whole stacks of frames (`StackOk`): a signal that
  interrupts is not blocked by any frame below, so only the top frame, or the
  one under a handler of SIGCHLD that will never return, is between blocking and
  restoring.  With that one `orig_mask` is enough (`MasksOk`), semaphore and undo
  count the same frame (`LockOk`), and nobody renames a log that another has
  renamed since its size was asked for (`FilesOk`).

- `QueueSharing_proofs` (any processes that create, open, inherit and destroy, at
  any addresses, in any order; any number of objects and nodes): nothing is
  assumed of the callers.  `FaultsAreExplained`: who is led out of its mapping
  opened the queue before it had a tail, or uses one that was put at two addresses
  since its create.  The invariant (`SharingInv`) says, of every stage of a
  create or an open, which addresses can be found in an object: those it was put at
  (`spots`), and NULL only until a create is through.  Its part about names
  (`NameOk`) is what lets a destroy and another object under the name alone.
  `TasksAreKept`: a queue that was created once holds what was pushed and not
  popped, whoever opens it and wherever.  `TasksInv` adds that the nodes are
  linked in a ring, at whatever addresses and in any turn of the loop of
  `task_queue_open`, that the nodes from `head` up to `tail` have the tasks, and that
  slots and items, and the one a dead process took from the count, are as many as the nodes.

- `Containers_proofs` (any keys, values and nodes, any hash, any sizes that the
  assumptions of the four modules allow, failing allocations included):
  - *List*: `ListIsAList`, `ListImplementsSequence`.  The invariant (`ListInv`)
    is that there is one sequence of nodes without repetition that `next` follows
    from the entry and `prev` follows from the tail; `tail` is its last node,
    `curr` that or NULL, and the cursor one of its nodes.  Each call ends in such
    a sequence again: one longer at either end, one without the node deleted, or,
    as the code has it when the first node goes, the empty one.
  - *Primes*: `NextPrimeIs`, `NextPrimeIsLarge`: there is a prime above every
    number (`PrimeAbove`: the least divisor above 1 of a multiple of everything up
    to it, plus one), so the search of `next_prime` ends, and with a number no
    less than the one it was given; the tables grow when they mean to.
  - *Hash set*: `SetFindsAll`, `SetIteratesAll`, `SetImplementsDictionary`.  A
    table is `Good` if it has no key twice and right if every entry is
    `InItsSlot`.  The latter fails in the middle of a rehash, which moves
    entries to slots that are still to come, or that it has been to already.
    `SetMoveOut` therefore says of one turn that nothing is lost, and that an
    entry of any slot belongs there or has not been looked at; `SetRehash`
    adds up the turns.  For the iterator the invariant (`SetIter`) says what is
    still to be returned: the rest of the chain after the entry at hand, and all
    slots to come; removing the entry at hand changes neither.
  - *Hash map*: `MapGetsAll`, `MapImplementsDictionary`, by the same lemmas
    about tables; its chains are arrays (`MapArray`: no more entries than were
    allocated), an entry that goes is replaced by the last of its array
    (`LastTakesPlace`), and the load is below `CritLoadFactor`.
  - *Binary heap*: `HeapStaysInOrder`, `HeapImplementsQueue`.  Between two calls
    the array is in order, its keys differ, and the index names all places
    (`HeapArray`).  Within a call one element is out of place, and the index
    may not know it yet (`IndexBut`): a rising one may be less than its parent
    and greater than its children (`LooseAt`), a sinking one only the latter
    (`HeavyAt`).  Both need what the order alone does not say: that the children
    of that place are no less than its parent (`Spanned`), for these become
    parent and children when the element moves on.  `RiseKeeps` and `SinkKeeps`
    are about one turn, `BubbleUpIs` and `BubbleDownIs` about the loops, and
    `SettleIs` about up, and if that moves nothing, down, which is enough
    wherever a replacement comes from.  In an array in order the first element
    is a least one (`FirstIsLeast`).

The prover has no induction over data.  Where a sum, a walk, a loop or a ring
takes one, the proof looks at a least number, or a smallest set, of which the
claim would be false (`LeastOf`, `SmallestSet`); the recursive functions of the
model are first shown to exist (`SumsExist`, `WalkExists`, and within
`SetMoveOut`, `SetRehash`, `MapRehash`, `BubbleUpIs`).

Only model-checked: `FrameRoundTrip` (that a damaged frame is noticed is
true of the frames of the run and not of all, as of every digest); and liveness
and fairness of all (`FifoProgress` and the crash properties of the queue,
`TermEnds`, `ChildEndsParent`, `SentIsServed`, `ShutIsClosed`), which the prover does not reach.

## 7. What the code does otherwise than it says

Two disagreements have a run that finds them.

- `queue_signal` / `HandledTaskWasPushed`: `task_queue_pop` ignores the result
  of `sem_wait`; a handler that returns (none is installed with `SA_RESTART`)
  ends the wait with `EINTR` and the worker handles a node nobody has written.
- `pid_race` / `OneRuns`: `create_pid_file` gives its lock up between the
  question whether somebody runs and the second, unchecked `F_SETLK`.  Over the
  file of a killed daemon, two starts both ask in vain (lines 107-121), and both run.

The others are stated as properties in the modules, to be evaluated by adding
them to a run's configuration, with the constant named here:

| where | property and constant | what happens |
|---|---|---|
| `nt_cycle.c:93,100-103` | `OpenedQueueWorks` of `QueueSharing`, any configuration with two addresses | `task_queue_open` writes `next` anew for the address it got, but neither `head` nor `tail`; who then follows an address of another process leaves its mapping, with the mutex taken (line 79: open an existing queue) |
| `nt_cycle.c:24,55` | `CreateOpens` of `QueueSharing`, two creators | a second create of a name initialises the queue in use, and its tasks are gone (lines 16, 23: create or open) |
| `nt_socket.c:255` | `EchoToSender` of `NetServer`, `SameProcess = TRUE` | the server closes the descriptor before a worker writes to it (nt_cycle.c:185: echo the data to the client); the data may reach another client |
| `nt_socket.c:249` | `DataReadable`, `SameProcess = FALSE` | a task points into the heap of another process |
| `nt_socket.c:190` | `ServerStays`, `Signals = TRUE` | a signal that is to be ignored (nt_phreads.c:271) ends the server's loop |
| `nt_phreads.c:273` | `InterruptEndsChildren` of `SharedLog` | after SIGINT the parent ends without having sent its children the signals the comment at 271 announces |
| `nt_socket.c:231` | `NothingDiscarded` of `NetServer`, any configuration | `errno` is read after `nt_log`, which may have changed it: a connection on which nothing has come yet is closed, with what arrives in between |
| `hashset.c:30` | `NoCrash` of `HashSet` | after the slots could not be allocated the next call goes through NULL |
| `nt_hashmap.c:24,40` | `NoCrash` of `HashMap`, `AllowOom = TRUE` | the map looks at nothing its allocator returns; nt_mem.h:18 offers to go on without memory |
| `nt_binaryheap.c:211` | `HeapRefusesDuplicates` of `Containers`, `Absent = {0}` | the compiled `nt_hashmap_get` returns 0 for an absent key and `nt_binary_heap_insert` asks for `FAIL`: with the DIRECT option (nt_algo.h:212) every insert, also the first, is refused as a duplicate and exits |
| `ddl.c:101` | `NoCrash` of `DdlList` | an insert at the end links after `curr`, which is NULL once the last node has been deleted |
| `ddl.c:197` | `CountExact` of `DdlList` | an insert at the head is not counted in `num`, a delete is, so `num` goes below zero and wraps |

And these were met while modelling; the modules have them as the code does.

- *Linked list*: deleting the first node makes the list empty and forgets the others.
- *Allocator*: `MEM_MIN_SIZE` (128, `nt_mem.c:105`) admits segments that are
  smaller than the header `nt_mem_create` writes into them; `InitialChunk` needs
  `nt_mem_required_size`.
- *Cache set-up*: `main` looks at no result of `init_cache` and
  `init_sync_cache` and then calls through functions that are NULL if these have
  failed (`nt_shm.c:519-527`); `sync_mem` is created twice; `cache_ids_lock` is
  destroyed but its creation is commented out (`nt_shm.c:270`, `396`),
  `sync_lock` is created but not destroyed: the count comes out even by chance;
  the locks of the trends, of `sync_mem` and of `ntmap` have the same number 2.
- *Wire protocol*: a checksum that does not agree is logged and the frame is
  used all the same (`nt_ptcl.c:307`); the type of the frame is not part of what
  the code in it covers; the package is `[type|data]`, not
  `[type|send|receiver|proxy|data]` (`nt_ptcl.h:25`); the header declares
  `nt_ptcl_send` and `nt_ptcl_handle` (lines 106, 107) where the functions are
  `ntptcl_send` and `ntptcl_handle`; `SHA1` takes an `int` length where
  `ntptcl_send` has a `size_t`.
- *Hash set*: `nt_hashset_get_kv` (`hashset.c:517`) searches with a record of its
  own whose key is a pointer that `strdup` has just returned, which nobody frees.

## 8. What is not modelled, and why

- *Utilities* (`common.c`, `fatal.c`): wrappers of library calls, with no state
  but a flag of an alarm; the crash report reads registers.  *Empty files*.
- *TaskQueue*: the contents of tasks; the older code under `#if 0`.
- *QueueSharing*: `shm_open`, `ftruncate` and `mmap` of a create are one step (who
  opens between the first two maps nothing and gets SIGBUS); a pointer of another
  address is taken to lead to unmapped memory, not to other data; all
  callers give the same `max_length`; `sem_init` does not fail.  Push and pop are
  single steps also in an object that was created again, where nothing makes them
  so; of those `FaultsHaveACause` only says which addresses they find.  A destroy by
  one process while another is inside push or pop on the semaphores themselves
  (`sem_destroy` of a semaphore with waiters).
- *Locks*: read-write locks, which nothing uses.
- *SharedLog*: the redirection of standard output that follows a rotation; targets
  other than a file; `nt_on_exit`, which is one step (`Exit`); the level, which is a
  choice at each call.  Signals are sent by the kernel and by processes outside `src/` (`Send`).
- *Processes*: becoming a daemon (`setsid`, `chdir`, closing descriptors).
- *NetServer*: setting the listening socket up; a reset of a connection that
  discards unread data; errors of `accept` are not told apart; that one read may
  return part of a message and the rest is lost with the close is in the model
  but no property forbids it; the heap growth by `task.data`, which nobody frees.
- *HashSet*: changes by other calls while an iteration is under way; the
  key/value wrappers.  *HashMap*: the wrappers that hash a string and call the
  functions that are modelled.  *Hash functions*: arithmetic without state; in
  the modules, any function from keys to numbers.
- *BinaryHeap*: comparison of timestamps is a total order; without the DIRECT
  option every element has a key of its own in the model, which the code does not look at.
- *MemAlloc*: the lock around the calls: pools are used by one process at a time
  under the `LOCK_*` of `nt_shm.c`; calls with bad arguments, which end the process
  or do nothing (`nt_mem.c:625-637`, `662-672`, `693-698`); a failure of the private
  memory `__mem_realloc` copies to (429).  That a block of `MemPool` is at least as
  large as asked for is said of some request, not of the one that made it.
- *CacheSetup*: an allocation that fails while containers are made in a pool
  (`nt_shm.c:285-301`, `335`) and ends the process.
- *Sha1*: `j + len` and `i + 63` are `uint32_t` in the code (`nt_ptcl.c:197`, `201`)
  and wrap for a piece within 64 bytes of 2^32.
- *DdlList*: the two iterators, which print.
- *Ptcl*: the `send` and `recv` that stand under `//` and `#if 0`: no compiled code
  hands a frame that was made on to `ntptcl_handle`.  The wire damages neither head
  nor tail nor the length, which `ntptcl_handle` trusts (`nt_ptcl.c:303`, `312`).
