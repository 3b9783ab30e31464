------------------------------ MODULE CacheSetup ------------------------------
(***************************************************************************)
(* How main of nt_shm.c sets its caches up: the semaphore set and the      *)
(* count of nt_mutexs.c, the log, init_nt_map, init_cache, init_sync_cache *)
(* and init_trend_cache with the pools they create, and free_sync_cache    *)
(* and nt_close_log, which take down what was set up.                      *)
(*                                                                         *)
(* main has parts under #if 0, and so is read in three ways: "live" is the *)
(* one that is compiled, "map" the one with init_nt_map, and "server" has  *)
(* the locks and the log before the caches, in the order of its text (less *)
(* the worker loop that stands between them and never ends), and takes     *)
(* down at the end what has been set up, as the functions for it are       *)
(* written, though main does not call them yet.  Whether a system call     *)
(* succeeds is up to the system; main looks at the results of the first    *)
(* two only.                                                               *)
(***************************************************************************)
EXTENDS Integers

CONSTANTS
    Server,          \* program_type has NT_PROGRAM_TYPE_SERVER
    MinSize,         \* MEM_MIN_SIZE
    RequiredSize,    \* nt_mem_required_size(1, ...)
    TrendsCacheSize, MapCacheSize, SyncCacheSize, SyncIndexCacheSize

ASSUME CacheSetupAssumption ==
    /\ Server \in BOOLEAN
    /\ {MinSize, RequiredSize, SyncCacheSize, SyncIndexCacheSize} \subseteq Nat
    /\ TrendsCacheSize \in Nat /\ TrendsCacheSize >= 2 * RequiredSize
    /\ MapCacheSize \in Nat /\ MapCacheSize >= RequiredSize

VARIABLES
    build,       \* how main is read
    pc,
    semset,      \* the semaphore set NT_SEM_LIST_ID is there
    mutexes,     \* the count in nt_mutexs.c, an unsigned char
    locks,       \* locks[l]: the number of the semaphore it stands for
    log_type,
    log_open,    \* nt_open_log has succeeded, nt_close_log not been called
    sizes,       \* CONFIG_TRENDS_CACHE_SIZE and CONFIG_NTMAP_CACHE_SIZE
    pools,       \* pools[m]: the segment the variable m points to
    segments,    \* segments created so far
    cache, ids, ncache, \* where they point: a segment, Heap or Null
    made,        \* made[c]: container c, or NotMade
    succeeded    \* the inits that have returned SUCCEED

locking == <<semset, mutexes, locks>>
logging == <<log_type, log_open>>
memory == <<sizes, pools, segments>>
content == <<cache, ids, ncache, made>>
vars == <<build, pc, locking, logging, memory, content, succeeded>>

Lock == {"log_access", "sync_lock", "cache_lock", "cache_ids_lock", "trends_lock", "ntmap_lock"}
Pool == {"trend_mem", "sync_mem", "sync_index_mem", "ntmap_mem"}
OfCache == {"trends", "sync_items", "sync_queue", "sync_hmap"}
Container == OfCache \cup {"ntmap_hmap"}

NoLock == -1     \* NT_MUTEX_NULL
Semaphores == 0 .. 2   \* NT_MUTEX_COUNT + NT_RWLOCK_COUNT of them
Null == -1
Heap == 0
NotMade == [pool |-> "none", at |-> Null]

Init ==
    /\ build \in {"live", "server", "map"}
    /\ pc = CASE build = "live" -> "CacheLock"
              [] build = "server" -> "locks"
              [] build = "map" -> "MapLock"
    /\ semset = FALSE
    /\ mutexes = 0
    /\ locks = [l \in Lock |-> NoLock]
    /\ log_type = "undefined"
    /\ log_open = FALSE
    /\ sizes = [trends |-> TrendsCacheSize, ntmap |-> MapCacheSize]
    /\ pools = [m \in Pool |-> Null]
    /\ segments = 0
    /\ cache = Heap     \* main has it from malloc
    /\ ids = Null
    /\ ncache = Null
    /\ made = [c \in Container |-> NotMade]
    /\ succeeded = {}

Goto(from, to) == pc = from /\ pc' = to /\ UNCHANGED build

-----------------------------------------------------------------------------
(* nt_mutexs.c *)

(* nt_mutex_create gives out the number it is asked for; whether there is  *)
(* such a semaphore, or somebody else has the number, it does not ask.     *)
MutexCreate(l, number) ==
    /\ mutexes' = (mutexes + 1) % 256
    /\ locks' = [locks EXCEPT ![l] = number]

(* nt_mutex_destroy counts locks that were never created as well; the last *)
(* one removes the whole set.                                              *)
MutexDestroy(l) ==
    /\ mutexes' = (mutexes + 255) % 256
    /\ semset' = (semset /\ mutexes' # 0)
    /\ locks' = [locks EXCEPT ![l] = NoLock]

(* nt_locks_create; when a semaphore cannot be initialized the set is      *)
(* removed, and main exits.                                                *)
LocksCreate ==
    /\ \E ok \in BOOLEAN : Goto("locks", IF ok THEN "log" ELSE "exit") /\ semset' = ok
    /\ UNCHANGED <<mutexes, locks, logging, memory, content, succeeded>>

-----------------------------------------------------------------------------
(* nt_open_log of a type; for a file the path may be too long, or fopen    *)
(* fail when the lock has been created.  main exits when it fails.         *)
OpenLog(type) ==
    /\ log_type' = type
    /\ \/ /\ type \in {"file", "console", "undefined"}
          /\ MutexCreate("log_access", 0)
          /\ \/ Goto("log", "CacheLock") /\ log_open' = TRUE
             \/ type = "file" /\ Goto("log", "exit") /\ UNCHANGED log_open
       \/ /\ type = "system"
          /\ Goto("log", "CacheLock") /\ log_open' = TRUE
          /\ UNCHANGED <<mutexes, locks>>
       \/ /\ type \in {"file", "other"}
          /\ Goto("log", "exit")
          /\ UNCHANGED <<mutexes, locks, log_open>>
    /\ UNCHANGED <<semset, memory, content, succeeded>>

-----------------------------------------------------------------------------
(* nt_mem_create puts a new segment into *info when it succeeds, whatever  *)
(* was there before.  nextPc is where it goes on when it fails.            *)
MemCreate(m, size, from, nextPc, failPc) ==
    \/ /\ size >= MinSize
       /\ Goto(from, nextPc)
       /\ segments' = segments + 1
       /\ pools' = [pools EXCEPT ![m] = segments + 1]
    \/ /\ Goto(from, failPc)
       /\ UNCHANGED <<segments, pools>>

(* A container with the allocation functions of pool m *)
In(m) == [pool |-> m, at |-> pools[m]]

MapLock ==
    /\ Goto("MapLock", "MapPool")
    /\ MutexCreate("ntmap_lock", 2)
    /\ UNCHANGED <<semset, logging, memory, content, succeeded>>

MapPool ==
    /\ MemCreate("ntmap_mem", sizes.ntmap, "MapPool", "MapContent", "CacheLock")
    /\ UNCHANGED <<locking, logging, sizes, content, succeeded>>

MapContent ==
    /\ Goto("MapContent", "CacheLock")
    /\ ncache' = pools["ntmap_mem"]
    /\ sizes' = [sizes EXCEPT !.ntmap = @ - RequiredSize]
    /\ made' = [made EXCEPT !["ntmap_hmap"] = In("ntmap_mem")]
    /\ UNCHANGED <<locking, logging, pools, segments, cache, ids, succeeded>>

(* init_cache *)
CacheLock ==
    /\ Goto("CacheLock", "CachePool")
    /\ MutexCreate("sync_lock", 2)
    /\ UNCHANGED <<semset, logging, memory, content, succeeded>>

AfterCache == IF build = "map" THEN "return" ELSE "SyncLock"

CachePool ==
    /\ MemCreate("sync_mem", sizes.trends, "CachePool", "CacheContent", AfterCache)
    /\ UNCHANGED <<locking, logging, sizes, content, succeeded>>

CacheContent ==
    /\ Goto("CacheContent", AfterCache)
    /\ sizes' = [sizes EXCEPT !.trends = @ - RequiredSize]
    /\ made' = [made EXCEPT !["trends"] = In("sync_mem")]
    /\ succeeded' = succeeded \cup {"init_cache"}
    /\ UNCHANGED <<locking, logging, pools, segments, cache, ids, ncache>>

-----------------------------------------------------------------------------
(* init_sync_cache *)

SyncLock ==
    /\ Goto("SyncLock", "SyncPool")
    /\ MutexCreate("cache_lock", 1)
    /\ UNCHANGED <<semset, logging, memory, content, succeeded>>

SyncPool ==
    /\ MemCreate("sync_mem", SyncCacheSize, "SyncPool", "IndexPool", "use")
    /\ UNCHANGED <<locking, logging, sizes, content, succeeded>>

IndexPool ==
    /\ MemCreate("sync_index_mem", SyncIndexCacheSize, "IndexPool", "SyncContent", "use")
    /\ UNCHANGED <<locking, logging, sizes, content, succeeded>>

SyncMade(trends) ==
    [made EXCEPT !["trends"] = trends,
                 !["sync_items"] = In("sync_index_mem"),
                 !["sync_queue"] = In("sync_index_mem"),
                 !["sync_hmap"] = In("sync_mem")]

(* Mutant: there is a cache already. *)
SyncContentKept ==
    /\ Goto("SyncContent", IF Server THEN "TrendLock" ELSE "use")
    /\ ids' = pools["sync_index_mem"]
    /\ made' = SyncMade(made["trends"])
    /\ succeeded' = IF Server THEN succeeded ELSE succeeded \cup {"init_sync_cache"}
    /\ UNCHANGED <<locking, logging, memory, cache, ncache>>

(* A new cache takes the place of the one main had: what init_cache made   *)
(* in that one is out of reach.                                            *)
SyncContent ==
    /\ Goto("SyncContent", IF Server THEN "TrendLock" ELSE "use")
    /\ cache' = pools["sync_index_mem"]
    /\ ids' = pools["sync_index_mem"]
    /\ made' = SyncMade(NotMade)
    /\ succeeded' = IF Server THEN succeeded ELSE succeeded \cup {"init_sync_cache"}
    /\ UNCHANGED <<locking, logging, memory, ncache>>

(* init_trend_cache *)
TrendLock ==
    /\ Goto("TrendLock", "TrendPool")
    /\ MutexCreate("trends_lock", 2)
    /\ UNCHANGED <<semset, logging, memory, content, succeeded>>

TrendPool ==
    /\ MemCreate("trend_mem", sizes.trends, "TrendPool", "TrendContent", "use")
    /\ UNCHANGED <<locking, logging, sizes, content, succeeded>>

TrendContent ==
    /\ Goto("TrendContent", "use")
    /\ sizes' = [sizes EXCEPT !.trends = @ - RequiredSize]
    /\ made' = [made EXCEPT !["trends"] = In("trend_mem")]
    /\ succeeded' = succeeded \cup {"init_sync_cache"}
    /\ UNCHANGED <<locking, logging, pools, segments, cache, ids, ncache>>

-----------------------------------------------------------------------------
(* main puts an item into sync_items and an entry into sync_hmap.  In a    *)
(* cache of zeroes a container has no functions to call.                   *)
Use ==
    /\ Goto("use", IF NotMade \in {made["sync_items"], made["sync_hmap"]} THEN "crash"
                   ELSE IF build = "server" THEN "FreeSyncCache" ELSE "return")
    /\ UNCHANGED <<locking, logging, memory, content, succeeded>>

(* Mutant: sync_lock, which is never destroyed, is. *)
FreeSyncCacheAll ==
    /\ Goto("FreeSyncCache", "FreeIdsLock")
    /\ cache' = Null
    /\ mutexes' = (mutexes + 254) % 256
    /\ semset' = (semset /\ mutexes \notin 1 .. 2)
    /\ locks' = [locks EXCEPT !["cache_lock"] = NoLock, !["sync_lock"] = NoLock]
    /\ UNCHANGED <<logging, memory, ids, ncache, made, succeeded>>

(* free_sync_cache destroys cache_lock, cache_ids_lock, which nobody has   *)
(* created, and trends_lock.                                               *)
FreeSyncCache ==
    /\ Goto("FreeSyncCache", "FreeIdsLock")
    /\ cache' = Null
    /\ MutexDestroy("cache_lock")
    /\ UNCHANGED <<logging, memory, ids, ncache, made, succeeded>>

FreeIdsLock ==
    /\ Goto("FreeIdsLock", IF Server THEN "FreeTrendsLock" ELSE "CloseLog")
    /\ MutexDestroy("cache_ids_lock")
    /\ UNCHANGED <<logging, memory, content, succeeded>>

FreeTrendsLock ==
    /\ Goto("FreeTrendsLock", "CloseLog")
    /\ MutexDestroy("trends_lock")
    /\ UNCHANGED <<logging, memory, content, succeeded>>

(* nt_close_log *)
CloseLog ==
    /\ Goto("CloseLog", "return")
    /\ log_open' = FALSE
    /\ IF log_type = "system" THEN UNCHANGED locking ELSE MutexDestroy("log_access")
    /\ UNCHANGED <<log_type, memory, content, succeeded>>

Next ==
    \/ LocksCreate
    \/ \E type \in {"file", "console", "undefined", "system", "other"} : OpenLog(type)
    \/ MapLock \/ MapPool \/ MapContent
    \/ CacheLock \/ CachePool \/ CacheContent
    \/ SyncLock \/ SyncPool \/ IndexPool \/ SyncContent
    \/ TrendLock \/ TrendPool \/ TrendContent
    \/ Use \/ FreeSyncCache \/ FreeIdsLock \/ FreeTrendsLock \/ CloseLog

Spec == Init /\ [][Next]_vars

-----------------------------------------------------------------------------
(* Properties *)

TypeOK ==
    /\ build \in {"live", "server", "map"}
    /\ semset \in BOOLEAN /\ log_open \in BOOLEAN
    /\ mutexes \in 0 .. 255
    /\ locks \in [Lock -> -1 .. 3]
    /\ sizes \in [{"trends", "ntmap"} -> Nat]
    /\ segments \in Nat
    /\ pools \in [Pool -> Null .. segments]
    /\ {cache, ids, ncache} \subseteq Null .. segments
    /\ made \in [Container -> [pool : Pool \cup {"none"}, at : Null .. segments]]
    /\ succeeded \subseteq {"init_cache", "init_sync_cache"}

BothSucceeded == succeeded = {"init_cache", "init_sync_cache"}

(* nt_mutexs.c counts the locks and removes the set with the last one, and *)
(* nt_shm.c does not destroy what it has created.  When the set-up has     *)
(* succeeded the log has a semaphore to itself as long as it is open, and  *)
(* when it is closed none is left over: a lock too many (cache_ids_lock)   *)
(* makes up for one too few (sync_lock).                                   *)
LogKeepsItsLock ==
    BothSucceeded /\ build = "server" =>
        /\ log_open /\ locks["log_access"] # NoLock =>
             /\ semset /\ locks["log_access"] \in Semaphores
             /\ \A l \in Lock \ {"log_access"} : locks[l] # locks["log_access"]
        /\ pc = "return" => ~semset

(* When init_cache and init_sync_cache have succeeded, and until it is     *)
(* freed, cache lies in the index pool and every container of it exists,   *)
(* in the very pool its functions allocate from now, though sync_mem was   *)
(* created twice; and only a main that ignored a failure crashes.          *)
SetUpRight ==
    /\ TypeOK
    /\ BothSucceeded =>
         /\ cache \in {pools["sync_index_mem"], Null} /\ ids = pools["sync_index_mem"]
         /\ \A c \in OfCache \ IF Server THEN {} ELSE {"trends"} :
              made[c].pool \in Pool /\ made[c].at = pools[made[c].pool] /\ made[c].at > Heap
         /\ pc # "crash"
    /\ \A m, n \in Pool : m # n /\ pools[m] > Heap => pools[m] # pools[n]

=============================================================================
