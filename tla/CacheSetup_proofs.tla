--------------------------- MODULE CacheSetup_proofs ---------------------------
(***************************************************************************)
(* Proofs about CacheSetup, for caches of every size, with and without the *)
(* trends.                                                                 *)
(***************************************************************************)
EXTENDS CacheSetup, TLAPS

(* Where main may be when init_sync_cache has succeeded *)
Late == {"use", "FreeSyncCache", "FreeIdsLock", "FreeTrendsLock",
         "CloseLog", "return"}

MapPc == {"MapLock", "MapPool", "MapContent"}
CachePc == {"locks", "log", "CacheLock", "CachePool", "CacheContent"}
TrendPc == {"TrendLock", "TrendPool", "TrendContent"}

(* Container c lies in the pool whose functions it has. *)
Right(c) == made[c].pool \in Pool /\ made[c].at = pools[made[c].pool] /\ made[c].at > Heap

SyncRight ==
    /\ cache = pools["sync_index_mem"] /\ ids = pools["sync_index_mem"]
    /\ \A c \in OfCache \ {"trends"} : Right(c) /\ made[c].pool # "trend_mem"

SizesLeft ==
    /\ pc \in MapPc => sizes.ntmap >= RequiredSize
    /\ pc \in MapPc \cup CachePc => sizes.trends >= 2 * RequiredSize
    /\ pc \notin Late \cup {"exit", "crash"} => sizes.trends >= RequiredSize

(* What is true at each point of main on the way to SetUpRight *)
SetUpInv ==
    /\ TypeOK
    /\ SizesLeft
    /\ \A m, n \in Pool : m # n /\ pools[m] > Heap => pools[m] # pools[n]
    /\ "init_sync_cache" \in succeeded =>
         /\ pc \in Late
         /\ cache \in {pools["sync_index_mem"], Null} /\ ids = pools["sync_index_mem"]
         /\ \A c \in OfCache \ IF Server THEN {} ELSE {"trends"} : Right(c)
    /\ pc \in {"IndexPool", "SyncContent"} => pools["sync_mem"] > Heap
    /\ pc = "SyncContent" => pools["sync_index_mem"] > Heap
    /\ pc \in TrendPc => Server /\ SyncRight
    /\ pc = "TrendContent" => pools["trend_mem"] > Heap

LEMMA ConstantsFit ==
  /\ TrendsCacheSize \in Nat /\ MapCacheSize \in Nat /\ RequiredSize \in Nat
  /\ TrendsCacheSize >= 2 * RequiredSize /\ MapCacheSize >= RequiredSize
  BY CacheSetupAssumption

LEMMA SetUpInvInit == Init => SetUpInv
  <1> SUFFICES ASSUME Init PROVE SetUpInv
    OBVIOUS
  <1> USE DEF Null, Heap
  <1>1. build \in {"live", "server", "map"} /\ semset = FALSE /\ mutexes = 0 /\ log_open = FALSE
    BY DEF Init
  <1>2. cache = 0 /\ ids = -1 /\ ncache = -1 /\ segments = 0 /\ succeeded = {}
    BY DEF Init
  <1>3. pc \in {"CacheLock", "locks", "MapLock"}
    BY DEF Init
  <1>4. sizes = [trends |-> TrendsCacheSize, ntmap |-> MapCacheSize]
    BY DEF Init
  <1>5. pools = [m \in Pool |-> -1] /\ made = [c \in Container |-> NotMade]
    BY DEF Init
  <1>6. locks = [l \in Lock |-> NoLock]
    BY DEF Init
  <1>7. TypeOK
    <2>1. {cache, ids, ncache} \subseteq Null .. segments
      BY <1>2
    <2>2. sizes \in [{"trends", "ntmap"} -> Nat]
      BY CacheSetupAssumption, <1>4
    <2>3. made \in [Container -> [pool : Pool \cup {"none"}, at : Null .. segments]]
      <3>1. NotMade \in [pool : Pool \cup {"none"}, at : Null .. segments]
        BY <1>2 DEF NotMade
      <3> QED
        BY <3>1, <1>5
    <2>4. locks \in [Lock -> -1 .. 3]
      BY <1>6 DEF NoLock
    <2>5. pools \in [Pool -> Null .. segments]
      BY <1>5, <1>2
    <2>6. semset \in BOOLEAN /\ log_open \in BOOLEAN
      BY <1>1
    <2>9. mutexes \in 0 .. 255
      BY <1>1
    <2>7. segments \in Nat /\ succeeded \subseteq {"init_cache", "init_sync_cache"}
      BY <1>2
    <2>8. build \in {"live", "server", "map"}
      BY <1>1
    <2> HIDE DEF Null
    <2> QED
      BY <2>1, <2>2, <2>3, <2>4, <2>5, <2>6, <2>7, <2>8, <2>9 DEF TypeOK
  <1>8. SizesLeft
    BY ConstantsFit, <1>4 DEF SizesLeft
  <1>9. \A m \in Pool : ~(pools[m] > Heap)
    BY <1>5
  <1>10. "init_sync_cache" \notin succeeded
    BY <1>2
  <1>11. pc \notin TrendPc \cup {"IndexPool", "SyncContent"}
    BY <1>3 DEF TrendPc
  <1> QED
    BY <1>7, <1>8, <1>9, <1>10, <1>11 DEF SetUpInv, TrendPc

(* A step that leaves the pools, the sizes and the content as they are *)
LEMMA QuietStep ==
  ASSUME SetUpInv, memory' = memory, content' = content, succeeded' = succeeded,
         build' = build, semset' \in BOOLEAN, log_open' \in BOOLEAN, mutexes' \in 0 .. 255,
         locks' \in [Lock -> -1 .. 3],
         pc' \notin {"IndexPool", "SyncContent", "TrendContent"},
         pc' \in TrendPc => pc \in TrendPc,
         "init_sync_cache" \in succeeded => pc' \in Late,
         pc \in Late \cup {"exit", "crash"} => pc' \in Late \cup {"exit", "crash"},
         pc' \in MapPc => pc \in MapPc,
         pc' \in MapPc \cup CachePc => pc \in MapPc \cup CachePc
  PROVE  SetUpInv'
  <1>0. /\ sizes' = sizes /\ pools' = pools /\ segments' = segments
        /\ cache' = cache /\ ids' = ids /\ ncache' = ncache /\ made' = made
    BY DEF memory, content
  <1>1. TypeOK'
    BY <1>0 DEF SetUpInv, TypeOK
  <1>2. SizesLeft'
    BY <1>0 DEF SetUpInv, SizesLeft
  <1>4. \A c \in Container : Right(c)' <=> Right(c)
    BY <1>0 DEF Right
  <1>5. SyncRight' <=> SyncRight
    BY <1>0, <1>4 DEF SyncRight, OfCache, Container
  <1> QED
    BY <1>0, <1>1, <1>2, <1>4, <1>5 DEF SetUpInv, OfCache, Container, TrendPc

(* nt_mem_create, with all but the pools left as it is *)
LEMMA PoolTyped ==
  ASSUME SetUpInv, NEW m \in Pool, segments' = segments + 1,
         pools' = [pools EXCEPT ![m] = segments + 1],
         build' = build, UNCHANGED <<locking, logging, sizes, content, succeeded>>
  PROVE  /\ TypeOK'
         /\ \A k, n \in Pool : k # n /\ pools'[k] > Heap => pools'[k] # pools'[n]
         /\ pools'[m] > Heap /\ \A n \in Pool \ {m} : pools'[n] = pools[n]
  <1>1. segments \in Nat /\ pools \in [Pool -> Null .. segments]
    BY DEF SetUpInv, TypeOK
  <1>2. pools'[m] = segments + 1 /\ \A n \in Pool \ {m} : pools'[n] = pools[n]
    BY <1>1
  <1>3. \A n \in Pool : pools[n] \in Int /\ pools[n] <= segments
    BY <1>1 DEF Null
  <1>4. \A k, n \in Pool : k # n /\ pools[k] > Heap => pools[k] # pools[n]
    BY DEF SetUpInv
  <1>5. \A k, n \in Pool : k # n /\ pools'[k] > Heap => pools'[k] # pools'[n]
    BY <1>1, <1>2, <1>3, <1>4
  <1>6. Null .. segments \subseteq Null .. segments' /\ segments' \in Nat
    BY <1>1 DEF Null
  <1>7. pools' \in [Pool -> Null .. segments']
    BY <1>1, <1>6 DEF Null
  <1>8. TypeOK'
    <2>1. made' \in [Container -> [pool : Pool \cup {"none"}, at : Null .. segments']]
      <3>1. made \in [Container -> [pool : Pool \cup {"none"}, at : Null .. segments]]
        BY DEF SetUpInv, TypeOK
      <3>2. [pool : Pool \cup {"none"}, at : Null .. segments]
              \subseteq [pool : Pool \cup {"none"}, at : Null .. segments']
        BY <1>6
      <3> QED
        BY <3>1, <3>2 DEF content
    <2>2. {cache, ids, ncache}' \subseteq Null .. segments'
      BY <1>6 DEF SetUpInv, TypeOK, content
    <2> QED
      BY <1>6, <1>7, <2>1, <2>2 DEF SetUpInv, TypeOK, locking, logging
  <1> QED
    BY <1>1, <1>2, <1>5, <1>8 DEF Heap

(* What is asked of a place in main where pool m is created *)
OnTheWay(m, from, nextPc, failPc) ==
    /\ from \notin Late \cup {"exit", "crash"}
    /\ failPc \notin {"IndexPool", "SyncContent"} \cup TrendPc \cup MapPc
    /\ {nextPc, failPc} \cap (MapPc \cup CachePc) # {} => from \in MapPc \cup CachePc
    /\ nextPc \in MapPc => from \in MapPc
    /\ nextPc = "IndexPool" => m = "sync_mem"
    /\ nextPc = "SyncContent" => m = "sync_index_mem" /\ from = "IndexPool"
    /\ nextPc \in TrendPc => m = "trend_mem" /\ from \in TrendPc

LEMMA PoolStep ==
  ASSUME SetUpInv, NEW m \in Pool, NEW size, NEW from, NEW nextPc, NEW failPc,
         MemCreate(m, size, from, nextPc, failPc),
         UNCHANGED <<locking, logging, sizes, content, succeeded>>,
         OnTheWay(m, from, nextPc, failPc)
  PROVE  SetUpInv'
  <1>1. /\ pc = from /\ pc' \in {nextPc, failPc} /\ build' = build
    BY DEF MemCreate, Goto
  <1> USE DEF OnTheWay
  <1>2. /\ sizes' = sizes /\ cache' = cache /\ ids' = ids /\ made' = made
        /\ succeeded' = succeeded /\ "init_sync_cache" \notin succeeded
    BY <1>1 DEF content, SetUpInv
  <1>3. SizesLeft'
    BY <1>1, <1>2 DEF SetUpInv, SizesLeft
  <1>4. CASE UNCHANGED <<segments, pools>> /\ pc' = failPc
    <2>1. TypeOK'
      BY <1>1, <1>4 DEF SetUpInv, TypeOK, locking, logging, content
    <2> QED
      BY <1>2, <1>3, <1>4, <2>1 DEF SetUpInv, TrendPc
  <1>5. CASE segments' = segments + 1 /\ pools' = [pools EXCEPT ![m] = segments + 1] /\ pc' = nextPc
    <2>1. /\ TypeOK'
          /\ \A k, n \in Pool : k # n /\ pools'[k] > Heap => pools'[k] # pools'[n]
          /\ pools'[m] > Heap /\ \A n \in Pool \ {m} : pools'[n] = pools[n]
      BY <1>1, <1>5, PoolTyped
    <2>2. pc' \in {"IndexPool", "SyncContent"} => pools'["sync_mem"] > Heap
      BY <1>1, <1>5, <2>1 DEF SetUpInv, Pool
    <2>3. pc' = "SyncContent" => pools'["sync_index_mem"] > Heap
      BY <1>5, <2>1
    <2>4. pc' = "TrendContent" => pools'["trend_mem"] > Heap
      BY <1>5, <2>1 DEF TrendPc
    <2>5. ASSUME pc' \in TrendPc PROVE Server /\ SyncRight'
      <3>1. m = "trend_mem" /\ Server /\ SyncRight
        BY <1>1, <1>5, <2>5 DEF SetUpInv
      <3> QED
        BY <1>2, <2>1, <3>1 DEF SyncRight, Right, Pool
    <2> QED
      BY <1>2, <1>3, <2>1, <2>2, <2>3, <2>4, <2>5 DEF SetUpInv
  <1> QED
    BY <1>4, <1>5 DEF MemCreate, Goto

LEMMA SetUpInvPool ==
  ASSUME SetUpInv, MapPool \/ CachePool \/ SyncPool \/ IndexPool \/ TrendPool
  PROVE  SetUpInv'
  <1>1. CASE MapPool
    <2>1. MemCreate("ntmap_mem", sizes.ntmap, "MapPool", "MapContent", "CacheLock")
      BY <1>1 DEF MapPool
    <2>2. UNCHANGED <<locking, logging, sizes, content, succeeded>>
      BY <1>1 DEF MapPool
    <2>4. OnTheWay("ntmap_mem", "MapPool", "MapContent", "CacheLock")
      BY DEF OnTheWay, Late, MapPc, CachePc, TrendPc
    <2>5. "ntmap_mem" \in Pool
      BY DEF Pool
    <2> QED
      BY <2>1, <2>2, <2>4, <2>5, PoolStep
  <1>2. CASE CachePool
    <2>1. MemCreate("sync_mem", sizes.trends, "CachePool", "CacheContent", AfterCache)
      BY <1>2 DEF CachePool
    <2>2. UNCHANGED <<locking, logging, sizes, content, succeeded>>
      BY <1>2 DEF CachePool
    <2>3. AfterCache \in {"return", "SyncLock"}
      BY DEF AfterCache
    <2>4. OnTheWay("sync_mem", "CachePool", "CacheContent", AfterCache)
      BY <2>3 DEF OnTheWay, Late, MapPc, CachePc, TrendPc
    <2>5. "sync_mem" \in Pool
      BY DEF Pool
    <2> QED
      BY <2>1, <2>2, <2>4, <2>5, PoolStep
  <1>3. CASE SyncPool
    <2>1. MemCreate("sync_mem", SyncCacheSize, "SyncPool", "IndexPool", "use")
      BY <1>3 DEF SyncPool
    <2>2. UNCHANGED <<locking, logging, sizes, content, succeeded>>
      BY <1>3 DEF SyncPool
    <2>4. OnTheWay("sync_mem", "SyncPool", "IndexPool", "use")
      BY DEF OnTheWay, Late, MapPc, CachePc, TrendPc
    <2>5. "sync_mem" \in Pool
      BY DEF Pool
    <2> QED
      BY <2>1, <2>2, <2>4, <2>5, PoolStep
  <1>4. CASE IndexPool
    <2>1. MemCreate("sync_index_mem", SyncIndexCacheSize, "IndexPool", "SyncContent", "use")
      BY <1>4 DEF IndexPool
    <2>2. UNCHANGED <<locking, logging, sizes, content, succeeded>>
      BY <1>4 DEF IndexPool
    <2>4. OnTheWay("sync_index_mem", "IndexPool", "SyncContent", "use")
      BY DEF OnTheWay, Late, MapPc, CachePc, TrendPc
    <2>5. "sync_index_mem" \in Pool
      BY DEF Pool
    <2> QED
      BY <2>1, <2>2, <2>4, <2>5, PoolStep
  <1>5. CASE TrendPool
    <2>1. MemCreate("trend_mem", sizes.trends, "TrendPool", "TrendContent", "use")
      BY <1>5 DEF TrendPool
    <2>2. UNCHANGED <<locking, logging, sizes, content, succeeded>>
      BY <1>5 DEF TrendPool
    <2>4. OnTheWay("trend_mem", "TrendPool", "TrendContent", "use")
      BY DEF OnTheWay, Late, MapPc, CachePc, TrendPc
    <2>5. "trend_mem" \in Pool
      BY DEF Pool
    <2> QED
      BY <2>1, <2>2, <2>4, <2>5, PoolStep
  <1> QED
    BY <1>1, <1>2, <1>3, <1>4, <1>5

(* What becomes of a container that is made *)
LEMMA InTyped ==
  ASSUME SetUpInv, NEW m \in Pool
  PROVE  In(m) \in [pool : Pool \cup {"none"}, at : Null .. segments]
  BY DEF SetUpInv, TypeOK, In

LEMMA SetUpInvContent ==
  ASSUME SetUpInv, MapContent \/ CacheContent \/ SyncContent \/ TrendContent
  PROVE  SetUpInv'
  <1> DEFINE Made == [pool : Pool \cup {"none"}, at : Null .. segments]
  <1>1. /\ TypeOK /\ SizesLeft /\ made \in [Container -> Made]
        /\ sizes \in [{"trends", "ntmap"} -> Nat] /\ pools \in [Pool -> Null .. segments]
    BY DEF SetUpInv, TypeOK
  <1>2. \A m \in Pool : In(m) \in Made
    BY InTyped
  <1>3. NotMade \in Made
    BY <1>1 DEF NotMade, Null, TypeOK
  <1>4. UNCHANGED <<locking, logging, segments, pools>> /\ build' = build
    BY DEF MapContent, CacheContent, SyncContent, TrendContent, Goto, memory
  <1>5. \A m, n \in Pool : m # n /\ pools'[m] > Heap => pools'[m] # pools'[n]
    BY <1>4 DEF SetUpInv
  <1>6. ASSUME sizes' \in [{"trends", "ntmap"} -> Nat], made' \in [Container -> Made],
               {cache', ids', ncache'} \subseteq Null .. segments,
               succeeded' \subseteq {"init_cache", "init_sync_cache"}
        PROVE  TypeOK'
    BY <1>1, <1>4, <1>6 DEF TypeOK, locking, logging
  <1>7. /\ {cache, ids, ncache} \subseteq Null .. segments
        /\ succeeded \subseteq {"init_cache", "init_sync_cache"}
    BY <1>1 DEF TypeOK
  <1>8. \A m \in Pool : pools[m] \in Null .. segments
    BY <1>1
  <1> HIDE DEF Made
  <1>9. CASE MapContent
    <2>1. pc = "MapContent" /\ pc' = "CacheLock" /\ succeeded' = succeeded
      BY <1>9 DEF MapContent, Goto
    <2>2. sizes' = [sizes EXCEPT !.ntmap = @ - RequiredSize] /\ cache' = cache /\ ids' = ids
      BY <1>9 DEF MapContent
    <2>3. made' = [made EXCEPT !["ntmap_hmap"] = In("ntmap_mem")] /\ ncache' = pools["ntmap_mem"]
      BY <1>9 DEF MapContent
    <2>4. sizes.ntmap >= RequiredSize /\ sizes.trends >= 2 * RequiredSize
      BY <1>1, <2>1 DEF SizesLeft, MapPc
    <2>5. sizes' \in [{"trends", "ntmap"} -> Nat] /\ sizes'.trends = sizes.trends
      BY <1>1, <2>2, <2>4, ConstantsFit
    <2>6. TypeOK'
      <3>1. made' \in [Container -> Made]
        BY <1>1, <1>2, <2>3 DEF Pool
      <3>2. {cache', ids', ncache'} \subseteq Null .. segments
        BY <1>7, <1>8, <2>2, <2>3 DEF Pool
      <3> QED
        BY <1>6, <1>7, <2>1, <2>5, <3>1, <3>2
    <2>7. SizesLeft'
      <3>1. sizes'.trends >= 2 * RequiredSize /\ sizes'.trends >= RequiredSize
        BY <2>4, <2>5, ConstantsFit
      <3> QED
        BY <2>1, <3>1 DEF SizesLeft, MapPc
    <2>8. "init_sync_cache" \notin succeeded'
      BY <2>1 DEF SetUpInv, Late
    <2> QED
      BY <1>5, <2>1, <2>6, <2>7, <2>8 DEF SetUpInv, TrendPc
  <1>10. CASE CacheContent
    <2>1. /\ pc = "CacheContent" /\ pc' = AfterCache
          /\ succeeded' = succeeded \cup {"init_cache"}
      BY <1>10 DEF CacheContent, Goto
    <2>2. sizes' = [sizes EXCEPT !.trends = @ - RequiredSize]
      BY <1>10 DEF CacheContent
    <2>3. /\ made' = [made EXCEPT !["trends"] = In("sync_mem")]
          /\ cache' = cache /\ ids' = ids /\ ncache' = ncache
      BY <1>10 DEF CacheContent
    <2>4. sizes.trends >= 2 * RequiredSize
      BY <1>1, <2>1 DEF SizesLeft, CachePc
    <2>5. sizes' \in [{"trends", "ntmap"} -> Nat] /\ sizes'.trends >= RequiredSize
      BY <1>1, <2>2, <2>4, ConstantsFit
    <2>6. TypeOK'
      BY <1>1, <1>2, <1>6, <1>7, <2>1, <2>3, <2>5 DEF Pool, TypeOK
    <2>7. pc' \in {"return", "SyncLock"}
      BY <2>1 DEF AfterCache
    <2>8. SizesLeft'
      BY <2>5, <2>7 DEF SizesLeft, MapPc, CachePc
    <2>9. "init_sync_cache" \notin succeeded'
      BY <2>1 DEF SetUpInv, Late
    <2> QED
      BY <1>5, <2>6, <2>7, <2>8, <2>9 DEF SetUpInv, TrendPc
  <1>11. CASE SyncContent
    <2>1. /\ pc = "SyncContent" /\ pc' = IF Server THEN "TrendLock" ELSE "use"
          /\ succeeded' = IF Server THEN succeeded ELSE succeeded \cup {"init_sync_cache"}
      BY <1>11 DEF SyncContent, Goto
    <2>2. /\ cache' = pools["sync_index_mem"] /\ ids' = pools["sync_index_mem"]
          /\ made' = SyncMade(NotMade) /\ sizes' = sizes /\ ncache' = ncache
      BY <1>11 DEF SyncContent, memory
    <2>3. made' \in [Container -> Made]
      BY <1>1, <1>2, <1>3, <2>2 DEF SyncMade, Pool
    <2>4. TypeOK'
      BY <1>1, <1>6, <1>7, <1>8, <2>1, <2>2, <2>3 DEF Pool, TypeOK
    <2>5. pools["sync_mem"] > Heap /\ pools["sync_index_mem"] > Heap
      BY <2>1 DEF SetUpInv
    <2>6. pools' = pools
      BY <1>4
    <2>7. SyncRight'
      <3>1. /\ made'["sync_items"] = In("sync_index_mem")
            /\ made'["sync_queue"] = In("sync_index_mem")
            /\ made'["sync_hmap"] = In("sync_mem")
        BY <1>1, <2>2 DEF SyncMade, Container, OfCache
      <3> QED
        BY <2>2, <2>5, <2>6, <3>1 DEF SyncRight, Right, In, OfCache, Pool
    <2>8. sizes.trends >= RequiredSize
      BY <1>1, <2>1 DEF SizesLeft, Late
    <2>9. SizesLeft'
      BY <2>1, <2>2, <2>8 DEF SizesLeft, MapPc, CachePc
    <2>10. "init_sync_cache" \notin succeeded
      BY <2>1 DEF SetUpInv, Late
    <2>11. CASE Server
      BY <1>5, <2>1, <2>4, <2>7, <2>9, <2>10, <2>11 DEF SetUpInv, TrendPc
    <2>12. CASE ~Server
      BY <1>5, <2>1, <2>4, <2>7, <2>9, <2>12 DEF SetUpInv, TrendPc, Late, SyncRight
    <2> QED
      BY <2>11, <2>12
  <1>12. CASE TrendContent
    <2>1. /\ pc = "TrendContent" /\ pc' = "use"
          /\ succeeded' = succeeded \cup {"init_sync_cache"}
      BY <1>12 DEF TrendContent, Goto
    <2>2. sizes' = [sizes EXCEPT !.trends = @ - RequiredSize]
      BY <1>12 DEF TrendContent
    <2>3. /\ made' = [made EXCEPT !["trends"] = In("trend_mem")]
          /\ cache' = cache /\ ids' = ids /\ ncache' = ncache
      BY <1>12 DEF TrendContent
    <2>4. sizes.trends >= RequiredSize
      BY <1>1, <2>1 DEF SizesLeft, Late
    <2>5. sizes' \in [{"trends", "ntmap"} -> Nat]
      BY <1>1, <2>2, <2>4, ConstantsFit
    <2>6. TypeOK'
      BY <1>1, <1>2, <1>6, <1>7, <2>1, <2>3, <2>5 DEF Pool, TypeOK
    <2>7. SizesLeft'
      BY <2>1 DEF SizesLeft, MapPc, CachePc, Late
    <2>8. pools["trend_mem"] > Heap /\ SyncRight /\ pools' = pools
      BY <1>4, <2>1 DEF SetUpInv, TrendPc
    <2>9. \A c \in OfCache : Right(c)'
      <3>1. made'["trends"] = In("trend_mem")
        BY <1>1, <2>3 DEF Container, OfCache
      <3>2. \A c \in OfCache \ {"trends"} : made'[c] = made[c]
        BY <1>1, <2>3 DEF Container, OfCache
      <3> QED
        BY <2>8, <3>1, <3>2 DEF SyncRight, Right, In, Pool
    <2> QED
      BY <1>5, <2>1, <2>3, <2>6, <2>7, <2>8, <2>9 DEF SetUpInv, TrendPc, Late, SyncRight
  <1> QED
    BY <1>9, <1>10, <1>11, <1>12

LEMMA SetUpInvNext == SetUpInv /\ [Next]_vars => SetUpInv'
  <1> SUFFICES ASSUME SetUpInv, [Next]_vars PROVE SetUpInv'
    OBVIOUS
  <1>1. TypeOK
    BY DEF SetUpInv
  <1>2. ASSUME NEW l \in Lock, NEW k \in 0 .. 2, MutexCreate(l, k)
        PROVE  mutexes' \in 0 .. 255 /\ locks' \in [Lock -> -1 .. 3]
    BY <1>1, <1>2 DEF TypeOK, MutexCreate
  <1>3. ASSUME NEW l \in Lock, MutexDestroy(l)
        PROVE  mutexes' \in 0 .. 255 /\ locks' \in [Lock -> -1 .. 3] /\ semset' \in BOOLEAN
    <2>1. mutexes' \in 0 .. 255 /\ locks' \in [Lock -> -1 .. 3]
      BY <1>1, <1>3 DEF TypeOK, MutexDestroy, NoLock
    <2>2. semset' \in BOOLEAN
      BY <1>1, <1>3 DEF TypeOK, MutexDestroy
    <2> QED
      BY <2>1, <2>2
  <1>4. semset \in BOOLEAN /\ log_open \in BOOLEAN /\ mutexes \in 0 .. 255 /\ locks \in [Lock -> -1 .. 3]
    BY <1>1 DEF TypeOK
  <1>5. pc \notin Late => "init_sync_cache" \notin succeeded
    BY DEF SetUpInv
  <1> USE DEF Goto
  <1>6. CASE LocksCreate
    <2>1. semset' \in BOOLEAN /\ UNCHANGED <<mutexes, log_open, locks, memory, content, succeeded>>
      BY <1>6 DEF LocksCreate, logging
    <2>2. pc = "locks" /\ pc' \in {"log", "exit"} /\ build' = build
      BY <1>6 DEF LocksCreate
    <2> QED
      BY <1>4, <1>5, <2>1, <2>2, QuietStep DEF Late, MapPc, CachePc, TrendPc
  <1>7. ASSUME NEW type \in {"file", "console", "undefined", "system", "other"}, OpenLog(type)
        PROVE  SetUpInv'
    <2>1. UNCHANGED <<semset, memory, content, succeeded>>
      BY <1>7 DEF OpenLog
    <2>2. pc = "log" /\ pc' \in {"CacheLock", "exit"} /\ build' = build
      BY <1>7 DEF OpenLog
    <2>3. log_open' \in BOOLEAN
      BY <1>4, <1>7 DEF OpenLog
    <2>4. MutexCreate("log_access", 0) \/ UNCHANGED <<mutexes, locks>>
      BY <1>7 DEF OpenLog
    <2>5. mutexes' \in 0 .. 255 /\ locks' \in [Lock -> -1 .. 3]
      BY <1>2, <1>4, <2>4 DEF Lock
    <2> QED
      BY <1>4, <1>5, <2>1, <2>2, <2>3, <2>5, QuietStep DEF Late, MapPc, CachePc, TrendPc
  <1>8. CASE MapLock \/ CacheLock \/ SyncLock \/ TrendLock
    <2>1. UNCHANGED <<semset, log_open, memory, content, succeeded>> /\ build' = build
      BY <1>8 DEF MapLock, CacheLock, SyncLock, TrendLock, logging
    <2>2. \/ MutexCreate("ntmap_lock", 2) \/ MutexCreate("sync_lock", 2)
          \/ MutexCreate("cache_lock", 1) \/ MutexCreate("trends_lock", 2)
      BY <1>8 DEF MapLock, CacheLock, SyncLock, TrendLock
    <2>3. mutexes' \in 0 .. 255 /\ locks' \in [Lock -> -1 .. 3]
      BY <1>2, <2>2 DEF Lock
    <2>4. <<pc, pc'>> \in {<<"MapLock", "MapPool">>, <<"CacheLock", "CachePool">>,
                          <<"SyncLock", "SyncPool">>, <<"TrendLock", "TrendPool">>}
      BY <1>8 DEF MapLock, CacheLock, SyncLock, TrendLock
    <2> QED
      BY <1>4, <1>5, <2>1, <2>3, <2>4, QuietStep DEF Late, MapPc, CachePc, TrendPc
  <1>9. CASE Use
    <2>1. UNCHANGED <<semset, mutexes, locks, log_open, memory, content, succeeded>> /\ build' = build
      BY <1>9 DEF Use, locking, logging
    <2>2. pc = "use" /\ pc' \in {"crash", "FreeSyncCache", "return"}
      BY <1>9 DEF Use
    <2>3. ASSUME "init_sync_cache" \in succeeded PROVE pc' # "crash"
      <3>1. Right("sync_items") /\ Right("sync_hmap")
        BY <2>3 DEF SetUpInv, OfCache
      <3>2. made["sync_items"].at > Heap /\ made["sync_hmap"].at > Heap
        BY <3>1 DEF Right
      <3>3. NotMade.at = -1
        BY DEF NotMade, Null
      <3>4. NotMade # made["sync_items"] /\ NotMade # made["sync_hmap"]
        BY <3>2, <3>3 DEF Heap
      <3> QED
        BY <1>9, <3>4 DEF Use
    <2> QED
      BY <1>4, <2>1, <2>2, <2>3, QuietStep DEF Late, MapPc, CachePc, TrendPc
  <1>10. CASE FreeSyncCache
    <2>1. MutexDestroy("cache_lock")
      BY <1>10 DEF FreeSyncCache
    <2>2. /\ UNCHANGED <<log_open, sizes, pools, segments, ids, ncache, made, succeeded>>
          /\ build' = build /\ cache' = Null
      BY <1>10 DEF FreeSyncCache, logging, memory
    <2>3. pc = "FreeSyncCache" /\ pc' = "FreeIdsLock"
      BY <1>10 DEF FreeSyncCache
    <2>4. TypeOK'
      <3>1. mutexes' \in 0 .. 255 /\ locks' \in [Lock -> -1 .. 3] /\ semset' \in BOOLEAN
        BY <1>3, <2>1 DEF Lock
      <3>2. {cache, ids, ncache}' \subseteq Null .. segments
        BY <1>1, <2>2 DEF TypeOK, Null
      <3> QED
        BY <1>1, <2>2, <3>1, <3>2 DEF TypeOK
    <2>5. SizesLeft'
      BY <2>3 DEF SizesLeft, Late, MapPc, CachePc
    <2>6. \A c \in Container : Right(c)' <=> Right(c)
      BY <2>2 DEF Right
    <2> QED
      BY <2>2, <2>3, <2>4, <2>5, <2>6 DEF SetUpInv, Late, TrendPc, Container, OfCache
  <1>11. CASE FreeIdsLock \/ FreeTrendsLock \/ CloseLog
    <2>1. UNCHANGED <<memory, content, succeeded>> /\ build' = build
      BY <1>11 DEF FreeIdsLock, FreeTrendsLock, CloseLog
    <2>2. (\E l \in Lock : MutexDestroy(l)) \/ UNCHANGED <<semset, mutexes, locks>>
      BY <1>11 DEF FreeIdsLock, FreeTrendsLock, CloseLog, Lock, locking
    <2>3. mutexes' \in 0 .. 255 /\ locks' \in [Lock -> -1 .. 3] /\ semset' \in BOOLEAN
      BY <1>3, <1>4, <2>2
    <2>4. log_open' \in BOOLEAN
      BY <1>4, <1>11 DEF FreeIdsLock, FreeTrendsLock, CloseLog, logging
    <2>5. pc' \in {"FreeTrendsLock", "CloseLog", "return"}
      BY <1>11 DEF FreeIdsLock, FreeTrendsLock, CloseLog
    <2> QED
      BY <2>1, <2>3, <2>4, <2>5, QuietStep DEF Late, MapPc, CachePc, TrendPc
  <1>12. CASE UNCHANGED vars
    <2>1. /\ UNCHANGED <<build, pc, semset, mutexes, locks, log_open, sizes, pools, segments>>
          /\ UNCHANGED <<cache, ids, ncache, made, succeeded>>
      BY <1>12 DEF vars, locking, logging, memory, content
    <2>2. TypeOK'
      BY <1>1, <2>1 DEF TypeOK
    <2>3. (SizesLeft' <=> SizesLeft) /\ (SyncRight' <=> SyncRight) /\ \A c : Right(c)' <=> Right(c)
      BY <2>1 DEF SizesLeft, SyncRight, Right
    <2> QED
      BY <2>1, <2>2, <2>3 DEF SetUpInv
  <1> QED
    BY <1>6, <1>7, <1>8, <1>9, <1>10, <1>11, <1>12, SetUpInvPool, SetUpInvContent DEF Next

(* When both inits have succeeded the cache that main works with is whole  *)
(* and lies where its containers allocate, whichever system calls fail and *)
(* however large the caches are; the reason is that init_sync_cache counts *)
(* as succeeded only where everything it has to make was made.             *)
THEOREM SetUpIsRight == Spec => []SetUpRight
  <1>1. SetUpInv => SetUpRight
    <2> SUFFICES ASSUME SetUpInv PROVE SetUpRight
      OBVIOUS
    <2>1. BothSucceeded => "init_sync_cache" \in succeeded
      BY DEF BothSucceeded
    <2> QED
      BY <2>1 DEF SetUpInv, SetUpRight, Right, Late
  <1> QED
    BY <1>1, SetUpInvInit, SetUpInvNext, PTL DEF Spec

-----------------------------------------------------------------------------
(* The count of locks that nt_mutexs.c keeps *)

Logged == IF locks["log_access"] = NoLock THEN 0 ELSE 1
Trends == IF Server THEN 1 ELSE 0

(* How many locks have been created, the log's among them, at each point   *)
(* of main, as long as nothing has failed *)
Counted ==
    /\ pc \in {"locks", "log"} => mutexes = 0 /\ Logged = 0
    /\ pc = "CacheLock" => mutexes = Logged
    /\ pc \in {"CachePool", "CacheContent", "SyncLock"} => mutexes = Logged + 1
    /\ pc \in {"SyncPool", "IndexPool", "SyncContent", "TrendLock"} => mutexes = Logged + 2
    /\ pc \in {"TrendPool", "TrendContent"} => mutexes = Logged + 3
    /\ "init_sync_cache" \in succeeded =>
         /\ pc \in {"use", "FreeSyncCache"} => mutexes = Logged + 2 + Trends
         /\ pc = "FreeIdsLock" => mutexes = Logged + 1 + Trends
         /\ pc = "FreeTrendsLock" => mutexes = Logged + 1
         /\ pc = "CloseLog" => mutexes = Logged

SetKept ==
    /\ pc \notin Late \cup {"locks", "exit", "crash"} => semset
    /\ "init_sync_cache" \in succeeded =>
         /\ pc \in Late \ {"CloseLog", "return"} => semset
         /\ pc = "CloseLog" /\ Logged = 1 => semset
         /\ pc = "CloseLog" /\ Logged = 0 => ~semset
         /\ pc = "return" => ~semset /\ ~log_open

LockInv ==
    build = "server" =>
        /\ pc \notin MapPc
        /\ pc = "FreeTrendsLock" => Server
        /\ locks["log_access"] \in {NoLock, 0}
        /\ \A l \in Lock \ {"log_access"} : locks[l] # 0
        /\ pc \notin {"locks", "log", "exit", "return"} => (log_type = "system" <=> Logged = 0)
        /\ Counted
        /\ SetKept

LEMMA LockInvInit == Init => LockInv
  <1> SUFFICES ASSUME Init, build = "server" PROVE LockInv
    BY DEF LockInv
  <1>1. pc = "locks" /\ succeeded = {} /\ mutexes = 0
    BY DEF Init
  <1>2. locks = [l \in Lock |-> NoLock]
    BY DEF Init
  <1>3. locks["log_access"] = NoLock /\ \A l \in Lock : locks[l] # 0
    BY <1>2 DEF Lock, NoLock
  <1> QED
    BY <1>1, <1>3 DEF LockInv, Counted, SetKept, Logged, MapPc, Late

(* nt_mutex_create of a lock other than the log's *)
LEMMA CreateCounts ==
  ASSUME TypeOK, NEW l \in Lock \ {"log_access"}, NEW k \in {1, 2}, MutexCreate(l, k), mutexes < 255,
         \A i \in Lock \ {"log_access"} : locks[i] # 0
  PROVE  /\ mutexes' = mutexes + 1 /\ locks'["log_access"] = locks["log_access"]
         /\ \A i \in Lock \ {"log_access"} : locks'[i] # 0
  <1>1. mutexes \in 0 .. 255 /\ locks \in [Lock -> -1 .. 3]
    BY DEF TypeOK
  <1>2. mutexes' = mutexes + 1
    BY <1>1 DEF MutexCreate
  <1>3. locks' = [locks EXCEPT ![l] = k]
    BY DEF MutexCreate
  <1> QED
    BY <1>1, <1>2, <1>3 DEF Lock

(* nt_mutex_destroy of a lock other than the log's *)
LEMMA DestroyCounts ==
  ASSUME TypeOK, NEW l \in Lock \ {"log_access"}, MutexDestroy(l), mutexes > 0,
         \A i \in Lock \ {"log_access"} : locks[i] # 0
  PROVE  /\ mutexes' = mutexes - 1 /\ locks'["log_access"] = locks["log_access"]
         /\ \A i \in Lock \ {"log_access"} : locks'[i] # 0
         /\ mutexes' # 0 /\ semset => semset'
         /\ mutexes' = 0 => ~semset'
  <1>1. mutexes \in 0 .. 255 /\ locks \in [Lock -> -1 .. 3]
    BY DEF TypeOK
  <1>2. mutexes' = mutexes - 1
    BY <1>1 DEF MutexDestroy
  <1>3. locks' = [locks EXCEPT ![l] = NoLock]
    BY DEF MutexDestroy
  <1>4. locks'["log_access"] = locks["log_access"] /\ \A i \in Lock \ {"log_access"} : locks'[i] # 0
    BY <1>1, <1>3 DEF Lock, NoLock
  <1>5. semset' <=> (semset /\ mutexes' # 0)
    BY DEF MutexDestroy
  <1> QED
    BY <1>2, <1>4, <1>5

LEMMA LockInvNext == SetUpInv /\ LockInv /\ [Next]_vars => LockInv'
  <1> SUFFICES ASSUME SetUpInv, LockInv, [Next]_vars PROVE LockInv'
    OBVIOUS
  <1>0. build' = build
    <2>1. CASE LocksCreate \/ \E type \in {"file", "console", "undefined", "system", "other"} : OpenLog(type)
      BY <2>1 DEF LocksCreate, OpenLog, Goto
    <2>2. CASE MapLock \/ MapPool \/ MapContent \/ CacheLock \/ CachePool \/ CacheContent
      BY <2>2 DEF MapLock, MapPool, MapContent, CacheLock, CachePool, CacheContent, MemCreate, Goto
    <2>3. CASE SyncLock \/ SyncPool \/ IndexPool \/ SyncContent
      BY <2>3 DEF SyncLock, SyncPool, IndexPool, SyncContent, MemCreate, Goto
    <2>4. CASE TrendLock \/ TrendPool \/ TrendContent
      BY <2>4 DEF TrendLock, TrendPool, TrendContent, MemCreate, Goto
    <2>5. CASE Use \/ FreeSyncCache \/ FreeIdsLock \/ FreeTrendsLock \/ CloseLog
      BY <2>5 DEF Use, FreeSyncCache, FreeIdsLock, FreeTrendsLock, CloseLog, Goto
    <2>6. CASE UNCHANGED vars
      BY <2>6 DEF vars
    <2> QED
      BY <2>1, <2>2, <2>3, <2>4, <2>5, <2>6 DEF Next
  <1> SUFFICES ASSUME build = "server" PROVE LockInv'
    BY <1>0 DEF LockInv
  <1>1. /\ TypeOK /\ mutexes \in 0 .. 255 /\ locks \in [Lock -> -1 .. 3]
        /\ "init_sync_cache" \in succeeded => pc \in Late
    BY DEF SetUpInv, TypeOK
  <1>2. /\ pc \notin MapPc /\ (pc = "FreeTrendsLock" => Server)
        /\ locks["log_access"] \in {NoLock, 0}
        /\ \A l \in Lock \ {"log_access"} : locks[l] # 0
        /\ pc \notin {"locks", "log", "exit", "return"} => (log_type = "system" <=> Logged = 0)
        /\ Counted /\ SetKept
    BY DEF LockInv
  <1>a. Logged \in {0, 1} /\ Trends \in {0, 1} /\ (Server <=> Trends = 1) /\ Trends' = Trends
    BY DEF Logged, Trends
  <1>b. locks'["log_access"] = locks["log_access"] => Logged' = Logged
    BY DEF Logged
  <1> USE DEF Goto, Late, MapPc
  <1>3. CASE LocksCreate
    <2>0. PICK ok \in BOOLEAN : Goto("locks", IF ok THEN "log" ELSE "exit") /\ semset' = ok
      BY <1>3 DEF LocksCreate
    <2>1. pc = "locks" /\ pc' \in {"exit", "log"} /\ (pc' = "log" => semset')
      <3>1. CASE ok
        BY <2>0, <3>1
      <3>2. CASE ~ok
        BY <2>0, <3>2
      <3> QED
        BY <3>1, <3>2
    <2>2. UNCHANGED <<mutexes, locks, succeeded>>
      BY <1>3 DEF LocksCreate
    <2> QED
      BY <1>1, <1>2, <2>1, <2>2 DEF LockInv, Counted, SetKept, Logged
  <1>4. ASSUME NEW type \in {"file", "console", "undefined", "system", "other"}, OpenLog(type)
        PROVE  LockInv'
    <2>1. /\ pc = "log" /\ pc' \in {"CacheLock", "exit"} /\ log_type' = type
          /\ UNCHANGED <<semset, succeeded>>
      BY <1>4 DEF OpenLog
    <2>2. CASE type # "system" /\ MutexCreate("log_access", 0)
      <3>1. mutexes' = 1
        <4>1. mutexes = 0
          BY <1>2, <2>1 DEF Counted
        <4> QED
          BY <2>2, <4>1 DEF MutexCreate
      <3>2. locks \in [Lock -> -1 .. 3] /\ locks' = [locks EXCEPT !["log_access"] = 0]
        BY <1>1, <2>2 DEF TypeOK, MutexCreate
      <3>3. locks'["log_access"] = 0 /\ \A l \in Lock \ {"log_access"} : locks'[l] # 0
        BY <1>2, <3>2 DEF Lock
      <3>4. Logged' = 1
        BY <3>3 DEF Logged, NoLock
      <3>5. Counted' /\ SetKept'
        BY <1>1, <1>2, <2>1, <3>1, <3>4 DEF Counted, SetKept
      <3> QED
        BY <2>1, <2>2, <3>3, <3>4, <3>5 DEF LockInv
    <2>3. CASE UNCHANGED <<mutexes, locks>> /\ (type = "system" \/ pc' = "exit")
      BY <1>1, <1>2, <2>1, <2>3 DEF LockInv, Counted, SetKept, Logged
    <2> QED
      BY <1>4, <2>2, <2>3 DEF OpenLog
  <1>5. CASE CacheLock \/ SyncLock \/ TrendLock
    <2>1. UNCHANGED <<semset, log_type, log_open, succeeded>>
      BY <1>5 DEF CacheLock, SyncLock, TrendLock, logging
    <2>2. /\ <<pc, pc'>> \in {<<"CacheLock", "CachePool">>, <<"SyncLock", "SyncPool">>,
                             <<"TrendLock", "TrendPool">>}
      BY <1>5 DEF CacheLock, SyncLock, TrendLock
    <2>3. mutexes < 255
      BY <1>1, <1>2, <1>a, <2>2 DEF Counted
    <2>4. MutexCreate("sync_lock", 2) \/ MutexCreate("cache_lock", 1) \/ MutexCreate("trends_lock", 2)
      BY <1>5 DEF CacheLock, SyncLock, TrendLock
    <2>5. /\ mutexes' = mutexes + 1 /\ locks'["log_access"] = locks["log_access"]
          /\ \A i \in Lock \ {"log_access"} : locks'[i] # 0
      BY <1>1, <1>2, <2>3, <2>4, CreateCounts DEF Lock
    <2>6. Logged' = Logged
      BY <1>b, <2>5
    <2>7. "init_sync_cache" \notin succeeded'
      BY <1>1, <2>1, <2>2
    <2>8. Counted'
      BY <1>1, <1>2, <1>a, <2>2, <2>5, <2>6, <2>7 DEF Counted
    <2>9. SetKept'
      BY <1>2, <2>1, <2>2, <2>7 DEF SetKept
    <2> QED
      BY <1>2, <2>1, <2>2, <2>5, <2>6, <2>8, <2>9 DEF LockInv
  <1>6. CASE CachePool \/ SyncPool \/ IndexPool \/ TrendPool \/ CacheContent \/ SyncContent \/ TrendContent
    <2>1. UNCHANGED <<semset, mutexes, locks, log_type, log_open>>
      BY <1>6 DEF CachePool, SyncPool, IndexPool, TrendPool, CacheContent, SyncContent, TrendContent,
         locking, logging
    <2>3. Logged' = Logged
      BY <2>1 DEF Logged
    <2>2. ASSUME Counted', SetKept', pc' \notin {"log", "locks", "exit", "return", "FreeTrendsLock"},
                 pc' \notin MapPc, pc \notin {"locks", "log", "exit", "return"}
          PROVE  LockInv'
      BY <1>2, <2>1, <2>2, <2>3 DEF LockInv
    <2>4. CASE CachePool \/ CacheContent
      <3>1. pc \in {"CachePool", "CacheContent"} /\ pc' \in {"CacheContent", "SyncLock"}
        BY <2>4 DEF CachePool, CacheContent, MemCreate, AfterCache
      <3>2. "init_sync_cache" \notin succeeded'
        <4>1. "init_sync_cache" \notin succeeded /\ succeeded' \in {succeeded, succeeded \cup {"init_cache"}}
          BY <1>1, <2>4, <3>1 DEF CachePool, CacheContent
        <4> QED
          BY <4>1
      <3>3. Counted' /\ SetKept'
        BY <1>2, <2>1, <2>3, <3>1, <3>2 DEF Counted, SetKept
      <3> QED
        BY <2>2, <3>1, <3>3
    <2>5. CASE SyncPool \/ IndexPool \/ (SyncContent /\ Server)
      <3>1. /\ pc \in {"SyncPool", "IndexPool", "SyncContent"}
            /\ pc' \in {"IndexPool", "SyncContent", "TrendLock", "use"}
        BY <2>5 DEF SyncPool, IndexPool, SyncContent, MemCreate
      <3>2. "init_sync_cache" \notin succeeded'
        BY <1>1, <2>5, <3>1 DEF SyncPool, IndexPool, SyncContent
      <3>3. Counted' /\ SetKept'
        BY <1>2, <2>1, <2>3, <3>1, <3>2 DEF Counted, SetKept
      <3> QED
        BY <2>2, <3>1, <3>3
    <2>6. CASE TrendPool
      <3>1. pc = "TrendPool" /\ pc' \in {"TrendContent", "use"}
        BY <2>6 DEF TrendPool, MemCreate
      <3>2. "init_sync_cache" \notin succeeded'
        BY <1>1, <2>6, <3>1 DEF TrendPool
      <3>3. Counted' /\ SetKept'
        BY <1>2, <2>1, <2>3, <3>1, <3>2 DEF Counted, SetKept
      <3> QED
        BY <2>2, <3>1, <3>3
    <2>7. CASE SyncContent /\ ~Server
      <3>1. pc = "SyncContent" /\ pc' = "use" /\ Trends' = 0
        BY <2>7 DEF SyncContent, Trends
      <3>2. mutexes' = Logged' + 2 + Trends'
        BY <1>2, <1>a, <2>1, <2>3, <3>1 DEF Counted
      <3>3. semset'
        BY <1>2, <2>1, <3>1 DEF SetKept
      <3> QED
        BY <2>2, <3>1, <3>2, <3>3 DEF Counted, SetKept
    <2>8. CASE TrendContent
      <3>1. pc = "TrendContent" /\ pc' = "use" /\ Server
        BY <2>8 DEF TrendContent, SetUpInv, TrendPc
      <3>2. mutexes' = Logged' + 2 + Trends'
        BY <1>2, <1>a, <2>1, <2>3, <3>1 DEF Counted
      <3>3. semset'
        BY <1>2, <2>1, <3>1 DEF SetKept
      <3> QED
        BY <2>2, <3>1, <3>2, <3>3 DEF Counted, SetKept
    <2> QED
      BY <1>6, <2>4, <2>5, <2>6, <2>7, <2>8
  <1>7. CASE Use
    <2>1. UNCHANGED <<semset, mutexes, locks, log_type, log_open, succeeded>>
      BY <1>7 DEF Use, locking, logging
    <2>2. pc = "use" /\ pc' \in {"crash", "FreeSyncCache"}
      BY <1>7 DEF Use
    <2> QED
      BY <1>2, <2>1, <2>2 DEF LockInv, Counted, SetKept, Logged, Trends
  <1>8. CASE FreeSyncCache \/ FreeIdsLock \/ FreeTrendsLock
    <2>1. UNCHANGED <<log_type, log_open, succeeded>>
      BY <1>8 DEF FreeSyncCache, FreeIdsLock, FreeTrendsLock, logging
    <2>2. \/ MutexDestroy("cache_lock") \/ MutexDestroy("cache_ids_lock")
          \/ MutexDestroy("trends_lock")
      BY <1>8 DEF FreeSyncCache, FreeIdsLock, FreeTrendsLock
    <2>3. \/ pc = "FreeSyncCache" /\ pc' = "FreeIdsLock"
          \/ pc = "FreeIdsLock" /\ Server /\ pc' = "FreeTrendsLock"
          \/ pc = "FreeIdsLock" /\ ~Server /\ pc' = "CloseLog"
          \/ pc = "FreeTrendsLock" /\ Server /\ pc' = "CloseLog"
      BY <1>2, <1>8 DEF FreeSyncCache, FreeIdsLock, FreeTrendsLock
    <2>5. locks' = [locks EXCEPT !["cache_lock"] = NoLock]
            \/ locks' = [locks EXCEPT !["cache_ids_lock"] = NoLock]
            \/ locks' = [locks EXCEPT !["trends_lock"] = NoLock]
      BY <2>2 DEF MutexDestroy
    <2>6. PICK l \in Lock \ {"log_access"} : locks' = [locks EXCEPT ![l] = NoLock]
      BY <2>5 DEF Lock
    <2>7. /\ locks'["log_access"] = locks["log_access"]
          /\ \A i \in Lock \ {"log_access"} : locks'[i] # 0
      BY <1>1, <1>2, <2>6 DEF Lock, NoLock
    <2>8. Logged' = Logged
      BY <1>b, <2>7
    <2>9. CASE "init_sync_cache" \notin succeeded
      BY <1>2, <2>1, <2>3, <2>7, <2>8, <2>9 DEF LockInv, Counted, SetKept
    <2>10. CASE "init_sync_cache" \in succeeded
      <3>0. mutexes > 0
        BY <1>1, <1>2, <1>a, <2>3, <2>10 DEF Counted
      <3>1. semset
        BY <1>2, <2>3, <2>10 DEF SetKept
      <3>2. /\ mutexes' = mutexes - 1
            /\ mutexes' # 0 /\ semset => semset'
            /\ mutexes' = 0 => ~semset'
        BY <1>1, <1>2, <2>2, <3>0, DestroyCounts DEF Lock
      <3>3. Counted'
        <4>1. CASE pc = "FreeSyncCache" /\ pc' = "FreeIdsLock"
          <5>1. mutexes = Logged + 2 + Trends
            BY <1>2, <2>10, <4>1 DEF Counted
          <5> QED
            BY <1>1, <1>a, <2>8, <3>2, <4>1, <5>1 DEF Counted
        <4>2. CASE pc = "FreeIdsLock" /\ Server /\ pc' = "FreeTrendsLock"
          <5>1. mutexes = Logged + 2
            BY <1>2, <1>a, <2>10, <4>2 DEF Counted
          <5> QED
            BY <1>1, <1>a, <2>8, <3>2, <4>2, <5>1 DEF Counted
        <4>3. CASE pc = "FreeIdsLock" /\ ~Server /\ pc' = "CloseLog"
          <5>1. mutexes = Logged + 1
            BY <1>2, <1>a, <2>10, <4>3 DEF Counted
          <5> QED
            BY <1>1, <1>a, <2>8, <3>2, <4>3, <5>1 DEF Counted
        <4>4. CASE pc = "FreeTrendsLock" /\ Server /\ pc' = "CloseLog"
          <5>1. mutexes = Logged + 1
            BY <1>2, <2>10, <4>4 DEF Counted
          <5> QED
            BY <1>1, <1>a, <2>8, <3>2, <4>4, <5>1 DEF Counted
        <4> QED
          BY <2>3, <4>1, <4>2, <4>3, <4>4
      <3>4. SetKept'
        <4>1. pc' = "CloseLog" => mutexes' = Logged'
          BY <2>1, <2>10, <3>3 DEF Counted
        <4>2. pc' \in {"FreeIdsLock", "FreeTrendsLock"} => mutexes' # 0
          BY <1>a, <2>1, <2>8, <2>10, <3>3 DEF Counted
        <4>3. CASE pc' \in {"FreeIdsLock", "FreeTrendsLock"}
          BY <3>1, <3>2, <4>2, <4>3 DEF SetKept
        <4>4. CASE pc' = "CloseLog" /\ Logged' = 0
          BY <3>2, <4>1, <4>4 DEF SetKept
        <4>5. CASE pc' = "CloseLog" /\ Logged' = 1
          <5>1. mutexes' # 0
            BY <4>1, <4>5
          <5>2. semset'
            BY <3>1, <3>2, <5>1
          <5> QED
            BY <4>5, <5>2 DEF SetKept
        <4> QED
          BY <1>a, <2>3, <2>8, <4>3, <4>4, <4>5
      <3> QED
        BY <1>2, <2>1, <2>3, <2>7, <2>8, <3>3, <3>4 DEF LockInv
    <2> QED
      BY <2>9, <2>10
  <1>9. CASE CloseLog
    <2>1. pc = "CloseLog" /\ pc' = "return" /\ log_open' = FALSE /\ succeeded' = succeeded
      BY <1>9 DEF CloseLog
    <2>2. CASE log_type = "system"
      <3>1. UNCHANGED <<semset, mutexes, locks>>
        BY <1>9, <2>2 DEF CloseLog, locking
      <3> QED
        BY <1>2, <2>1, <2>2, <3>1 DEF LockInv, Counted, SetKept
    <2>3. CASE log_type # "system"
      <3>1. MutexDestroy("log_access") /\ Logged = 1
        BY <1>2, <1>9, <2>1, <2>3 DEF CloseLog, Logged
      <3>2. locks \in [Lock -> -1 .. 3] /\ locks' = [locks EXCEPT !["log_access"] = NoLock]
        BY <1>1, <3>1 DEF TypeOK, MutexDestroy
      <3>3. locks'["log_access"] = NoLock /\ \A i \in Lock \ {"log_access"} : locks'[i] # 0
        BY <1>2, <3>2 DEF Lock
      <3>4. "init_sync_cache" \in succeeded => mutexes' = 0
        <4>1. "init_sync_cache" \in succeeded => mutexes = 1
          BY <1>2, <2>1, <3>1 DEF Counted
        <4> QED
          BY <3>1, <4>1 DEF MutexDestroy
      <3>5. "init_sync_cache" \in succeeded => ~semset'
        BY <3>1, <3>4 DEF MutexDestroy
      <3> QED
        BY <2>1, <3>3, <3>5 DEF LockInv, Counted, SetKept
    <2> QED
      BY <2>2, <2>3
  <1>10. CASE MapLock \/ MapPool \/ MapContent
    BY <1>2, <1>10 DEF MapLock, MapPool, MapContent, MemCreate
  <1>11. CASE UNCHANGED vars
    <2>1. UNCHANGED <<build, pc, semset, mutexes, locks, log_type, log_open, succeeded>>
      BY <1>11 DEF vars, locking, logging
    <2> QED
      BY <1>2, <2>1 DEF LockInv, Counted, SetKept, Logged, Trends
  <1> QED
    BY <1>3, <1>4, <1>5, <1>6, <1>7, <1>8, <1>9, <1>10, <1>11 DEF Next

(* As long as the log is open its lock is a semaphore that exists and that *)
(* no other lock stands for, although the count of nt_mutexs.c knows only  *)
(* how many locks there are and nt_shm.c destroys others than it creates;  *)
(* and the set is gone when main returns: in sum the count comes out even. *)
THEOREM LogLockKept == Spec => []LogKeepsItsLock
  <1>1. SetUpInv /\ LockInv => LogKeepsItsLock
    <2> SUFFICES ASSUME SetUpInv, LockInv, BothSucceeded, build = "server"
                 PROVE  /\ log_open /\ locks["log_access"] # NoLock =>
                             /\ semset /\ locks["log_access"] \in Semaphores
                             /\ \A l \in Lock \ {"log_access"} : locks[l] # locks["log_access"]
                        /\ pc = "return" => ~semset
      BY DEF LogKeepsItsLock
    <2>1. "init_sync_cache" \in succeeded /\ pc \in Late
      BY DEF SetUpInv, BothSucceeded
    <2>2. SetKept /\ locks["log_access"] \in {NoLock, 0}
          /\ \A l \in Lock \ {"log_access"} : locks[l] # 0
      BY DEF LockInv
    <2>3. pc = "return" => ~semset /\ ~log_open
      BY <2>1, <2>2 DEF SetKept
    <2>4. ASSUME log_open, locks["log_access"] # NoLock PROVE semset
      BY <2>1, <2>2, <2>3, <2>4 DEF SetKept, Logged, Late
    <2> QED
      BY <2>2, <2>3, <2>4 DEF Semaphores
  <1>2. Init => SetUpInv /\ LockInv
    BY SetUpInvInit, LockInvInit
  <1>3. SetUpInv /\ LockInv /\ [Next]_vars => (SetUpInv /\ LockInv)'
    BY SetUpInvNext, LockInvNext
  <1> QED
    BY <1>1, <1>2, <1>3, PTL DEF Spec

=============================================================================
