--------------------------- MODULE NetServer_proofs ---------------------------
(***************************************************************************)
(* Proofs about NetServer, for any clients, any finite set of workers, any *)
(* descriptors, queue length and number of events in a round.              *)
(***************************************************************************)
EXTENDS NetServer, FiniteSetTheorems, SequenceTheorems, WellFoundedInduction, TLAPS

Known == Fd \cup {Listen}
Handling == pc \in {"read", "failed", "push", "close"}

Types ==
    /\ fifo \in Seq(Task) /\ Len(fifo) <= MaxLength
    /\ offered \in [{Server} -> Task \cup {NoTask}]
    /\ taken \in [Worker -> Task \cup {NoTask}]
    /\ unread \in [Client -> Nat] /\ sent \in [Client -> Nat] /\ served \in [Client -> Nat]
    /\ fds \in [Fd -> Client \cup {NoClient}]
    /\ backlog \in Seq(Client)
    /\ ready \in Seq(Known)
    /\ events \in Seq([fd : Known, client : Client \cup {NoClient}])
    /\ conn \in Known
    /\ pc \in {"wait", "next", "accept", "read", "failed", "push", "close", "ended"}

(* A client is in one place: it waits in the backlog once, or has one      *)
(* descriptor; epoll has every open descriptor at most once.               *)
Places ==
    /\ IsInjective(backlog)
    /\ \A c \in ToSet(backlog) : FdsOf(c) = {}
    /\ \A f, g \in Fd : fds[f] = fds[g] /\ ~Free(f) => f = g
    /\ \A c \in Client : unread[c] <= sent[c]
    /\ IsInjective(ready)
    /\ \A f \in ToSet(ready) \ {Listen} : ~Free(f)

(* The events that are left are of other descriptors than the one that is  *)
(* being handled, and these are still whose they were.                     *)
Round ==
    /\ \A i, j \in DOMAIN events : events[i].fd = events[j].fd => i = j
    /\ \A i \in DOMAIN events :
         events[i].fd # Listen =>
           fds[events[i].fd] = events[i].client /\ ~Free(events[i].fd)
    /\ pc \in {"wait", "ended"} => events = <<>>
    /\ pc = "accept" => conn = Listen
    /\ Handling => conn # Listen /\ \A i \in DOMAIN events : events[i].fd # conn
    /\ pc \in {"failed", "push", "close"} => ~Free(conn)

(* What the server must hear of is reported, will be looked at in this     *)
(* round, or is being handled.                                             *)
Readable(f) == ~Free(f) /\ (unread[fds[f]] > 0 \/ fds[f] \in shut)
Wakeups ==
    \A f \in Fd : Readable(f) =>
        \/ f \in ToSet(ready)
        \/ \E i \in DOMAIN events : events[i].fd = f
        \/ Handling /\ conn = f

(* A client has a task only if it has sent something, at most one, and its *)
(* connection is being closed or is closed.                                *)
Single ==
    /\ (pc = "push") <=> (offered[Server] # NoTask)
    /\ pc = "push" => offered[Server].from = fds[conn]
    /\ \A c \in Client :
         /\ TasksOf(c) <= 1
         /\ TasksOf(c) >= 1 =>
              /\ sent[c] > 0 /\ c \notin ToSet(backlog)
              /\ FdsOf(c) # {} => pc \in {"push", "close"} /\ fds[conn] = c

NetInv == Types /\ Places /\ Round /\ Wakeups /\ Single

-----------------------------------------------------------------------------
(* Sequences without repetition, and the sets of what is in them *)

LEMMA LeastOf ==
  ASSUME NEW T, T \subseteq Nat, T # {}
  PROVE  Min(T) \in T /\ \A y \in T : Min(T) <= y
  <1>1. PICK x \in T : \A y \in T : ~(<<y, x>> \in OpToRel(<, Nat))
    BY NatLessThanWellFounded, WFMin
  <1>2. ASSUME NEW y \in T PROVE x <= y
    <2>1. ~(y < x)
      BY <1>1 DEF OpToRel
    <2> QED
      BY <2>1
  <1> QED
    BY <1>2 DEF Min

LEMMA InSet ==
  ASSUME NEW S, NEW s \in Seq(S), NEW x
  PROVE  x \in ToSet(s) <=> \E i \in 1 .. Len(s) : s[i] = x
  BY DEF ToSet

LEMMA AppendSet ==
  ASSUME NEW S, NEW s \in Seq(S), NEW x \in S
  PROVE  /\ ToSet(Append(s, x)) = ToSet(s) \cup {x}
         /\ IsInjective(s) /\ x \notin ToSet(s) => IsInjective(Append(s, x))
         /\ Append(s, x) \in Seq(S)
  <1> DEFINE t == Append(s, x)
             n == Len(s) + 1
  <1>1. /\ t \in Seq(S) /\ DOMAIN t = 1 .. n /\ t[n] = x /\ \A i \in 1 .. Len(s) : t[i] = s[i]
        /\ DOMAIN s = 1 .. Len(s) /\ Len(s) \in Nat
    BY AppendProperties
  <1> HIDE DEF t
  <1>2. \A i \in 1 .. n : i \in 1 .. Len(s) \/ i = n
    BY <1>1
  <1>3. n \in 1 .. n /\ n \notin 1 .. Len(s) /\ 1 .. Len(s) \subseteq 1 .. n
    BY <1>1
  <1>4. \A y : y \in ToSet(t) <=> y \in ToSet(s) \/ y = x
    BY <1>1, <1>2, <1>3 DEF ToSet
  <1>5. ASSUME IsInjective(s), x \notin ToSet(s), NEW i \in 1 .. n, NEW j \in 1 .. n, t[i] = t[j]
        PROVE  i = j
    BY <1>1, <1>2, <1>5 DEF IsInjective, ToSet
  <1>6. IsInjective(s) /\ x \notin ToSet(s) => IsInjective(t)
    BY <1>1, <1>5 DEF IsInjective
  <1> QED
    BY <1>1, <1>4, <1>6 DEF t

LEMMA ReportIs ==
  ASSUME NEW S, NEW s \in Seq(S), NEW x \in S, IsInjective(s)
  PROVE  /\ Report(s, x) \in Seq(S)
         /\ IsInjective(Report(s, x))
         /\ ToSet(Report(s, x)) = ToSet(s) \cup {x}
  BY AppendSet DEF Report

LEMMA TailSet ==
  ASSUME NEW S, NEW s \in Seq(S), s # <<>>, IsInjective(s)
  PROVE  /\ Tail(s) \in Seq(S) /\ IsInjective(Tail(s)) /\ Head(s) \in S
         /\ ToSet(Tail(s)) = ToSet(s) \ {Head(s)} /\ Head(s) \in ToSet(s)
  <1>1. /\ Tail(s) \in Seq(S) /\ Len(Tail(s)) = Len(s) - 1 /\ Len(s) \in Nat \ {0}
        /\ \A i \in 1 .. Len(s) - 1 : Tail(s)[i] = s[i + 1]
        /\ Head(s) = s[1]
    OBVIOUS
  <1>2. IsInjective(Tail(s)) /\ Head(s) \in ToSet(s)
    BY <1>1 DEF IsInjective, ToSet
  <1> DEFINE t == Tail(s)
  <1>4. /\ t \in Seq(S) /\ DOMAIN t = 1 .. Len(s) - 1 /\ DOMAIN s = 1 .. Len(s)
        /\ \A i \in 1 .. Len(s) - 1 : t[i] = s[i + 1]
    BY <1>1
  <1> HIDE DEF t
  <1>3. ASSUME NEW x PROVE x \in ToSet(t) <=> x \in ToSet(s) \ {Head(s)}
    <2>1. ASSUME x \in ToSet(t) PROVE x \in ToSet(s) /\ x # Head(s)
      <3>1. PICK i \in 1 .. Len(s) - 1 : x = s[i + 1]
        BY <1>4, <2>1 DEF ToSet
      <3>2. i + 1 \in DOMAIN s /\ 1 \in DOMAIN s /\ i + 1 # 1
        BY <1>1
      <3> QED
        BY <1>1, <3>1, <3>2 DEF IsInjective, ToSet
    <2>2. ASSUME NEW i \in 1 .. Len(s), x = s[i], x # s[1] PROVE x \in ToSet(t)
      <3>1. i - 1 \in DOMAIN t /\ t[i - 1] = x
        <4>1. i # 1 /\ i - 1 \in 1 .. Len(s) - 1 /\ (i - 1) + 1 = i
          BY <1>1, <2>2
        <4> QED
          BY <1>4, <2>2, <4>1
      <3> QED
        BY <3>1 DEF ToSet
    <2> QED
      BY <1>1, <1>4, <2>1, <2>2 DEF ToSet
  <1> QED
    BY <1>1, <1>2, <1>3 DEF t

LEMMA CutSeq ==
  ASSUME NEW S, NEW s \in Seq(S), NEW n \in 0 .. Len(s), IsInjective(s)
  PROVE  LET a == SubSeq(s, 1, n)
             b == SubSeq(s, n + 1, Len(s))
         IN  /\ a \in Seq(S) /\ b \in Seq(S) /\ Len(a) = n /\ Len(b) = Len(s) - n
             /\ \A i \in 1 .. n : a[i] = s[i]
             /\ \A i \in 1 .. Len(s) - n : b[i] = s[n + i]
             /\ IsInjective(a) /\ IsInjective(b)
             /\ ToSet(a) \cup ToSet(b) = ToSet(s) /\ ToSet(a) \cap ToSet(b) = {}
  <1> DEFINE a == SubSeq(s, 1, n)
             b == SubSeq(s, n + 1, Len(s))
  <1>1. /\ a \in Seq(S) /\ b \in Seq(S) /\ Len(a) = n /\ Len(b) = Len(s) - n
        /\ \A i \in 1 .. n : a[i] = s[i]
        /\ \A i \in 1 .. Len(s) - n : b[i] = s[n + i]
    OBVIOUS
  <1>2. DOMAIN a = 1 .. n /\ DOMAIN b = 1 .. Len(s) - n /\ DOMAIN s = 1 .. Len(s) /\ Len(s) \in Nat
    BY <1>1
  <1> HIDE DEF a, b
  <1>3. IsInjective(a) /\ IsInjective(b)
    <2>1. ASSUME NEW i \in 1 .. n, NEW j \in 1 .. n, a[i] = a[j] PROVE i = j
      <3>1. i \in 1 .. Len(s) /\ j \in 1 .. Len(s) /\ s[i] = s[j]
        BY <1>1, <1>2, <2>1
      <3> QED
        BY <1>2, <3>1 DEF IsInjective
    <2>2. ASSUME NEW i \in 1 .. Len(s) - n, NEW j \in 1 .. Len(s) - n, b[i] = b[j] PROVE i = j
      <3>1. n + i \in 1 .. Len(s) /\ n + j \in 1 .. Len(s) /\ s[n + i] = s[n + j]
        BY <1>1, <1>2, <2>2
      <3> QED
        BY <1>2, <3>1 DEF IsInjective
    <2> QED
      BY <1>2, <2>1, <2>2 DEF IsInjective
  <1>4. ToSet(a) \cap ToSet(b) = {}
    <2> SUFFICES ASSUME NEW i \in 1 .. n, NEW j \in 1 .. Len(s) - n, a[i] = b[j] PROVE FALSE
      BY <1>2 DEF ToSet
    <2>1. i \in DOMAIN s /\ n + j \in DOMAIN s /\ i # n + j /\ s[i] = s[n + j]
      BY <1>1, <1>2
    <2> QED
      BY <2>1 DEF IsInjective
  <1>5. ToSet(a) \cup ToSet(b) \subseteq ToSet(s)
    <2>1. ASSUME NEW i \in 1 .. n PROVE a[i] \in ToSet(s)
      <3>1. i \in DOMAIN s /\ s[i] = a[i]
        BY <1>1, <1>2
      <3> QED
        BY <3>1 DEF ToSet
    <2>2. ASSUME NEW j \in 1 .. Len(s) - n PROVE b[j] \in ToSet(s)
      <3>1. n + j \in DOMAIN s /\ s[n + j] = b[j]
        BY <1>1, <1>2
      <3> QED
        BY <3>1 DEF ToSet
    <2> QED
      BY <1>2, <2>1, <2>2 DEF ToSet
  <1>6. ASSUME NEW i \in 1 .. Len(s) PROVE s[i] \in ToSet(a) \cup ToSet(b)
    <2>1. CASE i <= n
      <3>1. i \in DOMAIN a /\ s[i] = a[i]
        BY <1>1, <1>2, <2>1
      <3> QED
        BY <3>1 DEF ToSet
    <2>2. CASE i > n
      <3>1. i - n \in 1 .. Len(s) - n /\ b[i - n] = s[i]
        BY <1>1, <2>2
      <3> QED
        BY <1>2, <3>1 DEF ToSet
    <2> QED
      BY <2>1, <2>2
  <1>7. ToSet(s) \subseteq ToSet(a) \cup ToSet(b)
    BY <1>2, <1>6 DEF ToSet
  <1> QED
    BY <1>1, <1>3, <1>4, <1>5, <1>7 DEF a, b

LEMMA RemoveIs ==
  ASSUME NEW S, NEW s \in Seq(S), NEW x, IsInjective(s)
  PROVE  /\ RemoveFirst(s, x) \in Seq(S)
         /\ IsInjective(RemoveFirst(s, x))
         /\ ToSet(RemoveFirst(s, x)) = ToSet(s) \ {x}
  <1>1. CASE x \notin ToSet(s)
    <2>1. RemoveFirst(s, x) = s
      BY <1>1 DEF RemoveFirst, ToSet
    <2> QED
      BY <1>1, <2>1
  <1>2. CASE x \in ToSet(s)
    <2> DEFINE I == {i \in 1 .. Len(s) : s[i] = x}
               k == Min(I)
    <2>1. I # {} /\ I \subseteq Nat /\ \E i \in 1 .. Len(s) : s[i] = x
      BY <1>2 DEF ToSet
    <2>2. k \in 1 .. Len(s) /\ s[k] = x
      BY <2>1, LeastOf
    <2>3. RemoveFirst(s, x) = RemoveAt(s, k)
      BY <2>1 DEF RemoveFirst, SelectInSeq
    <2> HIDE DEF k
    <2> DEFINE a == SubSeq(s, 1, k - 1)
               b == SubSeq(s, k + 1, Len(s))
               r == a \o b
    <2>4. /\ a \in Seq(S) /\ Len(a) = k - 1 /\ \A i \in 1 .. k - 1 : a[i] = s[i]
          /\ b \in Seq(S) /\ Len(b) = Len(s) - k /\ \A i \in 1 .. Len(s) - k : b[i] = s[k + i]
          /\ Len(s) \in Nat /\ DOMAIN s = 1 .. Len(s)
      BY <2>2
    <2> HIDE DEF a, b
    <2>5. /\ r \in Seq(S) /\ Len(r) = Len(s) - 1 /\ DOMAIN r = 1 .. Len(s) - 1
          /\ \A i \in 1 .. Len(s) - 1 : r[i] = IF i < k THEN s[i] ELSE s[i + 1]
      <3>1. r \in Seq(S) /\ Len(r) = Len(s) - 1
        <4>1. r \in Seq(S) /\ Len(r) = Len(a) + Len(b)
          BY <2>4
        <4> QED
          BY <2>2, <2>4, <4>1
      <3>2. DOMAIN r = 1 .. Len(s) - 1
        BY <3>1
      <3>3. ASSUME NEW i \in 1 .. Len(s) - 1 PROVE r[i] = IF i < k THEN s[i] ELSE s[i + 1]
        <4>1. CASE i < k
          BY <2>2, <2>4, <4>1
        <4>2. CASE ~(i < k)
          <5>1. i \in 1 .. Len(a) + Len(b) /\ ~(i <= Len(a))
            BY <2>2, <2>4, <4>2
          <5>3. r[i] = b[i - Len(a)]
            BY <2>4, <5>1, ConcatProperties
          <5>2. i - Len(a) \in 1 .. Len(s) - k /\ k + (i - Len(a)) = i + 1
            BY <2>2, <2>4, <4>2
          <5> QED
            BY <2>4, <4>2, <5>3, <5>2
        <4> QED
          BY <2>2, <4>1, <4>2
      <3> QED
        BY <3>1, <3>2, <3>3
    <2> HIDE DEF r
    <2>6. IsInjective(r)
      <3> SUFFICES ASSUME NEW i \in DOMAIN r, NEW j \in DOMAIN r, r[i] = r[j] PROVE i = j
        BY DEF IsInjective
      <3>1. i \in 1 .. Len(s) - 1 /\ j \in 1 .. Len(s) - 1
        BY <2>5
      <3> DEFINE u(m) == IF m < k THEN m ELSE m + 1
      <3>2. u(i) \in DOMAIN s /\ u(j) \in DOMAIN s /\ s[u(i)] = s[u(j)]
        BY <2>2, <2>4, <2>5, <3>1
      <3>3. u(i) = u(j)
        BY <3>2 DEF IsInjective
      <3> QED
        BY <2>2, <3>1, <3>3
    <2>7. ASSUME NEW y \in ToSet(r) PROVE y \in ToSet(s) \ {x}
      <3>1. PICK i \in 1 .. Len(s) - 1 : y = r[i]
        BY <2>5 DEF ToSet
      <3>2. PICK j \in DOMAIN s : j # k /\ y = s[j]
        <4>1. CASE i < k
          <5>1. i \in DOMAIN s /\ i # k /\ y = s[i]
            BY <2>2, <2>4, <2>5, <3>1, <4>1
          <5> QED
            BY <5>1
        <4>2. CASE ~(i < k)
          <5>1. i + 1 \in DOMAIN s /\ i + 1 # k /\ y = s[i + 1]
            BY <2>2, <2>4, <2>5, <3>1, <4>2
          <5> QED
            BY <5>1
        <4> QED
          BY <4>1, <4>2
      <3> QED
        BY <2>2, <2>4, <3>2 DEF IsInjective, ToSet
    <2>8. ASSUME NEW i \in 1 .. Len(s), s[i] # x PROVE s[i] \in ToSet(r)
      <3>1. CASE i < k
        <4>1. i \in DOMAIN r /\ r[i] = s[i]
          BY <2>2, <2>4, <2>5, <3>1
        <4> QED
          BY <4>1 DEF ToSet
      <3>2. CASE i > k
        <4>1. i - 1 \in 1 .. Len(s) - 1 /\ r[i - 1] = s[i]
          BY <2>2, <2>4, <2>5, <3>2
        <4> QED
          BY <2>5, <4>1 DEF ToSet
      <3> QED
        BY <2>2, <2>8, <3>1, <3>2
    <2>9. ToSet(r) = ToSet(s) \ {x}
      BY <2>4, <2>7, <2>8 DEF ToSet
    <2> QED
      BY <2>3, <2>5, <2>6, <2>9 DEF r, a, b, RemoveAt
  <1> QED
    BY <1>1, <1>2

-----------------------------------------------------------------------------
(* Where the tasks of a client are *)

InFifo(q, c) == {i \in DOMAIN q : q[i].from = c}
TakenOf(k, c) == {w \in Worker : k[w] # NoTask /\ k[w].from = c}
One(b) == IF b THEN 1 ELSE 0

LEMMA TasksAre ==
  ASSUME NEW c
  PROVE  TasksOf(c) = served[c] + Cardinality(InFifo(fifo, c)) + Cardinality(TakenOf(taken, c))
                        + One(offered[Server] # NoTask /\ offered[Server].from = c)
  BY DEF TasksOf, InFifo, TakenOf, One

LEMMA FifoFinite ==
  ASSUME NEW q \in Seq(Task), NEW c
  PROVE  IsFiniteSet(InFifo(q, c)) /\ Cardinality(InFifo(q, c)) \in Nat
  <1>1. InFifo(q, c) \subseteq 1 .. Len(q) /\ Len(q) \in Nat
    BY DEF InFifo
  <1>2. IsFiniteSet(1 .. Len(q))
    BY <1>1, FS_Interval
  <1> QED
    BY <1>1, <1>2, FS_Subset, FS_CardinalityType

LEMMA FifoAppend ==
  ASSUME NEW q \in Seq(Task), NEW t \in Task, NEW c
  PROVE  Cardinality(InFifo(Append(q, t), c)) = Cardinality(InFifo(q, c)) + One(t.from = c)
  <1> DEFINE n == Len(q) + 1
  <1>1. /\ Len(q) \in Nat /\ DOMAIN q = 1 .. Len(q) /\ DOMAIN Append(q, t) = 1 .. n
        /\ \A i \in 1 .. Len(q) : Append(q, t)[i] = q[i]
        /\ Append(q, t)[n] = t
    BY AppendProperties
  <1>2. InFifo(Append(q, t), c) = IF t.from = c THEN InFifo(q, c) \cup {n} ELSE InFifo(q, c)
    <2>1. \A i \in 1 .. n : i \in 1 .. Len(q) \/ i = n
      BY <1>1
    <2>2. ASSUME NEW i PROVE i \in InFifo(Append(q, t), c) <=>
                               i \in InFifo(q, c) \/ (i = n /\ t.from = c)
      BY <1>1, <2>1 DEF InFifo
    <2> QED
      BY <2>2
  <1>3. n \notin InFifo(q, c)
    BY <1>1 DEF InFifo
  <1>4. Cardinality(InFifo(q, c) \cup {n}) = Cardinality(InFifo(q, c)) + 1
    BY <1>3, FifoFinite, FS_AddElement
  <1>5. Cardinality(InFifo(q, c)) \in Nat
    BY FifoFinite
  <1> QED
    BY <1>2, <1>4, <1>5 DEF One

LEMMA FifoTail ==
  ASSUME NEW q \in Seq(Task), q # <<>>, NEW c
  PROVE  Cardinality(InFifo(q, c)) = Cardinality(InFifo(Tail(q), c)) + One(Head(q).from = c)
  <1> DEFINE A == InFifo(Tail(q), c)
             B == InFifo(q, c) \ {1}
             f == [i \in A |-> i + 1]
  <1>1. /\ Len(q) \in Nat \ {0} /\ DOMAIN q = 1 .. Len(q) /\ Tail(q) \in Seq(Task)
        /\ DOMAIN Tail(q) = 1 .. Len(q) - 1
        /\ \A i \in 1 .. Len(q) - 1 : Tail(q)[i] = q[i + 1]
        /\ Head(q) = q[1]
    BY HeadTailProperties
  <1>2. f \in Injection(A, B)
    <2>1. \A i \in A : i + 1 \in B
      BY <1>1 DEF InFifo
    <2>2. \A i, j \in A : i + 1 = j + 1 => i = j
      BY <1>1 DEF InFifo
    <2> QED
      BY <2>1, <2>2 DEF Injection, IsInjective
  <1>3. \A j \in B : \E i \in A : f[i] = j
    <2> SUFFICES ASSUME NEW j \in B PROVE \E i \in A : i + 1 = j
      OBVIOUS
    <2>1. j - 1 \in 1 .. Len(q) - 1 /\ (j - 1) + 1 = j
      BY <1>1 DEF InFifo
    <2>2. j - 1 \in A
      BY <1>1, <2>1 DEF InFifo
    <2> QED
      BY <2>1, <2>2
  <1>4. ExistsBijection(A, B)
    BY <1>2, <1>3 DEF ExistsBijection, Bijection, Surjection, Injection
  <1>5. Cardinality(B) = Cardinality(A)
    BY <1>1, <1>4, FifoFinite, FS_Bijection
  <1>6. Cardinality(B) = IF 1 \in InFifo(q, c) THEN Cardinality(InFifo(q, c)) - 1
                         ELSE Cardinality(InFifo(q, c))
    BY FifoFinite, FS_RemoveElement
  <1>7. 1 \in InFifo(q, c) <=> Head(q).from = c
    BY <1>1 DEF InFifo
  <1> QED
    BY <1>5, <1>6, <1>7, FifoFinite DEF One

LEMMA TakenFinite ==
  ASSUME NEW k, NEW c
  PROVE  IsFiniteSet(TakenOf(k, c)) /\ Cardinality(TakenOf(k, c)) \in Nat
  <1>1. TakenOf(k, c) \subseteq Worker /\ IsFiniteSet(Worker)
    BY NetAssumption DEF TakenOf
  <1> QED
    BY <1>1, FS_Subset, FS_CardinalityType

LEMMA TakenIn ==
  ASSUME NEW k \in [Worker -> Task \cup {NoTask}], NEW w \in Worker, NEW t \in Task, NEW c,
         k[w] = NoTask, NEW l, l[w] = t, \A v \in Worker \ {w} : l[v] = k[v]
  PROVE  Cardinality(TakenOf(l, c)) = Cardinality(TakenOf(k, c)) + One(t.from = c)
  <1>1. NoTask \notin Task
    BY NetAssumption
  <1>2. /\ w \notin TakenOf(k, c)
        /\ TakenOf(l, c) = IF t.from = c THEN TakenOf(k, c) \cup {w} ELSE TakenOf(k, c)
    BY <1>1 DEF TakenOf
  <1>3. Cardinality(TakenOf(k, c) \cup {w}) = Cardinality(TakenOf(k, c)) + 1
    BY <1>2, TakenFinite, FS_AddElement
  <1>4. Cardinality(TakenOf(k, c)) \in Nat
    BY TakenFinite
  <1> QED
    BY <1>2, <1>3, <1>4 DEF One

LEMMA TakenOut ==
  ASSUME NEW k \in [Worker -> Task \cup {NoTask}], NEW w \in Worker, NEW c,
         k[w] \in Task, NEW l, l[w] = NoTask, \A v \in Worker \ {w} : l[v] = k[v]
  PROVE  Cardinality(TakenOf(k, c)) = Cardinality(TakenOf(l, c)) + One(k[w].from = c)
  <1>1. NoTask \notin Task
    BY NetAssumption
  <1> DEFINE S == TakenOf(k, c)
  <1>2. TakenOf(l, c) = S \ {w} /\ (w \in S <=> k[w].from = c)
    BY <1>1 DEF TakenOf
  <1>3. Cardinality(S \ {w}) = IF w \in S THEN Cardinality(S) - 1 ELSE Cardinality(S)
    BY TakenFinite, FS_RemoveElement
  <1>4. Cardinality(S) \in Nat
    BY TakenFinite
  <1> HIDE DEF S
  <1>5. Cardinality(S) = Cardinality(S \ {w}) + One(k[w].from = c)
    BY <1>2, <1>3, <1>4 DEF One
  <1> QED
    BY <1>2, <1>5 DEF S

(* A task that moves on is still one task. *)
LEMMA PushCounts ==
  ASSUME Types, Push, NEW c \in Client
  PROVE  TasksOf(c)' = TasksOf(c)
  <1>1. /\ fifo' = Append(fifo, offered[Server]) /\ offered[Server] \in Task
        /\ offered'[Server] = NoTask /\ UNCHANGED <<taken, served>>
    BY DEF Push, Q!Enqueue, Types
  <1>2. Cardinality(InFifo(fifo', c)) = Cardinality(InFifo(fifo, c)) + One(offered[Server].from = c)
    BY <1>1, FifoAppend DEF Types
  <1>3. offered[Server] # NoTask
    BY DEF Push, Q!Enqueue
  <1>4. TasksOf(c)' = served[c] + Cardinality(InFifo(fifo', c)) + Cardinality(TakenOf(taken, c)) + 0
    BY <1>1 DEF TasksOf, InFifo, TakenOf
  <1>5. TasksOf(c) = served[c] + Cardinality(InFifo(fifo, c)) + Cardinality(TakenOf(taken, c))
                        + One(offered[Server].from = c)
    BY <1>3, TasksAre
  <1>6. /\ served[c] \in Nat /\ Cardinality(InFifo(fifo, c)) \in Nat
        /\ Cardinality(TakenOf(taken, c)) \in Nat
        /\ One(offered[Server].from = c) \in Nat
    BY FifoFinite, TakenFinite DEF Types, One
  <1> QED
    BY <1>2, <1>4, <1>5, <1>6

LEMMA PopCounts ==
  ASSUME Types, NEW w \in Worker, Pop(w), NEW c \in Client
  PROVE  TasksOf(c)' = TasksOf(c)
  <1>1. /\ taken[w] = NoTask /\ fifo # <<>> /\ taken' = [taken EXCEPT ![w] = Head(fifo)]
        /\ fifo' = Tail(fifo) /\ UNCHANGED <<offered, served>> /\ Head(fifo) \in Task
    BY HeadTailProperties DEF Pop, Q!Dequeue, Types
  <1>2. Cardinality(InFifo(fifo, c)) = Cardinality(InFifo(fifo', c)) + One(Head(fifo).from = c)
    BY <1>1, FifoTail DEF Types
  <1>3. Cardinality(TakenOf(taken', c)) = Cardinality(TakenOf(taken, c)) + One(Head(fifo).from = c)
    <2>1. taken \in [Worker -> Task \cup {NoTask}]
      BY DEF Types
    <2>2. taken'[w] = Head(fifo) /\ \A v \in Worker \ {w} : taken'[v] = taken[v]
      BY <1>1, <2>1
    <2>3. taken[w] = NoTask /\ Head(fifo) \in Task
      BY <1>1
    <2> QED
      BY <2>1, <2>2, <2>3, TakenIn
  <1> DEFINE o == One(offered[Server] # NoTask /\ offered[Server].from = c)
  <1>4. TasksOf(c)' = served[c] + Cardinality(InFifo(fifo', c)) + Cardinality(TakenOf(taken', c)) + o
    BY <1>1 DEF TasksOf, InFifo, TakenOf, One
  <1>5. TasksOf(c) = served[c] + Cardinality(InFifo(fifo, c)) + Cardinality(TakenOf(taken, c)) + o
    BY TasksAre
  <1>6. fifo' \in Seq(Task)
    BY <1>1, HeadTailProperties DEF Types
  <1>7. /\ served[c] \in Nat /\ o \in Nat
        /\ Cardinality(InFifo(fifo, c)) \in Nat /\ Cardinality(InFifo(fifo', c)) \in Nat
        /\ Cardinality(TakenOf(taken, c)) \in Nat /\ Cardinality(TakenOf(taken', c)) \in Nat
        /\ One(Head(fifo).from = c) \in Nat
    BY <1>6, FifoFinite, TakenFinite DEF Types, One
  <1> HIDE DEF o
  <1> QED
    BY <1>2, <1>3, <1>4, <1>5, <1>7

LEMMA WorkCounts ==
  ASSUME Types, NEW w \in Worker, Work(w), NEW c \in Client
  PROVE  TasksOf(c)' = TasksOf(c)
  <1> DEFINE t == taken[w]
             o == One(offered[Server] # NoTask /\ offered[Server].from = c)
  <1>1. /\ t \in Task /\ t.from \in Client /\ taken' = [taken EXCEPT ![w] = NoTask]
        /\ UNCHANGED <<fifo, offered>> /\ served' = [served EXCEPT ![t.from] = @ + 1]
    BY DEF Work, Q!Finish, Types, Task
  <1>2. Cardinality(TakenOf(taken, c)) = Cardinality(TakenOf(taken', c)) + One(t.from = c)
    <2>1. taken \in [Worker -> Task \cup {NoTask}]
      BY DEF Types
    <2>2. taken'[w] = NoTask /\ \A v \in Worker \ {w} : taken'[v] = taken[v]
      BY <1>1, <2>1
    <2>3. taken[w] \in Task
      BY <1>1
    <2> QED
      BY <2>1, <2>2, <2>3, TakenOut
  <1>3. served'[c] = served[c] + One(t.from = c) /\ served[c] \in Nat
    BY <1>1 DEF Types, One
  <1>4. TasksOf(c)' = served'[c] + Cardinality(InFifo(fifo, c)) + Cardinality(TakenOf(taken', c)) + o
    BY <1>1 DEF TasksOf, InFifo, TakenOf, One
  <1>5. TasksOf(c) = served[c] + Cardinality(InFifo(fifo, c)) + Cardinality(TakenOf(taken, c)) + o
    BY TasksAre
  <1>6. /\ o \in Nat /\ Cardinality(InFifo(fifo, c)) \in Nat
        /\ Cardinality(TakenOf(taken, c)) \in Nat /\ Cardinality(TakenOf(taken', c)) \in Nat
        /\ One(t.from = c) \in Nat
    BY FifoFinite, TakenFinite DEF Types, One
  <1> HIDE DEF o, t
  <1> QED
    BY <1>2, <1>3, <1>4, <1>5, <1>6

LEMMA ReadCounts ==
  ASSUME Types, Round, Read, NEW c \in Client
  PROVE  TasksOf(c)' = TasksOf(c) + One(c = fds[conn]) /\ TasksOf(c) \in Nat
  <1>1. /\ offered[Server] = NoTask /\ offered'[Server].from = fds[conn] /\ offered'[Server] # NoTask
        /\ UNCHANGED <<fifo, taken, served>>
    <2>1. /\ offered[Server] = NoTask /\ UNCHANGED <<fifo, taken, served>>
          /\ offered' = [offered EXCEPT ![Server] =
                           [from |-> fds[conn], client_fd |-> conn, heap |-> Server]]
      BY DEF Read, Q!Offer
    <2>2. offered'[Server] = [from |-> fds[conn], client_fd |-> conn, heap |-> Server]
      BY <2>1 DEF Types
    <2>3. conn \in Fd /\ fds[conn] \in Client
      BY DEF Read, Types, Round, Handling, Known, Free
    <2> QED
      BY <2>1, <2>2, <2>3, NetAssumption DEF Task
  <1>2. TasksOf(c)' = served[c] + Cardinality(InFifo(fifo, c)) + Cardinality(TakenOf(taken, c))
                        + One(c = fds[conn])
    BY <1>1 DEF TasksOf, InFifo, TakenOf, One
  <1>3. TasksOf(c) = served[c] + Cardinality(InFifo(fifo, c)) + Cardinality(TakenOf(taken, c)) + 0
    BY <1>1, TasksAre DEF One
  <1>4. /\ served[c] \in Nat /\ Cardinality(InFifo(fifo, c)) \in Nat
        /\ Cardinality(TakenOf(taken, c)) \in Nat /\ One(c = fds[conn]) \in Nat
    BY FifoFinite, TakenFinite DEF Types, One
  <1> QED
    BY <1>2, <1>3, <1>4

LEMMA OthersCount ==
  ASSUME Types, UNCHANGED <<queue, served>>, NEW c \in Client
  PROVE  TasksOf(c)' = TasksOf(c)
  BY DEF TasksOf, queue

-----------------------------------------------------------------------------
(* What epoll has to report when something happens to a client *)

Fold(S, g, s) ==
    IF s = {} THEN ready
    ELSE Report(g[s \ {CHOOSE x \in s : TRUE}], CHOOSE x \in s : TRUE)

LEMMA FoldIs ==
  ASSUME NEW S, NEW g, g = [s \in SUBSET S |-> Fold(S, g, s)],
         \A h : h = [s \in SUBSET S |-> Fold(S, h, s)] => h[S] = g[S]
  PROVE  ReportAll(S) = g[S]
  <1> DEFINE i == CHOOSE h : h = [s \in SUBSET S |-> Fold(S, h, s)]
  <1>1. i = [s \in SUBSET S |-> Fold(S, i, s)]
    OBVIOUS
  <1>2. ReportAll(S) = i[S]
    BY DEF ReportAll, FoldSet, MapThenFoldSet, Fold
  <1> QED
    BY <1>1, <1>2

LEMMA ReportNone == ReportAll({}) = ready
  <1> DEFINE g == [s \in SUBSET {} |-> ready]
  <1>1. \A h, s : s \in SUBSET {} => Fold({}, h, s) = ready
    BY DEF Fold
  <1>2. g = [s \in SUBSET {} |-> Fold({}, g, s)]
    BY <1>1
  <1>3. \A h : h = [s \in SUBSET {} |-> Fold({}, h, s)] => h[{}] = ready
    BY <1>1
  <1> QED
    BY <1>2, <1>3, FoldIs

LEMMA ReportOne ==
  ASSUME NEW f
  PROVE  ReportAll({f}) = Report(ready, f)
  <1> DEFINE S == {f}
             g == [s \in SUBSET S |-> IF s = {} THEN ready ELSE Report(ready, f)]
  <1>1. ASSUME NEW h, h[{}] = ready, NEW s \in SUBSET S
        PROVE  Fold(S, h, s) = IF s = {} THEN ready ELSE Report(ready, f)
    <2>1. CASE s = {}
      BY <2>1 DEF Fold
    <2>2. CASE s = {f}
      <3>1. (CHOOSE x \in s : TRUE) = f /\ s \ {f} = {}
        BY <2>2
      <3> QED
        BY <1>1, <2>2, <3>1 DEF Fold
    <2> QED
      BY <2>1, <2>2
  <1>2. g = [s \in SUBSET S |-> Fold(S, g, s)]
    <2>1. g[{}] = ready
      OBVIOUS
    <2>2. \A s \in SUBSET S : Fold(S, g, s) = IF s = {} THEN ready ELSE Report(ready, f)
      BY <1>1, <2>1
    <2> QED
      BY <2>2
  <1>3. ASSUME NEW h, h = [s \in SUBSET S |-> Fold(S, h, s)] PROVE h[S] = g[S]
    <2>1. h[{}] = Fold(S, h, {}) /\ h[S] = Fold(S, h, S)
      BY <1>3
    <2>2. h[{}] = ready
      BY <2>1 DEF Fold
    <2> QED
      BY <1>1, <2>1, <2>2
  <1>4. ReportAll(S) = g[S]
    BY <1>2, <1>3, FoldIs
  <1> QED
    BY <1>4

LEMMA ReportAllIs ==
  ASSUME Types, Places, NEW c \in Client
  PROVE  /\ ReportAll(FdsOf(c)) \in Seq(Known)
         /\ IsInjective(ReportAll(FdsOf(c)))
         /\ ToSet(ReportAll(FdsOf(c))) = ToSet(ready) \cup FdsOf(c)
  <1>1. ready \in Seq(Known) /\ IsInjective(ready)
    BY DEF Types, Places
  <1>2. CASE FdsOf(c) = {}
    BY <1>1, <1>2, ReportNone
  <1>3. CASE FdsOf(c) # {}
    <2>1. PICK f \in Fd : fds[f] = c
      BY <1>3 DEF FdsOf
    <2>2. FdsOf(c) = {f}
      <3>1. c # NoClient
        BY NetAssumption
      <3> QED
        BY <2>1, <3>1 DEF FdsOf, Places, Free
    <2>3. f \in Known
      BY DEF Known
    <2>4. ReportAll(FdsOf(c)) = Report(ready, f)
      BY <2>2, ReportOne
    <2>5. /\ Report(ready, f) \in Seq(Known) /\ IsInjective(Report(ready, f))
          /\ ToSet(Report(ready, f)) = ToSet(ready) \cup {f}
      BY <1>1, <2>3, ReportIs
    <2> QED
      BY <2>2, <2>4, <2>5
  <1> QED
    BY <1>2, <1>3

-----------------------------------------------------------------------------
(* One lemma per action *)

LEMMA ConnectKeeps ==
  ASSUME NetInv, NEW c \in Client, Connect(c)
  PROVE  NetInv'
  <1>1. /\ NeverCame(c) /\ pc # "ended" /\ backlog' = Append(backlog, c)
        /\ ready' = Report(ready, Listen)
        /\ UNCHANGED <<queue, clients, fds, pc, conn, events, served>>
    BY DEF Connect
  <1>2. /\ backlog' \in Seq(Client) /\ ToSet(backlog') = ToSet(backlog) \cup {c} /\ IsInjective(backlog')
    <2>1. backlog \in Seq(Client) /\ IsInjective(backlog) /\ c \notin ToSet(backlog)
      BY <1>1 DEF NetInv, Types, Places, NeverCame, Connected, Unaccepted
    <2> QED
      BY <1>1, <2>1, AppendSet
  <1>3. /\ ready' \in Seq(Known) /\ IsInjective(ready') /\ ToSet(ready') = ToSet(ready) \cup {Listen}
    <2>1. ready \in Seq(Known) /\ IsInjective(ready) /\ Listen \in Known
      BY DEF NetInv, Types, Places, Known
    <2> QED
      BY <1>1, <2>1, ReportIs
  <1>4. Types'
    BY <1>1, <1>2, <1>3 DEF NetInv, Types, queue, clients
  <1>5. Places'
    BY <1>1, <1>2, <1>3 DEF NetInv, Places, NeverCame, Connected, FdsOf, Free, clients
  <1>6. Round'
    BY <1>1 DEF NetInv, Round, Free, Handling
  <1>7. Wakeups'
    BY <1>1, <1>3 DEF NetInv, Wakeups, Readable, Free, Handling, clients
  <1>8. Single'
    <2>1. \A d \in Client : TasksOf(d)' = TasksOf(d)
      BY <1>1, OthersCount DEF NetInv
    <2>2. ~(sent[c] > 0)
      BY <1>1 DEF NeverCame
    <2> QED
      BY <1>1, <1>2, <2>1, <2>2 DEF NetInv, Single, FdsOf, queue, clients
  <1> QED
    BY <1>4, <1>5, <1>6, <1>7, <1>8 DEF NetInv

LEMMA SendKeeps ==
  ASSUME NetInv, NEW c \in Client, Send(c)
  PROVE  NetInv'
  <1>1. /\ sent' = [sent EXCEPT ![c] = @ + 1] /\ unread' = [unread EXCEPT ![c] = @ + 1]
        /\ ready' = ReportAll(FdsOf(c))
        /\ UNCHANGED <<queue, shut, backlog, fds, pc, conn, events, served>>
    BY DEF Send
  <1>2. /\ ready' \in Seq(Known) /\ IsInjective(ready') /\ ToSet(ready') = ToSet(ready) \cup FdsOf(c)
    BY <1>1, ReportAllIs DEF NetInv
  <1>3. \A f \in FdsOf(c) : f \in Fd /\ ~Free(f) /\ fds[f] = c
    BY NetAssumption DEF FdsOf, Free
  <1>4. Types'
    BY <1>1, <1>2 DEF NetInv, Types, queue
  <1>5. Places'
    BY <1>1, <1>2, <1>3 DEF NetInv, Types, Places, FdsOf, Free
  <1>6. Round'
    BY <1>1 DEF NetInv, Round, Free, Handling
  <1>7. Wakeups'
    <2> SUFFICES ASSUME NEW f \in Fd, Readable(f)'
                 PROVE  \/ f \in ToSet(ready')
                        \/ \E i \in DOMAIN events : events[i].fd = f
                        \/ Handling /\ conn = f
      BY <1>1 DEF Wakeups, Handling
    <2>1. CASE fds[f] = c
      BY <1>2, <2>1 DEF FdsOf
    <2>2. CASE fds[f] # c
      <3>1. Readable(f)
        BY <1>1, <2>2 DEF Readable, Free, NetInv, Types
      <3> QED
        BY <1>2, <3>1 DEF NetInv, Wakeups
    <2> QED
      BY <2>1, <2>2
  <1>8. Single'
    <2>1. \A d \in Client : TasksOf(d)' = TasksOf(d)
      BY <1>1, OthersCount DEF NetInv
    <2>2. \A d \in Client : sent[d] > 0 => sent'[d] > 0
      BY <1>1 DEF NetInv, Types
    <2> QED
      BY <1>1, <2>1, <2>2 DEF NetInv, Single, FdsOf, queue
  <1> QED
    BY <1>4, <1>5, <1>6, <1>7, <1>8 DEF NetInv

LEMMA ShutKeeps ==
  ASSUME NetInv, NEW c \in Client, Shut(c)
  PROVE  NetInv'
  <1>1. /\ shut' = shut \cup {c} /\ ready' = ReportAll(FdsOf(c))
        /\ UNCHANGED <<queue, unread, sent, backlog, fds, pc, conn, events, served>>
    BY DEF Shut
  <1>2. /\ ready' \in Seq(Known) /\ IsInjective(ready') /\ ToSet(ready') = ToSet(ready) \cup FdsOf(c)
    BY <1>1, ReportAllIs DEF NetInv
  <1>3. \A f \in FdsOf(c) : f \in Fd /\ ~Free(f) /\ fds[f] = c
    BY NetAssumption DEF FdsOf, Free
  <1>4. Types'
    BY <1>1, <1>2 DEF NetInv, Types, queue
  <1>5. Places'
    BY <1>1, <1>2, <1>3 DEF NetInv, Places, FdsOf, Free
  <1>6. Round'
    BY <1>1 DEF NetInv, Round, Free, Handling
  <1>7. Wakeups'
    <2> SUFFICES ASSUME NEW f \in Fd, Readable(f)'
                 PROVE  \/ f \in ToSet(ready')
                        \/ \E i \in DOMAIN events : events[i].fd = f
                        \/ Handling /\ conn = f
      BY <1>1 DEF Wakeups, Handling
    <2>1. CASE fds[f] = c
      BY <1>2, <2>1 DEF FdsOf
    <2>2. CASE fds[f] # c
      <3>1. Readable(f)
        BY <1>1, <2>2 DEF Readable, Free
      <3> QED
        BY <1>2, <3>1 DEF NetInv, Wakeups
    <2> QED
      BY <2>1, <2>2
  <1>8. Single'
    <2>1. \A d \in Client : TasksOf(d)' = TasksOf(d)
      BY <1>1, OthersCount DEF NetInv
    <2> QED
      BY <1>1, <2>1 DEF NetInv, Single, FdsOf, queue
  <1> QED
    BY <1>4, <1>5, <1>6, <1>7, <1>8 DEF NetInv

LEMMA SpuriousKeeps ==
  ASSUME NetInv, NEW f \in Fd, Spurious(f)
  PROVE  NetInv'
  <1>1. /\ ~Free(f) /\ f \notin ToSet(ready) /\ ready' = Append(ready, f)
        /\ UNCHANGED <<queue, clients, backlog, fds, pc, conn, events, served>>
    BY DEF Spurious
  <1>2. /\ ready' \in Seq(Known) /\ IsInjective(ready') /\ ToSet(ready') = ToSet(ready) \cup {f}
    <2>1. ready \in Seq(Known) /\ IsInjective(ready) /\ f \in Known
      BY DEF NetInv, Types, Places, Known
    <2> QED
      BY <1>1, <2>1, AppendSet
  <1>3. Types'
    BY <1>1, <1>2 DEF NetInv, Types, queue, clients
  <1>4. Places'
    BY <1>1, <1>2 DEF NetInv, Places, FdsOf, Free, clients
  <1>5. Round'
    BY <1>1 DEF NetInv, Round, Free, Handling
  <1>6. Wakeups'
    BY <1>1, <1>2 DEF NetInv, Wakeups, Readable, Free, Handling, clients
  <1>7. Single'
    <2>1. \A d \in Client : TasksOf(d)' = TasksOf(d)
      BY <1>1, OthersCount DEF NetInv
    <2> QED
      BY <1>1, <2>1 DEF NetInv, Single, FdsOf, queue, clients
  <1> QED
    BY <1>3, <1>4, <1>5, <1>6, <1>7 DEF NetInv

LEMMA EpollWaitKeeps ==
  ASSUME NetInv, EpollWait
  PROVE  NetInv'
  <1> DEFINE live == IF backlog = <<>> THEN RemoveFirst(ready, Listen) ELSE ready
             n == IF Len(live) < MaxEvents THEN Len(live) ELSE MaxEvents
             round == SubSeq(live, 1, n)
             later == SubSeq(live, n + 1, Len(live))
  <1>1. /\ pc = "wait" /\ pc' = "next" /\ live # <<>>
        /\ events' = [i \in 1 .. n |-> [fd |-> round[i],
             client |-> IF round[i] = Listen THEN NoClient ELSE fds[round[i]]]]
        /\ ready' = IF Listen \in ToSet(round) THEN Append(later, Listen) ELSE later
        /\ UNCHANGED <<queue, clients, backlog, fds, conn, served>>
    BY DEF EpollWait
  <1>2. /\ live \in Seq(Known) /\ IsInjective(live)
        /\ ToSet(live) \subseteq ToSet(ready) /\ ToSet(ready) \subseteq ToSet(live) \cup {Listen}
    <2>1. ready \in Seq(Known) /\ IsInjective(ready)
      BY DEF NetInv, Types, Places
    <2>2. CASE backlog = <<>>
      BY <2>1, <2>2, RemoveIs
    <2>3. CASE backlog # <<>>
      BY <2>1, <2>3
    <2> QED
      BY <2>2, <2>3
  <1>3. n \in 0 .. Len(live)
    BY <1>2, NetAssumption
  <1> HIDE DEF live, n
  <1>4. /\ round \in Seq(Known) /\ later \in Seq(Known) /\ Len(round) = n
        /\ IsInjective(round) /\ IsInjective(later)
        /\ ToSet(round) \cup ToSet(later) = ToSet(live) /\ ToSet(round) \cap ToSet(later) = {}
    BY <1>2, <1>3, CutSeq
  <1> HIDE DEF round, later
  <1>5. n \in Nat /\ DOMAIN round = 1 .. n /\ \A i \in 1 .. n : round[i] \in Known
    BY <1>3, <1>4
  <1>6. /\ ready' \in Seq(Known) /\ IsInjective(ready')
        /\ ToSet(ready') \subseteq ToSet(ready)
        /\ ToSet(ready) \subseteq ToSet(ready') \cup ToSet(round) \cup {Listen}
    <2>1. CASE Listen \in ToSet(round)
      <3>1. Listen \notin ToSet(later) /\ Listen \in Known
        BY <1>4, <2>1 DEF Known
      <3>2. /\ Append(later, Listen) \in Seq(Known) /\ IsInjective(Append(later, Listen))
            /\ ToSet(Append(later, Listen)) = ToSet(later) \cup {Listen}
        BY <1>4, <3>1, AppendSet
      <3> QED
        BY <1>1, <1>2, <1>4, <2>1, <3>2
    <2>2. CASE Listen \notin ToSet(round)
      BY <1>1, <1>2, <1>4, <2>2
    <2> QED
      BY <2>1, <2>2
  <1>7. \A i \in 1 .. n : round[i] \in ToSet(ready) /\ (round[i] # Listen => round[i] \in Fd /\ ~Free(round[i]))
    <2> SUFFICES ASSUME NEW i \in 1 .. n
                 PROVE  round[i] \in ToSet(ready) /\ (round[i] # Listen => round[i] \in Fd /\ ~Free(round[i]))
      OBVIOUS
    <2>1. round[i] \in ToSet(ready)
      BY <1>2, <1>4, <1>5 DEF ToSet
    <2> QED
      BY <1>5, <2>1 DEF NetInv, Places, Known
  <1>8. /\ DOMAIN events' = 1 .. n
        /\ \A i \in 1 .. n : events'[i].fd = round[i]
              /\ (round[i] # Listen => events'[i].client = fds[round[i]])
    BY <1>1
  <1>9. Types'
    <2>1. events' \in Seq([fd : Known, client : Client \cup {NoClient}])
      <3>1. \A i \in 1 .. n : [fd |-> round[i], client |-> IF round[i] = Listen THEN NoClient ELSE fds[round[i]]]
                              \in [fd : Known, client : Client \cup {NoClient}]
        BY <1>5, <1>7 DEF NetInv, Types
      <3> QED
        BY <1>1, <1>5, <3>1
    <2> QED
      BY <1>1, <1>6, <2>1 DEF NetInv, Types, queue, clients
  <1>10. Places'
    BY <1>1, <1>6 DEF NetInv, Places, FdsOf, Free, clients
  <1>11. Round'
    <2>1. \A i, j \in 1 .. n : round[i] = round[j] => i = j
      BY <1>4, <1>5 DEF IsInjective
    <2>2. \A i, j \in DOMAIN events' : events'[i].fd = events'[j].fd => i = j
      BY <1>8, <2>1
    <2>3. ASSUME NEW i \in DOMAIN events', events'[i].fd # Listen
          PROVE  fds'[events'[i].fd] = events'[i].client /\ fds'[events'[i].fd] # NoClient
      <3>1. events'[i].fd = round[i] /\ round[i] # Listen /\ events'[i].client = fds[round[i]]
        BY <1>8, <2>3
      <3>2. fds[round[i]] # NoClient
        BY <1>7, <1>8, <3>1 DEF Free
      <3> QED
        BY <1>1, <3>1, <3>2
    <2> QED
      BY <1>1, <2>2, <2>3 DEF Round, Handling, Free
  <1>12. Wakeups'
    <2> SUFFICES ASSUME NEW f \in Fd, Readable(f)'
                 PROVE  f \in ToSet(ready') \/ \E i \in DOMAIN events' : events'[i].fd = f
      BY DEF Wakeups
    <2>1. Readable(f)
      BY <1>1 DEF Readable, Free, clients
    <2>2. f \in ToSet(ready)
      BY <1>1, <2>1 DEF NetInv, Wakeups, Round, Handling
    <2>3. f \in ToSet(ready') \/ f \in ToSet(round)
      BY <1>6, <2>2, NetAssumption
    <2> QED
      BY <1>5, <1>8, <2>3 DEF ToSet
  <1>13. Single'
    <2>1. \A d \in Client : TasksOf(d)' = TasksOf(d)
      BY <1>1, OthersCount DEF NetInv
    <2> QED
      BY <1>1, <2>1 DEF NetInv, Single, FdsOf, queue, clients
  <1> QED
    BY <1>9, <1>10, <1>11, <1>12, <1>13 DEF NetInv

LEMMA EpollInterruptedKeeps ==
  ASSUME NetInv, EpollInterrupted
  PROVE  NetInv'
  <1>1. /\ pc = "wait" /\ pc' = "ended" /\ backlog' = <<>> /\ fds' = [f \in Fd |-> NoClient]
        /\ ready' = <<>> /\ UNCHANGED <<queue, unread, sent, conn, events, served>>
    BY DEF EpollInterrupted
  <1>2. ToSet(backlog') = {} /\ ToSet(ready') = {} /\ IsInjective(backlog') /\ IsInjective(ready')
    BY <1>1 DEF ToSet, IsInjective
  <1>3. \A f \in Fd : Free(f)'
    BY <1>1 DEF Free
  <1>4. \A d \in Client : FdsOf(d)' = {}
    BY <1>1, NetAssumption DEF FdsOf
  <1>5. Types'
    BY <1>1 DEF NetInv, Types, queue
  <1>6. Places'
    BY <1>1, <1>2, <1>3, <1>4 DEF NetInv, Places
  <1>7. Round'
    BY <1>1 DEF NetInv, Round, Handling
  <1>8. Wakeups'
    BY <1>3 DEF Wakeups, Readable
  <1>9. Single'
    <2>1. \A d \in Client : TasksOf(d)' = TasksOf(d)
      BY <1>1, OthersCount DEF NetInv
    <2> QED
      BY <1>1, <1>2, <1>4, <2>1 DEF NetInv, Single, queue
  <1> QED
    BY <1>5, <1>6, <1>7, <1>8, <1>9 DEF NetInv

LEMMA NextEventKeeps ==
  ASSUME NetInv, NextEvent
  PROVE  NetInv'
  <1>1. /\ pc = "next" /\ UNCHANGED <<queue, clients, backlog, fds, ready, served>>
    BY DEF NextEvent
  <1>2. CASE events = <<>>
    <2>1. pc' = "wait" /\ UNCHANGED <<conn, events>>
      BY <1>2 DEF NextEvent
    <2>2. Types'
      BY <1>1, <2>1 DEF NetInv, Types, queue, clients
    <2>3. Places'
      BY <1>1 DEF NetInv, Places, FdsOf, Free, clients
    <2>4. Round'
      BY <1>1, <1>2, <2>1 DEF NetInv, Round, Free, Handling
    <2>5. Wakeups'
      BY <1>1, <1>2, <2>1 DEF NetInv, Wakeups, Readable, Free, Handling, clients
    <2>6. Single'
      <3>1. \A d \in Client : TasksOf(d)' = TasksOf(d)
        BY <1>1, OthersCount DEF NetInv
      <3> QED
        BY <1>1, <2>1, <3>1 DEF NetInv, Single, FdsOf, queue, clients
    <2> QED
      BY <2>2, <2>3, <2>4, <2>5, <2>6 DEF NetInv
  <1>3. CASE events # <<>>
    <2>1. /\ conn' = Head(events).fd /\ events' = Tail(events)
          /\ pc' = IF conn' = Listen THEN "accept" ELSE "read"
      BY <1>3 DEF NextEvent
    <2> DEFINE Ev == [fd : Known, client : Client \cup {NoClient}]
    <2>2. /\ events \in Seq(Ev) /\ Len(events) \in Nat \ {0} /\ DOMAIN events = 1 .. Len(events)
          /\ events' \in Seq(Ev) /\ DOMAIN events' = 1 .. Len(events) - 1
          /\ \A i \in 1 .. Len(events) - 1 : events'[i] = events[i + 1]
          /\ events[1] \in Ev /\ conn' = events[1].fd
      <3>1. events \in Seq(Ev)
        BY DEF NetInv, Types
      <3>2. /\ Len(events) \in Nat \ {0} /\ DOMAIN events = 1 .. Len(events)
            /\ events[1] \in Ev /\ Head(events) = events[1]
        <4> HIDE DEF Ev
        <4> QED
          BY <1>3, <3>1
      <3>3. /\ Tail(events) \in Seq(Ev) /\ Len(Tail(events)) = Len(events) - 1
            /\ \A i \in 1 .. Len(events) - 1 : Tail(events)[i] = events[i + 1]
        BY <1>3, <3>1
      <3>4. DOMAIN Tail(events) = 1 .. Len(events) - 1
        BY <3>2, <3>3
      <3> QED
        BY <2>1, <3>1, <3>2, <3>3, <3>4
    <2>3. Types'
      BY <1>1, <2>1, <2>2 DEF NetInv, Types, queue, clients
    <2>4. Places'
      BY <1>1 DEF NetInv, Places, FdsOf, Free, clients
    <2>5. \A i \in 1 .. Len(events) - 1 : i + 1 \in DOMAIN events /\ i + 1 # 1 /\ events'[i] = events[i + 1]
      BY <2>2
    <2>6. Round'
      <3>1. \A i, j \in DOMAIN events' : events'[i].fd = events'[j].fd => i = j
        <4> SUFFICES ASSUME NEW i \in DOMAIN events', NEW j \in DOMAIN events', events'[i].fd = events'[j].fd
                     PROVE  i = j
          OBVIOUS
        <4>1. i \in 1 .. Len(events) - 1 /\ j \in 1 .. Len(events) - 1
          BY <2>2
        <4>2. i + 1 \in DOMAIN events /\ j + 1 \in DOMAIN events
              /\ events[i + 1].fd = events[j + 1].fd
          BY <2>5, <4>1
        <4>3. \A k, l \in DOMAIN events : events[k].fd = events[l].fd => k = l
          BY DEF NetInv, Round
        <4>4. i + 1 = j + 1
          BY <4>2, <4>3
        <4> QED
          BY <4>1, <4>4
      <3>2. ASSUME NEW i \in DOMAIN events', events'[i].fd # Listen
            PROVE  fds'[events'[i].fd] = events'[i].client /\ fds'[events'[i].fd] # NoClient
        <4>1. i + 1 \in DOMAIN events /\ events'[i] = events[i + 1]
          BY <2>2, <2>5
        <4>2. fds[events[i + 1].fd] = events[i + 1].client /\ fds[events[i + 1].fd] # NoClient
          BY <3>2, <4>1 DEF NetInv, Round, Free
        <4> QED
          BY <1>1, <4>1, <4>2
      <3>3. ASSUME NEW i \in DOMAIN events' PROVE events'[i].fd # conn'
        <4>1. i + 1 \in DOMAIN events /\ 1 \in DOMAIN events /\ i + 1 # 1 /\ events'[i] = events[i + 1]
          BY <2>2, <2>5
        <4> QED
          BY <2>2, <4>1 DEF NetInv, Round
      <3>4. pc' \in {"accept", "read"} /\ (pc' = "accept" => conn' = Listen) /\ (pc' = "read" => conn' # Listen)
        BY <2>1
      <3> QED
        BY <3>1, <3>2, <3>3, <3>4 DEF Round, Handling, Free
    <2>7. Wakeups'
      <3> SUFFICES ASSUME NEW f \in Fd, Readable(f)', f \notin ToSet(ready'), ~(Handling' /\ conn' = f)
                   PROVE  \E i \in DOMAIN events' : events'[i].fd = f
        BY DEF Wakeups
      <3>1. Readable(f) /\ f \notin ToSet(ready) /\ ~Handling
        BY <1>1 DEF Readable, Free, clients, Handling
      <3>2. PICK i \in DOMAIN events : events[i].fd = f
        BY <3>1 DEF NetInv, Wakeups
      <3>3. i # 1
        BY <2>1, <2>2, <3>2, NetAssumption DEF Handling
      <3>4. i - 1 \in DOMAIN events' /\ (i - 1) + 1 = i
        BY <2>2, <3>3
      <3>5. events'[i - 1].fd = f
        BY <2>2, <3>2, <3>4
      <3> QED
        BY <3>4, <3>5
    <2>8. Single'
      <3>1. \A d \in Client : TasksOf(d)' = TasksOf(d)
        BY <1>1, OthersCount DEF NetInv
      <3> QED
        BY <1>1, <2>1, <3>1 DEF NetInv, Single, FdsOf, queue, clients
    <2> QED
      BY <2>3, <2>4, <2>6, <2>7, <2>8 DEF NetInv
  <1> QED
    BY <1>2, <1>3

LEMMA EventTyped ==
  ASSUME Types, NEW i \in DOMAIN events
  PROVE  events[i].fd \in Known
  <1> DEFINE Ev == [fd : Known, client : Client \cup {NoClient}]
  <1>1. events \in Seq(Ev) /\ \A e \in Ev : e.fd \in Known
    BY DEF Types
  <1> HIDE DEF Ev
  <1>2. events[i] \in Ev
    BY <1>1
  <1> QED
    BY <1>1, <1>2

(* accept takes the client that has waited longest. *)
LEMMA Accepted ==
  ASSUME Types, Places, backlog # <<>>
  PROVE  /\ Head(backlog) \in Client /\ FdsOf(Head(backlog)) = {} /\ Head(backlog) \in ToSet(backlog)
         /\ Tail(backlog) \in Seq(Client) /\ IsInjective(Tail(backlog))
         /\ ToSet(Tail(backlog)) = ToSet(backlog) \ {Head(backlog)}
  <1>1. backlog \in Seq(Client) /\ IsInjective(backlog)
    BY DEF Types, Places
  <1> QED
    BY <1>1, TailSet DEF Places

LEMMA AcceptKeeps ==
  ASSUME NetInv, Accept
  PROVE  NetInv'
  <1> DEFINE c == Head(backlog)
  <1>1. PICK f \in Fd :
          /\ Free(f) /\ fds' = [fds EXCEPT ![f] = c]
          /\ ready' = IF unread[c] > 0 \/ c \in shut THEN Append(ready, f) ELSE ready
    BY DEF Accept
  <1>2. /\ pc = "accept" /\ backlog # <<>> /\ backlog' = Tail(backlog)
        /\ UNCHANGED <<queue, clients, pc, conn, events, served>>
    BY DEF Accept
  <1>3. /\ c \in Client /\ FdsOf(c) = {} /\ c \in ToSet(backlog)
        /\ backlog' \in Seq(Client) /\ IsInjective(backlog')
        /\ ToSet(backlog') = ToSet(backlog) \ {c} /\ c # NoClient
    BY <1>2, Accepted, NetAssumption DEF NetInv
  <1> HIDE DEF c
  <1>4. /\ fds \in [Fd -> Client \cup {NoClient}] /\ f # Listen /\ f \in Known
        /\ fds'[f] = c /\ \A g \in Fd \ {f} : fds'[g] = fds[g]
    BY <1>1, NetAssumption DEF NetInv, Types, Known
  <1>5. f \notin ToSet(ready)
    BY <1>1, <1>4 DEF NetInv, Places
  <1>6. /\ ready' \in Seq(Known) /\ IsInjective(ready')
        /\ ToSet(ready') = IF unread[c] > 0 \/ c \in shut THEN ToSet(ready) \cup {f} ELSE ToSet(ready)
    <2>1. ready \in Seq(Known) /\ IsInjective(ready)
      BY DEF NetInv, Types, Places
    <2>2. /\ Append(ready, f) \in Seq(Known) /\ IsInjective(Append(ready, f))
          /\ ToSet(Append(ready, f)) = ToSet(ready) \cup {f}
      BY <1>4, <1>5, <2>1, AppendSet
    <2> QED
      BY <1>1, <2>1, <2>2
  <1>7. Types'
    <2>1. fds' \in [Fd -> Client \cup {NoClient}]
      BY <1>1, <1>3, <1>4
    <2> QED
      BY <1>2, <1>3, <1>6, <2>1 DEF NetInv, Types, queue, clients
  <1>8. \A d \in Client \ {c} : FdsOf(d)' = FdsOf(d)
    <2> SUFFICES ASSUME NEW d \in Client, d # c, NEW g \in Fd PROVE fds'[g] = d <=> fds[g] = d
      BY DEF FdsOf
    <2>1. fds[f] # d
      BY <1>1, NetAssumption DEF Free
    <2> QED
      BY <1>4, <2>1
  <1>9. Places'
    <2>1. \A d \in ToSet(backlog') : FdsOf(d)' = {}
      <3>1. \A d \in ToSet(backlog) : d \in Client
        BY InSet DEF NetInv, Types, ToSet
      <3> QED
        BY <1>3, <1>8, <3>1 DEF NetInv, Places
    <2>2. ASSUME NEW g \in Fd, NEW h \in Fd, fds'[g] = fds'[h], fds'[g] # NoClient PROVE g = h
      <3>1. \A x \in Fd : fds[x] # c
        BY <1>3 DEF FdsOf
      <3> QED
        BY <1>4, <2>2, <3>1 DEF NetInv, Places, Free
    <2>3. ASSUME NEW g \in ToSet(ready') \ {Listen} PROVE fds'[g] # NoClient
      <3>1. CASE g = f
        BY <1>3, <1>4, <3>1
      <3>2. CASE g # f
        <4>1. g \in ToSet(ready) \ {Listen}
          BY <1>6, <2>3, <3>2
        <4>2. g \in Fd /\ fds[g] # NoClient
          <5>1. g \in Known
            BY <4>1 DEF NetInv, Types, ToSet
          <5> QED
            BY <4>1, <5>1 DEF NetInv, Places, Free, Known
        <4> QED
          BY <1>4, <3>2, <4>2
      <3> QED
        BY <3>1, <3>2
    <2> QED
      BY <1>2, <1>3, <1>6, <2>1, <2>2, <2>3 DEF NetInv, Places, Free, clients
  <1>10. Round'
    <2>1. ASSUME NEW i \in DOMAIN events, events[i].fd # Listen
          PROVE  fds'[events[i].fd] = events[i].client /\ fds'[events[i].fd] # NoClient
      <3>1. events[i].fd \in Fd
        BY <2>1, EventTyped DEF NetInv, Known
      <3>2. fds[events[i].fd] = events[i].client /\ fds[events[i].fd] # NoClient
        BY <2>1 DEF NetInv, Round, Free
      <3> QED
        BY <1>1, <1>4, <3>1, <3>2 DEF Free
    <2> QED
      BY <1>2, <2>1 DEF NetInv, Round, Handling, Free
  <1>11. Wakeups'
    <2> SUFFICES ASSUME NEW g \in Fd, Readable(g)'
                 PROVE  g \in ToSet(ready') \/ \E i \in DOMAIN events : events[i].fd = g
      BY <1>2 DEF Wakeups
    <2>1. CASE g = f
      BY <1>2, <1>4, <1>6, <2>1 DEF Readable, clients
    <2>2. CASE g # f
      <3>1. Readable(g)
        BY <1>2, <1>4, <2>2 DEF Readable, Free, clients
      <3> QED
        BY <1>2, <1>6, <3>1 DEF NetInv, Wakeups, Handling
    <2> QED
      BY <2>1, <2>2
  <1>12. Single'
    <2>1. \A d \in Client : TasksOf(d)' = TasksOf(d)
      BY <1>2, OthersCount DEF NetInv
    <2>2. \A d \in Client : TasksOf(d) >= 1 => d # c /\ FdsOf(d) = {}
      BY <1>2, <1>3 DEF NetInv, Single
    <2> QED
      BY <1>2, <1>3, <1>8, <2>1, <2>2 DEF NetInv, Single, queue, clients
  <1> QED
    BY <1>7, <1>9, <1>10, <1>11, <1>12 DEF NetInv

LEMMA AcceptFailsKeeps ==
  ASSUME NetInv, AcceptFails
  PROVE  NetInv'
  <1> DEFINE c == Head(backlog)
  <1>1. /\ pc = "accept" /\ backlog # <<>> /\ backlog' = Tail(backlog) /\ shut' = shut \cup {c}
        /\ pc' \in {"accept", "next"}
        /\ UNCHANGED <<queue, unread, sent, fds, ready, conn, events, served>>
    BY DEF AcceptFails
  <1>2. /\ c \in Client /\ FdsOf(c) = {}
        /\ backlog' \in Seq(Client) /\ IsInjective(backlog')
        /\ ToSet(backlog') = ToSet(backlog) \ {c}
    BY <1>1, Accepted DEF NetInv
  <1> HIDE DEF c
  <1>3. Types'
    BY <1>1, <1>2 DEF NetInv, Types, queue
  <1>4. Places'
    BY <1>1, <1>2 DEF NetInv, Places, FdsOf, Free
  <1>5. Round'
    BY <1>1 DEF NetInv, Round, Free, Handling
  <1>6. Wakeups'
    <2> SUFFICES ASSUME NEW f \in Fd, Readable(f)' PROVE Readable(f)
      BY <1>1 DEF NetInv, Wakeups, Handling
    <2>1. fds[f] # c
      BY <1>2 DEF FdsOf
    <2> QED
      BY <1>1, <2>1 DEF Readable, Free
  <1>7. Single'
    <2>1. \A d \in Client : TasksOf(d)' = TasksOf(d)
      BY <1>1, OthersCount DEF NetInv
    <2> QED
      BY <1>1, <1>2, <2>1 DEF NetInv, Single, FdsOf, queue
  <1> QED
    BY <1>3, <1>4, <1>5, <1>6, <1>7 DEF NetInv

LEMMA AcceptNoneKeeps ==
  ASSUME NetInv, AcceptNone
  PROVE  NetInv'
  <1>1. /\ pc = "accept" /\ pc' = "next"
        /\ UNCHANGED <<queue, clients, backlog, fds, ready, conn, events, served>>
    BY DEF AcceptNone
  <1>2. Types'
    BY <1>1 DEF NetInv, Types, queue, clients
  <1>3. Places'
    BY <1>1 DEF NetInv, Places, FdsOf, Free, clients
  <1>4. Round'
    BY <1>1 DEF NetInv, Round, Free, Handling
  <1>5. Wakeups'
    BY <1>1 DEF NetInv, Wakeups, Readable, Free, Handling, clients
  <1>6. Single'
    <2>1. \A d \in Client : TasksOf(d)' = TasksOf(d)
      BY <1>1, OthersCount DEF NetInv
    <2> QED
      BY <1>1, <2>1 DEF NetInv, Single, FdsOf, queue, clients
  <1> QED
    BY <1>2, <1>3, <1>4, <1>5, <1>6 DEF NetInv

LEMMA ReadKeeps ==
  ASSUME NetInv, Read
  PROVE  NetInv'
  <1> DEFINE c == fds[conn]
             t == [from |-> c, client_fd |-> conn, heap |-> Server]
  <1>1. PICK k \in 1 .. unread[c] : unread' = [unread EXCEPT ![c] = @ - k]
    BY DEF Read
  <1>2. /\ pc = "read" /\ pc' = "push" /\ ~Free(conn) /\ unread[c] > 0
        /\ offered[Server] = NoTask /\ offered' = [offered EXCEPT ![Server] = t]
        /\ UNCHANGED <<fifo, taken, sent, shut, backlog, fds, ready, conn, events, served>>
    BY DEF Read, Q!Offer
  <1>3. conn \in Fd /\ c \in Client /\ t \in Task
    BY <1>2 DEF NetInv, Types, Round, Handling, Known, Free, Task
  <1> HIDE DEF c
  <1>4. t # NoTask /\ offered'[Server] = t /\ t.from = c
    BY <1>2, <1>3, NetAssumption DEF NetInv, Types
  <1>5. offered' \in [{Server} -> Task \cup {NoTask}]
    BY <1>2, <1>3 DEF NetInv, Types
  <1> HIDE DEF t
  <1>6. /\ unread' \in [Client -> Nat] /\ \A d \in Client : unread'[d] <= unread[d] /\ unread[d] <= sent[d]
        /\ \A d \in Client : unread[d] \in Nat /\ sent[d] \in Nat
    BY <1>1, <1>3 DEF NetInv, Types, Places
  <1>7. Types'
    BY <1>2, <1>5, <1>6 DEF NetInv, Types
  <1>8. Places'
    <2>1. \A d \in Client : unread'[d] <= sent'[d]
      BY <1>2, <1>6
    <2> QED
      BY <1>2, <2>1 DEF NetInv, Places, FdsOf, Free
  <1>9. Round'
    BY <1>2 DEF NetInv, Round, Free, Handling
  <1>10. Wakeups'
    <2> SUFFICES ASSUME NEW f \in Fd, Readable(f)'
                 PROVE  Readable(f)
      BY <1>2 DEF NetInv, Wakeups, Handling
    <2>1. fds[f] \in Client
      BY <1>2 DEF NetInv, Types, Readable, Free
    <2>2. unread'[fds[f]] > 0 => unread[fds[f]] > 0
      BY <1>6, <2>1
    <2> QED
      BY <1>2, <2>2 DEF Readable, Free
  <1>11. Single'
    <2>1. \A d \in Client : TasksOf(d)' = TasksOf(d) + One(d = c) /\ TasksOf(d) \in Nat
      BY ReadCounts DEF NetInv, c
    <2>2. c \notin ToSet(backlog) /\ sent[c] > 0 /\ c \in Client
      <3>1. conn \in FdsOf(c)
        BY <1>3 DEF FdsOf, c
      <3> QED
        BY <1>2, <1>3, <1>6, <3>1 DEF NetInv, Places
    <2>3. TasksOf(c) = 0
      <3>1. conn \in FdsOf(c)
        BY <1>3 DEF FdsOf, c
      <3>2. ~(TasksOf(c) >= 1)
        BY <1>2, <1>3, <3>1 DEF NetInv, Single
      <3> QED
        BY <1>3, <2>1, <3>2
    <2>4. ASSUME NEW d \in Client PROVE TasksOf(d)' = IF d = c THEN 1 ELSE TasksOf(d)
      <3>1. TasksOf(d)' = TasksOf(d) + One(d = c) /\ TasksOf(d) \in Nat
        BY <2>1
      <3>2. One(d = c) = IF d = c THEN 1 ELSE 0
        BY DEF One
      <3>3. d = c => TasksOf(d) = 0
        BY <2>3
      <3> QED
        BY <3>1, <3>2, <3>3
    <2>5. fds'[conn'] = c /\ pc' = "push" /\ offered'[Server] # NoTask /\ offered'[Server].from = c
      BY <1>2, <1>4 DEF c
    <2>6. ASSUME NEW d \in Client
          PROVE  /\ TasksOf(d)' <= 1
                 /\ TasksOf(d)' >= 1 =>
                      sent'[d] > 0 /\ d \notin ToSet(backlog') /\ (FdsOf(d)' # {} => fds'[conn'] = d)
      <3>1. CASE d = c
        <4>1. TasksOf(d)' = 1
          BY <2>4, <3>1
        <4> QED
          BY <1>2, <2>2, <2>5, <3>1, <4>1
      <3>2. CASE d # c
        BY <1>2, <2>4, <3>2 DEF NetInv, Single, FdsOf
      <3> QED
        BY <3>1, <3>2
    <2> QED
      BY <2>5, <2>6 DEF Single
  <1> QED
    BY <1>7, <1>8, <1>9, <1>10, <1>11 DEF NetInv

LEMMA ReadNothingKeeps ==
  ASSUME NetInv, ReadNothing
  PROVE  NetInv'
  <1>1. /\ pc = "read" /\ pc' = "next" /\ conn' = Listen /\ ~Readable(conn)
        /\ UNCHANGED <<queue, clients, backlog, fds, ready, events, served>>
    <2>1. conn \in Fd /\ fds[conn] \in Client
      BY DEF ReadNothing, NetInv, Types, Round, Handling, Known, Free
    <2>2. unread[fds[conn]] = 0 /\ fds[conn] \notin shut
      BY DEF ReadNothing
    <2> QED
      BY <2>1, <2>2 DEF ReadNothing, Readable
  <1>2. Types'
    BY <1>1 DEF NetInv, Types, Known, queue, clients
  <1>3. Places'
    BY <1>1 DEF NetInv, Places, FdsOf, Free, clients
  <1>4. Round'
    BY <1>1 DEF NetInv, Round, Free, Handling
  <1>5. Wakeups'
    BY <1>1 DEF NetInv, Wakeups, Readable, Free, Handling, clients
  <1>6. Single'
    <2>1. \A d \in Client : TasksOf(d)' = TasksOf(d)
      BY <1>1, OthersCount DEF NetInv
    <2> QED
      BY <1>1, <2>1 DEF NetInv, Single, FdsOf, queue, clients
  <1> QED
    BY <1>2, <1>3, <1>4, <1>5, <1>6 DEF NetInv

(* The connection that is being handled is closed, by whatever step. *)
LEMMA ClosedKeeps ==
  ASSUME NetInv, pc \in {"read", "failed", "close"}, Closed(conn),
         (pc' = "read" /\ conn' = conn) \/ (pc' = "next" /\ conn' = Listen),
         \A d : d \in shut' => d \in shut \/ d = fds[conn],
         UNCHANGED <<queue, unread, sent, backlog, events, served>>
  PROVE  NetInv'
  <1>1. conn \in Fd /\ conn # Listen /\ \A i \in DOMAIN events : events[i].fd # conn
    BY DEF NetInv, Types, Round, Handling, Known
  <1>2. /\ fds \in [Fd -> Client \cup {NoClient}] /\ fds' \in [Fd -> Client \cup {NoClient}]
        /\ fds'[conn] = NoClient /\ \A g \in Fd \ {conn} : fds'[g] = fds[g]
    BY <1>1 DEF Closed, NetInv, Types
  <1>3. /\ ready' \in Seq(Known) /\ IsInjective(ready') /\ ToSet(ready') = ToSet(ready) \ {conn}
    <2>1. ready \in Seq(Known) /\ IsInjective(ready)
      BY DEF NetInv, Types, Places
    <2>2. ready' = RemoveFirst(ready, conn)
      BY DEF Closed
    <2> QED
      BY <2>1, <2>2, RemoveIs
  <1>4. ASSUME NEW d \in Client PROVE FdsOf(d)' = FdsOf(d) \ {conn}
    <2>1. d # NoClient
      BY NetAssumption
    <2> QED
      BY <1>1, <1>2, <2>1 DEF FdsOf
  <1>5. conn' \in Known /\ pc' \in {"read", "next"} /\ (pc' = "read" => conn' = conn)
    BY <1>1 DEF Known
  <1>6. Types'
    BY <1>2, <1>3, <1>5 DEF NetInv, Types, queue
  <1>7. Places'
    <2>1. \A d \in ToSet(backlog') : FdsOf(d)' = {}
      <3>1. \A d \in ToSet(backlog) : d \in Client
        BY DEF NetInv, Types, ToSet
      <3> QED
        BY <1>4, <3>1 DEF NetInv, Places
    <2>2. ASSUME NEW g \in Fd, NEW h \in Fd, fds'[g] = fds'[h], fds'[g] # NoClient PROVE g = h
      BY <1>2, <2>2 DEF NetInv, Places, Free
    <2>3. ASSUME NEW g \in ToSet(ready') \ {Listen} PROVE fds'[g] # NoClient
      <3>1. g \in ToSet(ready) \ {Listen} /\ g # conn
        BY <1>3, <2>3
      <3>2. g \in Fd
        BY <3>1 DEF NetInv, Types, ToSet, Known
      <3> QED
        BY <1>2, <3>1, <3>2 DEF NetInv, Places, Free
    <2> QED
      BY <1>3, <2>1, <2>2, <2>3 DEF NetInv, Places, Free
  <1>8. Round'
    <2>1. ASSUME NEW i \in DOMAIN events, events[i].fd # Listen
          PROVE  fds'[events[i].fd] = events[i].client /\ fds'[events[i].fd] # NoClient
      <3>1. events[i].fd \in Fd
        BY <2>1, EventTyped DEF NetInv, Known
      <3>2. fds[events[i].fd] = events[i].client /\ fds[events[i].fd] # NoClient
        BY <2>1 DEF NetInv, Round, Free
      <3> QED
        BY <1>1, <1>2, <3>1, <3>2
    <2> QED
      BY <1>1, <1>5, <2>1 DEF NetInv, Round, Handling, Free
  <1>9. Wakeups'
    <2> SUFFICES ASSUME NEW f \in Fd, Readable(f)'
                 PROVE  f \in ToSet(ready') \/ \E i \in DOMAIN events : events[i].fd = f
      BY DEF Wakeups
    <2>1. f # conn /\ fds'[f] = fds[f] /\ fds[f] # NoClient
      BY <1>2 DEF Readable, Free
    <2>2. fds[f] # fds[conn]
      BY <1>1, <2>1 DEF NetInv, Places, Free
    <2>3. Readable(f)
      BY <2>1, <2>2 DEF Readable, Free
    <2> QED
      BY <1>3, <2>1, <2>3 DEF NetInv, Wakeups
  <1>10. Single'
    <2>1. \A d \in Client : TasksOf(d)' = TasksOf(d)
      BY OthersCount DEF NetInv
    <2>2. ASSUME NEW d \in Client, TasksOf(d) >= 1 PROVE FdsOf(d)' = {}
      <3>1. FdsOf(d) # {} => fds[conn] = d
        BY <2>2 DEF NetInv, Single
      <3>2. \A f \in FdsOf(d) : f = conn
        <4> SUFFICES ASSUME NEW f \in FdsOf(d) PROVE f = conn
          OBVIOUS
        <4>1. f \in Fd /\ fds[f] = d /\ fds[conn] = d /\ d # NoClient
          BY <3>1, NetAssumption DEF FdsOf
        <4> QED
          BY <1>1, <4>1 DEF NetInv, Places, Free
      <3> QED
        BY <1>4, <3>2
    <2>3. offered'[Server] = NoTask /\ pc' # "push"
      BY <1>5 DEF NetInv, Single, queue
    <2>4. ASSUME NEW d \in Client
          PROVE  /\ TasksOf(d)' <= 1
                 /\ TasksOf(d)' >= 1 => sent'[d] > 0 /\ d \notin ToSet(backlog') /\ FdsOf(d)' = {}
      BY <2>1, <2>2 DEF NetInv, Single
    <2> QED
      BY <2>3, <2>4 DEF Single
  <1> QED
    BY <1>6, <1>7, <1>8, <1>9, <1>10 DEF NetInv

LEMMA ReadErrnoLostKeeps ==
  ASSUME NetInv, ReadErrnoLost
  PROVE  NetInv'
  <1>1. /\ pc = "read" /\ pc' = "failed" /\ ~Free(conn)
        /\ UNCHANGED <<queue, clients, backlog, fds, ready, conn, events, served>>
    BY DEF ReadErrnoLost
  <1>2. Types'
    BY <1>1 DEF NetInv, Types, queue, clients
  <1>3. Places'
    BY <1>1 DEF NetInv, Places, FdsOf, Free, clients
  <1>4. Round'
    BY <1>1 DEF NetInv, Round, Free, Handling
  <1>5. Wakeups'
    BY <1>1 DEF NetInv, Wakeups, Readable, Free, Handling, clients
  <1>6. Single'
    <2>1. \A d \in Client : TasksOf(d)' = TasksOf(d)
      BY <1>1, OthersCount DEF NetInv
    <2> QED
      BY <1>1, <2>1 DEF NetInv, Single, FdsOf, queue, clients
  <1> QED
    BY <1>2, <1>3, <1>4, <1>5, <1>6 DEF NetInv

LEMMA CloseFailedKeeps ==
  ASSUME NetInv, CloseFailed
  PROVE  NetInv'
  <1>1. /\ pc \in {"read", "failed", "close"} /\ Closed(conn) /\ pc' = "next" /\ conn' = Listen
        /\ shut' = shut \cup {fds[conn]}
        /\ UNCHANGED <<queue, unread, sent, backlog, events, served>>
    BY DEF CloseFailed
  <1>2. \A d : d \in shut' => d \in shut \/ d = fds[conn]
    BY <1>1
  <1> QED
    BY <1>1, <1>2, ClosedKeeps

LEMMA ReadEndKeeps ==
  ASSUME NetInv, ReadEnd
  PROVE  NetInv'
  <1>1. /\ pc \in {"read", "close"} /\ Closed(conn) /\ pc' = "next" /\ conn' = Listen
        /\ UNCHANGED <<queue, clients, backlog, events, served>>
    BY DEF ReadEnd
  <1>2. /\ UNCHANGED <<queue, unread, sent, backlog, events, served>>
        /\ \A d : d \in shut' => d \in shut \/ d = fds[conn]
    BY <1>1 DEF clients
  <1> QED
    BY <1>1, <1>2, ClosedKeeps

LEMMA CloseKeeps ==
  ASSUME NetInv, Close
  PROVE  NetInv'
  <1>1. /\ pc \in {"read", "close"} /\ Closed(conn)
        /\ UNCHANGED <<queue, clients, backlog, events, served>>
    BY DEF Close
  <1>2. /\ UNCHANGED <<queue, unread, sent, backlog, events, served>>
        /\ \A d : d \in shut' => d \in shut \/ d = fds[conn]
    BY <1>1 DEF clients
  <1>3. (pc' = "read" /\ conn' = conn) \/ (pc' = "next" /\ conn' = Listen)
    BY DEF Close
  <1>4. pc \in {"read", "close"} /\ Closed(conn)
    BY <1>1
  <1> QED
    BY <1>2, <1>3, <1>4, ClosedKeeps

LEMMA PushKeeps ==
  ASSUME NetInv, Push
  PROVE  NetInv'
  <1>1. /\ pc = "push" /\ pc' = "close" /\ Len(fifo) < MaxLength
        /\ offered[Server] # NoTask /\ offered' = [offered EXCEPT ![Server] = NoTask]
        /\ fifo' = Append(fifo, offered[Server])
        /\ UNCHANGED <<taken, clients, backlog, fds, ready, conn, events, served>>
    BY DEF Push, Q!Enqueue
  <1>2. fifo' \in Seq(Task) /\ Len(fifo') <= MaxLength
    <2>1. fifo \in Seq(Task) /\ offered[Server] \in Task
      BY <1>1 DEF NetInv, Types
    <2>2. fifo' \in Seq(Task) /\ Len(fifo') = Len(fifo) + 1 /\ Len(fifo) \in Nat
      BY <1>1, <2>1
    <2> QED
      BY <1>1, <2>2, NetAssumption
  <1>3. /\ offered' \in [{Server} -> Task \cup {NoTask}] /\ offered'[Server] = NoTask
    BY <1>1 DEF NetInv, Types
  <1>4. Types'
    BY <1>1, <1>2, <1>3 DEF NetInv, Types, clients
  <1>5. Places'
    BY <1>1 DEF NetInv, Places, FdsOf, Free, clients
  <1>6. Round'
    BY <1>1 DEF NetInv, Round, Free, Handling
  <1>7. Wakeups'
    BY <1>1 DEF NetInv, Wakeups, Readable, Free, Handling, clients
  <1>8. Single'
    <2>1. \A d \in Client : TasksOf(d)' = TasksOf(d)
      BY PushCounts DEF NetInv
    <2> QED
      BY <1>1, <1>3, <2>1 DEF NetInv, Single, FdsOf, clients
  <1> QED
    BY <1>4, <1>5, <1>6, <1>7, <1>8 DEF NetInv

LEMMA PopKeeps ==
  ASSUME NetInv, NEW w \in Worker, Pop(w)
  PROVE  NetInv'
  <1>1. /\ fifo # <<>> /\ taken' = [taken EXCEPT ![w] = Head(fifo)] /\ fifo' = Tail(fifo)
        /\ UNCHANGED <<offered, clients, backlog, fds, ready, pc, conn, events, served>>
    BY DEF Pop, Q!Dequeue, server
  <1>2. Head(fifo) \in Task /\ fifo' \in Seq(Task) /\ Len(fifo') <= MaxLength
    <2>1. fifo \in Seq(Task) /\ Len(fifo) <= MaxLength
      BY DEF NetInv, Types
    <2>2. /\ Head(fifo) \in Task /\ Tail(fifo) \in Seq(Task)
          /\ Len(Tail(fifo)) = Len(fifo) - 1 /\ Len(fifo) \in Nat
      BY <1>1, <2>1
    <2> QED
      BY <1>1, <2>1, <2>2, NetAssumption
  <1>3. taken' \in [Worker -> Task \cup {NoTask}]
    BY <1>1, <1>2 DEF NetInv, Types
  <1>4. Types'
    BY <1>1, <1>2, <1>3 DEF NetInv, Types, clients
  <1>5. Places'
    BY <1>1 DEF NetInv, Places, FdsOf, Free, clients
  <1>6. Round'
    BY <1>1 DEF NetInv, Round, Free, Handling
  <1>7. Wakeups'
    BY <1>1 DEF NetInv, Wakeups, Readable, Free, Handling, clients
  <1>8. Single'
    <2>1. \A d \in Client : TasksOf(d)' = TasksOf(d)
      BY PopCounts DEF NetInv
    <2> QED
      BY <1>1, <2>1 DEF NetInv, Single, FdsOf, clients
  <1> QED
    BY <1>4, <1>5, <1>6, <1>7, <1>8 DEF NetInv

LEMMA WorkKeeps ==
  ASSUME NetInv, NEW w \in Worker, Work(w)
  PROVE  NetInv'
  <1>1. /\ taken[w] # NoTask /\ taken' = [taken EXCEPT ![w] = NoTask]
        /\ served' = [served EXCEPT ![taken[w].from] = @ + 1]
        /\ UNCHANGED <<fifo, offered, clients, backlog, fds, ready, pc, conn, events>>
    BY DEF Work, Q!Finish, server
  <1>2. taken' \in [Worker -> Task \cup {NoTask}] /\ served' \in [Client -> Nat]
    <2>1. taken[w].from \in Client
      BY <1>1 DEF NetInv, Types, Task
    <2> QED
      BY <1>1, <2>1 DEF NetInv, Types
  <1>4. Types'
    BY <1>1, <1>2 DEF NetInv, Types, clients
  <1>5. Places'
    BY <1>1 DEF NetInv, Places, FdsOf, Free, clients
  <1>6. Round'
    BY <1>1 DEF NetInv, Round, Free, Handling
  <1>7. Wakeups'
    BY <1>1 DEF NetInv, Wakeups, Readable, Free, Handling, clients
  <1>8. Single'
    <2>1. \A d \in Client : TasksOf(d)' = TasksOf(d)
      BY WorkCounts DEF NetInv
    <2> QED
      BY <1>1, <2>1 DEF NetInv, Single, FdsOf, clients
  <1> QED
    BY <1>4, <1>5, <1>6, <1>7, <1>8 DEF NetInv

LEMMA WorkDiesKeeps ==
  ASSUME NetInv, NEW w \in Worker, WorkDies(w)
  PROVE  NetInv'
  <1>1. UNCHANGED <<fifo, offered, taken, unread, sent, shut, backlog, fds, ready, pc, conn,
                    events, served, clients, server, queue>>
    BY DEF WorkDies, queue, clients, server
  <1>2. \A d \in Client : TasksOf(d)' = TasksOf(d)
    BY <1>1, OthersCount DEF NetInv
  <1>3. Types' /\ Places' /\ Round' /\ Wakeups'
    BY <1>1 DEF NetInv, Types, Places, Round, Wakeups, Readable, FdsOf, Free, Handling
  <1>4. Single'
    BY <1>1, <1>2 DEF NetInv, Single, FdsOf
  <1> QED
    BY <1>3, <1>4 DEF NetInv

-----------------------------------------------------------------------------
(* The theorems *)

LEMMA InitKeeps == Init => NetInv
  <1> SUFFICES ASSUME Init PROVE NetInv
    OBVIOUS
  <1>1. /\ fifo = <<>> /\ offered = [p \in {Server} |-> NoTask] /\ taken = [w \in Worker |-> NoTask]
        /\ backlog = <<>> /\ unread = [c \in Client |-> 0] /\ sent = [c \in Client |-> 0]
        /\ shut = {} /\ fds = [f \in Fd |-> NoClient] /\ ready = <<>> /\ pc = "wait"
        /\ conn = Listen /\ events = <<>> /\ served = [c \in Client |-> 0]
    BY DEF Init, Q!Init
  <1>2. Types
    BY <1>1, NetAssumption DEF Types, Known
  <1>3. Places
    BY <1>1 DEF Places, Free, FdsOf, ToSet, IsInjective
  <1>4. Round
    BY <1>1 DEF Round, Handling
  <1>5. Wakeups
    BY <1>1 DEF Wakeups, Readable, Free
  <1>6. \A c \in Client : TasksOf(c) = 0
    <2> SUFFICES ASSUME NEW c \in Client PROVE TasksOf(c) = 0
      OBVIOUS
    <2>1. /\ {i \in DOMAIN fifo : fifo[i].from = c} = {}
          /\ {w \in Worker : taken[w] # NoTask /\ taken[w].from = c} = {}
          /\ served[c] = 0 /\ offered[Server] = NoTask
      BY <1>1
    <2>2. Cardinality({}) = 0
      BY FS_EmptySet
    <2>3. TasksOf(c) = 0 + 0 + 0 + 0
      BY <2>1, <2>2 DEF TasksOf
    <2> QED
      BY <2>3
  <1>7. Single
    BY <1>1, <1>6 DEF Single
  <1> QED
    BY <1>2, <1>3, <1>4, <1>5, <1>7 DEF NetInv

LEMMA StepKeeps == NetInv /\ [Next]_vars => NetInv'
  <1> SUFFICES ASSUME NetInv, [Next]_vars PROVE NetInv'
    OBVIOUS
  <1>1. CASE \E c \in Client : Connect(c) \/ Send(c) \/ Shut(c)
    BY <1>1, ConnectKeeps, SendKeeps, ShutKeeps
  <1>2. CASE \E f \in Fd : Spurious(f)
    BY <1>2, SpuriousKeeps
  <1>3. CASE ServerStep
    <2>1. CASE EpollWait \/ NextEvent \/ Accept \/ AcceptFails \/ AcceptNone
      BY <2>1, EpollWaitKeeps, NextEventKeeps, AcceptKeeps, AcceptFailsKeeps, AcceptNoneKeeps
    <2>2. CASE Read \/ ReadNothing \/ ReadErrnoLost \/ CloseFailed \/ ReadEnd \/ Push \/ Close
      BY <2>2, ReadKeeps, ReadNothingKeeps, ReadErrnoLostKeeps, CloseFailedKeeps, ReadEndKeeps,
         PushKeeps, CloseKeeps
    <2> QED
      BY <1>3, <2>1, <2>2 DEF ServerStep
  <1>4. CASE EpollInterrupted
    BY <1>4, EpollInterruptedKeeps
  <1>5. CASE \E w \in Worker : Pop(w) \/ Work(w) \/ WorkDies(w)
    BY <1>5, PopKeeps, WorkKeeps, WorkDiesKeeps
  <1>6. CASE UNCHANGED vars
    <2>1. UNCHANGED <<queue, clients, server, served>>
      BY <1>6 DEF vars
    <2>2. UNCHANGED <<fifo, offered, taken, unread, sent, shut, backlog, fds, ready, pc, conn, events, served>>
      BY <2>1 DEF queue, clients, server
    <2>3. \A d \in Client : TasksOf(d)' = TasksOf(d)
      BY <2>1, OthersCount DEF NetInv
    <2>4. Types' /\ Places' /\ Round' /\ Wakeups'
      BY <2>2 DEF NetInv, Types, Places, Round, Wakeups, Readable, FdsOf, Free, Handling
    <2>5. Single'
      BY <2>2, <2>3 DEF NetInv, Single, FdsOf
    <2> QED
      BY <2>4, <2>5 DEF NetInv
  <1> QED
    BY <1>1, <1>2, <1>3, <1>4, <1>5, <1>6 DEF Next

(* The server's data agree at every moment: a client is in one place, the  *)
(* events that wait are of connections that are still those they were      *)
(* reported for, what can be read is known to epoll or about to be looked  *)
(* at, and a connection makes at most one task.                            *)
THEOREM NetInvariant == Spec => []NetInv
  <1>1. Init => NetInv
    BY InitKeeps
  <1>2. NetInv /\ [Next]_vars => NetInv'
    BY StepKeeps
  <1> QED
    BY <1>1, <1>2, PTL DEF Spec

(* The edge-triggered loop of net_server never sleeps over a connection    *)
(* that has something to be read and that epoll will not report again.     *)
THEOREM WakeupsAreKept == Spec => []NoLostWakeup
  <1>1. NetInv => NoLostWakeup
    <2> SUFFICES ASSUME NetInv, pc = "wait", NEW f \in Fd, Readable(f) PROVE f \in ToSet(ready)
      BY DEF NoLostWakeup, Readable
    <2>1. events = <<>> /\ ~Handling
      BY DEF NetInv, Round, Handling
    <2> QED
      BY <2>1 DEF NetInv, Wakeups
  <1> QED
    BY <1>1, NetInvariant, PTL

(* A connection makes one task, and is closed for it, however much its     *)
(* client sends and however the clients, the workers and the loop over the *)
(* events take turns.                                                      *)
THEOREM OneTaskPerConnection == Spec => []OneTaskEach
  <1>1. NetInv => TypeOK
    <2> SUFFICES ASSUME NetInv PROVE TypeOK
      OBVIOUS
    <2>1. ASSUME NEW c \in Client PROVE Cardinality(FdsOf(c)) <= 1
      <3>1. CASE FdsOf(c) = {}
        BY <3>1, FS_EmptySet
      <3>2. CASE FdsOf(c) # {}
        <4>1. PICK f : f \in FdsOf(c)
          BY <3>2
        <4>2. \A g \in FdsOf(c) : g = f
          BY <4>1, NetAssumption DEF FdsOf, NetInv, Places, Free
        <4>3. FdsOf(c) = {f}
          BY <4>1, <4>2
        <4>4. Cardinality({f}) = 1
          BY FS_Singleton
        <4> QED
          BY <4>3, <4>4
      <3> QED
        BY <3>1, <3>2
    <2>2. ToSet(ready) \subseteq {f \in Fd : ~Free(f)} \cup {Listen}
      <3>1. \A f \in ToSet(ready) : f \in Known
        BY DEF NetInv, Types, ToSet
      <3> QED
        BY <3>1 DEF NetInv, Places, Known
    <2>3. offered[Server] \in Task \cup {NoTask} /\ \A w \in Worker : taken[w] \in Task \cup {NoTask}
      BY DEF NetInv, Types
    <2> QED
      BY <2>1, <2>2, <2>3 DEF TypeOK, NetInv, Types, Places, Single, Known
  <1>2. NetInv => \A c \in Client :
          TasksOf(c) <= 1 /\ (TasksOf(c) = 1 /\ FdsOf(c) # {} => pc \in {"push", "close"})
    BY DEF NetInv, Single
  <1>3. NetInv => OneTaskEach
    BY <1>1, <1>2 DEF OneTaskEach
  <1> QED
    BY <1>3, NetInvariant, PTL

(* The loop over the events of a round closes connections and accepts new  *)
(* ones on descriptors that are free again; the events that are left are   *)
(* never taken for those of another client.                                *)
THEOREM EventsStayFresh == Spec => []EventsFresh
  <1>1. NetInv => EventsFresh
    BY DEF NetInv, Round, EventsFresh
  <1> QED
    BY <1>1, NetInvariant, PTL

(* net_server and the workers use the task queue as its specification lets *)
(* them: one producer that waits for its push to return, and consumers     *)
(* that are done with a task before they take another.                     *)
THEOREM ServerUsesQueue == Spec => Q!Spec
  <1>1. Init => Q!Init
    BY DEF Init
  <1>2. NetInv /\ [Next]_vars => [Q!Next]_queue
    <2> SUFFICES ASSUME NetInv, [Next]_vars PROVE Q!Next \/ UNCHANGED queue
      OBVIOUS
    <2>1. CASE Read
      <3>1. conn \in Fd /\ fds[conn] \in Client
        BY <2>1 DEF Read, NetInv, Types, Round, Handling, Known, Free
      <3>2. [from |-> fds[conn], client_fd |-> conn, heap |-> Server] \in Task
        BY <3>1 DEF Task
      <3> QED
        BY <2>1, <3>2 DEF Read, Q!Next
    <2>2. CASE Push
      BY <2>2 DEF Push, Q!Next, Q!AnyEnqueue
    <2>3. ASSUME NEW w \in Worker, Pop(w) \/ Work(w) \/ WorkDies(w) PROVE Q!Next \/ UNCHANGED queue
      BY <2>3 DEF Pop, Work, WorkDies, Q!Next, Q!AnyDequeue
    <2>4. CASE \E c \in Client : Connect(c) \/ Send(c) \/ Shut(c)
      BY <2>4 DEF Connect, Send, Shut
    <2>5. CASE \E f \in Fd : Spurious(f)
      BY <2>5 DEF Spurious
    <2>6. CASE EpollWait \/ NextEvent \/ Accept \/ AcceptFails \/ AcceptNone \/ EpollInterrupted
      BY <2>6 DEF EpollWait, NextEvent, Accept, AcceptFails, AcceptNone, EpollInterrupted
    <2>7. CASE ReadNothing \/ ReadErrnoLost \/ CloseFailed \/ ReadEnd \/ Close
      BY <2>7 DEF ReadNothing, ReadErrnoLost, CloseFailed, ReadEnd, Close
    <2>8. CASE UNCHANGED vars
      BY <2>8 DEF vars
    <2> QED
      BY <2>1, <2>2, <2>3, <2>4, <2>5, <2>6, <2>7, <2>8 DEF Next, ServerStep
  <1>3. Q!vars = queue
    BY DEF Q!vars, queue
  <1>4. NetInv /\ [Next]_vars => [Q!Next]_(Q!vars)
    BY <1>2, <1>3 DEF Q!vars, queue
  <1> QED
    BY <1>1, <1>4, NetInvariant, PTL DEF Spec, Q!Spec

=============================================================================
