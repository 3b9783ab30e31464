--------------------------- MODULE Processes_proofs ---------------------------
(***************************************************************************)
(* Proofs about the processes of the daemon.                               *)
(*                                                                         *)
(* SharedLog: what lock_log blocks signals for and what it takes the       *)
(* semaphore for, with any number of processes and a log file of any size. *)
(*                                                                         *)
(* PidFile: while starts and stops do not overlap, for any daemons and any *)
(* number of files, one daemon runs, the file names it, and a start fails  *)
(* only because of it.  (When they overlap this is not so: see the run     *)
(* pid_race.)                                                              *)
(***************************************************************************)
EXTENDS SharedLog, DaemonFile, FiniteSetTheorems, TLAPS

-----------------------------------------------------------------------------
(* The stack of frames *)

(* From lock_log's sigprocmask on until unlock_log's, Blocked is blocked. *)
Inside == {"lock", "restore"} \cup Critical
Base(f) == f.back \cup ({f.sig} \ {None})
MaskOf(f) == IF f.pc \in Inside THEN Base(f) \cup Blocked ELSE Base(f)

Frame == [sig : Signal \cup {None}, pc : LogPc \cup {"run", "return", "exit"},
          writes : BOOLEAN, back : SUBSET Signal]

(* A frame stands on others: its signal was not blocked when it came, and  *)
(* what was blocked by any of these still is.                              *)
StackOk(s) ==
    /\ s \in Seq(Frame) /\ Len(s) >= 1
    /\ s[1].sig = None /\ s[1].back = {} /\ s[1].pc \in LogPc \cup {"run"}
    /\ \A j \in 2 .. Len(s) :
         /\ s[j].sig \in Signal \ s[j].back
         /\ s[j].back = MaskOf(s[j - 1])
         /\ s[j].sig = "CHLD" => s[j].pc \in {"return", "exit"}
         /\ \A i \in 1 .. j - 1 : MaskOf(s[i]) \subseteq s[j].back

Crit(s) == {i \in DOMAIN s : s[i].pc \in Critical}

StacksOk == \A p \in Proc : StackOk(stack[p])

MasksOk ==
    \A p \in Proc :
        /\ mask[p] = MaskOf(Top(p))
        /\ orig_mask[p] \in SUBSET Signal
        /\ \A i \in DOMAIN stack[p] :
             stack[p][i].pc \in Inside => orig_mask[p] = Base(stack[p][i])

LockOk ==
    /\ sem \in {0, 1}
    /\ undo \in [Proc -> {0, 1}]
    /\ \A p \in Proc : undo[p] = 1 <=> Crit(stack[p]) # {}
    /\ \A p, q \in Proc : undo[p] = 1 /\ undo[q] = 1 => p = q
    /\ \A p \in Proc : undo[p] = 1 => p \in alive
    /\ sem = 1 <=> \A p \in Proc : undo[p] = 0

FilesOk ==
    /\ size \in 0 .. Limit + 1
    /\ old \in {NoFile, Limit + 1}
    /\ \A p \in Proc : \A i \in DOMAIN stack[p] :
         /\ stack[p][i].pc \in {"remove", "rename"} => size > Limit
         /\ stack[p][i].pc = "write" => size <= Limit

Shape ==
    /\ alive \subseteq Proc
    /\ sends \in Nat
    /\ sig_exiting \in BOOLEAN
    /\ stack = [p \in Proc |-> stack[p]]
    /\ mask = [p \in Proc |-> mask[p]]
    /\ orig_mask = [p \in Proc |-> orig_mask[p]]
    /\ pending \in [Proc -> SUBSET Signal]

LogInv == Shape /\ StacksOk /\ MasksOk /\ LockOk /\ FilesOk

-----------------------------------------------------------------------------
(* Sequences *)

LEMMA FrontIs ==
  ASSUME NEW S, NEW s \in Seq(S), NEW n \in Nat, n = Len(s), n >= 1
  PROVE  /\ Front(s) \in Seq(S) /\ Len(Front(s)) = n - 1
         /\ \A i \in 1 .. n - 1 : Front(s)[i] = s[i]
  BY DEF Front

LEMMA AppendIs ==
  ASSUME NEW S, NEW s \in Seq(S), NEW n \in Nat, n = Len(s), NEW t \in S
  PROVE  /\ Append(s, t) \in Seq(S) /\ Len(Append(s, t)) = n + 1
         /\ Append(s, t)[n + 1] = t
         /\ \A i \in 1 .. n : Append(s, t)[i] = s[i]
  OBVIOUS

LEMMA ReplaceIs ==
  ASSUME NEW S, NEW s \in Seq(S), NEW n \in Nat, n = Len(s), n >= 1, NEW t \in S
  PROVE  /\ Append(Front(s), t) \in Seq(S) /\ Len(Append(Front(s), t)) = n
         /\ Append(Front(s), t)[n] = t
         /\ \A i \in 1 .. n - 1 : Append(Front(s), t)[i] = s[i]
  <1>1. PICK f : f = Front(s)
    OBVIOUS
  <1>2. PICK m \in Nat : m = n - 1
    OBVIOUS
  <1>3. f \in Seq(S) /\ m = Len(f) /\ \A i \in 1 .. m : f[i] = s[i]
    BY <1>1, <1>2, FrontIs
  <1>4. /\ Append(f, t) \in Seq(S) /\ Len(Append(f, t)) = m + 1
        /\ Append(f, t)[m + 1] = t
        /\ \A i \in 1 .. m : Append(f, t)[i] = f[i]
    BY <1>3, AppendIs
  <1>5. m + 1 = n /\ 1 .. m = 1 .. n - 1
    BY <1>2
  <1> QED
    BY <1>1, <1>3, <1>4, <1>5

-----------------------------------------------------------------------------
(* The stack *)

LEMMA StackIs ==
  ASSUME NEW s, StackOk(s)
  PROVE  \E n \in Nat :
           /\ n >= 1 /\ n = Len(s) /\ s \in Seq(Frame) /\ DOMAIN s = 1 .. n
           /\ Last(s) = s[n] /\ s[n] \in Frame
           /\ s[1].sig = None /\ s[1].back = {} /\ s[1].pc \in LogPc \cup {"run"}
           /\ \A j \in 2 .. n :
                /\ s[j].sig \in Signal \ s[j].back
                /\ s[j].back = MaskOf(s[j - 1])
                /\ s[j].sig = "CHLD" => s[j].pc \in {"return", "exit"}
                /\ \A i \in 1 .. j - 1 : MaskOf(s[i]) \subseteq s[j].back
  <1>1. s \in Seq(Frame) /\ Len(s) >= 1
    BY DEF StackOk
  <1>2. PICK n \in Nat : n = Len(s)
    BY <1>1
  <1>3. DOMAIN s = 1 .. n /\ n >= 1 /\ s[n] \in Frame
    BY <1>1, <1>2
  <1> QED
    BY <1>1, <1>2, <1>3 DEF StackOk, Last

(* A frame that has Blocked blocked is on top, or SIGCHLD has interrupted it. *)
LEMMA InsideOnTop ==
  ASSUME NEW s, StackOk(s), NEW i \in DOMAIN s, s[i].pc \in Inside
  PROVE  i = Len(s) \/ (i = Len(s) - 1 /\ s[Len(s)].sig = "CHLD")
  <1>1. PICK n \in Nat :
           /\ n >= 1 /\ n = Len(s) /\ DOMAIN s = 1 .. n
           /\ \A j \in 2 .. n :
                /\ s[j].sig \in Signal \ s[j].back
                /\ s[j].back = MaskOf(s[j - 1])
                /\ \A k \in 1 .. j - 1 : MaskOf(s[k]) \subseteq s[j].back
    BY StackIs
  <1>2. Blocked \subseteq MaskOf(s[i])
    BY DEF MaskOf
  <1>3. i \in 1 .. n
    BY <1>1
  <1>4. CASE i = n
    BY <1>1, <1>4
  <1>5. CASE i # n
    <2>1. i + 1 \in 2 .. n /\ i \in 1 .. (i + 1) - 1
      BY <1>1, <1>3, <1>5
    <2>2. s[i + 1].sig \in Signal \ s[i + 1].back /\ Blocked \subseteq s[i + 1].back
      BY <1>1, <1>2, <2>1
    <2>3. s[i + 1].sig = "CHLD"
      BY <2>2 DEF Signal
    <2>4. ASSUME i + 1 # n PROVE FALSE
      <3>1. i + 2 \in 2 .. n /\ i + 1 \in 1 .. (i + 2) - 1 /\ (i + 2) - 1 = i + 1
        BY <1>1, <1>3, <1>5, <2>4
      <3>2. s[i + 2].sig \in Signal \ s[i + 2].back /\ MaskOf(s[i + 1]) \subseteq s[i + 2].back
        BY <1>1, <3>1
      <3>3. Signal \subseteq MaskOf(s[i + 1])
        BY <2>2, <2>3 DEF MaskOf, Base, Signal, None, Blocked
      <3> QED
        BY <3>2, <3>3
    <2>5. i + 1 = n
      BY <2>4
    <2> QED
      BY <1>1, <1>3, <2>3, <2>5
  <1> QED
    BY <1>4, <1>5

(* Where the top logs, it is the only one inside. *)
LEMMA InsideIsTop ==
  ASSUME NEW s, StackOk(s), Last(s).pc \in LogPc, NEW i \in DOMAIN s, s[i].pc \in Inside
  PROVE  i = Len(s)
  <1>1. PICK n \in Nat : 
           /\ n >= 1 /\ n = Len(s) /\ Last(s) = s[n] /\ s[1].sig = None
           /\ \A j \in 2 .. n : s[j].sig = "CHLD" => s[j].pc \in {"return", "exit"}
    BY StackIs
  <1>2. s[n].sig # "CHLD"
    <2>1. CASE n = 1
      BY <1>1, <2>1 DEF None
    <2>2. CASE n # 1
      <3>1. n \in 2 .. n
        BY <1>1, <2>2
      <3>2. s[n].pc \notin {"return", "exit"}
        BY <1>1 DEF LogPc
      <3> QED
        BY <1>1, <3>1, <3>2
    <2> QED
      BY <2>1, <2>2
  <1> QED
    BY <1>1, <1>2, InsideOnTop

LEMMA AtMostOneInside ==
  ASSUME NEW s, StackOk(s), NEW i \in DOMAIN s, NEW j \in DOMAIN s,
         s[i].pc \in Inside, s[j].pc \in Inside
  PROVE  i = j
  <1>1. PICK n \in Nat :
           /\ n >= 1 /\ n = Len(s) /\ DOMAIN s = 1 .. n /\ s[1].sig = None
           /\ \A k \in 2 .. n : s[k].sig = "CHLD" => s[k].pc \in {"return", "exit"}
    BY StackIs
  <1>2. ASSUME NEW k \in DOMAIN s, s[k].pc \in Inside, s[n].sig = "CHLD" PROVE k = n - 1
    <2>1. n # 1
      BY <1>1, <1>2 DEF None
    <2>2. s[n].pc \in {"return", "exit"}
      BY <1>1, <1>2, <2>1
    <2>3. k # n
      BY <1>2, <2>2 DEF Inside, Critical
    <2> QED
      BY <1>1, <1>2, <2>3, InsideOnTop
  <1>3. CASE s[n].sig = "CHLD"
    BY <1>2, <1>3
  <1>4. CASE s[n].sig # "CHLD"
    BY <1>1, <1>4, InsideOnTop
  <1> QED
    BY <1>3, <1>4

LEMMA ReplaceKeeps ==
  ASSUME NEW s, StackOk(s), NEW pc \in LogPc \cup {"run", "return", "exit"},
         NEW t \in Frame, t.sig = Last(s).sig, t.back = Last(s).back, t.pc = pc,
         t.sig = None => pc \in LogPc \cup {"run"},
         t.sig = "CHLD" => pc \in {"return", "exit"}
  PROVE  /\ StackOk(Append(Front(s), t)) /\ Last(Append(Front(s), t)) = t
         /\ Len(Append(Front(s), t)) = Len(s)
         /\ \A i \in DOMAIN s \ {Len(s)} : Append(Front(s), t)[i] = s[i]
  <1>1. PICK n \in Nat :
           /\ n >= 1 /\ n = Len(s) /\ s \in Seq(Frame) /\ DOMAIN s = 1 .. n
           /\ Last(s) = s[n]
           /\ s[1].sig = None /\ s[1].back = {} /\ s[1].pc \in LogPc \cup {"run"}
           /\ \A j \in 2 .. n :
                /\ s[j].sig \in Signal \ s[j].back
                /\ s[j].back = MaskOf(s[j - 1])
                /\ s[j].sig = "CHLD" => s[j].pc \in {"return", "exit"}
                /\ \A i \in 1 .. j - 1 : MaskOf(s[i]) \subseteq s[j].back
    BY StackIs
  <1>2. PICK r : r = Append(Front(s), t)
    OBVIOUS
  <1>3. r \in Seq(Frame) /\ Len(r) = n /\ r[n] = t /\ \A i \in 1 .. n - 1 : r[i] = s[i]
    BY <1>1, <1>2, ReplaceIs
  <1>4. r[1].sig = None /\ r[1].back = {} /\ r[1].pc \in LogPc \cup {"run"}
    <2>1. CASE n = 1
      BY <1>1, <1>3, <2>1
    <2>2. CASE n # 1
      <3>1. 1 \in 1 .. n - 1
        BY <1>1, <2>2
      <3> QED
        BY <1>1, <1>3, <3>1
    <2> QED
      BY <2>1, <2>2
  <1>5. ASSUME NEW j \in 2 .. n
        PROVE  /\ r[j].sig \in Signal \ r[j].back
               /\ r[j].back = MaskOf(r[j - 1])
               /\ r[j].sig = "CHLD" => r[j].pc \in {"return", "exit"}
               /\ \A i \in 1 .. j - 1 : MaskOf(r[i]) \subseteq r[j].back
    <2>1. r[j].sig = s[j].sig /\ r[j].back = s[j].back
      <3>1. CASE j = n
        BY <1>1, <1>3, <3>1
      <3>2. CASE j # n
        <4>1. j \in 1 .. n - 1
          BY <3>2
        <4> QED
          BY <1>3, <4>1
      <3> QED
        BY <3>1, <3>2
    <2>2. r[j].sig = "CHLD" => r[j].pc \in {"return", "exit"}
      <3>1. CASE j = n
        BY <1>3, <3>1
      <3>2. CASE j # n
        <4>1. j \in 1 .. n - 1
          BY <3>2
        <4> QED
          BY <1>1, <1>3, <4>1
      <3> QED
        BY <3>1, <3>2
    <2>3. j - 1 \in 1 .. n - 1 /\ \A i \in 1 .. j - 1 : i \in 1 .. n - 1
      OBVIOUS
    <2>4. r[j - 1] = s[j - 1] /\ \A i \in 1 .. j - 1 : r[i] = s[i]
      BY <1>3, <2>3
    <2> QED
      BY <1>1, <2>1, <2>2, <2>4
  <1>6. Len(r) >= 1
    BY <1>1, <1>3
  <1>7. StackOk(r)
    BY <1>3, <1>4, <1>5, <1>6 DEF StackOk
  <1>8. \A i \in DOMAIN s \ {Len(s)} : r[i] = s[i]
    <2>1. ASSUME NEW i \in 1 .. n, i # n PROVE i \in 1 .. n - 1
      BY <2>1
    <2> QED
      BY <1>1, <1>3, <2>1
  <1> QED
    BY <1>1, <1>2, <1>3, <1>7, <1>8 DEF Last

LEMMA PushKeeps ==
  ASSUME NEW s, StackOk(s), NEW t \in Frame, t.back = MaskOf(Last(s)),
         t.sig \in Signal \ t.back, t.sig = "CHLD" => t.pc \in {"return", "exit"}
  PROVE  /\ StackOk(Append(s, t)) /\ Last(Append(s, t)) = t
         /\ Len(Append(s, t)) = Len(s) + 1
         /\ \A i \in DOMAIN s : Append(s, t)[i] = s[i]
  <1>1. PICK n \in Nat :
           /\ n >= 1 /\ n = Len(s) /\ s \in Seq(Frame) /\ DOMAIN s = 1 .. n
           /\ Last(s) = s[n]
           /\ s[1].sig = None /\ s[1].back = {} /\ s[1].pc \in LogPc \cup {"run"}
           /\ \A j \in 2 .. n :
                /\ s[j].sig \in Signal \ s[j].back
                /\ s[j].back = MaskOf(s[j - 1])
                /\ s[j].sig = "CHLD" => s[j].pc \in {"return", "exit"}
                /\ \A i \in 1 .. j - 1 : MaskOf(s[i]) \subseteq s[j].back
    BY StackIs
  <1>2. PICK r : r = Append(s, t)
    OBVIOUS
  <1>3. r \in Seq(Frame) /\ Len(r) = n + 1 /\ r[n + 1] = t /\ \A i \in 1 .. n : r[i] = s[i]
    BY <1>1, <1>2, AppendIs
  <1>4. r[1].sig = None /\ r[1].back = {} /\ r[1].pc \in LogPc \cup {"run"}
    BY <1>1, <1>3
  <1>5. \A i \in 1 .. n : MaskOf(s[i]) \subseteq t.back
    <2>1. TAKE i \in 1 .. n
    <2>2. CASE i = n
      BY <1>1, <2>2
    <2>3. CASE i # n
      <3>1. n \in 2 .. n /\ i \in 1 .. n - 1
        BY <1>1, <2>3
      <3>2. MaskOf(s[i]) \subseteq s[n].back
        BY <1>1, <3>1
      <3>3. s[n].back \subseteq MaskOf(s[n])
        BY DEF MaskOf, Base
      <3> QED
        BY <1>1, <3>2, <3>3
    <2> QED
      BY <2>2, <2>3
  <1>6. ASSUME NEW j \in 2 .. n + 1
        PROVE  /\ r[j].sig \in Signal \ r[j].back
               /\ r[j].back = MaskOf(r[j - 1])
               /\ r[j].sig = "CHLD" => r[j].pc \in {"return", "exit"}
               /\ \A i \in 1 .. j - 1 : MaskOf(r[i]) \subseteq r[j].back
    <2>1. CASE j = n + 1
      <3>1. j - 1 = n /\ n \in 1 .. n
        BY <1>1, <2>1
      <3>2. r[n] = s[n] /\ r[j] = t
        BY <1>3, <2>1, <3>1
      <3> QED
        BY <1>1, <1>3, <1>5, <3>1, <3>2
    <2>2. CASE j # n + 1
      <3>1. j \in 2 .. n /\ j \in 1 .. n /\ j - 1 \in 1 .. n /\ \A i \in 1 .. j - 1 : i \in 1 .. n
        BY <2>2
      <3> QED
        BY <1>1, <1>3, <3>1
    <2> QED
      BY <2>1, <2>2
  <1>7. Len(r) >= 1
    BY <1>1, <1>3
  <1>8. StackOk(r)
    BY <1>3, <1>4, <1>6, <1>7 DEF StackOk
  <1> QED
    BY <1>1, <1>2, <1>3, <1>8 DEF Last

LEMMA PopKeeps ==
  ASSUME NEW s, StackOk(s), Last(s).pc = "return"
  PROVE  /\ StackOk(Front(s)) /\ Len(Front(s)) = Len(s) - 1
         /\ Last(s).back = MaskOf(Last(Front(s)))
         /\ \A i \in DOMAIN Front(s) : i \in DOMAIN s /\ Front(s)[i] = s[i]
         /\ \A i \in DOMAIN s : i # Len(s) => i \in DOMAIN Front(s)
  <1>1. PICK n \in Nat :
           /\ n >= 1 /\ n = Len(s) /\ s \in Seq(Frame) /\ DOMAIN s = 1 .. n
           /\ Last(s) = s[n]
           /\ s[1].sig = None /\ s[1].back = {} /\ s[1].pc \in LogPc \cup {"run"}
           /\ \A j \in 2 .. n :
                /\ s[j].sig \in Signal \ s[j].back
                /\ s[j].back = MaskOf(s[j - 1])
                /\ s[j].sig = "CHLD" => s[j].pc \in {"return", "exit"}
                /\ \A i \in 1 .. j - 1 : MaskOf(s[i]) \subseteq s[j].back
    BY StackIs
  <1>2. n # 1
    BY <1>1 DEF LogPc
  <1>12. PICK r : r = Front(s)
    OBVIOUS
  <1>3. PICK m \in Nat : m = n - 1 /\ m >= 1
    BY <1>1, <1>2
  <1>4. r \in Seq(Frame) /\ Len(r) = m /\ \A i \in 1 .. m : r[i] = s[i]
    BY <1>1, <1>3, <1>12, FrontIs
  <1>5. DOMAIN r = 1 .. m
    BY <1>4
  <1>6. \A j \in 2 .. m : j \in 2 .. n /\ j \in 1 .. m /\ j - 1 \in 1 .. m
                          /\ \A i \in 1 .. j - 1 : i \in 1 .. m
    BY <1>3
  <1>7. r[1] = s[1]
    BY <1>3, <1>4
  <1>8. \A j \in 2 .. m :
               /\ r[j].sig \in Signal \ r[j].back
               /\ r[j].back = MaskOf(r[j - 1])
               /\ r[j].sig = "CHLD" => r[j].pc \in {"return", "exit"}
               /\ \A i \in 1 .. j - 1 : MaskOf(r[i]) \subseteq r[j].back
    BY <1>1, <1>4, <1>6
  <1>9. StackOk(r)
    BY <1>1, <1>3, <1>4, <1>7, <1>8 DEF StackOk
  <1>10. s[n].back = MaskOf(r[m])
    <2>1. n \in 2 .. n /\ n - 1 = m /\ m \in 1 .. m
      BY <1>1, <1>2, <1>3
    <2> QED
      BY <1>1, <1>4, <2>1
  <1>11. /\ \A i \in 1 .. m : i \in 1 .. n
         /\ \A i \in 1 .. n : i # n => i \in 1 .. m
    BY <1>3
  <1> QED
    BY <1>1, <1>3, <1>12, <1>4, <1>5, <1>9, <1>10, <1>11 DEF Last

-----------------------------------------------------------------------------
(* A step of the top frame *)

Pc == LogPc \cup {"run", "return", "exit"}

(* The top frame of p goes on to `to'; all the other frames stay. *)
Moved(p, to) ==
    /\ Shape => stack' = [q \in Proc |-> stack'[q]]
    /\ StacksOk'
    /\ \A q \in Proc \ {p} : stack'[q] = stack[q]
    /\ DOMAIN stack'[p] = DOMAIN stack[p]
    /\ Len(stack'[p]) = Len(stack[p]) /\ Len(stack[p]) \in DOMAIN stack[p]
    /\ Last(stack[p]) = stack[p][Len(stack[p])]
    /\ Last(stack'[p]) = stack'[p][Len(stack[p])]
    /\ Last(stack'[p]).pc = to
    /\ Base(Last(stack'[p])) = Base(Last(stack[p]))
    /\ \A i \in DOMAIN stack[p] : i # Len(stack[p]) => stack'[p][i] = stack[p][i]

LEMMA TopNotChild ==
  ASSUME NEW s, StackOk(s), Last(s).pc \notin {"return", "exit"}
  PROVE  Last(s).sig # "CHLD"
  <1>1. PICK n \in Nat :
           /\ n >= 1 /\ n = Len(s) /\ Last(s) = s[n] /\ s[1].sig = None
           /\ \A j \in 2 .. n : s[j].sig = "CHLD" => s[j].pc \in {"return", "exit"}
    BY StackIs
  <1>2. CASE n = 1
    BY <1>1, <1>2 DEF None
  <1>3. CASE n # 1
    <2>1. n \in 2 .. n
      BY <1>1, <1>3
    <2> QED
      BY <1>1, <2>1
  <1> QED
    BY <1>2, <1>3

LEMMA GotoMoves ==
  ASSUME Shape, StacksOk, NEW p \in Proc, NEW from, from \notin {"return", "exit"}, NEW to \in Pc,
         Goto(p, from, to), Top(p).sig = None => to \in LogPc \cup {"run"}
  PROVE  p \in alive /\ Last(stack[p]).pc = from /\ Moved(p, to)
  <1>1. /\ p \in alive /\ Last(stack[p]).pc = from
        /\ stack' = [stack EXCEPT ![p] =
                       Append(Front(stack[p]), [Last(stack[p]) EXCEPT !.pc = to])]
    BY DEF Goto, At, Top, Frames
  <1>2. StackOk(stack[p])
    BY DEF StacksOk
  <1>3. PICK f : f = Last(stack[p])
    OBVIOUS
  <1>4. f \in Frame
    BY <1>2, <1>3, StackIs
  <1>5. PICK t : t = [f EXCEPT !.pc = to]
    OBVIOUS
  <1>6. t \in Frame /\ t.sig = f.sig /\ t.back = f.back /\ t.pc = to
    BY <1>4, <1>5 DEF Frame, Pc
  <1>7. f.sig # "CHLD" /\ (f.sig = None => to \in LogPc \cup {"run"})
    BY <1>1, <1>2, <1>3, TopNotChild DEF Top
  <1>8. PICK r : r = Append(Front(stack[p]), t)
    OBVIOUS
  <1>9. /\ StackOk(r) /\ Last(r) = t /\ Len(r) = Len(stack[p])
        /\ \A i \in DOMAIN stack[p] \ {Len(stack[p])} : r[i] = stack[p][i]
    BY <1>2, <1>3, <1>6, <1>7, <1>8, ReplaceKeeps DEF Pc
  <1>10. stack' = [stack EXCEPT ![p] = r]
    BY <1>1, <1>3, <1>5, <1>8
  <1>11. DOMAIN stack = Proc
    BY DEF Shape
  <1>12. stack'[p] = r /\ stack' = [q \in Proc |-> stack'[q]]
         /\ \A q \in Proc \ {p} : stack'[q] = stack[q]
    BY <1>10, <1>11
  <1>13. StacksOk'
    BY <1>9, <1>12 DEF StacksOk
  <1>14. /\ DOMAIN r = DOMAIN stack[p] /\ Len(stack[p]) \in DOMAIN stack[p]
         /\ Last(stack[p]) = stack[p][Len(stack[p])] /\ Last(r) = r[Len(stack[p])]
    <2>1. PICK n \in Nat : n >= 1 /\ n = Len(stack[p]) /\ DOMAIN stack[p] = 1 .. n
                           /\ Last(stack[p]) = stack[p][n]
      BY <1>2, StackIs
    <2>2. PICK m \in Nat : m >= 1 /\ m = Len(r) /\ DOMAIN r = 1 .. m /\ Last(r) = r[m]
      BY <1>9, StackIs
    <2> QED
      BY <1>9, <2>1, <2>2
  <1>15. Base(t) = Base(f)
    BY <1>6 DEF Base
  <1> QED
    BY <1>1, <1>3, <1>6, <1>9, <1>12, <1>13, <1>14, <1>15 DEF Moved

(* Nobody else is in the critical section. *)
LEMMA OnlyHolder ==
  ASSUME StacksOk, LockOk, NEW p \in Proc, Last(stack[p]).pc \in Critical,
         NEW q \in Proc, NEW i \in DOMAIN stack[q], stack[q][i].pc \in Critical
  PROVE  q = p /\ i = Len(stack[p])
  <1>1. StackOk(stack[p])
    BY DEF StacksOk
  <1>2. PICK n \in Nat : n >= 1 /\ n = Len(stack[p]) /\ DOMAIN stack[p] = 1 .. n
                         /\ Last(stack[p]) = stack[p][n]
    BY <1>1, StackIs
  <1>3. n \in Crit(stack[p]) /\ i \in Crit(stack[q])
    BY <1>2 DEF Crit
  <1>4. p = q
    BY <1>3 DEF LockOk
  <1> QED
    BY <1>1, <1>4, InsideIsTop DEF Inside, Critical, LogPc

LEMMA MovedCrit ==
  ASSUME NEW p \in Proc, NEW to, Moved(p, to),
         Last(stack[p]).pc \in Critical <=> to \in Critical
  PROVE  \A q \in Proc : Crit(stack'[q]) = Crit(stack[q])
  <1>1. ASSUME NEW i \in DOMAIN stack[p]
        PROVE  stack'[p][i].pc \in Critical <=> stack[p][i].pc \in Critical
    <2>1. CASE i = Len(stack[p])
      BY <2>1 DEF Moved
    <2>2. CASE i # Len(stack[p])
      BY <2>2 DEF Moved
    <2> QED
      BY <2>1, <2>2
  <1>2. Crit(stack'[p]) = Crit(stack[p])
    BY <1>1 DEF Crit, Moved
  <1>3. \A q \in Proc \ {p} : Crit(stack'[q]) = Crit(stack[q])
    BY DEF Moved
  <1> QED
    BY <1>2, <1>3

LEMMA LockStays ==
  ASSUME LockOk, UNCHANGED <<sem, undo, alive>>, \A q \in Proc : Crit(stack'[q]) = Crit(stack[q])
  PROVE  LockOk'
  BY DEF LockOk

LEMMA FilesStay ==
  ASSUME FilesOk, UNCHANGED <<size, old>>, NEW p \in Proc, NEW to, Moved(p, to),
         to \in {"remove", "rename"} => size > Limit, to = "write" => size <= Limit
  PROVE  FilesOk'
  <1>1. ASSUME NEW q \in Proc, NEW i \in DOMAIN stack'[q]
        PROVE  /\ stack'[q][i].pc \in {"remove", "rename"} => size > Limit
               /\ stack'[q][i].pc = "write" => size <= Limit
    <2>1. CASE q # p \/ i # Len(stack[p])
      <3>1. i \in DOMAIN stack[q] /\ stack'[q][i] = stack[q][i]
        BY <2>1 DEF Moved
      <3> QED
        BY <3>1 DEF FilesOk
    <2>2. CASE q = p /\ i = Len(stack[p])
      <3>1. stack'[q][i].pc = to
        BY <2>2 DEF Moved
      <3> QED
        BY <3>1
    <2> QED
      BY <2>1, <2>2
  <1> QED
    BY <1>1 DEF FilesOk

LEMMA MasksStay ==
  ASSUME Shape, StacksOk, MasksOk, UNCHANGED <<mask, orig_mask>>, NEW p \in Proc, NEW to, Moved(p, to),
         Last(stack[p]).pc \in Inside <=> to \in Inside
  PROVE  MasksOk'
  <1>1. MaskOf(Last(stack'[p])) = MaskOf(Last(stack[p]))
    BY DEF MaskOf, Moved
  <1>2. \A q \in Proc : mask'[q] = MaskOf(Last(stack'[q]))
    BY <1>1 DEF Moved, MasksOk, Top
  <1>3. ASSUME NEW q \in Proc, NEW i \in DOMAIN stack'[q], stack'[q][i].pc \in Inside
        PROVE  orig_mask[q] = Base(stack'[q][i])
    <2>1. CASE q # p \/ i # Len(stack[p])
      <3>1. i \in DOMAIN stack[q] /\ stack'[q][i] = stack[q][i]
        BY <2>1 DEF Moved
      <3> QED
        BY <1>3, <3>1 DEF MasksOk
    <2>2. CASE q = p /\ i = Len(stack[p])
      <3>1. /\ stack'[p][i].pc = to /\ i \in DOMAIN stack[p] /\ stack[p][i] = Last(stack[p])
            /\ Base(stack'[p][i]) = Base(stack[p][i])
        BY <2>2 DEF Moved
      <3> QED
        BY <1>3, <2>2, <3>1 DEF MasksOk
    <2> QED
      BY <2>1, <2>2
  <1> QED
    BY <1>2, <1>3 DEF MasksOk, Top

-----------------------------------------------------------------------------
(* The actions *)

LEMMA ShapeStays ==
  ASSUME Shape, UNCHANGED <<alive, sends, pending, sig_exiting>>,
         stack' = [q \in Proc |-> stack'[q]],
         mask' = [q \in Proc |-> mask'[q]], orig_mask' = [q \in Proc |-> orig_mask'[q]]
  PROVE  Shape'
  BY DEF Shape

LEMMA CallKeeps ==
  ASSUME LogInv, NEW p \in Proc, NEW writes \in BOOLEAN, Call(p, writes)
  PROVE  LogInv'
  <1> USE DEF LogInv
  <1>1. /\ p \in alive /\ Last(stack[p]).pc = "run"
        /\ stack' = [stack EXCEPT ![p] = Append(Front(stack[p]),
                       [Last(stack[p]) EXCEPT !.pc = "block", !.writes = writes])]
        /\ UNCHANGED <<sem, undo, mask, orig_mask, pending, sends, sig_exiting, alive, size, old>>
    BY DEF Call, At, Top, Frames, lock, signals, files
  <1>2. StackOk(stack[p])
    BY DEF StacksOk
  <1>3. PICK f : f = Last(stack[p])
    OBVIOUS
  <1>4. PICK t : t = [f EXCEPT !.pc = "block", !.writes = writes]
    OBVIOUS
  <1>5. f \in Frame
    BY <1>2, <1>3, StackIs
  <1>6. t \in Frame /\ t.sig = f.sig /\ t.back = f.back /\ t.pc = "block"
    BY <1>4, <1>5 DEF Frame, LogPc
  <1>7. f.sig # "CHLD" /\ "block" \in LogPc
    BY <1>1, <1>2, <1>3, TopNotChild DEF LogPc
  <1>8. PICK r : r = Append(Front(stack[p]), t)
    OBVIOUS
  <1>9. /\ StackOk(r) /\ Last(r) = t /\ Len(r) = Len(stack[p])
        /\ \A i \in DOMAIN stack[p] \ {Len(stack[p])} : r[i] = stack[p][i]
    BY <1>2, <1>3, <1>6, <1>7, <1>8, ReplaceKeeps
  <1>10. stack' = [stack EXCEPT ![p] = r] /\ DOMAIN stack = Proc
    BY <1>1, <1>3, <1>4, <1>8 DEF Shape
  <1>11. stack'[p] = r /\ stack' = [q \in Proc |-> stack'[q]]
         /\ \A q \in Proc \ {p} : stack'[q] = stack[q]
    BY <1>10
  <1>12. StacksOk'
    BY <1>9, <1>11 DEF StacksOk
  <1>13. /\ DOMAIN r = DOMAIN stack[p] /\ Len(stack[p]) \in DOMAIN stack[p]
         /\ Last(stack[p]) = stack[p][Len(stack[p])] /\ Last(r) = r[Len(stack[p])]
    <2>1. PICK n \in Nat : n >= 1 /\ n = Len(stack[p]) /\ DOMAIN stack[p] = 1 .. n
                           /\ Last(stack[p]) = stack[p][n]
      BY <1>2, StackIs
    <2>2. PICK m \in Nat : m >= 1 /\ m = Len(r) /\ DOMAIN r = 1 .. m /\ Last(r) = r[m]
      BY <1>9, StackIs
    <2> QED
      BY <1>9, <2>1, <2>2
  <1>14. Moved(p, "block")
    BY <1>3, <1>6, <1>9, <1>11, <1>12, <1>13 DEF Moved, Base
  <1>15. /\ "run" \notin Inside /\ "block" \notin Inside
         /\ "run" \notin Critical /\ "block" \notin Critical
    BY DEF Inside, Critical
  <1>16. MasksOk'
    BY <1>1, <1>14, <1>15, MasksStay
  <1>17. LockOk'
    BY <1>1, <1>14, <1>15, MovedCrit, LockStays
  <1>18. FilesOk'
    BY <1>1, <1>14, FilesStay
  <1>19. Shape'
    BY <1>1, <1>11 DEF Shape
  <1> QED
    BY <1>12, <1>16, <1>17, <1>18, <1>19

LEMMA BlockKeeps ==
  ASSUME LogInv, NEW p \in Proc, Block(p)
  PROVE  LogInv'
  <1> USE DEF LogInv
  <1>1. /\ Goto(p, "block", "lock") /\ UNCHANGED <<sem, undo, pending, sends, sig_exiting, alive, size, old>>
        /\ orig_mask' = [orig_mask EXCEPT ![p] = mask[p]]
        /\ mask' = [mask EXCEPT ![p] = mask[p] \cup Blocked]
    BY DEF Block, lock, files
  <1>2. "lock" \in Pc /\ "lock" \in LogPc /\ "block" \notin Inside /\ "block" \in LogPc
        /\ "lock" \notin Critical /\ "block" \notin Critical /\ "lock" \in Inside
    BY DEF Pc, LogPc, Inside, Critical
  <1>3. p \in alive /\ Last(stack[p]).pc = "block" /\ Moved(p, "lock")
    BY <1>1, <1>2, GotoMoves
  <1>4. LockOk'
    BY <1>1, <1>2, <1>3, MovedCrit, LockStays
  <1>5. FilesOk'
    BY <1>1, <1>3, FilesStay
  <1>6. DOMAIN mask = Proc /\ DOMAIN orig_mask = Proc
    BY DEF Shape
  <1>7. /\ mask' = [q \in Proc |-> mask'[q]] /\ orig_mask' = [q \in Proc |-> orig_mask'[q]]
        /\ orig_mask'[p] = mask[p] /\ mask'[p] = mask[p] \cup Blocked
        /\ \A q \in Proc \ {p} : mask'[q] = mask[q] /\ orig_mask'[q] = orig_mask[q]
    BY <1>1, <1>6
  <1>8. StackOk(stack[p]) /\ StackOk(stack'[p])
    BY <1>3 DEF StacksOk, Moved
  <1>9. mask[p] = Base(Last(stack[p]))
    BY <1>2, <1>3 DEF MasksOk, Top, MaskOf
  <1>10. Base(Last(stack'[p])) = Base(Last(stack[p])) /\ Last(stack'[p]).pc = "lock"
    BY <1>3 DEF Moved
  <1>11. mask'[p] = MaskOf(Last(stack'[p]))
    BY <1>2, <1>7, <1>9, <1>10 DEF MaskOf
  <1>12. orig_mask'[p] \in SUBSET Signal
    <2>1. Last(stack[p]) \in Frame
      BY <1>8, StackIs
    <2> QED
      BY <1>7, <1>9, <2>1 DEF Base, Frame
  <1>13. ASSUME NEW i \in DOMAIN stack'[p], stack'[p][i].pc \in Inside
         PROVE  orig_mask'[p] = Base(stack'[p][i])
    <2>1. i = Len(stack'[p])
      BY <1>2, <1>8, <1>10, <1>13, InsideIsTop
    <2>2. stack'[p][i] = Last(stack'[p])
      BY <2>1, <1>3 DEF Moved
    <2> QED
      BY <1>7, <1>9, <1>10, <2>2
  <1>14. \A q \in Proc \ {p} : stack'[q] = stack[q]
    BY <1>3 DEF Moved
  <1>15. MasksOk'
    BY <1>7, <1>11, <1>12, <1>13, <1>14 DEF MasksOk, Top
  <1>16. Shape'
    BY <1>1, <1>3, <1>7, ShapeStays DEF Moved
  <1> QED
    BY <1>3, <1>4, <1>5, <1>15, <1>16 DEF Moved

LEMMA LockKeeps ==
  ASSUME LogInv, NEW p \in Proc, Lock(p)
  PROVE  LogInv'
  <1> USE DEF LogInv
  <1>1. /\ Goto(p, "lock", "stat") /\ sem > 0 /\ sem' = sem - 1
        /\ undo' = [undo EXCEPT ![p] = undo[p] + 1]
        /\ UNCHANGED <<mask, orig_mask, pending, sends, sig_exiting, alive, size, old>>
    BY DEF Lock, signals, files
  <1>2. "stat" \in Pc /\ "stat" \in LogPc /\ "stat" \in Inside /\ "lock" \in Inside
        /\ "stat" \in Critical
    BY DEF Pc, LogPc, Inside, Critical
  <1>3. p \in alive /\ Last(stack[p]).pc = "lock" /\ Moved(p, "stat")
    BY <1>1, <1>2, GotoMoves
  <1>4. MasksOk'
    BY <1>1, <1>2, <1>3, MasksStay
  <1>5. FilesOk'
    BY <1>1, <1>3, FilesStay
  <1>6. /\ sem = 1 /\ sem' = 0 /\ \A q \in Proc : undo[q] = 0 /\ Crit(stack[q]) = {}
    <2>1. sem = 1 /\ sem' = 0
      BY <1>1 DEF LockOk
    <2>2. \A q \in Proc : undo[q] = 0
      BY <2>1 DEF LockOk
    <2>3. \A q \in Proc : undo[q] # 1
      BY <2>2
    <2> QED
      BY <2>1, <2>2, <2>3 DEF LockOk
  <1>7. undo' = [q \in Proc |-> IF q = p THEN 1 ELSE 0]
    <2>1. DOMAIN undo = Proc
      BY DEF LockOk
    <2>2. undo[p] + 1 = 1
      BY <1>6
    <2>3. undo' = [undo EXCEPT ![p] = 1]
      BY <1>1, <2>2
    <2> QED
      BY <1>6, <2>1, <2>3
  <1>8. Crit(stack'[p]) # {}
    BY <1>2, <1>3 DEF Crit, Moved
  <1>9. \A q \in Proc \ {p} : Crit(stack'[q]) = {}
    BY <1>3, <1>6 DEF Moved
  <1>10. undo' \in [Proc -> {0, 1}] /\ \A q \in Proc : undo'[q] = 1 <=> q = p
    BY <1>7
  <1>11. undo'[p] # 0
    BY <1>7
  <1>12. LockOk'
    BY <1>1, <1>3, <1>6, <1>8, <1>9, <1>10, <1>11 DEF LockOk
  <1>13. Shape'
    BY <1>1, <1>3 DEF Moved, Shape
  <1> QED
    BY <1>3, <1>4, <1>5, <1>12, <1>13 DEF Moved

(* The steps of the critical section that leave the lock alone *)
LEMMA CriticalKeeps ==
  ASSUME LogInv, NEW p \in Proc, NEW from \in Critical, NEW to \in Critical, Goto(p, from, to),
         UNCHANGED <<sem, undo, mask, orig_mask, pending, sends, sig_exiting, alive>>
  PROVE  Shape' /\ StacksOk' /\ MasksOk' /\ LockOk' /\ Moved(p, to) /\ Last(stack[p]).pc = from
  <1> USE DEF LogInv
  <1>1. to \in Pc /\ to \in LogPc /\ from \in Inside /\ to \in Inside /\ from \notin {"return", "exit"}
    BY DEF Pc, LogPc, Inside, Critical
  <1>2. p \in alive /\ Last(stack[p]).pc = from /\ Moved(p, to)
    BY <1>1, GotoMoves
  <1>3. MasksOk'
    BY <1>1, <1>2, MasksStay
  <1>4. LockOk'
    BY <1>2, MovedCrit, LockStays
  <1>5. Shape'
    BY <1>2 DEF Moved, Shape
  <1> QED
    BY <1>2, <1>3, <1>4, <1>5 DEF Moved

LEMMA AfterRotationIs ==
  ASSUME NEW p
  PROVE  AfterRotation(p) \in {"write", "unlock"}
  BY DEF AfterRotation

LEMMA StatKeeps ==
  ASSUME LogInv, NEW p \in Proc, Stat(p)
  PROVE  LogInv'
  <1>1. PICK to : to = IF size > Limit THEN "remove" ELSE AfterRotation(p)
    OBVIOUS
  <1>2. to \in Critical /\ "stat" \in Critical /\ to # "rename"
        /\ (to = "remove" => size > Limit) /\ (to = "write" => ~(size > Limit))
    BY <1>1, AfterRotationIs DEF Critical
  <1>3. /\ Goto(p, "stat", to)
        /\ UNCHANGED <<sem, undo, mask, orig_mask, pending, sends, sig_exiting, alive, size, old>>
    BY <1>1 DEF Stat, lock, signals, files
  <1>4. Shape' /\ StacksOk' /\ MasksOk' /\ LockOk' /\ Moved(p, to)
    BY <1>2, <1>3, CriticalKeeps
  <1>5. to = "write" => size <= Limit
    BY <1>2, LogAssumption DEF LogInv, FilesOk
  <1>6. FilesOk'
    BY <1>2, <1>3, <1>4, <1>5, FilesStay DEF LogInv
  <1> QED
    BY <1>4, <1>6 DEF LogInv

(* Where files change, no other frame has looked at them. *)
LEMMA OthersOutside ==
  ASSUME LogInv, NEW p \in Proc, Last(stack[p]).pc \in Critical, NEW to, Moved(p, to),
         NEW q \in Proc, NEW i \in DOMAIN stack'[q], q # p \/ i # Len(stack[p])
  PROVE  stack'[q][i].pc \notin {"remove", "rename", "write"}
  <1>1. i \in DOMAIN stack[q] /\ stack'[q][i] = stack[q][i]
    BY DEF Moved
  <1>2. stack[q][i].pc \notin Critical
    BY <1>1, OnlyHolder DEF LogInv
  <1> QED
    BY <1>1, <1>2 DEF Critical

LEMMA RemoveOldKeeps ==
  ASSUME LogInv, NEW p \in Proc, RemoveOld(p)
  PROVE  LogInv'
  <1>1. /\ Goto(p, "remove", "rename") /\ old' = NoFile
        /\ UNCHANGED <<sem, undo, mask, orig_mask, pending, sends, sig_exiting, alive, size>>
    BY DEF RemoveOld, lock, signals
  <1>2. "remove" \in Critical /\ "rename" \in Critical
    BY DEF Critical
  <1>3. Shape' /\ StacksOk' /\ MasksOk' /\ LockOk' /\ Moved(p, "rename") /\ Last(stack[p]).pc = "remove"
    BY <1>1, <1>2, CriticalKeeps
  <1>4. size > Limit
    BY <1>3 DEF LogInv, FilesOk, Moved
  <1>5. ASSUME NEW q \in Proc, NEW i \in DOMAIN stack'[q]
        PROVE  stack'[q][i].pc # "write"
    <2>1. CASE q = p /\ i = Len(stack[p])
      BY <1>3, <2>1 DEF Moved
    <2>2. CASE q # p \/ i # Len(stack[p])
      BY <1>2, <1>3, <2>2, OthersOutside
    <2> QED
      BY <2>1, <2>2
  <1>6. FilesOk'
    BY <1>1, <1>4, <1>5 DEF LogInv, FilesOk
  <1> QED
    BY <1>3, <1>6 DEF LogInv

LEMMA RenameLogKeeps ==
  ASSUME LogInv, NEW p \in Proc, RenameLog(p)
  PROVE  LogInv'
  <1>1. PICK to : to = AfterRotation(p)
    OBVIOUS
  <1>2. to \in Critical /\ "rename" \in Critical /\ to \in {"write", "unlock"}
    BY <1>1, AfterRotationIs DEF Critical
  <1>3. /\ Goto(p, "rename", to) /\ old' \in {size, NoFile} /\ size' = 0
        /\ UNCHANGED <<sem, undo, mask, orig_mask, pending, sends, sig_exiting, alive>>
    BY <1>1 DEF RenameLog, lock, signals
  <1>4. Shape' /\ StacksOk' /\ MasksOk' /\ LockOk' /\ Moved(p, to) /\ Last(stack[p]).pc = "rename"
    BY <1>2, <1>3, CriticalKeeps
  <1>5. size > Limit
    BY <1>4 DEF LogInv, FilesOk, Moved
  <1>6. size = Limit + 1
    BY <1>5, LogAssumption DEF LogInv, FilesOk
  <1>7. ASSUME NEW q \in Proc, NEW i \in DOMAIN stack'[q]
        PROVE  stack'[q][i].pc \notin {"remove", "rename"}
    <2>1. CASE q = p /\ i = Len(stack[p])
      BY <1>2, <1>4, <2>1 DEF Moved
    <2>2. CASE q # p \/ i # Len(stack[p])
      BY <1>2, <1>4, <2>2, OthersOutside
    <2> QED
      BY <2>1, <2>2
  <1>8. size' <= Limit /\ size' \in 0 .. Limit + 1
    BY <1>3, LogAssumption
  <1>9. old' \in {NoFile, Limit + 1}
    BY <1>3, <1>6
  <1>10. FilesOk'
    BY <1>7, <1>8, <1>9 DEF FilesOk
  <1> QED
    BY <1>4, <1>10 DEF LogInv

LEMMA WriteKeeps ==
  ASSUME LogInv, NEW p \in Proc, Write(p)
  PROVE  LogInv'
  <1>1. /\ Goto(p, "write", "unlock") /\ size' \in {size, size + 1} /\ old' = old
        /\ UNCHANGED <<sem, undo, mask, orig_mask, pending, sends, sig_exiting, alive>>
    BY DEF Write, lock, signals
  <1>2. "write" \in Critical /\ "unlock" \in Critical
    BY DEF Critical
  <1>3. Shape' /\ StacksOk' /\ MasksOk' /\ LockOk' /\ Moved(p, "unlock") /\ Last(stack[p]).pc = "write"
    BY <1>1, <1>2, CriticalKeeps
  <1>4. size <= Limit
    BY <1>3 DEF LogInv, FilesOk, Moved
  <1>5. size' \in 0 .. Limit + 1
    BY <1>1, <1>4, LogAssumption DEF LogInv, FilesOk
  <1>6. ASSUME NEW q \in Proc, NEW i \in DOMAIN stack'[q]
        PROVE  stack'[q][i].pc \notin {"remove", "rename", "write"}
    <2>1. CASE q = p /\ i = Len(stack[p])
      BY <1>3, <2>1 DEF Moved
    <2>2. CASE q # p \/ i # Len(stack[p])
      BY <1>2, <1>3, <2>2, OthersOutside
    <2> QED
      BY <2>1, <2>2
  <1>7. FilesOk'
    BY <1>1, <1>5, <1>6 DEF LogInv, FilesOk
  <1> QED
    BY <1>3, <1>7 DEF LogInv

LEMMA UnlockKeeps ==
  ASSUME LogInv, NEW p \in Proc, Unlock(p)
  PROVE  LogInv'
  <1> USE DEF LogInv
  <1>1. /\ Goto(p, "unlock", "restore") /\ sem' = sem + 1
        /\ undo' = [undo EXCEPT ![p] = undo[p] - 1]
        /\ UNCHANGED <<mask, orig_mask, pending, sends, sig_exiting, alive, size, old>>
    BY DEF Unlock, signals, files
  <1>2. "restore" \in Pc /\ "restore" \in LogPc /\ "unlock" \in LogPc /\ "unlock" \in Inside
        /\ "restore" \in Inside /\ "unlock" \in Critical /\ "restore" \notin Critical
    BY DEF Pc, LogPc, Inside, Critical
  <1>3. p \in alive /\ Last(stack[p]).pc = "unlock" /\ Moved(p, "restore")
    BY <1>1, <1>2, GotoMoves
  <1>4. MasksOk'
    BY <1>1, <1>2, <1>3, MasksStay
  <1>5. FilesOk'
    BY <1>1, <1>3, FilesStay
  <1>6. Crit(stack[p]) # {}
    BY <1>2, <1>3 DEF Crit, Moved
  <1>7. undo[p] = 1
    BY <1>6 DEF LockOk
  <1>8. \A q \in Proc \ {p} : undo[q] = 0
    <2>1. \A q \in Proc \ {p} : undo[q] # 1
      BY <1>7 DEF LockOk
    <2>2. \A q \in Proc : undo[q] \in {0, 1}
      BY DEF LockOk
    <2> QED
      BY <2>1, <2>2
  <1>9. sem' = 1
    <2>1. sem # 1
      BY <1>7 DEF LockOk
    <2>2. sem = 0
      BY <2>1 DEF LockOk
    <2> QED
      BY <1>1, <2>2
  <1>10. undo' = [q \in Proc |-> 0]
    <2>1. DOMAIN undo = Proc
      BY DEF LockOk
    <2>2. undo[p] - 1 = 0
      BY <1>7
    <2>3. undo' = [undo EXCEPT ![p] = 0]
      BY <1>1, <2>2
    <2> QED
      BY <1>8, <2>1, <2>3
  <1>11. Crit(stack'[p]) = {}
    <2>1. StackOk(stack'[p]) /\ Last(stack'[p]).pc = "restore"
      BY <1>3 DEF Moved, StacksOk
    <2>2. SUFFICES ASSUME NEW i \in DOMAIN stack'[p], stack'[p][i].pc \in Critical PROVE FALSE
      BY DEF Crit
    <2>3. i = Len(stack'[p])
      BY <1>2, <2>1, <2>2, InsideIsTop DEF Inside
    <2> QED
      BY <1>2, <1>3, <2>2, <2>3 DEF Moved
  <1>12. \A q \in Proc \ {p} : Crit(stack'[q]) = {}
    <2>1. \A q \in Proc \ {p} : undo[q] # 1
      BY <1>8
    <2> QED
      BY <1>3, <2>1 DEF Moved, LockOk
  <1>13. \A q \in Proc : undo'[q] = 0 /\ undo'[q] # 1
    BY <1>10
  <1>14. undo' \in [Proc -> {0, 1}]
    BY <1>10
  <1>15. LockOk'
    BY <1>9, <1>11, <1>12, <1>13, <1>14 DEF LockOk
  <1>16. Shape'
    BY <1>1, <1>3 DEF Moved, Shape
  <1> QED
    BY <1>3, <1>4, <1>5, <1>15, <1>16 DEF Moved

LEMMA SkipKeeps ==
  ASSUME LogInv, NEW p \in Proc, Skip(p)
  PROVE  LogInv'
  <1> USE DEF LogInv
  <1>1. PICK to : to = AfterLog(p)
    OBVIOUS
  <1>2. to \in {"run", "exit", "return"} /\ (Top(p).sig = None => to = "run")
    BY <1>1 DEF AfterLog
  <1>3. /\ Goto(p, "block", to)
        /\ UNCHANGED <<sem, undo, mask, orig_mask, pending, sends, sig_exiting, alive, size, old>>
    BY <1>1 DEF Skip, lock, signals, files
  <1>4. to \in Pc /\ to \notin Inside /\ to \notin Critical
        /\ "block" \notin Inside /\ "block" \notin Critical
    BY <1>2 DEF Pc, LogPc, Inside, Critical
  <1>5. p \in alive /\ Last(stack[p]).pc = "block" /\ Moved(p, to)
    BY <1>2, <1>3, <1>4, GotoMoves
  <1>6. LockOk'
    BY <1>3, <1>4, <1>5, MovedCrit, LockStays
  <1>7. FilesOk'
    BY <1>2, <1>3, <1>5, FilesStay
  <1>8. MasksOk'
    BY <1>3, <1>4, <1>5, MasksStay
  <1>9. Shape'
    BY <1>3, <1>5 DEF Moved, Shape
  <1> QED
    BY <1>5, <1>6, <1>7, <1>8, <1>9 DEF Moved

LEMMA RestoreKeeps ==
  ASSUME LogInv, NEW p \in Proc, Restore(p)
  PROVE  LogInv'
  <1> USE DEF LogInv
  <1>1. PICK to : to = AfterLog(p)
    OBVIOUS
  <1>2. to \in {"run", "exit", "return"} /\ (Top(p).sig = None => to = "run")
    BY <1>1 DEF AfterLog
  <1>3. /\ Goto(p, "restore", to)
        /\ mask' = [mask EXCEPT ![p] = orig_mask[p]]
        /\ UNCHANGED <<sem, undo, orig_mask, pending, sends, sig_exiting, alive, size, old>>
    BY <1>1 DEF Restore, lock, files
  <1>4. to \in Pc /\ to \notin Inside /\ to \notin Critical /\ "restore" \notin Critical
        /\ "restore" \in Inside /\ "restore" \in LogPc
    BY <1>2 DEF Pc, LogPc, Inside, Critical
  <1>5. p \in alive /\ Last(stack[p]).pc = "restore" /\ Moved(p, to)
    BY <1>2, <1>3, <1>4, GotoMoves
  <1>6. LockOk'
    BY <1>3, <1>4, <1>5, MovedCrit, LockStays
  <1>7. FilesOk'
    BY <1>2, <1>3, <1>5, FilesStay
  <1>8. DOMAIN mask = Proc
    BY DEF Shape
  <1>9. /\ mask' = [q \in Proc |-> mask'[q]] /\ mask'[p] = orig_mask[p]
        /\ \A q \in Proc \ {p} : mask'[q] = mask[q]
    BY <1>3, <1>8
  <1>10. orig_mask[p] = Base(Last(stack[p]))
    BY <1>4, <1>5 DEF MasksOk, Moved
  <1>11. mask'[p] = MaskOf(Last(stack'[p]))
    BY <1>4, <1>5, <1>9, <1>10 DEF MaskOf, Moved
  <1>12. ASSUME NEW i \in DOMAIN stack'[p], stack'[p][i].pc \in Inside
         PROVE  FALSE
    <2>1. StackOk(stack[p]) /\ i \in DOMAIN stack[p]
      BY <1>5 DEF Moved, StacksOk
    <2>2. CASE i = Len(stack[p])
      BY <1>4, <1>5, <1>12, <2>2 DEF Moved
    <2>3. CASE i # Len(stack[p])
      <3>1. stack[p][i].pc \in Inside
        BY <1>5, <1>12, <2>1, <2>3 DEF Moved
      <3> QED
        BY <1>4, <1>5, <2>1, <2>3, <3>1, InsideIsTop
    <2> QED
      BY <2>2, <2>3
  <1>13. \A q \in Proc \ {p} : stack'[q] = stack[q]
    BY <1>5 DEF Moved
  <1>14. MasksOk'
    BY <1>3, <1>9, <1>11, <1>12, <1>13 DEF MasksOk, Top
  <1>15. Shape'
    BY <1>3, <1>5, <1>9 DEF Moved, Shape
  <1> QED
    BY <1>5, <1>6, <1>7, <1>14, <1>15 DEF Moved

(* A handler comes on top. *)
LEMMA DeliverKeeps ==
  ASSUME LogInv, NEW p \in Proc, NEW sg \in Signal, Deliver(p, sg)
  PROVE  LogInv'
  <1> USE DEF LogInv
  <1>1. PICK t : t = [sig |-> sg, pc |-> Entry(p, sg), writes |-> TRUE, back |-> mask[p]]
    OBVIOUS
  <1>2. /\ sg \notin mask[p]
        /\ pending' = [pending EXCEPT ![p] = pending[p] \ {sg}]
        /\ mask' = [mask EXCEPT ![p] = mask[p] \cup {sg}]
        /\ stack' = [stack EXCEPT ![p] = Append(stack[p], t)]
        /\ sig_exiting' = (sig_exiting \/ p = Parent)
        /\ UNCHANGED <<sem, undo, orig_mask, sends, alive, size, old>>
    BY <1>1 DEF Deliver, lock, files
  <1>3. Entry(p, sg) \in {"return", "exit", "block"} /\ (sg = "CHLD" => Entry(p, sg) \in {"return", "exit"})
    BY DEF Entry
  <1>4. StackOk(stack[p]) /\ mask[p] = MaskOf(Last(stack[p]))
    BY DEF StacksOk, MasksOk, Top
  <1>5. mask[p] \in SUBSET Signal
    <2>1. Last(stack[p]) \in Frame
      BY <1>4, StackIs
    <2> QED
      BY <1>4, <2>1 DEF MaskOf, Base, Frame, Signal
  <1>6. t \in Frame
    BY <1>1, <1>3, <1>5 DEF Frame, LogPc
  <1>7. /\ t.sig = sg /\ t.back = mask[p] /\ t.pc \in {"return", "exit", "block"}
        /\ t.sig = "CHLD" => t.pc \in {"return", "exit"}
    BY <1>1, <1>3
  <1>8. PICK r : r = Append(stack[p], t)
    OBVIOUS
  <1>9. /\ StackOk(r) /\ Last(r) = t /\ Len(r) = Len(stack[p]) + 1
        /\ \A i \in DOMAIN stack[p] : r[i] = stack[p][i]
    BY <1>2, <1>4, <1>6, <1>7, <1>8, PushKeeps
  <1>10. PICK n \in Nat : n = Len(stack[p]) /\ DOMAIN stack[p] = 1 .. n
    BY <1>4, StackIs
  <1>11. DOMAIN r = DOMAIN stack[p] \cup {n + 1} /\ r[n + 1] = t /\ n + 1 \notin DOMAIN stack[p]
    <2>1. PICK m \in Nat : m = Len(r) /\ DOMAIN r = 1 .. m /\ Last(r) = r[m]
      BY <1>9, StackIs
    <2>2. m = n + 1
      BY <1>9, <1>10, <2>1
    <2>3. 1 .. n + 1 = (1 .. n) \cup {n + 1}
      OBVIOUS
    <2> QED
      BY <1>9, <1>10, <2>1, <2>2, <2>3
  <1>12. /\ DOMAIN stack = Proc /\ DOMAIN mask = Proc /\ pending \in [Proc -> SUBSET Signal]
    BY DEF Shape
  <1>13. /\ stack'[p] = r /\ stack' = [q \in Proc |-> stack'[q]]
         /\ \A q \in Proc \ {p} : stack'[q] = stack[q]
    BY <1>2, <1>8, <1>12
  <1>14. /\ mask'[p] = mask[p] \cup {sg} /\ mask' = [q \in Proc |-> mask'[q]]
         /\ \A q \in Proc \ {p} : mask'[q] = mask[q]
    BY <1>2, <1>12
  <1>15. StacksOk'
    BY <1>9, <1>13 DEF StacksOk
  <1>16. t.pc \notin Inside /\ t.pc \notin Critical /\ t.pc \notin {"remove", "rename", "write"}
    BY <1>7 DEF Inside, Critical
  <1>17. MaskOf(t) = mask[p] \cup {sg}
    <2>1. sg # None
      BY DEF Signal, Blocked, None
    <2> QED
      BY <1>7, <1>16, <2>1 DEF MaskOf, Base
  <1>18. ASSUME NEW q \in Proc, NEW i \in DOMAIN stack'[q], stack'[q][i].pc \in Inside
         PROVE  i \in DOMAIN stack[q] /\ stack'[q][i] = stack[q][i]
    <2>1. CASE q = p
      <3>1. i # n + 1
        BY <1>11, <1>13, <1>16, <1>18, <2>1
      <3> QED
        BY <1>9, <1>11, <1>13, <1>18, <2>1, <3>1
    <2>2. CASE q # p
      BY <1>13, <2>2
    <2> QED
      BY <2>1, <2>2
  <1>19. \A q \in Proc : mask'[q] = MaskOf(Last(stack'[q]))
    <2>1. mask'[p] = MaskOf(Last(stack'[p]))
      BY <1>9, <1>13, <1>14, <1>17
    <2>2. \A q \in Proc \ {p} : mask'[q] = MaskOf(Last(stack'[q]))
      BY <1>13, <1>14 DEF MasksOk, Top
    <2> QED
      BY <2>1, <2>2
  <1>20. MasksOk'
    <2>1. ASSUME NEW q \in Proc, NEW i \in DOMAIN stack'[q], stack'[q][i].pc \in Inside
          PROVE  orig_mask'[q] = Base(stack'[q][i])
      <3>1. i \in DOMAIN stack[q] /\ stack'[q][i] = stack[q][i]
        BY <1>18, <2>1
      <3>2. orig_mask[q] = Base(stack[q][i])
        BY <2>1, <3>1 DEF MasksOk
      <3> QED
        BY <1>2, <3>1, <3>2
    <2>2. \A q \in Proc : orig_mask'[q] \in SUBSET Signal
      BY <1>2 DEF MasksOk
    <2> QED
      BY <1>19, <2>1, <2>2 DEF MasksOk, Top
  <1>21. ASSUME NEW q \in Proc PROVE Crit(stack'[q]) = Crit(stack[q])
    <2>1. Crit(stack'[q]) \subseteq Crit(stack[q])
      BY <1>18 DEF Crit, Inside
    <2>2. Crit(stack[q]) \subseteq Crit(stack'[q])
      <3>1. \A i \in DOMAIN stack[q] : i \in DOMAIN stack'[q] /\ stack'[q][i] = stack[q][i]
        BY <1>9, <1>11, <1>13
      <3> QED
        BY <3>1 DEF Crit
    <2> QED
      BY <2>1, <2>2
  <1>22. LockOk'
    BY <1>2, <1>21, LockStays
  <1>23. FilesOk'
    <2>1. ASSUME NEW q \in Proc, NEW i \in DOMAIN stack'[q],
                 stack'[q][i].pc \in {"remove", "rename", "write"}
          PROVE  i \in DOMAIN stack[q] /\ stack'[q][i] = stack[q][i]
      BY <1>18, <2>1 DEF Inside, Critical
    <2> QED
      BY <1>2, <2>1 DEF FilesOk
  <1>24. Shape'
    <2>1. pending' \in [Proc -> SUBSET Signal]
      BY <1>2, <1>12
    <2>2. sig_exiting' \in BOOLEAN
      BY <1>2
    <2> QED
      BY <1>2, <1>13, <1>14, <2>1, <2>2 DEF Shape
  <1> QED
    BY <1>15, <1>20, <1>22, <1>23, <1>24

LEMMA ReturnKeeps ==
  ASSUME LogInv, NEW p \in Proc, Return(p)
  PROVE  LogInv'
  <1> USE DEF LogInv
  <1>1. PICK r : r = Front(stack[p])
    OBVIOUS
  <1>2. /\ Last(stack[p]).pc = "return"
        /\ stack' = [stack EXCEPT ![p] = r]
        /\ mask' = [mask EXCEPT ![p] = Last(stack[p]).back]
        /\ UNCHANGED <<sem, undo, orig_mask, pending, sends, sig_exiting, alive, size, old>>
    BY <1>1 DEF Return, At, Top, lock, files
  <1>3. StackOk(stack[p])
    BY DEF StacksOk
  <1>4. /\ StackOk(r) /\ Last(stack[p]).back = MaskOf(Last(r))
        /\ \A i \in DOMAIN r : i \in DOMAIN stack[p] /\ r[i] = stack[p][i]
        /\ \A i \in DOMAIN stack[p] : i # Len(stack[p]) => i \in DOMAIN r
    BY <1>1, <1>2, <1>3, PopKeeps
  <1>5. DOMAIN stack = Proc /\ DOMAIN mask = Proc
    BY DEF Shape
  <1>6. /\ stack'[p] = r /\ stack' = [q \in Proc |-> stack'[q]]
        /\ \A q \in Proc \ {p} : stack'[q] = stack[q]
    BY <1>2, <1>5
  <1>7. /\ mask'[p] = MaskOf(Last(r)) /\ mask' = [q \in Proc |-> mask'[q]]
        /\ \A q \in Proc \ {p} : mask'[q] = mask[q]
    BY <1>2, <1>4, <1>5
  <1>8. StacksOk'
    BY <1>4, <1>6 DEF StacksOk
  <1>9. \A q \in Proc : \A i \in DOMAIN stack'[q] : i \in DOMAIN stack[q] /\ stack'[q][i] = stack[q][i]
    BY <1>4, <1>6
  <1>10. MasksOk'
    <2>1. \A q \in Proc : mask'[q] = MaskOf(Last(stack'[q]))
      BY <1>6, <1>7 DEF MasksOk, Top
    <2> QED
      BY <1>2, <1>9, <2>1 DEF MasksOk, Top
  <1>11. FilesOk'
    BY <1>2, <1>9 DEF FilesOk
  <1>12. ASSUME NEW q \in Proc PROVE Crit(stack'[q]) = Crit(stack[q])
    <2>1. Crit(stack'[q]) \subseteq Crit(stack[q])
      BY <1>9 DEF Crit
    <2>2. ASSUME NEW i \in Crit(stack[q]) PROVE i \in DOMAIN stack'[q]
      <3>1. CASE q = p
        <4>1. stack[p][Len(stack[p])] = Last(stack[p])
          BY DEF Last
        <4>2. i # Len(stack[p])
          BY <1>2, <2>2, <3>1, <4>1 DEF Crit, Critical
        <4> QED
          BY <1>4, <1>6, <2>2, <3>1, <4>2 DEF Crit
      <3>2. CASE q # p
        BY <1>6, <2>2, <3>2 DEF Crit
      <3> QED
        BY <3>1, <3>2
    <2>3. Crit(stack[q]) \subseteq Crit(stack'[q])
      BY <1>9, <2>2 DEF Crit
    <2> QED
      BY <2>1, <2>3
  <1>13. LockOk'
    BY <1>2, <1>12, LockStays
  <1>14. Shape'
    BY <1>2, <1>6, <1>7 DEF Shape
  <1> QED
    BY <1>8, <1>10, <1>11, <1>13, <1>14

LEMMA ProgramIs ==
  /\ StackOk(<<Program>>) /\ DOMAIN <<Program>> = {1} /\ <<Program>>[1].pc = "run"
  /\ Last(<<Program>>) = Program /\ MaskOf(Program) = {} /\ Crit(<<Program>>) = {}
  <1>1. Program \in Frame
    BY DEF Program, Frame, Signal, LogPc
  <1>2. <<Program>> \in Seq(Frame) /\ Len(<<Program>>) = 1 /\ <<Program>>[1] = Program
    BY <1>1
  <1>3. DOMAIN <<Program>> = {1}
    OBVIOUS
  <1>4. Program.pc = "run" /\ Program.sig = None /\ Program.back = {}
    BY DEF Program
  <1>5. StackOk(<<Program>>)
    <2>1. 2 .. 1 = {}
      OBVIOUS
    <2> QED
      BY <1>2, <1>4, <2>1 DEF StackOk
  <1>6. "run" \notin Inside /\ "run" \notin Critical
    BY DEF Inside, Critical
  <1>7. MaskOf(Program) = {} /\ Crit(<<Program>>) = {}
    BY <1>2, <1>3, <1>4, <1>6 DEF MaskOf, Base, Crit
  <1> QED
    BY <1>2, <1>3, <1>4, <1>5, <1>7 DEF Last

(* The kernel gives back what the process had taken. *)
LEMMA EndKeeps ==
  ASSUME LogInv, NEW p \in Proc, End(p)
  PROVE  LogInv'
  <1> USE DEF LogInv
  <1>1. /\ alive' = alive \ {p} /\ sem' = sem + undo[p]
        /\ undo' = [undo EXCEPT ![p] = 0]
        /\ stack' = [stack EXCEPT ![p] = <<Program>>]
        /\ mask' = [mask EXCEPT ![p] = {}]
        /\ orig_mask' = [orig_mask EXCEPT ![p] = {}]
        /\ UNCHANGED <<sends, sig_exiting, size, old>>
    BY DEF End, files
  <1>2. pending' \in [Proc -> SUBSET Signal]
    <2>1. \A q \in Proc : pending[q] \in SUBSET Signal
      BY DEF Shape
    <2> QED
      BY <2>1 DEF End, Signal
  <1>3. /\ DOMAIN stack = Proc /\ DOMAIN mask = Proc /\ DOMAIN orig_mask = Proc
        /\ undo \in [Proc -> {0, 1}]
    BY DEF Shape, LockOk
  <1>4. /\ stack'[p] = <<Program>> /\ stack' = [q \in Proc |-> stack'[q]]
        /\ \A q \in Proc \ {p} : stack'[q] = stack[q]
    BY <1>1, <1>3
  <1>5. /\ mask'[p] = {} /\ mask' = [q \in Proc |-> mask'[q]]
        /\ \A q \in Proc \ {p} : mask'[q] = mask[q]
    BY <1>1, <1>3
  <1>6. /\ orig_mask'[p] = {} /\ orig_mask' = [q \in Proc |-> orig_mask'[q]]
        /\ \A q \in Proc \ {p} : orig_mask'[q] = orig_mask[q]
    BY <1>1, <1>3
  <1>7. /\ undo'[p] = 0 /\ undo' \in [Proc -> {0, 1}]
        /\ \A q \in Proc \ {p} : undo'[q] = undo[q]
    BY <1>1, <1>3
  <1>8. Shape'
    BY <1>1, <1>2, <1>4, <1>5, <1>6 DEF Shape
  <1>9. StacksOk'
    BY <1>4, ProgramIs DEF StacksOk
  <1>10. MasksOk'
    <2>1. \A i \in DOMAIN stack'[p] : stack'[p][i].pc \notin Inside
      BY <1>4, ProgramIs DEF Inside, Critical
    <2>2. mask'[p] = MaskOf(Last(stack'[p]))
      BY <1>4, <1>5, ProgramIs
    <2> QED
      BY <1>4, <1>5, <1>6, <2>1, <2>2 DEF MasksOk, Top
  <1>11. FilesOk'
    <2>1. \A i \in DOMAIN stack'[p] : stack'[p][i].pc \notin {"remove", "rename", "write"}
      BY <1>4, ProgramIs
    <2> QED
      BY <1>1, <1>4, <2>1 DEF FilesOk
  <1>12. LockOk'
    <2>1. \A q \in Proc : undo'[q] = 1 <=> Crit(stack'[q]) # {}
      BY <1>4, <1>7, ProgramIs DEF LockOk
    <2>2. \A q, r \in Proc : undo'[q] = 1 /\ undo'[r] = 1 => q = r
      BY <1>7 DEF LockOk
    <2>5. \A q \in Proc : undo'[q] = 1 => q \in alive'
      BY <1>1, <1>7 DEF LockOk
    <2>3. CASE undo[p] = 1
      <3>1. sem = 0
        BY <2>3 DEF LockOk
      <3>2. sem' = 1
        BY <1>1, <2>3, <3>1
      <3>3. \A q \in Proc \ {p} : undo[q] # 1
        BY <2>3 DEF LockOk
      <3>4. \A q \in Proc : undo'[q] = 0
        BY <1>3, <1>7, <3>3
      <3> QED
        BY <1>7, <2>1, <2>2, <2>5, <3>2, <3>4 DEF LockOk
    <2>4. CASE undo[p] = 0
      <3>1. sem' = sem
        BY <1>1, <2>4 DEF LockOk
      <3>2. \A q \in Proc : undo'[q] = undo[q]
        BY <1>7, <2>4
      <3> QED
        BY <1>7, <2>1, <2>2, <2>5, <3>1, <3>2 DEF LockOk
    <2> QED
      BY <1>3, <2>3, <2>4
  <1> QED
    BY <1>8, <1>9, <1>10, <1>11, <1>12

LEMMA SendKeeps ==
  ASSUME LogInv, NEW p \in Proc, NEW sg \in Blocked, Send(p, sg)
  PROVE  LogInv'
  <1>1. /\ pending' = [pending EXCEPT ![p] = pending[p] \cup {sg}] /\ sends' = sends + 1
        /\ UNCHANGED <<sem, undo, mask, orig_mask, stack, sig_exiting, alive, size, old>>
    BY DEF Send, lock, files
  <1>2. pending' \in [Proc -> SUBSET Signal]
    BY <1>1 DEF LogInv, Shape, Signal
  <1>3. sends' \in Nat
    BY <1>1 DEF LogInv, Shape
  <1>4. Shape'
    BY <1>1, <1>2, <1>3 DEF LogInv, Shape
  <1>5. StacksOk' /\ MasksOk' /\ FilesOk' /\ LockOk'
    BY <1>1 DEF LogInv, StacksOk, MasksOk, Top, FilesOk, LockOk
  <1> QED
    BY <1>4, <1>5 DEF LogInv

LEMMA InitHolds ==
  Init => LogInv
  <1> SUFFICES ASSUME Init PROVE LogInv
    OBVIOUS
  <1>1. /\ sem = 1 /\ undo = [p \in Proc |-> 0] /\ mask = [p \in Proc |-> {}]
        /\ orig_mask = [p \in Proc |-> {}] /\ pending = [p \in Proc |-> {}] /\ sends = 0
        /\ stack = [p \in Proc |-> <<Program>>] /\ sig_exiting = FALSE /\ alive = Proc
        /\ size = 0 /\ old = NoFile
    BY DEF Init
  <1>2. \A p \in Proc : stack[p] = <<Program>> /\ mask[p] = {} /\ orig_mask[p] = {} /\ undo[p] = 0
    BY <1>1
  <1>3. Shape
    BY <1>1 DEF Shape
  <1>4. StacksOk
    BY <1>2, ProgramIs DEF StacksOk
  <1>5. MasksOk
    <2>1. \A p \in Proc : \A i \in DOMAIN stack[p] : stack[p][i].pc \notin Inside
      BY <1>2, ProgramIs DEF Inside, Critical
    <2> QED
      BY <1>2, <2>1, ProgramIs DEF MasksOk, Top
  <1>6. LockOk
    <2>1. undo \in [Proc -> {0, 1}] /\ \A p \in Proc : Crit(stack[p]) = {}
      BY <1>1, <1>2, ProgramIs
    <2>2. \A p \in Proc : undo[p] # 1
      BY <1>2
    <2> QED
      BY <1>1, <1>2, <2>1, <2>2 DEF LockOk
  <1>7. FilesOk
    <2>1. \A p \in Proc : \A i \in DOMAIN stack[p] : stack[p][i].pc \notin {"remove", "rename", "write"}
      BY <1>2, ProgramIs
    <2>2. size \in 0 .. Limit + 1
      BY <1>1, LogAssumption
    <2> QED
      BY <1>1, <2>1, <2>2 DEF FilesOk
  <1> QED
    BY <1>3, <1>4, <1>5, <1>6, <1>7 DEF LogInv

LEMMA StepKeeps ==
  LogInv /\ [Next]_vars => LogInv'
  <1> SUFFICES ASSUME LogInv, [Next]_vars PROVE LogInv'
    OBVIOUS
  <1>1. ASSUME NEW p \in Proc, NEW writes \in BOOLEAN, Call(p, writes) PROVE LogInv'
    BY <1>1, CallKeeps
  <1>2. ASSUME NEW p \in Proc, Step(p) PROVE LogInv'
    <2>1. CASE Exit(p)
      BY <2>1, EndKeeps DEF Exit
    <2> QED
      BY <1>2, <2>1, SkipKeeps, BlockKeeps, StatKeeps, RemoveOldKeeps, RenameLogKeeps, WriteKeeps,
         UnlockKeeps, RestoreKeeps, ReturnKeeps DEF Step
  <1>3. ASSUME NEW p \in Proc, Lock(p) PROVE LogInv'
    BY <1>3, LockKeeps
  <1>4. ASSUME NEW p \in Proc, NEW s \in Signal, Deliver(p, s) PROVE LogInv'
    BY <1>4, DeliverKeeps
  <1>5. ASSUME NEW p \in Proc, NEW s \in Blocked, Send(p, s) PROVE LogInv'
    BY <1>5, SendKeeps
  <1>6. ASSUME NEW p \in Proc, Kill(p) PROVE LogInv'
    BY <1>6, EndKeeps DEF Kill
  <1>7. CASE UNCHANGED vars
    <2>1. UNCHANGED <<sem, undo, mask, orig_mask, pending, sends, stack, sig_exiting, alive, size, old>>
      BY <1>7 DEF vars, lock, signals, files
    <2> QED
      BY <2>1 DEF LogInv, Shape, StacksOk, MasksOk, Top, LockOk, FilesOk
  <1> QED
    BY <1>1, <1>2, <1>3, <1>4, <1>5, <1>6, <1>7 DEF Next

LEMMA Invariance == Spec => []LogInv
  BY InitHolds, StepKeeps, PTL DEF Spec

-----------------------------------------------------------------------------
(* What follows *)

(* Each frame has a signal that those above it cannot have. *)
LEMMA ShallowStack ==
  ASSUME NEW s, StackOk(s)
  PROVE  Len(s) \in 1 .. 4
  <1>1. PICK n \in Nat :
           /\ n >= 1 /\ n = Len(s)
           /\ \A j \in 2 .. n :
                /\ s[j].sig \in Signal \ s[j].back
                /\ \A i \in 1 .. j - 1 : MaskOf(s[i]) \subseteq s[j].back
    BY StackIs
  <1>2. ASSUME NEW j \in 2 .. n PROVE s[j].sig \in MaskOf(s[j])
    BY <1>1 DEF MaskOf, Base, Signal, Blocked, None
  <1>3. ASSUME NEW j \in 2 .. n, NEW i \in 2 .. n, i < j PROVE s[i].sig # s[j].sig
    <2>1. i \in 1 .. j - 1
      BY <1>3
    <2> QED
      BY <1>1, <1>2, <2>1
  <1>4. ASSUME n >= 5 PROVE FALSE
    <2>1. 2 \in 2 .. n /\ 3 \in 2 .. n /\ 4 \in 2 .. n /\ 5 \in 2 .. n
      BY <1>4
    <2>2. /\ s[2].sig # s[3].sig /\ s[2].sig # s[4].sig /\ s[2].sig # s[5].sig
          /\ s[3].sig # s[4].sig /\ s[3].sig # s[5].sig /\ s[4].sig # s[5].sig
      BY <1>3, <2>1
    <2>3. /\ s[2].sig \in Signal /\ s[3].sig \in Signal /\ s[4].sig \in Signal /\ s[5].sig \in Signal
      BY <1>1, <2>1
    <2> QED
      BY <2>2, <2>3 DEF Signal, Blocked
  <1> QED
    BY <1>1, <1>4

LEMMA SignalCount == Cardinality(Signal) = 3
  <1>1. IsFiniteSet({}) /\ Cardinality({}) = 0
    BY FS_EmptySet
  <1>2. IsFiniteSet({} \cup {"INT"}) /\ Cardinality({} \cup {"INT"}) = 1
    BY <1>1, FS_AddElement
  <1>3. PICK a : a = {} \cup {"INT"}
    OBVIOUS
  <1>4. IsFiniteSet(a \cup {"TERM"}) /\ Cardinality(a \cup {"TERM"}) = 2
    <2>1. "TERM" \notin a
      BY <1>3
    <2> QED
      BY <1>2, <1>3, <2>1, FS_AddElement
  <1>5. PICK b : b = a \cup {"TERM"}
    OBVIOUS
  <1>6. IsFiniteSet(b \cup {"CHLD"}) /\ Cardinality(b \cup {"CHLD"}) = 3
    <2>1. "CHLD" \notin b
      BY <1>3, <1>5
    <2> QED
      BY <1>4, <1>5, <2>1, FS_AddElement
  <1>7. Signal = b \cup {"CHLD"}
    BY <1>3, <1>5 DEF Signal, Blocked
  <1> QED
    BY <1>6, <1>7

LEMMA TypesHold ==
  ASSUME LogInv
  PROVE  TypeOK
  <1>1. sem \in 0 .. 1 /\ undo \in [Proc -> 0 .. 1]
    BY DEF LogInv, LockOk
  <1>2. ASSUME NEW p \in Proc
        PROVE  /\ mask[p] \in SUBSET Signal /\ orig_mask[p] \in SUBSET Signal
               /\ Len(stack[p]) \in 1 .. 4
               /\ \A i \in DOMAIN stack[p] : stack[p][i].pc \in LogPc \cup {"run", "return", "exit"}
    <2>1. StackOk(stack[p])
      BY DEF LogInv, StacksOk
    <2>2. Last(stack[p]) \in Frame /\ stack[p] \in Seq(Frame)
      BY <2>1, StackIs
    <2>3. mask[p] \in SUBSET Signal
      <3>1. PICK f \in Frame : f = Last(stack[p])
        BY <2>2
      <3>2. mask[p] = MaskOf(f)
        BY <3>1 DEF LogInv, MasksOk, Top
      <3>3. f.back \subseteq Signal /\ f.sig \in Signal \cup {None}
        BY DEF Frame
      <3>4. Base(f) \subseteq Signal /\ Blocked \subseteq Signal
        BY <3>3 DEF Base, Signal
      <3> QED
        BY <3>2, <3>4 DEF MaskOf
    <2>4. orig_mask[p] \in SUBSET Signal
      BY DEF LogInv, MasksOk
    <2>5. \A i \in DOMAIN stack[p] : stack[p][i] \in Frame
      BY <2>2
    <2> QED
      BY <2>1, <2>3, <2>4, <2>5, ShallowStack DEF Frame
  <1>3. mask \in [Proc -> SUBSET Signal] /\ orig_mask \in [Proc -> SUBSET Signal]
    <2>1. mask = [p \in Proc |-> mask[p]] /\ orig_mask = [p \in Proc |-> orig_mask[p]]
      BY DEF LogInv, Shape
    <2> QED
      BY <1>2, <2>1
  <1>4. pending \in [Proc -> SUBSET Signal]
    BY DEF LogInv, Shape
  <1>5. Cardinality(Signal) + 1 = 4
    BY SignalCount
  <1>6. size \in 0 .. Limit + 1 /\ old \in {NoFile} \cup 0 .. Limit + 1
    BY LogAssumption DEF LogInv, FilesOk
  <1> QED
    BY <1>1, <1>2, <1>3, <1>4, <1>5, <1>6 DEF TypeOK

LEMMA AccountsHold ==
  ASSUME LogInv
  PROVE  LockAccounting
  <1>1. \A p \in Proc : Holding(p) = Crit(stack[p])
    BY DEF Holding, Crit
  <1>2. \A p \in Proc : undo[p] \in {0, 1} /\ (undo[p] = 1 <=> Holding(p) # {})
    BY <1>1 DEF LogInv, LockOk
  <1>3. alive \subseteq Proc
    BY DEF LogInv, Shape
  <1>4. Cardinality({}) = 0
    BY FS_EmptySet
  <1>5. ASSUME NEW p \in alive PROVE undo[p] = Cardinality(Holding(p))
    <2>1. p \in Proc
      BY <1>3
    <2>2. CASE Holding(p) = {}
      BY <1>2, <1>4, <2>1, <2>2
    <2>3. CASE Holding(p) # {}
      <3>1. PICK i : i \in Holding(p)
        BY <2>3
      <3>2. StackOk(stack[p])
        BY <2>1 DEF LogInv, StacksOk
      <3>3. \A j \in Holding(p) : j = i
        BY <3>1, <3>2, AtMostOneInside DEF Holding, Inside
      <3>4. Holding(p) = {i}
        BY <3>1, <3>3
      <3>5. Cardinality(Holding(p)) = 1
        BY <3>4, FS_Singleton
      <3> QED
        BY <1>2, <2>1, <2>3, <3>5
    <2> QED
      BY <2>2, <2>3
  <1>6. PICK h : h = {p \in alive : Holding(p) # {}}
    OBVIOUS
  <1>7. sem + Cardinality(h) = 1
    <2>1. sem \in {0, 1} /\ (sem = 1 <=> \A p \in Proc : undo[p] = 0)
      BY DEF LogInv, LockOk
    <2>2. CASE sem = 1
      <3>1. \A p \in Proc : undo[p] = 0
        BY <2>1, <2>2
      <3>2. \A p \in Proc : undo[p] # 1
        BY <3>1
      <3>3. h = {}
        BY <1>2, <1>3, <1>6, <3>2
      <3> QED
        BY <1>4, <2>2, <3>3
    <2>3. CASE sem = 0
      <3>1. PICK p \in Proc : undo[p] # 0
        BY <2>1, <2>3
      <3>2. undo[p] = 1
        BY <1>2, <3>1
      <3>3. p \in alive
        BY <1>2, <3>2 DEF LogInv, LockOk
      <3>4. \A q \in Proc : undo[q] = 1 => q = p
        BY <3>2 DEF LogInv, LockOk
      <3>5. h = {p}
        BY <1>2, <1>3, <1>6, <3>2, <3>3, <3>4
      <3>6. Cardinality(h) = 1
        BY <3>5, FS_Singleton
      <3> QED
        BY <2>3, <3>6
    <2> QED
      BY <2>1, <2>2, <2>3
  <1> QED
    BY <1>5, <1>6, <1>7, TypesHold DEF LockAccounting

(* At most one frame of all living processes is in the critical section,   *)
(* and the semaphore and what the kernel owes say so, whoever is killed or *)
(* interrupted wherever.                                                   *)
THEOREM LockIsAccounted == Spec => []LockAccounting
  BY Invariance, AccountsHold, PTL

(* No process waits for the lock that it holds further down its stack:     *)
(* lock_log has blocked the signals whose handlers log.                    *)
THEOREM NoDeadlockWithItself == Spec => []NoSelfDeadlock
  <1>1. LogInv => NoSelfDeadlock
    <2> SUFFICES ASSUME LogInv, NEW p \in alive, Top(p).pc = "lock",
                        NEW i \in Holding(p)
                 PROVE  FALSE
      BY DEF NoSelfDeadlock
    <2>1. StackOk(stack[p])
      BY DEF LogInv, Shape, StacksOk
    <2>2. i = Len(stack[p])
      BY <2>1, InsideIsTop DEF Top, Holding, LogPc, Inside
    <2> QED
      BY <2>1, <2>2, StackIs DEF Top, Holding, Critical
  <1> QED
    BY <1>1, Invariance, PTL

(* A process that is not logging has blocked what its top frame blocks,    *)
(* although all its frames share the one orig_mask of lock_log.            *)
THEOREM MaskIsRestored == Spec => []MaskRestored
  <1>1. LogInv => MaskRestored
    <2> SUFFICES ASSUME LogInv, NEW p \in alive, Top(p).pc \in {"run", "return", "exit"}
                 PROVE  mask[p] = Top(p).back \cup ({Top(p).sig} \ {None})
      BY DEF MaskRestored
    <2>1. mask[p] = MaskOf(Top(p))
      BY DEF LogInv, Shape, MasksOk
    <2>2. Top(p).pc \notin Inside
      BY DEF Inside, Critical
    <2> QED
      BY <2>1, <2>2 DEF MaskOf, Base
  <1> QED
    BY <1>1, Invariance, PTL

(* rotate_log renames a log file only when it is full, however many        *)
(* processes have found it full.                                           *)
THEOREM OldFileIsFull == Spec => []OldFileWasFull
  <1>1. LogInv => OldFileWasFull
    BY LogAssumption DEF LogInv, FilesOk, OldFileWasFull
  <1> QED
    BY <1>1, Invariance, PTL

-----------------------------------------------------------------------------
(* PidFile.  Nothing in the three properties says what keeps a second      *)
(* daemon out.  The invariant does: who holds a lock has that file open    *)
(* and is between taking the lock and giving it up; who starts has looked  *)
(* at the very file that path names; and past the test of the lock nobody  *)
(* runs.                                                                   *)

Busy == P!Starting \cup P!Stopping

PidTypes ==
    /\ pid_files \in 0 .. MaxFile
    /\ path \in 0 .. pid_files
    /\ content \in [P!File -> Daemon \cup {NoDaemon}]
    /\ pid_lock \in [P!File -> Daemon \cup {NoDaemon}]
    /\ pid_pc \in [Daemon -> Busy \cup {"idle", "runs", "ended"}]
    /\ fpid \in [Daemon -> 0 .. pid_files]
    /\ child \subseteq Daemon

(* One daemon at a time starts or stops. *)
OneBusy == \A d, e \in Daemon : pid_pc[d] \in Busy /\ pid_pc[e] \in Busy => d = e

(* A lock is held by a daemon that has taken it and not yet given it up,   *)
(* on the file it has open.                                                *)
LockedByHolder ==
    \A f \in P!File, d \in Daemon :
        pid_lock[f] = d => fpid[d] = f /\ pid_pc[d] \in {"close", "write", "runs"}

(* A start that has opened the file has opened the one that path names. *)
StarterOpen ==
    \A d \in Daemon :
        pid_pc[d] \in {"lock", "close", "lock2", "write"} => path # 0 /\ fpid[d] = path

WriterHolds == \A d \in Daemon : pid_pc[d] = "write" => pid_lock[path] = d

(* Past the test of the lock, or on the way out, nobody runs. *)
NobodyRuns ==
    \A d \in Daemon :
        pid_pc[d] \in {"close", "fopen", "lock2", "write", "fclose", "unlink"} =>
            \A e \in Daemon : pid_pc[e] # "runs"

RunnerNamed ==
    \A d \in Daemon : pid_pc[d] = "runs" =>
        path # 0 /\ fpid[d] = path /\ pid_lock[path] = d /\ content[path] = d

PidInv ==
    /\ PidTypes
    /\ OneBusy
    /\ LockedByHolder
    /\ StarterOpen
    /\ WriterHolds
    /\ NobodyRuns
    /\ RunnerNamed

LEMMA PidCards == \A S : P!Cardinality(S) = Cardinality(S)
BY DEF P!Cardinality, Cardinality

LEMMA PidInit == P!Init => PidInv
BY DaemonAssumption
   DEF P!PidAssumption, P!Init, PidInv, PidTypes, OneBusy, LockedByHolder, StarterOpen,
       WriterHolds, NobodyRuns, RunnerNamed, Busy, P!Starting, P!Stopping, P!File

(* With no overlap, a step of a daemon that starts or stops keeps the      *)
(* invariant: it knows that nobody else is at it.                          *)
LEMMA PidStep ==
    ASSUME Overlap = FALSE, PidInv, [P!Next]_(P!vars)
    PROVE  PidInv'
<1> USE DaemonAssumption DEF P!PidAssumption, PidInv, PidTypes, P!File
<1>1. CASE UNCHANGED P!vars
  BY <1>1 DEF P!vars, OneBusy, LockedByHolder, StarterOpen, WriterHolds, NobodyRuns, RunnerNamed
<1>2. ASSUME NEW d \in Daemon, P!Stat(d)
      PROVE  PidInv'
  BY <1>2
     DEF P!Stat, P!Alone, P!Goto, OneBusy, LockedByHolder, StarterOpen, WriterHolds,
         NobodyRuns, RunnerNamed, Busy, P!Starting, P!Stopping
<1>3. ASSUME NEW d \in Daemon, P!Open(d)
      PROVE  PidInv'
  BY <1>3
     DEF P!Open, P!Goto, OneBusy, LockedByHolder, StarterOpen, WriterHolds, NobodyRuns,
         RunnerNamed, Busy, P!Starting, P!Stopping
<1>4. ASSUME NEW d \in Daemon, P!Lock(d)
      PROVE  PidInv'
  <2>1. /\ pid_pc[d] = "lock" /\ path # 0 /\ fpid[d] = path /\ path \in P!File
        /\ \A e \in Daemon \ {d} : pid_pc[e] \notin Busy
    BY <1>4 DEF P!Lock, P!Goto, StarterOpen, OneBusy, Busy, P!Starting
  <2>2. CASE P!Lockable(path, d)
    <3>1. /\ pid_pc' = [pid_pc EXCEPT ![d] = "close"] /\ pid_lock' = [pid_lock EXCEPT ![path] = d]
          /\ UNCHANGED <<path, pid_files, content, fpid, child>>
      BY <1>4, <2>1, <2>2 DEF P!Lock, P!Goto
    <3>2. \A e \in Daemon : pid_pc[e] # "runs"
      BY <2>1, <2>2 DEF P!Lockable, RunnerNamed
    <3> QED
      BY <2>1, <2>2, <3>1, <3>2
         DEF P!Lockable, OneBusy, LockedByHolder, StarterOpen, WriterHolds, NobodyRuns, RunnerNamed,
             Busy, P!Starting, P!Stopping
  <2>3. CASE ~P!Lockable(path, d)
    <3>1. /\ pid_pc' = [pid_pc EXCEPT ![d] = "ended"]
          /\ UNCHANGED <<path, pid_files, content, pid_lock, fpid, child>>
      BY <1>4, <2>1, <2>3 DEF P!Lock, P!Goto
    <3> QED
      BY <2>1, <3>1
         DEF OneBusy, LockedByHolder, StarterOpen, WriterHolds, NobodyRuns, RunnerNamed, Busy,
             P!Starting, P!Stopping
  <2> QED
    BY <2>2, <2>3
<1>5. ASSUME NEW d \in Daemon, P!Close(d)
      PROVE  PidInv'
  BY <1>5
     DEF P!Close, P!Unlocked, P!Goto, OneBusy, LockedByHolder, StarterOpen, WriterHolds,
         NobodyRuns, RunnerNamed, Busy, P!Starting, P!Stopping
<1>6. ASSUME NEW d \in Daemon, P!Fopen(d)
      PROVE  PidInv'
  BY <1>6
     DEF P!Fopen, P!Goto, OneBusy, LockedByHolder, StarterOpen, WriterHolds, NobodyRuns,
         RunnerNamed, Busy, P!Starting, P!Stopping
<1>7. ASSUME NEW d \in Daemon, P!LockAgain(d)
      PROVE  PidInv'
  <2>1. P!Lockable(path, d)
    BY <1>7
       DEF P!LockAgain, P!Lockable, P!Goto, OneBusy, LockedByHolder, StarterOpen, NobodyRuns,
           Busy, P!Starting, P!Stopping
  <2> QED
    BY <1>7, <2>1
       DEF P!LockAgain, P!Goto, OneBusy, LockedByHolder, StarterOpen, WriterHolds, NobodyRuns,
           RunnerNamed, Busy, P!Starting, P!Stopping
<1>8. ASSUME NEW d \in Daemon, P!Write(d)
      PROVE  PidInv'
  BY <1>8
     DEF P!Write, P!Goto, OneBusy, LockedByHolder, StarterOpen, WriterHolds, NobodyRuns,
         RunnerNamed, Busy, P!Starting, P!Stopping
<1>9. ASSUME NEW d \in Daemon, P!Stop(d)
      PROVE  PidInv'
  BY <1>9
     DEF P!Stop, P!Alone, P!Unlocked, P!Goto, OneBusy, LockedByHolder, StarterOpen,
         WriterHolds, NobodyRuns, RunnerNamed, Busy, P!Starting, P!Stopping
<1>10. ASSUME NEW d \in Daemon, P!Fclose(d)
       PROVE  PidInv'
  <2>1. /\ pid_pc[d] = "fclose" /\ pid_pc' = [pid_pc EXCEPT ![d] = "unlink"]
        /\ fpid' = [fpid EXCEPT ![d] = 0] /\ pid_lock' = P!Unlocked(fpid[d], d)
        /\ UNCHANGED <<path, pid_files, content, child>>
    BY <1>10 DEF P!Fclose, P!Goto
  <2>2. pid_lock' = pid_lock
    <3>1. \A f \in P!File : pid_lock[f] # d
      BY <2>1 DEF LockedByHolder
    <3>2. pid_lock' \in [P!File -> Daemon \cup {NoDaemon}] /\ \A f \in P!File : pid_lock'[f] = pid_lock[f]
      BY <2>1, <3>1 DEF P!Unlocked
    <3> QED
      BY <3>2
  <2>3. /\ \A e \in Daemon \ {d} : pid_pc[e] \notin Busy
        /\ \A e \in Daemon : pid_pc[e] # "runs"
    BY <2>1 DEF OneBusy, NobodyRuns, Busy, P!Stopping
  <2>4. PidTypes'
    BY <2>1, <2>2 DEF Busy, P!Stopping
  <2>5. LockedByHolder'
    BY <2>1, <2>2 DEF LockedByHolder
  <2> QED
    BY <2>1, <2>2, <2>3, <2>4, <2>5
       DEF OneBusy, StarterOpen, WriterHolds, NobodyRuns, RunnerNamed, Busy, P!Starting, P!Stopping
<1>11. ASSUME NEW d \in Daemon, P!Unlink(d)
       PROVE  PidInv'
  <2>1. /\ pid_pc[d] = "unlink" /\ pid_pc' = [pid_pc EXCEPT ![d] = "ended"] /\ path' = 0
        /\ UNCHANGED <<pid_files, content, pid_lock, fpid, child>>
    BY <1>11 DEF P!Unlink, P!Goto
  <2>2. /\ \A e \in Daemon \ {d} : pid_pc[e] \notin Busy
        /\ \A e \in Daemon : pid_pc[e] # "runs"
    BY <2>1 DEF OneBusy, NobodyRuns, Busy, P!Stopping
  <2>3. PidTypes'
    BY <2>1
  <2>4. \A e \in Daemon : pid_pc'[e] \in {"idle", "ended"}
    BY <2>1, <2>2
  <2>5. LockedByHolder'
    BY <2>1 DEF LockedByHolder
  <2> QED
    BY <2>3, <2>4, <2>5
       DEF OneBusy, StarterOpen, WriterHolds, NobodyRuns, RunnerNamed, Busy, P!Starting, P!Stopping
<1>12. ASSUME NEW d \in Daemon, P!Kill(d)
       PROVE  PidInv'
  BY <1>12
     DEF P!Kill, OneBusy, LockedByHolder, StarterOpen, WriterHolds, NobodyRuns, RunnerNamed,
         Busy, P!Starting, P!Stopping
<1>13. ASSUME NEW d \in Daemon, P!Fork(d) \/ P!ChildExit(d)
       PROVE  PidInv'
  BY <1>13
     DEF P!Fork, P!ChildExit, OneBusy, LockedByHolder, StarterOpen, WriterHolds, NobodyRuns,
         RunnerNamed
<1>14. ASSUME NEW d \in Daemon, P!OpenFails(d)
       PROVE  PidInv'
  BY <1>14
     DEF P!OpenFails, OneBusy, LockedByHolder, StarterOpen, WriterHolds, NobodyRuns, RunnerNamed,
         Busy, P!Starting, P!Stopping
<1> QED
  BY <1>14, <1>1, <1>2, <1>3, <1>4, <1>5, <1>6, <1>7, <1>8, <1>9, <1>10, <1>11, <1>12, <1>13 DEF P!Next

LEMMA PidInvariant == Overlap = FALSE /\ PidSpec => []PidInv
<1> SUFFICES ASSUME Overlap = FALSE
             PROVE  PidSpec => []PidInv
  OBVIOUS
<1>1. PidInv /\ [P!Next]_(P!vars) => PidInv'
  BY PidStep
<1> QED
  BY <1>1, PidInit, PTL DEF PidSpec, P!Spec

(* nt_phreads.c:116: as long as starts and stops do not overlap, two       *)
(* daemons never run at the same time.                                     *)
THEOREM OneRunsAlone == Overlap = FALSE /\ PidSpec => []OneRuns
<1> SUFFICES ASSUME Overlap = FALSE
             PROVE  PidSpec => []OneRuns
  OBVIOUS
<1>1. PidInv => OneRuns
  <2> SUFFICES ASSUME PidInv PROVE Cardinality(P!Running) <= 1
    BY PidCards DEF OneRuns, P!OneRuns
  <2>1. \A d, e \in P!Running : d = e
    BY DEF P!Running, PidInv, RunnerNamed
  <2>2. CASE P!Running = {}
    BY <2>2, FS_EmptySet
  <2>3. ASSUME NEW d \in P!Running
        PROVE  Cardinality(P!Running) <= 1
    <3>1. P!Running = {d}
      BY <2>1, <2>3
    <3> QED
      BY <3>1, FS_Singleton
  <2> QED
    BY <2>2, <2>3
<1> QED
  BY <1>1, PidInvariant, PTL

(* The file is there, locked, and has the process id of the daemon that    *)
(* runs, whatever other starts, stops, children and kills there are.       *)
THEOREM FileNamesDaemonAlone == Overlap = FALSE /\ PidSpec => []FileNamesDaemon
<1> SUFFICES ASSUME Overlap = FALSE
             PROVE  PidSpec => []FileNamesDaemon
  OBVIOUS
<1>1. PidInv => FileNamesDaemon
  BY DaemonAssumption
     DEF P!PidAssumption, PidInv, PidTypes, StarterOpen, LockedByHolder, RunnerNamed,
         FileNamesDaemon, P!FileNamesDaemon, P!TypeOK, P!Running, Busy, P!Starting, P!Stopping,
         P!File
<1> QED
  BY <1>1, PidInvariant, PTL

(* A start is refused only because another daemon runs; what a killed one  *)
(* has left, or a failed start, refuses nobody.                            *)
THEOREM FailsOnlyIfRunningAlone == Overlap = FALSE /\ PidSpec => FailsOnlyIfRunning
<1> SUFFICES ASSUME Overlap = FALSE
             PROVE  PidSpec => FailsOnlyIfRunning
  OBVIOUS
<1>1. ASSUME PidInv, NEW d \in Daemon, P!Lock(d), pid_pc'[d] = "ended"
      PROVE  \E e \in P!Running : e # d
  BY <1>1, DaemonAssumption
     DEF P!PidAssumption, PidInv, PidTypes, OneBusy, LockedByHolder, StarterOpen, P!Lock,
         P!Lockable, P!Goto, P!Running, Busy, P!Starting, P!Stopping, P!File
<1>2. PidInv /\ [P!Next]_(P!vars) =>
        [\A d \in Daemon : P!Lock(d) /\ pid_pc'[d] = "ended" => \E e \in P!Running : e # d]_(P!vars)
  BY <1>1
<1> QED
  BY <1>2, PidInvariant, PTL DEF PidSpec, P!Spec, FailsOnlyIfRunning, P!FailsOnlyIfRunning

=============================================================================
