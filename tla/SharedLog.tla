------------------------------- MODULE SharedLog -------------------------------
(***************************************************************************)
(* The log file of nt_log.c, written by a parent process and the children  *)
(* it has forked, under the System V lock `log_access' of nt_mutexs.c, and *)
(* the signal handlers of nt_phreads.c, which write to the log as well.    *)
(*                                                                         *)
(* A process is a stack of frames: the program, and the handlers that have *)
(* interrupted it or one another.  Only the top frame runs.  A handler     *)
(* blocks its own signal while it runs (sa_mask is empty); lock_log blocks *)
(* the signals of Blocked around the critical section.  The lock is taken  *)
(* with SEM_UNDO: when a process ends, the kernel takes back what it has   *)
(* not given back itself.                                                  *)
(***************************************************************************)
EXTENDS Integers, Sequences, FiniteSets, SequencesExt

CONSTANTS
    Parent, Child,  \* the process sig_parent_pid stands for; its children
    Mortal,         \* the processes that may get SIGKILL or fault
    Limit,          \* CONFIG_LOG_FILE_SIZE, in messages
    MaxSend         \* bound on the signals sent from outside

Proc == {Parent} \cup Child

ASSUME LogAssumption ==
    /\ Parent \notin Child
    /\ Mortal \subseteq Proc
    /\ Limit \in Nat \ {0}
    /\ MaxSend \in Nat

(* INT, TERM and QUIT have the same handler; TERM stands for the last two. *)
Blocked == {"INT", "TERM"}
Signal == Blocked \cup {"CHLD"}
None == "none"   \* no signal
NoFile == -1     \* size of a file that is not there

VARIABLES
    sem,        \* value of the semaphore log_access
    undo,       \* undo[p]: what the kernel adds to sem when p ends
    mask,       \* mask[p]: signals p has blocked
    orig_mask,  \* orig_mask[p]: the static variable of nt_log.c
    pending,    \* pending[p]: signals sent to p
    stack,      \* stack[p]: frames [sig, pc, writes, back]
    sends,      \* signals sent from outside so far
    sig_exiting,\* of the parent
    alive,
    size, old   \* messages in the log file and in its .old file, or NoFile

lock == <<sem, undo>>
signals == <<mask, orig_mask, pending, sends>>
files == <<size, old>>
vars == <<lock, signals, stack, sig_exiting, alive, files>>

LogPc == {"block", "lock", "stat", "remove", "rename", "write", "unlock", "restore"}
Critical == {"stat", "remove", "rename", "write", "unlock"}

Program == [sig |-> None, pc |-> "run", writes |-> TRUE, back |-> {}]

Init ==
    /\ sem = 1
    /\ undo = [p \in Proc |-> 0]
    /\ mask = [p \in Proc |-> {}]
    /\ orig_mask = [p \in Proc |-> {}]
    /\ pending = [p \in Proc |-> {}]
    /\ sends = 0
    /\ stack = [p \in Proc |-> <<Program>>]
    /\ sig_exiting = FALSE
    /\ alive = Proc
    /\ size = 0
    /\ old = NoFile

Top(p) == Last(stack[p])
At(p, here) == p \in alive /\ Top(p).pc = here
Frames(p, top) == [stack EXCEPT ![p] = Append(Front(@), top)]
Goto(p, from, to) == At(p, from) /\ stack' = Frames(p, [Top(p) EXCEPT !.pc = to])

-----------------------------------------------------------------------------
(* __nt_nt_log and nt_handle_log *)

(* The program logs a message, or only has the log file rotated. *)
Call(p, writes) ==
    /\ At(p, "run")
    /\ stack' = Frames(p, [Top(p) EXCEPT !.pc = "block", !.writes = writes])
    /\ UNCHANGED <<lock, signals, sig_exiting, alive, files>>

(* What follows a message: a handler that logs ends the process, except    *)
(* for SIGINT in a child.                                                  *)
AfterLog(p) ==
    IF Top(p).sig = None THEN "run"
    ELSE IF p = Parent \/ Top(p).sig # "INT" THEN "exit"
    ELSE "return"

(* The level is not one that is logged: there is nothing to lock. *)
Skip(p) ==
    /\ Goto(p, "block", AfterLog(p))
    /\ Top(p).writes
    /\ UNCHANGED <<lock, signals, sig_exiting, alive, files>>

(* Mutant: SIGINT is forgotten. *)
BlockSome(p) ==
    /\ Goto(p, "block", "lock")
    /\ orig_mask' = [orig_mask EXCEPT ![p] = mask[p]]
    /\ mask' = [mask EXCEPT ![p] = @ \cup {"TERM"}]
    /\ UNCHANGED <<lock, pending, sends, sig_exiting, alive, files>>

(* lock_log *)
Block(p) ==
    /\ Goto(p, "block", "lock")
    /\ orig_mask' = [orig_mask EXCEPT ![p] = mask[p]]
    /\ mask' = [mask EXCEPT ![p] = @ \cup Blocked]
    /\ UNCHANGED <<lock, pending, sends, sig_exiting, alive, files>>

(* Mutants: no SEM_UNDO; a wait that a signal interrupts counts as a lock.  *)
LockNoUndo(p) ==
    /\ Goto(p, "lock", "stat")
    /\ sem > 0
    /\ sem' = sem - 1
    /\ UNCHANGED <<undo, signals, sig_exiting, alive, files>>

LockInterrupted(p) ==
    /\ Goto(p, "lock", "stat")
    /\ sem' = IF sem > 0 THEN sem - 1 ELSE sem
    /\ undo' = [undo EXCEPT ![p] = 1]
    /\ UNCHANGED <<signals, sig_exiting, alive, files>>

(* __nt_mutex_lock *)
Lock(p) ==
    /\ Goto(p, "lock", "stat")
    /\ sem > 0
    /\ sem' = sem - 1
    /\ undo' = [undo EXCEPT ![p] = @ + 1]
    /\ UNCHANGED <<signals, sig_exiting, alive, files>>

(* rotate_log *)
AfterRotation(p) == IF Top(p).writes THEN "write" ELSE "unlock"

Stat(p) ==
    /\ Goto(p, "stat", IF size > Limit THEN "remove" ELSE AfterRotation(p))
    /\ UNCHANGED <<lock, signals, sig_exiting, alive, files>>

RemoveOld(p) ==
    /\ Goto(p, "remove", "rename")
    /\ old' = NoFile
    /\ UNCHANGED <<lock, signals, sig_exiting, alive, size>>

(* If rename fails, the log file is truncated.  That it can neither be      *)
(* renamed nor opened, or that somebody else removes it, is left out.      *)
RenameLog(p) ==
    /\ Goto(p, "rename", AfterRotation(p))
    /\ old' \in {size, NoFile}
    /\ size' = 0
    /\ UNCHANGED <<lock, signals, sig_exiting, alive>>

(* fopen of the log file may fail, and the message goes elsewhere. *)
Write(p) ==
    /\ Goto(p, "write", "unlock")
    /\ size' \in {size, size + 1}
    /\ UNCHANGED <<lock, signals, sig_exiting, alive, old>>

(* unlock_log: __nt_mutex_unlock, ... *)
Unlock(p) ==
    /\ Goto(p, "unlock", "restore")
    /\ sem' = sem + 1
    /\ undo' = [undo EXCEPT ![p] = @ - 1]
    /\ UNCHANGED <<signals, sig_exiting, alive, files>>

(* Mutant: the mask is emptied. *)
RestoreNothing(p) ==
    /\ Goto(p, "restore", AfterLog(p))
    /\ mask' = [mask EXCEPT ![p] = {}]
    /\ UNCHANGED <<lock, orig_mask, pending, sends, sig_exiting, alive, files>>

RestoreForgotten(p) ==
    /\ Goto(p, "restore", AfterLog(p))
    /\ UNCHANGED <<lock, signals, sig_exiting, alive, files>>

(* ... and the mask is what it was before lock_log. *)
Restore(p) ==
    /\ Goto(p, "restore", AfterLog(p))
    /\ mask' = [mask EXCEPT ![p] = orig_mask[p]]
    /\ UNCHANGED <<lock, orig_mask, pending, sends, sig_exiting, alive, files>>

-----------------------------------------------------------------------------
(* Signals *)

(* SIGINT comes from the terminal or from kill, SIGTERM from kill. *)
Send(p, s) ==
    /\ p \in alive
    /\ sends < MaxSend
    /\ s \notin pending[p]
    /\ pending' = [pending EXCEPT ![p] = @ \cup {s}]
    /\ sends' = sends + 1
    /\ UNCHANGED <<lock, mask, orig_mask, stack, sig_exiting, alive, files>>

(* Mutant: nothing in the handler of SIGCHLD ends the process. *)
EntryFlagOnly(p, s) ==
    IF s = "CHLD" \/ (p = Parent /\ sig_exiting) THEN "return" ELSE "block"

(* The first thing a handler does: the parent's, terminate_signal_handler  *)
(* and child_signal_handler, return when it is exiting already.            *)
Entry(p, s) ==
    IF p = Parent /\ sig_exiting THEN "return"
    ELSE IF s = "CHLD" THEN "exit"
    ELSE "block"

Deliver(p, s) ==
    /\ p \in alive
    /\ s \in pending[p] \ mask[p]
    /\ pending' = [pending EXCEPT ![p] = @ \ {s}]
    /\ mask' = [mask EXCEPT ![p] = @ \cup {s}]
    /\ stack' = [stack EXCEPT ![p] =
         Append(@, [sig |-> s, pc |-> Entry(p, s), writes |-> TRUE, back |-> mask[p]])]
    /\ sig_exiting' = (sig_exiting \/ p = Parent)
    /\ UNCHANGED <<lock, orig_mask, sends, alive, files>>

Return(p) ==
    /\ At(p, "return")
    /\ stack' = [stack EXCEPT ![p] = Front(@)]
    /\ mask' = [mask EXCEPT ![p] = Top(p).back]
    /\ UNCHANGED <<lock, orig_mask, pending, sends, sig_exiting, alive, files>>

(* The end of a process: the kernel undoes what it did to the semaphore    *)
(* and tells the parent.                                                   *)
End(p) ==
    /\ alive' = alive \ {p}
    /\ sem' = sem + undo[p]
    /\ undo' = [undo EXCEPT ![p] = 0]
    /\ pending' = [q \in Proc |->
         IF q = p THEN {}
         ELSE IF q = Parent /\ Parent \in alive THEN pending[q] \cup {"CHLD"}
         ELSE pending[q]]
    /\ stack' = [stack EXCEPT ![p] = <<Program>>]
    /\ mask' = [mask EXCEPT ![p] = {}]
    /\ orig_mask' = [orig_mask EXCEPT ![p] = {}]
    /\ UNCHANGED <<sends, sig_exiting, files>>

(* exit_with_failure, nt_on_exit *)
Exit(p) == At(p, "exit") /\ End(p)

(* SIGKILL, and the signals whose handler is fatal_signal_handler. *)
Kill(p) == p \in alive \cap Mortal /\ End(p)

Step(p) ==
    \/ Skip(p) \/ Block(p) \/ Stat(p) \/ RemoveOld(p) \/ RenameLog(p) \/ Write(p)
    \/ Unlock(p) \/ Restore(p) \/ Return(p) \/ Exit(p)

Next ==
    \/ \E p \in Proc, writes \in BOOLEAN : Call(p, writes)
    \/ \E p \in Proc : Step(p)
    \/ \E p \in Proc : Lock(p)
    \/ \E p \in Proc, s \in Signal : Deliver(p, s)
    \/ \E p \in Proc, s \in Blocked : Send(p, s)
    \/ \E p \in Proc : Kill(p)

Spec == Init /\ [][Next]_vars

(* Processes run; semop wakes those that wait for a semaphore in turn; a   *)
(* signal that is pending when sigprocmask unblocks it is delivered before *)
(* sigprocmask returns, so a SIGTERM that is unblocked again and again is  *)
(* delivered.  SIGCHLD is not blocked, and nothing rests on SIGINT.        *)
FairSpec ==
    /\ Spec
    /\ \A p \in Proc : WF_vars(Step(p)) /\ SF_vars(Lock(p)) /\ SF_vars(Deliver(p, "TERM"))
    /\ WF_vars(Deliver(Parent, "CHLD"))

-----------------------------------------------------------------------------
(* Properties *)

(* The frames of p that are in the critical section. *)
Holding(p) == {i \in DOMAIN stack[p] : stack[p][i].pc \in Critical}

(* Every variable has its type; handlers nest at most as deep as there are *)
(* signals.                                                                *)
TypeOK ==
    /\ sem \in 0 .. 1
    /\ undo \in [Proc -> 0 .. 1]
    /\ mask \in [Proc -> SUBSET Signal]
    /\ orig_mask \in [Proc -> SUBSET Signal]
    /\ pending \in [Proc -> SUBSET Signal]
    /\ \A p \in Proc :
         /\ Len(stack[p]) \in 1 .. Cardinality(Signal) + 1
         /\ \A i \in DOMAIN stack[p] :
              stack[p][i].pc \in LogPc \cup {"run", "return", "exit"}
    /\ size \in 0 .. Limit + 1
    /\ old \in {NoFile} \cup 0 .. Limit + 1

(* At most one frame of all the living processes is in the critical        *)
(* section, the semaphore says whether there is one, and the kernel owes   *)
(* exactly what those who are in it took.  (And the variables have their   *)
(* types: handlers nest no deeper than there are signals.)                 *)
LockAccounting ==
    /\ TypeOK
    /\ \A p \in alive : undo[p] = Cardinality(Holding(p))
    /\ sem + Cardinality({p \in alive : Holding(p) # {}}) = 1

(* No process waits for the lock that it holds itself further down its     *)
(* stack: this is what lock_log blocks signals for.                        *)
NoSelfDeadlock ==
    \A p \in alive : Top(p).pc = "lock" => Holding(p) = {}

(* Whatever has interrupted it, the mask of a process that is not logging  *)
(* is that of its top frame: nothing for the program, and for a handler    *)
(* what was blocked when it was entered, and its own signal - although all *)
(* frames share the one static orig_mask.                                  *)
MaskRestored ==
    \A p \in alive : Top(p).pc \in {"run", "return", "exit"} =>
        mask[p] = Top(p).back \cup ({Top(p).sig} \ {None})

(* The log is only ever rotated when it is full, however many processes    *)
(* find it full at once: no full .old file gives way to an almost empty    *)
(* one, and the log file never grows past the limit by more than a message. *)
OldFileWasFull == (old # NoFile => old > Limit) /\ size <= Limit + 1

(* A process that was sent SIGTERM ends, also when others are killed with  *)
(* the lock in their hands.                                                *)
TermEnds == \A p \in Proc : "TERM" \in pending[p] ~> p \notin alive

(* When a child ends, so does the parent. *)
ChildEndsParent == (Child \ alive # {}) ~> Parent \notin alive

(* nt_phreads.c:271 says of SIGINT that children may ignore it, as the     *)
(* parent will send them SIGTERM: after a parent has been interrupted the  *)
(* children end.                                                           *)
InterruptEndsChildren ==
    (sig_exiting /\ Parent \notin alive) ~> (alive = {})

=============================================================================
