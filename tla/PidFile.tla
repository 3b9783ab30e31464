-------------------------------- MODULE PidFile --------------------------------
(***************************************************************************)
(* create_pid_file and drop_pid_file of nt_phreads.c: daemons that start,  *)
(* stop and are killed, and the children they fork.                        *)
(*                                                                         *)
(* The path names a file or nothing.  A record lock belongs to a file and  *)
(* a process: it is gone when the process closes any descriptor of the     *)
(* file, or ends, and a child does not inherit it.                         *)
(***************************************************************************)
EXTENDS Naturals, FiniteSets

CONSTANTS
    Daemon,    \* process ids: each is a daemon that starts once
    MaxFile,   \* bound on the files created
    Overlap,   \* daemons may start or stop at the same time
    Leftover,  \* a daemon that was killed before, and has left its file
    NoDaemon

PidAssumption ==
    /\ NoDaemon \notin Daemon
    /\ MaxFile \in Nat \ {0}
    /\ Overlap \in BOOLEAN
    /\ Leftover \in Daemon \cup {NoDaemon}

VARIABLES
    path,      \* the file CONFIG_PID_FILE names, 0 if none
    files,     \* files created so far
    content,   \* content[f]: the process id in the file
    lock,      \* lock[f]: the daemon that has it locked
    pc,        \* of each daemon
    fpid,      \* the file a daemon has open, 0 if none
    child      \* daemons that have a child

vars == <<path, files, content, lock, pc, fpid, child>>

File == 1 .. MaxFile
Starting == {"open", "lock", "close", "fopen", "lock2", "write"}
Stopping == {"fclose", "unlink"}

Init ==
    /\ path = IF Leftover = NoDaemon THEN 0 ELSE 1
    /\ files = path
    /\ content = [f \in File |-> IF f = 1 THEN Leftover ELSE NoDaemon]
    /\ lock = [f \in File |-> NoDaemon]
    /\ pc = [d \in Daemon |-> IF d = Leftover THEN "ended" ELSE "idle"]
    /\ fpid = [d \in Daemon |-> 0]
    /\ child = {}

Alone(d) == \A e \in Daemon \ {d} : pc[e] \notin Starting \cup Stopping
Goto(d, from, to) == pc[d] = from /\ pc' = [pc EXCEPT ![d] = to]
Lockable(f, d) == lock[f] \in {d, NoDaemon}

-----------------------------------------------------------------------------
(* create_pid_file *)

(* nt_stat, and open if there is a file *)
Stat(d) ==
    /\ Overlap \/ Alone(d)
    /\ Goto(d, "idle", IF path = 0 THEN "fopen" ELSE "open")
    /\ UNCHANGED <<path, files, content, lock, fpid, child>>

Open(d) ==
    /\ Goto(d, "open", IF path = 0 THEN "ended" ELSE "lock")
    /\ fpid' = [fpid EXCEPT ![d] = path]
    /\ UNCHANGED <<path, files, content, lock, child>>

(* open or fopen fails, for its own reasons, and with it the start. *)
OpenFails(d) ==
    /\ pc[d] \in {"open", "fopen"}
    /\ pc' = [pc EXCEPT ![d] = "ended"]
    /\ UNCHANGED <<path, files, content, lock, fpid, child>>

(* Mutants: a file with a process id in it is a daemon that runs; nobody   *)
(* looks at the result.                                                    *)
LockByContent(d) ==
    /\ pc[d] = "lock"
    /\ IF content[fpid[d]] = NoDaemon
       THEN Goto(d, "lock", "close") /\ lock' = [lock EXCEPT ![fpid[d]] = d]
       ELSE Goto(d, "lock", "ended") /\ UNCHANGED lock
    /\ UNCHANGED <<path, files, content, fpid, child>>

LockIgnored(d) ==
    /\ Goto(d, "lock", "close")
    /\ lock' = IF Lockable(fpid[d], d) THEN [lock EXCEPT ![fpid[d]] = d] ELSE lock
    /\ UNCHANGED <<path, files, content, fpid, child>>

(* fcntl(F_SETLK): somebody else has it locked, or it is taken. *)
Lock(d) ==
    /\ pc[d] = "lock"
    /\ IF Lockable(fpid[d], d)
       THEN Goto(d, "lock", "close") /\ lock' = [lock EXCEPT ![fpid[d]] = d]
       ELSE Goto(d, "lock", "ended") /\ UNCHANGED lock
    /\ UNCHANGED <<path, files, content, fpid, child>>

Unlocked(f, d) ==
    [lock EXCEPT ![f] = IF @ = d THEN NoDaemon ELSE @]

Close(d) ==
    /\ Goto(d, "close", "fopen")
    /\ lock' = Unlocked(fpid[d], d)
    /\ UNCHANGED <<path, files, content, fpid, child>>

(* fopen(pidfile, "w") creates or truncates. *)
Fopen(d) ==
    /\ Goto(d, "fopen", "lock2")
    /\ IF path = 0
       THEN files < MaxFile /\ files' = files + 1 /\ path' = files'
       ELSE UNCHANGED <<files, path>>
    /\ fpid' = [fpid EXCEPT ![d] = path']
    /\ content' = [content EXCEPT ![path'] = NoDaemon]
    /\ UNCHANGED <<lock, child>>

(* The second lock, which nobody asks for the result of *)
LockAgain(d) ==
    /\ Goto(d, "lock2", "write")
    /\ lock' = IF Lockable(fpid[d], d) THEN [lock EXCEPT ![fpid[d]] = d] ELSE lock
    /\ UNCHANGED <<path, files, content, fpid, child>>

Write(d) ==
    /\ Goto(d, "write", "runs")
    /\ content' = [content EXCEPT ![fpid[d]] = d]
    /\ UNCHANGED <<path, files, lock, fpid, child>>

-----------------------------------------------------------------------------
(* daemon_stop and drop_pid_file *)

(* atexit, F_UNLCK *)
Stop(d) ==
    /\ Overlap \/ Alone(d)
    /\ Goto(d, "runs", "fclose")
    /\ lock' = Unlocked(fpid[d], d)
    /\ UNCHANGED <<path, files, content, fpid, child>>

Fclose(d) ==
    /\ Goto(d, "fclose", "unlink")
    /\ lock' = Unlocked(fpid[d], d)
    /\ fpid' = [fpid EXCEPT ![d] = 0]
    /\ UNCHANGED <<path, files, content, child>>

Unlink(d) ==
    /\ Goto(d, "unlink", "ended")
    /\ path' = 0
    /\ UNCHANGED <<files, content, lock, fpid, child>>

(* A daemon is killed: its descriptors are closed, its file stays. *)
Kill(d) ==
    /\ pc[d] \in Starting \cup Stopping \cup {"runs"}
    /\ pc' = [pc EXCEPT ![d] = "ended"]
    /\ lock' = [f \in File |-> IF lock[f] = d THEN NoDaemon ELSE lock[f]]
    /\ fpid' = [fpid EXCEPT ![d] = 0]
    /\ UNCHANGED <<path, files, content, child>>

(* nt_thread_start forks; the child has the handlers of atexit too. *)
Fork(d) ==
    /\ pc[d] = "runs"
    /\ child' = child \cup {d}
    /\ UNCHANGED <<path, files, content, lock, pc, fpid>>

(* Mutant: the child drops the file as well. *)
ChildDrops(d) ==
    /\ d \in child
    /\ child' = child \ {d}
    /\ path' = 0
    /\ UNCHANGED <<files, content, lock, pc, fpid>>

(* A child exits: parent_pid tells daemon_stop that it is not its turn. *)
ChildExit(d) ==
    /\ d \in child
    /\ child' = child \ {d}
    /\ UNCHANGED <<path, files, content, lock, pc, fpid>>

Next ==
    \E d \in Daemon :
        \/ Stat(d) \/ Open(d) \/ OpenFails(d) \/ Lock(d) \/ Close(d) \/ Fopen(d)
        \/ LockAgain(d) \/ Write(d)
        \/ Stop(d) \/ Fclose(d) \/ Unlink(d)
        \/ Kill(d) \/ Fork(d) \/ ChildExit(d)

Spec == Init /\ [][Next]_vars

-----------------------------------------------------------------------------
(* Properties *)

Running == {d \in Daemon : pc[d] = "runs"}

(* Every variable has its type; who runs has a file open, and a lock is    *)
(* held by one that starts or runs.                                        *)
TypeOK ==
    /\ path \in 0 .. files /\ files \in 0 .. MaxFile
    /\ \A f \in File : content[f] \in Daemon \cup {NoDaemon}
    /\ \A d \in Daemon :
         /\ pc[d] \in Starting \cup Stopping \cup {"idle", "runs", "ended"}
         /\ pc[d] \in {"runs", "lock", "close", "lock2", "write"} => fpid[d] # 0
         /\ d \in {lock[f] : f \in File} => pc[d] \in Starting \cup {"runs"}
    /\ child \subseteq Daemon

(* nt_phreads.c:116, "Is this process already running?": two daemons never *)
(* run at the same time, also when some were killed before.                *)
OneRuns == Cardinality(Running) <= 1

(* While a daemon runs, whatever its children and other starts do, the     *)
(* file is there, locked, and has its process id: a start sees it, and     *)
(* who reads the file finds it.  (And every variable has its type.)        *)
FileNamesDaemon ==
    /\ TypeOK
    /\ \A d \in Running : path = fpid[d] /\ lock[path] = d /\ content[path] = d

(* A start fails only because a daemon runs: the file that a killed one    *)
(* has left, or a failed start, stand in nobody's way.                     *)
FailsOnlyIfRunning ==
    [][\A d \in Daemon :
         Lock(d) /\ pc'[d] = "ended" => \E e \in Running : e # d]_vars

=============================================================================
