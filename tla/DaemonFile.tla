------------------------------ MODULE DaemonFile ------------------------------
(***************************************************************************)
(* The pid file of PidFile, under names that can stand beside those of the *)
(* other specifications of the daemon's processes.                         *)
(***************************************************************************)

CONSTANTS Daemon, MaxFile, Overlap, Leftover, NoDaemon
VARIABLES path, pid_files, content, pid_lock, pid_pc, fpid, child

P == INSTANCE PidFile WITH files <- pid_files, lock <- pid_lock, pc <- pid_pc

ASSUME DaemonAssumption == P!PidAssumption

PidSpec == P!Spec

(* nt_phreads.c:116: two daemons never run at the same time. *)
OneRuns == P!OneRuns
(* While a daemon runs the file is there, locked, with its process id. *)
FileNamesDaemon == P!FileNamesDaemon
(* A start fails only because a daemon runs. *)
FailsOnlyIfRunning == P!FailsOnlyIfRunning

=============================================================================
