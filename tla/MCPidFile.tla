------------------------------ MODULE MCPidFile ------------------------------
(* Model values for the runs of PidFile. *)
EXTENDS DaemonFile, TLC

CONSTANTS d1, d2, d3, d4

Symmetry == Permutations(Daemon)
=============================================================================
