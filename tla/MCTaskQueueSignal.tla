-------------------------- MODULE MCTaskQueueSignal --------------------------
(* TLC instance of TaskQueueSignal. *)
EXTENDS TaskQueueSignal

CONSTANTS p1, p2, c1, c2, t1, t2

=============================================================================
