----------------------------- MODULE MCTaskQueue -----------------------------
(***************************************************************************)
(* TLC instances of TaskQueue.  The processes of one role, and the tasks,  *)
(* are interchangeable; Mortal is a union of whole roles in every .cfg     *)
(* that uses a symmetry set, so that it is invariant under them.           *)
(***************************************************************************)
EXTENDS TaskQueue, TLC

CONSTANTS p1, p2, c1, c2, t1, t2

Symmetry ==
    Permutations(Producer) \cup Permutations(Consumer) \cup Permutations(Task)

=============================================================================
