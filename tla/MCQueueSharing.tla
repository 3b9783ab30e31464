---------------------------- MODULE MCQueueSharing ----------------------------
(* Model values for the run of QueueSharing. *)
EXTENDS QueueSharing, TLC

CONSTANTS m1, m2, c1, a1, a2

Symmetry == Permutations(Address) \cup Permutations(Creator)
=============================================================================
