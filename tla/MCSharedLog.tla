----------------------------- MODULE MCSharedLog -----------------------------
(* Model values for the runs of SharedLog. *)
EXTENDS SharedLog, TLC

CONSTANTS parent, c1, c2

Symmetry == Permutations(Child)
=============================================================================
