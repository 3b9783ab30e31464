------------------------------ MODULE MCMemAlloc ------------------------------
(* TLC instances of MemAlloc. *)
EXTENDS MemAlloc, TLC

CONSTANTS d1, d2

Symmetry == Permutations(Data)

=============================================================================
