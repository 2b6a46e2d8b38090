------------------------- MODULE MCInMemoryServices -------------------------
(* Instances of InMemoryServices for TLC. *)
EXTENDS InMemoryServices, TLC

CONSTANTS p1, p2, p3, g1, theMovie, sequel

Symmetry == Permutations(Puts) \cup Permutations(Movies)
=============================================================================
