--------------------------- MODULE MCSpecPublish ---------------------------
(* A small instance of SpecPublish.                                        *)
EXTENDS SpecPublish, TLC

CONSTANTS p1, p2, p3, d1, d2

Symmetry == Permutations({p1, p2, p3}) \cup Permutations({d1, d2})
=============================================================================
