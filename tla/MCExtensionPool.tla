--------------------------- MODULE MCExtensionPool ---------------------------
(* Model values for ExtensionPool.                                         *)
EXTENDS ExtensionPool, TLC

CONSTANTS r1, r2, b1, b2, g1, z1, z2

\* Requests are interchangeable.
Symmetry == Permutations(Requesters)
=============================================================================
