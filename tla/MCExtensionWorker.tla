-------------------------- MODULE MCExtensionWorker --------------------------
(* Model values for ExtensionWorker.                                       *)
EXTENDS ExtensionWorker, TLC

CONSTANTS c1, c2, s1, s2

\* Stoppers are interchangeable; calls differ in their handlers.
Symmetry == Permutations(Stoppers)
=============================================================================
