------------------------------ MODULE MCDatabase ------------------------------
(* An instance of Database for TLC. *)
EXTENDS Database, TLC

CONSTANTS app, lib, c1, c2, c3, c4, old, new

MCIds == {<<"id", n>> : n \in Names}

MCFileId == [n \in Names |-> <<"id", n>>]

Symmetry == Permutations(Cells) \cup Permutations(Contents)
===============================================================================
