-------------------------- MODULE MCForestJournal --------------------------
(* ForestJournal on small instances. *)
EXTENDS ForestJournal, TLC

\* Blocks are interchangeable: nothing compares them except for equality.
BlockSymmetry == Permutations(Blocks)
=============================================================================
