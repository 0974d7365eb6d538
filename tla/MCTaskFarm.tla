----------------------------- MODULE MCTaskFarm -----------------------------
(* Bounded instances of TaskFarm for TLC. *)
EXTENDS TaskFarm, TLC

MortalSymmetry == Permutations(Mortal)
=============================================================================
