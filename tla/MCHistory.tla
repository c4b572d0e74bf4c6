----------------------------- MODULE MCHistory -----------------------------
(***************************************************************************)
(* History with the constants of its TLC run.                              *)
(***************************************************************************)
EXTENDS History, TLC

Symmetry == Permutations(Observer)
=============================================================================
