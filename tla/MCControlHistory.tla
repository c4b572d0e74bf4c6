-------------------------- MODULE MCControlHistory --------------------------
(***************************************************************************)
(* ControlHistory with the constants of its TLC runs.                      *)
(***************************************************************************)
EXTENDS ControlHistory, TLC

Symmetry == Permutations(Id) \cup Permutations(Task)
=============================================================================
