------------------------------ MODULE MCStatus ------------------------------
(***************************************************************************)
(* Status with the constants of its TLC run.                               *)
(***************************************************************************)
EXTENDS Status, TLC

\* Executors are interchangeable, and so are probes.
Symmetry == Permutations(Executor) \cup Permutations(Probe)
=============================================================================
