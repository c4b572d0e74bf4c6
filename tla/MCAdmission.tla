----------------------------- MODULE MCAdmission -----------------------------
(***************************************************************************)
(* Admission with the constants of its TLC run.                            *)
(***************************************************************************)
EXTENDS Admission, TLC
=============================================================================
