------------------------------ MODULE MCControl ------------------------------
(***************************************************************************)
(* Control with the constants of its TLC runs.                             *)
(***************************************************************************)
EXTENDS Control
=============================================================================
