------------------------------ MODULE MCWorker ------------------------------
(***************************************************************************)
(* Worker with the constants of its TLC run.                               *)
(***************************************************************************)
EXTENDS Worker

\* One profile: which sizes are accepted is the question of MCBootstrap.
Profiles == {[chars |-> 1, width |-> 1]}
=============================================================================
