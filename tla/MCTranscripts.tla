--------------------------- MODULE MCTranscripts ---------------------------
(***************************************************************************)
(* Transcripts with the constants of its TLC runs.                         *)
(***************************************************************************)
EXTENDS Transcripts
=============================================================================
