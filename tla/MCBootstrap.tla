---------------------------- MODULE MCBootstrap ----------------------------
(***************************************************************************)
(* Bootstrap with the constants of its TLC run.                            *)
(***************************************************************************)
EXTENDS Bootstrap

\* Prompts of one character, of 12,000 and of one more, of one to four bytes each.
Sizes == [chars : {1, MaxPrompt, MaxPrompt + 1}, width : 1..4]
=============================================================================
