------------------------------ MODULE Takeover ------------------------------
(***************************************************************************)
(* What the job promises to the PBX about a takeover (README, "Server      *)
(* takeover"): the caller is heard and answered only while the agent       *)
(* screens, a suspended agent may only speak its statement, and a handoff  *)
(* always ends with the agent gone.                                        *)
(***************************************************************************)
VARIABLES
  phase,   \* "starting", "screening", "suspended", "handoff" or "over"
  hears,   \* the agent receives the caller's audio
  speaks   \* the agent's audio reaches the call

vars == <<phase, hears, speaks>>

Init == phase = "starting" /\ ~hears /\ ~speaks

\* Ordinary turns begin, or resume after a failed transfer.
Screen ==
  /\ phase \in {"starting", "suspended", "screening"}
  /\ phase' = "screening" /\ hears' = TRUE /\ speaks' = TRUE

\* A transfer is in progress, again if a second request arrives.
Suspend ==
  /\ phase \in {"starting", "screening", "suspended"}
  /\ phase' = "suspended" /\ hears' = FALSE /\ speaks' = FALSE

\* The transfer statement begins.  A statement that was about to begin may do so
\* after the call was aborted or is being cleaned up.
Speak ==
  /\ phase \in {"suspended", "handoff", "over"}
  /\ speaks' = TRUE /\ UNCHANGED <<phase, hears>>

\* The transfer statement ends.
Hush ==
  /\ phase \in {"suspended", "handoff", "over"}
  /\ speaks' = FALSE /\ UNCHANGED <<phase, hears>>

\* A human answered: the statement may finish, and is started if it was not.
Handoff ==
  /\ phase \in {"screening", "suspended"}
  /\ phase' = "handoff" /\ hears' = FALSE
  /\ speaks' = (speaks /\ phase = "suspended")

\* The agent is silenced for good.
End ==
  /\ phase' = "over" /\ hears' = FALSE /\ speaks' = FALSE

Next == Screen \/ Suspend \/ Speak \/ Hush \/ Handoff \/ End

Spec == Init /\ [][Next]_vars
=============================================================================
