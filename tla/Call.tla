-------------------------------- MODULE Call --------------------------------
(***************************************************************************)
(* What a job promises about its call, whatever startup, room, PBX and SDK *)
(* do in between: nobody is talked to before authorization and readiness,  *)
(* an ending call is never talked to again, and every call that ends is    *)
(* released.  Worker implements it.                                        *)
(***************************************************************************)

VARIABLES
  phase,       \* "starting", "serving", "ending", "released"
  authorized,  \* the profile of this call was authorized
  talking      \* ordinary turns happen

callVars == <<phase, authorized, talking>>

Init == phase = "starting" /\ authorized = FALSE /\ talking = FALSE

Authorize ==
  /\ phase = "starting" /\ ~authorized
  /\ authorized' = TRUE
  /\ UNCHANGED <<phase, talking>>

\* A transfer may have been requested before, and then turns do not start.
Serve ==
  /\ phase = "starting" /\ authorized
  /\ phase' = "serving" /\ talking' \in BOOLEAN
  /\ UNCHANGED authorized

\* A transfer suspends ordinary turns, its failure resumes them.
SuspendOrResume ==
  /\ phase = "serving" /\ talking' = ~talking
  /\ UNCHANGED <<phase, authorized>>

\* Failed admission, leg lost, takeover, deadline or the SDK's shutdown.
End ==
  /\ phase \in {"starting", "serving"}
  /\ phase' = "ending" /\ talking' = FALSE
  /\ UNCHANGED authorized

\* The job is cleaned up and the agent out of the room.
Release ==
  /\ phase = "ending" /\ phase' = "released"
  /\ UNCHANGED <<authorized, talking>>

Next == Authorize \/ Serve \/ SuspendOrResume \/ End \/ Release

Safety == Init /\ [][Next]_callVars

Spec == Safety /\ WF_callVars(Release)
=============================================================================
