------------------------------- MODULE Worker -------------------------------
(***************************************************************************)
(* entrypoint() of worker.py for one call: the startup task                *)
(* (start_authorized), its deadline, abort(), cleanup(), the end of the    *)
(* entrypoint, and the control packets as far as they decide whether the   *)
(* conversation is on.  The SIP leg and its audio are those of Admission,  *)
(* whose abort callback is worker.abort; how a takeover is carried out is  *)
(* module Control.                                                         *)
(***************************************************************************)
EXTENDS Admission, Bootstrap

\* A leg is authorized by the sid of the participant that was admitted.
ASSUME LegAssumption == Leg = Sid /\ NoLeg = Nobody

VARIABLES
  stage,      \* where the startup task is suspended, or how it ended
  cancelled,  \* startup.cancel() was called, or the startup deadline passed
  session,    \* the session exists
  ready, stopping, transferring,   \* flags of ControlHandler
  turnsOn,    \* the session's input is enabled: ordinary turns happen
  cleanup,    \* progress of cleanup(): "no", "startup", "resources", "done"
  entry,      \* what the entrypoint awaits: "startup", "cleanup", "disconnect", or "done"
  roomLeft,   \* room.disconnect() was called
  shutdown    \* ctx.shutdown was called

controlVars == <<ready, stopping, transferring>>
workerVars == <<stage, cancelled, session, controlVars, turnsOn, cleanup, entry, roomLeft, shutdown>>
vars == <<admissionVars, bootVars, workerVars>>

Awaits == {"connect", "sip-admission", "bootstrap", "session-start",
           "sip-audio-subscription", "readiness-publish"}

StartupDone == stage \notin Awaits

\* Mutant: abort() does not cancel the startup task.
OnAbortKeepsStartup ==
  IF aborted' = aborted
  THEN UNCHANGED <<turnsOn, cancelled, shutdown>>
  ELSE turnsOn' = FALSE /\ shutdown' = TRUE /\ UNCHANGED cancelled

\* What abort() adds when the callback sets `aborted`: silence, cancel the
\* startup task if it still runs, request the shutdown.  A further call does nothing.
OnAbort ==
  IF aborted' = aborted
  THEN UNCHANGED <<turnsOn, cancelled, shutdown>>
  ELSE turnsOn' = FALSE /\ shutdown' = TRUE /\ cancelled' = (cancelled \/ ~StartupDone)

Idle == <<bootVars, stage, session, controlVars, cleanup, entry, roomLeft>>

\* An event of the room, handled by SipAdmission; its handlers are off once it closed.
Room == ~closed /\ RoomEvent /\ OnAbort /\ UNCHANGED Idle

-----------------------------------------------------------------------------
\* start_authorized(): one step per resumption.  A cancelled task does not get
\* past its await, which is why its tests of `aborted` and `stopping` pass.

Resumes(s) == stage = s /\ ~cancelled

Quiet == UNCHANGED <<turnsOn, cancelled, shutdown>>

Connect ==
  /\ Resumes("connect")
  /\ CallWait
  /\ stage' = "sip-admission"
  /\ Quiet /\ UNCHANGED <<bootVars, session, controlVars, cleanup, entry, roomLeft>>

AwaitLeg ==
  /\ Resumes("sip-admission")
  /\ Admit
  /\ stage' = CASE legPC' = "admitted" -> "bootstrap"
                [] legPC' = "raised" -> "ended"
                [] legPC' = "waiting" -> stage
  /\ IF legPC' = "admitted" THEN Request(leg'.sid) ELSE UNCHANGED bootVars
  /\ Quiet /\ UNCHANGED <<session, controlVars, cleanup, entry, roomLeft>>

\* The authority redeems the credentials while the startup task waits.  (One that
\* does so after the worker gave up changes nothing the worker sees.)
Redemption ==
  /\ stage = "bootstrap" /\ Redeem
  /\ UNCHANGED <<admissionVars, workerVars>>

\* authorize() returned a call or raised; validate the leg again, create the muted session.
Authorize ==
  /\ Resumes("bootstrap")
  /\ ReadAnswer
  /\ IF call' = "authorized" /\ Valid
     THEN stage' = "session-start" /\ session' = TRUE
     ELSE stage' = "ended" /\ UNCHANGED session
  /\ Quiet /\ UNCHANGED <<admissionVars, controlVars, cleanup, entry, roomLeft>>

SessionStarted ==
  /\ Resumes("session-start")
  /\ CallSubscribe
  /\ stage' = IF legPC' = "raised" THEN "ended" ELSE "sip-audio-subscription"
  /\ Quiet /\ UNCHANGED <<bootVars, session, controlVars, cleanup, entry, roomLeft>>

AwaitAudio ==
  /\ Resumes("sip-audio-subscription")
  /\ PollAudio /\ OnAbort
  /\ stage' = CASE legPC' = "connected" /\ ~aborted' -> "readiness-publish"
                [] legPC' = "subscribing" -> stage
                [] OTHER -> "ended"
  /\ UNCHANGED <<bootVars, session, controlVars, cleanup, entry, roomLeft>>

\* agent_ready was delivered: validate, activate() and enable ordinary turns.
GoLive ==
  /\ Resumes("readiness-publish")
  /\ IF Valid
     THEN /\ stage' = "live" /\ ready' = TRUE
          /\ turnsOn' = ~transferring
     ELSE stage' = "ended" /\ UNCHANGED <<ready, turnsOn>>
  /\ UNCHANGED <<admissionVars, bootVars, cancelled, session, stopping, transferring, cleanup,
                 entry, roomLeft, shutdown>>

\* connect, authorize, session.start or publish_data raises, or the agent has no identity.
StartupFails ==
  /\ stage \in Awaits \ {"sip-admission"} /\ ~cancelled
  /\ stage' = "ended"
  /\ IF stage = "bootstrap" THEN AnswerFails ELSE UNCHANGED bootVars
  /\ Quiet /\ UNCHANGED <<admissionVars, session, controlVars, cleanup, entry, roomLeft>>

\* Mutant: the deadline covers joining the room only.
CancelConnect ==
  /\ stage = "connect" /\ ~cancelled
  /\ cancelled' = TRUE
  /\ UNCHANGED <<admissionVars, turnsOn, shutdown, Idle>>

\* The deadline over the whole startup, or the SDK cancels the entrypoint task.
CancelStartup ==
  /\ ~StartupDone /\ ~cancelled
  /\ cancelled' = TRUE
  /\ UNCHANGED <<admissionVars, turnsOn, shutdown, Idle>>

StartupCancelled ==
  /\ ~StartupDone /\ cancelled
  /\ stage' = "ended"
  /\ IF stage = "bootstrap" THEN AnswerFails ELSE UNCHANGED bootVars
  /\ Quiet /\ UNCHANGED <<admissionVars, session, controlVars, cleanup, entry, roomLeft>>

-----------------------------------------------------------------------------
\* Packets on aida.control that the handler accepts (module Control), and the
\* session's close event or a transcript failure.

CallOpen == ~aborted /\ cleanup = "no"

HumanAnswered ==
  /\ CallOpen /\ ~stopping
  /\ stopping' = TRUE /\ turnsOn' = FALSE
  /\ aborted' = ~ready
  /\ cancelled' = (cancelled \/ (~ready /\ ~StartupDone))
  /\ shutdown' = (shutdown \/ ~ready)
  /\ UNCHANGED <<bootVars, roomVars, legVars, changed, requested, closed, stage, session, ready,
                 transferring, cleanup, entry, roomLeft>>

TransferRequested ==
  /\ CallOpen /\ ~stopping
  /\ transferring' = TRUE /\ turnsOn' = FALSE
  /\ UNCHANGED <<admissionVars, bootVars, stage, cancelled, session, ready, stopping, cleanup,
                 entry, roomLeft, shutdown>>

TransferFailed ==
  /\ CallOpen /\ ~stopping
  /\ transferring' = FALSE /\ turnsOn' = ready
  /\ UNCHANGED <<admissionVars, bootVars, stage, cancelled, session, ready, stopping, cleanup,
                 entry, roomLeft, shutdown>>

SessionLost ==
  /\ CallOpen /\ session
  /\ aborted' = TRUE /\ OnAbort
  /\ UNCHANGED <<roomVars, legVars, changed, requested, closed, Idle>>

\* Mutant: the stop task only requests the shutdown.
ShutdownAfterTakeover ==
  /\ stopping /\ ~shutdown
  /\ shutdown' = TRUE
  /\ UNCHANGED <<admissionVars, bootVars, stage, cancelled, session, controlVars, turnsOn, cleanup,
                 entry, roomLeft>>

\* The handler's stop task: leave the room, then request the shutdown.
LeaveAfterTakeover ==
  /\ stopping /\ ~(roomLeft /\ shutdown)
  /\ roomLeft' = TRUE /\ shutdown' = TRUE
  /\ UNCHANGED <<admissionVars, bootVars, stage, cancelled, session, controlVars, turnsOn, cleanup, entry>>

-----------------------------------------------------------------------------
\* cleanup() and the end of the entrypoint.

\* cleanup() up to its first await.
StartCleanup ==
  /\ cleanup = "no"
  /\ cleanup' = IF StartupDone THEN "resources" ELSE "startup"
  /\ cancelled' = (cancelled \/ ~StartupDone)
  /\ ready' = FALSE /\ turnsOn' = FALSE
  /\ TurnOff

\* The SDK's shutdown callback: after ctx.shutdown, or when it ends the job itself.
SdkCleanup ==
  /\ StartCleanup
  /\ UNCHANGED <<bootVars, aborted, stage, session, stopping, transferring, entry, roomLeft, shutdown>>

\* The startup task that cleanup() cancelled has ended.
StartupGathered ==
  /\ cleanup = "startup" /\ StartupDone
  /\ cleanup' = "resources"
  /\ UNCHANGED <<admissionVars, bootVars, stage, cancelled, session, controlVars, turnsOn, entry,
                 roomLeft, shutdown>>

\* history, publisher, control and session are closed, two seconds at most each.
EndCleanup ==
  /\ cleanup = "resources"
  /\ cleanup' = "done"
  /\ UNCHANGED <<admissionVars, bootVars, stage, cancelled, session, controlVars, turnsOn, entry,
                 roomLeft, shutdown>>

\* `await startup` returned or raised.  An exception calls abort(), which does
\* nothing once cleanup() began; the finally clause runs cleanup() if needed, and
\* finds it running or done when the SDK called it first.
StartupReturns ==
  /\ entry = "startup" /\ StartupDone
  /\ aborted' = (aborted \/ (stage = "ended" /\ cleanup = "no"))
  /\ shutdown' = (shutdown \/ aborted' # aborted)
  /\ \/ /\ aborted' \/ (stopping /\ ~ready)
        /\ cleanup = "no"
        /\ StartCleanup
        /\ entry' = "cleanup"
     \/ /\ entry' = IF aborted' \/ (stopping /\ ~ready) THEN "disconnect" ELSE "done"
        /\ entry' = "disconnect" => cleanup # "no"
        /\ UNCHANGED <<roomVars, legVars, changed, requested, closed, cleanup, cancelled,
                       ready, turnsOn>>
  /\ UNCHANGED <<bootVars, stage, session, stopping, transferring, roomLeft>>

CleanupReturns ==
  /\ entry = "cleanup" /\ cleanup = "done"
  /\ entry' = "disconnect"
  /\ UNCHANGED <<admissionVars, bootVars, stage, cancelled, session, controlVars, turnsOn, cleanup,
                 roomLeft, shutdown>>

\* room.disconnect(), two seconds at most.
Disconnect ==
  /\ entry = "disconnect"
  /\ entry' = "done" /\ roomLeft' = TRUE
  /\ UNCHANGED <<admissionVars, bootVars, stage, cancelled, session, controlVars, turnsOn, cleanup, shutdown>>

-----------------------------------------------------------------------------
Init ==
  /\ AdmissionInit /\ BootstrapInit
  /\ stage = "connect" /\ cancelled = FALSE /\ session = FALSE
  /\ ready = FALSE /\ stopping = FALSE /\ transferring = FALSE
  /\ turnsOn = FALSE /\ cleanup = "no" /\ entry = "startup"
  /\ roomLeft = FALSE /\ shutdown = FALSE

Startup == Connect \/ AwaitLeg \/ Redemption \/ Authorize \/ SessionStarted \/ AwaitAudio \/ GoLive
           \/ StartupFails

ControlPacket == HumanAnswered \/ TransferRequested \/ TransferFailed

Ending == StartupCancelled \/ StartupGathered \/ EndCleanup \/ StartupReturns
          \/ CleanupReturns \/ Disconnect

Next ==
  \/ Room \/ SessionLost
  \/ Startup \/ CancelStartup
  \/ ControlPacket \/ LeaveAfterTakeover
  \/ SdkCleanup \/ Ending

Spec == Init /\ [][Next]_vars

(***************************************************************************)
(* Fairness: the startup deadline fires, cancelled tasks end, every await  *)
(* of the shutdown path is bounded by a timeout, and the SDK runs its      *)
(* shutdown callbacks after ctx.shutdown.  No awaited provider is fair.    *)
(***************************************************************************)
FairSpec ==
  /\ Spec
  /\ WF_vars(CancelStartup)
  /\ WF_vars(Ending)
  /\ WF_vars(LeaveAfterTakeover)
  /\ WF_vars(shutdown /\ SdkCleanup)

-----------------------------------------------------------------------------
\* Type invariant of the entrypoint's state.
TypeOK ==
  /\ AdmissionTypeOK
  /\ requests \in 0..1 /\ named \in Leg \cup {NoLeg} /\ redeemed \in Leg \cup {NoLeg}
  /\ call \in {"none", "asked", "authorized", "refused", "failed"}
  /\ stage \in Awaits \cup {"live", "ended"}
  /\ cleanup \in {"no", "startup", "resources", "done"}
  /\ entry \in {"startup", "cleanup", "disconnect", "done"}
  /\ {cancelled, session, ready, stopping, transferring, turnsOn, roomLeft, shutdown}
       \subseteq BOOLEAN

\* BOOTSTRAP_CONTRACT "normal conversation remains disabled until" authorized, SIP
\* leg unchanged, audio subscribed, ready published: whatever the room did during
\* each await of the startup, a ready worker serves exactly the leg it authorized.
ServesAdmittedLeg == ready /\ ~aborted => session /\ Valid /\ BoundAudio

\* BOOTSTRAP_CONTRACT "Atomically consume both credentials and bind the authorized
\* identity/SID": a ready worker talks to the participant the credentials were
\* consumed for, although the authority may bind another one and the room may
\* change between the request and its answer.
ServesRedeemedLeg == ready => call = "authorized" /\ redeemed = leg.sid

\* Ordinary turns happen only in a ready call that no takeover, transfer, abort or
\* cleanup has touched, also when those overtake the startup task.
TurnsOnlyWhenServing ==
  turnsOn => ready /\ ~aborted /\ ~stopping /\ ~transferring

\* What the startup task has done for the leg and the credentials where it is suspended.
StartupFollowsLeg ==
  /\ stage = "connect" => legPC = "idle" /\ call = "none"
  /\ stage = "sip-admission" => legPC = "waiting" /\ call = "none"
  /\ stage = "bootstrap" => legPC = "admitted" /\ call = "asked"
  /\ stage = "session-start" => legPC = "admitted" /\ call = "authorized" /\ session
  /\ stage = "sip-audio-subscription" =>
       legPC = "subscribing" /\ call = "authorized" /\ session
  /\ stage \in {"readiness-publish", "live"} =>
       legPC = "connected" /\ call = "authorized" /\ session

\* The one request names the admitted leg; only an answer for the leg it names authorizes.
AnswerFollowsRequest ==
  /\ call = "none" => requests = 0 /\ redeemed = NoLeg
  /\ call # "none" => leg # Nobody /\ named = leg.sid
  /\ answer # <<>> => answer[1].leg = redeemed
  /\ call = "authorized" => redeemed = named

\* The startup task is cancelled by whatever overtakes it; what cleanup() has done.
OvertakenIsCancelled ==
  /\ ~StartupDone /\ (aborted \/ stopping \/ cleanup # "no") => cancelled
  /\ ready => stage = "live" /\ cleanup = "no"
  /\ closed <=> cleanup # "no"
  /\ cleanup \in {"resources", "done"} => StartupDone

\* The inductive invariant of the entrypoint, next to its types.
WorkerInv ==
  /\ AdmissionInv /\ StartupFollowsLeg /\ AnswerFollowsRequest
  /\ OvertakenIsCancelled /\ TurnsOnlyWhenServing

\* "One deadline covers join, SIP attributes, HTTP, session start and ready
\* delivery": the startup task always ends, even if every provider hangs.
StartupEnds == <>StartupDone

-----------------------------------------------------------------------------
\* The job as its call sees it.  A taken over call is released when the agent has left
\* and cleaned up, and so is one aborted before it was served; otherwise the SDK, which
\* ends the job, leaves the room after cleanup().
phase ==
  CASE ~StartupDone /\ CallOpen /\ ~stopping -> "starting"
    [] stage = "live" /\ CallOpen /\ ~stopping -> "serving"
    [] cleanup = "done" /\ (stopping \/ (aborted /\ stage # "live") => roomLeft) -> "released"
    [] OTHER -> "ending"

Promise == INSTANCE Call WITH authorized <- (call = "authorized"), talking <- turnsOn

\* README "the job fails closed", "silences and disconnects only the agent": through
\* every overtaken await the job does nothing that Call does not allow.  Aborted or
\* taken over at any stage, by whichever of SDK and entrypoint cleans up, a call is
\* never talked to again and is always released.
RefinesCall == Promise!Spec
=============================================================================
