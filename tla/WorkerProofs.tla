---------------------------- MODULE WorkerProofs ----------------------------
(***************************************************************************)
(* Theorems about Worker, for any participants, tokens, publications and   *)
(* profiles: what a ready worker serves, when it talks, and that it        *)
(* implements the safety part of Call.                                     *)
(***************************************************************************)
EXTENDS Worker, AdmissionProofs

USE LegAssumption

-----------------------------------------------------------------------------
\* The part of the steps that concerns SipAdmission.

\* A step that does nothing to the leg but call or not call the abort callback.
LEMMA AbortOnly ==
  ASSUME AdmissionTypeOK, AdmissionInv, UNCHANGED <<roomVars, legVars, changed, requested, closed>>,
         aborted' \in BOOLEAN, aborted => aborted'
  PROVE  AdmissionTypeOK' /\ AdmissionInv'
BY DEF AdmissionTypeOK, AdmissionInv, LegChangeAborts, OnlyLegAudioRequested, LostAudioAborts,
       AudioFollowsLeg, Valid, ValidIn, Bound, BoundAudio, roomVars, legVars

LEMMA AdmissionPart ==
  ASSUME TypeOK, AdmissionInv, [Next]_vars
  PROVE  AdmissionTypeOK' /\ AdmissionInv'
<1> AdmissionTypeOK
  BY DEF TypeOK
<1>1. CASE Room
  BY <1>1, RoomEventType, RoomEventInv DEF Room
<1>2. CASE Connect \/ AwaitLeg \/ SessionStarted \/ AwaitAudio
  <2>1. StartupStep
    BY <1>2 DEF StartupStep, Connect, AwaitLeg, SessionStarted, AwaitAudio
  <2>2. QED
    BY <2>1, StartupStepType, CallWaitInv, AdmitInv, CallSubscribeInv, PollAudioInv DEF StartupStep
<1>3. CASE SdkCleanup \/ (StartupReturns /\ StartCleanup)
  <2>1. TurnOff /\ aborted' \in BOOLEAN
    BY <1>3 DEF SdkCleanup, StartupReturns, StartCleanup, AdmissionTypeOK
  <2>2. QED
    BY <2>1, TurnOffType, TurnOffInv
<1>4. CASE SessionLost \/ HumanAnswered \/ (StartupReturns /\ ~StartCleanup)
  <2>1. UNCHANGED <<roomVars, legVars, changed, requested, closed>>
    BY <1>4 DEF SessionLost, HumanAnswered, StartupReturns
  <2>2. aborted' \in BOOLEAN /\ (aborted => aborted')
    BY <1>4 DEF SessionLost, HumanAnswered, StartupReturns, CallOpen, AdmissionTypeOK, TypeOK
  <2>3. QED
    BY <2>1, <2>2, AbortOnly
<1>5. CASE UNCHANGED admissionVars
  BY <1>5, AbortOnly DEF admissionVars, AdmissionTypeOK
<1>6. QED
  BY <1>1, <1>2, <1>3, <1>4, <1>5
     DEF Next, vars, Startup, ControlPacket, Ending, Redemption, Authorize, GoLive, StartupFails,
         CancelStartup, TransferRequested, TransferFailed, LeaveAfterTakeover, StartupCancelled,
         StartupGathered, EndCleanup, CleanupReturns, Disconnect

-----------------------------------------------------------------------------
\* Types of the credentials and of the entrypoint.
LEMMA WorkerType ==
  ASSUME TypeOK, WorkerInv, [Next]_vars
  PROVE  TypeOK'
<1> AdmissionTypeOK' /\ AdmissionTypeOK
  BY AdmissionPart DEF WorkerInv, TypeOK
<1> USE DEF TypeOK, Awaits, StartupDone, bootVars, controlVars, workerVars, Idle, Quiet
<1>1. CASE Room
  BY <1>1, ZenonT(40) DEF Room, OnAbort
<1>2. CASE SessionLost
  BY <1>2, ZenonT(40) DEF SessionLost, OnAbort
<1>3. CASE Connect
  BY <1>3 DEF Connect
<1>4. CASE AwaitLeg
  <2>1. legPC' = "admitted" => leg'.sid \in Sid /\ leg' # Nobody
    BY <1>4, NobodyAssumption DEF AwaitLeg, Admit, AdmissionTypeOK
  <2>2. legPC' = "admitted" => requests = 0
    BY <1>4 DEF AwaitLeg, Request, WorkerInv, AnswerFollowsRequest
  <2>3. QED
    BY <1>4, <2>1, <2>2 DEF AwaitLeg, Admit, Request
<1>5. CASE Redemption
  BY <1>5 DEF Redemption, Redeem
<1>6. CASE Authorize
  BY <1>6 DEF Authorize, ReadAnswer
<1>7. CASE SessionStarted
  BY <1>7 DEF SessionStarted
<1>8. CASE AwaitAudio
  BY <1>8 DEF AwaitAudio, OnAbort
<1>9. CASE GoLive
  BY <1>9 DEF GoLive
<1>10. CASE StartupFails \/ StartupCancelled
  BY <1>10 DEF StartupFails, StartupCancelled, AnswerFails
<1>11. CASE CancelStartup
  BY <1>11 DEF CancelStartup
<1>12. CASE ControlPacket
  <2>1. CASE HumanAnswered
    BY <2>1, ZenonT(40) DEF HumanAnswered
  <2>2. CASE TransferRequested
    BY <2>2, ZenonT(40) DEF TransferRequested
  <2>3. CASE TransferFailed
    BY <2>3, ZenonT(40) DEF TransferFailed
  <2>4. QED
    BY <1>12, <2>1, <2>2, <2>3 DEF ControlPacket
<1>13. CASE LeaveAfterTakeover
  BY <1>13 DEF LeaveAfterTakeover
<1>14. CASE SdkCleanup
  BY <1>14 DEF SdkCleanup, StartCleanup
<1>15. CASE StartupReturns
  <2>1. CASE StartCleanup /\ entry' = "cleanup"
    BY <1>15, <2>1 DEF StartupReturns, StartCleanup
  <2>2. CASE UNCHANGED <<cleanup, cancelled, ready, turnsOn>> /\ entry' \in {"disconnect", "done"}
    BY <1>15, <2>2 DEF StartupReturns
  <2>3. QED
    BY <1>15, <2>1, <2>2 DEF StartupReturns
<1>16. CASE StartupGathered \/ EndCleanup \/ CleanupReturns \/ Disconnect
  BY <1>16, ZenonT(40) DEF StartupGathered, EndCleanup, CleanupReturns, Disconnect
<1>17. CASE UNCHANGED vars
  BY <1>17 DEF vars
<1>18. QED
  BY <1>1, <1>2, <1>3, <1>4, <1>5, <1>6, <1>7, <1>8, <1>9, <1>10, <1>11, <1>12, <1>13, <1>14,
     <1>15, <1>16, <1>17 DEF Next, Startup, Ending
-----------------------------------------------------------------------------
\* The parts of the invariant that are not SipAdmission's.
WorkerParts ==
  StartupFollowsLeg /\ AnswerFollowsRequest /\ OvertakenIsCancelled /\ TurnsOnlyWhenServing

LEMMA StartupKeepsParts ==
  ASSUME TypeOK, WorkerInv, Startup \/ StartupCancelled
  PROVE  WorkerParts'
<1> USE DEF WorkerInv, WorkerParts, StartupFollowsLeg, AnswerFollowsRequest, OvertakenIsCancelled,
            TurnsOnlyWhenServing, TypeOK, Awaits, StartupDone, Resumes, Quiet, bootVars, controlVars,
            admissionVars, roomVars, legVars, workerVars
<1>1. CASE Connect
  BY <1>1 DEF Connect, CallWait
<1>2. CASE AwaitLeg
  <2>1. UNCHANGED <<aborted, closed, redeemed, answer, session, ready, stopping, turnsOn, cleanup>>
        /\ call = "none" /\ stage # "live"
    BY <1>2 DEF AwaitLeg, Admit, Request
  <2>2. CASE legPC' = "admitted"
    <3>1. leg' # Nobody /\ call' = "asked" /\ named' = leg'.sid /\ stage' = "bootstrap"
      BY <1>2, <2>2, AdmissionPart DEF AwaitLeg, Request, Next, Startup, AdmissionInv, AudioFollowsLeg
    <3>2. QED
      BY <1>2, <2>1, <2>2, <3>1 DEF AwaitLeg
  <2>3. CASE legPC' # "admitted"
    <3>1. UNCHANGED bootVars
          /\ ((stage' = "ended" /\ legPC' = "raised") \/ (stage' = stage /\ legPC' = "waiting"))
      BY <1>2, <2>3 DEF AwaitLeg, Admit
    <3>2. QED
      BY <1>2, <2>1, <3>1 DEF AwaitLeg
  <2>4. QED
    BY <2>2, <2>3
<1>3. CASE Redemption
  <2>1. UNCHANGED <<admissionVars, workerVars, requests, named, call>> /\ call = "asked"
    BY <1>3 DEF Redemption, Redeem
  <2>2. answer'[1].leg = redeemed'
    BY <1>3 DEF Redemption, Redeem
  <2>3. QED
    BY <2>1, <2>2
<1>4. CASE Authorize
  <2>1. /\ UNCHANGED <<admissionVars, requests, named, redeemed, controlVars, cancelled, cleanup,
                     turnsOn>>
        /\ stage = "bootstrap" /\ ~cancelled
        /\ answer' = <<>> /\ call' \in {"authorized", "refused"}
        /\ \/ stage' = "session-start" /\ session' /\ call' = "authorized"
           \/ stage' = "ended"
    BY <1>4 DEF Authorize, ReadAnswer
  <2>2. call' = "authorized" => redeemed = named
    BY <1>4 DEF Authorize, ReadAnswer, Accepts
  <2>3. QED
    BY <2>1, <2>2
<1>5. CASE SessionStarted
  BY <1>5 DEF SessionStarted, CallSubscribe
<1>6. CASE AwaitAudio
  BY <1>6 DEF AwaitAudio, PollAudio, OnAbort
<1>7. CASE GoLive
  <2>1. /\ UNCHANGED <<admissionVars, bootVars, cancelled, session, stopping, cleanup>>
        /\ stage = "readiness-publish" /\ ~cancelled
    BY <1>7 DEF GoLive
  <2>2. ~aborted /\ ~stopping /\ cleanup = "no" /\ ~ready
    BY <2>1
  <2>3. CASE Valid
    BY <1>7, <2>1, <2>2, <2>3 DEF GoLive
  <2>4. CASE ~Valid
    BY <1>7, <2>1, <2>2, <2>4 DEF GoLive
  <2>5. QED
    BY <2>3, <2>4
<1>8. CASE StartupFails \/ StartupCancelled
  <2>1. /\ UNCHANGED <<admissionVars, session, ready, stopping, transferring, turnsOn, cancelled,
                     cleanup>>
        /\ stage \in Awaits /\ stage' = "ended"
    BY <1>8 DEF StartupFails, StartupCancelled
  <2>2. \/ UNCHANGED bootVars
        \/ /\ stage = "bootstrap" /\ call = "asked" /\ call' = "failed" /\ answer' = <<>>
           /\ UNCHANGED <<requests, named, redeemed>>
    BY <1>8 DEF StartupFails, StartupCancelled, AnswerFails
  <2>3. QED
    BY <2>1, <2>2
<1>9. QED
  BY <1>1, <1>2, <1>3, <1>4, <1>5, <1>6, <1>7, <1>8 DEF Startup

\* What overtakes the startup task cancels it: an abort, a takeover, the deadline, cleanup().
LEMMA OthersKeepParts ==
  ASSUME TypeOK, WorkerInv,
         [Next]_vars, ~(Startup \/ StartupCancelled)
  PROVE  WorkerParts'
<1> USE DEF WorkerInv, WorkerParts, StartupFollowsLeg, AnswerFollowsRequest, OvertakenIsCancelled,
            TurnsOnlyWhenServing, TypeOK, Awaits, StartupDone, CallOpen, bootVars, controlVars,
            admissionVars, roomVars, legVars, workerVars, Idle
<1>1. CASE Room
  <2>1. UNCHANGED <<leg, legPC, closed>>
    BY <1>1, RoomEventInv DEF Room
  <2>2. aborted' # aborted => aborted'
    BY <1>1, RoomEventInv, RoomEventType DEF Room, AdmissionTypeOK
  <2>3. QED
    BY <1>1, <2>1, <2>2 DEF Room, OnAbort
<1>2. CASE SessionLost
  BY <1>2 DEF SessionLost, OnAbort
<1>3. CASE CancelStartup
  BY <1>3 DEF CancelStartup
<1>4. CASE HumanAnswered
  BY <1>4 DEF HumanAnswered
<1>5. CASE TransferRequested
  BY <1>5 DEF TransferRequested
<1>6. CASE TransferFailed
  BY <1>6 DEF TransferFailed
<1>7. CASE LeaveAfterTakeover
  BY <1>7 DEF LeaveAfterTakeover
<1>8. CASE SdkCleanup \/ (StartupReturns /\ StartCleanup)
  <2>1. UNCHANGED <<bootVars, stage, session, stopping, transferring>> /\ (aborted => aborted')
    <3>1. CASE SdkCleanup
      BY <3>1 DEF SdkCleanup
    <3>2. CASE StartupReturns
      BY <3>2 DEF StartupReturns, AdmissionTypeOK
    <3>3. QED
      BY <1>8, <3>1, <3>2
  <2>2. StartCleanup
    BY <1>8 DEF SdkCleanup
  <2>3. /\ closed' /\ ~ready' /\ ~turnsOn' /\ UNCHANGED legVars
        /\ cleanup' \in {"startup", "resources"} /\ (cleanup' = "resources" => StartupDone)
        /\ ~StartupDone => cancelled'
    BY <2>2 DEF StartCleanup, TurnOff
  <2>4. QED
    BY <2>1, <2>3
<1>9. CASE StartupReturns /\ ~StartCleanup
  <2>1. UNCHANGED <<roomVars, legVars, closed, bootVars, stage, session, controlVars, cleanup,
                    cancelled, turnsOn>>
    BY <1>9 DEF StartupReturns
  <2>2. stage # "live" \/ aborted' = aborted
    BY <1>9 DEF StartupReturns, AdmissionTypeOK
  <2>3. StartupDone
    BY <1>9 DEF StartupReturns
  <2>4. QED
    BY <2>1, <2>2, <2>3
<1>10. CASE StartupGathered \/ EndCleanup \/ CleanupReturns \/ Disconnect
  BY <1>10 DEF StartupGathered, EndCleanup, CleanupReturns, Disconnect
<1>11. CASE UNCHANGED vars
  BY <1>11 DEF vars
<1>12. QED
  BY <1>1, <1>2, <1>3, <1>4, <1>5, <1>6, <1>7, <1>8, <1>9, <1>10, <1>11
     DEF Next, ControlPacket, Ending

-----------------------------------------------------------------------------
\* The inductive invariant of the entrypoint.
THEOREM WorkerIsInvariant == Spec => [](TypeOK /\ WorkerInv)
<1>1. Init => TypeOK /\ WorkerInv
  <2>1. Init => AdmissionTypeOK /\ AdmissionInv
    BY AdmissionInitially DEF Init
  <2>2. Init => TypeOK
    <3>1. Init => requests \in 0..1
      BY DEF Init, BootstrapInit
    <3>2. QED
      BY <2>1, <3>1 DEF Init, BootstrapInit, TypeOK, Awaits
  <2>3. Init => WorkerInv
    BY <2>1 DEF Init, AdmissionInit, BootstrapInit, WorkerInv, StartupFollowsLeg,
         AnswerFollowsRequest, OvertakenIsCancelled, TurnsOnlyWhenServing
  <2>4. QED
    BY <2>2, <2>3
<1>2. TypeOK /\ WorkerInv /\ [Next]_vars => TypeOK' /\ WorkerInv'
  <2> SUFFICES ASSUME TypeOK, WorkerInv, [Next]_vars PROVE TypeOK' /\ WorkerInv'
    OBVIOUS
  <2>1. TypeOK' /\ AdmissionInv'
    BY WorkerType, AdmissionPart DEF WorkerInv
  <2>2. WorkerParts'
    BY StartupKeepsParts, OthersKeepParts
  <2>3. QED
    BY <2>1, <2>2 DEF WorkerInv, WorkerParts
<1>3. QED
  BY <1>1, <1>2, PTL DEF Spec

\* A ready worker serves the admitted leg, with its audio, whatever the room did during
\* the awaits of start_authorized().
THEOREM ReadyServesLeg == Spec => []ServesAdmittedLeg
<1>1. TypeOK /\ WorkerInv => ServesAdmittedLeg
  BY DEF TypeOK, WorkerInv, OvertakenIsCancelled, StartupFollowsLeg, AdmissionInv, LegChangeAborts,
         LostAudioAborts, AudioFollowsLeg, ServesAdmittedLeg
<1>2. QED
  BY <1>1, WorkerIsInvariant, PTL

\* That leg is the one the credentials were consumed for (authorized_profile).
THEOREM ReadyServesRedeemedLeg == Spec => []ServesRedeemedLeg
<1>1. TypeOK /\ WorkerInv => ServesRedeemedLeg
  BY DEF TypeOK, WorkerInv, OvertakenIsCancelled, StartupFollowsLeg, AnswerFollowsRequest,
         ServesRedeemedLeg
<1>2. QED
  BY <1>1, WorkerIsInvariant, PTL

\* Ordinary turns happen only while nothing has overtaken the call (activate, abort,
\* takeover, transfer, cleanup).
THEOREM TurnsAreServed == Spec => []TurnsOnlyWhenServing
BY WorkerIsInvariant, PTL DEF WorkerInv

\* authorize() makes one attempt: consumed credentials are never presented again.
THEOREM CredentialsNeverReplayed == Spec => NeverReplayed
<1>1. TypeOK /\ WorkerInv /\ [Next]_vars => [redeemed # NoLeg => requests' = requests]_bootVars
  <2> SUFFICES ASSUME TypeOK, WorkerInv, [Next]_vars, redeemed # NoLeg
               PROVE  requests' = requests
    OBVIOUS
  <2>1. call # "none"
    BY DEF WorkerInv, AnswerFollowsRequest
  <2>2. ~AwaitLeg \/ UNCHANGED bootVars
    BY <2>1 DEF AwaitLeg, Request
  <2>3. QED
    BY <2>2 DEF Next, Startup, ControlPacket, Ending, vars, bootVars, Idle, Room, Connect, Redemption,
         Redeem, Authorize, ReadAnswer, SessionStarted, AwaitAudio, GoLive, StartupFails,
         AnswerFails, CancelStartup, StartupCancelled, HumanAnswered, TransferRequested,
         TransferFailed, SessionLost, LeaveAfterTakeover, SdkCleanup, StartupGathered, EndCleanup,
         StartupReturns, CleanupReturns, Disconnect
<1>2. QED
  BY <1>1, WorkerIsInvariant, PTL DEF NeverReplayed, Spec

-----------------------------------------------------------------------------
\* Refinement of Call.

\* Steps that neither authorize the call nor make it live: each thing they do goes one
\* way, and nothing happens to the startup, the room or a takeover once cleanup() is done.
OneWay ==
  /\ (call' = "authorized") = (call = "authorized")
  /\ stage' = stage \/ (stage \in Awaits /\ stage' \in Awaits \cup {"ended"})
  /\ aborted => aborted'
  /\ stopping => stopping'
  /\ roomLeft => roomLeft'
  /\ cleanup = "no" => cleanup' # "done"
  /\ cleanup # "no" => cleanup' # "no"
  /\ cleanup = "done" => UNCHANGED <<stage, aborted, stopping, cleanup>>

LEMMA StartupIsOneWay ==
  ASSUME TypeOK, WorkerInv, Startup \/ StartupCancelled, ~Authorize, ~GoLive
  PROVE  OneWay
<1> USE DEF OneWay, Awaits, Resumes, Quiet, admissionVars, workerVars, bootVars, controlVars,
            WorkerInv, OvertakenIsCancelled, StartupDone, TypeOK
<1>1. CASE Connect
  BY <1>1 DEF Connect, CallWait
<1>2. CASE AwaitLeg
  BY <1>2 DEF AwaitLeg, Admit, Request
<1>3. CASE Redemption
  BY <1>3 DEF Redemption, Redeem
<1>4. CASE SessionStarted
  BY <1>4 DEF SessionStarted, CallSubscribe
<1>5. CASE AwaitAudio
  BY <1>5, PollAudioInv DEF AwaitAudio
<1>6. CASE StartupFails \/ StartupCancelled
  BY <1>6 DEF StartupFails, StartupCancelled, AnswerFails
<1>7. QED
  BY <1>1, <1>2, <1>3, <1>4, <1>5, <1>6 DEF Startup

LEMMA OthersAreOneWay ==
  ASSUME TypeOK, WorkerInv, [Next]_vars, ~(Startup \/ StartupCancelled)
  PROVE  OneWay
<1> USE DEF OneWay, Idle, admissionVars, workerVars, bootVars, controlVars, CallOpen, StartupDone,
            WorkerInv, OvertakenIsCancelled, TypeOK
<1>1. CASE Room
  BY <1>1, RoomEventInv DEF Room
<1>2. CASE SessionLost
  BY <1>2 DEF SessionLost
<1>3. CASE CancelStartup
  BY <1>3 DEF CancelStartup
<1>4. CASE HumanAnswered
  BY <1>4 DEF HumanAnswered
<1>5. CASE TransferRequested \/ TransferFailed
  BY <1>5 DEF TransferRequested, TransferFailed
<1>6. CASE LeaveAfterTakeover
  BY <1>6 DEF LeaveAfterTakeover
<1>7. CASE SdkCleanup
  BY <1>7 DEF SdkCleanup, StartCleanup
<1>8. CASE StartupReturns
  BY <1>8 DEF StartupReturns, StartCleanup, AdmissionTypeOK
<1>9. CASE StartupGathered \/ EndCleanup \/ CleanupReturns \/ Disconnect
  BY <1>9 DEF StartupGathered, EndCleanup, CleanupReturns, Disconnect
<1>10. CASE UNCHANGED vars
  BY <1>10 DEF vars
<1>11. QED
  BY <1>1, <1>2, <1>3, <1>4, <1>5, <1>6, <1>7, <1>8, <1>9, <1>10
     DEF Next, ControlPacket, Ending

\* Nobody is talked to in another phase than "serving".
LEMMA SilentUnlessServing ==
  ASSUME TypeOK, WorkerInv
  PROVE  turnsOn \in BOOLEAN /\ (phase # "serving" => turnsOn = FALSE)
BY DEF TypeOK, WorkerInv, TurnsOnlyWhenServing, OvertakenIsCancelled, phase, CallOpen,
       StartupDone, Awaits

LEMMA OneWayRefines ==
  ASSUME TypeOK, WorkerInv, OneWay, turnsOn' \in BOOLEAN, phase' # "serving" => turnsOn' = FALSE
  PROVE  [Promise!Next]_Promise!callVars
<1> USE DEF Promise!Next, Promise!callVars, OneWay
<1>0. turnsOn \in BOOLEAN /\ (phase # "serving" => turnsOn = FALSE)
  BY SilentUnlessServing
<1>1. CASE phase = "starting"
  <2>1. phase' \in {"starting", "ending"}
    BY <1>1 DEF phase, CallOpen, StartupDone, Awaits, TypeOK
  <2>2. QED
    BY <1>0, <1>1, <2>1 DEF Promise!End
<1>2. CASE phase = "serving"
  <2>1. phase' \in {"serving", "ending"}
    BY <1>2 DEF phase, CallOpen, StartupDone, Awaits, TypeOK
  <2>2. QED
    BY <1>0, <1>2, <2>1 DEF Promise!End, Promise!SuspendOrResume
<1>3. CASE phase = "ending"
  <2>1. phase' \in {"ending", "released"}
    BY <1>3 DEF phase, CallOpen, StartupDone, Awaits, TypeOK
  <2>2. QED
    BY <1>0, <1>3, <2>1 DEF Promise!Release
<1>4. CASE phase = "released"
  <2>1. phase' = "released"
    BY <1>4 DEF phase, CallOpen, StartupDone, Awaits, TypeOK, WorkerInv, OvertakenIsCancelled
  <2>2. QED
    BY <1>0, <1>4, <2>1
<1>5. QED
  BY <1>1, <1>2, <1>3, <1>4 DEF phase

LEMMA AuthorizeRefines ==
  ASSUME TypeOK, WorkerInv, Authorize
  PROVE  Promise!Authorize \/ Promise!End
<1> USE DEF phase, CallOpen, StartupDone, Awaits, Resumes, Authorize
<1>1. /\ UNCHANGED <<aborted, stopping, cleanup, turnsOn>> /\ stage = "bootstrap"
      /\ ~aborted /\ ~stopping /\ cleanup = "no" /\ call # "authorized"
  BY DEF ReadAnswer, admissionVars, controlVars, Quiet, WorkerInv, OvertakenIsCancelled
<1>2. phase = "starting" /\ turnsOn = FALSE
  BY <1>1, SilentUnlessServing
<1>3. Valid
  BY <1>1 DEF WorkerInv, AdmissionInv, LegChangeAborts, StartupFollowsLeg, AudioFollowsLeg,
     OvertakenIsCancelled
<1>4. CASE call' = "authorized"
  BY <1>1, <1>2, <1>3, <1>4 DEF Promise!Authorize
<1>5. CASE call' # "authorized"
  BY <1>1, <1>2, <1>5 DEF Promise!End
<1>6. QED
  BY <1>4, <1>5

LEMMA GoLiveRefines ==
  ASSUME TypeOK, WorkerInv, GoLive
  PROVE  Promise!Serve
<1> USE DEF phase, CallOpen, StartupDone, Awaits, Resumes, GoLive
<1>1. /\ UNCHANGED <<aborted, stopping, cleanup, call>> /\ stage = "readiness-publish"
      /\ ~aborted /\ ~stopping /\ cleanup = "no" /\ call = "authorized"
  BY DEF admissionVars, bootVars, WorkerInv, OvertakenIsCancelled, StartupFollowsLeg
<1>2. Valid
  BY <1>1 DEF WorkerInv, AdmissionInv, LegChangeAborts, StartupFollowsLeg, AudioFollowsLeg,
     OvertakenIsCancelled
<1>3. turnsOn' \in BOOLEAN
  BY <1>2
<1>4. QED
  BY <1>1, <1>2, <1>3 DEF Promise!Serve

\* README "the job fails closed": through every overtaken await the job authorizes once,
\* serves only what it authorized, ends silent and stays ended (the safety part of Call).
THEOREM WorkerRefinesCall == Spec => Promise!Safety
<1>1. Init => Promise!Init
  BY DEF Init, AdmissionInit, BootstrapInit, Promise!Init, phase, StartupDone, Awaits, CallOpen
<1>2. /\ TypeOK /\ WorkerInv /\ TypeOK' /\ WorkerInv' /\ [Next]_vars
      => [Promise!Next]_Promise!callVars
  <2> SUFFICES ASSUME TypeOK, WorkerInv, TypeOK', WorkerInv', [Next]_vars
               PROVE  [Promise!Next]_Promise!callVars
    OBVIOUS
  <2>1. CASE Authorize
    BY <2>1, AuthorizeRefines DEF Promise!Next
  <2>2. CASE GoLive
    BY <2>2, GoLiveRefines DEF Promise!Next
  <2>3. CASE ~Authorize /\ ~GoLive
    <3>1. OneWay
      BY <2>3, StartupIsOneWay, OthersAreOneWay
    <3>2. turnsOn' \in BOOLEAN /\ (phase' # "serving" => turnsOn' = FALSE)
      BY DEF TypeOK, WorkerInv, TurnsOnlyWhenServing, OvertakenIsCancelled, phase, CallOpen,
             StartupDone, Awaits
    <3>3. QED
      BY <3>1, <3>2, OneWayRefines
  <2>4. QED
    BY <2>1, <2>2, <2>3
<1>3. QED
  BY <1>1, <1>2, WorkerIsInvariant, PTL DEF Spec, Promise!Safety
=============================================================================
