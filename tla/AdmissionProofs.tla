--------------------------- MODULE AdmissionProofs ---------------------------
(***************************************************************************)
(* Theorems about Admission, for any participants, tokens and              *)
(* publications.  The lemmas are about single actions, so that Worker,     *)
(* which takes them together with steps of its own, can use them too.      *)
(***************************************************************************)
EXTENDS Admission, TLAPS

\* Room events keep the types.
LEMMA RoomEventType ==
  ASSUME AdmissionTypeOK, RoomEvent
  PROVE  AdmissionTypeOK'
<1> USE DEF AdmissionTypeOK, legVars
<1>1. ASSUME NEW s \in Sid, Join(s) PROVE AdmissionTypeOK'
  BY <1>1 DEF Join, NoteChange, ValidIn
<1>2. ASSUME NEW s \in Sid, SetToken(s) PROVE AdmissionTypeOK'
  BY <1>2 DEF SetToken, NoteChange, ValidIn
<1>3. ASSUME NEW s \in Sid, Leave(s) PROVE AdmissionTypeOK'
  BY <1>3 DEF Leave, ValidIn
<1>4. ASSUME NEW s \in Sid \cup Other, NEW p \in Pub, Publish(s, p) PROVE AdmissionTypeOK'
  BY <1>4 DEF Publish, Subscribe, Valid, ValidIn
<1>5. ASSUME NEW p \in Pub, Subscribed(p) PROVE AdmissionTypeOK'
  BY <1>5 DEF Subscribed, Bound
<1>6. ASSUME NEW p \in Pub, SubscriptionFailed(p) PROVE AdmissionTypeOK'
  BY <1>6 DEF SubscriptionFailed, roomVars, Bound
<1>7. ASSUME NEW p \in Pub, Unpublish(p) PROVE AdmissionTypeOK'
  BY <1>7 DEF Unpublish, Bound
<1>8. CASE RoomDisconnected
  BY <1>8 DEF RoomDisconnected, roomVars
<1>9. QED
  BY <1>1, <1>2, <1>3, <1>4, <1>5, <1>6, <1>7, <1>8 DEF RoomEvent

\* So do the passes of wait() and subscribe_audio().
LEMMA StartupStepType ==
  ASSUME AdmissionTypeOK, StartupStep
  PROVE  AdmissionTypeOK'
<1> USE DEF AdmissionTypeOK, roomVars
<1>1. CASE CallWait
  BY <1>1 DEF CallWait
<1>2. CASE Admit
  <2>1. leg' \in [sid : Sid, token : Token] \cup {Nobody}
    BY <1>2 DEF Admit
  <2>2. legPC' \in {"raised", "admitted", legPC}
    BY <1>2 DEF Admit
  <2>3. QED
    BY <1>2, <2>1, <2>2 DEF Admit
<1>3. CASE CallSubscribe
  BY <1>3 DEF CallSubscribe
<1>4. CASE PollAudio
  BY <1>4 DEF PollAudio, Unrequested, BoundAudio
<1>5. QED
  BY <1>1, <1>2, <1>3, <1>4 DEF StartupStep

\* close() does not decide about `aborted`.
LEMMA TurnOffType ==
  ASSUME AdmissionTypeOK, TurnOff, aborted' \in BOOLEAN
  PROVE  AdmissionTypeOK'
BY DEF AdmissionTypeOK, TurnOff, legVars

-----------------------------------------------------------------------------
LEMMA AdmissionInitially == AdmissionInit => AdmissionTypeOK /\ AdmissionInv
BY DEF AdmissionInit, AdmissionTypeOK, AdmissionInv, LegChangeAborts, OnlyLegAudioRequested,
       LostAudioAborts, AudioFollowsLeg

\* An event of the room: whatever it changes about the leg or its audio aborts the call.
LEMMA RoomEventInv ==
  ASSUME AdmissionTypeOK, AdmissionInv, RoomEvent
  PROVE  AdmissionInv' /\ UNCHANGED <<leg, legPC, authorized, connected, closed>>
         /\ (aborted => aborted')
<1> USE DEF AdmissionTypeOK, AdmissionInv, LegChangeAborts, OnlyLegAudioRequested,
            LostAudioAborts, AudioFollowsLeg, legVars, Valid, ValidIn, Bound, BoundAudio
<1> DEFINE Goal == AdmissionInv' /\ UNCHANGED <<leg, legPC, authorized, connected, closed>>
                   /\ (aborted => aborted')
<1>1. ASSUME NEW s \in Sid, Join(s) PROVE Goal
  BY <1>1 DEF Join, NoteChange
<1>2. ASSUME NEW s \in Sid, SetToken(s) PROVE Goal
  BY <1>2 DEF SetToken, NoteChange
<1>3. ASSUME NEW s \in Sid, Leave(s) PROVE Goal
  <2>1. UNCHANGED <<leg, legPC, authorized, connected, closed, owner, requested>>
        /\ (aborted => aborted')
    BY <1>3 DEF Leave
  <2>2. LegChangeAborts'
    BY <1>3 DEF Leave
  <2>3. OnlyLegAudioRequested'
    BY <2>1
  <2>4. LostAudioAborts'
    <3>1. SUFFICES ASSUME connected, ~closed, ~aborted' PROVE BoundAudio'
      BY <2>1
    <3>2. PICK p \in Pub : Bound(p) /\ track[p] = "subscribed"
      BY <3>1, <2>1
    <3>3. owner[p] # s
      BY <1>3, <3>1, <3>2 DEF Leave
    <3>4. track'[p] = "subscribed"
      BY <1>3, <3>2, <3>3 DEF Leave
    <3>5. QED
      BY <3>2, <3>4, <2>1
  <2>5. AudioFollowsLeg'
    BY <1>3, <2>1 DEF Leave
  <2>6. QED
    BY <2>1, <2>2, <2>3, <2>4, <2>5
<1>4. ASSUME NEW s \in Sid \cup Other, NEW p \in Pub, Publish(s, p) PROVE Goal
  <2>1. UNCHANGED <<roster, token, leg, legPC, authorized, connected, closed>>
        /\ (aborted => aborted')
    BY <1>4 DEF Publish, Subscribe
  <2>2. /\ \A q \in Pub \ {p} : owner'[q] = owner[q] /\ track'[q] = track[q]
        /\ p \notin requested /\ track[p] = "new" /\ track'[p] = "published"
    BY <1>4 DEF Publish
  <2>3. LegChangeAborts'
    BY <1>4, <2>1
  <2>4. OnlyLegAudioRequested'
    <3>1. ASSUME NEW q \in requested' PROVE q \in requested \/ (q = p /\ authorized /\ Bound(p)')
      BY <1>4, <2>1, <3>1 DEF Publish, Subscribe
    <3>2. ASSUME NEW q \in requested PROVE authorized' /\ Bound(q)'
      <4>1. q # p /\ q \in Pub /\ authorized /\ Bound(q)
        BY <2>2
      <4>2. QED
        BY <4>1, <2>1, <2>2
    <3>3. QED
      BY <3>1, <3>2, <2>1
  <2>5. LostAudioAborts'
    BY <2>1, <2>2
  <2>6. AudioFollowsLeg'
    <3>1. ASSUME NEW q \in requested' PROVE q \in requested \cup {p}
      BY <1>4, <3>1 DEF Publish, Subscribe
    <3>2. ASSUME NEW q \in requested' PROVE track'[q] # "new"
      BY <3>1, <2>2
    <3>3. QED
      BY <3>2, <2>1
  <2>7. QED
    BY <2>1, <2>3, <2>4, <2>5, <2>6
<1>5. ASSUME NEW p \in Pub, Subscribed(p) PROVE Goal
  BY <1>5 DEF Subscribed
<1>6. ASSUME NEW p \in Pub, SubscriptionFailed(p) PROVE Goal
  BY <1>6 DEF SubscriptionFailed, roomVars
<1>7. ASSUME NEW p \in Pub, Unpublish(p) PROVE Goal
  BY <1>7 DEF Unpublish
<1>8. CASE RoomDisconnected
  BY <1>8 DEF RoomDisconnected, roomVars
<1>9. QED
  BY <1>1, <1>2, <1>3, <1>4, <1>5, <1>6, <1>7, <1>8 DEF RoomEvent

LEMMA CallWaitInv ==
  ASSUME AdmissionInv, CallWait
  PROVE  AdmissionInv'
BY DEF AdmissionInv, LegChangeAborts, OnlyLegAudioRequested, LostAudioAborts, AudioFollowsLeg,
       CallWait, roomVars, Valid, ValidIn, Bound, BoundAudio

LEMMA AdmitInv ==
  ASSUME AdmissionTypeOK, AdmissionInv, Admit
  PROVE  AdmissionInv'
<1> USE DEF AdmissionInv, LegChangeAborts, OnlyLegAudioRequested, LostAudioAborts,
            AudioFollowsLeg, roomVars, Valid, ValidIn, Bound, BoundAudio
<1>1. ~authorized /\ ~connected /\ requested = {} /\ leg = Nobody
  BY DEF Admit, AdmissionTypeOK
<1>2. UNCHANGED <<roster, token, owner, track, authorized, requested, connected, closed, aborted>>
  BY DEF Admit
<1>3. \/ UNCHANGED leg /\ legPC' \in {"waiting", "raised"}
      \/ \E s \in Sid : /\ roster = {s} /\ leg' = [sid |-> s, token |-> token[s]]
                        /\ leg' # Nobody /\ legPC' = "admitted"
  <2>1. ASSUME NEW s \in Sid, leg' = [sid |-> s, token |-> token[s]], token[s] # NoToken
        PROVE  leg' # Nobody
    <3>1. leg' \in [sid : Sid, token : Token]
      BY <2>1 DEF AdmissionTypeOK
    <3>2. QED
      BY <3>1, NobodyAssumption
  <2>2. QED
    BY <2>1 DEF Admit
<1>4. LegChangeAborts'
  BY <1>1, <1>2, <1>3
<1>5. AudioFollowsLeg'
  BY <1>1, <1>2, <1>3
<1>6. QED
  BY <1>1, <1>2, <1>4, <1>5

LEMMA CallSubscribeInv ==
  ASSUME AdmissionInv, CallSubscribe
  PROVE  AdmissionInv'
BY DEF AdmissionInv, LegChangeAborts, OnlyLegAudioRequested, LostAudioAborts, AudioFollowsLeg,
       CallSubscribe, roomVars, Valid, ValidIn, Bound, BoundAudio

\* A pass of subscribe_audio() returns only with the leg's audio.
LEMMA PollAudioInv ==
  ASSUME AdmissionTypeOK, AdmissionInv, PollAudio
  PROVE  AdmissionInv' /\ (aborted => aborted')
<1> USE DEF AdmissionTypeOK, AdmissionInv, LegChangeAborts, OnlyLegAudioRequested, LostAudioAborts,
            AudioFollowsLeg, roomVars, Valid, ValidIn, Bound, BoundAudio
<1>1. UNCHANGED <<roster, token, owner, track, leg, authorized, closed>> /\ (aborted => aborted')
  BY DEF PollAudio
<1>2. /\ authorized /\ leg # Nobody
      /\ legPC' \in {"subscribing", "connected", "raised"}
      /\ connected' <=> legPC' = "connected"
  BY DEF PollAudio
<1>3. \A p \in requested' : Bound(p) /\ track[p] # "new"
  BY <1>2 DEF PollAudio, Unrequested
<1>4. OnlyLegAudioRequested' /\ AudioFollowsLeg'
  BY <1>1, <1>2, <1>3
<1>5. LegChangeAborts'
  BY <1>1
<1>6. LostAudioAborts'
  BY <1>1 DEF PollAudio
<1>7. QED
  BY <1>1, <1>4, <1>5, <1>6

\* After close() nothing is promised of the room, and nothing more is asked of it.
LEMMA TurnOffInv ==
  ASSUME AdmissionTypeOK, AdmissionInv, TurnOff
  PROVE  AdmissionInv'
BY DEF AdmissionTypeOK, AdmissionInv, LegChangeAborts, OnlyLegAudioRequested, LostAudioAborts,
       AudioFollowsLeg, TurnOff, legVars, Bound
-----------------------------------------------------------------------------
\* The invariants of SipAdmission, for every room and every order of its events.
THEOREM AdmissionIsInvariant == AdmissionSpec => [](AdmissionTypeOK /\ AdmissionInv)
<1>1. AdmissionInit => AdmissionTypeOK /\ AdmissionInv
  BY AdmissionInitially
<1>2. AdmissionTypeOK /\ AdmissionInv /\ [AdmissionNext]_admissionVars
      => AdmissionTypeOK' /\ AdmissionInv'
  <2> SUFFICES ASSUME AdmissionTypeOK, AdmissionInv, [AdmissionNext]_admissionVars
               PROVE  AdmissionTypeOK' /\ AdmissionInv'
    OBVIOUS
  <2>1. CASE RoomEvent
    BY <2>1, RoomEventType, RoomEventInv
  <2>2. CASE StartupStep
    <3>1. AdmissionTypeOK'
      BY <2>2, StartupStepType
    <3>2. AdmissionInv'
      BY <2>2, CallWaitInv, AdmitInv, CallSubscribeInv, PollAudioInv DEF StartupStep
    <3>3. QED
      BY <3>1, <3>2
  <2>3. CASE Close
    <3>1. aborted' \in BOOLEAN
      BY <2>3 DEF Close, AdmissionTypeOK
    <3>2. QED
      BY <2>3, <3>1, TurnOffType, TurnOffInv DEF Close
  <2>4. CASE UNCHANGED admissionVars
    BY <2>4 DEF admissionVars, roomVars, legVars, AdmissionTypeOK, AdmissionInv, LegChangeAborts,
         OnlyLegAudioRequested, LostAudioAborts, AudioFollowsLeg, Valid, ValidIn, Bound, BoundAudio
  <2>5. QED
    BY <2>1, <2>2, <2>3, <2>4 DEF AdmissionNext
<1>3. QED
  BY <1>1, <1>2, PTL DEF AdmissionSpec

\* Whatever happens to the leg after its admission ends the call (_changed, _disconnected).
THEOREM LegChangeAlwaysAborts == AdmissionSpec => []LegChangeAborts
BY AdmissionIsInvariant, PTL DEF AdmissionInv

\* Audio of nobody but the admitted and authorized participant is requested
\* (_track_published, subscribe_audio).
THEOREM OnlyLegIsHeard == AdmissionSpec => []OnlyLegAudioRequested
BY AdmissionIsInvariant, PTL DEF AdmissionInv

\* A call whose audio went away after subscribe_audio() returned is aborted
\* (_track_unsubscribed, _disconnected).
THEOREM LostAudioAlwaysAborts == AdmissionSpec => []LostAudioAborts
BY AdmissionIsInvariant, PTL DEF AdmissionInv
=============================================================================
