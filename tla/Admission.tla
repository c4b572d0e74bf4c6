----------------------------- MODULE Admission -----------------------------
(***************************************************************************)
(* SipAdmission (admission.py): which SIP participant the job serves, and  *)
(* the only audio it subscribes to.  The room calls the handlers; the      *)
(* startup task awaits wait() and then subscribe_audio(), both loops that  *)
(* sleep on the asyncio.Event `changed`.  Handlers and loop passes are     *)
(* steps, since all of them run on the job's asyncio thread.               *)
(*                                                                         *)
(* Participants that are not SIP only matter as publishers; a publication  *)
(* that is not microphone audio is ignored by the code and not modelled.   *)
(* A participant is its sid, which the server never gives to two           *)
(* identities.                                                             *)
(***************************************************************************)
EXTENDS Integers, FiniteSets

CONSTANTS
  Sid,       \* SIP participants
  Other,     \* other participants: handset, observers
  Token,     \* values of the route token attribute
  NoToken,   \* the attribute is missing
  Pub,       \* microphone publications that may occur (a bound)
  Nobody     \* no participant

ASSUME NoTokenAssumption == NoToken \notin Token
ASSUME NobodyAssumption == Nobody \notin Sid \cup Other \cup [sid : Sid, token : Token]
ASSUME OtherAssumption == Sid \cap Other = {}

VARIABLES
  roster,      \* SIP participants in room.remote_participants
  token,       \* their route token attribute
  owner, track,  \* publisher of each publication; its progress
  changed,     \* the asyncio.Event
  leg,         \* self.leg: [sid, token], or Nobody
  legPC,       \* progress of wait() and subscribe_audio()
  authorized, requested, connected,  \* _audio_authorized, _requested, _connected
  closed,
  aborted      \* the abort callback was called

roomVars == <<roster, token, owner, track>>
legVars == <<leg, legPC, authorized, connected>>
admissionVars == <<roomVars, legVars, changed, requested, closed, aborted>>

\* validate() against a view of the room's participants.
ValidIn(participants, tokens) ==
  /\ ~closed /\ leg # Nobody
  /\ participants = {leg.sid}
  /\ tokens[leg.sid] = leg.token

Valid == ValidIn(roster, token)

\* _bound_audio
Bound(p) == leg # Nobody /\ owner[p] = leg.sid

BoundAudio == \E p \in Pub : Bound(p) /\ track[p] = "subscribed"

-----------------------------------------------------------------------------
\* Room events.  After close() the handlers are off.

\* Mutant: a change is not validated against the admitted leg.
NoteOnly(participants, tokens) ==
  /\ changed' = (changed \/ ~closed)
  /\ UNCHANGED aborted

\* Mutant: the event is not set.
NoteSilently(participants, tokens) ==
  /\ UNCHANGED changed
  /\ aborted' = (aborted \/ (~closed /\ leg # Nobody /\ ~ValidIn(participants, tokens)))

\* _changed
NoteChange(participants, tokens) ==
  /\ changed' = (changed \/ ~closed)
  /\ aborted' = (aborted \/ (~closed /\ leg # Nobody /\ ~ValidIn(participants, tokens)))

Join(s) ==
  /\ s \notin roster
  /\ roster' = roster \cup {s}
  /\ \E k \in Token \cup {NoToken} : token' = [token EXCEPT ![s] = k]
  /\ NoteChange(roster', token')
  /\ UNCHANGED <<owner, track, legVars, requested, closed>>

SetToken(s) ==
  /\ s \in roster
  /\ \E k \in Token : token' = [token EXCEPT ![s] = k]
  /\ NoteChange(roster, token')
  /\ UNCHANGED <<roster, owner, track, legVars, requested, closed>>

\* _disconnected, called before or after the SDK drops s from its map.
Leave(s) ==
  /\ s \in roster
  /\ roster' = roster \ {s}
  /\ track' = [p \in Pub |-> IF owner[p] = s THEN "ended" ELSE track[p]]
  /\ changed' = (changed \/ ~closed)
  /\ \E view \in {roster, roster'} :
       aborted' = (aborted \/ (~closed /\ leg # Nobody /\ (leg.sid = s \/ ~ValidIn(view, token))))
  /\ UNCHANGED <<token, owner, legVars, requested, closed>>

\* Mutant: audio is requested from whoever publishes it.
SubscribeAnyone(p) ==
  IF closed \/ ~authorized
  THEN UNCHANGED <<changed, requested, aborted>>
  ELSE /\ changed' = TRUE
       /\ requested' = IF Valid THEN requested \cup {p} ELSE requested
       /\ aborted' = (aborted \/ ~Valid)

\* _track_published for one publication; set_subscribed may fail.
Subscribe(p) ==
  IF closed \/ ~authorized
  THEN UNCHANGED <<changed, requested, aborted>>
  ELSE /\ changed' = TRUE
       /\ requested' = IF Valid /\ owner'[p] = leg.sid THEN requested \cup {p} ELSE requested
       /\ \E fails \in IF requested' = requested THEN {FALSE} ELSE BOOLEAN :
            aborted' = (aborted \/ ~Valid \/ fails)

Publish(s, p) ==
  /\ s \in roster \cup Other /\ track[p] = "new"
  /\ owner' = [owner EXCEPT ![p] = s]
  /\ track' = [track EXCEPT ![p] = "published"]
  /\ Subscribe(p)
  /\ UNCHANGED <<roster, token, legVars, closed>>

\* Mutant: the event is not set when the audio arrives.
SubscribedUnnoticed(p) ==
  /\ track[p] = "published" /\ p \in requested /\ ~closed
  /\ track' = [track EXCEPT ![p] = "subscribed"]
  /\ UNCHANGED <<roster, token, owner, legVars, changed, requested, closed, aborted>>

\* The requested audio arrives: _track_subscribed.
Subscribed(p) ==
  /\ track[p] = "published" /\ p \in requested /\ ~closed
  /\ track' = [track EXCEPT ![p] = "subscribed"]
  /\ changed' = (changed \/ Bound(p))
  /\ UNCHANGED <<roster, token, owner, legVars, requested, closed, aborted>>

\* _track_subscription_failed
SubscriptionFailed(p) ==
  /\ track[p] = "published" /\ p \in requested /\ ~closed
  /\ aborted' = (aborted \/ Bound(p))
  /\ UNCHANGED <<roomVars, legVars, changed, requested, closed>>

\* Mutant: the end of the leg's audio is ignored.
UnpublishIgnored(p) ==
  /\ track[p] \in {"published", "subscribed"}
  /\ track' = [track EXCEPT ![p] = "ended"]
  /\ UNCHANGED <<roster, token, owner, legVars, changed, requested, closed, aborted>>

\* A publication ends; _track_unsubscribed if it was subscribed.
Unpublish(p) ==
  /\ track[p] \in {"published", "subscribed"}
  /\ track' = [track EXCEPT ![p] = "ended"]
  /\ aborted' = (aborted \/ (track[p] = "subscribed" /\ ~closed /\ connected /\ Bound(p)))
  /\ UNCHANGED <<roster, token, owner, legVars, changed, requested, closed>>

\* _room_disconnected
RoomDisconnected ==
  /\ ~closed
  /\ aborted' = TRUE
  /\ UNCHANGED <<roomVars, legVars, changed, requested, closed>>

RoomEvent ==
  \/ \E s \in Sid : Join(s) \/ SetToken(s) \/ Leave(s)
  \/ \E s \in Sid \cup Other, p \in Pub : Publish(s, p)
  \/ \E p \in Pub : Subscribed(p) \/ SubscriptionFailed(p) \/ Unpublish(p)
  \/ RoomDisconnected

-----------------------------------------------------------------------------
\* The startup task.  A call sets `changed`, since the first pass does not sleep.

CallWait ==
  /\ legPC = "idle"
  /\ legPC' = "waiting" /\ changed' = TRUE
  /\ UNCHANGED <<roomVars, leg, authorized, requested, connected, closed, aborted>>

\* Mutant: the leg is admitted before its route token arrived.
AdmitEarly ==
  /\ legPC = "waiting" /\ changed
  /\ changed' = FALSE
  /\ \E s \in Sid :
       /\ roster = {s}
       /\ leg' = [sid |-> s, token |-> token[s]]
       /\ legPC' = "admitted"
  /\ UNCHANGED <<roomVars, authorized, requested, connected, closed, aborted>>

\* One pass of the loop in wait().
Admit ==
  /\ legPC = "waiting" /\ changed
  /\ changed' = FALSE
  /\ \/ /\ Cardinality(roster) > 1
        /\ legPC' = "raised" /\ UNCHANGED leg
     \/ \E s \in Sid :
          /\ roster = {s} /\ token[s] # NoToken
          /\ leg' = [sid |-> s, token |-> token[s]]
          /\ legPC' = "admitted"
     \/ /\ roster = {} \/ (\E s \in Sid : roster = {s} /\ token[s] = NoToken)
        /\ UNCHANGED <<leg, legPC>>
  /\ UNCHANGED <<roomVars, authorized, requested, connected, closed, aborted>>

CallSubscribe ==
  /\ legPC = "admitted"
  /\ IF Valid
     THEN legPC' = "subscribing" /\ authorized' = TRUE /\ changed' = TRUE
     ELSE legPC' = "raised" /\ UNCHANGED <<authorized, changed>>
  /\ UNCHANGED <<roomVars, leg, requested, connected, closed, aborted>>

\* Publications of the leg that its loop still has to ask for.
Unrequested == {p \in Pub : Bound(p) /\ track[p] = "published"} \ requested

\* One pass of the loop in subscribe_audio().
PollAudio ==
  /\ legPC = "subscribing" /\ changed
  /\ changed' = FALSE
  /\ IF Valid
     THEN /\ legPC' = IF BoundAudio THEN "connected" ELSE legPC
          /\ connected' = (connected \/ BoundAudio)
          /\ requested' = requested \cup Unrequested
          /\ \E fails \in IF Unrequested = {} THEN {FALSE} ELSE BOOLEAN :
               aborted' = (aborted \/ fails)
     ELSE legPC' = "raised" /\ UNCHANGED <<connected, requested, aborted>>
  /\ UNCHANGED <<roomVars, leg, authorized, closed>>

\* close(), whoever calls it; the abort callback is not called.
TurnOff ==
  /\ ~closed
  /\ closed' = TRUE /\ changed' = TRUE
  /\ track' = [p \in Pub |-> IF p \in requested /\ track[p] = "subscribed"
                            THEN "published" ELSE track[p]]
  /\ UNCHANGED <<roster, token, owner, legVars, requested>>

Close == TurnOff /\ UNCHANGED aborted

AdmissionInit ==
  /\ roster = {} /\ token = [s \in Sid |-> NoToken]
  /\ owner = [p \in Pub |-> Nobody] /\ track = [p \in Pub |-> "new"]
  /\ leg = Nobody /\ legPC = "idle"
  /\ changed = FALSE /\ closed = FALSE /\ aborted = FALSE
  /\ authorized = FALSE /\ requested = {} /\ connected = FALSE

StartupStep == CallWait \/ Admit \/ CallSubscribe \/ PollAudio

AdmissionNext == RoomEvent \/ StartupStep \/ Close

AdmissionSpec == AdmissionInit /\ [][AdmissionNext]_admissionVars

\* The loop resumes a task whose event was set.
FairAdmission == AdmissionSpec /\ WF_admissionVars(Admit) /\ WF_admissionVars(PollAudio)

-----------------------------------------------------------------------------
\* Type invariant of SipAdmission and of the room it observes.
AdmissionTypeOK ==
  /\ roster \subseteq Sid
  /\ token \in [Sid -> Token \cup {NoToken}]
  /\ owner \in [Pub -> Sid \cup Other \cup {Nobody}]
  /\ track \in [Pub -> {"new", "published", "subscribed", "ended"}]
  /\ leg \in [sid : Sid, token : Token] \cup {Nobody}
  /\ legPC \in {"idle", "waiting", "admitted", "subscribing", "connected", "raised"}
  /\ requested \subseteq Pub
  /\ {changed, authorized, connected, closed, aborted} \subseteq BOOLEAN

\* _disconnected, _changed: once a leg is admitted, a departure, a second SIP
\* participant or a changed token always ends the call, before any other code runs.
LegChangeAborts == leg # Nobody /\ ~closed /\ ~Valid => aborted

\* "RoomIO selects tracks but does not subscribe": audio is requested only after
\* authorization and only from the admitted participant, whoever publishes when.
OnlyLegAudioRequested ==
  \A p \in requested : authorized /\ Bound(p)

\* "A live session without its authorized input must not remain ready": after
\* subscribe_audio() returned, the leg's audio is there or the call is aborted.
LostAudioAborts == connected /\ ~closed => BoundAudio \/ aborted

\* What the handlers rely on: wait() admits a leg before audio is authorized for it, the
\* loop is done when it is connected, and it asks only for publications that occurred.
AudioFollowsLeg ==
  /\ legPC \in {"idle", "waiting"} => leg = Nobody
  /\ legPC \in {"admitted", "subscribing", "connected"} => leg # Nobody
  /\ authorized => leg # Nobody /\ legPC \in {"subscribing", "connected", "raised"}
  /\ legPC \in {"subscribing", "connected"} => authorized
  /\ connected <=> legPC = "connected"
  /\ \A p \in requested : track[p] # "new"

\* The inductive invariant of SipAdmission.
AdmissionInv == LegChangeAborts /\ OnlyLegAudioRequested /\ LostAudioAborts /\ AudioFollowsLeg

SoleLeg == \E s \in Sid : roster = {s} /\ token[s] # NoToken

\* wait() loses no wake-up: a sole participant with a token, in whatever order it
\* joined and its attributes came, is admitted unless the room changes again.
\* (After close() it may sleep for ever: cleanup() cancels the startup task.)
SoleLegIsAdmitted ==
  (legPC = "waiting" /\ ~closed /\ SoleLeg) ~> (legPC # "waiting" \/ closed \/ ~SoleLeg)

\* subscribe_audio() clears `changed` twice per pass and still loses no wake-up.
AudioIsNoticed == (legPC = "subscribing" /\ BoundAudio) ~> (legPC # "subscribing" \/ ~BoundAudio)
=============================================================================
