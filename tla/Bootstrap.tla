----------------------------- MODULE Bootstrap -----------------------------
(***************************************************************************)
(* The authorization of a job (bootstrap.py): one request that presents    *)
(* the call's credentials together with the admitted SIP leg, and the      *)
(* answer, which must be bound to the same leg and scope and carry a       *)
(* profile of the contract.  The authority, OfficePulse, is external: it   *)
(* may bind another leg, answer late or never, and consume the credentials *)
(* although its answer is lost.                                            *)
(*                                                                         *)
(* A leg is its sid.  An answer is `inScope` when it and its profile name  *)
(* the call, room, instance and context of the dispatch.  Of a profile     *)
(* only the size matters here: `chars` characters of prompt that take      *)
(* `width` bytes each in UTF-8.                                            *)
(***************************************************************************)
EXTENDS Naturals

CONSTANTS
  Leg,      \* SIP legs
  NoLeg,
  Profile   \* profiles the authority may send: [chars : Nat, width : 1..4]

ASSUME NoLegAssumption == NoLeg \notin Leg
ASSUME ProfileAssumption == Profile \subseteq [chars : Nat, width : 1..4]

VARIABLES
  requests,  \* requests sent with the call's credentials
  named,     \* the leg they named
  redeemed,  \* the leg the authority bound when it consumed the credentials
  answer,    \* the answer on its way: empty, or one
  call       \* "none", "asked", "authorized", "refused" (by the checks), "failed"

bootVars == <<requests, named, redeemed, answer, call>>

MaxProfileBytes == 65536
MaxResponseBytes == MaxProfileBytes + 4096
MaxPrompt == 12000

\* Bytes of the profile's JSON but for the prompt, and of the rest of the answer.
ProfileFrame == 300
AnswerFrame == 300

ProfileBytes(p) == ProfileFrame + p.chars * p.width

\* json.dumps: a character outside ASCII becomes \uXXXX, beyond the BMP two of them.
EscapedBytes(p) ==
  ProfileFrame + p.chars * CASE p.width = 1 -> 1 [] p.width \in {2, 3} -> 6 [] p.width = 4 -> 12

\* strict_json of the response as it arrived.
Readable(p) == AnswerFrame + ProfileBytes(p) <= MaxResponseBytes

\* strict_json and the text limits in CallConfiguration.parse, which is given the
\* snapshot encoded again.
ParsesAsProfile(p) == EscapedBytes(p) <= MaxProfileBytes /\ p.chars \in 1..MaxPrompt

\* Mutant: the answer's leg is not compared with the admitted one.
AcceptsAnyLeg(a) == Readable(a.profile) /\ ParsesAsProfile(a.profile) /\ a.inScope

\* authorized_profile
Accepts(a) ==
  /\ Readable(a.profile)
  /\ a.leg = named
  /\ ParsesAsProfile(a.profile)
  /\ a.inScope

-----------------------------------------------------------------------------
\* authorize() up to its await.
Request(l) ==
  /\ call = "none"
  /\ call' = "asked" /\ named' = l /\ requests' = requests + 1
  /\ UNCHANGED <<redeemed, answer>>

\* The authority consumes the credentials, which it accepts once, binds a leg and answers.
Redeem ==
  /\ call = "asked" /\ redeemed = NoLeg
  /\ \E l \in Leg, inScope \in BOOLEAN, p \in Profile :
       /\ redeemed' = l
       /\ answer' = <<[leg |-> l, inScope |-> inScope, profile |-> p]>>
  /\ UNCHANGED <<requests, named, call>>

\* The answer has arrived.
ReadAnswer ==
  /\ call = "asked" /\ answer # <<>>
  /\ call' = IF Accepts(answer[1]) THEN "authorized" ELSE "refused"
  /\ answer' = <<>>
  /\ UNCHANGED <<requests, named, redeemed>>

\* Mutant: a failed request is repeated.
AnswerRetried ==
  /\ call = "asked" /\ requests < 2
  /\ requests' = requests + 1 /\ answer' = <<>>
  /\ UNCHANGED <<named, redeemed, call>>

\* A status other than 200, a broken connection or the client's own timeout,
\* before or after the authority consumed the credentials.
AnswerFails ==
  /\ call = "asked"
  /\ call' = "failed" /\ answer' = <<>>
  /\ UNCHANGED <<requests, named, redeemed>>

BootstrapInit ==
  requests = 0 /\ named = NoLeg /\ redeemed = NoLeg /\ answer = <<>> /\ call = "none"

BootstrapSpec ==
  BootstrapInit
  /\ [][(\E l \in Leg : Request(l)) \/ Redeem \/ ReadAnswer \/ AnswerFails]_bootVars

-----------------------------------------------------------------------------
\* "One attempt: an ambiguous response must never replay consumed credentials":
\* however the request ends, nothing is sent once the authority consumed them.
NeverReplayed == [][redeemed # NoLeg => requests' = requests]_bootVars

\* What BOOTSTRAP_CONTRACT allows OfficePulse to send for the leg that was named.
Conforming(a) ==
  /\ a.leg = named /\ a.inScope
  /\ a.profile.chars \in 1..MaxPrompt /\ ProfileBytes(a.profile) <= MaxProfileBytes

\* BOOTSTRAP_CONTRACT "prompt ... up to 12,000 characters", "Profile JSON is capped
\* at 65,536 bytes": an answer within the contract is accepted.  It does not hold:
\* the limit is applied to the snapshot encoded again with ASCII escapes.
ConformingIsAccepted ==
  [][call # "refused" /\ call' = "refused" => ~Conforming(answer[1])]_bootVars
=============================================================================
