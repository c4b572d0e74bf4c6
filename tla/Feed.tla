-------------------------------- MODULE Feed --------------------------------
(***************************************************************************)
(* What the live transcript promises its handset, whatever the queue, the  *)
(* sender and the room do: revisions are numbered as they are issued and   *)
(* delivered in that order, each at most once; none is dropped while the   *)
(* feed is open; a failing feed delivers at most one more, the one on its  *)
(* way; and no revision waits for ever.  Transcripts implements it.        *)
(***************************************************************************)
EXTENDS Naturals, SequencesExt

VARIABLES
  pending,    \* revisions issued and not delivered yet
  delivered,  \* what the handset received
  state       \* "open", "failing", "over"

feedVars == <<pending, delivered, state>>

Init == pending = <<>> /\ delivered = <<>> /\ state = "open"

Issue ==
  /\ state = "open"
  /\ pending' # <<>> /\ pending = Front(pending')
  /\ Last(pending').sequence = Len(delivered) + Len(pending')
  /\ UNCHANGED <<delivered, state>>

Deliver ==
  /\ pending # <<>> /\ state # "over"
  /\ pending' = Tail(pending) /\ delivered' = Append(delivered, Head(pending))
  /\ state' = IF state = "open" THEN "open" ELSE "over"

\* A failure leaves one revision on its way.
BeginFailing ==
  /\ state = "open" /\ pending # <<>>
  /\ state' = "failing" /\ UNCHANGED <<pending, delivered>>

\* The last revision may arrive all the same, although its sending failed.
Finish ==
  /\ state # "over" /\ state' = "over"
  /\ \/ UNCHANGED <<pending, delivered>>
     \/ /\ pending # <<>> /\ pending' = Tail(pending)
        /\ delivered' \in {delivered, Append(delivered, Head(pending))}

Next == Issue \/ Deliver \/ BeginFailing \/ Finish

Safety == Init /\ [][Next]_feedVars

\* A revision that is pending is delivered or the feed fails, and a failing one ends.
Spec ==
  Safety /\ WF_feedVars(pending # <<>> /\ (Deliver \/ BeginFailing \/ Finish))
=============================================================================
