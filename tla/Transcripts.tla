---------------------------- MODULE Transcripts ----------------------------
(***************************************************************************)
(* The live transcript of one call (transcripts.py): TranscriptStream      *)
(* numbers revisions and groups a caller's partial results into segments;  *)
(* TranscriptPublisher sends them in order from a bounded queue and fails  *)
(* the call when it cannot.  worker.py feeds it while the call is ready,   *)
(* not aborted and not taken over.                                         *)
(*                                                                         *)
(* Texts are abstract: "" stands for every text that strip() empties.      *)
(* The caller segment drawn with uuid4 is the number of the utterance; a    *)
(* segment dropped before any event carried it is never seen.              *)
(***************************************************************************)
EXTENDS Integers, Sequences

CONSTANTS
  Text,        \* texts that are not blank
  Capacity,    \* bound of the queue (128 in the code)
  MaxSequence  \* bound on the revisions of a call

ASSUME CapacityAssumption == Capacity \in Nat \ {0}
ASSUME MaxSequenceAssumption == MaxSequence \in Nat
ASSUME TextAssumption == "" \notin Text

VARIABLES
  sequence,      \* TranscriptStream.sequence
  utterance,     \* number of the caller segment in use, or of the next one
  callerText,    \* _caller_text
  queue,         \* the publisher's queue
  task,          \* _run: "off", "getting", "sending" or "over"
  sending,       \* the event being published, as a sequence of at most one
  published,     \* what the room delivered to the handset, in order
  closed,        \* _closed
  ready,         \* the worker passes transcription events on
  aborted        \* on_failure was called

streamVars == <<sequence, utterance, callerText>>
publisherVars == <<queue, task, sending, published, closed, aborted>>
vars == <<streamVars, publisherVars, ready>>

Event == [sequence : 1..MaxSequence, segment : 0..MaxSequence, text : Text, final : BOOLEAN]

\* Mutant: the queue takes one event more than its bound.
EnqueueOneMore(event) ==
  IF closed
  THEN UNCHANGED <<queue, closed, aborted>>
  ELSE IF Len(queue) <= Capacity
       THEN queue' = Append(queue, event) /\ UNCHANGED <<closed, aborted>>
       ELSE closed' = TRUE /\ aborted' = TRUE /\ UNCHANGED queue

\* Mutant: an event that finds the queue full is dropped.
EnqueueOrDrop(event) ==
  /\ queue' = IF Len(queue) < Capacity THEN Append(queue, event) ELSE queue
  /\ UNCHANGED <<closed, aborted>>

\* enqueue(): after a failure events are dropped; a full queue is a failure.
Enqueue(event) ==
  IF closed
  THEN UNCHANGED <<queue, closed, aborted>>
  ELSE IF Len(queue) < Capacity
       THEN queue' = Append(queue, event) /\ UNCHANGED <<closed, aborted>>
       ELSE closed' = TRUE /\ aborted' = TRUE /\ UNCHANGED queue

\* _event() followed by enqueue().
Emit(text, final, segment) ==
  /\ sequence' = sequence + 1
  /\ Enqueue([sequence |-> sequence + 1, segment |-> segment, text |-> text, final |-> final])

\* The handlers of worker.py are gated; `sequence` is bounded for TLC.
Fed == ready /\ ~aborted /\ sequence < MaxSequence

\* A partial result that is not blank; a blank one changes nothing that is seen.
CallerPartial(text) ==
  /\ Fed /\ text # ""
  /\ callerText' = text
  /\ Emit(text, FALSE, utterance)
  /\ UNCHANGED <<utterance, task, sending, published, ready>>

\* Mutant: a blank final result does not close the displayed partial.
CallerFinalBlank(text) ==
  /\ Fed
  /\ callerText' = ""
  /\ IF text = ""
     THEN utterance' = utterance + 1 /\ UNCHANGED <<sequence, queue, closed, aborted>>
     ELSE Emit(text, TRUE, utterance) /\ utterance' = utterance + 1
  /\ UNCHANGED <<task, sending, published, ready>>

\* A final result: a blank one closes the displayed partial with its own text,
\* and gives no event and no number if there was none.
CallerFinal(text) ==
  /\ Fed
  /\ callerText' = ""
  /\ LET said == IF text = "" THEN callerText ELSE text
     IN  IF said = ""
         THEN UNCHANGED <<sequence, utterance, queue, closed, aborted>>
         ELSE Emit(said, TRUE, utterance) /\ utterance' = utterance + 1
  /\ UNCHANGED <<task, sending, published, ready>>

\* An assistant item is one final event in the segment of the item, here 0.
Assistant(text) ==
  /\ Fed
  /\ Emit(text, TRUE, 0)
  /\ UNCHANGED <<utterance, callerText, task, sending, published, ready>>

-----------------------------------------------------------------------------
\* _run: takes an event once it is inside queue.get(), even if the publisher was
\* closed in the meantime, and looks at _closed only before the next one.

Start ==
  /\ task = "off" /\ ~ready /\ ~closed
  /\ task' = "getting" /\ ready' = TRUE
  /\ UNCHANGED <<streamVars, queue, sending, published, closed, aborted>>

\* Mutant: the sender stops with the worker's handlers.
TakeWhileReady ==
  /\ task = "getting" /\ queue # <<>> /\ ready
  /\ task' = "sending"
  /\ sending' = <<Head(queue)>> /\ queue' = Tail(queue)
  /\ UNCHANGED <<streamVars, published, closed, aborted, ready>>

Take ==
  /\ task = "getting" /\ queue # <<>>
  /\ task' = "sending"
  /\ sending' = <<Head(queue)>> /\ queue' = Tail(queue)
  /\ UNCHANGED <<streamVars, published, closed, aborted, ready>>

\* The loop condition after an event.
NextTask(isClosed) == IF isClosed THEN "over" ELSE "getting"

PublishOK ==
  /\ task = "sending"
  /\ published' = published \o sending
  /\ sending' = <<>>
  /\ task' = NextTask(closed)
  /\ UNCHANGED <<streamVars, queue, closed, aborted, ready>>

\* publish_data raised or took two seconds; the event may have arrived anyway.
PublishFails ==
  /\ task = "sending"
  /\ published' \in {published, published \o sending}
  /\ sending' = <<>>
  /\ closed' = TRUE
  /\ aborted' = (aborted \/ ~closed)
  /\ task' = NextTask(TRUE)
  /\ UNCHANGED <<streamVars, queue, ready>>

\* Takeover, abort or cleanup: the worker's handlers stop passing events on.
StopFeeding ==
  /\ ready
  /\ ready' = FALSE
  /\ UNCHANGED <<streamVars, publisherVars>>

\* close(), in cleanup: the task is cancelled where it waits.
Close ==
  /\ ~ready /\ task \in {"getting", "sending"}
  /\ closed' = TRUE /\ task' = "over"
  /\ published' \in {published, published \o sending}
  /\ sending' = <<>>
  /\ UNCHANGED <<streamVars, queue, aborted, ready>>

Init ==
  /\ sequence = 0 /\ utterance = 1 /\ callerText = ""
  /\ queue = <<>> /\ task = "off" /\ sending = <<>> /\ published = <<>>
  /\ closed = FALSE /\ ready = FALSE /\ aborted = FALSE

Next ==
  \/ \E text \in Text : CallerPartial(text) \/ Assistant(text)
  \/ \E text \in Text \cup {""} : CallerFinal(text)
  \/ Start \/ Take \/ PublishOK \/ PublishFails
  \/ StopFeeding \/ Close

Spec == Init /\ [][Next]_vars

\* The loop runs the task, and wait_for bounds publish_data: it ends in two seconds.
FairSpec == Spec /\ WF_vars(Take) /\ WF_vars(PublishOK \/ PublishFails)

-----------------------------------------------------------------------------
\* Type invariant of the stream and the publisher.
TypeOK ==
  /\ sequence \in 0..MaxSequence /\ utterance \in 1..MaxSequence + 1
  /\ callerText \in Text \cup {""}
  /\ queue \in Seq(Event) /\ Len(queue) <= Capacity
  /\ task \in {"off", "getting", "sending", "over"}
  /\ sending \in Seq(Event) /\ Len(sending) = IF task = "sending" THEN 1 ELSE 0
  /\ published \in Seq(Event)
  /\ {closed, ready, aborted} \subseteq BOOLEAN

\* Every revision issued, in the order in which it is or will be delivered.
Issued == published \o sending \o queue

\* "fails closed on backpressure": while the publisher has not failed, no revision
\* that got a number is missing from what is delivered, sent or queued.
NothingSilentlyLost ==
  ~closed => /\ Len(Issued) = sequence
             /\ \A k \in 1..Len(Issued) : Issued[k].sequence = k

\* "Close a displayed partial even if the provider's terminal event contains no
\* additional text": a caller segment with a partial revision is either the one in
\* use or has exactly one final revision, after all its partial ones.
PartialsAreClosed ==
  ~closed => \A j \in 1..Len(Issued) :
    ~Issued[j].final =>
      LET finals == {k \in 1..Len(Issued) : Issued[k].final /\ Issued[k].segment = Issued[j].segment}
      IN  IF Issued[j].segment = utterance THEN finals = {}
          ELSE \E k \in finals : k > j /\ finals = {k}

\* What the segments in use and before look like while the publisher has not failed: the
\* one in use has no final revision yet, each one before has a single one at most, and
\* the partial revisions of a segment before are followed by its final one.
SegmentsClose ==
  ~closed => \A j \in 1..Len(Issued) :
    /\ Issued[j].segment <= utterance
    /\ IF Issued[j].final
       THEN /\ Issued[j].segment # utterance
            /\ \A k \in 1..Len(Issued) : Issued[k].final /\ Issued[k].segment = Issued[j].segment =>
                  k = j \/ Issued[j].segment = 0
       ELSE /\ Issued[j].segment # 0
            /\ Issued[j].segment # utterance =>
                 \E k \in j + 1..Len(Issued) : Issued[k].final /\ Issued[k].segment = Issued[j].segment

\* The inductive invariant of the live transcript.
TranscriptsInv ==
  /\ utterance <= sequence + 1
  /\ task = "over" => closed
  /\ NothingSilentlyLost /\ SegmentsClose

\* "Ordered, reliable ... delivery", "fails closed on backpressure": the queue, its
\* sender and their failures implement Feed, so that a hanging room never stalls the
\* feed silently and at most one revision is delivered after it failed.
Promise == INSTANCE Feed WITH
  pending <- sending \o queue,
  delivered <- published,
  state <- IF ~closed THEN "open" ELSE IF task = "over" THEN "over" ELSE "failing"

RefinesFeed == Promise!Spec
=============================================================================
