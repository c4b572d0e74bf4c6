-------------------------- MODULE TranscriptsProofs --------------------------
(***************************************************************************)
(* Theorems about Transcripts, for any texts, capacity of the queue and    *)
(* number of revisions.                                                    *)
(***************************************************************************)
EXTENDS Transcripts, SequenceTheorems, TLAPS

\* Taking the first element of a queue and keeping it is keeping the queue.
LEMMA HeadAndTail ==
  ASSUME NEW S, NEW s \in Seq(S), s # <<>>
  PROVE  <<Head(s)>> \o Tail(s) = s
<1>1. <<Head(s)>> \in Seq(S) /\ Tail(s) \in Seq(S)
  BY HeadTailProperties
<1>2. <<Head(s)>> \o Tail(s) \in Seq(S) /\ Len(<<Head(s)>> \o Tail(s)) = Len(s)
  BY <1>1, ConcatProperties, HeadTailProperties, LenProperties
<1>3. \A i \in 1..Len(s) : (<<Head(s)>> \o Tail(s))[i] = s[i]
  BY <1>1, HeadTailProperties, LenProperties
<1>4. QED
  BY <1>2, <1>3, SeqEqual

LEMMA Numbers ==
  ASSUME TypeOK
  PROVE  /\ sequence \in Nat /\ sequence <= MaxSequence
         /\ utterance \in Nat /\ utterance # 0 /\ utterance <= MaxSequence + 1
<1>1. sequence \in 0..MaxSequence /\ utterance \in 1..MaxSequence + 1
  BY DEF TypeOK
<1>2. QED
  BY <1>1, MaxSequenceAssumption

LEMMA Lists ==
  ASSUME TypeOK
  PROVE  /\ queue \in Seq(Event) /\ Len(queue) \in Nat
         /\ sending \in Seq(Event) /\ published \in Seq(Event)
         /\ task = "sending" => Len(sending) = 1
         /\ task # "sending" => sending = <<>>
<1>1. queue \in Seq(Event) /\ sending \in Seq(Event) /\ published \in Seq(Event)
  BY DEF TypeOK
<1>2. Len(sending) = IF task = "sending" THEN 1 ELSE 0
  BY DEF TypeOK
<1>3. QED
  BY <1>1, <1>2, LenProperties, EmptySeq

\* The event that a handler gives to enqueue().
NextEvent(text, final, segment) ==
  [sequence |-> sequence + 1, segment |-> segment, text |-> text, final |-> final]

\* What the three handlers of worker.py do to the stream: nothing, or one event.
LEMMA HandlersEmit ==
  ASSUME TypeOK, TranscriptsInv,
         \/ \E text \in Text : CallerPartial(text) \/ Assistant(text)
         \/ \E text \in Text \cup {""} : CallerFinal(text)
  PROVE  /\ UNCHANGED <<task, sending, published, ready>>
         /\ sequence < MaxSequence
         /\ callerText' \in Text \cup {""}
         /\ \/ UNCHANGED <<sequence, utterance, queue, closed, aborted>>
            \/ \E text \in Text, final \in BOOLEAN, segment \in {0, utterance} :
                 /\ Emit(text, final, segment)
                 /\ segment = 0 => final
                 /\ utterance' = IF final /\ segment = utterance THEN utterance + 1 ELSE utterance
<1>0. utterance \in Nat /\ utterance # 0
  BY Numbers
<1>1. ASSUME NEW text \in Text, CallerPartial(text)
      PROVE  /\ UNCHANGED <<task, sending, published, ready, utterance>> /\ sequence < MaxSequence
             /\ callerText' \in Text /\ Emit(text, FALSE, utterance)
  BY <1>1 DEF CallerPartial, Fed
<1>2. ASSUME NEW text \in Text, Assistant(text)
      PROVE  /\ UNCHANGED <<task, sending, published, ready, utterance, callerText>>
             /\ sequence < MaxSequence /\ Emit(text, TRUE, 0)
  BY <1>2 DEF Assistant, Fed
<1>3. ASSUME NEW text \in Text \cup {""}, CallerFinal(text)
      PROVE  /\ UNCHANGED <<task, sending, published, ready>> /\ sequence < MaxSequence
             /\ callerText' = ""
             /\ \/ UNCHANGED <<sequence, utterance, queue, closed, aborted>>
                \/ \E said \in Text : Emit(said, TRUE, utterance) /\ utterance' = utterance + 1
  BY <1>3 DEF CallerFinal, Fed, TypeOK
<1>4. ASSUME NEW text \in Text, CallerPartial(text) PROVE callerText' \in Text \cup {""}
  BY <1>1, <1>4
<1>5. QED
  BY <1>0, <1>1, <1>2, <1>3 DEF TypeOK

\* An event of theirs has its type.
LEMMA NextEventType ==
  ASSUME TypeOK, TranscriptsInv, sequence < MaxSequence,
         NEW text \in Text, NEW final \in BOOLEAN, NEW segment \in {0, utterance}
  PROVE  NextEvent(text, final, segment) \in Event
BY Numbers, MaxSequenceAssumption DEF TranscriptsInv, Event, NextEvent

LEMMA EnqueueType ==
  ASSUME TypeOK, NEW event \in Event, Enqueue(event)
  PROVE  /\ queue' \in Seq(Event) /\ Len(queue') <= Capacity
         /\ closed' \in BOOLEAN /\ aborted' \in BOOLEAN /\ (closed => closed')
<1>1. Len(queue) <= Capacity /\ closed \in BOOLEAN /\ aborted \in BOOLEAN
  BY DEF TypeOK
<1>2. CASE closed
  BY <1>1, <1>2, Lists DEF Enqueue
<1>3. CASE ~closed /\ Len(queue) < Capacity
  <2>1. Len(Append(queue, event)) = Len(queue) + 1 /\ Append(queue, event) \in Seq(Event)
    BY Lists, AppendProperties
  <2>2. queue' = Append(queue, event) /\ closed' = closed /\ aborted' = aborted
    BY <1>3 DEF Enqueue
  <2>3. Len(queue') <= Capacity
    BY <1>3, <2>1, <2>2, Lists, CapacityAssumption
  <2>4. QED
    BY <1>1, <2>1, <2>2, <2>3
<1>4. CASE ~closed /\ ~(Len(queue) < Capacity)
  BY <1>1, <1>4, Lists DEF Enqueue
<1>5. QED
  BY <1>2, <1>3, <1>4

LEMMA TypeStep ==
  ASSUME TypeOK, TranscriptsInv, [Next]_vars
  PROVE  TypeOK'
<1>1. CASE \/ \E text \in Text : CallerPartial(text) \/ Assistant(text)
           \/ \E text \in Text \cup {""} : CallerFinal(text)
  <2>1. UNCHANGED <<task, sending, published, ready>> /\ callerText' \in Text \cup {""}
    BY <1>1, HandlersEmit
  <2>2. CASE UNCHANGED <<sequence, utterance, queue, closed, aborted>>
    BY <2>1, <2>2 DEF TypeOK
  <2>3. ASSUME NEW text \in Text, NEW final \in BOOLEAN, NEW segment \in {0, utterance},
               Emit(text, final, segment),
               utterance' = IF final /\ segment = utterance THEN utterance + 1 ELSE utterance
        PROVE  TypeOK'
    <3>1. sequence < MaxSequence
      BY <1>1, HandlersEmit
    <3>2. NextEvent(text, final, segment) \in Event
      BY <3>1, NextEventType
    <3>3. Enqueue(NextEvent(text, final, segment)) /\ sequence' = sequence + 1
      BY <2>3 DEF Emit, NextEvent
    <3>4. sequence' \in 0..MaxSequence /\ utterance' \in 1..MaxSequence + 1
      BY <2>3, <3>1, <3>3, Numbers, MaxSequenceAssumption DEF TranscriptsInv
    <3>5. QED
      BY <2>1, <3>2, <3>3, <3>4, EnqueueType DEF TypeOK
  <2>4. QED
    BY <1>1, <2>2, <2>3, HandlersEmit
<1> USE DEF streamVars, publisherVars
<1>2. CASE Start
  BY <1>2 DEF Start, TypeOK
<1>3. CASE Take
  <2>1. Head(queue) \in Event /\ Tail(queue) \in Seq(Event) /\ Len(Tail(queue)) = Len(queue) - 1
    BY <1>3, Lists, HeadTailProperties DEF Take
  <2>2. queue' \in Seq(Event) /\ Len(queue') <= Capacity
    <3>1. Len(queue) <= Capacity
      BY DEF TypeOK
    <3>2. QED
      BY <1>3, <2>1, <3>1, Lists, CapacityAssumption DEF Take
  <2>3. sending' \in Seq(Event) /\ Len(sending') = 1 /\ task' = "sending"
    BY <1>3, <2>1 DEF Take
  <2>4. QED
    BY <1>3, <2>2, <2>3 DEF Take, TypeOK
<1>4. CASE PublishOK \/ PublishFails \/ Close
  <2>1. published \o sending \in Seq(Event)
    BY Lists, ConcatProperties
  <2>2. published' \in Seq(Event) /\ UNCHANGED <<streamVars, queue, ready>>
    BY <1>4, <2>1, Lists DEF PublishOK, PublishFails, Close
  <2>3. sending' \in Seq(Event) /\ Len(sending') = 0 /\ task' \in {"over", "getting"}
    BY <1>4, EmptySeq DEF PublishOK, PublishFails, Close, NextTask
  <2>4. closed' \in BOOLEAN /\ aborted' \in BOOLEAN
    BY <1>4 DEF PublishOK, PublishFails, Close, TypeOK
  <2>5. QED
    BY <2>2, <2>3, <2>4 DEF TypeOK
<1>5. CASE StopFeeding
  BY <1>5 DEF StopFeeding, TypeOK
<1>6. CASE UNCHANGED vars
  BY <1>6 DEF vars, TypeOK
<1>7. QED
  BY <1>1, <1>2, <1>3, <1>4, <1>5, <1>6 DEF Next

-----------------------------------------------------------------------------
\* What is issued grows at its end and moves on without a gap.
LEMMA IssuedType ==
  ASSUME TypeOK
  PROVE  /\ Issued \in Seq(Event) /\ Len(Issued) \in Nat
         /\ \A k \in 1..Len(Issued) : Issued[k] \in Event
BY Lists, ConcatProperties, LenProperties, ElementOfSeq DEF Issued

LEMMA EmitAppends ==
  ASSUME TypeOK, NEW event \in Event, Enqueue(event), UNCHANGED <<sending, published>>, ~closed'
  PROVE  ~closed /\ Issued' = Append(Issued, event)
<1>1. ~closed /\ queue' = Append(queue, event)
  BY DEF Enqueue
<1>2. Append(queue, event) = queue \o <<event>> /\ Append(Issued, event) = Issued \o <<event>>
  BY Lists, IssuedType, AppendIsConcat
<1>3. <<event>> \in Seq(Event) /\ published \o sending \in Seq(Event)
  BY Lists, ConcatProperties
<1>4. (published \o sending) \o (queue \o <<event>>) = Issued \o <<event>>
  BY <1>3, Lists, ConcatAssociative DEF Issued
<1>5. QED
  BY <1>1, <1>2, <1>4 DEF Issued

LEMMA SendingKeepsIssued ==
  ASSUME TypeOK, Take \/ PublishOK
  PROVE  Issued' = Issued
<1>1. CASE Take
  <2>1. sending = <<>> /\ queue # <<>> /\ queue \in Seq(Event) /\ published \in Seq(Event)
    BY <1>1, Lists DEF Take
  <2>2. <<Head(queue)>> \in Seq(Event) /\ Tail(queue) \in Seq(Event)
    BY <2>1, HeadTailProperties
  <2>3. <<Head(queue)>> \o Tail(queue) = queue
    BY <2>1, HeadAndTail
  <2>4. (published \o <<Head(queue)>>) \o Tail(queue) = published \o queue
    BY <2>1, <2>2, <2>3, ConcatAssociative
  <2>5. published \o sending = published
    BY <2>1, ConcatEmptySeq
  <2>6. QED
    BY <1>1, <2>4, <2>5 DEF Take, Issued
<1>2. CASE PublishOK
  <2>1. published \o sending \in Seq(Event)
    BY Lists, ConcatProperties
  <2>2. (published \o sending) \o <<>> = published \o sending
    BY <2>1, ConcatEmptySeq
  <2>3. QED
    BY <1>2, <2>2 DEF PublishOK, Issued
<1>3. QED
  BY <1>1, <1>2

\* A segment's events, when the next event of a handler is appended to them.
LEMMA SegmentsAppend ==
  ASSUME TypeOK, SegmentsClose, ~closed,
         NEW text \in Text, NEW final \in BOOLEAN, NEW segment \in {0, utterance},
         segment = 0 => final,
         NextEvent(text, final, segment) \in Event,
         utterance' = IF final /\ segment = utterance THEN utterance + 1 ELSE utterance,
         Issued' = Append(Issued, NextEvent(text, final, segment))
  PROVE  SegmentsClose'
<1> DEFINE n == Len(Issued)
           event == NextEvent(text, final, segment)
<1>1. /\ n \in Nat /\ Len(Issued') = n + 1 /\ Issued'[n + 1] = event
      /\ \A k \in 1..n : Issued'[k] = Issued[k]
  BY IssuedType, AppendProperties
<1>2. event.segment = segment /\ event.final = final
  BY DEF NextEvent
<1>3. utterance \in Nat /\ utterance # 0
  BY Numbers
<1>4. \A k \in 1..n : Issued[k].segment \in Nat /\ Issued[k].final \in BOOLEAN
  <2>1. \A k \in 1..n : Issued[k] \in Event
    BY IssuedType
  <2>2. QED
    BY <2>1, MaxSequenceAssumption DEF Event
<1> HIDE DEF n, event
<1>5. \A j \in 1..n :
        /\ Issued[j].segment <= utterance
        /\ Issued[j].final => /\ Issued[j].segment # utterance
                              /\ \A k \in 1..n : Issued[k].final /\ Issued[k].segment = Issued[j].segment
                                                 => k = j \/ Issued[j].segment = 0
        /\ ~Issued[j].final => /\ Issued[j].segment # 0
                               /\ Issued[j].segment # utterance =>
                                    \E k \in j + 1..n :
                                      Issued[k].final /\ Issued[k].segment = Issued[j].segment
  BY DEF SegmentsClose, n
<1>6. ASSUME NEW j \in 1..n + 1
      PROVE  /\ Issued'[j].segment <= utterance'
             /\ Issued'[j].final => Issued'[j].segment # utterance'
             /\ ~Issued'[j].final => Issued'[j].segment # 0
  <2>1. CASE j = n + 1
    BY <1>1, <1>2, <1>3, <2>1
  <2>2. CASE j \in 1..n
    BY <1>1, <1>3, <1>4, <1>5, <2>2
  <2>3. QED
    BY <1>1, <2>1, <2>2
<1>7. ASSUME NEW j \in 1..n + 1, NEW k \in 1..n + 1, Issued'[j].final, Issued'[k].final,
             Issued'[k].segment = Issued'[j].segment
      PROVE  k = j \/ Issued'[j].segment = 0
  <2>1. CASE j \in 1..n /\ k \in 1..n
    BY <1>1, <1>5, <1>7, <2>1
  <2>2. CASE j = n + 1 /\ k \in 1..n
    BY <1>1, <1>2, <1>5, <1>7, <2>2
  <2>3. CASE j \in 1..n /\ k = n + 1
    BY <1>1, <1>2, <1>5, <1>7, <2>3
  <2>4. QED
    BY <1>1, <2>1, <2>2, <2>3
<1>8. ASSUME NEW j \in 1..n + 1, ~Issued'[j].final, Issued'[j].segment # utterance'
      PROVE  \E k \in j + 1..n + 1 : Issued'[k].final /\ Issued'[k].segment = Issued'[j].segment
  <2>1. j \in 1..n
    BY <1>1, <1>2, <1>8
  <2>2. CASE Issued[j].segment = utterance
    <3>1. event.final /\ event.segment = utterance
      BY <1>1, <1>2, <1>8, <2>1, <2>2
    <3>2. QED
      BY <1>1, <2>1, <2>2, <3>1
  <2>3. CASE Issued[j].segment # utterance
    <3>1. PICK k \in j + 1..n : Issued[k].final /\ Issued[k].segment = Issued[j].segment
      BY <1>1, <1>5, <1>8, <2>1, <2>3
    <3>2. k \in j + 1..n + 1 /\ k \in 1..n
      BY <1>1, <2>1
    <3>3. QED
      BY <1>1, <2>1, <3>1, <3>2
  <2>4. QED
    BY <2>2, <2>3
<1>9. QED
  BY <1>1, <1>6, <1>7, <1>8, SMTT(30) DEF SegmentsClose

LEMMA LostNothingAppend ==
  ASSUME TypeOK, NothingSilentlyLost, ~closed, NEW text, NEW final, NEW segment,
         NextEvent(text, final, segment) \in Event, sequence' = sequence + 1,
         Issued' = Append(Issued, NextEvent(text, final, segment))
  PROVE  NothingSilentlyLost'
<1> DEFINE event == NextEvent(text, final, segment)
<1>1. Len(Issued) = sequence /\ \A k \in 1..sequence : Issued[k].sequence = k
  BY DEF NothingSilentlyLost
<1>2. /\ Len(Issued') = sequence + 1 /\ Issued'[sequence + 1] = event
      /\ \A k \in 1..sequence : Issued'[k] = Issued[k]
  BY <1>1, IssuedType, AppendProperties
<1>3. event.sequence = sequence + 1
  BY DEF NextEvent
<1> HIDE DEF event
<1>4. \A k \in 1..sequence + 1 : Issued'[k].sequence = k
  BY <1>1, <1>2, <1>3, Numbers
<1>5. QED
  BY <1>2, <1>4 DEF NothingSilentlyLost

LEMMA InvStep ==
  ASSUME TypeOK, TranscriptsInv, [Next]_vars
  PROVE  TranscriptsInv'
<1>1. CASE \/ \E text \in Text : CallerPartial(text) \/ Assistant(text)
           \/ \E text \in Text \cup {""} : CallerFinal(text)
  <2>1. UNCHANGED <<task, sending, published>>
    BY <1>1, HandlersEmit
  <2>2. CASE UNCHANGED <<sequence, utterance, queue, closed, aborted>>
    BY <2>1, <2>2 DEF TranscriptsInv, NothingSilentlyLost, SegmentsClose, Issued
  <2>3. ASSUME NEW text \in Text, NEW final \in BOOLEAN, NEW segment \in {0, utterance},
               Emit(text, final, segment), segment = 0 => final,
               utterance' = IF final /\ segment = utterance THEN utterance + 1 ELSE utterance
        PROVE  TranscriptsInv'
    <3>1. NextEvent(text, final, segment) \in Event
      BY <1>1, HandlersEmit, NextEventType
    <3>2. Enqueue(NextEvent(text, final, segment)) /\ sequence' = sequence + 1
      BY <2>3 DEF Emit, NextEvent
    <3>3. utterance' <= sequence' + 1
      BY <2>3, <3>2, Numbers DEF TranscriptsInv
    <3>4. task' = "over" => closed'
      BY <2>1, <3>1, <3>2, EnqueueType DEF TranscriptsInv
    <3>5. CASE closed'
      BY <3>3, <3>4, <3>5 DEF TranscriptsInv, NothingSilentlyLost, SegmentsClose
    <3>6. CASE ~closed'
      <4>1. ~closed /\ Issued' = Append(Issued, NextEvent(text, final, segment))
        BY <2>1, <3>1, <3>2, <3>6, EmitAppends
      <4>2. SegmentsClose'
        BY <2>3, <3>1, <4>1, SegmentsAppend DEF TranscriptsInv
      <4>3. NothingSilentlyLost'
        BY <3>1, <3>2, <4>1, LostNothingAppend DEF TranscriptsInv
      <4>4. QED
        BY <3>3, <3>4, <4>2, <4>3 DEF TranscriptsInv
    <3>7. QED
      BY <3>5, <3>6
  <2>4. QED
    BY <1>1, <2>2, <2>3, HandlersEmit
<1>2. CASE Take \/ PublishOK
  <2>1. UNCHANGED <<sequence, utterance, closed>> /\ (task' = "over" => closed')
    BY <1>2 DEF Take, PublishOK, NextTask, streamVars
  <2>2. QED
    BY <1>2, <2>1, SendingKeepsIssued DEF TranscriptsInv, NothingSilentlyLost, SegmentsClose
<1>3. CASE PublishFails \/ Close
  <2>1. UNCHANGED <<sequence, utterance>> /\ closed'
    BY <1>3 DEF PublishFails, Close, streamVars
  <2>2. QED
    BY <2>1 DEF TranscriptsInv, NothingSilentlyLost, SegmentsClose
<1>4. CASE Start \/ StopFeeding \/ UNCHANGED vars
  <2>1. UNCHANGED <<sequence, utterance, closed, published, sending, queue>>
    BY <1>4 DEF Start, StopFeeding, vars, streamVars, publisherVars
  <2>2. task' = "over" => closed'
    BY <1>4, <2>1 DEF Start, StopFeeding, vars, publisherVars, TranscriptsInv
  <2>3. QED
    BY <2>1, <2>2 DEF TranscriptsInv, NothingSilentlyLost, SegmentsClose, Issued
<1>5. QED
  BY <1>1, <1>2, <1>3, <1>4 DEF Next

-----------------------------------------------------------------------------
\* The inductive invariant of stream and publisher.
THEOREM TranscriptsIsInvariant == Spec => [](TypeOK /\ TranscriptsInv)
<1>1. Init => TypeOK /\ TranscriptsInv
  <2> SUFFICES ASSUME Init PROVE TypeOK /\ TranscriptsInv
    OBVIOUS
  <2>1. <<>> \in Seq(Event) /\ Len(<<>>) = 0
    BY EmptySeq
  <2>2. 0 \in 0..MaxSequence /\ 1 \in 1..MaxSequence + 1 /\ 0 <= Capacity
    BY MaxSequenceAssumption, CapacityAssumption
  <2>3. queue = <<>> /\ sending = <<>> /\ published = <<>> /\ sequence = 0 /\ utterance = 1
        /\ task = "off" /\ ~closed
    BY DEF Init
  <2>4. /\ queue \in Seq(Event) /\ sending \in Seq(Event) /\ published \in Seq(Event)
        /\ Len(queue) <= Capacity /\ Len(sending) = IF task = "sending" THEN 1 ELSE 0
    BY <2>1, <2>2, <2>3
  <2>5. TypeOK
    BY <2>2, <2>3, <2>4 DEF Init, TypeOK
  <2>6. Len(Issued) = 0
    BY <2>1, <2>3, ConcatEmptySeq DEF Issued
  <2>7. NothingSilentlyLost /\ SegmentsClose
    BY <2>3, <2>6 DEF NothingSilentlyLost, SegmentsClose
  <2>8. QED
    BY <2>3, <2>5, <2>7 DEF TranscriptsInv
<1>2. TypeOK /\ TranscriptsInv /\ [Next]_vars => TypeOK' /\ TranscriptsInv'
  BY TypeStep, InvStep
<1>3. QED
  BY <1>1, <1>2, PTL DEF Spec

\* enqueue() and _run lose no revision that got a number, whatever the capacity.
THEOREM NothingIsLost == Spec => []NothingSilentlyLost
BY TranscriptsIsInvariant, PTL DEF TranscriptsInv

\* A displayed partial of the caller is closed by exactly one final revision (caller()).
THEOREM PartialsEnd == Spec => []PartialsAreClosed
<1>1. TypeOK /\ TranscriptsInv => PartialsAreClosed
  <2> SUFFICES ASSUME TypeOK, TranscriptsInv, ~closed, NEW j \in 1..Len(Issued), ~Issued[j].final
               PROVE  LET finals == {k \in 1..Len(Issued) : Issued[k].final
                                                      /\ Issued[k].segment = Issued[j].segment}
                      IN  IF Issued[j].segment = utterance THEN finals = {}
                          ELSE \E k \in finals : k > j /\ finals = {k}
    BY DEF PartialsAreClosed
  <2> DEFINE finals == {k \in 1..Len(Issued) : Issued[k].final
                                                 /\ Issued[k].segment = Issued[j].segment}
  <2>1. CASE Issued[j].segment = utterance
    BY <2>1 DEF TranscriptsInv, SegmentsClose
  <2>2. CASE Issued[j].segment # utterance
    <3>1. PICK k \in j + 1..Len(Issued) : Issued[k].final /\ Issued[k].segment = Issued[j].segment
      BY <2>2 DEF TranscriptsInv, SegmentsClose
    <3>2. k \in finals /\ k > j
      BY <3>1, IssuedType
    <3>3. Issued[j].segment # 0
      BY DEF TranscriptsInv, SegmentsClose
    <3>4. ASSUME NEW i \in finals PROVE i = k
      BY <3>1, <3>2, <3>3 DEF TranscriptsInv, SegmentsClose
    <3>5. QED
      BY <2>2, <3>2, <3>4
  <2>3. QED
    BY <2>1, <2>2
<1>2. QED
  BY <1>1, TranscriptsIsInvariant, PTL

-----------------------------------------------------------------------------
\* Refinement of Feed.
Pending == sending \o queue

State == IF ~closed THEN "open" ELSE IF task = "over" THEN "over" ELSE "failing"

LEMMA PendingType ==
  ASSUME TypeOK
  PROVE  /\ Pending \in Seq(Event) /\ Len(Pending) \in Nat
         /\ Len(Pending) = Len(sending) + Len(queue)
         /\ Len(Issued) = Len(published) + Len(Pending)
<1>1. /\ Pending \in Seq(Event) /\ Len(Pending) = Len(sending) + Len(queue)
      /\ Issued = published \o Pending
  BY Lists, ConcatProperties, ConcatAssociative DEF Pending, Issued
<1>2. QED
  BY <1>1, Lists, ConcatProperties, LenProperties

\* enqueue() issues a revision, drops it after a failure, or fails on a full queue.
LEMMA EmitRefines ==
  ASSUME TypeOK, TranscriptsInv, UNCHANGED <<task, sending, published>>,
         NEW event \in Event, event.sequence = sequence + 1, Enqueue(event)
  PROVE  [Promise!Next]_Promise!feedVars
<1> USE DEF Promise!Next, Promise!feedVars
<1>1. CASE closed
  BY <1>1 DEF Enqueue
<1>2. CASE ~closed /\ Len(queue) < Capacity
  <2>1. queue' = Append(queue, event) /\ closed' = closed
    BY <1>2 DEF Enqueue
  <2>2. Pending' = Append(Pending, event)
    <3>1. <<event>> \in Seq(Event)
      BY EmptySeq
    <3>2. Append(queue, event) = queue \o <<event>> /\ Append(Pending, event) = Pending \o <<event>>
      BY Lists, PendingType, AppendIsConcat
    <3>3. sending \o (queue \o <<event>>) = Pending \o <<event>>
      BY <3>1, Lists, ConcatAssociative DEF Pending
    <3>4. QED
      BY <2>1, <3>2, <3>3 DEF Pending
  <2>3. Len(Pending') = Len(Pending) + 1 /\ Pending'[Len(Pending')] = event /\ Pending' # <<>>
    BY <2>2, PendingType, AppendProperties
  <2>4. Pending = SubSeq(Pending', 1, Len(Pending') - 1)
    <3>1. Pending' \in Seq(Event) /\ \A i \in 1..Len(Pending) : Pending'[i] = Pending[i]
      BY <2>2, PendingType, AppendProperties
    <3>2. \A i \in 1..Len(Pending) : Pending'[i] \in Event
      BY <3>1, PendingType, ElementOfSeq
    <3>3. /\ SubSeq(Pending', 1, Len(Pending)) \in Seq(Event)
          /\ Len(SubSeq(Pending', 1, Len(Pending))) = Len(Pending)
          /\ \A i \in 1..Len(Pending) : SubSeq(Pending', 1, Len(Pending))[i] = Pending'[i]
      BY <3>2, PendingType, SubSeqProperties
    <3>4. Len(Pending') - 1 = Len(Pending)
      BY <2>3, PendingType
    <3>5. QED
      BY <3>1, <3>3, <3>4, PendingType, SeqEqual
  <2>5. event.sequence = Len(published) + Len(Pending')
    <3>1. sequence = Len(Issued)
      BY <1>2 DEF TranscriptsInv, NothingSilentlyLost
    <3>2. Len(published) \in Nat
      BY Lists, LenProperties
    <3>3. QED
      BY <2>3, <3>1, <3>2, PendingType
  <2>6. Promise!Issue
    BY <1>2, <2>1, <2>3, <2>4, <2>5 DEF Promise!Issue, Promise!Front, Promise!Last, Pending
  <2>7. QED
    BY <2>6
<1>3. CASE ~closed /\ ~(Len(queue) < Capacity)
  <2>1. queue # <<>>
    BY <1>3, EmptySeq, CapacityAssumption
  <2>2. Pending # <<>>
    BY <2>1, Lists, ConcatEqualIffEmpty DEF Pending
  <2>3. UNCHANGED <<queue, sending, published, task>> /\ closed' /\ task # "over"
    BY <1>3 DEF Enqueue, TranscriptsInv
  <2>4. Promise!BeginFailing
    BY <1>3, <2>2, <2>3 DEF Promise!BeginFailing, Pending
  <2>5. QED
    BY <2>4
<1>4. QED
  BY <1>1, <1>2, <1>3

\* The event being sent is the first one that is pending.
LEMMA SendingIsHead ==
  ASSUME TypeOK, task = "sending"
  PROVE  /\ Pending # <<>> /\ Tail(Pending) = queue
         /\ Append(published, Head(Pending)) = published \o sending
<1>1. Len(sending) = 1 /\ sending \in Seq(Event) /\ queue \in Seq(Event) /\ published \in Seq(Event)
  BY Lists
<1>2. sending[1] \in Event
  <2>1. 1 \in 1..Len(sending)
    BY <1>1
  <2>2. QED
    BY <1>1, <2>1, ElementOfSeq
<1>3. sending = <<sending[1]>>
  BY <1>1, <1>2, SeqEqual
<1>4. Pending # <<>> /\ Head(Pending) = sending[1] /\ Tail(Pending) = queue
  <2>1. Len(Pending) = Len(queue) + 1 /\ Len(queue) \in Nat /\ Pending \in Seq(Event)
    BY <1>1, PendingType, LenProperties
  <2>2. Pending # <<>> /\ Pending[1] = sending[1]
    BY <1>1, <2>1, ConcatProperties, EmptySeq DEF Pending
  <2>3. Len(Tail(Pending)) = Len(queue) /\ Tail(Pending) \in Seq(Event)
    BY <2>1, <2>2, HeadTailProperties
  <2>4. \A i \in 1..Len(queue) : Tail(Pending)[i] = queue[i]
    <3>1. \A i \in 1..Len(queue) : Tail(Pending)[i] = Pending[i + 1]
      BY <2>1, <2>2, <2>3, HeadTailProperties
    <3>2. \A i \in 1..Len(queue) : Pending[i + 1] = queue[i]
      BY <1>1, <2>1, ConcatProperties DEF Pending
    <3>3. QED
      BY <3>1, <3>2
  <2>5. Tail(Pending) = queue
    BY <1>1, <2>3, <2>4, SeqEqual
  <2>6. QED
    BY <2>2, <2>5
<1>5. Append(published, sending[1]) = published \o <<sending[1]>>
  BY <1>1, <1>2, AppendIsConcat
<1>6. QED
  BY <1>3, <1>4, <1>5

LEMMA SendingRefines ==
  ASSUME TypeOK, TranscriptsInv, Take \/ PublishOK \/ PublishFails \/ Close
  PROVE  [Promise!Next]_Promise!feedVars
<1> USE DEF Promise!Next, Promise!feedVars
<1>1. CASE Take
  <2>1. sending = <<>> /\ queue # <<>> /\ queue \in Seq(Event)
    BY <1>1, Lists DEF Take
  <2>2. <<Head(queue)>> \o Tail(queue) = queue /\ <<>> \o queue = queue
    BY <2>1, HeadAndTail, ConcatEmptySeq
  <2>3. (sending \o queue)' = sending \o queue
    BY <1>1, <2>1, <2>2 DEF Take
  <2>4. State' = State /\ published' = published
    BY <1>1 DEF Take, State, TranscriptsInv
  <2>5. QED
    BY <2>3, <2>4 DEF State
<1>2. CASE PublishOK
  <2>1. task = "sending" /\ task' = (IF closed THEN "over" ELSE "getting") /\ closed' = closed
        /\ published' = published \o sending /\ sending' = <<>> /\ queue' = queue
    BY <1>2 DEF PublishOK, NextTask
  <2>2. (sending \o queue)' = queue
    BY <2>1, Lists, ConcatEmptySeq
  <2>3. Promise!Deliver
    BY <2>1, <2>2, SendingIsHead DEF Promise!Deliver, Pending
  <2>4. QED
    BY <2>3
<1>3. CASE PublishFails \/ (Close /\ task = "sending")
  <2>1. /\ task = "sending" /\ task' = "over" /\ closed'
        /\ published' \in {published, published \o sending} /\ sending' = <<>> /\ queue' = queue
    BY <1>3 DEF PublishFails, Close, NextTask
  <2>2. (sending \o queue)' = queue
    BY <2>1, Lists, ConcatEmptySeq
  <2>3. Promise!Finish
    BY <2>1, <2>2, SendingIsHead DEF Promise!Finish, Pending
  <2>4. QED
    BY <2>3
<1>4. CASE Close /\ task = "getting"
  <2>1. /\ task' = "over" /\ closed' /\ sending = <<>> /\ sending' = <<>> /\ queue' = queue
        /\ published \o sending = published
    BY <1>4, Lists, ConcatEmptySeq DEF Close
  <2>2. published' = published /\ (sending \o queue)' = sending \o queue
    BY <1>4, <2>1 DEF Close
  <2>3. Promise!Finish
    BY <1>4, <2>1, <2>2 DEF Promise!Finish
  <2>4. QED
    BY <2>3
<1>5. QED
  BY <1>1, <1>2, <1>3, <1>4 DEF Close

\* The queue, its sender and their failures implement the safety part of Feed: what the
\* handset gets is what was issued, in order, without a gap until the feed fails.
THEOREM TranscriptsRefineFeed == Spec => Promise!Safety
<1>1. Init => Promise!Init
  BY EmptySeq, ConcatEmptySeq DEF Init, Promise!Init
<1>2. TypeOK /\ TranscriptsInv /\ [Next]_vars => [Promise!Next]_Promise!feedVars
  <2> SUFFICES ASSUME TypeOK, TranscriptsInv, [Next]_vars
               PROVE  [Promise!Next]_Promise!feedVars
    OBVIOUS
  <2>1. CASE \/ \E text \in Text : CallerPartial(text) \/ Assistant(text)
             \/ \E text \in Text \cup {""} : CallerFinal(text)
    <3>1. UNCHANGED <<task, sending, published>>
      BY <2>1, HandlersEmit
    <3>2. CASE UNCHANGED <<sequence, utterance, queue, closed, aborted>>
      BY <3>1, <3>2 DEF Promise!feedVars
    <3>3. ASSUME NEW text \in Text, NEW final \in BOOLEAN, NEW segment \in {0, utterance},
                 Emit(text, final, segment)
          PROVE  [Promise!Next]_Promise!feedVars
      <4>1. NextEvent(text, final, segment) \in Event
        BY <2>1, HandlersEmit, NextEventType
      <4>2. Enqueue(NextEvent(text, final, segment))
            /\ NextEvent(text, final, segment).sequence = sequence + 1
        BY <3>3 DEF Emit, NextEvent
      <4>3. QED
        BY <3>1, <4>1, <4>2, EmitRefines
    <3>4. QED
      BY <2>1, <3>2, <3>3, HandlersEmit
  <2>2. CASE Take \/ PublishOK \/ PublishFails \/ Close
    BY <2>2, SendingRefines
  <2>3. CASE Start
    BY <2>3 DEF Start, Promise!feedVars
  <2>4. CASE StopFeeding \/ UNCHANGED vars
    BY <2>4 DEF StopFeeding, vars, publisherVars, Promise!feedVars
  <2>5. QED
    BY <2>1, <2>2, <2>3, <2>4 DEF Next
<1>3. QED
  BY <1>1, <1>2, TranscriptsIsInvariant, PTL DEF Spec, Promise!Safety
=============================================================================
