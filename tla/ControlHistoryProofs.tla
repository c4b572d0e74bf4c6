------------------------ MODULE ControlHistoryProofs ------------------------
(***************************************************************************)
(* Theorems about ControlHistory: what the handler remembers of the        *)
(* commands it accepted, and how often it begins the statement.            *)
(***************************************************************************)
EXTENDS ControlHistory, ControlProofs, SequenceTheorems, FiniteSetTheorems

\* The history variables watch: without them each step is one of Control.
LEMMA HistoryWatches ==
  /\ HistoryInit => Init
  /\ [HistoryNext]_<<vars, histVars>> => [Next]_vars
<1>1. HistoryInit => Init
  BY DEF HistoryInit
<1>2. ASSUME NEW c \in Command, RecordingReceive(c) PROVE Next
  BY <1>2 DEF RecordingReceive, Receive, Next
<1>3. ASSUME NEW t \in Task, RecordingAnnounce(t) PROVE Next
  BY <1>3 DEF RecordingAnnounce, Next
<1>4. ASSUME Stop \/ Job \/ Tick PROVE Next
  BY <1>4 DEF Next
<1>5. QED
  BY <1>1, <1>2, <1>3, <1>4 DEF HistoryNext

-----------------------------------------------------------------------------
\* The deduplication memory

\* Remembering an id appends it and, when the memory is full, drops the oldest.
LEMMA RememberShifts ==
  ASSUME NEW id \in Id, seen \in Seq(Id), Len(seen) <= SeenCap, Remember(id)
  PROVE  \E d \in {0, 1} :
           /\ d = 1 => Len(seen) = SeenCap
           /\ seen' \in Seq(Id) /\ Len(seen') = Len(seen) + 1 - d
           /\ \A k \in 1..(Len(seen) + 1 - d) :
                seen'[k] = IF k + d = Len(seen) + 1 THEN id ELSE seen[k + d]
<1> DEFINE longer == Append(seen, id)
<1>1. /\ longer \in Seq(Id) /\ Len(longer) = Len(seen) + 1 /\ Len(seen) \in Nat
      /\ \A k \in 1..(Len(seen) + 1) : longer[k] = IF k = Len(seen) + 1 THEN id ELSE seen[k]
  OBVIOUS
<1>2. seen' = IF Len(longer) > SeenCap THEN Tail(longer) ELSE longer
  BY DEF Remember
<1> HIDE DEF longer
<1>3. SeenCap \in Nat
  BY SeenCapAssumption
<1>4. CASE Len(longer) > SeenCap
  <2>1. Len(seen) = SeenCap
    BY <1>1, <1>3, <1>4
  <2>2. longer # <<>>
    BY <1>1, EmptySeq
  <2>3. /\ Tail(longer) \in Seq(Id) /\ Len(Tail(longer)) = Len(longer) - 1
        /\ \A k \in 1..Len(Tail(longer)) : Tail(longer)[k] = longer[k + 1]
    BY <1>1, <2>2, HeadTailProperties
  <2>4. seen' = Tail(longer) /\ Len(seen') = Len(seen)
    BY <1>1, <1>2, <1>4, <2>3
  <2>5. ASSUME NEW k \in 1..Len(seen)
        PROVE  seen'[k] = IF k + 1 = Len(seen) + 1 THEN id ELSE seen[k + 1]
    <3>1. k + 1 \in 1..(Len(seen) + 1)
      BY <1>1
    <3>2. seen'[k] = longer[k + 1]
      BY <2>3, <2>4
    <3>3. QED
      BY <1>1, <3>1, <3>2
  <2>6. Len(seen) + 1 - 1 = Len(seen)
    BY <1>1
  <2>7. QED
    BY <2>1, <2>3, <2>4, <2>5, <2>6
<1>5. CASE ~(Len(longer) > SeenCap)
  <2>1. seen' = longer
    BY <1>2, <1>5
  <2>2. ASSUME NEW k \in 1..(Len(seen) + 1)
        PROVE  seen'[k] = IF k + 0 = Len(seen) + 1 THEN id ELSE seen[k + 0]
    BY <1>1, <2>1
  <2>3. Len(seen) + 1 - 0 = Len(seen) + 1
    BY <1>1
  <2>4. QED
    BY <1>1, <2>1, <2>2, <2>3
<1>6. QED
  BY <1>4, <1>5

\* As many places in a list of distinct members as the set then has at least.
LEMMA DistinctMembers ==
  ASSUME NEW n \in Nat, NEW S, IsFiniteSet(S), NEW f \in [1..n -> S],
         \A j, k \in 1..n : j < k => f[j] # f[k]
  PROVE  Cardinality(S) >= n
<1>1. IsFiniteSet(1..n) /\ Cardinality(1..n) = n
  BY FS_Interval
<1>2. Cardinality(S) \in Nat
  BY FS_CardinalityType
<1>3. ASSUME Cardinality(S) < n PROVE FALSE
  <2>1. \E j, k \in 1..n : j # k /\ f[j] = f[k]
    BY <1>1, <1>3, FS_PigeonHole
  <2>2. \A j, k \in 1..n : j # k => j < k \/ k < j
    OBVIOUS
  <2>3. QED
    BY <2>1, <2>2
<1>4. QED
  BY <1>2, <1>3

\* A command that is accepted keeps the memory and its record in agreement: only the
\* oldest id is forgotten, and by then as many others were accepted as are remembered.
LEMMA RecordKeeps ==
  ASSUME TypeOK, HistoryInv, NEW id \in Id, ~Seen(id), Remember(id),
         NEW action, Record(action, id), told' \in BOOLEAN
  PROVE  HistoryTypeOK' /\ MemoryIsOrdered' /\ ForgottenOnlyWhenFull'
<1> DEFINE L == Len(seen)
<1>1. /\ seen \in Seq(Id) /\ L \in Nat /\ L <= SeenCap /\ SeenCap \in Nat
  BY SeenCapAssumption, LenProperties DEF TypeOK
<1>2. PICK d \in {0, 1} :
        /\ d = 1 => L = SeenCap
        /\ seen' \in Seq(Id) /\ Len(seen') = L + 1 - d
        /\ \A k \in 1..(L + 1 - d) : seen'[k] = IF k + d = L + 1 THEN id ELSE seen[k + d]
  BY <1>1, RememberShifts
<1> HIDE DEF L
<1>3. /\ known \subseteq Id /\ IsFiniteSet(known) /\ since \in [Id -> SUBSET known]
      /\ \A k \in 1..L : seen[k] \in known
      /\ \A j, k \in 1..L : j < k => seen[j] # seen[k] /\ seen[k] \in since[seen[j]]
      /\ \A i \in known : ~Seen(i) => Cardinality(since[i]) >= SeenCap
  BY DEF HistoryInv, HistoryTypeOK, MemoryIsOrdered, ForgottenOnlyWhenFull, L
<1>4. \A k \in 1..L : seen[k] # id
  BY DEF Seen, L
<1>5. /\ known' = known \cup {id}
      /\ \A i \in Id : since'[i] = IF i = id THEN {}
                                   ELSE IF i \in known THEN since[i] \cup {id} ELSE {}
      /\ \A i \in known : i # id => since'[i] = since[i] \cup {id}
      /\ DOMAIN since' = Id /\ since' = [i \in Id |-> since'[i]]
  BY <1>3 DEF Record
<1>6. HistoryTypeOK'
  <2>1. known' \subseteq Id /\ IsFiniteSet(known')
    BY <1>3, <1>5, FS_AddElement
  <2>2. \A i \in Id : since'[i] \subseteq known'
    BY <1>3, <1>5
  <2>3. QED
    BY <1>5, <2>1, <2>2 DEF HistoryTypeOK
<1>7. \* each place of the new memory
      \A k \in 1..(L + 1 - d) :
        \/ k + d = L + 1 /\ seen'[k] = id
        \/ k + d \in 1..L /\ seen'[k] = seen[k + d]
  BY <1>1, <1>2
<1>8. MemoryIsOrdered'
  <2>1. ASSUME NEW k \in 1..(L + 1 - d) PROVE seen'[k] \in known'
    BY <1>3, <1>5, <1>7
  <2>2. ASSUME NEW j \in 1..(L + 1 - d), NEW k \in 1..(L + 1 - d), j < k
        PROVE  seen'[j] # seen'[k] /\ seen'[k] \in since'[seen'[j]]
    <3>1. j + d \in 1..L /\ seen'[j] = seen[j + d] /\ j + d < k + d
      BY <1>1, <1>2, <1>7, <2>2
    <3>2. seen[j + d] \in known /\ seen[j + d] # id
      BY <1>3, <1>4, <3>1
    <3>3. since'[seen[j + d]] = since[seen[j + d]] \cup {id}
      BY <1>5, <3>2
    <3>4. CASE seen'[k] = id
      BY <3>1, <3>2, <3>3, <3>4
    <3>5. CASE k + d \in 1..L /\ seen'[k] = seen[k + d]
      BY <1>3, <3>1, <3>3, <3>5
    <3>6. QED
      BY <1>7, <3>4, <3>5
  <2>3. QED
    BY <1>2, <2>1, <2>2 DEF MemoryIsOrdered
<1>9. ForgottenOnlyWhenFull'
  <2> SUFFICES ASSUME NEW i \in known', ~Seen(i)' PROVE Cardinality(since'[i]) >= SeenCap
    BY DEF ForgottenOnlyWhenFull
  <2>1. \A k \in 1..(L + 1 - d) : seen'[k] # i
    BY <1>2 DEF Seen
  <2>2. i # id
    <3>1. L + 1 - d \in 1..(L + 1 - d)
      BY <1>1, <1>2, SeenCapAssumption
    <3>2. seen'[L + 1 - d] = id
      BY <1>1, <1>2, <3>1
    <3>3. QED
      BY <2>1, <3>1, <3>2
  <2>3. i \in known /\ since'[i] = since[i] \cup {id} /\ since[i] \subseteq known
    BY <1>3, <1>5, <2>2
  <2>4. IsFiniteSet(since[i]) /\ IsFiniteSet(since'[i])
    BY <1>3, <2>3, FS_Subset, FS_AddElement
  <2>5. Cardinality(since[i]) \in Nat /\ Cardinality(since'[i]) \in Nat
        /\ Cardinality(since[i]) <= Cardinality(since'[i])
    BY <2>3, <2>4, FS_CardinalityType, FS_Subset
  <2>6. CASE ~Seen(i)
    BY <1>1, <1>3, <2>3, <2>5, <2>6
  <2>7. CASE Seen(i)
    <3>1. PICK m \in 1..L : seen[m] = i
      BY <2>7 DEF Seen, L
    <3>2. d = 1 /\ m = 1
      <4>1. ASSUME m - d \in 1..(L + 1 - d) PROVE FALSE
        <5>1. (m - d) + d = m /\ m # L + 1
          BY <1>1, <1>2
        <5>2. seen'[m - d] = i
          BY <1>2, <3>1, <4>1, <5>1
        <5>3. QED
          BY <2>1, <4>1, <5>2
      <4>2. QED
        BY <1>1, <1>2, <4>1
    <3>3. L = SeenCap
      BY <1>2, <3>2
    <3> DEFINE f == [k \in 1..SeenCap |-> seen'[k]]
    <3>4. ASSUME NEW k \in 1..SeenCap PROVE seen'[k] \in since'[i]
      <4>1. CASE seen'[k] = id
        BY <2>3, <4>1
      <4>2. CASE k + 1 \in 1..L /\ seen'[k] = seen[k + 1]
        <5>1. 1 \in 1..L /\ 1 < k + 1
          BY <1>1, <3>1, <3>2
        <5>2. QED
          BY <1>3, <2>3, <3>1, <3>2, <4>2, <5>1
      <4>3. k \in 1..(L + 1 - d)
        BY <1>1, <3>2, <3>3
      <4>4. QED
        BY <1>7, <3>2, <4>1, <4>2, <4>3
    <3>5. \A j, k \in 1..SeenCap : j < k => seen'[j] # seen'[k]
      <4>1. Len(seen') = SeenCap
        BY <1>1, <1>2, <3>2, <3>3
      <4>2. QED
        BY <1>8, <4>1 DEF MemoryIsOrdered
    <3>6. f \in [1..SeenCap -> since'[i]] /\ \A j, k \in 1..SeenCap : j < k => f[j] # f[k]
      BY <3>4, <3>5
    <3> HIDE DEF f
    <3>7. QED
      BY <1>1, <2>4, <3>6, DistinctMembers
  <2>8. QED
    BY <2>6, <2>7
<1>10. QED
  BY <1>6, <1>8, <1>9

-----------------------------------------------------------------------------
\* The steps

LEMMA InitHistory == HistoryInit => HistoryInv
<1> SUFFICES ASSUME HistoryInit PROVE HistoryInv
  OBVIOUS
<1>1. HistoryTypeOK
  BY FS_EmptySet DEF HistoryInit, HistoryTypeOK
<1>2. Len(seen) = 0
  BY DEF HistoryInit, Init
<1>3. QED
  BY <1>1, <1>2 DEF HistoryInit, HistoryInv, NoSecondStatement, MemoryIsOrdered,
                    ForgottenOnlyWhenFull

\* A command may start the statement only when none of this transfer has begun.
LEMMA ReceiveKeepsStatement ==
  ASSUME TypeOK, HandlerInv, HistoryInv, NEW c \in Command, RecordingReceive(c)
  PROVE  told' \in BOOLEAN /\ NoSecondStatement'
<1> USE DEF NoSecondStatement
<1>1. told \in BOOLEAN /\ NoSecondStatement
  BY DEF HistoryInv, HistoryTypeOK
<1>2. CASE (TransferRequested(c) \/ TransferFailed(c)) /\ told' = FALSE
  BY <1>2
<1>3. CASE UseUp(c) /\ UNCHANGED told
  BY <1>1, <1>3 DEF UseUp, taskVars, jobVars
<1>4. CASE HumanAnswered(c) /\ UNCHANGED told
  <2>1. CASE AnswerStartsStatement(c)
    BY <1>1, <1>4, <2>1 DEF AnswerStartsStatement
  <2>2. CASE AnswerKeepsStatement(c)
    BY <1>1, <1>4, <2>2 DEF HumanAnswered, AnswerKeepsStatement
  <2>3. CASE AnswerStopsAtOnce(c)
    BY <1>1, <1>4, <2>3 DEF HumanAnswered, AnswerStopsAtOnce, CancelAnnouncement
  <2>4. QED
    BY <1>4, <2>1, <2>2, <2>3 DEF HumanAnswered
<1>5. QED
  BY <1>2, <1>3, <1>4 DEF RecordingReceive, LateRequest, LateFailure

LEMMA ReceiveKeeps ==
  ASSUME TypeOK, HandlerInv, HistoryInv, NEW c \in Command, RecordingReceive(c)
  PROVE  HistoryInv'
<1>1. PICK action : Record(action, c.id)
  BY DEF RecordingReceive
<1>2. ~Seen(c.id) /\ Remember(c.id)
  BY DEF RecordingReceive, HumanAnswered, TransferRequested, TransferFailed, LateRequest,
         LateFailure, UseUp, Accepts
<1>3. c.id \in Id
  BY DEF Command
<1>4. told' \in BOOLEAN /\ NoSecondStatement'
  BY ReceiveKeepsStatement
<1>5. QED
  BY <1>1, <1>2, <1>3, <1>4, RecordKeeps DEF HistoryInv

\* Every other step leaves the memory and its record alone.
LEMMA OthersKeepMemory ==
  ASSUME HistoryInv, UNCHANGED <<seen, known, since>>, told' \in BOOLEAN
  PROVE  HistoryTypeOK' /\ MemoryIsOrdered' /\ ForgottenOnlyWhenFull'
BY DEF HistoryInv, HistoryTypeOK, MemoryIsOrdered, ForgottenOnlyWhenFull, Seen

\* Only the current announcement can begin the statement.
LEMMA OnlySpeakBegins ==
  ASSUME TypeOK, HandlerInv, NEW t \in Task, Announce(t)
  PROVE  /\ UNCHANGED <<seen, transferring, ready, cleanup>>
         /\ announcement' # NoTask => announcement' = announcement
         /\ announcement # NoTask /\ announcement # t => pc'[announcement] = pc[announcement]
         /\ pc'[t] = "speaking" => announcement = t /\ announcement # NoTask
         /\ pc'[t] # "speaking" /\ pc[t] = "speaking" => announcement' # t
<1> USE NoTaskAssumption DEF AnnounceUnchanged, jobVars, commandVars
<1>1. pc \in [Task -> PC] /\ announcement \in Task \cup {NoTask}
  BY DEF TypeOK
<1>2. CASE Speak(t)
  <2>1. announcement = t /\ announcement # NoTask
    BY <1>2 DEF Speak, Undisturbed, HandlerInv, NoStrayAnnouncement
  <2>2. QED
    BY <1>1, <1>2, <2>1 DEF Speak
<1>3. CASE Finish(t) /\ AnnounceUnchanged
  BY <1>1, <1>3 DEF Finish
<1>4. CASE BeginAnnounce(t)
  BY <1>1, <1>3, <1>4 DEF BeginAnnounce
<1>5. CASE NeverBegins(t)
  BY <1>1, <1>5 DEF NeverBegins
<1>6. CASE AnnounceTimeout(t)
  <2>1. announcement = t /\ announcement # NoTask
    BY <1>6 DEF AnnounceTimeout, Undisturbed, HandlerInv, NoStrayAnnouncement
  <2>2. QED
    BY <1>1, <1>6, <2>1 DEF AnnounceTimeout
<1>7. QED
  BY <1>2, <1>3, <1>4, <1>5, <1>6 DEF Announce, EndAnnounce, Unwind

LEMMA AnnounceKeeps ==
  ASSUME TypeOK, HandlerInv, HistoryInv, NEW t \in Task, RecordingAnnounce(t)
  PROVE  HistoryInv'
<1>1. /\ Announce(t) /\ told' = (told \/ pc'[t] = "speaking")
      /\ UNCHANGED <<last, known, since>>
  BY DEF RecordingAnnounce
<1>2. /\ UNCHANGED <<seen, transferring, ready, cleanup>>
      /\ announcement' # NoTask => announcement' = announcement
      /\ announcement # NoTask /\ announcement # t => pc'[announcement] = pc[announcement]
      /\ pc'[t] = "speaking" => announcement = t /\ announcement # NoTask
      /\ pc'[t] # "speaking" /\ pc[t] = "speaking" => announcement' # t
  BY <1>1, OnlySpeakBegins
<1>3. told \in BOOLEAN /\ NoSecondStatement
  BY DEF HistoryInv, HistoryTypeOK
<1>4. NoSecondStatement'
  <2>1. CASE pc'[t] = "speaking"
    <3>1. transferring /\ (ready \/ cleanup # "none")
      BY <1>2, <2>1 DEF HandlerInv, TasksAreTracked
    <3>2. QED
      BY <1>2, <2>1, <3>1 DEF NoSecondStatement
  <2>2. CASE pc'[t] # "speaking"
    <3>1. told' = told
      BY <1>1, <1>3, <2>2
    <3>2. ASSUME told, announcement' # NoTask PROVE pc'[announcement'] = "speaking"
      <4>1. announcement' = announcement /\ announcement # NoTask /\ pc[announcement] = "speaking"
        BY <1>2, <1>3, <3>2 DEF NoSecondStatement
      <4>2. announcement # t
        BY <1>2, <2>2, <4>1
      <4>3. QED
        BY <1>2, <4>1, <4>2
    <3>3. QED
      BY <1>2, <1>3, <3>1, <3>2 DEF NoSecondStatement
  <2>3. QED
    BY <1>3, <2>1, <2>2
<1>5. told' \in BOOLEAN
  BY <1>1, <1>3
<1>6. QED
  BY <1>1, <1>2, <1>4, <1>5, OthersKeepMemory DEF HistoryInv

LEMMA RestKeeps ==
  ASSUME TypeOK, HandlerInv, HistoryInv, Stop \/ Job \/ Tick, UNCHANGED histVars
  PROVE  HistoryInv'
<1> USE DEF histVars, commandVars, taskVars, jobVars
<1>1. UNCHANGED <<seen, known, since, told>>
  BY DEF Stop, AwaitStatement, FinishHandoff, BeginStop, EndStop, StopUnchanged, Job,
         CreateSession, Activate, Abort, BeginCleanup, CloseControl, EndCleanup, Tick
<1>2. told \in BOOLEAN /\ NoSecondStatement
  BY DEF HistoryInv, HistoryTypeOK
<1>3. NoSecondStatement'
  <2> USE <1>1, <1>2 DEF NoSecondStatement
  <2>1. CASE Stop
    <3>1. UNCHANGED <<transferring, ready, cleanup, pc>>
      BY <2>1 DEF Stop, AwaitStatement, FinishHandoff, LeaveRoom, CancelAnnouncement, BeginStop,
                  EndStop, StopUnchanged
    <3>2. announcement' = NoTask \/ announcement' = announcement
      BY <2>1 DEF Stop, AwaitStatement, FinishHandoff, LeaveRoom, CancelAnnouncement, BeginStop,
                  EndStop
    <3>3. QED
      BY <3>1, <3>2
  <2>2. CASE Activate
    <3>1. ~told
      BY <2>2 DEF Activate, Listening
    <3>2. QED
      BY <3>1
  <2>3. CASE BeginCleanup
    BY <2>3 DEF BeginCleanup
  <2>4. CASE CloseControl
    BY <2>4 DEF CloseControl, CancelAnnouncement
  <2>5. ASSUME NEW hasStatement \in BOOLEAN, CreateSession(hasStatement)
        PROVE  NoSecondStatement'
    BY <2>5 DEF CreateSession
  <2>6. CASE Abort \/ EndCleanup
    <3>1. /\ UNCHANGED <<transferring, ready, announcement, pc>>
          /\ cleanup' = cleanup \/ cleanup' = "done"
      BY <2>6 DEF Abort, EndCleanup
    <3>2. QED
      BY <3>1
  <2>7. CASE Tick
    BY <2>7 DEF Tick
  <2>8. QED
    BY <2>1, <2>2, <2>3, <2>4, <2>5, <2>6, <2>7 DEF Job
<1>4. QED
  BY <1>1, <1>2, <1>3, OthersKeepMemory DEF HistoryInv

LEMMA NextHistory ==
  TypeOK /\ HandlerInv /\ HistoryInv /\ [HistoryNext]_<<vars, histVars>> => HistoryInv'
<1> SUFFICES ASSUME TypeOK, HandlerInv, HistoryInv, [HistoryNext]_<<vars, histVars>>
             PROVE  HistoryInv'
  OBVIOUS
<1>1. CASE UNCHANGED <<vars, histVars>>
  <2>1. UNCHANGED <<seen, known, since, told, announcement, pc, transferring, ready, cleanup>>
    BY <1>1 DEF vars, histVars, commandVars, taskVars, jobVars
  <2>2. NoSecondStatement' /\ told' \in BOOLEAN
    BY <2>1 DEF HistoryInv, HistoryTypeOK, NoSecondStatement
  <2>3. QED
    BY <2>1, <2>2, OthersKeepMemory DEF HistoryInv
<1>2. QED
  BY <1>1, ReceiveKeeps, AnnounceKeeps, RestKeeps DEF HistoryNext

\* receive() and _announce(), with what was accepted and said before: the inductive
\* invariant of the history variables.
THEOREM HistoryIsKept == HistorySpec => [](TypeOK /\ HandlerInv /\ HistoryInv)
<1>1. HistoryInit => TypeOK /\ HandlerInv /\ HistoryInv
  BY HistoryWatches, InitType, InitHandler, InitHistory
<1>2. TypeOK /\ HandlerInv /\ HistoryInv /\ [HistoryNext]_<<vars, histVars>>
        => (TypeOK /\ HandlerInv /\ HistoryInv)'
  BY HistoryWatches, NextType, NextHandler, NextHistory
<1>3. QED
  BY <1>1, <1>2, PTL DEF HistorySpec

\* README "a bounded 256-entry deduplication cache": for every capacity, an id that was
\* accepted takes effect again only after as many others as the memory holds.
THEOREM ForgetsOnlyWhenFull == HistorySpec => []ForgottenOnlyWhenFull
<1>1. HistoryInv => ForgottenOnlyWhenFull
  BY DEF HistoryInv
<1>2. QED
  BY <1>1, HistoryIsKept, PTL

\* README "speaks the profile's transferStatement once": no order of requests, answers,
\* failures and late tasks begins the statement a second time within one transfer.
THEOREM StatementBeginsOnce == HistorySpec => StatementSaidOnce
<1>1. TypeOK /\ HandlerInv /\ HistoryInv /\ [HistoryNext]_<<vars, histVars>> =>
        [ \A t \in Task : pc[t] # "speaking" /\ pc'[t] = "speaking" => ~told ]_<<vars, histVars>>
  <2> SUFFICES ASSUME TypeOK, HandlerInv, HistoryInv, [HistoryNext]_<<vars, histVars>>,
                      NEW t \in Task, pc[t] # "speaking", pc'[t] = "speaking"
               PROVE  ~told
    OBVIOUS
  <2>1. PICK u \in Task : Announce(u)
    <3>1. pc \in [Task -> PC]
      BY DEF TypeOK
    <3>2. ASSUME NEW c \in Command, RecordingReceive(c) PROVE FALSE
      BY <3>1, <3>2 DEF RecordingReceive, LateRequest, LateFailure, UseUp, HumanAnswered,
           AnswerStartsStatement, AnswerKeepsStatement, AnswerStopsAtOnce, TransferRequested,
           TransferFailed, StartAnnouncement, CancelAnnouncement, taskVars
    <3>3. ~Stop
      BY DEF Stop, AwaitStatement, FinishHandoff, LeaveRoom, CancelAnnouncement, BeginStop,
             EndStop, taskVars
    <3>4. ~Job
      BY <3>1 DEF Job, CreateSession, Activate, StartAnnouncement, Abort, BeginCleanup,
                  CloseControl, CancelAnnouncement, EndCleanup, taskVars
    <3>5. ~Tick
      BY DEF Tick, taskVars
    <3>6. ~UNCHANGED <<vars, histVars>>
      BY DEF vars, taskVars
    <3>7. QED
      BY <3>2, <3>3, <3>4, <3>5, <3>6 DEF HistoryNext, RecordingAnnounce
  <2>2. u = t
    <3>1. pc \in [Task -> PC]
      BY DEF TypeOK
    <3>2. QED
      BY <2>1, <3>1 DEF Announce, BeginAnnounce, NeverBegins, Speak, EndAnnounce,
                        AnnounceTimeout, Unwind, Finish
  <2>3. announcement = t /\ announcement # NoTask
    BY <2>1, <2>2, OnlySpeakBegins
  <2>4. QED
    BY <2>3 DEF HistoryInv, NoSecondStatement
<1>2. QED
  BY <1>1, HistoryIsKept, PTL DEF HistorySpec, StatementSaidOnce
=============================================================================
