---------------------------- MODULE ControlProofs ----------------------------
(***************************************************************************)
(* Theorems about Control, for every number of commands, tasks and clock   *)
(* ticks and every capacity of the deduplication memory: types, what is    *)
(* heard and said, and the refinement of Takeover.                         *)
(***************************************************************************)
EXTENDS Control, TLAPS

\* A value of the clock: the helpers on deadlines stay within the bound.
LEMMA TimeOps ==
  ASSUME NEW a \in Time, NEW b \in Int, b >= 0
  PROVE  Lesser(a, b) \in Time
BY MaxTimeAssumption DEF Time, Lesser

\* The time left for a handoff ends no later than the deadline of its command.
LEMMA RemainingTime ==
  ASSUME NEW c \in Command, now \in Time
  PROVE  /\ Remaining(c) \in Nat
         /\ now + Remaining(c) \in Time
         /\ Lesser(now + Remaining(c), now + Grace) \in Time
BY MaxTimeAssumption, GraceAssumption DEF Time, Remaining, Command, Lesser, Greater

\* The deduplication memory of receive(): a bounded sequence of ids.
LEMMA RememberType ==
  ASSUME NEW id \in Id, seen \in Seq(Id), Len(seen) <= SeenCap, Remember(id)
  PROVE  seen' \in Seq(Id) /\ Len(seen') <= SeenCap
<1>1. /\ Append(seen, id) \in Seq(Id)
      /\ Len(Append(seen, id)) = Len(seen) + 1
  OBVIOUS
<1>2. Append(seen, id) # <<>>
  BY <1>1
<1>3. /\ Tail(Append(seen, id)) \in Seq(Id)
      /\ Len(Tail(Append(seen, id))) = Len(seen)
  BY <1>1, <1>2
<1>4. QED
  BY <1>1, <1>3, SeenCapAssumption DEF Remember

\* What cancelling or starting an announcement does to the types of its task.
LEMMA StartType ==
  ASSUME TypeOK, NEW limit \in Nat, Lesser(limit, now + Grace) \in Time,
         StartAnnouncement(limit)
  PROVE  /\ deadline' \in Time
         /\ announcement' \in Task \cup {NoTask}
         /\ pc' \in [Task -> PC]
         /\ cancelled' \in [Task -> BOOLEAN]
         /\ expired' \in [Task -> BOOLEAN]
         /\ expires' \in [Task -> Time]
         /\ inputOn' \in BOOLEAN /\ outputOn' \in BOOLEAN
BY DEF TypeOK, StartAnnouncement, Cancelled, PC

LEMMA CancelType ==
  ASSUME TypeOK, CancelAnnouncement
  PROVE  /\ announcement' \in Task \cup {NoTask}
         /\ pc' \in [Task -> PC]
         /\ cancelled' \in [Task -> BOOLEAN]
         /\ expired' \in [Task -> BOOLEAN]
         /\ expires' \in [Task -> Time]
BY DEF TypeOK, CancelAnnouncement, Cancelled

LEMMA FinishType ==
  ASSUME TypeOK, NEW t \in Task, Finish(t)
  PROVE  /\ announcement' \in Task \cup {NoTask}
         /\ pc' \in [Task -> PC]
         /\ cancelled' \in [Task -> BOOLEAN]
         /\ expired' \in [Task -> BOOLEAN]
         /\ expires' \in [Task -> Time]
         /\ outputOn' \in BOOLEAN
<1>1. announcement' \in Task \cup {NoTask} /\ outputOn' \in BOOLEAN
  BY DEF TypeOK, Finish
<1>2. /\ pc' \in [Task -> PC]
      /\ cancelled' \in [Task -> BOOLEAN]
      /\ expired' \in [Task -> BOOLEAN]
  BY DEF TypeOK, Finish, PC
<1>3. 0 \in Time
  BY MaxTimeAssumption DEF Time
<1>4. expires' \in [Task -> Time]
  BY <1>3 DEF TypeOK, Finish
<1>5. QED
  BY <1>1, <1>2, <1>4

-----------------------------------------------------------------------------
LEMMA InitType == Init => TypeOK
<1> SUFFICES ASSUME Init PROVE TypeOK
  OBVIOUS
<1>1. 0 \in Time
  BY MaxTimeAssumption DEF Time
<1>2. seen \in Seq(Id) /\ Len(seen) <= SeenCap
  BY SeenCapAssumption DEF Init
<1>3. /\ pc \in [Task -> PC]
      /\ cancelled \in [Task -> BOOLEAN]
      /\ expired \in [Task -> BOOLEAN]
  BY DEF Init, PC
<1>4. expires \in [Task -> Time]
  BY <1>1 DEF Init
<1>5. QED
  BY <1>1, <1>2, <1>3, <1>4 DEF Init, TypeOK

LEMMA HumanAnsweredType ==
  ASSUME TypeOK, NEW c \in Command, HumanAnswered(c)
  PROVE  TypeOK'
<1>0. c.id \in Id
  BY DEF Command
<1>1. seen' \in Seq(Id) /\ Len(seen') <= SeenCap
  BY <1>0, RememberType DEF TypeOK, HumanAnswered
<1>2. /\ Remaining(c) \in Nat
      /\ now + Remaining(c) \in Time
      /\ Lesser(now + Remaining(c), now + Grace) \in Time
  BY RemainingTime DEF TypeOK
<1>3. CASE AnswerStartsStatement(c)
  <2>1. /\ deadline' \in Time
        /\ announcement' \in Task \cup {NoTask}
        /\ pc' \in [Task -> PC]
        /\ cancelled' \in [Task -> BOOLEAN]
        /\ expired' \in [Task -> BOOLEAN]
        /\ expires' \in [Task -> Time]
        /\ inputOn' \in BOOLEAN /\ outputOn' \in BOOLEAN
    <3>1. now + Remaining(c) \in Nat
      BY <1>2 DEF Time
    <3>2. QED
      BY <1>2, <1>3, <3>1, StartType DEF AnswerStartsStatement
  <2>2. QED
    BY <1>1, <1>3, <2>1 DEF TypeOK, HumanAnswered, AnswerStartsStatement
<1>4. CASE AnswerKeepsStatement(c)
  <2>1. expires' \in [Task -> Time]
    BY <1>2, <1>4 DEF AnswerKeepsStatement, TypeOK
  <2>2. QED
    BY <1>1, <1>2, <1>4, <2>1 DEF TypeOK, HumanAnswered, AnswerKeepsStatement
<1>5. CASE AnswerStopsAtOnce(c)
  <2>1. /\ announcement' \in Task \cup {NoTask}
        /\ pc' \in [Task -> PC]
        /\ cancelled' \in [Task -> BOOLEAN]
        /\ expired' \in [Task -> BOOLEAN]
        /\ expires' \in [Task -> Time]
    BY <1>5, CancelType DEF AnswerStopsAtOnce
  <2>2. QED
    BY <1>1, <1>2, <1>5, <2>1 DEF TypeOK, HumanAnswered, AnswerStopsAtOnce, Silence
<1>6. QED
  BY <1>3, <1>4, <1>5 DEF HumanAnswered

LEMMA TransferRequestedType ==
  ASSUME TypeOK, NEW c \in Command, TransferRequested(c)
  PROVE  TypeOK'
<1>1. seen' \in Seq(Id) /\ Len(seen') <= SeenCap
  BY RememberType DEF TypeOK, TransferRequested, Command
<1>2. c.deadline \in Time /\ c.deadline \in Nat
  BY MaxTimeAssumption DEF Command, Time
<1>3. now + Grace \in Int /\ now + Grace >= 0
  BY GraceAssumption, MaxTimeAssumption DEF TypeOK, Time
<1>4. Lesser(c.deadline, now + Grace) \in Time
  BY <1>2, <1>3, TimeOps
<1>5. /\ deadline' \in Time
      /\ announcement' \in Task \cup {NoTask}
      /\ pc' \in [Task -> PC]
      /\ cancelled' \in [Task -> BOOLEAN]
      /\ expired' \in [Task -> BOOLEAN]
      /\ expires' \in [Task -> Time]
      /\ inputOn' \in BOOLEAN /\ outputOn' \in BOOLEAN
  <2>1. CASE ready
    BY <1>2, <1>4, <2>1, StartType DEF TransferRequested
  <2>2. CASE ~ready
    BY <1>2, <2>2 DEF TransferRequested, TypeOK, taskVars, audioVars
  <2>3. QED
    BY <2>1, <2>2
<1>6. QED
  BY <1>1, <1>5 DEF TypeOK, TransferRequested, jobVars

LEMMA TransferFailedType ==
  ASSUME TypeOK, NEW c \in Command, TransferFailed(c)
  PROVE  TypeOK'
<1>1. seen' \in Seq(Id) /\ Len(seen') <= SeenCap
  BY RememberType DEF TypeOK, TransferFailed, Command
<1>2. /\ announcement' \in Task \cup {NoTask}
      /\ pc' \in [Task -> PC]
      /\ cancelled' \in [Task -> BOOLEAN]
      /\ expired' \in [Task -> BOOLEAN]
      /\ expires' \in [Task -> Time]
  BY CancelType DEF TransferFailed
<1>3. inputOn' \in BOOLEAN /\ outputOn' \in BOOLEAN
  BY DEF TypeOK, TransferFailed, audioVars
<1>4. /\ now' = now /\ ready' = ready /\ stopping' = stopping
      /\ deadline' = deadline /\ stopTask' = stopTask /\ watched' = watched
      /\ session' = session /\ statement' = statement /\ aborted' = aborted
      /\ cleanup' = cleanup /\ shutdown' = shutdown /\ transferring' = FALSE
  BY DEF TransferFailed, jobVars
<1>5. QED
  BY <1>1, <1>2, <1>3, <1>4, ZenonT(60) DEF TypeOK

LEMMA UseUpType ==
  ASSUME TypeOK, NEW c \in Command, UseUp(c)
  PROVE  TypeOK'
<1>1. seen' \in Seq(Id) /\ Len(seen') <= SeenCap
  BY RememberType DEF TypeOK, UseUp, Command
<1>2. QED
  BY <1>1 DEF TypeOK, UseUp, taskVars, jobVars, audioVars

LEMMA ActivateType == TypeOK /\ Activate => TypeOK'
<1> SUFFICES ASSUME TypeOK, Activate PROVE TypeOK'
  OBVIOUS
<1>1. deadline \in Nat /\ now + Grace \in Int /\ now + Grace >= 0
  BY GraceAssumption, MaxTimeAssumption DEF TypeOK, Time
<1>2. Lesser(deadline, now + Grace) \in Time
  BY <1>1, TimeOps DEF TypeOK
<1>3. CASE transferring
  <2>1. StartAnnouncement(deadline)
    BY <1>3 DEF Activate
  <2>2. QED
    BY <1>1, <1>2, <2>1, StartType DEF TypeOK, Activate, jobVars
<1>4. CASE ~transferring
  BY <1>4 DEF TypeOK, Activate, jobVars, taskVars
<1>5. QED
  BY <1>3, <1>4

LEMMA AnnounceType ==
  ASSUME TypeOK, NEW t \in Task, Announce(t)
  PROVE  TypeOK'
<1> USE DEF TypeOK, AnnounceUnchanged, jobVars, commandVars
<1>1. CASE Finish(t) /\ AnnounceUnchanged
  BY <1>1, FinishType
<1>2. CASE BeginAnnounce(t)
  <2>1. CASE now >= deadline
    BY <1>1, <1>2, <2>1 DEF BeginAnnounce
  <2>2. CASE ~(now >= deadline)
    <3>1. pc' \in [Task -> PC] /\ expires' \in [Task -> Time]
      BY <1>2, <2>2 DEF BeginAnnounce, PC
    <3>2. QED
      BY <1>2, <2>2, <3>1 DEF BeginAnnounce
  <2>3. QED
    BY <2>1, <2>2
<1>3. CASE NeverBegins(t)
  <2>1. pc' \in [Task -> PC] /\ cancelled' \in [Task -> BOOLEAN]
    BY <1>3 DEF NeverBegins, PC
  <2>2. QED
    BY <1>3, <2>1 DEF NeverBegins
<1>4. CASE Speak(t)
  <2>1. pc' \in [Task -> PC]
    BY <1>4 DEF Speak, PC
  <2>2. QED
    BY <1>4, <2>1 DEF Speak
<1>5. CASE AnnounceTimeout(t)
  BY <1>5 DEF AnnounceTimeout
<1>6. QED
  BY <1>1, <1>2, <1>3, <1>4, <1>5 DEF Announce, EndAnnounce, Unwind

LEMMA StopType == TypeOK /\ Stop => TypeOK'
<1> SUFFICES ASSUME TypeOK, Stop PROVE TypeOK'
  OBVIOUS
<1> USE DEF TypeOK, StopUnchanged, commandVars, taskVars, audioVars
<1>1. CASE AwaitStatement
  BY <1>1 DEF AwaitStatement
<1>2. CASE FinishHandoff
  <2>1. CancelAnnouncement
    BY <1>2 DEF FinishHandoff, LeaveRoom
  <2>2. QED
    BY <1>2, <2>1, CancelType, ZenonT(60) DEF FinishHandoff, LeaveRoom, Silence
<1>3. CASE BeginStop
  BY <1>3 DEF BeginStop
<1>4. CASE EndStop
  BY <1>4 DEF EndStop
<1>5. QED
  BY <1>1, <1>2, <1>3, <1>4 DEF Stop

LEMMA JobType == TypeOK /\ Job => TypeOK'
<1> SUFFICES ASSUME TypeOK, Job PROVE TypeOK'
  OBVIOUS
<1> USE DEF TypeOK, commandVars, taskVars, audioVars
<1>1. ASSUME NEW hasStatement \in BOOLEAN, CreateSession(hasStatement) PROVE TypeOK'
  BY <1>1, ZenonT(60) DEF CreateSession
<1>2. CASE Activate
  BY <1>2, ActivateType
<1>3. CASE Abort
  BY <1>3, ZenonT(60) DEF Abort, Silence
<1>4. CASE BeginCleanup
  BY <1>4, ZenonT(60) DEF BeginCleanup, Silence
<1>5. CASE CloseControl
  BY <1>5, CancelType DEF CloseControl
<1>6. CASE EndCleanup
  BY <1>6, ZenonT(60) DEF EndCleanup
<1>7. QED
  BY <1>1, <1>2, <1>3, <1>4, <1>5, <1>6 DEF Job

LEMMA NextType == TypeOK /\ [Next]_vars => TypeOK'
<1> SUFFICES ASSUME TypeOK, [Next]_vars PROVE TypeOK'
  OBVIOUS
<1>1. ASSUME NEW c \in Command, Receive(c) PROVE TypeOK'
  BY <1>1, HumanAnsweredType, TransferRequestedType, TransferFailedType, UseUpType
     DEF Receive, LateRequest, LateFailure
<1>2. ASSUME NEW t \in Task, Announce(t) PROVE TypeOK'
  BY <1>2, AnnounceType
<1>3. CASE Tick
  <2>1. now' \in Time
    BY <1>3, MaxTimeAssumption DEF Tick, TypeOK, Time
  <2>2. QED
    BY <1>3, <2>1 DEF Tick, TypeOK, taskVars, audioVars, jobVars, commandVars
<1>4. CASE UNCHANGED vars
  BY <1>4 DEF vars, TypeOK, taskVars, audioVars, jobVars, commandVars
<1>5. QED
  BY <1>1, <1>2, <1>3, <1>4, StopType, JobType DEF Next

\* Type correctness of the control handler: at every step of receive(), activate(),
\* the announcement and the stop task, its deadlines stay within the clock, its
\* memory within SeenCap and its tasks in the states the code knows.
THEOREM TypeCorrect == Spec => []TypeOK
<1>1. QED
  BY InitType, NextType, PTL DEF Spec

-----------------------------------------------------------------------------
\* The parts of the invariant, for the rest of the module.
USE NoTaskAssumption
USE DEF HandlerInv, NoStrayAnnouncement, TasksAreTracked, ListensOnlyWhenScreening,
        ScreeningIsLive, OnlyTheStatementIsHeard, SilentOnceLeaving, HandoffAgrees,
        TimeoutRunning, Screening, Listening

LEMMA InitHandler == Init => HandlerInv
BY DEF Init

LEMMA AnswerHandler ==
  ASSUME TypeOK, HandlerInv, NEW c \in Command, HumanAnswered(c)
  PROVE  HandlerInv'

<1>1. CASE AnswerStartsStatement(c)
  BY <1>1 DEF TypeOK, HumanAnswered, AnswerStartsStatement, StartAnnouncement, Cancelled
<1>2. CASE AnswerKeepsStatement(c)
  BY <1>2 DEF TypeOK, HumanAnswered, AnswerKeepsStatement
<1>3. CASE AnswerStopsAtOnce(c)
  BY <1>3 DEF TypeOK, HumanAnswered, AnswerStopsAtOnce, CancelAnnouncement, Cancelled, Silence
<1>4. QED
  BY <1>1, <1>2, <1>3 DEF HumanAnswered

LEMMA ReceiveHandler ==
  ASSUME TypeOK, HandlerInv, NEW c \in Command, Receive(c)
  PROVE  HandlerInv'

<1>1. CASE TransferRequested(c)
  BY <1>1 DEF TypeOK, TransferRequested, StartAnnouncement, Cancelled, taskVars, audioVars,
              jobVars, Accepts
<1>2. CASE TransferFailed(c)
  BY <1>2 DEF TypeOK, TransferFailed, CancelAnnouncement, Cancelled, audioVars, jobVars, Accepts
<1>3. CASE UseUp(c)
  BY <1>3 DEF UseUp, taskVars, audioVars, jobVars
<1>4. QED
  BY <1>1, <1>2, <1>3, AnswerHandler DEF Receive, LateRequest, LateFailure

LEMMA AnnounceHandler ==
  ASSUME TypeOK, HandlerInv, NEW t \in Task, Announce(t)
  PROVE  HandlerInv'
<1> USE DEF AnnounceUnchanged, jobVars, commandVars
<1>1. CASE Finish(t) /\ AnnounceUnchanged
  BY <1>1 DEF TypeOK, Finish
<1>2. CASE BeginAnnounce(t)
  BY <1>1, <1>2 DEF TypeOK, BeginAnnounce
<1>3. CASE NeverBegins(t)
  BY <1>3 DEF TypeOK, NeverBegins
<1>4. CASE Speak(t)
  BY <1>4 DEF TypeOK, Speak, Undisturbed
<1>5. CASE AnnounceTimeout(t)
  BY <1>5 DEF TypeOK, AnnounceTimeout
<1>6. QED
  BY <1>1, <1>2, <1>3, <1>4, <1>5 DEF Announce, EndAnnounce, Unwind

LEMMA StopHandler == TypeOK /\ HandlerInv /\ Stop => HandlerInv'
<1> SUFFICES ASSUME TypeOK, HandlerInv, Stop PROVE HandlerInv'
  OBVIOUS
<1> USE DEF StopUnchanged, commandVars, taskVars, audioVars
<1>1. CASE AwaitStatement
  BY <1>1 DEF TypeOK, AwaitStatement
<1>2. CASE FinishHandoff
  BY <1>2 DEF TypeOK, FinishHandoff, LeaveRoom, CancelAnnouncement, Cancelled, Silence
<1>3. CASE BeginStop
  BY <1>3 DEF BeginStop
<1>4. CASE EndStop
  BY <1>4 DEF EndStop
<1>5. QED
  BY <1>1, <1>2, <1>3, <1>4 DEF Stop

LEMMA JobHandler == TypeOK /\ HandlerInv /\ Job => HandlerInv'
<1> SUFFICES ASSUME TypeOK, HandlerInv, Job PROVE HandlerInv'
  OBVIOUS
<1> USE DEF commandVars, taskVars, audioVars
<1>1. ASSUME NEW hasStatement \in BOOLEAN, CreateSession(hasStatement) PROVE HandlerInv'
  BY <1>1 DEF TypeOK, CreateSession
<1>2. CASE Activate
  BY <1>2 DEF TypeOK, Activate, StartAnnouncement, Cancelled, jobVars
<1>3. CASE Abort
  BY <1>3 DEF TypeOK, Abort, Silence
<1>4. CASE BeginCleanup
  BY <1>4 DEF TypeOK, BeginCleanup, Silence
<1>5. CASE CloseControl
  BY <1>5 DEF TypeOK, CloseControl, CancelAnnouncement, Cancelled
<1>6. CASE EndCleanup
  BY <1>6, ZenonT(60) DEF EndCleanup
<1>7. QED
  BY <1>1, <1>2, <1>3, <1>4, <1>5, <1>6 DEF Job

LEMMA NextHandler == TypeOK /\ HandlerInv /\ [Next]_vars => HandlerInv'
<1> SUFFICES ASSUME TypeOK, HandlerInv, [Next]_vars PROVE HandlerInv'
  OBVIOUS
<1>1. CASE Tick
  BY <1>1 DEF Tick, taskVars, audioVars, jobVars, commandVars
<1>2. CASE UNCHANGED vars
  BY <1>2 DEF vars, taskVars, audioVars, jobVars, commandVars
<1>3. ASSUME NEW c \in Command, Receive(c) PROVE HandlerInv'
  BY <1>3, ReceiveHandler
<1>4. ASSUME NEW t \in Task, Announce(t) PROVE HandlerInv'
  BY <1>4, AnnounceHandler
<1>5. QED
  BY <1>1, <1>2, <1>3, <1>4, StopHandler, JobHandler DEF Next

-----------------------------------------------------------------------------
\* A statement that is being spoken when a human answers is disturbed by two
\* things only, its timeout and the end of the handoff: both wait for `deadline`.
LEMMA CutOnlyAtDeadline ==
  ASSUME TypeOK, HandlerInv, [Next]_vars, NEW t \in Task,
         stopping, Listening, pc[t] = "speaking", Undisturbed(t), ~Undisturbed(t)'
  PROVE  now >= deadline
<1> USE DEF Undisturbed
<1>1. announcement = t
  OBVIOUS
<1>2. ASSUME NEW c \in Command, Receive(c) PROVE FALSE
  BY <1>2 DEF Receive, LateRequest, LateFailure, HumanAnswered, TransferRequested,
              TransferFailed, UseUp, Accepts
<1>3. ASSUME NEW u \in Task, Announce(u) PROVE now >= deadline
  <2>1. CASE AnnounceTimeout(u)
    BY <1>1, <2>1 DEF AnnounceTimeout, TypeOK
  <2>2. CASE ~AnnounceTimeout(u)
    BY <1>3, <2>2 DEF Announce, BeginAnnounce, NeverBegins, Speak, EndAnnounce, Unwind,
                      Finish, TypeOK
  <2>3. QED
    BY <2>1, <2>2
<1>4. CASE Stop
  <2>1. CASE FinishHandoff
    BY <1>1, <2>1 DEF FinishHandoff
  <2>2. CASE ~FinishHandoff
    BY <1>4, <2>2 DEF Stop, AwaitStatement, BeginStop, EndStop, taskVars
  <2>3. QED
    BY <2>1, <2>2
<1>5. CASE Job
  BY <1>5 DEF Job, CreateSession, Activate, Abort, BeginCleanup, CloseControl, EndCleanup,
              taskVars
<1>6. CASE Tick \/ UNCHANGED vars
  BY <1>6 DEF Tick, vars, taskVars
<1>7. QED
  BY <1>2, <1>3, <1>4, <1>5, <1>6 DEF Next

-----------------------------------------------------------------------------
\* The theorems: from here on the invariant is opaque again.
HIDE DEF HandlerInv, NoStrayAnnouncement, TasksAreTracked, ListensOnlyWhenScreening,
         ScreeningIsLive, OnlyTheStatementIsHeard, SilentOnceLeaving, HandoffAgrees,
         TimeoutRunning, Screening, Listening

\* The handler's inductive invariant: whatever order commands, timeouts, task
\* resumptions, activation, abort and cleanup take, the audio switches agree with
\* the flags and every running announcement is the one the handler knows.
THEOREM HandlerCorrect == Spec => []HandlerInv
<1>1. QED
  BY InitType, NextType, InitHandler, NextHandler, PTL DEF Spec

\* receive(), activate() and _announce(): a caller is listened to only while the
\* agent screens, so a failure never restarts an agent after a human answered.
THEOREM OnlyScreeningListens == Spec => []ListensOnlyWhenScreening
<1>1. HandlerInv => ListensOnlyWhenScreening
  BY DEF HandlerInv
<1>2. QED
  BY <1>1, HandlerCorrect, PTL

\* The finally clause of _announce: a task that transfer_failed made obsolete does
\* not mute the restored audio, however late the loop resumes it.
THEOREM ScreeningKeepsItsAudio == Spec => []ScreeningIsLive
<1>1. HandlerInv => ScreeningIsLive
  BY DEF HandlerInv
<1>2. QED
  BY <1>1, HandlerCorrect, PTL

\* _start_announcement and _silence: with turns suspended, only the current
\* announcement is heard.
THEOREM OnlyStatementHeard == Spec => []OnlyTheStatementIsHeard
<1>1. HandlerInv => OnlyTheStatementIsHeard
  BY DEF HandlerInv
<1>2. QED
  BY <1>1, HandlerCorrect, PTL

\* _finish_handoff and _stop: once the agent is leaving, its output stays closed.
THEOREM LeavesSilently == Spec => []SilentOnceLeaving
<1>1. HandlerInv => SilentOnceLeaving
  BY DEF HandlerInv
<1>2. QED
  BY <1>1, HandlerCorrect, PTL

\* human_answered: the running statement keeps the time it was given, although its
\* own timeout was armed earlier and for another deadline.
THEOREM OutroNotCutShort == Spec => OutroKeepsItsTime
<1>1. TypeOK /\ HandlerInv /\ [Next]_vars =>
        [ \A t \in Task :
            stopping /\ Listening /\ pc[t] = "speaking" /\ Undisturbed(t) /\ ~Undisturbed(t)'
            => now >= deadline ]_vars
  BY CutOnlyAtDeadline
<1>2. QED
  BY <1>1, TypeCorrect, HandlerCorrect, PTL DEF Spec, OutroKeepsItsTime
-----------------------------------------------------------------------------
\* Every step of the control handler is a step of the takeover that the PBX is
\* promised, or invisible to it.
USE DEF HandlerInv, NoStrayAnnouncement, TasksAreTracked, ListensOnlyWhenScreening,
        ScreeningIsLive, OnlyTheStatementIsHeard, SilentOnceLeaving, Screening, Listening, phase

LEMMA InitRefines == Init => Promise!Init
BY DEF Init, Promise!Init

LEMMA AnswerRefines ==
  ASSUME TypeOK, HandlerInv, NEW c \in Command, HumanAnswered(c)
  PROVE  Promise!Handoff \/ Promise!End
<1>1. CASE AnswerStartsStatement(c)
  <2>1. phase = "screening" /\ phase' = "handoff"
    BY <1>1 DEF TypeOK, HumanAnswered, Accepts, AnswerStartsStatement
  <2>2. QED
    BY <1>1, <2>1 DEF TypeOK, AnswerStartsStatement, StartAnnouncement, Promise!Handoff
<1>2. CASE AnswerKeepsStatement(c)
  <2>1. phase = "suspended" /\ phase' = "handoff"
    BY <1>2 DEF TypeOK, HumanAnswered, Accepts, AnswerKeepsStatement
  <2>2. QED
    BY <1>2, <2>1 DEF TypeOK, AnswerKeepsStatement, Promise!Handoff
<1>3. CASE AnswerStopsAtOnce(c)
  BY <1>3 DEF TypeOK, HumanAnswered, AnswerStopsAtOnce, Silence, Promise!End
<1>4. QED
  BY <1>1, <1>2, <1>3 DEF HumanAnswered

LEMMA ReceiveRefines ==
  ASSUME TypeOK, HandlerInv, NEW c \in Command, Receive(c)
  PROVE  [Promise!Next]_Promise!vars
<1> USE DEF Promise!Next, Promise!vars
<1>1. CASE TransferRequested(c)
  <2>1. CASE ready
    BY <1>1, <2>1 DEF TypeOK, TransferRequested, StartAnnouncement, Accepts, jobVars, Promise!Suspend
  <2>2. CASE ~ready
    BY <1>1, <2>2 DEF TypeOK, TransferRequested, Accepts, jobVars, taskVars, audioVars
  <2>3. QED
    BY <2>1, <2>2
<1>2. CASE TransferFailed(c)
  <2>1. CASE ready
    BY <1>2, <2>1 DEF TypeOK, TransferFailed, Accepts, jobVars, Promise!Screen
  <2>2. CASE ~ready
    BY <1>2, <2>2 DEF TypeOK, TransferFailed, Accepts, jobVars, audioVars
  <2>3. QED
    BY <2>1, <2>2
<1>3. CASE UseUp(c)
  BY <1>3 DEF UseUp, jobVars, audioVars
<1>4. QED
  BY <1>1, <1>2, <1>3, AnswerRefines DEF Receive, LateRequest, LateFailure

LEMMA AnnounceRefines ==
  ASSUME TypeOK, HandlerInv, NEW t \in Task, Announce(t)
  PROVE  [Promise!Next]_Promise!vars
<1> USE DEF Promise!Next, Promise!vars, AnnounceUnchanged, jobVars, commandVars
<1>1. AnnounceUnchanged
  BY DEF Announce, BeginAnnounce, NeverBegins, Speak, EndAnnounce, AnnounceTimeout, Unwind
<1>2. phase' = phase /\ inputOn' = inputOn
  BY <1>1
<1>3. announcement = t => phase \in {"suspended", "handoff", "over"}
  BY DEF TypeOK
<1>4. CASE Finish(t)
  BY <1>2, <1>3, <1>4 DEF TypeOK, Finish, Promise!Hush
<1>5. CASE Speak(t)
  BY <1>2, <1>3, <1>5 DEF Speak, Undisturbed, Promise!Speak
<1>6. CASE outputOn' = outputOn
  BY <1>2, <1>6
<1>7. QED
  BY <1>4, <1>5, <1>6 DEF Announce, BeginAnnounce, NeverBegins, EndAnnounce, AnnounceTimeout, Unwind

LEMMA StopRefines ==
  ASSUME TypeOK, HandlerInv, Stop
  PROVE  [Promise!Next]_Promise!vars
<1> USE DEF Promise!Next, Promise!vars, StopUnchanged, commandVars, audioVars
<1>1. CASE AwaitStatement
  BY <1>1 DEF AwaitStatement
<1>2. CASE FinishHandoff
  BY <1>2 DEF FinishHandoff, LeaveRoom, Silence, Promise!End
<1>3. CASE BeginStop
  BY <1>3 DEF BeginStop
<1>4. CASE EndStop
  BY <1>4 DEF EndStop
<1>5. QED
  BY <1>1, <1>2, <1>3, <1>4 DEF Stop

LEMMA JobRefines ==
  ASSUME TypeOK, HandlerInv, Job
  PROVE  [Promise!Next]_Promise!vars
<1> USE DEF Promise!Next, Promise!vars, jobVars, commandVars, audioVars
<1>1. ASSUME NEW hasStatement \in BOOLEAN, CreateSession(hasStatement)
      PROVE  UNCHANGED Promise!vars
  BY <1>1 DEF TypeOK, CreateSession
<1>2. CASE Activate
  <2>1. phase = "starting"
    BY <1>2 DEF TypeOK, Activate
  <2>2. CASE transferring
    <3>1. phase' = "suspended" /\ inputOn' = FALSE /\ outputOn' = FALSE
      BY <1>2, <2>2 DEF TypeOK, Activate, StartAnnouncement
    <3>2. QED
      BY <2>1, <3>1 DEF Promise!Suspend
  <2>3. CASE ~transferring
    <3>1. phase' = "screening" /\ inputOn' = TRUE /\ outputOn' = TRUE
      BY <1>2, <2>3 DEF TypeOK, Activate
    <3>2. QED
      BY <2>1, <3>1 DEF Promise!Screen
  <2>4. QED
    BY <2>2, <2>3
<1>3. CASE Abort
  BY <1>3 DEF Abort, Silence, Promise!End
<1>4. CASE BeginCleanup
  BY <1>4 DEF BeginCleanup, Silence, Promise!End
<1>5. CASE CloseControl
  BY <1>5 DEF CloseControl
<1>6. CASE EndCleanup
  BY <1>6 DEF EndCleanup
<1>7. QED
  BY <1>1, <1>2, <1>3, <1>4, <1>5, <1>6 DEF Job

LEMMA NextRefines ==
  TypeOK /\ HandlerInv /\ [Next]_vars => [Promise!Next]_Promise!vars
<1> SUFFICES ASSUME TypeOK, HandlerInv, [Next]_vars
             PROVE  [Promise!Next]_Promise!vars
  OBVIOUS
<1>1. ASSUME NEW c \in Command, Receive(c) PROVE [Promise!Next]_Promise!vars
  BY <1>1, ReceiveRefines
<1>2. ASSUME NEW t \in Task, Announce(t) PROVE [Promise!Next]_Promise!vars
  BY <1>2, AnnounceRefines
<1>3. CASE Tick \/ UNCHANGED vars
  BY <1>3 DEF Tick, vars, audioVars, jobVars, commandVars, Promise!vars
<1>4. QED
  BY <1>1, <1>2, <1>3, StopRefines, JobRefines DEF Next

HIDE DEF HandlerInv, NoStrayAnnouncement, TasksAreTracked, ListensOnlyWhenScreening,
         ScreeningIsLive, OnlyTheStatementIsHeard, SilentOnceLeaving, Screening, Listening, phase

\* The whole handler, with its tasks, timers and deduplication, is an implementation
\* of the safety part of Takeover: turns only while screening, only the statement
\* while suspended or handing off, and no way back from a handoff.
THEOREM HandlerRefinesTakeover == Spec => RefinesTakeover
<1>1. Spec => Promise!Spec
  BY InitRefines, NextRefines, TypeCorrect, HandlerCorrect, PTL DEF Spec, Promise!Spec
<1>2. QED
  BY <1>1 DEF RefinesTakeover
=============================================================================
