------------------------------- MODULE Control -------------------------------
(***************************************************************************)
(* ControlHandler (control.py) inside one job: the takeover commands sent  *)
(* by the PBX integration, the task that speaks the transfer statement,    *)
(* the task that leaves the room after a human answered, and the parts of  *)
(* worker.py that create the session, make the handler ready, abort the    *)
(* call and clean up.                                                      *)
(*                                                                         *)
(* All of it runs on one asyncio thread, so a step of this module is what  *)
(* runs between two awaits.  Every packet callback is one step; a task     *)
(* takes one step each time it is resumed.  The room may deliver a command *)
(* any number of times, in any order, late or never.                       *)
(***************************************************************************)
EXTENDS Integers, Sequences

CONSTANTS
  Id,        \* command identifiers
  Task,      \* announcement tasks that may exist at the same time (a bound)
  NoTask,    \* "no task": the None of _announcement_task
  SeenCap,   \* entries of the deduplication memory (256 in the code)
  Grace,     \* the longest an announcement or a handoff may take (10 seconds)
  MaxTime    \* bound on the clock

ASSUME NoTaskAssumption == NoTask \notin Task
ASSUME SeenCapAssumption == SeenCap \in Nat \ {0}
ASSUME GraceAssumption == Grace \in Nat \ {0}
ASSUME MaxTimeAssumption == MaxTime \in Nat

VARIABLES
  now,           \* wall clock, in ticks
  session,       \* worker.session is not None
  statement,     \* the profile has a transfer statement
  ready, stopping, transferring,      \* flags of ControlHandler
  deadline,      \* _transfer_deadline_ms
  seen,          \* _seen, oldest first
  announcement,  \* _announcement_task
  pc,            \* where each announcement task is suspended
  cancelled,     \* task.cancel() was called and the task has not run since
  expires,       \* deadline of the task's asyncio.timeout
  expired,       \* that timeout has fired
  stopTask,      \* where _stop_task is suspended
  watched,       \* the announcement _finish_handoff waits for
  inputOn, outputOn,                  \* session.input / session.output
  aborted, cleanup,                   \* worker.aborted; progress of cleanup()
  shutdown       \* ctx.shutdown was called

taskVars == <<announcement, pc, cancelled, expires, expired>>
audioVars == <<inputOn, outputOn>>
jobVars == <<session, statement, aborted, cleanup, shutdown>>
commandVars == <<stopping, transferring, deadline, seen>>
vars == <<now, ready, taskVars, audioVars, jobVars, commandVars, stopTask, watched>>

Time == 0..MaxTime

\* A packet that ControlCommand.parse accepts; all others leave the state alone.
Command == [id : Id, deadline : Time \ {0}]

PC == {"free", "created", "interrupting", "speaking"}

Lesser(a, b) == IF a < b THEN a ELSE b
Greater(a, b) == IF a < b THEN b ELSE a

Seen(id) == \E k \in 1..Len(seen) : seen[k] = id

\* Mutant: the oldest id is never evicted.
RememberAll(id) == seen' = Append(seen, id)

\* Mutant: the oldest id is evicted one command too early.
RememberTooFew(id) ==
  LET longer == Append(seen, id)
  IN  seen' = IF Len(longer) >= SeenCap THEN Tail(longer) ELSE longer

Remember(id) ==
  LET longer == Append(seen, id)
  IN  seen' = IF Len(longer) > SeenCap THEN Tail(longer) ELSE longer

\* on_data is registered until cleanup() and ignores packets after abort().
Listening == ~aborted /\ cleanup = "none"

\* Mutant: receive() does not look at `stopping`.
AcceptsAfterTakeover(c) == Listening /\ ~Seen(c.id)

Accepts(c) == Listening /\ ~stopping /\ ~Seen(c.id)

\* Mutant: human_answered never reschedules the running timeout.
TimeoutNeverRunning == FALSE

\* `_announcement_timeout is not None and not _announcement_timeout.expired()`
TimeoutRunning ==
  /\ announcement # NoTask
  /\ pc[announcement] \in {"interrupting", "speaking"}
  /\ ~expired[announcement]

Cancelled == [t \in Task |-> cancelled[t] \/ t = announcement]

\* _cancel_announcement: the task learns of it when the loop resumes it.
CancelAnnouncement ==
  /\ cancelled' = Cancelled
  /\ announcement' = NoTask
  /\ UNCHANGED <<pc, expires, expired>>

\* The part of _start_announcement after its guard; `limit` is the deadline
\* held when it is called.
StartAnnouncement(limit) ==
  /\ deadline' = Lesser(limit, now + Grace)
  /\ cancelled' = Cancelled
  /\ inputOn' = FALSE
  /\ outputOn' = FALSE
  /\ \E t \in Task :
       /\ pc[t] = "free"
       /\ pc' = [pc EXCEPT ![t] = "created"]
       /\ announcement' = t
  /\ UNCHANGED <<expires, expired>>

\* _silence and worker.silence.  Without a session both switches are off already.
Silence == inputOn' = FALSE /\ outputOn' = FALSE

-----------------------------------------------------------------------------
\* human_answered.

Remaining(c) == Greater(0, Lesser(Grace, c.deadline - now))

\* Mutant: human_answered replays the statement of a transfer in progress.
AnswerReplaysStatement(c) ==
  /\ ready /\ Remaining(c) > 0 /\ statement
  /\ transferring' = TRUE
  /\ StartAnnouncement(now + Remaining(c))
  /\ stopTask' = "handoff"
  /\ UNCHANGED <<aborted, shutdown>>

\* The request was missed: speak the statement now, within the grace period.
AnswerStartsStatement(c) ==
  /\ ready /\ Remaining(c) > 0 /\ ~transferring /\ statement
  /\ transferring' = TRUE
  /\ StartAnnouncement(now + Remaining(c))
  /\ stopTask' = "handoff"
  /\ UNCHANGED <<aborted, shutdown>>

\* Mutant: the handoff keeps the deadline of the request.
AnswerKeepsDeadline(c) ==
  /\ ready /\ Remaining(c) > 0 /\ (transferring \/ ~statement)
  /\ announcement # NoTask
  /\ deadline' = deadline
  /\ expires' = IF TimeoutRunning
                THEN [expires EXCEPT ![announcement] = now + Remaining(c)]
                ELSE expires
  /\ inputOn' = FALSE
  /\ stopTask' = "handoff"
  /\ UNCHANGED <<transferring, announcement, pc, cancelled, expired, outputOn,
                 aborted, shutdown>>

\* The statement is being spoken: let it finish, until the new deadline.
AnswerKeepsStatement(c) ==
  /\ ready /\ Remaining(c) > 0 /\ (transferring \/ ~statement)
  /\ announcement # NoTask
  /\ deadline' = now + Remaining(c)
  /\ expires' = IF TimeoutRunning
                THEN [expires EXCEPT ![announcement] = now + Remaining(c)]
                ELSE expires
  /\ inputOn' = FALSE
  /\ stopTask' = "handoff"
  /\ UNCHANGED <<transferring, announcement, pc, cancelled, expired, outputOn,
                 aborted, shutdown>>

\* Nothing to wait for: silence and leave.  on_data aborts the job when the
\* takeover arrives before it is ready.
AnswerStopsAtOnce(c) ==
  /\ \/ ~ready
     \/ Remaining(c) = 0
     \/ (transferring \/ ~statement) /\ announcement = NoTask
  /\ deadline' = IF ready /\ Remaining(c) > 0 THEN now + Remaining(c) ELSE deadline
  /\ CancelAnnouncement
  /\ Silence
  /\ stopTask' = "direct"
  /\ aborted' = (aborted \/ ~ready)
  /\ shutdown' = (shutdown \/ ~ready)
  /\ UNCHANGED transferring

HumanAnswered(c) ==
  /\ Accepts(c)
  /\ Remember(c.id)
  /\ stopping' = TRUE
  /\ \/ AnswerStartsStatement(c)
     \/ AnswerKeepsStatement(c)
     \/ AnswerStopsAtOnce(c)
  /\ UNCHANGED <<now, ready, session, statement, cleanup, watched>>

-----------------------------------------------------------------------------
\* transfer_requested and transfer_failed.

TransferRequested(c) ==
  /\ Accepts(c)
  /\ c.deadline > now
  /\ Remember(c.id)
  /\ transferring' = TRUE
  /\ IF ready
     THEN StartAnnouncement(c.deadline)
     ELSE deadline' = c.deadline /\ UNCHANGED <<taskVars, audioVars>>
  /\ UNCHANGED <<now, ready, stopping, jobVars, stopTask, watched>>

TransferFailed(c) ==
  /\ Accepts(c)
  /\ c.deadline >= now
  /\ Remember(c.id)
  /\ transferring' = FALSE
  /\ CancelAnnouncement
  /\ IF ready
     THEN inputOn' = TRUE /\ outputOn' = TRUE
     ELSE UNCHANGED audioVars
  /\ UNCHANGED <<now, ready, stopping, deadline, jobVars, stopTask, watched>>

\* A request or a failure that arrives past its deadline only uses up its id.
UseUp(c) ==
  /\ Accepts(c)
  /\ Remember(c.id)
  /\ UNCHANGED <<now, ready, stopping, transferring, deadline, taskVars, audioVars,
                 jobVars, stopTask, watched>>

LateRequest(c) == c.deadline <= now /\ UseUp(c)
LateFailure(c) == c.deadline < now /\ UseUp(c)

-----------------------------------------------------------------------------
\* Startup, seen from the handler.

\* worker.py: the authorized session exists, muted, and the handler knows it.
CreateSession(hasStatement) ==
  /\ Listening /\ ~stopping /\ ~session
  /\ session' = TRUE
  /\ statement' = hasStatement
  /\ inputOn' = FALSE /\ outputOn' = FALSE
  /\ UNCHANGED <<now, ready, taskVars, commandVars, aborted, cleanup, shutdown,
                 stopTask, watched>>

\* Mutant: the opening is spoken although a transfer was requested during startup.
ActivateRegardless ==
  /\ Listening /\ ~stopping /\ session /\ ~ready
  /\ ready' = TRUE
  /\ inputOn' = TRUE /\ outputOn' = TRUE
  /\ UNCHANGED <<taskVars, deadline>>
  /\ UNCHANGED <<now, stopping, transferring, seen, jobVars, stopTask, watched>>

\* activate() and, when it returns True, the lines after it that enable audio.
Activate ==
  /\ Listening /\ ~stopping /\ session /\ ~ready
  /\ ready' = TRUE
  /\ IF transferring
     THEN StartAnnouncement(deadline)
     ELSE /\ inputOn' = TRUE /\ outputOn' = TRUE
          /\ UNCHANGED <<taskVars, deadline>>
  /\ UNCHANGED <<now, stopping, transferring, seen, jobVars, stopTask, watched>>

-----------------------------------------------------------------------------
\* _announce, one step per resumption of task t.

\* Mutant: an obsolete task mutes the output too.
FinishMutes(t) ==
  /\ pc' = [pc EXCEPT ![t] = "free"]
  /\ cancelled' = [cancelled EXCEPT ![t] = FALSE]
  /\ expired' = [expired EXCEPT ![t] = FALSE]
  /\ expires' = [expires EXCEPT ![t] = 0]
  /\ announcement' = (IF announcement = t THEN NoTask ELSE announcement)
  /\ outputOn' = FALSE

\* Mutant: the output stays open after the statement.
FinishLeavesOpen(t) ==
  /\ pc' = [pc EXCEPT ![t] = "free"]
  /\ cancelled' = [cancelled EXCEPT ![t] = FALSE]
  /\ expired' = [expired EXCEPT ![t] = FALSE]
  /\ expires' = [expires EXCEPT ![t] = 0]
  /\ announcement' = (IF announcement = t THEN NoTask ELSE announcement)
  /\ UNCHANGED outputOn

\* The finally clause.  Only the current task mutes the output.
Finish(t) ==
  /\ pc' = [pc EXCEPT ![t] = "free"]
  /\ cancelled' = [cancelled EXCEPT ![t] = FALSE]
  /\ expired' = [expired EXCEPT ![t] = FALSE]
  /\ expires' = [expires EXCEPT ![t] = 0]
  /\ IF announcement = t
     THEN announcement' = NoTask /\ outputOn' = FALSE
     ELSE UNCHANGED <<announcement, outputOn>>

AnnounceUnchanged == UNCHANGED <<now, ready, jobVars, commandVars, stopTask, watched, inputOn>>

Undisturbed(t) == ~cancelled[t] /\ ~expired[t]

\* First step: give up if there is no time left, else await the interruption.
BeginAnnounce(t) ==
  /\ pc[t] = "created" /\ ~cancelled[t]
  /\ IF now >= deadline
     THEN Finish(t)
     ELSE /\ pc' = [pc EXCEPT ![t] = "interrupting"]
          /\ expires' = [expires EXCEPT ![t] = deadline]
          /\ UNCHANGED <<announcement, cancelled, expired, outputOn>>
  /\ AnnounceUnchanged

\* Cancelled before its first step: asyncio never enters the coroutine body.
NeverBegins(t) ==
  /\ pc[t] = "created" /\ cancelled[t]
  /\ pc' = [pc EXCEPT ![t] = "free"]
  /\ cancelled' = [cancelled EXCEPT ![t] = FALSE]
  /\ UNCHANGED <<announcement, expires, expired, outputOn>>
  /\ AnnounceUnchanged

\* The interruption is done: open the output and say the statement.
Speak(t) ==
  /\ pc[t] = "interrupting" /\ Undisturbed(t) /\ statement
  /\ pc' = [pc EXCEPT ![t] = "speaking"]
  /\ outputOn' = TRUE
  /\ UNCHANGED <<announcement, cancelled, expires, expired>>
  /\ AnnounceUnchanged

\* Playout ended, interrupt() or say() raised, or there is no statement to say.
EndAnnounce(t) ==
  /\ pc[t] \in {"interrupting", "speaking"} /\ Undisturbed(t)
  /\ Finish(t)
  /\ AnnounceUnchanged

\* asyncio.timeout fires: the task is cancelled from inside.
AnnounceTimeout(t) ==
  /\ pc[t] \in {"interrupting", "speaking"} /\ Undisturbed(t)
  /\ now >= expires[t]
  /\ expired' = [expired EXCEPT ![t] = TRUE]
  /\ UNCHANGED <<announcement, pc, cancelled, expires, outputOn>>
  /\ AnnounceUnchanged

\* Mutant: the task swallows the cancellation and goes on waiting.
UnwindSwallowed(t) ==
  /\ pc[t] \in {"interrupting", "speaking"} /\ ~Undisturbed(t)
  /\ cancelled' = [cancelled EXCEPT ![t] = FALSE]
  /\ expired' = [expired EXCEPT ![t] = FALSE]
  /\ UNCHANGED <<announcement, pc, expires, outputOn>>
  /\ AnnounceUnchanged

\* The loop delivers the cancellation or the timeout.
Unwind(t) ==
  /\ pc[t] \in {"interrupting", "speaking"} /\ ~Undisturbed(t)
  /\ Finish(t)
  /\ AnnounceUnchanged

-----------------------------------------------------------------------------
\* _finish_handoff and _stop.  Nothing changes `deadline` after a takeover, so
\* the value passed to _finish_handoff is `deadline`.

StopUnchanged == UNCHANGED <<now, ready, commandVars, session, statement, cleanup>>

\* Mutant: silences without cancelling the announcement.
LeaveRoomSpeaking ==
  /\ UNCHANGED taskVars
  /\ Silence
  /\ stopTask' = "disconnecting"

LeaveRoom ==
  /\ CancelAnnouncement
  /\ Silence
  /\ stopTask' = "disconnecting"

\* The await of _finish_handoff, if the announcement is still there.
AwaitStatement ==
  /\ stopTask = "handoff" /\ announcement # NoTask
  /\ stopTask' = "waiting" /\ watched' = announcement
  /\ UNCHANGED <<taskVars, audioVars, aborted, shutdown>>
  /\ StopUnchanged

\* Mutant: forgets that the announcement may be over when the task starts.
FinishHandoffWaiting ==
  /\ stopTask = "waiting" /\ (pc[watched] = "free" \/ now >= deadline)
  /\ LeaveRoom
  /\ UNCHANGED <<watched, aborted, shutdown>>
  /\ StopUnchanged

\* Statement over, deadline passed or announcement cancelled: silence, disconnect.
FinishHandoff ==
  /\ \/ stopTask = "handoff" /\ announcement = NoTask
     \/ stopTask = "waiting" /\ (pc[watched] = "free" \/ now >= deadline)
  /\ LeaveRoom
  /\ UNCHANGED <<watched, aborted, shutdown>>
  /\ StopUnchanged

\* First step of _stop when it is the task itself.
BeginStop ==
  /\ stopTask = "direct"
  /\ stopTask' = "disconnecting"
  /\ UNCHANGED <<taskVars, audioVars, watched, aborted, shutdown>>
  /\ StopUnchanged

\* disconnect() returned, raised, timed out or was cancelled.
EndStop ==
  /\ stopTask = "disconnecting"
  /\ stopTask' = "done"
  /\ shutdown' = TRUE
  /\ UNCHANGED <<taskVars, audioVars, watched, aborted>>
  /\ StopUnchanged

-----------------------------------------------------------------------------
\* abort() and cleanup() of worker.py.

\* SIP leg lost, session closed, transcript failure or failed startup.
Abort ==
  /\ Listening
  /\ aborted' = TRUE
  /\ shutdown' = TRUE
  /\ Silence
  /\ UNCHANGED <<now, ready, session, statement, cleanup, taskVars, commandVars,
                 stopTask, watched>>

\* cleanup() up to its first await: the SDK or the end of a failed startup calls it.
BeginCleanup ==
  /\ cleanup = "none"
  /\ cleanup' = "resources"
  /\ ready' = FALSE
  /\ Silence
  /\ UNCHANGED <<now, session, statement, aborted, shutdown, taskVars, commandVars,
                 stopTask, watched>>

\* ControlHandler.close, after history and publisher were closed.
CloseControl ==
  /\ cleanup = "resources"
  /\ cleanup' = "control"
  /\ CancelAnnouncement
  /\ UNCHANGED <<now, ready, session, statement, aborted, shutdown, audioVars,
                 commandVars, stopTask, watched>>

\* close() returned.  At its two second limit it cancels a hanging disconnect,
\* which is EndStop; the announcement and the handoff are over long before.
EndCleanup ==
  /\ cleanup = "control"
  /\ \A t \in Task : pc[t] = "free"
  /\ stopTask \in {"none", "done"}
  /\ cleanup' = "done"
  /\ UNCHANGED <<now, ready, session, statement, aborted, shutdown, taskVars,
                 audioVars, commandVars, stopTask, watched>>

Tick ==
  /\ now < MaxTime
  /\ now' = now + 1
  /\ UNCHANGED <<ready, taskVars, audioVars, jobVars, commandVars, stopTask, watched>>

-----------------------------------------------------------------------------
Init ==
  /\ now = 0
  /\ session = FALSE /\ statement = FALSE
  /\ ready = FALSE /\ stopping = FALSE /\ transferring = FALSE
  /\ deadline = 0
  /\ seen = <<>>
  /\ announcement = NoTask
  /\ pc = [t \in Task |-> "free"]
  /\ cancelled = [t \in Task |-> FALSE]
  /\ expires = [t \in Task |-> 0]
  /\ expired = [t \in Task |-> FALSE]
  /\ stopTask = "none" /\ watched = NoTask
  /\ inputOn = FALSE /\ outputOn = FALSE
  /\ aborted = FALSE /\ cleanup = "none" /\ shutdown = FALSE

Receive(c) ==
  \/ HumanAnswered(c)
  \/ TransferRequested(c)
  \/ TransferFailed(c)
  \/ LateRequest(c)
  \/ LateFailure(c)

Announce(t) ==
  \/ BeginAnnounce(t)
  \/ NeverBegins(t)
  \/ Speak(t)
  \/ EndAnnounce(t)
  \/ AnnounceTimeout(t)
  \/ Unwind(t)

Stop == AwaitStatement \/ FinishHandoff \/ BeginStop \/ EndStop

Job ==
  \/ \E hasStatement \in BOOLEAN : CreateSession(hasStatement)
  \/ Activate
  \/ Abort
  \/ BeginCleanup
  \/ CloseControl
  \/ EndCleanup

Next ==
  \/ \E c \in Command : Receive(c)
  \/ \E t \in Task : Announce(t)
  \/ Stop
  \/ Job
  \/ Tick

Spec == Init /\ [][Next]_vars

(***************************************************************************)
(* Fairness: the loop resumes every runnable task and fires every timer,   *)
(* so the clock advances; the SDK runs the shutdown callbacks after        *)
(* ctx.shutdown.  Nothing is assumed of the commands, of Speak and         *)
(* EndAnnounce (interrupt() and playout may hang forever), nor of Abort.   *)
(* EndStop is fair because disconnect() is bounded by wait_for.            *)
(***************************************************************************)
Fairness ==
  /\ WF_vars(Tick)
  /\ \A t \in Task :
       WF_vars(BeginAnnounce(t) \/ NeverBegins(t) \/ AnnounceTimeout(t) \/ Unwind(t))
  /\ WF_vars(Stop)
  /\ WF_vars(shutdown /\ BeginCleanup)
  /\ WF_vars(CloseControl)
  /\ WF_vars(EndCleanup)

FairSpec == Spec /\ Fairness

-----------------------------------------------------------------------------
\* Type invariant of ControlHandler and of the job state it shares.
TypeOK ==
  /\ now \in Time /\ deadline \in Time
  /\ session \in BOOLEAN /\ statement \in BOOLEAN
  /\ ready \in BOOLEAN /\ stopping \in BOOLEAN /\ transferring \in BOOLEAN
  /\ seen \in Seq(Id) /\ Len(seen) <= SeenCap
  /\ announcement \in Task \cup {NoTask} /\ watched \in Task \cup {NoTask}
  /\ pc \in [Task -> PC]
  /\ cancelled \in [Task -> BOOLEAN] /\ expired \in [Task -> BOOLEAN]
  /\ expires \in [Task -> Time]
  /\ stopTask \in {"none", "handoff", "waiting", "direct", "disconnecting", "done"}
  /\ inputOn \in BOOLEAN /\ outputOn \in BOOLEAN
  /\ aborted \in BOOLEAN /\ shutdown \in BOOLEAN
  /\ cleanup \in {"none", "resources", "control", "done"}

\* The agent is having its ordinary conversation with the caller.
Screening == ready /\ ~transferring /\ ~stopping /\ Listening

\* README "human_answered stops new turns", "Failure cannot restart an agent":
\* the caller is listened to only while screening, whatever order requests,
\* answers, failures, activation, abort and cleanup come in.
ListensOnlyWhenScreening == inputOn => Screening

\* control.py "An obsolete task must not mute audio restored by transfer_failed":
\* while the agent screens, no leftover announcement task has taken its audio away.
ScreeningIsLive == Screening => inputOn /\ outputOn

\* control.py "No ordinary turns or MOH should compete with the profile
\* statement": once ordinary turns are suspended the caller hears the agent
\* only while the current announcement is speaking.
OnlyTheStatementIsHeard ==
  outputOn /\ Listening /\ ~Screening =>
    announcement # NoTask /\ pc[announcement] = "speaking"

\* Whatever cancels and restarts announcements, no task that could still open
\* the output escapes from _announcement_task.
NoStrayAnnouncement ==
  \A t \in Task : pc[t] # "free" /\ ~cancelled[t] => announcement = t

\* README "then silences and disconnects": from the moment the agent starts to
\* leave the room, nothing opens its output again.
SilentOnceLeaving ==
  stopTask \in {"direct", "disconnecting", "done"} => ~outputOn /\ announcement = NoTask

\* The book-keeping the invariants above rest on: the current announcement is a
\* task that still runs and was not cancelled, in a call that is being transferred
\* and was ready; a task that ended holds no cancellation; only a takeover stops.
TasksAreTracked ==
  /\ announcement # NoTask =>
       /\ transferring /\ (ready \/ cleanup # "none")
       /\ pc[announcement] # "free" /\ ~cancelled[announcement]
  /\ \A t \in Task : pc[t] = "free" => ~cancelled[t]
  /\ stopTask # "none" => stopping
  /\ ready => session

\* After a takeover the statement's own timeout and the deadline of the handoff
\* agree, although the timeout was armed for the deadline of the request, and the
\* handoff waits for the statement that is being spoken.
HandoffAgrees ==
  stopping /\ announcement # NoTask =>
    /\ TimeoutRunning => expires[announcement] = deadline
    /\ stopTask = "waiting" => watched = announcement

\* The inductive invariant of the handler: what it lets the caller hear and say
\* follows only together with the book-keeping of its tasks.
HandlerInv ==
  /\ NoStrayAnnouncement
  /\ TasksAreTracked
  /\ ListensOnlyWhenScreening
  /\ ScreeningIsLive
  /\ OnlyTheStatementIsHeard
  /\ SilentOnceLeaving
  /\ HandoffAgrees

\* README "keeping the current outro audible ... extending the running
\* announcement to the supplied post-answer grace deadline": after a takeover a
\* statement being spoken is cut only by that deadline (or by abort/cleanup),
\* although its own timeout was set earlier, for the deadline of the request.
OutroKeepsItsTime ==
  [][ \A t \in Task :
        stopping /\ Listening /\ pc[t] = "speaking" /\ Undisturbed(t) /\ ~Undisturbed(t)'
        => now >= deadline ]_vars

\* A takeover ends: even if interruption, playout and disconnect all hang, the
\* agent leaves the room and asks for the job to be shut down.
TakeoverCompletes == stopping ~> (stopTask = "done" /\ shutdown)

\* "Each close is bounded": after a shutdown request cleanup() always gets past
\* the control handler, so no announcement or stop task holds the worker.
CleanupCompletes == shutdown ~> (cleanup = "done")

\* abort() silences the session (test_sip_replacement_after_ready_silences_session);
\* this says that an aborted call stays silent.  It does not hold: abort() leaves
\* the announcement task alone, and one that was awaiting the interruption opens
\* the output again if the session still accepts say().
SilentAfterAbort == aborted => ~outputOn

-----------------------------------------------------------------------------
\* What the PBX is promised, Takeover, implemented by the handler.
phase ==
  CASE ~Listening \/ stopTask \in {"direct", "disconnecting", "done"} -> "over"
    [] Listening /\ stopTask \in {"handoff", "waiting"} -> "handoff"
    [] Screening -> "screening"
    [] Listening /\ ~ready /\ stopTask = "none" -> "starting"
    [] OTHER -> "suspended"

Promise == INSTANCE Takeover WITH phase <- phase, hears <- inputOn, speaks <- outputOn

\* README "Server takeover": the handler, with its tasks, timers and deduplication,
\* does nothing that Takeover does not allow.
RefinesTakeover == Promise!Spec

=============================================================================
