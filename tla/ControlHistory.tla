--------------------------- MODULE ControlHistory ---------------------------
(***************************************************************************)
(* Control with history variables, for properties about what was accepted  *)
(* and said before.  The history never influences the handler.             *)
(***************************************************************************)
EXTENDS Control, FiniteSets

VARIABLES
  last,    \* action of the last command that was accepted
  told,    \* the statement has begun in the current transfer
  known,   \* every id accepted so far
  since    \* for each known id, the ids accepted after it last was

histVars == <<last, told, known, since>>

Record(action, id) ==
  /\ last' = action
  /\ known' = known \cup {id}
  /\ since' = [i \in Id |-> IF i = id THEN {}
                            ELSE IF i \in known THEN since[i] \cup {id} ELSE {}]

RecordingReceive(c) ==
  \/ HumanAnswered(c) /\ Record("human_answered", c.id) /\ UNCHANGED told
  \/ TransferRequested(c) /\ Record("transfer_requested", c.id) /\ told' = FALSE
  \/ TransferFailed(c) /\ Record("transfer_failed", c.id) /\ told' = FALSE
  \/ LateRequest(c) /\ Record("transfer_requested", c.id) /\ UNCHANGED told
  \/ LateFailure(c) /\ Record("transfer_failed", c.id) /\ UNCHANGED told

RecordingAnnounce(t) ==
  /\ Announce(t)
  /\ told' = (told \/ pc'[t] = "speaking")
  /\ UNCHANGED <<last, known, since>>

HistoryInit == Init /\ last = "none" /\ told = FALSE /\ known = {} /\ since = [i \in Id |-> {}]

HistoryNext ==
  \/ \E c \in Command : RecordingReceive(c)
  \/ \E t \in Task : RecordingAnnounce(t)
  \/ (Stop \/ Job \/ Tick) /\ UNCHANGED histVars

HistorySpec == HistoryInit /\ [][HistoryNext]_<<vars, histVars>>

-----------------------------------------------------------------------------
\* README "speaks the profile's transferStatement once", "If the statement
\* already finished it is not replayed": between two commands that begin or end
\* a transfer the statement begins at most once, also across a takeover.
StatementSaidOnce ==
  [][ \A t \in Task : pc[t] # "speaking" /\ pc'[t] = "speaking" => ~told ]_<<vars, histVars>>

\* README "Command IDs use a bounded 256-entry deduplication cache": a repeated
\* command can take effect only after SeenCap other commands were accepted.
ForgottenOnlyWhenFull ==
  \A i \in known : ~Seen(i) => Cardinality(since[i]) >= SeenCap

\* What StatementSaidOnce rests on: once the statement has begun, the transfer it
\* belongs to is still on, the agent was ready for it, and an announcement that is
\* still there is the one being spoken, not another that waits for its turn.
NoSecondStatement ==
  told =>
    /\ transferring /\ (ready \/ cleanup # "none")
    /\ announcement # NoTask => pc[announcement] = "speaking"

\* What ForgottenOnlyWhenFull rests on: the memory holds each of its ids once, in the
\* order in which they were accepted, so its oldest id is older than all the others.
MemoryIsOrdered ==
  /\ \A k \in 1..Len(seen) : seen[k] \in known
  /\ \A j, k \in 1..Len(seen) : j < k => seen[j] # seen[k] /\ seen[k] \in since[seen[j]]

HistoryTypeOK ==
  /\ told \in BOOLEAN
  /\ known \subseteq Id /\ IsFiniteSet(known)
  /\ since \in [Id -> SUBSET known]

\* The inductive invariant of the history variables.
HistoryInv == HistoryTypeOK /\ NoSecondStatement /\ MemoryIsOrdered /\ ForgottenOnlyWhenFull

\* README "transfer_failed keeps screening active": when a failure was the last
\* command the handler accepted, a ready agent is no longer suspended.  It does
\* not hold for a failure that arrives past its deadline.
FailureResumesScreening == last = "transfer_failed" /\ ready => ~transferring
=============================================================================
