------------------------------ MODULE History ------------------------------
(***************************************************************************)
(* TranscriptHistory (transcript_history.py): the agent numbers every      *)
(* revision of an utterance, streams it to the room, and serves admin      *)
(* observers a snapshot of the whole conversation, frozen and read page by *)
(* page, while the conversation goes on.                                   *)
(*                                                                         *)
(* The observer (AidaAdmin, not in this repository) follows                *)
(* docs/TRANSCRIPT_HISTORY.md: it catches up after every join, buffers the *)
(* stream meanwhile, and merges by segment and revision.                   *)
(*                                                                         *)
(* The text of a row is the set of caller turns it quotes.  The SDK emits  *)
(* all transcripts of a turn before it commits the turn, but the next turn *)
(* may begin earlier than that.                                            *)
(***************************************************************************)
EXTENDS Naturals, Sequences, FiniteSets, Functions

CONSTANTS
  Observer,
  Capacity,      \* the live queue (128)
  MaxSnapshots,  \* simultaneous transfers (32)
  MaxTurn,       \* bound on caller turns
  MaxSequence,   \* bound on revisions
  MaxToken       \* bound on snapshots

ASSUME ObserverAssumption == IsFiniteSet(Observer)
ASSUME HistoryBounds ==
  /\ Capacity \in Nat \ {0} /\ MaxSnapshots \in Nat \ {0}
  /\ MaxTurn \in Nat /\ MaxSequence \in Nat /\ MaxToken \in Nat

VARIABLES
  sequence,   \* the last revision number
  items,      \* rows of session.history, as `committed` labels them
  pending,    \* the open caller row: empty or one row
  callerFinals,  \* turns quoted by caller_finals
  queue,      \* rows to stream
  sending,    \* the row _publish is sending: empty, or it and its audience
  snapshots,  \* the frozen snapshot of each observer
  closed, available,
  talking, done,    \* SDK: the turn being transcribed, the turns committed
  joined,           \* observers in the room
  inbox,            \* rows that reached an observer, not merged yet
  got, token,       \* the transfer an observer is in
  caught, view,     \* whether it caught up; the rows it shows
  frozen,           \* what the snapshot it reads held when it was frozen
  issued,           \* snapshots frozen so far
  missed            \* observers present when a row was dropped or not delivered

agentVars == <<sequence, items, pending, callerFinals, talking, done>>
streamVars == <<queue, sending, missed>>
transferVars == <<snapshots, issued>>
observerVars == <<joined, inbox, got, token, frozen, caught, view>>
lifeVars == <<closed, available>>
vars == <<agentVars, streamVars, transferVars, observerVars, lifeVars>>

Turn == 1..MaxTurn
NoSnapshot == [token |-> 0, rows |-> <<>>, old |-> FALSE]

\* _row
Row(segment, turns, final) ==
  [segment |-> segment, turns |-> turns, final |-> final, sequence |-> sequence + 1]

\* Mutant: the queue has no limit.
EnqueueAlways(row) == queue' = Append(queue, row) /\ UNCHANGED missed

\* _enqueue: a full queue drops the row.
Enqueue(row) ==
  IF Len(queue) < Capacity
  THEN queue' = Append(queue, row) /\ UNCHANGED missed
  ELSE missed' = missed \cup joined /\ UNCHANGED queue

\* Mutant: the snapshot leaves out the utterance in progress.
SnapshotCommitted == items

\* snapshot()
Snapshot == items \o pending

\* The text is never empty: without rows it is still one page.
Pages(rows) == IF rows = <<>> THEN 1 ELSE Len(rows)

-----------------------------------------------------------------------------
\* Events of the session.

Speaking == ~closed /\ available /\ sequence < MaxSequence

EventUnchanged == UNCHANGED <<sending, transferVars, observerVars, lifeVars>>

\* caller: a revision of the open row, or the first row of a new segment (a fresh
\* uuid, here the number of its first revision).
Caller(turn, final) ==
  /\ Speaking
  /\ turn > done /\ turn >= talking
  /\ talking' = turn
  /\ sequence' = sequence + 1
  /\ LET segment == IF pending # <<>> THEN pending[1].segment ELSE <<"caller", sequence + 1>>
         row == Row(segment, callerFinals \cup {turn}, FALSE)
     IN  pending' = <<row>> /\ Enqueue(row)
  /\ callerFinals' = IF final THEN callerFinals \cup {turn} ELSE callerFinals
  /\ UNCHANGED <<items, done>> /\ EventUnchanged

\* Mutant: the quoted finals outlive the turn.
UserItemKeepsFinals ==
  /\ Speaking /\ done < MaxTurn
  /\ done' = done + 1
  /\ sequence' = sequence + 1
  /\ LET segment == IF pending # <<>> THEN pending[1].segment ELSE <<"item", sequence + 1>>
         row == Row(segment, {done + 1}, TRUE)
     IN  items' = Append(items, row) /\ Enqueue(row)
  /\ pending' = <<>>
  /\ UNCHANGED <<callerFinals, talking>> /\ EventUnchanged

\* item, for a user message: the turn is committed under the open segment.
UserItem ==
  /\ Speaking /\ done < MaxTurn
  /\ done' = done + 1
  /\ sequence' = sequence + 1
  /\ LET segment == IF pending # <<>> THEN pending[1].segment ELSE <<"item", sequence + 1>>
         row == Row(segment, {done + 1}, TRUE)
     IN  items' = Append(items, row) /\ Enqueue(row)
  /\ pending' = <<>> /\ callerFinals' = {}
  /\ UNCHANGED talking /\ EventUnchanged

\* item, for an assistant message: it quotes no caller turn.
AssistantItem ==
  /\ Speaking
  /\ sequence' = sequence + 1
  /\ LET row == Row(<<"item", sequence + 1>>, {}, TRUE)
     IN  items' = Append(items, row) /\ Enqueue(row)
  /\ UNCHANGED <<pending, callerFinals, talking, done>> /\ EventUnchanged

\* The takeover or the abort: events and requests are refused from now on.
BecomeUnavailable ==
  /\ available
  /\ available' = FALSE
  /\ UNCHANGED <<agentVars, streamVars, transferVars, observerVars, closed>>

\* close(): cancels _publish, whose row may or may not have been sent.
Close ==
  /\ ~closed /\ ~available
  /\ closed' = TRUE
  /\ snapshots' = [o \in Observer |-> NoSnapshot]
  /\ sending' = <<>>
  /\ UNCHANGED <<agentVars, queue, missed, issued, observerVars, available>>

-----------------------------------------------------------------------------
\* _publish

Take ==
  /\ ~closed /\ sending = <<>> /\ queue # <<>>
  /\ sending' = <<[row |-> Head(queue), audience |-> joined]>>
  /\ queue' = Tail(queue)
  /\ UNCHANGED <<agentVars, missed, transferVars, observerVars, lifeVars>>

\* Who joined while the row was sent may have received it.
Deliver(audience) ==
  /\ inbox' = [o \in Observer |->
       IF o \in audience THEN inbox[o] \cup {sending[1].row} ELSE inbox[o]]
  /\ sending' = <<>>
  /\ UNCHANGED <<agentVars, queue, transferVars, joined, got, token, frozen, caught, view, lifeVars>>

SendText ==
  /\ sending # <<>>
  /\ \E audience \in SUBSET joined :
       sending[1].audience \cap joined \subseteq audience /\ Deliver(audience)
  /\ UNCHANGED missed

\* send_text raised or took more than two seconds: anyone may have received it.
SendFails ==
  /\ sending # <<>>
  /\ \E audience \in SUBSET joined : Deliver(audience)
  /\ missed' = missed \cup joined

-----------------------------------------------------------------------------
\* The observer, as docs/TRANSCRIPT_HISTORY.md asks of it.

Reset(o) ==
  /\ inbox' = [inbox EXCEPT ![o] = {}]
  /\ got' = [got EXCEPT ![o] = <<>>]
  /\ token' = [token EXCEPT ![o] = 0]
  /\ frozen' = [frozen EXCEPT ![o] = <<>>]
  /\ caught' = [caught EXCEPT ![o] = FALSE]
  /\ view' = [view EXCEPT ![o] = {}]
  /\ missed' = missed \ {o}
  /\ UNCHANGED <<agentVars, queue, sending, transferVars, lifeVars>>

\* After close() there is nothing left to observe.
Join(o) == ~closed /\ o \notin joined /\ joined' = joined \cup {o} /\ Reset(o)
Leave(o) == ~closed /\ o \in joined /\ joined' = joined \ {o} /\ Reset(o)

Newer(a, b) == IF a.final = b.final THEN a.sequence > b.sequence ELSE a.final

\* Merge by segment and revision; a partial never replaces a final.
Merge(rows, row) ==
  LET same == {r \in rows : r.segment = row.segment}
  IN  IF \A r \in same : Newer(row, r) THEN (rows \ same) \cup {row} ELSE rows

ReceiveRow(o) ==
  /\ caught[o] /\ ~closed
  /\ \E row \in inbox[o] :
       /\ view' = [view EXCEPT ![o] = Merge(@, row)]
       /\ inbox' = [inbox EXCEPT ![o] = @ \ {row}]
  /\ UNCHANGED <<agentVars, streamVars, transferVars, joined, got, token, frozen, caught, lifeVars>>

\* A page reached the observer; the last one ends its transfer.
Collect(o, rows, t, whole, last) ==
  /\ token' = [token EXCEPT ![o] = IF last THEN 0 ELSE t]
  /\ got' = [got EXCEPT ![o] = IF last THEN <<>> ELSE rows]
  /\ frozen' = [frozen EXCEPT ![o] = IF last THEN <<>> ELSE whole]
  /\ caught' = [caught EXCEPT ![o] = last]
  /\ view' = [view EXCEPT ![o] = IF last THEN Range(rows) ELSE @]

NothingReceived == UNCHANGED <<token, got, frozen, caught, view>>

-----------------------------------------------------------------------------
\* get_transcript.  Each call first discards the snapshots past 60 seconds, and a
\* page is one row.  The reply may be lost; so may the one the observer gave up on.

Allowed(o) == ~closed /\ available /\ o \in joined /\ ~caught[o]

Fresh == [o \in Observer |-> IF snapshots[o].old THEN NoSnapshot ELSE snapshots[o]]
HasRoom(o) ==
  \/ Fresh[o] # NoSnapshot
  \/ Cardinality({p \in Observer : Fresh[p] # NoSnapshot}) < MaxSnapshots

RpcUnchanged == UNCHANGED <<agentVars, streamVars, joined, inbox, lifeVars>>

FirstPage(o) ==
  /\ Allowed(o) /\ HasRoom(o) /\ issued < MaxToken
  /\ issued' = issued + 1
  /\ LET new == issued + 1
         rows == Snapshot
         last == Pages(rows) = 1
     IN  /\ snapshots' = [Fresh EXCEPT ![o] =
              IF last THEN NoSnapshot ELSE [token |-> new, rows |-> rows, old |-> FALSE]]
         /\ \/ Collect(o, SubSeq(rows, 1, IF rows = <<>> THEN 0 ELSE 1), new, rows, last)
            \/ NothingReceived
  /\ RpcUnchanged

\* 32 transfers are running: "busy; retry".
Busy(o) ==
  /\ Allowed(o) /\ ~HasRoom(o)
  /\ snapshots' = Fresh
  /\ UNCHANGED issued /\ NothingReceived /\ RpcUnchanged

\* Mutant: any snapshot of the observer will do.
ValidPageAnyToken(o) == Fresh[o] # NoSnapshot /\ Len(got[o]) < Pages(Fresh[o].rows)

\* The offset lies in the snapshot the observer names.
ValidPage(o) ==
  /\ Fresh[o] # NoSnapshot
  /\ Len(got[o]) < Pages(Fresh[o].rows)
  /\ token[o] = Fresh[o].token

NextPage(o) ==
  /\ Allowed(o) /\ got[o] # <<>> /\ ValidPage(o)
  /\ LET end == Len(got[o]) + 1
         last == end = Pages(Fresh[o].rows)
     IN  /\ snapshots' = [Fresh EXCEPT ![o] = IF last THEN NoSnapshot ELSE @]
         /\ \/ Collect(o, Append(got[o], Fresh[o].rows[end]), token[o], frozen[o], last)
            \/ NothingReceived
  /\ UNCHANGED issued /\ RpcUnchanged

\* "Transcript snapshot expired; retry": the observer starts again.
PageRefused(o) ==
  /\ Allowed(o) /\ got[o] # <<>> /\ ~ValidPage(o)
  /\ snapshots' = Fresh
  /\ Collect(o, <<>>, 0, <<>>, FALSE)
  /\ UNCHANGED issued /\ RpcUnchanged

\* Sixty seconds pass since a snapshot was frozen.
Age(o) ==
  /\ snapshots[o] # NoSnapshot /\ ~snapshots[o].old
  /\ snapshots' = [snapshots EXCEPT ![o].old = TRUE]
  /\ UNCHANGED <<agentVars, streamVars, issued, observerVars, lifeVars>>

-----------------------------------------------------------------------------
Init ==
  /\ sequence = 0 /\ items = <<>> /\ pending = <<>> /\ callerFinals = {}
  /\ queue = <<>> /\ sending = <<>> /\ missed = {}
  /\ snapshots = [o \in Observer |-> NoSnapshot] /\ issued = 0
  /\ closed = FALSE /\ available = TRUE
  /\ talking = 1 /\ done = 0
  /\ joined = {}
  /\ inbox = [o \in Observer |-> {}]
  /\ got = [o \in Observer |-> <<>>] /\ frozen = [o \in Observer |-> <<>>]
  /\ token = [o \in Observer |-> 0]
  /\ caught = [o \in Observer |-> FALSE] /\ view = [o \in Observer |-> {}]

Next ==
  \/ \E turn \in Turn, final \in BOOLEAN : Caller(turn, final)
  \/ UserItem
  \/ AssistantItem
  \/ BecomeUnavailable
  \/ Close
  \/ Take
  \/ SendText
  \/ SendFails
  \/ \E o \in Observer :
       \/ Join(o)
       \/ Leave(o)
       \/ ReceiveRow(o)
       \/ FirstPage(o)
       \/ Busy(o)
       \/ NextPage(o)
       \/ PageRefused(o)
       \/ Age(o)

Spec == Init /\ [][Next]_vars

-----------------------------------------------------------------------------
RowType ==
  [segment : {"caller", "item"} \X (1..MaxSequence), turns : SUBSET Turn,
   final : BOOLEAN, sequence : 1..MaxSequence]

AgentTypeOK ==
  /\ sequence \in 0..MaxSequence /\ talking \in Nat /\ done \in 0..MaxTurn
  /\ items \in Seq(RowType)
  /\ pending \in Seq(RowType) /\ Len(pending) <= 1
  /\ callerFinals \subseteq Turn

StreamTypeOK ==
  /\ queue \in Seq(RowType) /\ Len(queue) <= Capacity
  /\ sending \in Seq([row : RowType, audience : SUBSET Observer]) /\ Len(sending) <= 1
  /\ missed \subseteq joined

TransferTypeOK ==
  /\ snapshots \in [Observer -> [token : 0..MaxToken, rows : Seq(RowType), old : BOOLEAN]]
  /\ issued \in 0..MaxToken
  /\ Cardinality({o \in Observer : snapshots[o] # NoSnapshot}) <= MaxSnapshots

ObserverTypeOK ==
  /\ joined \subseteq Observer
  /\ inbox \in [Observer -> SUBSET RowType] /\ view \in [Observer -> SUBSET RowType]
  /\ got \in [Observer -> Seq(RowType)] /\ frozen \in [Observer -> Seq(RowType)]
  /\ token \in [Observer -> 0..MaxToken] /\ caught \in [Observer -> BOOLEAN]

\* Type invariant of the history and its observers; the queue and the number of
\* transfers keep their limits.
TypeOK ==
  /\ AgentTypeOK /\ StreamTypeOK /\ TransferTypeOK /\ ObserverTypeOK
  /\ {closed, available} \subseteq BOOLEAN

\* transcript_history.py "a snapshot racing with partial/final delivery cannot
\* duplicate an utterance": at every moment a snapshot quotes each caller turn
\* once, even if the next turn began before the last one was committed.
UtteranceOnce ==
  \A i, j \in 1..Len(Snapshot) :
    i # j => /\ Snapshot[i].segment # Snapshot[j].segment
             /\ Snapshot[i].turns \cap Snapshot[j].turns = {}

\* Committed rows quote committed turns and are final, the open row quotes later turns
\* and is not; nothing has a number that was not given yet.
RowsAreApart ==
  /\ \A i \in 1..Len(items) : items[i].turns \subseteq 1..done /\ items[i].final
  /\ \A i \in 1..Len(pending) : pending[i].turns \cap 1..done = {} /\ ~pending[i].final
  /\ callerFinals \cap 1..done = {}
  /\ \A i \in 1..Len(Snapshot) :
       Snapshot[i].segment[2] <= sequence /\ Snapshot[i].sequence <= sequence

\* "One frozen snapshot per observer: subsequent pages cannot shift as turns
\* arrive": the pages an observer puts together all come from one snapshot, whatever
\* is lost, restarted, expired or committed in between.
PagesAreFrozen ==
  [][ \A o \in Observer : got[o] # <<>> /\ ~caught[o] /\ caught'[o]
        => view'[o] = Range(frozen[o]) ]_vars

\* The transfer an observer is in: it has read a beginning of what was frozen, its token
\* names that snapshot as long as the agent keeps it, and the conversation has not shrunk.
TransfersAgree ==
  \A o \in Observer :
    /\ token[o] <= issued /\ snapshots[o].token <= issued
    /\ caught[o] \/ got[o] # <<>> => o \in joined
    /\ got[o] # <<>> =>
         /\ ~caught[o] /\ token[o] # 0
         /\ Len(got[o]) < Len(frozen[o]) /\ Len(frozen[o]) <= Len(Snapshot)
         /\ \A k \in 1..Len(got[o]) : got[o][k] = frozen[o][k]
         /\ snapshots[o].token = token[o] => snapshots[o].rows = frozen[o]

Current == Range(Snapshot)

\* The last row of its segment: the conversation shows it, or one that replaces it.
Superseded(r) == \E c \in Current : c.segment = r.segment /\ (c = r \/ Newer(c, r))

Sent == {delivery.row : delivery \in Range(sending)}
SentTo(o) == {delivery.row : delivery \in {d \in Range(sending) : o \in d.audience}}

\* What an observer shows, or will show of the snapshot it reads.
Base(o) == IF caught[o] THEN view[o] ELSE Range(frozen[o])

\* Nothing an observer has or may get is ahead of the conversation, and what it has is
\* one row per segment; one that missed nothing has, or is being sent, every row.
ObserversCatchUp ==
  ~closed => \A o \in Observer :
    /\ \A r \in Range(queue) \cup Sent \cup inbox[o] \cup Base(o) : Superseded(r)
    /\ \A r, s \in Base(o) : r.segment = s.segment => r = s
    /\ o \notin missed /\ (caught[o] \/ got[o] # <<>>) =>
         Current \subseteq Base(o) \cup Range(queue) \cup SentTo(o) \cup inbox[o]

\* The inductive invariant of the history and its observers.
HistoryInv == UtteranceOnce /\ RowsAreApart /\ TransfersAgree /\ ObserversCatchUp

\* docs "Observers must buffer updates during catch-up and merge by segment ID and
\* revision": an observer that joined at any moment and merged what it read and
\* what it was sent shows exactly the conversation, once nothing is in flight,
\* unless a row was dropped or not delivered.
ObserverConverges ==
  \A o \in Observer :
    caught[o] /\ o \notin missed /\ ~closed /\ queue = <<>> /\ sending = <<>> /\ inbox[o] = {} =>
      view[o] = Range(Snapshot)

=============================================================================
