---------------------------- MODULE HistoryProofs ----------------------------
(***************************************************************************)
(* Theorems about History, for any observers, turns and limits.            *)
(***************************************************************************)
EXTENDS History, SequenceTheorems, FiniteSetTheorems, TLAPS

Event == \/ \E turn \in Turn, final \in BOOLEAN : Caller(turn, final)
         \/ UserItem \/ AssistantItem

LEMMA Numbers ==
  ASSUME AgentTypeOK
  PROVE  /\ sequence \in Nat /\ sequence <= MaxSequence
         /\ done \in Nat /\ done <= MaxTurn
<1>1. sequence \in 0..MaxSequence /\ done \in 0..MaxTurn
  BY DEF AgentTypeOK
<1>2. QED
  BY <1>1, HistoryBounds

LEMMA RowIsTyped ==
  ASSUME AgentTypeOK, sequence < MaxSequence, NEW turns \in SUBSET Turn, NEW final \in BOOLEAN,
         NEW segment \in {"caller", "item"} \X (1..MaxSequence)
  PROVE  Row(segment, turns, final) \in RowType
<1>1. sequence + 1 \in 1..MaxSequence
  BY Numbers, HistoryBounds
<1>2. QED
  BY <1>1 DEF Row, RowType

\* The segment of the next row: that of the open row, or a fresh one.
NextSegment(kind) == IF pending # <<>> THEN pending[1].segment ELSE <<kind, sequence + 1>>

LEMMA SegmentIsTyped ==
  ASSUME AgentTypeOK, sequence < MaxSequence, NEW kind \in {"caller", "item"}
  PROVE  /\ NextSegment(kind) \in {"caller", "item"} \X (1..MaxSequence)
         /\ <<kind, sequence + 1>> \in {"caller", "item"} \X (1..MaxSequence)
<1>1. sequence + 1 \in 1..MaxSequence
  BY Numbers, HistoryBounds
<1>2. pending # <<>> => pending[1] \in RowType
  <2>1. pending \in Seq(RowType)
    BY DEF AgentTypeOK
  <2>2. pending # <<>> => 1 \in 1..Len(pending)
    BY <2>1, EmptySeq
  <2>3. QED
    BY <2>1, <2>2, ElementOfSeq
<1>3. QED
  BY <1>1, <1>2 DEF NextSegment, RowType

\* What an event of the session does: one new row, which revises or commits the caller's
\* open row, or which an assistant's item is.
NewRow(row) ==
  /\ row.sequence = sequence + 1 /\ sequence' = sequence + 1
  /\ Enqueue(row) /\ EventUnchanged
  /\ ~closed

Revises(row) ==
  /\ row.segment = NextSegment("caller") /\ row.final = FALSE
  /\ \E turn \in Turn : turn > done /\ row.turns = callerFinals \cup {turn}
  /\ pending' = <<row>> /\ callerFinals' \subseteq row.turns
  /\ UNCHANGED <<items, done>>

Commits(row) ==
  /\ row.segment = NextSegment("item") /\ row.final = TRUE /\ row.turns = {done + 1}
  /\ done < MaxTurn /\ done' = done + 1
  /\ items' = Append(items, row) /\ pending' = <<>> /\ callerFinals' = {}

Says(row) ==
  /\ row.segment = <<"item", sequence + 1>> /\ row.final = TRUE /\ row.turns = {}
  /\ items' = Append(items, row)
  /\ UNCHANGED <<pending, callerFinals, done>>

LEMMA EventRow ==
  ASSUME AgentTypeOK, Event
  PROVE  /\ sequence < MaxSequence /\ talking' \in Turn \cup {talking}
         /\ \E row \in RowType : NewRow(row) /\ (Revises(row) \/ Commits(row) \/ Says(row))
<1>1. ASSUME NEW turn \in Turn, NEW final \in BOOLEAN, Caller(turn, final)
      PROVE  LET row == Row(NextSegment("caller"), callerFinals \cup {turn}, FALSE)
             IN  /\ sequence < MaxSequence /\ talking' = turn
                 /\ row \in RowType /\ NewRow(row) /\ Revises(row)
  <2> DEFINE row == Row(NextSegment("caller"), callerFinals \cup {turn}, FALSE)
  <2>1. sequence < MaxSequence /\ callerFinals \cup {turn} \in SUBSET Turn
    BY <1>1 DEF Caller, Speaking, AgentTypeOK
  <2>2. row \in RowType
    BY <2>1, SegmentIsTyped, RowIsTyped
  <2>3. /\ row.sequence = sequence + 1 /\ row.segment = NextSegment("caller")
        /\ row.turns = callerFinals \cup {turn} /\ row.final = FALSE
    BY DEF Row
  <2>4. /\ sequence' = sequence + 1 /\ Enqueue(row) /\ EventUnchanged /\ ~closed /\ turn > done
        /\ pending' = <<row>> /\ callerFinals' \subseteq callerFinals \cup {turn}
        /\ UNCHANGED <<items, done>> /\ talking' = turn
    BY <1>1 DEF Caller, Speaking, NextSegment
  <2> HIDE DEF row
  <2>5. NewRow(row) /\ Revises(row)
    BY <2>3, <2>4 DEF NewRow, Revises
  <2>6. QED
    BY <2>1, <2>2, <2>4, <2>5 DEF row
<1>2. ASSUME UserItem
      PROVE  LET row == Row(NextSegment("item"), {done + 1}, TRUE)
             IN  /\ sequence < MaxSequence /\ UNCHANGED talking
                 /\ row \in RowType /\ NewRow(row) /\ Commits(row)
  <2> DEFINE row == Row(NextSegment("item"), {done + 1}, TRUE)
  <2>1. sequence < MaxSequence /\ done < MaxTurn
    BY <1>2 DEF UserItem, Speaking
  <2>2. {done + 1} \in SUBSET Turn
    BY <2>1, Numbers, HistoryBounds DEF Turn
  <2>3. row \in RowType
    BY <2>1, <2>2, SegmentIsTyped, RowIsTyped
  <2>4. /\ row.sequence = sequence + 1 /\ row.segment = NextSegment("item")
        /\ row.turns = {done + 1} /\ row.final = TRUE
    BY DEF Row
  <2>5. /\ sequence' = sequence + 1 /\ Enqueue(row) /\ EventUnchanged /\ ~closed
        /\ items' = Append(items, row) /\ pending' = <<>> /\ callerFinals' = {}
        /\ done' = done + 1 /\ UNCHANGED talking
    BY <1>2 DEF UserItem, Speaking, NextSegment
  <2> HIDE DEF row
  <2>6. NewRow(row) /\ Commits(row)
    BY <2>1, <2>4, <2>5 DEF NewRow, Commits
  <2>7. QED
    BY <2>1, <2>3, <2>5, <2>6 DEF row
<1>3. ASSUME AssistantItem
      PROVE  LET row == Row(<<"item", sequence + 1>>, {}, TRUE)
             IN  /\ sequence < MaxSequence /\ UNCHANGED talking
                 /\ row \in RowType /\ NewRow(row) /\ Says(row)
  <2> DEFINE row == Row(<<"item", sequence + 1>>, {}, TRUE)
  <2>1. sequence < MaxSequence
    BY <1>3 DEF AssistantItem, Speaking
  <2>2. row \in RowType
    BY <2>1, SegmentIsTyped, RowIsTyped
  <2>3. /\ row.sequence = sequence + 1 /\ row.segment = <<"item", sequence + 1>>
        /\ row.turns = {} /\ row.final = TRUE
    BY DEF Row
  <2>4. /\ sequence' = sequence + 1 /\ Enqueue(row) /\ EventUnchanged /\ ~closed
        /\ items' = Append(items, row) /\ UNCHANGED <<pending, callerFinals, done, talking>>
    BY <1>3 DEF AssistantItem, Speaking
  <2> HIDE DEF row
  <2>5. NewRow(row) /\ Says(row)
    BY <2>3, <2>4 DEF NewRow, Says
  <2>6. QED
    BY <2>1, <2>2, <2>4, <2>5 DEF row
<1>4. CASE \E turn \in Turn, final \in BOOLEAN : Caller(turn, final)
  <2>1. PICK turn \in Turn, final \in BOOLEAN : Caller(turn, final)
    BY <1>4
  <2>2. QED
    BY <1>1, <2>1
<1>5. CASE UserItem
  BY <1>2, <1>5
<1>6. CASE AssistantItem
  BY <1>3, <1>6
<1>7. QED
  BY <1>4, <1>5, <1>6 DEF Event

\* Only the events of the session change what the agent says.
LEMMA AgentStep ==
  ASSUME [Next]_vars
  PROVE  Event \/ UNCHANGED agentVars
<1>1. CASE UNCHANGED vars
  BY <1>1 DEF vars, agentVars
<1>2. CASE BecomeUnavailable \/ Close \/ Take \/ SendText \/ SendFails
  BY <1>2 DEF BecomeUnavailable, Close, Take, SendText, SendFails, Deliver, agentVars
<1>3. ASSUME NEW o \in Observer,
             Join(o) \/ Leave(o) \/ ReceiveRow(o) \/ FirstPage(o) \/ Busy(o) \/ NextPage(o)
               \/ PageRefused(o) \/ Age(o)
      PROVE  UNCHANGED agentVars
  BY <1>3 DEF Join, Leave, Reset, ReceiveRow, FirstPage, Busy, NextPage, PageRefused, Age,
              RpcUnchanged, agentVars
<1>4. QED
  BY <1>1, <1>2, <1>3 DEF Next, Event

-----------------------------------------------------------------------------
\* The rows of the conversation.

LEMMA Lists ==
  ASSUME AgentTypeOK
  PROVE  /\ items \in Seq(RowType) /\ Len(items) \in Nat
         /\ \A i \in 1..Len(items) : items[i] \in RowType
         /\ pending \in Seq(RowType) /\ Len(pending) \in {0, 1}
         /\ (pending = <<>>) <=> (Len(pending) = 0)
         /\ \A k \in 1..Len(pending) : k = 1
         /\ \A k \in 1..Len(pending) : pending[k] \in RowType
<1>1. items \in Seq(RowType) /\ pending \in Seq(RowType) /\ Len(pending) <= 1
  BY DEF AgentTypeOK
<1>2. Len(items) \in Nat /\ Len(pending) \in Nat
  BY <1>1, LenProperties
<1>3. pending = <<>> <=> Len(pending) = 0
  BY <1>1, EmptySeq
<1>4. \A i \in 1..Len(items) : items[i] \in RowType
  BY <1>1, ElementOfSeq
<1>5. \A k \in 1..Len(pending) : pending[k] \in RowType
  BY <1>1, ElementOfSeq
<1>6. \A n \in Nat : n <= 1 => n \in {0, 1} /\ \A k \in 1..n : k = 1
  OBVIOUS
<1>7. Len(pending) \in {0, 1} /\ \A k \in 1..Len(pending) : k = 1
  BY <1>1, <1>2, <1>6
<1>8. QED
  BY <1>1, <1>2, <1>3, <1>4, <1>5, <1>7

\* snapshot() shows the committed rows, then the open one.
LEMMA SnapshotRows ==
  ASSUME AgentTypeOK
  PROVE  /\ Snapshot \in Seq(RowType) /\ Len(Snapshot) = Len(items) + Len(pending)
         /\ \A i \in 1..Len(items) : Snapshot[i] = items[i]
         /\ \A k \in 1..Len(pending) : Snapshot[Len(items) + k] = pending[k]
         /\ \A i \in 1..Len(Snapshot) :
              i \in 1..Len(items) \/ (i = Len(items) + 1 /\ Len(pending) = 1)
<1>1. items \in Seq(RowType) /\ pending \in Seq(RowType)
  BY Lists
<1>2. /\ Snapshot \in Seq(RowType) /\ Len(Snapshot) = Len(items) + Len(pending)
      /\ \A i \in 1..(Len(items) + Len(pending)) :
           Snapshot[i] = IF i <= Len(items) THEN items[i] ELSE pending[i - Len(items)]
  BY <1>1, ConcatProperties DEF Snapshot
<1>3. QED
  BY <1>2, Lists

\* The same two invariants, of the committed rows and of the open one.
CommittedApart ==
  \A i, j \in 1..Len(items) :
    i # j => items[i].segment # items[j].segment /\ items[i].turns \cap items[j].turns = {}

OpenApart ==
  \A i \in 1..Len(items), k \in 1..Len(pending) : items[i].segment # pending[k].segment

TurnsApart ==
  /\ \A i \in 1..Len(items) : items[i].turns \subseteq 1..done /\ items[i].final
  /\ \A k \in 1..Len(pending) : pending[k].turns \cap 1..done = {} /\ ~pending[k].final
  /\ callerFinals \cap 1..done = {}

Numbered ==
  /\ \A i \in 1..Len(items) : items[i].segment[2] <= sequence /\ items[i].sequence <= sequence
  /\ \A k \in 1..Len(pending) :
       pending[k].segment[2] <= sequence /\ pending[k].sequence <= sequence

RowsInv == CommittedApart /\ OpenApart /\ TurnsApart /\ Numbered

LEMMA RowsInvIsUtteranceOnce ==
  ASSUME AgentTypeOK
  PROVE  UtteranceOnce /\ RowsAreApart <=> RowsInv
<1>1. ASSUME UtteranceOnce, RowsAreApart
      PROVE  RowsInv
  <2>1. CommittedApart
    BY <1>1, SnapshotRows, Lists, SMTT(30) DEF UtteranceOnce, CommittedApart
  <2>2. OpenApart
    <3>1. SUFFICES ASSUME NEW i \in 1..Len(items), NEW k \in 1..Len(pending)
                   PROVE  items[i].segment # pending[k].segment
      BY DEF OpenApart
    <3>2. /\ i \in 1..Len(Snapshot) /\ Len(items) + k \in 1..Len(Snapshot)
          /\ i # Len(items) + k
          /\ Snapshot[i] = items[i] /\ Snapshot[Len(items) + k] = pending[k]
      BY SnapshotRows, Lists
    <3>3. QED
      BY <1>1, <3>2 DEF UtteranceOnce
  <2>3. TurnsApart
    BY <1>1 DEF RowsAreApart, TurnsApart
  <2>4. Numbered
    <3>1. ASSUME NEW k \in 1..Len(pending)
          PROVE  pending[k].segment[2] <= sequence /\ pending[k].sequence <= sequence
      <4>1. Len(items) + k \in 1..Len(Snapshot) /\ Snapshot[Len(items) + k] = pending[k]
        BY SnapshotRows, Lists
      <4>2. QED
        BY <1>1, <4>1 DEF RowsAreApart
    <3>2. ASSUME NEW i \in 1..Len(items)
          PROVE  items[i].segment[2] <= sequence /\ items[i].sequence <= sequence
      <4>1. i \in 1..Len(Snapshot) /\ Snapshot[i] = items[i]
        BY SnapshotRows, Lists
      <4>2. QED
        BY <1>1, <4>1 DEF RowsAreApart
    <3>3. QED
      BY <3>1, <3>2 DEF Numbered
  <2>5. QED
    BY <2>1, <2>2, <2>3, <2>4 DEF RowsInv
<1>2. ASSUME RowsInv
      PROVE  UtteranceOnce
  <2>1. SUFFICES ASSUME NEW i \in 1..Len(Snapshot), NEW j \in 1..Len(Snapshot), i < j
                 PROVE  /\ Snapshot[i].segment # Snapshot[j].segment
                        /\ Snapshot[i].turns \cap Snapshot[j].turns = {}
    <3>1. Len(Snapshot) \in Nat
      BY SnapshotRows, LenProperties
    <3>2. \A i, j \in 1..Len(Snapshot) : i # j => i < j \/ j < i
      BY <3>1
    <3>3. QED
      BY <2>1, <3>2 DEF UtteranceOnce
  <2>2. i \in 1..Len(items) /\ Snapshot[i] = items[i]
    BY <2>1, SnapshotRows, Lists
  <2>3. CASE j \in 1..Len(items)
    BY <1>2, <2>1, <2>2, <2>3, SnapshotRows, Lists DEF RowsInv, CommittedApart
  <2>4. CASE j = Len(items) + 1 /\ Len(pending) = 1
    <3>1. Snapshot[j] = pending[1] /\ 1 \in 1..Len(pending)
      BY <2>4, SnapshotRows
    <3>2. items[i].turns \subseteq 1..done /\ pending[1].turns \cap 1..done = {}
      BY <1>2, <2>2, <3>1 DEF RowsInv, TurnsApart
    <3>3. items[i].segment # pending[1].segment
      BY <1>2, <2>2, <3>1 DEF RowsInv, OpenApart
    <3>4. QED
      BY <2>2, <3>1, <3>2, <3>3
  <2>5. QED
    BY <2>3, <2>4, SnapshotRows
<1>3. ASSUME RowsInv
      PROVE  RowsAreApart
  <2>1. ASSUME NEW i \in 1..Len(Snapshot)
        PROVE  Snapshot[i].segment[2] <= sequence /\ Snapshot[i].sequence <= sequence
    <3>1. CASE i \in 1..Len(items)
      BY <1>3, <3>1, SnapshotRows DEF RowsInv, Numbered
    <3>2. CASE i = Len(items) + 1 /\ Len(pending) = 1
      <4>1. Snapshot[i] = pending[1] /\ 1 \in 1..Len(pending)
        BY <3>2, SnapshotRows
      <4>2. QED
        BY <1>3, <4>1 DEF RowsInv, Numbered
    <3>3. QED
      BY <3>1, <3>2, SnapshotRows
  <2>2. QED
    BY <1>3, <2>1 DEF RowsInv, TurnsApart, RowsAreApart
<1>4. QED
  BY <1>1, <1>2, <1>3

-----------------------------------------------------------------------------
\* What an event does to them.

LEMMA OneElement ==
  ASSUME NEW S, NEW x \in S
  PROVE  <<x>> \in Seq(S) /\ Len(<<x>>) = 1 /\ <<x>>[1] = x
OBVIOUS

LEMMA AppendRow ==
  ASSUME NEW s \in Seq(RowType), NEW row \in RowType
  PROVE  /\ Append(s, row) \in Seq(RowType) /\ Len(Append(s, row)) = Len(s) + 1
         /\ \A i \in 1..Len(s) : Append(s, row)[i] = s[i]
         /\ Append(s, row)[Len(s) + 1] = row
         /\ \A i \in 1..Len(Append(s, row)) : i \in 1..Len(s) \/ i = Len(s) + 1
<1>1. /\ Append(s, row) \in Seq(RowType) /\ Len(Append(s, row)) = Len(s) + 1
      /\ \A i \in 1..Len(s) : Append(s, row)[i] = s[i]
      /\ Append(s, row)[Len(s) + 1] = row
  BY AppendProperties
<1>2. Len(s) \in Nat
  BY LenProperties
<1>3. \A n \in Nat : \A i \in 1..(n + 1) : i \in 1..n \/ i = n + 1
  OBVIOUS
<1>4. QED
  BY <1>1, <1>2, <1>3

LEMMA AgentTypeStep ==
  ASSUME AgentTypeOK, [Next]_vars
  PROVE  AgentTypeOK'
<1>1. CASE UNCHANGED agentVars
  BY <1>1 DEF agentVars, AgentTypeOK
<1>2. CASE Event
  <2>1. /\ sequence < MaxSequence /\ talking' \in Turn \cup {talking}
        /\ \E row \in RowType : NewRow(row) /\ (Revises(row) \/ Commits(row) \/ Says(row))
    BY <1>2, EventRow
  <2>2. PICK row \in RowType : NewRow(row) /\ (Revises(row) \/ Commits(row) \/ Says(row))
    BY <2>1
  <2>3. talking' \in Nat
    BY <2>1 DEF Turn, AgentTypeOK
  <2>4. sequence' \in 0..MaxSequence
    <3>1. sequence' = sequence + 1
      BY <2>2 DEF NewRow
    <3>2. QED
      BY <2>1, <3>1, Numbers, HistoryBounds
  <2>5. row.turns \subseteq Turn
    BY DEF RowType
  <2>6. done' \in 0..MaxTurn
    <3>1. done' = done \/ (done < MaxTurn /\ done' = done + 1)
      <4>1. Revises(row) \/ Says(row) => done' = done
        BY DEF Revises, Says
      <4>2. Commits(row) => done < MaxTurn /\ done' = done + 1
        BY DEF Commits
      <4>3. QED
        BY <2>2, <4>1, <4>2
    <3>2. done \in Nat /\ done <= MaxTurn /\ MaxTurn \in Nat
      BY Numbers, HistoryBounds
    <3>3. QED
      BY <3>1, <3>2
  <2>7. items' \in Seq(RowType)
    <3>1. items' = items \/ items' = Append(items, row)
      BY <2>2 DEF Revises, Commits, Says
    <3>2. items \in Seq(RowType) /\ Append(items, row) \in Seq(RowType)
      BY Lists, AppendRow
    <3>3. QED
      BY <3>1, <3>2
  <2>8. pending' \in Seq(RowType) /\ Len(pending') <= 1
    <3>1. CASE Revises(row)
      BY <3>1, OneElement DEF Revises
    <3>2. CASE Commits(row)
      BY <3>2, EmptySeq DEF Commits
    <3>3. CASE Says(row)
      BY <3>3 DEF Says, AgentTypeOK
    <3>4. QED
      BY <2>2, <3>1, <3>2, <3>3
  <2>9. callerFinals' \subseteq Turn
    BY <2>2, <2>5 DEF Revises, Commits, Says, AgentTypeOK
  <2>10. QED
    BY <2>3, <2>4, <2>6, <2>7, <2>8, <2>9 DEF AgentTypeOK
<1>3. QED
  BY <1>1, <1>2, AgentStep

\* A segment that an event opens is new; otherwise it is that of the open row.
LEMMA SegmentOfRow ==
  ASSUME AgentTypeOK, RowsInv, NEW kind, NEW row, row.segment = NextSegment(kind)
  PROVE  /\ \A i \in 1..Len(items) : items[i].segment # row.segment
         /\ row.segment[2] <= sequence + 1
<1>1. sequence \in Nat
  BY Numbers
<1>2. CASE pending # <<>>
  <2>1. Len(pending) = 1 /\ 1 \in 1..Len(pending) /\ row.segment = pending[1].segment
    BY <1>2, Lists DEF NextSegment
  <2>2. pending[1] \in RowType
    BY <2>1, Lists
  <2>3. pending[1].segment[2] \in Nat /\ pending[1].segment[2] <= sequence
    BY <2>1, <2>2, HistoryBounds DEF RowsInv, Numbered, RowType
  <2>4. row.segment[2] <= sequence + 1
    BY <1>1, <2>1, <2>3
  <2>5. QED
    BY <2>1, <2>4 DEF RowsInv, OpenApart
<1>3. CASE pending = <<>>
  <2>1. row.segment = <<kind, sequence + 1>>
    BY <1>3 DEF NextSegment
  <2>2. row.segment[2] = sequence + 1
    BY <2>1
  <2>3. ASSUME NEW i \in 1..Len(items)
        PROVE  items[i].segment # row.segment
    <3>1. items[i].segment[2] <= sequence
      BY DEF RowsInv, Numbered
    <3>2. QED
      BY <1>1, <2>2, <3>1
  <2>4. QED
    BY <1>1, <2>2, <2>3
<1>4. QED
  BY <1>2, <1>3

LEMMA RowNumbers ==
  ASSUME NEW row \in RowType
  PROVE  row.sequence \in Nat /\ row.segment[2] \in Nat /\ row.final \in BOOLEAN
BY HistoryBounds DEF RowType

\* Numbers given earlier stay below the last one.
LEMMA NumberedStep ==
  ASSUME AgentTypeOK, RowsInv, NEW row \in RowType, NewRow(row), row.segment[2] <= sequence + 1
  PROVE  /\ \A i \in 1..Len(items) :
              items[i].segment[2] <= sequence' /\ items[i].sequence <= sequence'
         /\ \A k \in 1..Len(pending) :
              pending[k].segment[2] <= sequence' /\ pending[k].sequence <= sequence'
         /\ row.segment[2] <= sequence' /\ row.sequence <= sequence'
<1>1. sequence \in Nat /\ sequence' = sequence + 1 /\ row.sequence = sequence + 1
  BY Numbers DEF NewRow
<1>2. ASSUME NEW r \in RowType, r.segment[2] <= sequence, r.sequence <= sequence
      PROVE  r.segment[2] <= sequence' /\ r.sequence <= sequence'
  BY <1>1, <1>2, RowNumbers
<1>3. QED
  BY <1>1, <1>2, Lists DEF RowsInv, Numbered

LEMMA RowsRevise ==
  ASSUME AgentTypeOK, RowsInv, NEW row \in RowType, NewRow(row), Revises(row)
  PROVE  RowsInv'
<1>1. /\ row.segment = NextSegment("caller") /\ row.final = FALSE
      /\ pending' = <<row>> /\ callerFinals' \subseteq row.turns
      /\ items' = items /\ done' = done
  BY DEF Revises
<1>2. Len(pending') = 1 /\ pending'[1] = row /\ \A k \in 1..Len(pending') : k = 1
  BY <1>1, OneElement
<1>3. row.turns \cap 1..done = {}
  <2>1. PICK turn \in Turn : turn > done /\ row.turns = callerFinals \cup {turn}
    BY DEF Revises
  <2>2. turn \notin 1..done
    BY <2>1, Numbers DEF Turn
  <2>3. QED
    BY <2>1, <2>2 DEF RowsInv, TurnsApart
<1>4. CommittedApart'
  BY <1>1 DEF RowsInv, CommittedApart
<1>5. OpenApart'
  BY <1>1, <1>2, SegmentOfRow DEF OpenApart
<1>6. TurnsApart'
  BY <1>1, <1>2, <1>3 DEF RowsInv, TurnsApart
<1>7. Numbered'
  BY <1>1, <1>2, SegmentOfRow, NumberedStep DEF Numbered
<1>8. QED
  BY <1>4, <1>5, <1>6, <1>7 DEF RowsInv

LEMMA RowsCommit ==
  ASSUME AgentTypeOK, RowsInv, NEW row \in RowType, NewRow(row), Commits(row)
  PROVE  RowsInv'
<1>1. /\ row.segment = NextSegment("item") /\ row.final = TRUE /\ row.turns = {done + 1}
      /\ done' = done + 1 /\ items' = Append(items, row) /\ pending' = <<>> /\ callerFinals' = {}
  BY DEF Commits
<1>2. done \in Nat
  BY Numbers
<1>3. \A k \in 1..Len(pending') : FALSE
  BY <1>1, EmptySeq
<1>4. /\ \A i \in 1..Len(items) : items'[i] = items[i]
      /\ Len(items) + 1 \in 1..Len(items') /\ items'[Len(items) + 1] = row
      /\ \A i \in 1..Len(items') : i \in 1..Len(items) \/ i = Len(items) + 1
  BY <1>1, Lists, AppendRow
<1>5. \A i \in 1..Len(items) : items[i].turns \cap row.turns = {}
  <2>1. done + 1 \notin 1..done
    BY <1>2
  <2>2. QED
    BY <1>1, <2>1 DEF RowsInv, TurnsApart
<1>6. CommittedApart'
  <2>1. \A i \in 1..Len(items) : /\ items[i].segment # row.segment
                                 /\ items[i].turns \cap row.turns = {}
                                 /\ row.turns \cap items[i].turns = {}
    BY <1>1, <1>5, SegmentOfRow
  <2>2. SUFFICES ASSUME NEW i \in 1..Len(items'), NEW j \in 1..Len(items'), i # j
                 PROVE  /\ items'[i].segment # items'[j].segment
                        /\ items'[i].turns \cap items'[j].turns = {}
    BY DEF CommittedApart
  <2>3. CASE i \in 1..Len(items) /\ j \in 1..Len(items)
    BY <1>4, <2>2, <2>3 DEF RowsInv, CommittedApart
  <2>4. CASE i \in 1..Len(items) /\ j = Len(items) + 1
    BY <1>4, <2>1, <2>4
  <2>5. CASE i = Len(items) + 1 /\ j \in 1..Len(items)
    BY <1>4, <2>1, <2>5
  <2>6. QED
    BY <1>4, <2>2, <2>3, <2>4, <2>5
<1>7. OpenApart'
  BY <1>3 DEF OpenApart
<1>8. TurnsApart'
  <2>1. 1..done \subseteq 1..(done + 1) /\ done + 1 \in 1..(done + 1)
    BY <1>2
  <2>2. ASSUME NEW i \in 1..Len(items') PROVE items'[i].turns \subseteq 1..done' /\ items'[i].final
    <3>1. CASE i \in 1..Len(items)
      BY <1>1, <1>4, <2>1, <3>1 DEF RowsInv, TurnsApart
    <3>2. CASE i = Len(items) + 1
      BY <1>1, <1>4, <2>1, <3>2
    <3>3. QED
      BY <1>4, <2>2, <3>1, <3>2
  <2>3. callerFinals' \cap 1..done' = {}
    BY <1>1
  <2>4. QED
    BY <1>3, <2>2, <2>3 DEF TurnsApart
<1>9. Numbered'
  <2>1. row.segment[2] <= sequence + 1
    BY <1>1, SegmentOfRow
  <2>2. /\ \A i \in 1..Len(items) : items[i].segment[2] <= sequence' /\ items[i].sequence <= sequence'
        /\ row.segment[2] <= sequence' /\ row.sequence <= sequence'
    BY <2>1, NumberedStep
  <2>3. ASSUME NEW i \in 1..Len(items')
        PROVE  items'[i].segment[2] <= sequence' /\ items'[i].sequence <= sequence'
    <3>1. CASE i \in 1..Len(items)
      BY <1>4, <2>2, <3>1
    <3>2. CASE i = Len(items) + 1
      BY <1>4, <2>2, <3>2
    <3>3. QED
      BY <1>4, <2>3, <3>1, <3>2
  <2>4. QED
    BY <1>3, <2>3 DEF Numbered
<1>10. QED
  BY <1>6, <1>7, <1>8, <1>9 DEF RowsInv

LEMMA RowsSay ==
  ASSUME AgentTypeOK, RowsInv, NEW row \in RowType, NewRow(row), Says(row)
  PROVE  RowsInv'
<1>1. /\ row.segment = <<"item", sequence + 1>> /\ row.final = TRUE /\ row.turns = {}
      /\ items' = Append(items, row)
      /\ pending' = pending /\ callerFinals' = callerFinals /\ done' = done
  BY DEF Says
<1>2. /\ \A i \in 1..Len(items) : items'[i] = items[i]
      /\ Len(items) + 1 \in 1..Len(items') /\ items'[Len(items) + 1] = row
      /\ \A i \in 1..Len(items') : i \in 1..Len(items) \/ i = Len(items) + 1
  BY <1>1, Lists, AppendRow
<1>3. row.segment[2] = sequence + 1 /\ row.segment[2] <= sequence + 1
  BY <1>1, Numbers
<1>4. ASSUME NEW r \in RowType, r.segment[2] <= sequence
      PROVE  r.segment # row.segment
  BY <1>3, <1>4, Numbers
<1>5. /\ \A i \in 1..Len(items) : items[i].segment # row.segment
      /\ \A k \in 1..Len(pending) : pending[k].segment # row.segment
  BY <1>4, Lists DEF RowsInv, Numbered
<1>6. CommittedApart'
  BY <1>1, <1>2, <1>5 DEF RowsInv, CommittedApart
<1>7. OpenApart'
  BY <1>1, <1>2, <1>5 DEF RowsInv, OpenApart
<1>8. TurnsApart'
  BY <1>1, <1>2 DEF RowsInv, TurnsApart
<1>9. Numbered'
  BY <1>1, <1>2, <1>3, NumberedStep DEF Numbered
<1>10. QED
  BY <1>6, <1>7, <1>8, <1>9 DEF RowsInv

LEMMA RowsStep ==
  ASSUME AgentTypeOK, RowsInv, [Next]_vars
  PROVE  RowsInv'
<1>1. CASE UNCHANGED agentVars
  BY <1>1 DEF agentVars, RowsInv, CommittedApart, OpenApart, TurnsApart, Numbered
<1>2. CASE Event
  <2>1. PICK row \in RowType : NewRow(row) /\ (Revises(row) \/ Commits(row) \/ Says(row))
    BY <1>2, EventRow
  <2>2. QED
    BY <2>1, RowsRevise, RowsCommit, RowsSay
<1>3. QED
  BY <1>1, <1>2, AgentStep

LEMMA RowsInit ==
  ASSUME Init
  PROVE  AgentTypeOK /\ RowsInv
<1>1. /\ sequence = 0 /\ done = 0 /\ talking = 1 /\ items = <<>> /\ pending = <<>>
      /\ callerFinals = {}
  BY DEF Init
<1>2. AgentTypeOK
  BY <1>1, HistoryBounds, EmptySeq DEF AgentTypeOK
<1>3. (\A i \in 1..Len(items) : FALSE) /\ (\A k \in 1..Len(pending) : FALSE)
  BY <1>1, EmptySeq
<1>4. QED
  BY <1>1, <1>2, <1>3 DEF RowsInv, CommittedApart, OpenApart, TurnsApart, Numbered

-----------------------------------------------------------------------------
\* The queue and the row being sent.

LEMMA RangeOfAppend ==
  ASSUME NEW s \in Seq(RowType), NEW row \in RowType
  PROVE  Range(Append(s, row)) = Range(s) \cup {row}
<1>1. Range(s) = {s[i] : i \in 1..Len(s)}
  BY RangeEquality
<1>2. Range(Append(s, row)) = {Append(s, row)[i] : i \in 1..Len(Append(s, row))}
  <2>1. Append(s, row) \in Seq(RowType)
    BY AppendRow
  <2>2. QED
    BY <2>1, RangeEquality
<1>3. /\ \A i \in 1..Len(s) : Append(s, row)[i] = s[i] /\ i \in 1..Len(Append(s, row))
      /\ Append(s, row)[Len(s) + 1] = row /\ Len(s) + 1 \in 1..Len(Append(s, row))
      /\ \A i \in 1..Len(Append(s, row)) : i \in 1..Len(s) \/ i = Len(s) + 1
  BY AppendRow, LenProperties
<1>4. QED
  BY <1>1, <1>2, <1>3

LEMMA EnqueueRow ==
  ASSUME StreamTypeOK, ObserverTypeOK, NEW row \in RowType, Enqueue(row)
  PROVE  /\ queue' \in Seq(RowType) /\ Len(queue') <= Capacity
         /\ \/ Range(queue') = Range(queue) \cup {row} /\ UNCHANGED missed
            \/ queue' = queue /\ missed' = missed \cup joined
<1>1. queue \in Seq(RowType) /\ Len(queue) <= Capacity
  BY DEF StreamTypeOK
<1>2. CASE Len(queue) < Capacity
  <2>1. queue' = Append(queue, row) /\ UNCHANGED missed
    BY <1>2 DEF Enqueue
  <2>2. queue' \in Seq(RowType) /\ Len(queue') = Len(queue) + 1
    BY <1>1, <2>1, AppendRow
  <2>3. Len(queue') <= Capacity
    BY <1>1, <1>2, <2>2, HistoryBounds, LenProperties
  <2>4. Range(queue') = Range(queue) \cup {row}
    BY <1>1, <2>1, RangeOfAppend
  <2>5. QED
    BY <2>1, <2>2, <2>3, <2>4
<1>3. CASE ~(Len(queue) < Capacity)
  BY <1>1, <1>3 DEF Enqueue
<1>4. QED
  BY <1>2, <1>3

LEMMA RangeOfTail ==
  ASSUME NEW S, NEW s \in Seq(S), s # <<>>
  PROVE  Range(s) = Range(Tail(s)) \cup {Head(s)}
<1>1. /\ Tail(s) \in Seq(S) /\ Len(Tail(s)) = Len(s) - 1 /\ Head(s) = s[1]
      /\ \A i \in 1..Len(Tail(s)) : Tail(s)[i] = s[i + 1]
  BY HeadTailProperties
<1>2. Len(s) \in Nat /\ Len(s) # 0
  BY LenProperties, EmptySeq
<1>3. Range(s) = {s[i] : i \in 1..Len(s)}
  BY RangeEquality
<1>4. Range(Tail(s)) = {Tail(s)[i] : i \in 1..Len(Tail(s))}
  BY <1>1, RangeEquality
<1>5. /\ \A i \in 1..Len(Tail(s)) : i + 1 \in 1..Len(s)
      /\ 1 \in 1..Len(s)
      /\ \A i \in 1..Len(s) : i = 1 \/ \E j \in 1..Len(Tail(s)) : i = j + 1
  <2>1. \A n \in Nat : \A i \in 1..n : i = 1 \/ (i - 1 \in 1..(n - 1) /\ i = (i - 1) + 1)
    OBVIOUS
  <2>2. \A i \in 1..Len(s) : i = 1 \/ (i - 1 \in 1..Len(Tail(s)) /\ i = (i - 1) + 1)
    BY <1>1, <1>2, <2>1
  <2>3. QED
    BY <1>1, <1>2, <2>2
<1>6. Head(s) \in Range(s) /\ Range(Tail(s)) \subseteq Range(s)
  BY <1>1, <1>3, <1>4, <1>5
<1>7. ASSUME NEW x \in Range(s), x # Head(s)
      PROVE  x \in Range(Tail(s))
  <2>1. PICK i \in 1..Len(s) : x = s[i]
    BY <1>3
  <2>2. PICK j \in 1..Len(Tail(s)) : i = j + 1
    BY <1>1, <1>5, <1>7, <2>1
  <2>3. QED
    BY <1>1, <1>4, <2>1, <2>2
<1>8. QED
  BY <1>6, <1>7

LEMMA TakeRow ==
  ASSUME StreamTypeOK, ObserverTypeOK, Take
  PROVE  /\ queue' \in Seq(RowType) /\ Len(queue') <= Capacity
         /\ Head(queue) \in RowType /\ joined \in SUBSET Observer
         /\ sending' = <<[row |-> Head(queue), audience |-> joined]>>
         /\ Range(queue) = Range(queue') \cup {Head(queue)}
<1>1. queue \in Seq(RowType) /\ Len(queue) <= Capacity /\ queue # <<>> /\ queue' = Tail(queue)
  BY DEF StreamTypeOK, Take
<1>2. /\ Head(queue) \in RowType /\ queue' \in Seq(RowType) /\ Len(queue') = Len(queue) - 1
      /\ \A i \in 1..Len(queue') : queue'[i] = queue[i + 1]
  BY <1>1, HeadTailProperties
<1>3. Len(queue) \in Nat /\ Len(queue') \in Nat
  BY <1>1, <1>2, LenProperties
<1>4. Len(queue') <= Capacity
  BY <1>1, <1>2, <1>3, HistoryBounds
<1>5. Range(queue) = Range(queue') \cup {Head(queue)}
  BY <1>1, RangeOfTail
<1>6. QED
  BY <1>1, <1>2, <1>4, <1>5 DEF Take, ObserverTypeOK

Delivery == [row : RowType, audience : SUBSET Observer]

LEMMA OneDelivery ==
  ASSUME StreamTypeOK
  PROVE  /\ sending \in Seq(Delivery) /\ Len(sending) <= 1
         /\ sending # <<>> =>
              /\ sending[1] \in Delivery /\ Range(sending) = {sending[1]}
              /\ sending[1].row \in RowType
         /\ sending = <<>> => Range(sending) = {}
<1>1. sending \in Seq(Delivery) /\ Len(sending) <= 1 /\ Len(sending) \in Nat
  BY LenProperties DEF StreamTypeOK, Delivery
<1>2. Range(sending) = {sending[i] : i \in 1..Len(sending)}
  BY <1>1, RangeEquality
<1>3. ASSUME sending # <<>>
      PROVE  sending[1] \in Delivery /\ Range(sending) = {sending[1]}
  <2>1. Len(sending) # 0
    BY <1>1, <1>3, EmptySeq
  <2>2. \A n \in Nat : n <= 1 /\ n # 0 => n = 1
    OBVIOUS
  <2>3. Len(sending) = 1
    BY <1>1, <2>1, <2>2
  <2>4. 1 \in 1..Len(sending) /\ \A i \in 1..Len(sending) : i = 1
    BY <2>3
  <2>5. QED
    BY <1>1, <1>2, <2>4, ElementOfSeq
<1>4. ASSUME sending = <<>>
      PROVE  Range(sending) = {}
  <2>1. Len(sending) = 0
    BY <1>1, <1>4, EmptySeq
  <2>2. QED
    BY <1>2, <2>1
<1>5. QED
  BY <1>1, <1>3, <1>4 DEF Delivery

LEMMA StreamTypeStep ==
  ASSUME AgentTypeOK, StreamTypeOK, ObserverTypeOK, [Next]_vars
  PROVE  StreamTypeOK'
<1>1. CASE UNCHANGED <<streamVars, joined>>
  BY <1>1 DEF streamVars, StreamTypeOK
<1>2. CASE Event
  <2>1. PICK row \in RowType : NewRow(row)
    BY <1>2, EventRow
  <2>2. Enqueue(row) /\ sending' = sending /\ joined' = joined
    BY <2>1 DEF NewRow, EventUnchanged, observerVars
  <2>3. QED
    BY <2>2, EnqueueRow DEF StreamTypeOK
<1>3. CASE Close
  BY <1>3, EmptySeq DEF Close, observerVars, StreamTypeOK
<1>4. CASE Take
  <2>1. [row |-> Head(queue), audience |-> joined] \in Delivery
    BY <1>4, TakeRow DEF Delivery
  <2>2. sending' \in Seq(Delivery) /\ Len(sending') = 1
    BY <1>4, <2>1, TakeRow, OneElement
  <2>3. missed' = missed /\ joined' = joined
    BY <1>4 DEF Take, observerVars
  <2>4. QED
    BY <1>4, <2>2, <2>3, TakeRow DEF StreamTypeOK, Delivery
<1>5. CASE SendText \/ SendFails
  <2>1. sending' = <<>> /\ queue' = queue /\ joined' = joined /\ missed' \subseteq missed \cup joined
    BY <1>5 DEF SendText, SendFails, Deliver
  <2>2. QED
    BY <2>1, EmptySeq DEF StreamTypeOK
<1>6. ASSUME NEW o \in Observer, Join(o) \/ Leave(o)
      PROVE  StreamTypeOK'
  <2>1. /\ queue' = queue /\ sending' = sending /\ missed' = missed \ {o}
        /\ joined \ {o} \subseteq joined'
    BY <1>6 DEF Join, Leave, Reset
  <2>2. QED
    BY <2>1 DEF StreamTypeOK
<1>7. CASE BecomeUnavailable
  BY <1>1, <1>7 DEF BecomeUnavailable, observerVars
<1>8. ASSUME NEW o \in Observer,
             ReceiveRow(o) \/ FirstPage(o) \/ Busy(o) \/ NextPage(o) \/ PageRefused(o) \/ Age(o)
      PROVE  UNCHANGED <<streamVars, joined>>
  BY <1>8 DEF ReceiveRow, FirstPage, Busy, NextPage, PageRefused, Age, RpcUnchanged, observerVars
<1>9. CASE UNCHANGED vars
  BY <1>1, <1>9 DEF vars, observerVars
<1>10. QED
  BY <1>1, <1>2, <1>3, <1>4, <1>5, <1>6, <1>7, <1>8, <1>9 DEF Next, Event

-----------------------------------------------------------------------------
\* The transfers.

SnapshotType == [token : 0..MaxToken, rows : Seq(RowType), old : BOOLEAN]

LEMMA NoSnapshotType ==
  NoSnapshot \in SnapshotType /\ NoSnapshot.token = 0 /\ NoSnapshot.rows = <<>>
<1>1. <<>> \in Seq(RowType)
  BY EmptySeq
<1>2. QED
  BY <1>1, HistoryBounds DEF NoSnapshot, SnapshotType

LEMMA FreshSnapshots ==
  ASSUME TransferTypeOK
  PROVE  /\ snapshots \in [Observer -> SnapshotType] /\ Fresh \in [Observer -> SnapshotType]
         /\ \A o \in Observer : Fresh[o] = NoSnapshot \/ Fresh[o] = snapshots[o]
<1>1. snapshots \in [Observer -> SnapshotType]
  BY DEF TransferTypeOK, SnapshotType
<1>2. QED
  BY <1>1, NoSnapshotType DEF Fresh

Running(s) == {o \in Observer : s[o] # NoSnapshot}

LEMMA Transfers ==
  ASSUME TransferTypeOK
  PROVE  /\ IsFiniteSet(Running(snapshots)) /\ Cardinality(Running(snapshots)) <= MaxSnapshots
         /\ IsFiniteSet(Running(Fresh)) /\ Cardinality(Running(Fresh)) <= MaxSnapshots
         /\ Cardinality(Running(Fresh)) \in Nat
<1>1. IsFiniteSet(Running(snapshots))
  BY ObserverAssumption, FS_Subset DEF Running
<1>2. Cardinality(Running(snapshots)) <= MaxSnapshots
  BY DEF TransferTypeOK, Running
<1>3. Running(Fresh) \subseteq Running(snapshots)
  BY FreshSnapshots DEF Running
<1>4. IsFiniteSet(Running(Fresh)) /\ Cardinality(Running(Fresh)) <= Cardinality(Running(snapshots))
  BY <1>1, <1>3, FS_Subset
<1>5. Cardinality(Running(Fresh)) \in Nat /\ Cardinality(Running(snapshots)) \in Nat
  BY <1>1, <1>4, FS_CardinalityType
<1>6. Cardinality(Running(Fresh)) <= MaxSnapshots
  BY <1>2, <1>4, <1>5, HistoryBounds
<1>7. QED
  BY <1>1, <1>2, <1>4, <1>5, <1>6

\* A table with no transfer of its own keeps the limit.
LEMMA FewerTransfers ==
  ASSUME TransferTypeOK, snapshots' \in [Observer -> SnapshotType], issued' \in 0..MaxToken,
         NEW S, IsFiniteSet(S), Cardinality(S) <= MaxSnapshots, Running(snapshots') \subseteq S
  PROVE  TransferTypeOK'
<1>1. /\ IsFiniteSet(Running(snapshots')) /\ Cardinality(Running(snapshots')) <= Cardinality(S)
  BY FS_Subset
<1>2. Cardinality(Running(snapshots')) \in Nat /\ Cardinality(S) \in Nat
  BY <1>1, FS_CardinalityType
<1>3. Cardinality(Running(snapshots')) <= MaxSnapshots
  BY <1>1, <1>2, HistoryBounds
<1>4. QED
  BY <1>3 DEF TransferTypeOK, Running, SnapshotType

LEMMA TransferTypeStep ==
  ASSUME AgentTypeOK, TransferTypeOK, [Next]_vars
  PROVE  TransferTypeOK'
<1>1. issued \in 0..MaxToken
  BY DEF TransferTypeOK
<1>2. CASE UNCHANGED transferVars
  BY <1>2 DEF transferVars, TransferTypeOK
<1>3. CASE Close
  <2>1. snapshots' = [o \in Observer |-> NoSnapshot] /\ issued' = issued
    BY <1>3 DEF Close
  <2>2. snapshots' \in [Observer -> SnapshotType] /\ Running(snapshots') \subseteq Running(Fresh)
    BY <2>1, NoSnapshotType DEF Running
  <2>3. QED
    BY <1>1, <2>1, <2>2, Transfers, FewerTransfers
<1>4. ASSUME NEW o \in Observer, FirstPage(o)
      PROVE  TransferTypeOK'
  <2>1. PICK s : /\ s = NoSnapshot \/ s = [token |-> issued + 1, rows |-> Snapshot, old |-> FALSE]
                 /\ snapshots' = [Fresh EXCEPT ![o] = s]
    BY <1>4 DEF FirstPage
  <2>2. issued' = issued + 1 /\ issued' \in 0..MaxToken
    BY <1>1, <1>4, HistoryBounds DEF FirstPage
  <2>3. s \in SnapshotType
    <3>1. Snapshot \in Seq(RowType) /\ issued + 1 \in 0..MaxToken
      BY <2>2, SnapshotRows
    <3>2. [token |-> issued + 1, rows |-> Snapshot, old |-> FALSE] \in SnapshotType
      BY <3>1 DEF SnapshotType
    <3>3. QED
      BY <2>1, <3>2, NoSnapshotType
  <2>4. /\ snapshots' \in [Observer -> SnapshotType]
        /\ Running(snapshots') \subseteq Running(Fresh) \cup {o}
    BY <2>1, <2>3, FreshSnapshots DEF Running
  <2>5. HasRoom(o)
    BY <1>4 DEF FirstPage
  <2>6. CASE o \in Running(Fresh)
    <3>1. Running(snapshots') \subseteq Running(Fresh)
      BY <2>4, <2>6
    <3>2. QED
      BY <2>2, <2>4, <3>1, Transfers, FewerTransfers
  <2>7. CASE o \notin Running(Fresh)
    <3>1. Cardinality(Running(Fresh)) < MaxSnapshots
      BY <2>5, <2>7 DEF HasRoom, Running
    <3>2. /\ IsFiniteSet(Running(Fresh) \cup {o})
          /\ Cardinality(Running(Fresh) \cup {o}) = Cardinality(Running(Fresh)) + 1
      BY <2>7, Transfers, FS_AddElement
    <3>3. Cardinality(Running(Fresh) \cup {o}) <= MaxSnapshots
      BY <3>1, <3>2, Transfers, HistoryBounds
    <3>4. QED
      BY <2>2, <2>4, <3>2, <3>3, FewerTransfers
  <2>8. QED
    BY <2>6, <2>7
<1>5. ASSUME NEW o \in Observer, Busy(o) \/ NextPage(o) \/ PageRefused(o)
      PROVE  TransferTypeOK'
  <2>1. issued' = issued
    BY <1>5 DEF Busy, NextPage, PageRefused
  <2>2. snapshots' = Fresh \/ \E last \in BOOLEAN :
          snapshots' = [Fresh EXCEPT ![o] = IF last THEN NoSnapshot ELSE @]
    BY <1>5 DEF Busy, NextPage, PageRefused
  <2>3. snapshots' \in [Observer -> SnapshotType] /\ Running(snapshots') \subseteq Running(Fresh)
    BY <2>2, NoSnapshotType, FreshSnapshots DEF Running
  <2>4. QED
    BY <1>1, <2>1, <2>3, Transfers, FewerTransfers
<1>6. ASSUME NEW o \in Observer, Age(o)
      PROVE  TransferTypeOK'
  <2>1. snapshots' = [snapshots EXCEPT ![o].old = TRUE] /\ issued' = issued /\ snapshots[o] # NoSnapshot
    BY <1>6 DEF Age
  <2>2. snapshots' \in [Observer -> SnapshotType]
    BY <2>1, FreshSnapshots DEF SnapshotType
  <2>3. Running(snapshots') \subseteq Running(snapshots)
    BY <2>1, FreshSnapshots DEF Running
  <2>4. QED
    BY <1>1, <2>1, <2>2, <2>3, Transfers, FewerTransfers
<1>7. CASE Event \/ BecomeUnavailable \/ Take \/ SendText \/ SendFails
  <2>1. Event => \E row \in RowType : NewRow(row)
    BY EventRow
  <2>2. UNCHANGED transferVars
    BY <1>7, <2>1 DEF NewRow, EventUnchanged, BecomeUnavailable, Take, SendText, SendFails, Deliver
  <2>3. QED
    BY <1>2, <2>2
<1>8. ASSUME NEW o \in Observer, Join(o) \/ Leave(o) \/ ReceiveRow(o)
      PROVE  UNCHANGED transferVars
  BY <1>8 DEF Join, Leave, Reset, ReceiveRow
<1>9. CASE UNCHANGED vars
  BY <1>2, <1>9 DEF vars
<1>10. QED
  BY <1>2, <1>3, <1>4, <1>5, <1>6, <1>7, <1>8, <1>9 DEF Next, Event

-----------------------------------------------------------------------------
\* The observers.

LEMMA CollectType ==
  ASSUME ObserverTypeOK, UNCHANGED <<joined, inbox>>, NEW o \in Observer, NEW last \in BOOLEAN,
         NEW rows \in Seq(RowType), NEW t \in 0..MaxToken, NEW whole \in Seq(RowType),
         Collect(o, rows, t, whole, last)
  PROVE  ObserverTypeOK'
<1>1. <<>> \in Seq(RowType) /\ 0 \in 0..MaxToken /\ Range(rows) \in SUBSET RowType
  BY EmptySeq, RangeOfSeq, HistoryBounds
<1>2. token' \in [Observer -> 0..MaxToken] /\ caught' \in [Observer -> BOOLEAN]
  BY <1>1 DEF ObserverTypeOK, Collect
<1>3. got' \in [Observer -> Seq(RowType)]
  BY <1>1 DEF ObserverTypeOK, Collect
<1>4. frozen' \in [Observer -> Seq(RowType)]
  BY <1>1 DEF ObserverTypeOK, Collect
<1>5. view' \in [Observer -> SUBSET RowType]
  BY <1>1 DEF ObserverTypeOK, Collect
<1>6. QED
  BY <1>2, <1>3, <1>4, <1>5 DEF ObserverTypeOK

\* The first page is the first row, if there is one.
FirstRows(rows) == SubSeq(rows, 1, IF rows = <<>> THEN 0 ELSE 1)

LEMMA FirstRowsOf ==
  ASSUME NEW rows \in Seq(RowType)
  PROVE  /\ FirstRows(rows) \in Seq(RowType)
         /\ rows = <<>> => FirstRows(rows) = <<>>
         /\ rows # <<>> => /\ Len(FirstRows(rows)) = 1 /\ FirstRows(rows)[1] = rows[1]
                           /\ Len(rows) >= 1
<1>1. CASE rows = <<>>
  BY <1>1, SubSeqEmpty, EmptySeq DEF FirstRows
<1>2. CASE rows # <<>>
  <2>1. Len(rows) \in Nat /\ Len(rows) # 0
    BY <1>2, LenProperties, EmptySeq
  <2>2. \A i \in 1..1 : rows[i] \in RowType
    <3>1. \A i \in 1..1 : i \in 1..Len(rows)
      BY <2>1
    <3>2. QED
      BY <3>1, ElementOfSeq
  <2>3. /\ SubSeq(rows, 1, 1) \in Seq(RowType)
        /\ Len(SubSeq(rows, 1, 1)) = 1 /\ SubSeq(rows, 1, 1)[1] = rows[1]
    BY <2>2, SubSeqProperties
  <2>4. QED
    BY <1>2, <2>1, <2>3 DEF FirstRows
<1>3. QED
  BY <1>1, <1>2

\* A valid page lies in the snapshot.
LEMMA PageOf ==
  ASSUME TransferTypeOK, ObserverTypeOK, NEW o \in Observer, got[o] # <<>>, ValidPage(o)
  PROVE  /\ Fresh[o] = snapshots[o] /\ snapshots[o].token = token[o]
         /\ Fresh[o].rows \in Seq(RowType) /\ Pages(Fresh[o].rows) = Len(Fresh[o].rows)
         /\ got[o] \in Seq(RowType)
         /\ Len(got[o]) + 1 \in 1..Len(Fresh[o].rows) /\ Fresh[o].rows[Len(got[o]) + 1] \in RowType
<1>1. Fresh[o] = snapshots[o] /\ Fresh[o] # NoSnapshot /\ snapshots[o].token = token[o]
  BY FreshSnapshots DEF ValidPage
<1>2. Fresh[o].rows \in Seq(RowType) /\ got[o] \in Seq(RowType)
  BY FreshSnapshots DEF SnapshotType, ObserverTypeOK
<1>3. Len(Fresh[o].rows) \in Nat /\ Len(got[o]) \in Nat /\ Len(got[o]) # 0
  BY <1>2, LenProperties, EmptySeq
<1>4. Len(got[o]) < Pages(Fresh[o].rows)
  BY DEF ValidPage
<1>5. Fresh[o].rows # <<>>
  BY <1>3, <1>4 DEF Pages
<1>6. Pages(Fresh[o].rows) = Len(Fresh[o].rows)
  BY <1>5 DEF Pages
<1>7. Len(got[o]) + 1 \in 1..Len(Fresh[o].rows)
  BY <1>3, <1>4, <1>6
<1>8. Fresh[o].rows[Len(got[o]) + 1] \in RowType
  BY <1>2, <1>7, ElementOfSeq
<1>9. QED
  BY <1>1, <1>2, <1>6, <1>7, <1>8

LEMMA MergeType ==
  ASSUME NEW rows \in SUBSET RowType, NEW row \in RowType
  PROVE  Merge(rows, row) \in SUBSET RowType
BY DEF Merge

LEMMA ObserverTypeStep ==
  ASSUME AgentTypeOK, StreamTypeOK, TransferTypeOK, ObserverTypeOK, [Next]_vars
  PROVE  ObserverTypeOK'
<1>1. CASE UNCHANGED observerVars
  BY <1>1 DEF observerVars, ObserverTypeOK
<1>2. CASE SendText \/ SendFails
  <2>1. PICK audience \in SUBSET joined : Deliver(audience)
    BY <1>2 DEF SendText, SendFails
  <2>2. sending # <<>> /\ sending[1].row \in RowType
    BY <1>2, OneDelivery DEF SendText, SendFails
  <2>3. inbox' \in [Observer -> SUBSET RowType]
    BY <2>1, <2>2 DEF Deliver, ObserverTypeOK
  <2>4. UNCHANGED <<joined, got, token, frozen, caught, view>>
    BY <2>1 DEF Deliver
  <2>5. QED
    BY <2>3, <2>4 DEF ObserverTypeOK
<1>3. ASSUME NEW o \in Observer, Join(o) \/ Leave(o)
      PROVE  ObserverTypeOK'
  <2>1. Reset(o) /\ joined' \subseteq joined \cup {o}
    BY <1>3 DEF Join, Leave
  <2>2. <<>> \in Seq(RowType) /\ 0 \in 0..MaxToken
    BY EmptySeq, HistoryBounds
  <2>3. joined' \subseteq Observer
    BY <2>1 DEF ObserverTypeOK
  <2>4. /\ inbox' \in [Observer -> SUBSET RowType] /\ view' \in [Observer -> SUBSET RowType]
        /\ caught' \in [Observer -> BOOLEAN]
    BY <2>1 DEF Reset, ObserverTypeOK
  <2>5. token' \in [Observer -> 0..MaxToken]
    BY <2>1, <2>2 DEF Reset, ObserverTypeOK
  <2>6. got' \in [Observer -> Seq(RowType)] /\ frozen' \in [Observer -> Seq(RowType)]
    BY <2>1, <2>2 DEF Reset, ObserverTypeOK
  <2>7. QED
    BY <2>3, <2>4, <2>5, <2>6 DEF ObserverTypeOK
<1>4. ASSUME NEW o \in Observer, ReceiveRow(o)
      PROVE  ObserverTypeOK'
  <2>1. PICK row \in inbox[o] : /\ view' = [view EXCEPT ![o] = Merge(@, row)]
                                /\ inbox' = [inbox EXCEPT ![o] = @ \ {row}]
    BY <1>4 DEF ReceiveRow
  <2>2. row \in RowType /\ view[o] \in SUBSET RowType
    BY DEF ObserverTypeOK
  <2>3. Merge(view[o], row) \in SUBSET RowType
    BY <2>2, MergeType
  <2>4. view' \in [Observer -> SUBSET RowType] /\ inbox' \in [Observer -> SUBSET RowType]
    BY <2>1, <2>3 DEF ObserverTypeOK
  <2>5. UNCHANGED <<joined, got, token, frozen, caught>>
    BY <1>4 DEF ReceiveRow
  <2>6. QED
    BY <2>4, <2>5 DEF ObserverTypeOK
<1>5. ASSUME NEW o \in Observer, FirstPage(o) \/ Busy(o) \/ NextPage(o) \/ PageRefused(o)
      PROVE  UNCHANGED <<joined, inbox>>
  BY <1>5 DEF FirstPage, Busy, NextPage, PageRefused, RpcUnchanged
<1>6. CASE NothingReceived /\ UNCHANGED <<joined, inbox>>
  BY <1>6 DEF NothingReceived, ObserverTypeOK
<1>7. ASSUME NEW o \in Observer, FirstPage(o), ~NothingReceived
      PROVE  ObserverTypeOK'
  <2>1. Collect(o, FirstRows(Snapshot), issued + 1, Snapshot, Pages(Snapshot) = 1)
    BY <1>7 DEF FirstPage, FirstRows
  <2>2. issued + 1 \in 0..MaxToken
    BY <1>7, HistoryBounds DEF FirstPage, TransferTypeOK
  <2>3. Snapshot \in Seq(RowType) /\ FirstRows(Snapshot) \in Seq(RowType)
    BY SnapshotRows, FirstRowsOf
  <2>4. (Pages(Snapshot) = 1) \in BOOLEAN
    OBVIOUS
  <2>5. QED
    BY <1>5, <1>7, <2>1, <2>2, <2>3, <2>4, CollectType
<1>8. ASSUME NEW o \in Observer, NextPage(o), ~NothingReceived
      PROVE  ObserverTypeOK'
  <2> DEFINE page == Fresh[o].rows[Len(got[o]) + 1]
             last == Len(got[o]) + 1 = Pages(Fresh[o].rows)
  <2>1. Collect(o, Append(got[o], page), token[o], frozen[o], last)
    BY <1>8 DEF NextPage
  <2>2. got[o] \in Seq(RowType) /\ page \in RowType
    BY <1>8, PageOf DEF NextPage
  <2>3. Append(got[o], page) \in Seq(RowType)
    BY <2>2, AppendProperties
  <2>4. token[o] \in 0..MaxToken /\ frozen[o] \in Seq(RowType) /\ last \in BOOLEAN
    BY DEF ObserverTypeOK
  <2> HIDE DEF page, last
  <2>5. QED
    BY <1>5, <1>8, <2>1, <2>3, <2>4, CollectType
<1>9. ASSUME NEW o \in Observer, PageRefused(o)
      PROVE  ObserverTypeOK'
  <2>1. Collect(o, <<>>, 0, <<>>, FALSE)
    BY <1>9 DEF PageRefused
  <2>2. <<>> \in Seq(RowType) /\ 0 \in 0..MaxToken
    BY EmptySeq, HistoryBounds
  <2>3. QED
    BY <1>5, <1>9, <2>1, <2>2, CollectType
<1>10. ASSUME NEW o \in Observer, Busy(o)
       PROVE  NothingReceived
  BY <1>10 DEF Busy
<1>11. ASSUME NEW o \in Observer, Age(o)
       PROVE  UNCHANGED observerVars
  BY <1>11 DEF Age
<1>12. CASE Event \/ BecomeUnavailable \/ Close \/ Take
  <2>1. Event => \E row \in RowType : NewRow(row)
    BY EventRow
  <2>2. UNCHANGED observerVars
    BY <1>12, <2>1 DEF NewRow, EventUnchanged, BecomeUnavailable, Close, Take
  <2>3. QED
    BY <1>1, <2>2
<1>13. CASE UNCHANGED vars
  BY <1>1, <1>13 DEF vars
<1>14. QED
  BY <1>1, <1>2, <1>3, <1>4, <1>5, <1>6, <1>7, <1>8, <1>9, <1>10, <1>11, <1>12, <1>13
     DEF Next, Event

-----------------------------------------------------------------------------
\* The pages that an observer puts together.

\* The conversation never shrinks.
LEMMA SnapshotStep ==
  ASSUME AgentTypeOK, [Next]_vars
  PROVE  /\ Snapshot' \in Seq(RowType) /\ Len(Snapshot) <= Len(Snapshot')
         /\ Len(Snapshot) \in Nat /\ Len(Snapshot') \in Nat
<1>1. AgentTypeOK'
  BY AgentTypeStep
<1>2. /\ items' \in Seq(RowType) /\ pending' \in Seq(RowType)
      /\ Len(items') \in Nat /\ Len(pending') \in Nat
  BY <1>1, LenProperties DEF AgentTypeOK
<1>3. Snapshot' \in Seq(RowType) /\ Len(Snapshot') = Len(items') + Len(pending')
  BY <1>2, ConcatProperties DEF Snapshot
<1>4. /\ Len(Snapshot) = Len(items) + Len(pending)
      /\ Len(items) \in Nat /\ Len(pending) \in Nat /\ Len(pending) <= 1
  BY SnapshotRows, Lists DEF AgentTypeOK
<1>5. \/ Len(items') = Len(items) /\ (Len(pending') = Len(pending) \/ Len(pending') = 1)
      \/ Len(items') = Len(items) + 1
  <2>1. CASE UNCHANGED agentVars
    BY <2>1 DEF agentVars
  <2>2. CASE Event
    <3>1. PICK row \in RowType : Revises(row) \/ Commits(row) \/ Says(row)
      BY <2>2, EventRow
    <3>2. CASE Revises(row)
      BY <3>2, OneElement DEF Revises
    <3>3. CASE Commits(row) \/ Says(row)
      BY <3>3, Lists, AppendRow DEF Commits, Says
    <3>4. QED
      BY <3>1, <3>2, <3>3
  <2>3. QED
    BY <2>1, <2>2, AgentStep
<1>6. \A i, j, k, l \in Nat :
        l <= 1 /\ ((i = j /\ (k = l \/ k = 1)) \/ i = j + 1) =>
          j + l <= i + k /\ j + l \in Nat /\ i + k \in Nat
  OBVIOUS
<1>7. /\ Len(items) + Len(pending) <= Len(items') + Len(pending')
      /\ Len(items) + Len(pending) \in Nat /\ Len(items') + Len(pending') \in Nat
  BY <1>2, <1>4, <1>5, <1>6
<1>8. QED
  BY <1>3, <1>4, <1>7

\* TransfersAgree, of one observer.
Reading(o) ==
  /\ ~caught[o] /\ token[o] # 0
  /\ Len(got[o]) < Len(frozen[o]) /\ Len(frozen[o]) <= Len(Snapshot)
  /\ \A k \in 1..Len(got[o]) : got[o][k] = frozen[o][k]
  /\ snapshots[o].token = token[o] => snapshots[o].rows = frozen[o]

TransferAgrees(o) ==
  /\ token[o] <= issued /\ snapshots[o].token <= issued
  /\ caught[o] \/ got[o] # <<>> => o \in joined
  /\ got[o] # <<>> => Reading(o)

LEMMA TransfersAgreeOf == TransfersAgree <=> \A o \in Observer : TransferAgrees(o)
BY DEF TransfersAgree, TransferAgrees, Reading

LEMMA TransferNumbers ==
  ASSUME TransferTypeOK, ObserverTypeOK, NEW o \in Observer
  PROVE  /\ issued \in Nat /\ token[o] \in Nat /\ snapshots[o].token \in Nat
         /\ got[o] \in Seq(RowType) /\ Len(got[o]) \in Nat
         /\ frozen[o] \in Seq(RowType) /\ Len(frozen[o]) \in Nat
         /\ caught[o] \in BOOLEAN
<1>1. /\ issued \in 0..MaxToken /\ token[o] \in 0..MaxToken /\ snapshots[o].token \in 0..MaxToken
      /\ got[o] \in Seq(RowType) /\ frozen[o] \in Seq(RowType) /\ caught[o] \in BOOLEAN
  BY FreshSnapshots DEF TransferTypeOK, ObserverTypeOK, SnapshotType
<1>2. QED
  BY <1>1, LenProperties, HistoryBounds

\* An observer whose transfer is left alone; the agent may discard its snapshot.
LEMMA TransferKept ==
  ASSUME AgentTypeOK, TransferTypeOK, ObserverTypeOK, [Next]_vars,
         NEW o \in Observer, TransferAgrees(o),
         token'[o] = token[o], got'[o] = got[o], frozen'[o] = frozen[o], caught'[o] = caught[o],
         o \in joined => o \in joined',
         \/ snapshots'[o].token = 0
         \/ snapshots'[o].token = snapshots[o].token /\ snapshots'[o].rows = snapshots[o].rows,
         issued' = issued \/ issued' = issued + 1
  PROVE  TransferAgrees(o)'
<1>1. token'[o] <= issued' /\ snapshots'[o].token <= issued'
  BY TransferNumbers DEF TransferAgrees
<1>2. ASSUME got'[o] # <<>>
      PROVE  Reading(o)'
  <2>1. Reading(o)
    BY <1>2 DEF TransferAgrees
  <2>2. Len(frozen[o]) <= Len(Snapshot')
    BY <2>1, SnapshotStep, TransferNumbers DEF Reading
  <2>3. snapshots'[o].token = token[o] => snapshots'[o].rows = frozen[o]
    BY <2>1 DEF Reading
  <2>4. QED
    BY <2>1, <2>2, <2>3 DEF Reading
<1>3. QED
  BY <1>1, <1>2 DEF TransferAgrees

\* An observer that is not in a transfer any more.
LEMMA TransferEnds ==
  ASSUME TransferTypeOK, ObserverTypeOK, NEW o \in Observer, TransferAgrees(o),
         token'[o] = 0, got'[o] = <<>>, caught'[o] => o \in joined',
         snapshots'[o].token <= issued', issued' \in Nat
  PROVE  TransferAgrees(o)'
BY DEF TransferAgrees

\* What the agent keeps of the transfer of another observer.
LEMMA KeptOrGone ==
  ASSUME TransferTypeOK, NEW o \in Observer, snapshots'[o] = Fresh[o]
  PROVE  \/ snapshots'[o].token = 0
         \/ snapshots'[o].token = snapshots[o].token /\ snapshots'[o].rows = snapshots[o].rows
BY FreshSnapshots, NoSnapshotType

LEMMA FirstPageAgrees ==
  ASSUME AgentTypeOK, TransferTypeOK, ObserverTypeOK, [Next]_vars,
         NEW o \in Observer, TransferAgrees(o), FirstPage(o)
  PROVE  TransferAgrees(o)'
<1>1. /\ issued' = issued + 1 /\ o \in joined' /\ Snapshot' = Snapshot
      /\ snapshots'[o] = IF Pages(Snapshot) = 1 THEN NoSnapshot
                         ELSE [token |-> issued + 1, rows |-> Snapshot, old |-> FALSE]
  BY FreshSnapshots DEF FirstPage, Allowed, RpcUnchanged, agentVars, Snapshot
<1>2. issued \in Nat /\ token[o] \in Nat /\ token[o] <= issued
  BY TransferNumbers DEF TransferAgrees
<1>3. Snapshot \in Seq(RowType) /\ Len(Snapshot) \in Nat
  BY SnapshotStep, SnapshotRows
<1>4. snapshots'[o].token \in {0, issued + 1} /\ snapshots'[o].token <= issued'
  BY <1>1, <1>2, NoSnapshotType
<1>5. CASE NothingReceived
  <2>1. UNCHANGED <<token, got, frozen, caught>>
    BY <1>5 DEF NothingReceived
  <2>2. ASSUME got'[o] # <<>>
        PROVE  Reading(o)'
    <3>1. Reading(o)
      BY <2>1, <2>2 DEF TransferAgrees
    <3>2. snapshots'[o].token # token'[o]
      BY <1>2, <1>4, <2>1, <3>1 DEF Reading
    <3>3. QED
      BY <1>1, <2>1, <3>1, <3>2 DEF Reading
  <2>3. token'[o] <= issued'
    BY <1>1, <1>2, <2>1
  <2>4. QED
    BY <1>1, <1>4, <2>2, <2>3 DEF TransferAgrees
<1>6. CASE Collect(o, FirstRows(Snapshot), issued + 1, Snapshot, Pages(Snapshot) = 1)
  <2>1. CASE Pages(Snapshot) = 1
    <3>1. token'[o] = 0 /\ got'[o] = <<>>
      BY <1>6, <2>1 DEF Collect, ObserverTypeOK
    <3>2. QED
      BY <1>1, <1>2, <1>4, <3>1, TransferEnds
  <2>2. CASE Pages(Snapshot) # 1
    <3>1. /\ token'[o] = issued + 1 /\ got'[o] = FirstRows(Snapshot) /\ frozen'[o] = Snapshot
          /\ caught'[o] = FALSE
      BY <1>6, <2>2 DEF Collect, ObserverTypeOK
    <3>2. Snapshot # <<>> /\ Len(Snapshot) # 1
      BY <2>2 DEF Pages
    <3>3. Len(got'[o]) = 1 /\ got'[o][1] = Snapshot[1] /\ Len(Snapshot) >= 1
      BY <1>3, <3>1, <3>2, FirstRowsOf
    <3>4. snapshots'[o].rows = Snapshot
      BY <1>1, <2>2
    <3>5. /\ Len(got'[o]) < Len(frozen'[o]) /\ Len(frozen'[o]) <= Len(Snapshot')
          /\ token'[o] # 0 /\ token'[o] <= issued'
      <4>1. 1 < Len(Snapshot) /\ Len(Snapshot) <= Len(Snapshot')
        <5>1. \A n \in Nat : n # 1 /\ n >= 1 => 1 < n
          OBVIOUS
        <5>2. 1 < Len(Snapshot)
          BY <1>3, <3>2, <3>3, <5>1
        <5>3. QED
          BY <5>2, SnapshotStep
      <4>2. issued + 1 # 0 /\ issued + 1 <= issued + 1
        BY <1>2
      <4>3. QED
        BY <1>1, <3>1, <3>3, <4>1, <4>2
    <3>6. Reading(o)'
      BY <3>1, <3>3, <3>4, <3>5 DEF Reading
    <3>7. QED
      BY <1>1, <1>4, <3>5, <3>6 DEF TransferAgrees
  <2>3. QED
    BY <2>1, <2>2
<1>7. QED
  BY <1>5, <1>6 DEF FirstPage, FirstRows

\* The next page of a transfer: the next row of what was frozen.
LEMMA PageIsNext ==
  ASSUME TransferTypeOK, ObserverTypeOK, NEW o \in Observer, TransferAgrees(o), NextPage(o)
  PROVE  /\ Reading(o) /\ Fresh[o].rows = frozen[o] /\ Fresh[o] = snapshots[o]
         /\ Pages(Fresh[o].rows) = Len(frozen[o])
         /\ Len(got[o]) + 1 <= Len(frozen[o]) /\ frozen[o][Len(got[o]) + 1] \in RowType
<1>1. got[o] # <<>> /\ ValidPage(o)
  BY DEF NextPage
<1>2. Reading(o)
  BY <1>1 DEF TransferAgrees
<1>3. Fresh[o].rows = frozen[o]
  BY <1>1, <1>2, PageOf DEF Reading
<1>4. Len(got[o]) + 1 <= Len(frozen[o])
  BY <1>2, TransferNumbers DEF Reading
<1>5. QED
  BY <1>1, <1>2, <1>3, <1>4, PageOf

LEMMA NextPageAgrees ==
  ASSUME AgentTypeOK, TransferTypeOK, ObserverTypeOK, [Next]_vars,
         NEW o \in Observer, TransferAgrees(o), NextPage(o)
  PROVE  TransferAgrees(o)'
<1> DEFINE page == frozen[o][Len(got[o]) + 1]
           last == Len(got[o]) + 1 = Len(frozen[o])
<1>1. /\ Reading(o) /\ Fresh[o].rows = frozen[o] /\ Fresh[o] = snapshots[o]
      /\ Pages(Fresh[o].rows) = Len(frozen[o])
      /\ Len(got[o]) + 1 <= Len(frozen[o]) /\ page \in RowType
  BY PageIsNext
<1>2. /\ issued' = issued /\ joined' = joined /\ o \in joined
      /\ snapshots'[o] = IF last THEN NoSnapshot ELSE Fresh[o]
  BY <1>1, FreshSnapshots DEF NextPage, Allowed, RpcUnchanged
<1>3. snapshots'[o].token = 0 \/ snapshots'[o] = snapshots[o]
  BY <1>1, <1>2, NoSnapshotType
<1>4. CASE NothingReceived
  BY <1>2, <1>3, <1>4, TransferKept DEF NothingReceived
<1>5. CASE Collect(o, Append(got[o], page), token[o], frozen[o], last)
  <2>1. snapshots'[o].token <= issued'
    BY <1>2, <1>3, TransferNumbers DEF TransferAgrees
  <2>2. CASE last
    <3>1. token'[o] = 0 /\ got'[o] = <<>>
      BY <1>5, <2>2 DEF Collect, ObserverTypeOK
    <3>2. QED
      BY <1>2, <2>1, <3>1, TransferNumbers, TransferEnds
  <2>3. CASE ~last
    <3>1. /\ token'[o] = token[o] /\ got'[o] = Append(got[o], page) /\ frozen'[o] = frozen[o]
          /\ caught'[o] = FALSE
      BY <1>5, <2>3 DEF Collect, ObserverTypeOK
    <3>2. /\ Len(got'[o]) = Len(got[o]) + 1
          /\ \A k \in 1..Len(got[o]) : got'[o][k] = got[o][k]
          /\ got'[o][Len(got[o]) + 1] = page
          /\ \A k \in 1..Len(got'[o]) : k \in 1..Len(got[o]) \/ k = Len(got[o]) + 1
      <4>1. got[o] \in Seq(RowType)
        BY TransferNumbers
      <4>2. QED
        BY <1>1, <3>1, <4>1, AppendRow
    <3>3. \A k \in 1..Len(got'[o]) : got'[o][k] = frozen'[o][k]
      BY <1>1, <3>1, <3>2 DEF Reading
    <3>4. Len(got'[o]) < Len(frozen'[o]) /\ Len(frozen'[o]) <= Len(Snapshot')
      <4>1. Len(got[o]) \in Nat /\ Len(frozen[o]) \in Nat /\ Len(frozen[o]) <= Len(Snapshot)
        BY <1>1, TransferNumbers DEF Reading
      <4>2. QED
        BY <1>1, <2>3, <3>1, <3>2, <4>1, SnapshotStep
    <3>5. snapshots'[o].token = token'[o] => snapshots'[o].rows = frozen'[o]
      BY <1>1, <1>2, <2>3, <3>1
    <3>6. Reading(o)'
      BY <1>1, <3>1, <3>3, <3>4, <3>5 DEF Reading
    <3>7. token'[o] <= issued' /\ o \in joined'
      BY <1>2, <3>1 DEF TransferAgrees
    <3>8. QED
      BY <2>1, <3>6, <3>7 DEF TransferAgrees
  <2>4. QED
    BY <2>2, <2>3
<1>6. QED
  BY <1>1, <1>4, <1>5 DEF NextPage

LEMMA TransfersStep ==
  ASSUME AgentTypeOK, StreamTypeOK, TransferTypeOK, ObserverTypeOK, TransfersAgree, [Next]_vars
  PROVE  TransfersAgree'
<1> SUFFICES ASSUME NEW o \in Observer
             PROVE  TransferAgrees(o)'
  <2>1. ASSUME \A o \in Observer : TransferAgrees(o)'
        PROVE  TransfersAgree'
    BY <2>1 DEF TransfersAgree, TransferAgrees, Reading
  <2>2. QED
    BY <2>1
<1>1. TransferAgrees(o)
  BY TransfersAgreeOf
<1>2. issued \in Nat /\ snapshots[o].token \in Nat /\ snapshots[o].token <= issued
  BY <1>1, TransferNumbers DEF TransferAgrees
<1>3. CASE UNCHANGED <<got, token, frozen, caught, joined, snapshots, issued>>
  BY <1>1, <1>3, TransferKept
<1>4. CASE Event \/ BecomeUnavailable \/ Take \/ SendText \/ SendFails \/ UNCHANGED vars
  <2>1. ASSUME Event
        PROVE  UNCHANGED <<transferVars, observerVars>>
    BY <2>1, EventRow DEF NewRow, EventUnchanged
  <2>2. ASSUME BecomeUnavailable \/ Take \/ SendText \/ SendFails \/ UNCHANGED vars
        PROVE  UNCHANGED <<got, token, frozen, caught, joined, snapshots, issued>>
    BY <2>2 DEF BecomeUnavailable, Take, SendText, SendFails, Deliver, vars, transferVars,
                observerVars
  <2>3. QED
    BY <1>3, <1>4, <2>1, <2>2 DEF transferVars, observerVars
<1>5. CASE Close
  <2>1. /\ snapshots'[o].token = 0 /\ issued' = issued
        /\ UNCHANGED <<got, token, frozen, caught, joined>>
    BY <1>5, NoSnapshotType DEF Close, observerVars
  <2>2. QED
    BY <1>1, <2>1, TransferKept
<1>6. ASSUME NEW p \in Observer, ReceiveRow(p) \/ Age(p)
      PROVE  TransferAgrees(o)'
  <2>1. UNCHANGED <<got, token, frozen, caught, joined, issued>>
    BY <1>6 DEF ReceiveRow, Age, observerVars, transferVars
  <2>2. snapshots' = snapshots \/ snapshots' = [snapshots EXCEPT ![p].old = TRUE]
    BY <1>6 DEF ReceiveRow, Age, transferVars
  <2>3. snapshots \in [Observer -> SnapshotType]
    BY FreshSnapshots
  <2>4. snapshots'[o].token = snapshots[o].token /\ snapshots'[o].rows = snapshots[o].rows
    <3>1. CASE snapshots' = snapshots
      BY <3>1
    <3>2. CASE snapshots' = [snapshots EXCEPT ![p].old = TRUE]
      BY <2>3, <3>2 DEF SnapshotType
    <3>3. QED
      BY <2>2, <3>1, <3>2
  <2>5. QED
    BY <1>1, <2>1, <2>4, TransferKept
<1>7. ASSUME NEW p \in Observer, Join(p) \/ Leave(p)
      PROVE  TransferAgrees(o)'
  <2>1. Reset(p) /\ joined \ {p} \subseteq joined' /\ UNCHANGED <<snapshots, issued>>
    BY <1>7 DEF Join, Leave, Reset, transferVars
  <2>2. CASE o = p
    <3>1. token'[o] = 0 /\ got'[o] = <<>> /\ caught'[o] = FALSE
      BY <2>1, <2>2 DEF Reset, ObserverTypeOK
    <3>2. QED
      BY <1>1, <1>2, <2>1, <3>1, TransferEnds
  <2>3. CASE o # p
    <3>1. /\ token'[o] = token[o] /\ got'[o] = got[o] /\ frozen'[o] = frozen[o]
          /\ caught'[o] = caught[o]
      BY <2>1, <2>3 DEF Reset, ObserverTypeOK
    <3>2. QED
      BY <1>1, <2>1, <2>3, <3>1, TransferKept
  <2>4. QED
    BY <2>2, <2>3
<1>8. ASSUME NEW p \in Observer, p # o, FirstPage(p) \/ NextPage(p) \/ PageRefused(p)
      PROVE  TransferAgrees(o)'
  <2>1. /\ token'[o] = token[o] /\ got'[o] = got[o] /\ frozen'[o] = frozen[o]
        /\ caught'[o] = caught[o] /\ joined' = joined
    BY <1>8 DEF FirstPage, NextPage, PageRefused, Collect, NothingReceived, RpcUnchanged,
                ObserverTypeOK
  <2>2. snapshots'[o] = Fresh[o] /\ (issued' = issued \/ issued' = issued + 1)
    BY <1>8, FreshSnapshots DEF FirstPage, NextPage, PageRefused
  <2>3. QED
    BY <1>1, <2>1, <2>2, KeptOrGone, TransferKept
<1>9. ASSUME NEW p \in Observer, Busy(p)
      PROVE  TransferAgrees(o)'
  <2>1. /\ UNCHANGED <<got, token, frozen, caught, joined, issued>>
        /\ snapshots'[o] = Fresh[o]
    BY <1>9 DEF Busy, NothingReceived, RpcUnchanged
  <2>2. QED
    BY <1>1, <2>1, KeptOrGone, TransferKept
<1>10. CASE PageRefused(o)
  <2>1. token'[o] = 0 /\ got'[o] = <<>> /\ caught'[o] = FALSE
    BY <1>10 DEF PageRefused, Collect, ObserverTypeOK
  <2>2. snapshots'[o] = Fresh[o] /\ issued' = issued
    BY <1>10 DEF PageRefused
  <2>3. snapshots'[o].token <= issued'
    BY <1>2, <2>2, KeptOrGone
  <2>4. QED
    BY <1>1, <1>2, <2>1, <2>2, <2>3, TransferEnds
<1>11. CASE FirstPage(o) \/ NextPage(o)
  BY <1>1, <1>11, FirstPageAgrees, NextPageAgrees
<1>12. QED
  BY <1>4, <1>5, <1>6, <1>7, <1>8, <1>9, <1>10, <1>11 DEF Next, Event

\* What ends a transfer: the only page of a snapshot, or its last one.
LEMMA CatchingUp ==
  ASSUME AgentTypeOK, TransferTypeOK, ObserverTypeOK, [Next]_vars,
         NEW o \in Observer, ~caught[o], caught'[o]
  PROVE  \/ FirstPage(o) /\ Collect(o, FirstRows(Snapshot), issued + 1, Snapshot, TRUE)
            /\ Pages(Snapshot) = 1
         \/ NextPage(o) /\ Collect(o, Append(got[o], Fresh[o].rows[Len(got[o]) + 1]), token[o],
                                   frozen[o], TRUE)
            /\ Len(got[o]) + 1 = Pages(Fresh[o].rows)
<1>1. ASSUME caught' = caught
      PROVE  FALSE
  BY <1>1
<1>2. ~(Event \/ BecomeUnavailable \/ Close \/ Take \/ SendText \/ SendFails \/ UNCHANGED vars)
  <2>1. Event => \E row \in RowType : NewRow(row)
    BY EventRow
  <2>2. QED
    BY <1>1, <2>1 DEF NewRow, EventUnchanged, BecomeUnavailable, Close, Take, SendText, SendFails,
                      Deliver, vars, observerVars
<1>3. ASSUME NEW p \in Observer, ReceiveRow(p) \/ Age(p) \/ Busy(p)
      PROVE  FALSE
  BY <1>1, <1>3 DEF ReceiveRow, Age, Busy, NothingReceived, observerVars
<1>4. ASSUME NEW p \in Observer, Join(p) \/ Leave(p)
      PROVE  FALSE
  BY <1>4 DEF Join, Leave, Reset, ObserverTypeOK
<1>5. ASSUME NEW p \in Observer, PageRefused(p)
      PROVE  FALSE
  BY <1>5 DEF PageRefused, Collect, ObserverTypeOK
<1>6. ASSUME NEW p \in Observer, FirstPage(p)
      PROVE  /\ p = o /\ Collect(o, FirstRows(Snapshot), issued + 1, Snapshot, TRUE)
             /\ Pages(Snapshot) = 1
  <2>1. Collect(p, FirstRows(Snapshot), issued + 1, Snapshot, Pages(Snapshot) = 1)
    BY <1>1, <1>6 DEF FirstPage, FirstRows, NothingReceived
  <2>2. p = o /\ Pages(Snapshot) = 1
    BY <2>1 DEF Collect, ObserverTypeOK
  <2>3. QED
    BY <2>1, <2>2
<1>7. ASSUME NEW p \in Observer, NextPage(p)
      PROVE  /\ p = o /\ Len(got[o]) + 1 = Pages(Fresh[o].rows)
             /\ Collect(o, Append(got[o], Fresh[o].rows[Len(got[o]) + 1]), token[o], frozen[o], TRUE)
  <2>1. Collect(p, Append(got[p], Fresh[p].rows[Len(got[p]) + 1]), token[p], frozen[p],
                Len(got[p]) + 1 = Pages(Fresh[p].rows))
    BY <1>1, <1>7 DEF NextPage, NothingReceived
  <2>2. p = o /\ Len(got[p]) + 1 = Pages(Fresh[p].rows)
    BY <2>1 DEF Collect, ObserverTypeOK
  <2>3. QED
    BY <2>1, <2>2
<1>8. QED
  BY <1>2, <1>3, <1>4, <1>5, <1>6, <1>7 DEF Next, Event

\* Equal sequences hold the same rows.
LEMMA WholeRange ==
  ASSUME NEW s \in Seq(RowType), NEW t \in Seq(RowType), NEW row \in RowType,
         Len(s) + 1 = Len(t), \A k \in 1..Len(s) : s[k] = t[k], row = t[Len(s) + 1]
  PROVE  Range(Append(s, row)) = Range(t)
<1>1. /\ Append(s, row) \in Seq(RowType) /\ Len(Append(s, row)) = Len(t)
      /\ \A k \in 1..Len(Append(s, row)) : Append(s, row)[k] = t[k]
  BY AppendRow
<1>2. Append(s, row) = t
  BY <1>1, SeqEqual
<1>3. QED
  BY <1>2

LEMMA LastPageIsWhole ==
  ASSUME TransferTypeOK, ObserverTypeOK, NEW o \in Observer, TransferAgrees(o), NextPage(o),
         Len(got[o]) + 1 = Pages(Fresh[o].rows)
  PROVE  Range(Append(got[o], Fresh[o].rows[Len(got[o]) + 1])) = Range(frozen[o])
<1>1. /\ Reading(o) /\ Fresh[o].rows = frozen[o]
      /\ Len(got[o]) + 1 = Len(frozen[o]) /\ frozen[o][Len(got[o]) + 1] \in RowType
  BY PageIsNext
<1>2. got[o] \in Seq(RowType) /\ frozen[o] \in Seq(RowType)
  BY TransferNumbers
<1>3. QED
  BY <1>1, <1>2, WholeRange DEF Reading

LEMMA PagesStep ==
  ASSUME AgentTypeOK, TransferTypeOK, ObserverTypeOK, TransfersAgree, [Next]_vars
  PROVE  \A o \in Observer : got[o] # <<>> /\ ~caught[o] /\ caught'[o]
                               => view'[o] = Range(frozen[o])
<1> SUFFICES ASSUME NEW o \in Observer, got[o] # <<>>, ~caught[o], caught'[o]
             PROVE  view'[o] = Range(frozen[o])
  OBVIOUS
<1>1. TransferAgrees(o) /\ Reading(o)
  BY TransfersAgreeOf DEF TransferAgrees
<1>2. ASSUME Pages(Snapshot) = 1
      PROVE  FALSE
  <2>1. /\ Len(got[o]) # 0 /\ Len(got[o]) \in Nat /\ Len(frozen[o]) \in Nat
        /\ Len(got[o]) < Len(frozen[o]) /\ Len(frozen[o]) <= Len(Snapshot)
    BY <1>1, TransferNumbers, EmptySeq DEF Reading
  <2>2. Len(Snapshot) <= 1 /\ Len(Snapshot) \in Nat
    BY <1>2, SnapshotStep, SnapshotRows, EmptySeq DEF Pages
  <2>3. QED
    BY <2>1, <2>2
<1>3. ASSUME NextPage(o), Len(got[o]) + 1 = Pages(Fresh[o].rows),
             Collect(o, Append(got[o], Fresh[o].rows[Len(got[o]) + 1]), token[o], frozen[o], TRUE)
      PROVE  view'[o] = Range(frozen[o])
  <2>1. view'[o] = Range(Append(got[o], Fresh[o].rows[Len(got[o]) + 1]))
    BY <1>3 DEF Collect, ObserverTypeOK
  <2>2. QED
    BY <1>1, <1>3, <2>1, LastPageIsWhole
<1>4. QED
  BY <1>2, <1>3, CatchingUp

-----------------------------------------------------------------------------
\* What the observers show.

\* A later row is newer, a final one newer than a partial one; nothing is newer than itself.
LEMMA NewerIsAnOrder ==
  ASSUME NEW a \in RowType, NEW b \in RowType, NEW c \in RowType
  PROVE  /\ ~Newer(a, a)
         /\ Newer(a, b) => ~Newer(b, a)
         /\ Newer(a, b) /\ Newer(b, c) => Newer(a, c)
BY RowNumbers DEF Newer

LEMMA CurrentRows ==
  ASSUME AgentTypeOK
  PROVE  Current \subseteq RowType /\ Current = Range(items) \cup Range(pending)
BY SnapshotRows, Lists, RangeOfSeq, RangeConcatenation DEF Current, Snapshot

\* The conversation has one row per segment.
LEMMA CurrentApart ==
  ASSUME AgentTypeOK, RowsInv
  PROVE  \A r, s \in Current : r.segment = s.segment => r = s
<1>1. UtteranceOnce
  BY RowsInvIsUtteranceOnce
<1>2. Current = {Snapshot[i] : i \in 1..Len(Snapshot)}
  BY SnapshotRows, RangeEquality DEF Current
<1>3. SUFFICES ASSUME NEW i \in 1..Len(Snapshot), NEW j \in 1..Len(Snapshot),
                      Snapshot[i].segment = Snapshot[j].segment
               PROVE  Snapshot[i] = Snapshot[j]
  BY <1>2
<1>4. QED
  BY <1>1, <1>3 DEF UtteranceOnce

LEMMA ShortRanges ==
  /\ Range(<<>>) = {}
  /\ \A x : Range(<<x>>) = {x}
<1>1. Range(<<>>) = {}
  BY DEF Range
<1>2. ASSUME NEW x
      PROVE  Range(<<x>>) = {x}
  <2>1. <<x>> \in Seq({x})
    BY OneElement
  <2>2. Range(<<x>>) = {<<x>>[i] : i \in 1..Len(<<x>>)}
    BY <2>1, RangeEquality
  <2>3. QED
    BY <2>2
<1>3. QED
  BY <1>1, <1>2

\* The open row, and the row that takes its place.
LEMMA RowReplacesOpen ==
  ASSUME AgentTypeOK, RowsInv, NEW row \in RowType, NewRow(row), Revises(row) \/ Commits(row),
         NEW c \in Range(pending)
  PROVE  c.segment = row.segment /\ Newer(row, c)
<1>1. Range(pending) = {pending[k] : k \in 1..Len(pending)}
  BY Lists, RangeEquality
<1>2. c = pending[1] /\ 1 \in 1..Len(pending) /\ pending # <<>>
  <2>1. PICK k \in 1..Len(pending) : c = pending[k]
    BY <1>1
  <2>2. k = 1 /\ Len(pending) # 0
    BY <2>1, Lists
  <2>3. QED
    BY <2>1, <2>2, Lists
<1>3. row.segment = c.segment
  BY <1>2 DEF Revises, Commits, NextSegment
<1>4. c \in RowType /\ ~c.final /\ c.sequence <= sequence
  BY <1>2, Lists DEF RowsInv, TurnsApart, Numbered
<1>5. row.sequence = sequence + 1 /\ row.final \in {TRUE, FALSE}
  BY DEF NewRow, Revises, Commits
<1>6. c.sequence \in Nat /\ sequence \in Nat /\ c.final = FALSE
  BY <1>4, RowNumbers, Numbers
<1>7. Newer(row, c)
  <2>1. row.sequence > c.sequence
    BY <1>4, <1>5, <1>6
  <2>2. QED
    BY <1>5, <1>6, <2>1 DEF Newer
<1>8. QED
  BY <1>3, <1>7

\* An event adds its row to the conversation and replaces rows of its segment only.
LEMMA EventCurrent ==
  ASSUME AgentTypeOK, RowsInv, Event
  PROVE  \E row \in RowType :
           /\ NewRow(row)
           /\ row \in Current' /\ Current' \subseteq Current \cup {row}
           /\ \A c \in Current : c \in Current' \/ (c.segment = row.segment /\ Newer(row, c))
<1>1. PICK row \in RowType : NewRow(row) /\ (Revises(row) \/ Commits(row) \/ Says(row))
  BY EventRow
<1>2. items \in Seq(RowType) /\ Current = Range(items) \cup Range(pending)
  BY Lists, CurrentRows
<1>3. Current' = Range(items') \cup Range(pending')
  <2>1. [Next]_vars
    BY DEF Event, Next
  <2>2. items' \in Seq(RowType) /\ pending' \in Seq(RowType)
    BY <2>1, AgentTypeStep DEF AgentTypeOK
  <2>3. QED
    BY <2>2, RangeConcatenation DEF Current, Snapshot
<1>4. CASE Revises(row)
  <2>1. Current' = Range(items) \cup {row}
    BY <1>3, <1>4, ShortRanges DEF Revises
  <2>2. QED
    BY <1>1, <1>2, <1>4, <2>1, RowReplacesOpen
<1>5. CASE Commits(row)
  <2>1. Current' = Range(items) \cup {row}
    BY <1>2, <1>3, <1>5, ShortRanges, RangeOfAppend DEF Commits
  <2>2. QED
    BY <1>1, <1>2, <1>5, <2>1, RowReplacesOpen
<1>6. CASE Says(row)
  <2>1. Current' = Current \cup {row}
    BY <1>2, <1>3, <1>6, RangeOfAppend DEF Says
  <2>2. QED
    BY <1>1, <2>1
<1>7. QED
  BY <1>1, <1>4, <1>5, <1>6

\* ObserversCatchUp, of one observer.
Known(o) == Range(queue) \cup Sent \cup inbox[o] \cup Base(o)
NotAhead(o) == \A r \in Known(o) : Superseded(r)
OneRowEach(o) == \A r, s \in Base(o) : r.segment = s.segment => r = s
Follows(o) == o \notin missed /\ (caught[o] \/ got[o] # <<>>)
Complete(o) == Follows(o) => Current \subseteq Base(o) \cup Range(queue) \cup SentTo(o) \cup inbox[o]

CatchesUp(o) == NotAhead(o) /\ OneRowEach(o) /\ Complete(o)

LEMMA ObserversCatchUpOf ==
  ObserversCatchUp <=> (~closed => \A o \in Observer : CatchesUp(o))
BY DEF ObserversCatchUp, CatchesUp, NotAhead, OneRowEach, Complete, Known, Follows

LEMMA KnownRows ==
  ASSUME StreamTypeOK, ObserverTypeOK, NEW o \in Observer
  PROVE  Known(o) \subseteq RowType /\ Base(o) \subseteq RowType
<1>1. Range(queue) \subseteq RowType
  BY RangeOfSeq DEF StreamTypeOK
<1>2. Sent \subseteq RowType
  BY OneDelivery DEF Sent
<1>3. Base(o) \subseteq RowType
  <2>1. Range(frozen[o]) \subseteq RowType /\ view[o] \subseteq RowType
    BY RangeOfSeq DEF ObserverTypeOK
  <2>2. QED
    BY <2>1 DEF Base
<1>4. inbox[o] \subseteq RowType
  BY DEF ObserverTypeOK
<1>5. QED
  BY <1>1, <1>2, <1>3, <1>4 DEF Known

\* An observer that an event of the session finds as it was.
LEMMA EventCatchesUp ==
  ASSUME AgentTypeOK, RowsInv, StreamTypeOK, ObserverTypeOK, Event,
         NEW o \in Observer, TransferAgrees(o), CatchesUp(o)
  PROVE  CatchesUp(o)'
<1>1. PICK row \in RowType :
        /\ NewRow(row)
        /\ row \in Current' /\ Current' \subseteq Current \cup {row}
        /\ \A c \in Current : c \in Current' \/ (c.segment = row.segment /\ Newer(row, c))
  BY EventCurrent
<1>2. Enqueue(row) /\ UNCHANGED <<sending, joined, inbox, got, frozen, caught, view>>
  BY <1>1 DEF NewRow, EventUnchanged, observerVars
<1>3. Base(o)' = Base(o) /\ Sent' = Sent /\ SentTo(o)' = SentTo(o)
  BY <1>2 DEF Base, Sent, SentTo
<1>4. Range(queue') \subseteq Range(queue) \cup {row}
  BY <1>2, EnqueueRow
<1>5. NotAhead(o)'
  <2>1. SUFFICES ASSUME NEW r \in Known(o)'
                 PROVE  Superseded(r)'
    BY DEF NotAhead
  <2>2. CASE r = row
    BY <1>1, <2>2 DEF Superseded
  <2>3. CASE r # row
    <3>1. r \in Known(o)
      BY <1>2, <1>3, <1>4, <2>1, <2>3 DEF Known
    <3>2. PICK c \in Current : c.segment = r.segment /\ (c = r \/ Newer(c, r))
      BY <3>1 DEF CatchesUp, NotAhead, Superseded
    <3>3. CASE c \in Current'
      BY <3>2, <3>3 DEF Superseded
    <3>4. CASE c.segment = row.segment /\ Newer(row, c)
      <4>1. c \in RowType /\ r \in RowType
        BY <3>1, CurrentRows, KnownRows
      <4>2. Newer(row, r)
        BY <3>2, <3>4, <4>1, NewerIsAnOrder
      <4>3. QED
        BY <1>1, <3>2, <3>4, <4>2 DEF Superseded
    <3>5. QED
      BY <1>1, <3>2, <3>3, <3>4
  <2>4. QED
    BY <2>2, <2>3
<1>6. OneRowEach(o)'
  BY <1>3 DEF CatchesUp, OneRowEach
<1>7. Complete(o)'
  <2>1. CASE Range(queue') = Range(queue) \cup {row} /\ UNCHANGED missed
    BY <1>1, <1>2, <1>3, <2>1 DEF CatchesUp, Complete, Follows
  <2>2. CASE missed' = missed \cup joined
    BY <1>2, <2>2 DEF TransferAgrees, Complete, Follows
  <2>3. QED
    BY <1>2, <2>1, <2>2, EnqueueRow
<1>8. QED
  BY <1>5, <1>6, <1>7 DEF CatchesUp

LEMMA TakeCatchesUp ==
  ASSUME AgentTypeOK, StreamTypeOK, ObserverTypeOK, Take,
         NEW o \in Observer, TransferAgrees(o), CatchesUp(o)
  PROVE  CatchesUp(o)'
<1>1. /\ Range(queue) = Range(queue') \cup {Head(queue)}
      /\ sending' = <<[row |-> Head(queue), audience |-> joined]>>
  BY TakeRow
<1>2. UNCHANGED <<items, pending, missed, joined, inbox, got, frozen, caught, view>> /\ sending = <<>>
  BY DEF Take, agentVars, observerVars
<1>3. Current' = Current /\ Base(o)' = Base(o)
  BY <1>2 DEF Current, Snapshot, Base
<1>4. Range(sending') = {[row |-> Head(queue), audience |-> joined]}
  BY <1>1, ShortRanges
<1>5. Sent' = {Head(queue)}
  BY <1>4 DEF Sent
<1>6. SentTo(o) = {} /\ (o \in joined => Head(queue) \in SentTo(o)')
  <2>1. SentTo(o) = {}
    BY <1>2, ShortRanges DEF SentTo
  <2>2. ASSUME o \in joined
        PROVE  Head(queue) \in SentTo(o)'
    <3>1. [row |-> Head(queue), audience |-> joined] \in {d \in Range(sending') : o \in d.audience}
      BY <1>4, <2>2
    <3>2. QED
      BY <3>1 DEF SentTo
  <2>3. QED
    BY <2>1, <2>2
<1>7. NotAhead(o)'
  BY <1>1, <1>2, <1>3, <1>5 DEF CatchesUp, NotAhead, Known, Superseded
<1>8. OneRowEach(o)'
  BY <1>3 DEF CatchesUp, OneRowEach
<1>9. Complete(o)'
  BY <1>1, <1>2, <1>3, <1>6 DEF CatchesUp, Complete, Follows, TransferAgrees
<1>10. QED
  BY <1>7, <1>8, <1>9 DEF CatchesUp

LEMMA SendCatchesUp ==
  ASSUME AgentTypeOK, StreamTypeOK, ObserverTypeOK, SendText \/ SendFails,
         NEW o \in Observer, TransferAgrees(o), CatchesUp(o)
  PROVE  CatchesUp(o)'
<1>1. PICK audience \in SUBSET joined :
        /\ Deliver(audience)
        /\ \/ UNCHANGED missed /\ sending[1].audience \cap joined \subseteq audience
           \/ missed' = missed \cup joined
  BY DEF SendText, SendFails
<1>2. /\ UNCHANGED <<items, pending, queue, joined, got, frozen, caught, view>> /\ sending' = <<>>
      /\ inbox'[o] = IF o \in audience THEN inbox[o] \cup {sending[1].row} ELSE inbox[o]
  BY <1>1 DEF Deliver, agentVars
<1>3. Current' = Current /\ Base(o)' = Base(o)
  BY <1>2 DEF Current, Snapshot, Base
<1>4. Range(sending) = {sending[1]} /\ Range(sending') = {}
  BY <1>2, OneDelivery, ShortRanges DEF SendText, SendFails
<1>5. Sent = {sending[1].row} /\ Sent' = {}
  BY <1>4 DEF Sent
<1>6. \A r \in SentTo(o) : r = sending[1].row /\ o \in sending[1].audience
  BY <1>4 DEF SentTo
<1>7. NotAhead(o)'
  BY <1>2, <1>3, <1>5 DEF CatchesUp, NotAhead, Known, Superseded
<1>8. OneRowEach(o)'
  BY <1>3 DEF CatchesUp, OneRowEach
<1>9. Complete(o)'
  <2>1. CASE missed' = missed \cup joined
    BY <1>2, <2>1 DEF TransferAgrees, Complete, Follows
  <2>2. CASE UNCHANGED missed /\ sending[1].audience \cap joined \subseteq audience
    <3>1. SUFFICES ASSUME Follows(o)', NEW c \in Current
                   PROVE  c \in Base(o) \cup Range(queue) \cup inbox'[o]
      BY <1>2, <1>3 DEF Complete
    <3>2. Follows(o) /\ o \in joined
      BY <1>2, <2>2, <3>1 DEF Follows, TransferAgrees
    <3>3. c \in Base(o) \cup Range(queue) \cup SentTo(o) \cup inbox[o]
      BY <3>2 DEF CatchesUp, Complete
    <3>4. CASE c \in SentTo(o)
      BY <1>2, <1>6, <2>2, <3>2, <3>4
    <3>5. QED
      BY <1>2, <3>3, <3>4
  <2>3. QED
    BY <1>1, <2>1, <2>2
<1>10. QED
  BY <1>7, <1>8, <1>9 DEF CatchesUp

\* The merge keeps one row per segment, and the last one if it was known or arrives.
LEMMA ReceiveCatchesUp ==
  ASSUME AgentTypeOK, RowsInv, StreamTypeOK, ObserverTypeOK,
         NEW o \in Observer, ReceiveRow(o), CatchesUp(o)
  PROVE  CatchesUp(o)'
<1>1. PICK row \in inbox[o] : /\ view' = [view EXCEPT ![o] = Merge(@, row)]
                              /\ inbox' = [inbox EXCEPT ![o] = @ \ {row}]
  BY DEF ReceiveRow
<1> DEFINE same == {r \in view[o] : r.segment = row.segment}
           merged == Merge(view[o], row)
<1>2. /\ caught[o] /\ caught'[o]
      /\ UNCHANGED <<items, pending, queue, sending, missed, got, frozen, caught>>
  BY DEF ReceiveRow, agentVars, streamVars
<1>3. view'[o] = merged /\ inbox'[o] = inbox[o] \ {row}
  BY <1>1 DEF ObserverTypeOK
<1>4. Base(o) = view[o] /\ Base(o)' = merged
  BY <1>2, <1>3 DEF Base
<1>5. merged = IF \A r \in same : Newer(row, r) THEN (view[o] \ same) \cup {row} ELSE view[o]
  BY DEF Merge
<1>6. Current' = Current /\ Sent' = Sent /\ SentTo(o)' = SentTo(o)
  BY <1>2 DEF Current, Snapshot, Sent, SentTo
<1> HIDE DEF merged
<1>7. merged \subseteq view[o] \cup {row}
  BY <1>5
<1>8. row \in Known(o) /\ view[o] \subseteq Known(o)
  BY <1>4 DEF Known
<1>9. NotAhead(o)'
  <2>1. Known(o)' \subseteq Known(o)
    BY <1>2, <1>3, <1>4, <1>6, <1>7, <1>8 DEF Known
  <2>2. QED
    BY <1>6, <2>1 DEF CatchesUp, NotAhead, Superseded
<1>10. OneRowEach(o)'
  <2>1. \A r, s \in view[o] : r.segment = s.segment => r = s
    BY <1>4 DEF CatchesUp, OneRowEach
  <2>2. CASE \A r \in same : Newer(row, r)
    BY <1>4, <1>5, <2>1, <2>2 DEF OneRowEach
  <2>3. CASE ~\A r \in same : Newer(row, r)
    BY <1>4, <1>5, <2>1, <2>3 DEF OneRowEach
  <2>4. QED
    BY <2>2, <2>3
\* What the conversation shows, nothing that the observer has replaces.
<1>11. ASSUME NEW c \in Current, NEW r \in Known(o), r.segment = c.segment
       PROVE  c = r \/ Newer(c, r)
  <2>1. PICK d \in Current : d.segment = r.segment /\ (d = r \/ Newer(d, r))
    BY DEF CatchesUp, NotAhead, Superseded
  <2>2. d = c
    BY <1>11, <2>1, CurrentApart
  <2>3. QED
    BY <2>1, <2>2
<1>12. Complete(o)'
  <2>1. SUFFICES ASSUME Follows(o)', NEW c \in Current
                 PROVE  c \in merged \cup Range(queue) \cup SentTo(o) \cup inbox'[o]
    BY <1>2, <1>4, <1>6 DEF Complete
  <2>2. Follows(o)
    BY <1>2, <2>1 DEF Follows
  <2>3. c \in view[o] \cup Range(queue) \cup SentTo(o) \cup inbox[o]
    BY <1>4, <2>2 DEF CatchesUp, Complete
  <2>4. c \in RowType /\ row \in RowType
    BY <1>8, CurrentRows, KnownRows
  <2>5. CASE c = row
    <3>1. CASE \A r \in same : Newer(row, r)
      BY <1>5, <2>5, <3>1
    <3>2. CASE ~\A r \in same : Newer(row, r)
      <4>1. PICK r \in view[o] : r.segment = row.segment /\ ~Newer(row, r)
        BY <3>2
      <4>2. c = r
        BY <1>8, <1>11, <2>5, <4>1
      <4>3. QED
        BY <1>5, <3>2, <4>2
    <3>3. QED
      BY <3>1, <3>2
  <2>6. CASE c # row /\ c \in view[o]
    <3>1. CASE c.segment = row.segment
      <4>1. Newer(c, row)
        BY <1>8, <1>11, <2>6, <3>1
      <4>2. ~Newer(row, c)
        BY <2>4, <4>1, NewerIsAnOrder
      <4>3. QED
        BY <1>5, <2>6, <3>1, <4>2
    <3>2. CASE c.segment # row.segment
      BY <1>5, <2>6, <3>2
    <3>3. QED
      BY <3>1, <3>2
  <2>7. QED
    BY <1>3, <2>3, <2>5, <2>6
<1>13. QED
  BY <1>9, <1>10, <1>12 DEF CatchesUp

\* An observer that shows, or will show, what it did before.
LEMMA SameBaseCatchesUp ==
  ASSUME UNCHANGED <<items, pending, queue, sending>>,
         NEW o \in Observer, CatchesUp(o),
         Base(o)' = Base(o), inbox'[o] = inbox[o], Follows(o)' => Follows(o)
  PROVE  CatchesUp(o)'
<1>1. Current' = Current /\ Sent' = Sent /\ SentTo(o)' = SentTo(o)
  BY DEF Current, Snapshot, Sent, SentTo
<1>2. Known(o)' = Known(o)
  BY <1>1 DEF Known
<1>3. NotAhead(o)'
  BY <1>1, <1>2 DEF CatchesUp, NotAhead, Superseded
<1>4. OneRowEach(o)'
  BY DEF CatchesUp, OneRowEach
<1>5. Complete(o)'
  BY <1>1 DEF CatchesUp, Complete
<1>6. QED
  BY <1>3, <1>4, <1>5 DEF CatchesUp

\* An observer that begins again.
LEMMA NoBaseCatchesUp ==
  ASSUME UNCHANGED <<items, pending, queue, sending>>,
         NEW o \in Observer, CatchesUp(o),
         Base(o)' = {}, inbox'[o] \subseteq inbox[o], ~caught'[o], got'[o] = <<>>
  PROVE  CatchesUp(o)'
<1>1. Current' = Current /\ Sent' = Sent
  BY DEF Current, Snapshot, Sent
<1>2. Known(o)' \subseteq Known(o)
  BY <1>1 DEF Known
<1>3. NotAhead(o)'
  BY <1>1, <1>2 DEF CatchesUp, NotAhead, Superseded
<1>4. OneRowEach(o)'
  BY DEF OneRowEach
<1>5. Complete(o)'
  BY DEF Complete, Follows
<1>6. QED
  BY <1>3, <1>4, <1>5 DEF CatchesUp

\* An observer that reads a snapshot frozen now.
LEMMA FreshBaseCatchesUp ==
  ASSUME AgentTypeOK, RowsInv, UNCHANGED <<items, pending, queue, sending>>,
         NEW o \in Observer, CatchesUp(o),
         Base(o)' = Current, inbox'[o] = inbox[o]
  PROVE  CatchesUp(o)'
<1>1. Current' = Current /\ Sent' = Sent /\ SentTo(o)' = SentTo(o)
  BY DEF Current, Snapshot, Sent, SentTo
<1>2. Known(o)' \subseteq Known(o) \cup Current
  BY <1>1 DEF Known
<1>3. NotAhead(o)'
  BY <1>1, <1>2 DEF CatchesUp, NotAhead, Superseded
<1>4. OneRowEach(o)'
  BY CurrentApart DEF OneRowEach
<1>5. Complete(o)'
  BY <1>1 DEF Complete
<1>6. QED
  BY <1>3, <1>4, <1>5 DEF CatchesUp

LEMMA FirstPageCatchesUp ==
  ASSUME AgentTypeOK, RowsInv, TransferTypeOK, ObserverTypeOK,
         NEW o \in Observer, FirstPage(o), CatchesUp(o)
  PROVE  CatchesUp(o)'
<1>1. UNCHANGED <<items, pending, queue, sending, missed, inbox>> /\ ~caught[o]
  BY DEF FirstPage, Allowed, RpcUnchanged, agentVars, streamVars
<1>2. Snapshot \in Seq(RowType)
  BY SnapshotRows
<1>3. CASE NothingReceived
  <2>1. Base(o)' = Base(o) /\ (Follows(o)' => Follows(o))
    BY <1>1, <1>3 DEF NothingReceived, Base, Follows
  <2>2. QED
    BY <1>1, <2>1, SameBaseCatchesUp
<1>4. CASE Collect(o, FirstRows(Snapshot), issued + 1, Snapshot, Pages(Snapshot) = 1)
  <2>1. CASE Pages(Snapshot) = 1
    <3>1. caught'[o] /\ view'[o] = Range(FirstRows(Snapshot))
      BY <1>4, <2>1 DEF Collect, ObserverTypeOK
    <3>2. FirstRows(Snapshot) = Snapshot
      <4>1. CASE Snapshot = <<>>
        BY <1>2, <4>1, FirstRowsOf
      <4>2. CASE Snapshot # <<>>
        <5>1. Len(Snapshot) = 1 /\ Len(FirstRows(Snapshot)) = 1 /\ FirstRows(Snapshot)[1] = Snapshot[1]
          BY <1>2, <2>1, <4>2, FirstRowsOf DEF Pages
        <5>2. FirstRows(Snapshot) \in Seq(RowType)
          BY <1>2, FirstRowsOf
        <5>3. \A i \in 1..Len(FirstRows(Snapshot)) : FirstRows(Snapshot)[i] = Snapshot[i]
          BY <5>1
        <5>4. QED
          BY <1>2, <5>1, <5>2, <5>3, SeqEqual
      <4>3. QED
        BY <4>1, <4>2
    <3>3. Base(o)' = Current
      BY <3>1, <3>2 DEF Base, Current
    <3>4. QED
      BY <1>1, <3>3, FreshBaseCatchesUp
  <2>2. CASE Pages(Snapshot) # 1
    <3>1. ~caught'[o] /\ frozen'[o] = Snapshot
      BY <1>4, <2>2 DEF Collect, ObserverTypeOK
    <3>2. Base(o)' = Current
      BY <3>1 DEF Base, Current
    <3>3. QED
      BY <1>1, <3>2, FreshBaseCatchesUp
  <2>3. QED
    BY <2>1, <2>2
<1>5. QED
  BY <1>3, <1>4 DEF FirstPage, FirstRows

LEMMA NextPageCatchesUp ==
  ASSUME AgentTypeOK, TransferTypeOK, ObserverTypeOK,
         NEW o \in Observer, NextPage(o), TransferAgrees(o), CatchesUp(o)
  PROVE  CatchesUp(o)'
<1> DEFINE read == Append(got[o], Fresh[o].rows[Len(got[o]) + 1])
           last == Len(got[o]) + 1 = Pages(Fresh[o].rows)
<1>1. UNCHANGED <<items, pending, queue, sending, missed, inbox>> /\ ~caught[o] /\ got[o] # <<>>
  BY DEF NextPage, Allowed, RpcUnchanged, agentVars, streamVars
<1>2. Base(o) = Range(frozen[o]) /\ (Follows(o)' => Follows(o))
  BY <1>1 DEF Base, Follows
<1>3. last => Range(read) = Range(frozen[o])
  BY LastPageIsWhole
<1>4. NothingReceived \/ Collect(o, read, token[o], frozen[o], last)
  BY DEF NextPage
<1> HIDE DEF read, last
<1>5. Base(o)' = Base(o)
  <2>1. CASE NothingReceived
    BY <2>1 DEF NothingReceived, Base
  <2>2. CASE Collect(o, read, token[o], frozen[o], last) /\ last
    <3>1. caught'[o] /\ view'[o] = Range(read)
      BY <2>2 DEF Collect, ObserverTypeOK
    <3>2. QED
      BY <1>2, <1>3, <2>2, <3>1 DEF Base
  <2>3. CASE Collect(o, read, token[o], frozen[o], last) /\ ~last
    <3>1. caught'[o] = last /\ frozen'[o] = frozen[o]
      BY <2>3 DEF Collect, ObserverTypeOK
    <3>2. QED
      BY <1>2, <2>3, <3>1 DEF Base
  <2>4. QED
    BY <1>4, <2>1, <2>2, <2>3
<1>6. QED
  BY <1>1, <1>2, <1>5, SameBaseCatchesUp

LEMMA ObserversStep ==
  ASSUME AgentTypeOK, RowsInv, StreamTypeOK, TransferTypeOK, ObserverTypeOK,
         TransfersAgree, ObserversCatchUp, [Next]_vars
  PROVE  ObserversCatchUp'
<1>1. closed => closed'
  <2>1. Event => \E row \in RowType : NewRow(row)
    BY EventRow
  <2>2. CASE Event \/ BecomeUnavailable \/ Close \/ Take \/ SendText \/ SendFails \/ UNCHANGED vars
    BY <2>1, <2>2 DEF NewRow, BecomeUnavailable, Close, Take, SendText, SendFails, Deliver, vars,
                      lifeVars
  <2>3. ASSUME NEW p \in Observer,
               Join(p) \/ Leave(p) \/ ReceiveRow(p) \/ FirstPage(p) \/ Busy(p) \/ NextPage(p)
                 \/ PageRefused(p) \/ Age(p)
        PROVE  closed' = closed
    BY <2>3 DEF Join, Leave, Reset, ReceiveRow, FirstPage, Busy, NextPage, PageRefused, Age,
                RpcUnchanged, lifeVars
  <2>4. QED
    BY <2>2, <2>3 DEF Next, Event
<1> SUFFICES ASSUME ~closed', NEW o \in Observer
             PROVE  CatchesUp(o)'
  <2>1. ASSUME ~closed' => \A o \in Observer : CatchesUp(o)'
        PROVE  ObserversCatchUp'
    BY <2>1 DEF ObserversCatchUp, CatchesUp, NotAhead, OneRowEach, Complete, Known, Follows
  <2>2. QED
    BY <2>1
<1>2. CatchesUp(o) /\ TransferAgrees(o) /\ ~closed
  BY <1>1, ObserversCatchUpOf, TransfersAgreeOf
<1>3. CASE Event
  BY <1>2, <1>3, EventCatchesUp
<1>4. CASE Take
  BY <1>2, <1>4, TakeCatchesUp
<1>5. CASE SendText \/ SendFails
  BY <1>2, <1>5, SendCatchesUp
<1>6. CASE Close
  BY <1>6 DEF Close
<1>7. ASSUME UNCHANGED <<agentVars, streamVars, joined, inbox, got, frozen, caught, view>>
      PROVE  CatchesUp(o)'
  BY <1>2, <1>7, SameBaseCatchesUp DEF agentVars, streamVars, Base, Follows
<1>8. CASE BecomeUnavailable \/ UNCHANGED vars
  BY <1>7, <1>8 DEF BecomeUnavailable, vars, observerVars
<1>9. ASSUME NEW p \in Observer, Busy(p) \/ Age(p)
      PROVE  CatchesUp(o)'
  BY <1>7, <1>9 DEF Busy, Age, NothingReceived, RpcUnchanged, observerVars
<1>10. ASSUME UNCHANGED <<items, pending, queue, sending>>,
              view'[o] = view[o], inbox'[o] = inbox[o], got'[o] = got[o], frozen'[o] = frozen[o],
              caught'[o] = caught[o], o \in missed => o \in missed'
       PROVE  CatchesUp(o)'
  BY <1>2, <1>10, SameBaseCatchesUp DEF Base, Follows
<1>11. ASSUME NEW p \in Observer, Join(p) \/ Leave(p)
       PROVE  CatchesUp(o)'
  <2>1. Reset(p) /\ UNCHANGED <<items, pending, queue, sending>>
    BY <1>11 DEF Join, Leave, Reset, agentVars
  <2>2. CASE p = o
    <3>1. ~caught'[o] /\ got'[o] = <<>> /\ frozen'[o] = <<>> /\ inbox'[o] = {}
      BY <2>1, <2>2 DEF Reset, ObserverTypeOK
    <3>2. Base(o)' = {}
      BY <3>1, ShortRanges DEF Base
    <3>3. QED
      BY <1>2, <2>1, <3>1, <3>2, NoBaseCatchesUp
  <2>3. CASE p # o
    BY <1>10, <2>1, <2>3 DEF Reset, ObserverTypeOK
  <2>4. QED
    BY <2>2, <2>3
<1>12. ASSUME NEW p \in Observer, ReceiveRow(p)
       PROVE  CatchesUp(o)'
  <2>1. CASE p = o
    BY <1>2, <1>12, <2>1, ReceiveCatchesUp
  <2>2. CASE p # o
    BY <1>10, <1>12, <2>2 DEF ReceiveRow, ObserverTypeOK, agentVars, streamVars
  <2>3. QED
    BY <2>1, <2>2
<1>13. ASSUME NEW p \in Observer, p # o, FirstPage(p) \/ NextPage(p) \/ PageRefused(p)
       PROVE  CatchesUp(o)'
  <2>1. /\ UNCHANGED <<items, pending, queue, sending, missed>>
        /\ view'[o] = view[o] /\ inbox'[o] = inbox[o] /\ got'[o] = got[o]
        /\ frozen'[o] = frozen[o] /\ caught'[o] = caught[o]
    BY <1>13 DEF FirstPage, NextPage, PageRefused, Collect, NothingReceived, RpcUnchanged,
                 agentVars, streamVars, ObserverTypeOK
  <2>2. QED
    BY <1>10, <2>1
<1>14. CASE PageRefused(o)
  <2>1. /\ UNCHANGED <<items, pending, queue, sending, inbox>>
        /\ ~caught'[o] /\ got'[o] = <<>> /\ frozen'[o] = <<>>
    BY <1>14 DEF PageRefused, Collect, RpcUnchanged, agentVars, streamVars, ObserverTypeOK
  <2>2. Base(o)' = {}
    BY <2>1, ShortRanges DEF Base
  <2>3. QED
    BY <1>2, <2>1, <2>2, NoBaseCatchesUp
<1>15. CASE FirstPage(o)
  BY <1>2, <1>15, FirstPageCatchesUp
<1>16. CASE NextPage(o)
  BY <1>2, <1>16, NextPageCatchesUp
<1>17. QED
  BY <1>3, <1>4, <1>5, <1>6, <1>8, <1>9, <1>11, <1>12, <1>13, <1>14, <1>15, <1>16
     DEF Next, Event

-----------------------------------------------------------------------------
LEMMA HistoryInit ==
  ASSUME Init
  PROVE  TypeOK /\ HistoryInv
<1>1. AgentTypeOK /\ RowsInv
  BY RowsInit
<1>2. StreamTypeOK
  BY EmptySeq, HistoryBounds DEF Init, StreamTypeOK
<1>3. TransferTypeOK
  <2>1. snapshots = [o \in Observer |-> NoSnapshot] /\ issued = 0
    BY DEF Init
  <2>2. snapshots \in [Observer -> SnapshotType]
    BY <2>1, NoSnapshotType
  <2>3. Running(snapshots) = {}
    BY <2>1 DEF Running
  <2>4. Cardinality(Running(snapshots)) <= MaxSnapshots
    BY <2>3, FS_EmptySet, HistoryBounds
  <2>5. QED
    BY <2>1, <2>2, <2>4, HistoryBounds DEF TransferTypeOK, SnapshotType, Running
<1>4. ObserverTypeOK
  BY EmptySeq, HistoryBounds DEF Init, ObserverTypeOK
<1>5. TransfersAgree
  BY NoSnapshotType DEF Init, TransfersAgree
<1>6. ObserversCatchUp
  <2>1. SUFFICES ASSUME NEW o \in Observer
                 PROVE  CatchesUp(o)
    BY ObserversCatchUpOf
  <2>2. Range(queue) = {} /\ Range(sending) = {} /\ inbox[o] = {} /\ ~caught[o] /\ got[o] = <<>>
        /\ Range(frozen[o]) = {}
    BY ShortRanges DEF Init
  <2>3. Known(o) = {} /\ Base(o) = {}
    BY <2>2 DEF Known, Base, Sent
  <2>4. QED
    BY <2>2, <2>3 DEF CatchesUp, NotAhead, OneRowEach, Complete, Follows
<1>7. {closed, available} \subseteq BOOLEAN
  BY DEF Init
<1>8. QED
  BY <1>1, <1>2, <1>3, <1>4, <1>5, <1>6, <1>7, RowsInvIsUtteranceOnce DEF TypeOK, HistoryInv

LEMMA LifeStep ==
  ASSUME AgentTypeOK, {closed, available} \subseteq BOOLEAN, [Next]_vars
  PROVE  {closed, available}' \subseteq BOOLEAN
<1>1. closed \in BOOLEAN /\ available \in BOOLEAN
  OBVIOUS
<1>2. CASE UNCHANGED lifeVars
  BY <1>1, <1>2 DEF lifeVars
<1>3. CASE BecomeUnavailable \/ Close
  BY <1>1, <1>3 DEF BecomeUnavailable, Close
<1>4. CASE Event \/ Take \/ SendText \/ SendFails \/ UNCHANGED vars
  <2>1. Event => \E row \in RowType : NewRow(row)
    BY EventRow
  <2>2. QED
    BY <1>2, <1>4, <2>1 DEF NewRow, EventUnchanged, Take, SendText, SendFails, Deliver, vars
<1>5. ASSUME NEW o \in Observer,
             Join(o) \/ Leave(o) \/ ReceiveRow(o) \/ FirstPage(o) \/ Busy(o) \/ NextPage(o)
               \/ PageRefused(o) \/ Age(o)
      PROVE  UNCHANGED lifeVars
  BY <1>5 DEF Join, Leave, Reset, ReceiveRow, FirstPage, Busy, NextPage, PageRefused, Age,
              RpcUnchanged
<1>6. QED
  BY <1>2, <1>3, <1>4, <1>5 DEF Next, Event

\* The inductive invariant: HistoryInv, with the rows of the conversation in two parts.
Inductive == TypeOK /\ RowsInv /\ TransfersAgree /\ ObserversCatchUp

LEMMA InductiveIsHistoryInv == Inductive <=> TypeOK /\ HistoryInv
BY RowsInvIsUtteranceOnce DEF Inductive, HistoryInv, TypeOK

LEMMA InductiveStep ==
  ASSUME Inductive, [Next]_vars
  PROVE  Inductive'
<1>1. /\ AgentTypeOK /\ StreamTypeOK /\ TransferTypeOK /\ ObserverTypeOK
      /\ {closed, available} \subseteq BOOLEAN
      /\ RowsInv /\ TransfersAgree /\ ObserversCatchUp
  BY DEF Inductive, TypeOK
<1>2. AgentTypeOK' /\ StreamTypeOK' /\ TransferTypeOK' /\ ObserverTypeOK'
  BY <1>1, AgentTypeStep, StreamTypeStep, TransferTypeStep, ObserverTypeStep
<1>3. RowsInv' /\ TransfersAgree' /\ ObserversCatchUp'
  BY <1>1, RowsStep, TransfersStep, ObserversStep
<1>4. ({closed, available} \subseteq BOOLEAN)'
  BY <1>1, LifeStep
<1>5. QED
  BY <1>2, <1>3, <1>4 DEF Inductive, TypeOK

\* The types hold, the live queue and the number of transfers keep their limits, and with
\* them the invariant: a snapshot quotes every turn once (_row and snapshot()), a transfer
\* reads the snapshot its token names (get_transcript), and no observer is ahead of the
\* conversation or lacks a row that is not on its way.
THEOREM HistoryIsInvariant == Spec => [](TypeOK /\ HistoryInv)
<1>1. Init => Inductive
  BY HistoryInit, InductiveIsHistoryInv
<1>2. Inductive /\ [Next]_vars => Inductive'
  BY InductiveStep
<1>3. Inductive => TypeOK /\ HistoryInv
  BY InductiveIsHistoryInv
<1>4. QED
  BY <1>1, <1>2, <1>3, PTL DEF Spec

\* A snapshot never quotes a caller turn twice, for any number of turns, and however
\* partial results, commits and assistant items are interleaved.
THEOREM NoUtteranceTwice == Spec => []UtteranceOnce
<1>1. TypeOK /\ HistoryInv => UtteranceOnce
  BY DEF HistoryInv
<1>2. QED
  BY <1>1, HistoryIsInvariant, PTL

\* The pages of a transfer are those of one frozen snapshot, whatever pages or replies are
\* lost, refused or expired and whatever is said meanwhile.
THEOREM PagesStayFrozen == Spec => PagesAreFrozen
<1>1. TypeOK /\ HistoryInv /\ [Next]_vars
        => [ \A o \in Observer : got[o] # <<>> /\ ~caught[o] /\ caught'[o]
               => view'[o] = Range(frozen[o]) ]_vars
  BY PagesStep DEF TypeOK, HistoryInv
<1>2. QED
  BY <1>1, HistoryIsInvariant, PTL DEF Spec, PagesAreFrozen

\* An observer that joined at any moment, caught up, merged what it was sent and missed
\* nothing shows the conversation once nothing is in flight: the merge by segment and
\* revision that the docs ask for is enough for what _publish and get_transcript do.
THEOREM ObserversConverge == Spec => []ObserverConverges
<1>1. TypeOK /\ HistoryInv => ObserverConverges
  <2>1. SUFFICES ASSUME TypeOK, HistoryInv, NEW o \in Observer, caught[o], o \notin missed, ~closed,
                        queue = <<>>, sending = <<>>, inbox[o] = {}
                 PROVE  view[o] = Current
    BY DEF ObserverConverges, Current
  <2>2. CatchesUp(o)
    BY <2>1, ObserversCatchUpOf DEF HistoryInv
  <2>3. Base(o) = view[o] /\ Range(queue) = {} /\ SentTo(o) = {}
    BY <2>1, ShortRanges DEF Base, SentTo
  <2>4. Current \subseteq view[o]
    BY <2>1, <2>2, <2>3 DEF CatchesUp, Complete, Follows
  <2>5. ASSUME NEW r \in view[o]
        PROVE  r \in Current
    <3>1. PICK c \in Current : c.segment = r.segment
      BY <2>2, <2>3 DEF CatchesUp, NotAhead, Known, Superseded
    <3>2. c = r
      BY <2>2, <2>3, <2>4, <3>1 DEF CatchesUp, OneRowEach
    <3>3. QED
      BY <3>2
  <2>6. QED
    BY <2>4, <2>5
<1>2. QED
  BY <1>1, HistoryIsInvariant, PTL
=============================================================================
