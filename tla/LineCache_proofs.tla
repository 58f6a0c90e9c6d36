-------------------------- MODULE LineCache_proofs --------------------------
(***************************************************************************)
(* For any number of rows, fetches, pieces of output and lost connections: *)
(* the types, NeverWaitsInVain and, without images, NothingLost.           *)
(*                                                                         *)
(* None of them is inductive.  The types rest on what exists: the client,  *)
(* the pushes and the fetches speak of rows down to the end of the screen  *)
(* only (Base).  A row's tag finds its fetch because tags are distinct     *)
(* (Asked).  And nothing is lost because all that may yet become a row's   *)
(* text, in the task, in a push, in an answer or under a failing fetch, is *)
(* the present text or a change is on its way; which needs, too, that what *)
(* the client speaks of lies within the viewport that compute_changes has  *)
(* read, or replacing the session's seqno would skip it (Told).            *)
(***************************************************************************)
EXTENDS LineCache, TLAPS

\* The last row that the client, a push or a fetch may speak of: the session's
\* compute_changes, once begun, looks no further than the viewport it read.
Horizon == (IF task.at = "idle" THEN screen.top ELSE task.top) + Height - 1

\* The rows down to the end of the screen exist.
ScreenOK ==
  /\ screen.top + Height - 1 \in Row
  /\ screen.cursor <= screen.top + Height - 1
  /\ \A r \in Row : screen.written[r] <= screen.seqno
  /\ \A r \in Row : r < screen.top + Height => screen.written[r] > 0
  /\ session.seqno <= screen.seqno

\* What compute_changes has read by now
TaskOK ==
  /\ task.at # "idle" => task.top \in 1..screen.top
  /\ task.at \in {"seqno", "changed", "viewport", "row"} =>
       task.cursor \in 1..(screen.top + Height - 1)
  /\ task.at \in {"changed", "viewport", "row"} => session.seqno > 0
  /\ \A r \in task.changed : r < task.top + Height
  /\ \A r \in Row : task.bonus[r] # 0 => r < task.top + Height
  /\ task.at = "row" => \A r \in task.changed \cap Rows(task.top) : task.bonus[r] # 0

KnownToPush(p) ==
  /\ p.top + Height - 1 <= Horizon
  /\ p.cursor <= Horizon
  /\ \A r \in Row : Names(p, r) => r <= Horizon

RowsKnown ==
  /\ client.top + Height - 1 <= Horizon
  /\ client.cursor <= Horizon
  /\ \A r \in Row : client.lines[r].kind # "none" => r <= Horizon
  /\ \A f \in fetches : \A r \in f.rows : r <= Horizon
  /\ \A i \in DOMAIN pushes : KnownToPush(pushes[i])

AnswersFull ==
  \A f \in fetches : f.state = "answered" => \A r \in f.rows : f.lines[r] # 0

Base == TypeOK /\ ScreenOK /\ TaskOK /\ RowsKnown /\ AnswersFull

-----------------------------------------------------------------------------

LEMMA EntryFacts ==
  ASSUME NEW e \in Entry
  PROVE  /\ HasLine(e) => e.v \in 1..MaxSeqno /\ e.seq \in 1..MaxSeqno
         /\ e.kind \in {"none", "Line", "Stale", "Fetching", "LineAndFetching"}
         /\ e.tag # NoTag <=> e.kind \in {"Fetching", "LineAndFetching"}
         /\ e.tag # NoTag => e.tag \in Tag
BY LineCacheAssumption DEF Entry, HasLine

LEMMA AbsentEntry == Absent \in Entry
BY DEF Entry, Absent

LEMMA LineEntry ==
  ASSUME NEW v \in 1..MaxSeqno, NEW q \in 1..MaxSeqno
  PROVE  Line(v, q) \in Entry
BY DEF Entry, Line

LEMMA StaleEntry ==
  ASSUME NEW e \in Entry, HasLine(e)
  PROVE  /\ Stale(e) \in Entry
         /\ Stale(e).kind = "Stale" /\ Stale(e).tag = NoTag
BY DEF Entry, HasLine, Stale

LEMMA FetchedEntry ==
  ASSUME NEW e \in Entry, NEW t \in Tag
  PROVE  /\ Fetched(e, t) \in Entry
         /\ Fetched(e, t).tag = t
         /\ Fetched(e, t).kind \in {"Fetching", "LineAndFetching"}
BY DEF Entry, HasLine, Fetched, Fetching, LineAndFetching, Absent

LEMMA ThrottledEntry ==
  ASSUME NEW e \in Entry
  PROVE  /\ Throttled(e) \in Entry
         /\ Throttled(e).tag = NoTag
         /\ Throttled(e).kind \in {"none", "Stale"}
         /\ Throttled(e).kind # "none" => e.kind # "none"
BY StaleEntry, AbsentEntry DEF Throttled, HasLine, Absent

LEMMA NowIsNew ==
  ASSUME \E t \in Tag : Unused(t)
  PROVE  Now \in Tag /\ Unused(Now)
BY DEF Now

LEMMA Removed ==
  ASSUME NEW S, NEW s \in Seq(S), NEW i \in DOMAIN s
  PROVE  /\ RemoveAt(s, i) \in Seq(S)
         /\ Len(RemoveAt(s, i)) = Len(s) - 1
         /\ \A j \in DOMAIN RemoveAt(s, i) :
              RemoveAt(s, i)[j] = s[IF j < i THEN j ELSE j + 1]
<1> DEFINE a == SubSeq(s, 1, i - 1)
           b == SubSeq(s, i + 1, Len(s))
<1>1. i \in 1..Len(s) /\ Len(s) \in Nat
  OBVIOUS
<1>2. a \in Seq(S) /\ Len(a) = i - 1 /\ \A j \in 1..(i - 1) : a[j] = s[j]
  BY <1>1
<1>3. b \in Seq(S) /\ Len(b) = Len(s) - i /\ \A j \in 1..(Len(s) - i) : b[j] = s[j + i]
  BY <1>1
<1>4. RemoveAt(s, i) = a \o b
  BY DEF RemoveAt
<1> HIDE DEF a, b
<1>5. /\ a \o b \in Seq(S)
      /\ Len(a \o b) = Len(s) - 1
  BY <1>1, <1>2, <1>3
<1>6. ASSUME NEW j \in 1..(Len(s) - 1)
      PROVE  (a \o b)[j] = s[IF j < i THEN j ELSE j + 1]
  <2>1. (a \o b)[j] = IF j <= Len(a) THEN a[j] ELSE b[j - Len(a)]
    BY <1>1, <1>2, <1>3, <1>6
  <2>2. CASE j < i
    BY <1>1, <1>2, <2>1, <2>2
  <2>3. CASE ~(j < i)
    <3>1. j - Len(a) \in 1..(Len(s) - i)
      BY <1>1, <1>2, <2>3
    <3>2. (a \o b)[j] = b[j - Len(a)]
      BY <1>1, <1>2, <2>1, <2>3
    <3>3. b[j - Len(a)] = s[j - Len(a) + i]
      BY <1>3, <3>1
    <3>4. j - Len(a) + i = j + 1
      BY <1>1, <1>2
    <3> QED
      BY <2>3, <3>2, <3>3, <3>4
  <2> QED
    BY <2>2, <2>3
<1>7. DOMAIN (a \o b) = 1..(Len(s) - 1)
  BY <1>5
<1> QED
  BY <1>4, <1>5, <1>6, <1>7

LEMMA HorizonFacts ==
  TypeOK /\ ScreenOK /\ TaskOK =>
         /\ Horizon \in Row
         /\ Horizon <= screen.top + Height - 1
         /\ \A r \in Row : r <= Horizon => screen.written[r] \in 1..MaxSeqno
<1> SUFFICES ASSUME TypeOK, ScreenOK, TaskOK
             PROVE  /\ Horizon \in Row
                    /\ Horizon <= screen.top + Height - 1
                    /\ \A r \in Row : r <= Horizon => screen.written[r] \in 1..MaxSeqno
  OBVIOUS
<1>1. /\ screen.top \in Row
      /\ screen.seqno \in 1..MaxSeqno
      /\ screen.written \in [Row -> 0..MaxSeqno]
  BY DEF TypeOK, Screen
<1>2. task.at # "idle" => task.top \in 1..screen.top
  BY DEF TaskOK
<1>3. Height \in Nat \ {0} /\ MaxRow \in Nat /\ MaxSeqno \in Nat
  BY LineCacheAssumption
<1>4. Horizon \in Row /\ Horizon <= screen.top + Height - 1
  <2>1. CASE task.at = "idle"
    BY <1>1, <1>3, <2>1 DEF ScreenOK, Horizon, Row
  <2>2. CASE task.at # "idle"
    BY <1>1, <1>2, <1>3, <2>2 DEF ScreenOK, Horizon, Row
  <2> QED
    BY <2>1, <2>2
<1>5. ASSUME NEW r \in Row, r <= Horizon
      PROVE  screen.written[r] \in 1..MaxSeqno
  <2>1. r < screen.top + Height
    BY <1>1, <1>3, <1>4, <1>5 DEF Row
  <2>2. screen.written[r] > 0 /\ screen.written[r] \in 0..MaxSeqno
    BY <1>1, <2>1 DEF ScreenOK
  <2> QED
    BY <1>3, <2>2
<1> QED
  BY <1>4, <1>5

LEMMA HorizonFactsNext ==
  (TypeOK /\ ScreenOK /\ TaskOK =>
     /\ Horizon \in Row
     /\ Horizon <= screen.top + Height - 1
     /\ \A r \in Row : r <= Horizon => screen.written[r] \in 1..MaxSeqno)'
BY HorizonFacts, PTL

\* Some plain consequences of the types
LEMMA ScreenTypes ==
  ASSUME TypeOK
  PROVE  /\ screen.top \in Row /\ screen.cursor \in Row /\ screen.seqno \in 1..MaxSeqno
         /\ screen.written \in [Row -> 0..MaxSeqno]
         /\ session.seqno \in 0..MaxSeqno
<1>1. screen \in Screen /\ session \in Session
  BY DEF TypeOK
<1> QED
  BY <1>1 DEF Screen, Session

LEMMA TaskTypes ==
  ASSUME TypeOK
  PROVE  /\ task.at \in {"idle", "cursor", "seqno", "changed", "viewport", "row"}
         /\ task.top \in 0..MaxRow /\ task.cursor \in 0..MaxRow
         /\ task.since \in 0..MaxSeqno
         /\ task.changed \subseteq Row
         /\ task.bonus \in [Row -> 0..MaxSeqno]
<1>1. task \in Task
  BY DEF TypeOK
<1> QED
  BY <1>1 DEF Task

LEMMA ClientTypes ==
  ASSUME TypeOK
  PROVE  /\ client.top \in Row /\ client.cursor \in Row /\ client.seqno \in 0..MaxSeqno
         /\ client.lines \in [Row -> Entry]
<1>1. client \in Surface
  BY DEF TypeOK
<1> QED
  BY <1>1 DEF Surface

LEMMA FetchTypes ==
  ASSUME TypeOK, NEW f \in fetches
  PROVE  /\ f \in Fetch
         /\ f.rows \subseteq Row
         /\ f.lines \in [Row -> 0..MaxSeqno]
         /\ f.tag \in Tag
         /\ f.state \in {"asked", "answered", "failed"}
<1>1. f \in Fetch
  BY DEF TypeOK
<1> QED
  BY <1>1 DEF Fetch

LEMMA PushTypes ==
  ASSUME TypeOK, NEW i \in DOMAIN pushes
  PROVE  /\ pushes[i] \in Push
         /\ pushes[i].top \in Row /\ pushes[i].cursor \in Row
         /\ pushes[i].seqno \in 1..MaxSeqno
         /\ pushes[i].bonus \in [Row -> 0..MaxSeqno]
         /\ pushes[i].dirty \subseteq Row
<1>1. pushes[i] \in Push
  BY DEF TypeOK
<1> QED
  BY <1>1 DEF Push

LEMMA Numbers ==
  /\ Height \in Nat /\ Height >= 1
  /\ MaxRow \in Nat
  /\ MaxSeqno \in Nat /\ MaxSeqno >= 1
  /\ \A r \in Row : r \in Nat /\ 1 <= r /\ r <= MaxRow
BY LineCacheAssumption DEF Row

LEMMA IdleTask == Idle \in Task
BY Numbers DEF Idle, Task

\* What is known stays known as long as nothing is added to it and the session
\* looks no less far.
LEMMA KnownStays ==
  ASSUME TypeOK, RowsKnown, Horizon \in Row, Horizon' \in Row, Horizon <= Horizon',
         UNCHANGED <<pushes, fetches, client>>
  PROVE  RowsKnown'
<1> USE Numbers
<1>1. ASSUME NEW i \in DOMAIN pushes
      PROVE  KnownToPush(pushes[i])'
  <2>1. KnownToPush(pushes[i]) /\ pushes[i].top \in Row /\ pushes[i].cursor \in Row
    BY PushTypes DEF RowsKnown
  <2> QED
    BY <2>1 DEF KnownToPush, Names
<1>2. ASSUME NEW f \in fetches, NEW r \in f.rows
      PROVE  r <= Horizon'
  BY FetchTypes DEF RowsKnown
<1>3. client.top + Height - 1 <= Horizon' /\ client.cursor <= Horizon'
  BY ClientTypes DEF RowsKnown
<1>4. \A r \in Row : client.lines[r].kind # "none" => r <= Horizon'
  BY DEF RowsKnown
<1> QED
  BY <1>1, <1>2, <1>3, <1>4 DEF RowsKnown

LEMMA InitBase == Init => Base
<1> SUFFICES ASSUME Init PROVE Base
  OBVIOUS
<1> USE Numbers, LineCacheAssumption DEF Init
<1>1. TypeOK
  <2>1. screen \in Screen
    BY DEF Screen, Row
  <2>2. session \in Session
    BY DEF Session, NewSession
  <2>3. task \in Task
    BY IdleTask
  <2>4. client \in Surface
    BY AbsentEntry DEF Surface, Row
  <2>5. told \in BOOLEAN /\ poll \in {"idle", "asked", "answered", "failed"}
    OBVIOUS
  <2>6. pushes \in Seq(Push) /\ fetches \subseteq Fetch
    OBVIOUS
  <2>7. drops \in 0..MaxDrops
    OBVIOUS
  <2> QED
    BY <2>1, <2>2, <2>3, <2>4, <2>5, <2>6, <2>7 DEF TypeOK
<1>2. ScreenOK
  BY DEF ScreenOK, NewSession, Row
<1>3. TaskOK
  BY DEF TaskOK, Idle
<1>4. RowsKnown
  BY DEF RowsKnown, Horizon, Idle, Absent
<1>5. AnswersFull
  BY DEF AnswersFull
<1> QED
  BY <1>1, <1>2, <1>3, <1>4, <1>5 DEF Base

LEMMA OutputBase == ASSUME Base, Output PROVE Base'
<1> USE Numbers
<1>0. TypeOK /\ ScreenOK /\ TaskOK /\ RowsKnown /\ AnswersFull
  BY DEF Base
<1>1. PICK top \in {screen.top, screen.top + 1}, row, cursor \in Row :
        /\ top + Height - 1 <= MaxRow
        /\ {row, cursor} \subseteq Rows(top)
        /\ top # screen.top => row = top + Height - 1
        /\ screen' = [top |-> top, cursor |-> cursor, seqno |-> screen.seqno + 1,
                      written |-> [screen.written EXCEPT ![row] = screen.seqno + 1]]
  BY DEF Output
<1>2. /\ top \in Row /\ top >= screen.top
      /\ screen.seqno + 1 \in 1..MaxSeqno
      /\ screen'.top = top /\ screen'.cursor = cursor
      /\ screen'.seqno = screen.seqno + 1
      /\ screen'.written = [screen.written EXCEPT ![row] = screen.seqno + 1]
  <2>1. top \in Row /\ top >= screen.top
    <3>1. screen.top \in Nat /\ screen.top >= 1
      BY <1>0, ScreenTypes
    <3>2. top \in Nat /\ top >= screen.top
      BY <1>1, <3>1
    <3> QED
      BY <1>1, <3>1, <3>2 DEF Row
  <2>2. screen.seqno + 1 \in 1..MaxSeqno
    BY <1>0, ScreenTypes DEF Output
  <2> QED
    BY <1>1, <2>1, <2>2
<1>3. TypeOK'
  <2>1. screen' \in Screen
    BY <1>0, <1>1, <1>2, ScreenTypes, TaskTypes DEF Screen
  <2> QED
    BY <1>0, <2>1 DEF TypeOK, Output
<1>4. ScreenOK'
  <2>1. top + Height - 1 \in Row /\ cursor <= top + Height - 1
    BY <1>1, <1>2 DEF Row, Rows
  <2>2. \A r \in Row : screen'.written[r] <= screen.seqno + 1
    BY <1>0, <1>2, ScreenTypes, TaskTypes DEF ScreenOK
  <2>3. ASSUME NEW r \in Row, r < top + Height
        PROVE  screen'.written[r] > 0
    BY <1>0, <1>1, <1>2, <2>3, ScreenTypes, TaskTypes DEF ScreenOK
  <2>4. session'.seqno <= screen.seqno + 1
    BY <1>0, ScreenTypes, TaskTypes DEF ScreenOK, Output
  <2> QED
    BY <1>2, <2>1, <2>2, <2>3, <2>4 DEF ScreenOK
<1>5. TaskOK'
  <2>1. task' = task /\ session' = session
    BY DEF Output
  <2> QED
    BY <1>0, <1>2, <2>1, ScreenTypes, TaskTypes DEF TaskOK
<1>6. RowsKnown'
  <2>1. Horizon' \in Row /\ Horizon \in Row
    BY <1>0, <1>3, <1>4, <1>5, HorizonFacts, HorizonFactsNext
  <2>2. Horizon <= Horizon'
    BY <1>0, <1>2, ScreenTypes, TaskTypes DEF Horizon, Output
  <2> QED
    BY <1>0, <2>1, <2>2, KnownStays DEF Output
<1>7. AnswersFull'
  BY <1>0 DEF AnswersFull, Output
<1> QED
  BY <1>3, <1>4, <1>5, <1>6, <1>7 DEF Base

LEMMA BeginBase ==
  ASSUME Base, NEW polled \in BOOLEAN, Begin(polled), told' \in BOOLEAN
  PROVE  Base'
<1> USE Numbers
<1>0. TypeOK /\ ScreenOK /\ TaskOK /\ RowsKnown /\ AnswersFull
  BY DEF Base
<1>1. task' \in Task /\ TypeOK'
  <2>1. task' \in Task
    <3>1. task' = [at |-> "cursor", polled |-> polled, top |-> screen.top, cursor |-> 0,
                   since |-> 0, changed |-> {}, bonus |-> [r \in Row |-> 0]]
      BY DEF Begin, Idle
    <3>2. screen.top \in 0..MaxRow /\ 0 \in 0..MaxRow /\ 0 \in 0..MaxSeqno
      BY <1>0, ScreenTypes
    <3>3. [r \in Row |-> 0] \in [Row -> 0..MaxSeqno]
      BY <3>2
    <3> QED
      BY <3>1, <3>2, <3>3 DEF Task
  <2> QED
    BY <1>0, <2>1 DEF TypeOK, Begin
<1>2. /\ task'.at = "cursor" /\ task'.top = screen.top
      /\ task'.changed = {} /\ task'.bonus = [r \in Row |-> 0]
  BY DEF Begin, Idle
<1>3. ScreenOK'
  BY <1>0 DEF ScreenOK, Begin
<1>4. TaskOK'
  BY <1>0, <1>2, ScreenTypes, TaskTypes DEF TaskOK, Begin
<1>5. RowsKnown'
  <2>1. Horizon' \in Row /\ Horizon \in Row
    BY <1>0, <1>1, <1>3, <1>4, HorizonFacts, HorizonFactsNext
  <2>2. Horizon <= Horizon'
    BY <1>0, <1>2, ScreenTypes, TaskTypes DEF Horizon, Begin
  <2> QED
    BY <1>0, <2>1, <2>2, KnownStays DEF Begin
<1>6. AnswersFull'
  BY <1>0 DEF AnswersFull, Begin
<1> QED
  BY <1>1, <1>3, <1>4, <1>5, <1>6 DEF Base

\* A reading that goes on with compute_changes keeps the base if it keeps the
\* task's type and what TaskOK says.
LEMMA ReadingBase ==
  ASSUME Base, task' \in Task, TaskOK', session' \in Session,
         session'.seqno <= screen.seqno, task.at # "idle", task'.at # "idle",
         task'.top = task.top,
         UNCHANGED <<screen, told, pushes, fetches, poll, client, drops>>
  PROVE  Base'
<1>0. TypeOK /\ ScreenOK /\ TaskOK /\ RowsKnown /\ AnswersFull
  BY DEF Base
<1>1. TypeOK'
  BY <1>0 DEF TypeOK
<1>2. ScreenOK'
  BY <1>0 DEF ScreenOK
<1>3. Horizon' = Horizon
  BY DEF Horizon
<1>4. Horizon \in Row
  BY <1>0, HorizonFacts, HorizonFactsNext
<1>5. RowsKnown'
  BY <1>0, <1>3, <1>4, KnownStays, Numbers
<1>6. AnswersFull'
  BY <1>0 DEF AnswersFull
<1> QED
  BY <1>1, <1>2, <1>5, <1>6 DEF Base

LEMMA ReadCursorBase == ASSUME Base, ReadCursor PROVE Base'
<1> USE Numbers
<1>0. TypeOK /\ ScreenOK /\ TaskOK
  BY DEF Base
<1>1. /\ task' \in Task /\ task'.at = "seqno" /\ task'.cursor = screen.cursor
      /\ task'.top = task.top /\ task'.changed = task.changed
      /\ task'.bonus = task.bonus
  <2>1. screen.cursor \in 0..MaxRow /\ task \in Task
    BY <1>0, ScreenTypes DEF TypeOK
  <2> QED
    BY <2>1 DEF ReadCursor, Task
<1>2. TaskOK'
  BY <1>0, <1>1, ScreenTypes, TaskTypes DEF ReadCursor, TaskOK, ScreenOK
<1>3. session' \in Session /\ session'.seqno <= screen.seqno
  BY <1>0 DEF ReadCursor, TypeOK, ScreenOK
<1> QED
  BY <1>1, <1>2, <1>3, ReadingBase DEF ReadCursor

LEMMA ReadSeqnoBase == ASSUME Base, ReadSeqno PROVE Base'
<1> USE Numbers
<1>0. TypeOK /\ ScreenOK /\ TaskOK
  BY DEF Base
<1>1. /\ task' \in Task /\ task'.at = "changed" /\ task'.cursor = task.cursor
      /\ task'.top = task.top /\ task'.changed = task.changed
      /\ task'.bonus = task.bonus
  BY <1>0, ScreenTypes, TaskTypes DEF ReadSeqno, TypeOK, Task
<1>2. session' \in Session /\ session'.seqno = screen.seqno
  <2>1. screen.seqno \in 0..MaxSeqno /\ session \in Session
    BY <1>0, ScreenTypes DEF TypeOK
  <2> QED
    BY <2>1 DEF ReadSeqno, Session
<1>3. TaskOK'
  BY <1>0, <1>1, <1>2, ScreenTypes, TaskTypes DEF ReadSeqno, TaskOK
<1> QED
  BY <1>0, <1>1, <1>2, <1>3, ScreenTypes, TaskTypes, ReadingBase DEF ReadSeqno

LEMMA EndTask ==
  ASSUME Base, task.at # "idle", End, screen' = screen
  PROVE  /\ task' \in Task /\ task'.at = "idle" /\ TaskOK'
         /\ poll' \in {"idle", "asked", "answered", "failed"}
         /\ Horizon' \in Row /\ Horizon <= Horizon' /\ Horizon \in Row
<1> USE Numbers
<1>0. TypeOK /\ ScreenOK /\ TaskOK
  BY DEF Base
<1>1. task' \in Task /\ task'.at = "idle" /\ TaskOK'
  BY IdleTask DEF End, Idle, TaskOK
<1>2. poll' \in {"idle", "asked", "answered", "failed"}
  BY <1>0 DEF TypeOK, End
<1>3. /\ Horizon \in Row /\ Horizon <= screen.top + Height - 1
      /\ Horizon' = screen.top + Height - 1
  BY <1>0, <1>1, HorizonFacts, HorizonFactsNext DEF Horizon
<1> QED
  BY <1>0, <1>1, <1>2, <1>3, ScreenTypes, TaskTypes DEF ScreenOK

LEMMA ReadChangedBase == ASSUME Base, ReadChanged PROVE Base'
<1> USE Numbers
<1>0. TypeOK /\ ScreenOK /\ TaskOK /\ RowsKnown /\ AnswersFull
  BY DEF Base
<1>1. CASE End
  <2>1. TypeOK' /\ ScreenOK' /\ AnswersFull'
    BY <1>0, <1>1, EndTask DEF ReadChanged, TypeOK, ScreenOK, AnswersFull
  <2> QED
    BY <1>0, <1>1, <2>1, EndTask, KnownStays DEF ReadChanged, Base
<1>2. CASE task' = [task EXCEPT !.at = "viewport", !.changed = Changed] /\ UNCHANGED poll
  <2>1. /\ task' \in Task /\ task'.at = "viewport" /\ task'.cursor = task.cursor
        /\ task'.top = task.top /\ task'.changed = Changed
        /\ task'.bonus = task.bonus
    BY <1>0, <1>2 DEF TypeOK, Task, Changed
  <2>2. TaskOK'
    BY <1>0, <1>2, <2>1, ScreenTypes, TaskTypes DEF TaskOK, ReadChanged, Changed
  <2>3. session' \in Session /\ session'.seqno <= screen.seqno
    BY <1>0 DEF ReadChanged, TypeOK, ScreenOK
  <2> QED
    BY <1>2, <2>1, <2>2, <2>3, ReadingBase DEF ReadChanged
<1> QED
  BY <1>1, <1>2 DEF ReadChanged

LEMMA ReadViewportBase == ASSUME Base, ReadViewport PROVE Base'
<1> USE Numbers
<1>0. TypeOK /\ ScreenOK /\ TaskOK
  BY DEF Base
<1>1. PICK bonus : bonus = [r \in Row |-> IF r \in task.changed \cap Rows(task.top)
                                          THEN screen.written[r] ELSE 0]
  OBVIOUS
<1>2. bonus \in [Row -> 0..MaxSeqno]
  BY <1>0, <1>1, ScreenTypes, TaskTypes
<1>3. /\ task' \in Task /\ task'.at = "row" /\ task'.cursor = task.cursor
      /\ task'.top = task.top /\ task'.changed = task.changed /\ task'.bonus = bonus
  BY <1>0, <1>1, <1>2 DEF ReadViewport, TypeOK, Task
<1>4. \A r \in task.changed : r < task.top + Height /\ screen.written[r] > 0
  BY <1>0, ScreenTypes, TaskTypes DEF TaskOK, ScreenOK, ReadViewport
<1>5. TaskOK'
  <2>1. \A r \in Row : bonus[r] # 0 => r < task.top + Height
    BY <1>1, <1>4
  <2>2. \A r \in task.changed \cap Rows(task.top) : bonus[r] # 0
    BY <1>0, <1>1, <1>4, ScreenTypes, TaskTypes
  <2> QED
    BY <1>0, <1>3, <1>4, <2>1, <2>2 DEF ReadViewport, TaskOK
<1>6. session' \in Session /\ session'.seqno <= screen.seqno
  BY <1>0 DEF ReadViewport, TypeOK, ScreenOK
<1> QED
  BY <1>3, <1>5, <1>6, ReadingBase DEF ReadViewport

LEMMA KnownToPushStays ==
  ASSUME NEW p \in Push, KnownToPush(p), Horizon \in Row, Horizon' \in Row,
         Horizon <= Horizon'
  PROVE  KnownToPush(p)'
<1>1. p.top \in Row /\ p.cursor \in Row
  BY DEF Push
<1> QED
  BY <1>1, Numbers DEF KnownToPush, Names

LEMMA SendPushBase == ASSUME Base, SendPush PROVE Base'
<1> USE Numbers
<1>0. TypeOK /\ ScreenOK /\ TaskOK /\ RowsKnown /\ AnswersFull
  BY DEF Base
<1>1. /\ task' \in Task /\ task'.at = "idle" /\ TaskOK'
      /\ poll' \in {"idle", "asked", "answered", "failed"}
      /\ Horizon' \in Row /\ Horizon <= Horizon' /\ Horizon \in Row
  BY EndTask DEF SendPush
<1>2. PICK p : p = [top |-> task.top, cursor |-> task.cursor, seqno |-> session.seqno,
         bonus |-> [task.bonus EXCEPT ![task.cursor] = screen.written[task.cursor]],
         dirty |-> task.changed \ Rows(task.top)]
  OBVIOUS
<1>3. pushes' = Append(pushes, p)
  BY <1>2 DEF SendPush
<1>4. /\ task.top \in Row /\ task.top <= screen.top
      /\ task.cursor \in Row /\ task.cursor <= screen.top + Height - 1
      /\ session.seqno \in 1..MaxSeqno
  BY <1>0, ScreenTypes, TaskTypes DEF SendPush, TaskOK, ScreenOK, Row
<1>5. p \in Push
  <2>1. p.bonus \in [Row -> 0..MaxSeqno]
    BY <1>0, <1>2, <1>4, ScreenTypes, TaskTypes
  <2>2. p.dirty \subseteq Row
    BY <1>0, <1>2, TaskTypes
  <2> QED
    BY <1>2, <1>4, <2>1, <2>2 DEF Push
<1>6. pushes \in Seq(Push)
  BY <1>0 DEF TypeOK
<1>7. TypeOK'
  <2>1. session' \in Session
    <3>1. session \in Session /\ task.top \in 0..MaxRow /\ task.cursor \in 0..MaxRow
      BY <1>0, TaskTypes DEF TypeOK
    <3> QED
      BY <3>1 DEF SendPush, Session
  <2>2. pushes' \in Seq(Push)
    BY <1>3, <1>5, <1>6
  <2> QED
    BY <1>0, <1>1, <2>1, <2>2 DEF TypeOK, SendPush
<1>8. ScreenOK'
  <2>1. session'.seqno = session.seqno
    BY <1>0 DEF TypeOK, Session, SendPush
  <2> QED
    BY <1>0, <2>1 DEF ScreenOK, SendPush
<1>9. RowsKnown'
  <2>1. Horizon' = screen.top + Height - 1
    BY <1>1 DEF Horizon, SendPush
  <2>2. KnownToPush(p)'
    <3>1. p.top + Height - 1 <= Horizon' /\ p.cursor <= Horizon'
      BY <1>0, <1>2, <1>4, <2>1, ScreenTypes
    <3>2. ASSUME NEW r \in Row, Names(p, r)
          PROVE  r <= Horizon'
      <4>1. r = task.cursor \/ r \in task.changed \/ task.bonus[r] # 0
        BY <1>0, <1>2, <1>4, <3>2, TaskTypes DEF Names
      <4>2. r \in task.changed \/ task.bonus[r] # 0 => r < task.top + Height
        BY <1>0 DEF TaskOK
      <4> QED
        BY <1>0, <1>4, <2>1, <4>1, <4>2, ScreenTypes
    <3> QED
      BY <3>1, <3>2 DEF KnownToPush, Names
  <2>3. ASSUME NEW i \in DOMAIN pushes'
        PROVE  KnownToPush(pushes[i])'
    <3>1. CASE pushes'[i] = p
      BY <2>2, <3>1 DEF KnownToPush, Names
    <3>2. CASE i \in DOMAIN pushes /\ pushes'[i] = pushes[i]
      <4>1. PICK q : q = pushes[i]
        OBVIOUS
      <4>2. KnownToPush(q) /\ q \in Push
        BY <1>0, <3>2, <4>1, PushTypes DEF RowsKnown
      <4>3. KnownToPush(q)'
        BY <1>1, <4>2, KnownToPushStays
      <4> QED
        BY <3>2, <4>1, <4>3 DEF KnownToPush, Names
    <3> QED
      BY <1>3, <1>6, <2>3, <3>1, <3>2
  <2>4. ASSUME NEW f \in fetches, NEW r \in f.rows
        PROVE  r <= Horizon'
    BY <1>0, <1>1, FetchTypes DEF RowsKnown
  <2>5. client.top + Height - 1 <= Horizon' /\ client.cursor <= Horizon'
    BY <1>0, <1>1, ClientTypes DEF RowsKnown
  <2>6. \A r \in Row : client.lines[r].kind # "none" => r <= Horizon'
    BY <1>0, <1>1 DEF RowsKnown
  <2> QED
    BY <2>3, <2>4, <2>5, <2>6 DEF RowsKnown, SendPush
<1>10. AnswersFull'
  BY <1>0 DEF AnswersFull, SendPush
<1> QED
  BY <1>1, <1>7, <1>8, <1>9, <1>10 DEF Base

\* What a step beside the pane and compute_changes has to keep
LEMMA ClientBase ==
  ASSUME Base, UNCHANGED <<screen, session, told, task, drops>>,
         poll' \in {"idle", "asked", "answered", "failed"},
         client' \in Surface, pushes' \in Seq(Push), fetches' \subseteq Fetch,
         client'.top + Height - 1 <= Horizon, client'.cursor <= Horizon,
         \A r \in Row : client'.lines[r].kind # "none" => r <= Horizon,
         \A f \in fetches' : \A r \in f.rows : r <= Horizon,
         \A f \in fetches' : f.state = "answered" => \A r \in f.rows : f.lines[r] # 0,
         \A i \in DOMAIN pushes' : KnownToPush(pushes'[i])
  PROVE  Base'
<1>0. TypeOK /\ ScreenOK /\ TaskOK
  BY DEF Base
<1>1. TypeOK'
  BY <1>0 DEF TypeOK
<1>2. ScreenOK' /\ TaskOK'
  BY <1>0 DEF ScreenOK, TaskOK
<1>3. Horizon' = Horizon
  BY DEF Horizon
<1>4. RowsKnown'
  BY <1>3 DEF RowsKnown, KnownToPush
<1> QED
  BY <1>1, <1>2, <1>4 DEF Base, AnswersFull

\* What the client, the pushes and the fetches know already
LEMMA KnownNow ==
  ASSUME Base
  PROVE  /\ client \in Surface /\ pushes \in Seq(Push) /\ fetches \subseteq Fetch
         /\ poll \in {"idle", "asked", "answered", "failed"}
         /\ client.top + Height - 1 <= Horizon /\ client.cursor <= Horizon
         /\ \A r \in Row : client.lines[r].kind # "none" => r <= Horizon
         /\ \A f \in fetches : \A r \in f.rows : r <= Horizon
         /\ \A f \in fetches : f.state = "answered" => \A r \in f.rows : f.lines[r] # 0
         /\ \A i \in DOMAIN pushes : KnownToPush(pushes[i])
BY DEF Base, TypeOK, RowsKnown, AnswersFull

LEMMA PollBase == ASSUME Base, Poll \/ PollReturns PROVE Base'
BY KnownNow, ClientBase DEF Poll, PollReturns

LEMMA ServeFetchBase ==
  ASSUME Base, NEW f \in fetches, ServeFetch(f)
  PROVE  Base'
<1>0. TypeOK /\ ScreenOK /\ TaskOK /\ RowsKnown
  BY DEF Base
<1>1. PICK g : g = [f EXCEPT !.state = "answered",
              !.lines = [r \in Row |-> IF r \in f.rows THEN screen.written[r] ELSE 0]]
  OBVIOUS
<1>2. fetches' = (fetches \ {f}) \cup {g}
  BY <1>1 DEF ServeFetch
<1>3. /\ g \in Fetch /\ g.rows = f.rows
      /\ \A r \in f.rows : g.lines[r] = screen.written[r]
  <2>1. [r \in Row |-> IF r \in f.rows THEN screen.written[r] ELSE 0]
          \in [Row -> 0..MaxSeqno]
    BY <1>0, ScreenTypes, Numbers
  <2>2. f \in Fetch /\ f.rows \subseteq Row
    BY <1>0, FetchTypes
  <2> QED
    BY <1>1, <2>1, <2>2 DEF Fetch
<1>4. \A r \in f.rows : r <= Horizon /\ r \in Row
  BY <1>0, FetchTypes DEF RowsKnown
<1>5. \A r \in f.rows : g.lines[r] # 0
  BY <1>0, <1>3, <1>4, HorizonFacts, Numbers
<1> QED
  BY <1>2, <1>3, <1>4, <1>5, KnownNow, ClientBase DEF ServeFetch

LEMMA AskFacts ==
  ASSUME TypeOK, NEW rows \in SUBSET Row, NEW t \in Tag, Ask(rows, t)
  PROVE  /\ fetches' \subseteq Fetch
         /\ fetches \subseteq fetches'
         /\ \A g \in fetches' : g \in fetches \/ (g.state = "asked" /\ g.rows = rows /\ g.tag = t)
         /\ \A r \in rows : \E g \in fetches' : g.tag = t /\ r \in g.rows
<1>1. PICK f : f = [tag |-> t, rows |-> rows, state |-> "asked", lines |-> [r \in Row |-> 0]]
  OBVIOUS
<1>2. [r \in Row |-> 0] \in [Row -> 0..MaxSeqno]
  BY Numbers
<1>3. f \in Fetch
  BY <1>1, <1>2 DEF Fetch
<1>4. fetches \subseteq Fetch
  BY DEF TypeOK
<1>5. fetches' = fetches \/ fetches' = fetches \cup {f}
  BY <1>1 DEF Ask
<1>6. rows # {} => fetches' = fetches \cup {f}
  BY <1>1 DEF Ask
<1> QED
  BY <1>1, <1>3, <1>4, <1>5, <1>6

\* The rows a push has the client fetch
Admitted(p, admitted) == IF admitted THEN {r \in Dirty(p) : r >= p.top} ELSE {}

\* What a push makes of a row
Becomes(e, p, r, admitted) ==
  \/ p.bonus[r] # 0 /\ client'.lines[r] = Line(p.bonus[r], p.bonus[r])
  \/ p.bonus[r] = 0 /\ r \in Admitted(p, admitted) /\ client'.lines[r] = Fetched(e, Now)
  \/ /\ p.bonus[r] = 0 /\ r \in Dirty(p) \ Admitted(p, admitted)
     /\ client'.lines[r] = Absent \/ client'.lines[r] = Throttled(e)
  \/ p.bonus[r] = 0 /\ r \notin Dirty(p) /\ client'.lines[r] = e

LEMMA Applied ==
  ASSUME TypeOK, NEW p \in Push, NEW admitted \in BOOLEAN,
         \E t \in Tag : Unused(t), Apply(p, Now, admitted)
  PROVE  /\ client' \in Surface
         /\ client'.top = p.top /\ client'.cursor = p.cursor
         /\ \A r \in Row : Becomes(client.lines[r], p, r, admitted)
         /\ Admitted(p, admitted) \in SUBSET Row
         /\ Ask(Admitted(p, admitted), Now)
<1> USE Numbers
<1>1. Now \in Tag
  BY NowIsNew
<1>2. p.top \in Row /\ p.cursor \in Row /\ p.seqno \in 1..MaxSeqno
      /\ p.bonus \in [Row -> 0..MaxSeqno] /\ p.dirty \subseteq Row
  BY DEF Push
<1>3. Dirty(p) \subseteq Row
  BY <1>2, ClientTypes DEF Dirty
<1> DEFINE wanted == {r \in Dirty(p) : r >= p.top}
           entry(r) == IF p.bonus[r] # 0 THEN Line(p.bonus[r], p.bonus[r])
                       ELSE IF r \in wanted THEN IF admitted THEN Fetched(client.lines[r], Now)
                                                 ELSE Throttled(client.lines[r])
                       ELSE IF r \in Dirty(p) THEN Absent
                       ELSE client.lines[r]
<1>4. /\ client' = [top |-> p.top, cursor |-> p.cursor, seqno |-> p.seqno,
                    lines |-> [r \in Row |-> entry(r)]]
      /\ Ask(IF admitted THEN wanted ELSE {}, Now)
  BY DEF Apply
<1>5. ASSUME NEW r \in Row
      PROVE  entry(r) \in Entry
  <2>1. client.lines[r] \in Entry
    BY ClientTypes
  <2>2. p.bonus[r] \in 0..MaxSeqno
    BY <1>2
  <2>3. CASE p.bonus[r] # 0
    <3>1. Line(p.bonus[r], p.bonus[r]) \in Entry
      BY <2>2, <2>3, LineEntry
    <3> QED
      BY <2>3, <3>1
  <2>4. CASE p.bonus[r] = 0
    <3>1. Fetched(client.lines[r], Now) \in Entry
      BY <1>1, <2>1, FetchedEntry
    <3>2. Throttled(client.lines[r]) \in Entry
      BY <2>1, ThrottledEntry
    <3> QED
      BY <2>1, <2>4, <3>1, <3>2, AbsentEntry
  <2> QED
    BY <2>3, <2>4
<1>6. \A r \in Row : client'.lines[r] = entry(r)
  BY <1>4
<1>7. \A r \in Row : Becomes(client.lines[r], p, r, admitted)
  BY <1>6 DEF Becomes, Admitted
<1>8. client' \in Surface
  <2>1. [r \in Row |-> entry(r)] \in [Row -> Entry]
    BY <1>5
  <2>2. p.seqno \in 0..MaxSeqno
    BY <1>2
  <2> HIDE DEF entry
  <2> QED
    BY <1>2, <1>4, <2>1, <2>2 DEF Surface
<1>9. /\ Admitted(p, admitted) \in SUBSET Row
      /\ Ask(Admitted(p, admitted), Now)
  BY <1>3, <1>4 DEF Admitted
<1> QED
  BY <1>4, <1>7, <1>8, <1>9

\* A push is taken from those under way.
LEMMA Taken ==
  ASSUME TypeOK, ApplyPush
  PROVE  \E i \in DOMAIN pushes : \E admitted \in BOOLEAN :
           /\ i = 1 \/ Images
           /\ Apply(pushes[i], Now, admitted)
           /\ pushes[i] \in Push
           /\ pushes' \in Seq(Push)
           /\ DOMAIN pushes' = 1..(Len(pushes) - 1)
           /\ \A j \in DOMAIN pushes' : /\ (IF j < i THEN j ELSE j + 1) \in DOMAIN pushes
                                        /\ pushes'[j] = pushes[IF j < i THEN j ELSE j + 1]
<1>1. PICK i \in DOMAIN pushes : \E admitted \in BOOLEAN :
        /\ i = 1 \/ Images
        /\ pushes' = RemoveAt(pushes, i)
        /\ Apply(pushes[i], Now, admitted)
  BY DEF ApplyPush
<1>2. pushes \in Seq(Push)
  BY DEF TypeOK
<1>3. /\ pushes' \in Seq(Push) /\ Len(pushes') = Len(pushes) - 1
      /\ \A j \in DOMAIN pushes' : pushes'[j] = pushes[IF j < i THEN j ELSE j + 1]
  BY <1>1, <1>2, Removed
<1>4. DOMAIN pushes' = 1..(Len(pushes) - 1)
  BY <1>3
<1>5. \A j \in 1..(Len(pushes) - 1) : (IF j < i THEN j ELSE j + 1) \in DOMAIN pushes
  BY <1>2
<1>6. pushes[i] \in Push
  BY <1>1, PushTypes
<1> QED
  BY <1>1, <1>3, <1>4, <1>5, <1>6

LEMMA ApplyPushBase == ASSUME Base, ApplyPush PROVE Base'
<1> USE Numbers
<1>0. TypeOK
  BY DEF Base
<1>1. PICK i \in DOMAIN pushes : \E admitted \in BOOLEAN :
           /\ Apply(pushes[i], Now, admitted)
           /\ pushes[i] \in Push
           /\ pushes' \in Seq(Push)
           /\ \A j \in DOMAIN pushes' : /\ (IF j < i THEN j ELSE j + 1) \in DOMAIN pushes
                                        /\ pushes'[j] = pushes[IF j < i THEN j ELSE j + 1]
  BY <1>0, Taken
<1>2. PICK admitted \in BOOLEAN : Apply(pushes[i], Now, admitted)
  BY <1>1
<1>3. PICK p \in Push : p = pushes[i]
  BY <1>1
<1>4. \E t \in Tag : Unused(t)
  BY DEF ApplyPush
<1>5. /\ client' \in Surface
      /\ client'.top = p.top /\ client'.cursor = p.cursor
      /\ \A r \in Row : Becomes(client.lines[r], p, r, admitted)
      /\ Admitted(p, admitted) \in SUBSET Row
      /\ Ask(Admitted(p, admitted), Now)
  BY <1>0, <1>2, <1>3, <1>4, Applied
<1>6. KnownToPush(p)
  BY <1>3, KnownNow
<1>7. \A r \in Dirty(p) : r <= Horizon
  <2>1. p.dirty \subseteq Row
    BY DEF Push
  <2> QED
    BY <1>6, <2>1, KnownNow DEF Dirty, KnownToPush, Names
<1>8. ASSUME NEW r \in Row, client'.lines[r].kind # "none"
      PROVE  r <= Horizon
  <2>1. Becomes(client.lines[r], p, r, admitted)
    BY <1>5
  <2>2. CASE p.bonus[r] # 0
    BY <1>6, <2>2 DEF KnownToPush, Names
  <2>3. CASE r \in Dirty(p)
    BY <1>7, <2>3
  <2>4. CASE client'.lines[r] = client.lines[r]
    BY <1>8, <2>4, KnownNow
  <2>5. Admitted(p, admitted) \subseteq Dirty(p)
    BY DEF Admitted
  <2> QED
    BY <2>1, <2>2, <2>3, <2>4, <2>5 DEF Becomes
<1>9. /\ fetches' \subseteq Fetch
      /\ \A g \in fetches' : g \in fetches
           \/ (g.state = "asked" /\ g.rows = Admitted(p, admitted) /\ g.tag = Now)
  BY <1>0, <1>4, <1>5, AskFacts, NowIsNew
<1>10. \A g \in fetches' : \A r \in g.rows : r <= Horizon
  BY <1>7, <1>9, KnownNow DEF Admitted
<1>11. \A g \in fetches' : g.state = "answered" => \A r \in g.rows : g.lines[r] # 0
  BY <1>9, KnownNow
<1>12. \A j \in DOMAIN pushes' : KnownToPush(pushes'[j])
  BY <1>1, KnownNow
<1>13. client'.top + Height - 1 <= Horizon /\ client'.cursor <= Horizon
  BY <1>5, <1>6 DEF KnownToPush
<1> QED
  BY <1>1, <1>5, <1>8, <1>9, <1>10, <1>11, <1>12, <1>13, KnownNow, ClientBase DEF ApplyPush

\* The rows painted that the cache cannot show
Lacking(first) == {r \in Rows(first) : Newer(r) \/ client.lines[r].kind \in {"none", "Stale"}}

LEMMA Painted ==
  ASSUME Base, NEW first \in 1..client.top, Paint(first)
  PROVE  /\ Lacking(first) \in SUBSET Row
         /\ \A r \in Lacking(first) : r <= Horizon
         /\ Now \in Tag /\ Unused(Now)
         /\ Ask(Lacking(first), Now)
         /\ client' \in Surface
         /\ client'.top = client.top /\ client'.cursor = client.cursor
         /\ \A r \in Row :
              \/ r \notin Lacking(first) /\ client'.lines[r] = client.lines[r]
              \/ r \in Lacking(first) /\ Newer(r) /\ client'.lines[r] = Stale(client.lines[r])
              \/ r \in Lacking(first) /\ client'.lines[r] = Fetched(client.lines[r], Now)
<1> USE Numbers
<1>0. TypeOK /\ ScreenOK /\ TaskOK
  BY DEF Base
<1>1. Now \in Tag /\ Unused(Now)
  BY NowIsNew DEF Paint
<1>2. ASSUME NEW r \in Rows(first)
      PROVE  r \in Row /\ r <= Horizon
  <2>1. client.top + Height - 1 <= Horizon /\ Horizon \in Row
    BY <1>0, KnownNow, HorizonFacts
  <2>2. first \in Nat /\ 1 <= first /\ first <= client.top /\ client.top \in Nat
    BY <1>0, ClientTypes
  <2>3. r \in Nat /\ 1 <= r /\ r <= Horizon /\ Horizon <= MaxRow /\ Horizon \in Nat
    BY <2>1, <2>2 DEF Rows
  <2> QED
    BY <2>3 DEF Row
<1> DEFINE entry(r) == IF r \notin Lacking(first) THEN client.lines[r]
                       ELSE IF Newer(r) THEN Stale(client.lines[r])
                       ELSE Fetched(client.lines[r], Now)
<1>3. /\ client' = [client EXCEPT !.lines = [r \in Row |-> entry(r)]]
      /\ Ask(Lacking(first), Now)
  BY DEF Paint, Lacking
<1>4. \A r \in Row : entry(r) \in Entry
  BY <1>0, <1>1, ClientTypes, StaleEntry, FetchedEntry DEF Newer, HasLine
<1>5. client \in Surface
  BY <1>0 DEF TypeOK
<1>6. /\ client'.top = client.top /\ client'.cursor = client.cursor
      /\ \A r \in Row : client'.lines[r] = entry(r)
  BY <1>3, <1>5 DEF Surface
<1>7. client' \in Surface
  <2>1. [r \in Row |-> entry(r)] \in [Row -> Entry]
    BY <1>4
  <2> HIDE DEF entry
  <2> QED
    BY <1>3, <1>5, <2>1 DEF Surface
<1> QED
  BY <1>1, <1>2, <1>3, <1>6, <1>7 DEF Lacking

LEMMA PaintBase == ASSUME Base, NEW first \in 1..client.top, Paint(first) PROVE Base'
<1>0. TypeOK
  BY DEF Base
<1>1. /\ Lacking(first) \in SUBSET Row
      /\ \A r \in Lacking(first) : r <= Horizon
      /\ Now \in Tag /\ Ask(Lacking(first), Now)
      /\ client' \in Surface
      /\ client'.top = client.top /\ client'.cursor = client.cursor
      /\ \A r \in Row : r \notin Lacking(first) => client'.lines[r] = client.lines[r]
  BY Painted
<1>2. /\ fetches' \subseteq Fetch
      /\ \A g \in fetches' : g \in fetches \/ (g.state = "asked" /\ g.rows = Lacking(first))
  BY <1>0, <1>1, AskFacts
<1>3. \A g \in fetches' : \A r \in g.rows : r <= Horizon
  BY <1>1, <1>2, KnownNow
<1>4. \A g \in fetches' : g.state = "answered" => \A r \in g.rows : g.lines[r] # 0
  BY <1>2, KnownNow
<1>5. \A r \in Row : client'.lines[r].kind # "none" => r <= Horizon
  BY <1>1, KnownNow
<1> QED
  BY <1>1, <1>2, <1>3, <1>4, <1>5, KnownNow, ClientBase DEF Paint

LEMMA Returned ==
  ASSUME Base, NEW f \in fetches, FetchReturns(f)
  PROVE  /\ client' \in Surface
         /\ client'.top = client.top /\ client'.cursor = client.cursor
         /\ \A r \in Row :
              \/ ~Tagged(r, f) /\ client'.lines[r] = client.lines[r]
              \/ /\ Tagged(r, f)
                 /\ \E q \in 1..MaxSeqno : client'.lines[r] = Line(f.lines[r], q)
                 /\ client'.lines[r] \in Entry
<1> USE Numbers
<1>0. TypeOK
  BY DEF Base
<1> DEFINE q(r) == IF f.lines[r] > client.seqno THEN f.lines[r] ELSE client.seqno
           entry(r) == IF Tagged(r, f) THEN Line(f.lines[r], q(r)) ELSE client.lines[r]
<1>1. client' = [client EXCEPT !.lines = [r \in Row |-> entry(r)]]
  BY DEF FetchReturns
<1>2. ASSUME NEW r \in Row, Tagged(r, f)
      PROVE  f.lines[r] \in 1..MaxSeqno /\ q(r) \in 1..MaxSeqno
  <2>1. f.lines[r] \in 0..MaxSeqno
    BY <1>0, FetchTypes
  <2>2. f.lines[r] # 0
    BY <1>2, KnownNow DEF Tagged, FetchReturns
  <2>3. client.seqno \in 0..MaxSeqno
    BY <1>0, ClientTypes
  <2> QED
    BY <2>1, <2>2, <2>3
<1>3. \A r \in Row : entry(r) \in Entry
  <2> HIDE DEF q
  <2> QED
    BY <1>0, <1>2, LineEntry, ClientTypes
<1>4. client \in Surface
  BY <1>0 DEF TypeOK
<1>5. [r \in Row |-> entry(r)] \in [Row -> Entry]
  BY <1>3
<1>6. \A r \in Row : Tagged(r, f) => \E n \in 1..MaxSeqno : entry(r) = Line(f.lines[r], n)
  <2> HIDE DEF q
  <2> QED
    BY <1>2
<1>7. \A r \in Row : ~Tagged(r, f) => entry(r) = client.lines[r]
  OBVIOUS
<1> HIDE DEF entry
<1>8. client' \in Surface
  BY <1>1, <1>4, <1>5 DEF Surface
<1>9. /\ client'.top = client.top /\ client'.cursor = client.cursor
      /\ \A r \in Row : client'.lines[r] = entry(r)
  BY <1>1, <1>4 DEF Surface
<1> QED
  BY <1>3, <1>6, <1>7, <1>8, <1>9

LEMMA FetchReturnsBase == ASSUME Base, NEW f \in fetches, FetchReturns(f) PROVE Base'
<1>0. TypeOK
  BY DEF Base
<1>1. /\ client' \in Surface
      /\ client'.top = client.top /\ client'.cursor = client.cursor
      /\ \A r \in Row : ~Tagged(r, f) => client'.lines[r] = client.lines[r]
  BY Returned
<1>2. \A r \in Row : client'.lines[r].kind # "none" => r <= Horizon
  BY <1>1, KnownNow DEF Tagged
<1> QED
  BY <1>1, <1>2, KnownNow, ClientBase DEF FetchReturns

LEMMA Failed ==
  ASSUME Base, NEW f \in fetches, FetchFails(f)
  PROVE  /\ client' \in Surface
         /\ client'.top = client.top /\ client'.cursor = client.cursor
         /\ \A r \in Row :
              \/ ~Tagged(r, f) /\ client'.lines[r] = client.lines[r]
              \/ /\ Tagged(r, f) /\ HasLine(client.lines[r])
                 /\ client'.lines[r] = Line(client.lines[r].v, client.lines[r].seq)
              \/ Tagged(r, f) /\ client'.lines[r] = Absent
<1>0. TypeOK
  BY DEF Base
<1> DEFINE entry(r) == IF ~Tagged(r, f) THEN client.lines[r]
                       ELSE IF HasLine(client.lines[r])
                            THEN Line(client.lines[r].v, client.lines[r].seq)
                       ELSE Absent
<1>1. client' = [client EXCEPT !.lines = [r \in Row |-> entry(r)]]
  BY DEF FetchFails
<1>2. \A r \in Row : entry(r) \in Entry
  BY <1>0, ClientTypes, EntryFacts, LineEntry, AbsentEntry
<1>3. client \in Surface
  BY <1>0 DEF TypeOK
<1>4. [r \in Row |-> entry(r)] \in [Row -> Entry]
  BY <1>2
<1>5. client' \in Surface
  <2> HIDE DEF entry
  <2> QED
    BY <1>1, <1>3, <1>4 DEF Surface
<1>6. /\ client'.top = client.top /\ client'.cursor = client.cursor
      /\ \A r \in Row : client'.lines[r] = entry(r)
  BY <1>1, <1>3 DEF Surface
<1> QED
  BY <1>5, <1>6

LEMMA FetchFailsBase == ASSUME Base, NEW f \in fetches, FetchFails(f) PROVE Base'
<1>0. TypeOK
  BY DEF Base
<1>1. /\ client' \in Surface
      /\ client'.top = client.top /\ client'.cursor = client.cursor
      /\ \A r \in Row : ~Tagged(r, f) => client'.lines[r] = client.lines[r]
  BY Failed
<1>2. \A r \in Row : client'.lines[r].kind # "none" => r <= Horizon
  BY <1>1, KnownNow DEF Tagged
<1> QED
  BY <1>1, <1>2, KnownNow, ClientBase DEF FetchFails

\* A lost connection leaves a prefix of the pushes, and every fetch as it was
\* or failed.
LEMMA Dropped ==
  ASSUME TypeOK, Drop
  PROVE  /\ \E n \in 0..Len(pushes) : DOMAIN pushes' = 1..n
         /\ pushes' \in Seq(Push)
         /\ \A i \in DOMAIN pushes' : i \in DOMAIN pushes /\ pushes'[i] = pushes[i]
         /\ fetches' \subseteq Fetch
         /\ \A g \in fetches' : \E f \in fetches :
              /\ g.tag = f.tag /\ g.rows = f.rows /\ g.lines = f.lines
              /\ g = f \/ g = [f EXCEPT !.state = "failed"]
         /\ \A f \in fetches : \E g \in fetches' : g.tag = f.tag /\ g.rows = f.rows
<1>1. PICK n \in 0..Len(pushes) : pushes' = SubSeq(pushes, 1, n)
  BY DEF Drop
<1>2. pushes \in Seq(Push)
  BY DEF TypeOK
<1>3. /\ pushes' \in Seq(Push) /\ DOMAIN pushes' = 1..n
      /\ \A i \in 1..n : i \in DOMAIN pushes /\ pushes'[i] = pushes[i]
  BY <1>1, <1>2
<1>4. PICK lost \in SUBSET fetches : fetches' = (fetches \ lost) \cup Fail(lost)
  BY DEF Drop
<1>5. ASSUME NEW f \in fetches
      PROVE  /\ [f EXCEPT !.state = "failed"] \in Fetch
             /\ [f EXCEPT !.state = "failed"].tag = f.tag
             /\ [f EXCEPT !.state = "failed"].rows = f.rows
             /\ [f EXCEPT !.state = "failed"].lines = f.lines
             /\ [f EXCEPT !.state = "failed"].state = "failed"
  <2>1. f \in Fetch
    BY FetchTypes
  <2> QED
    BY <2>1 DEF Fetch
<1>6. ASSUME NEW g \in fetches'
      PROVE  \E f \in fetches :
              /\ g.tag = f.tag /\ g.rows = f.rows /\ g.lines = f.lines
              /\ g = f \/ g = [f EXCEPT !.state = "failed"]
  <2>1. g \in fetches \/ \E f \in lost : g = [f EXCEPT !.state = "failed"]
    BY <1>4 DEF Fail
  <2> QED
    BY <2>1, <1>5
<1>7. ASSUME NEW f \in fetches
      PROVE  \E g \in fetches' : g.tag = f.tag /\ g.rows = f.rows
  <2>1. CASE f \in lost
    <3>1. [f EXCEPT !.state = "failed"] \in fetches'
      BY <1>4, <2>1 DEF Fail
    <3> QED
      BY <1>5, <3>1
  <2>2. CASE f \notin lost
    BY <1>4, <2>2
  <2> QED
    BY <2>1, <2>2
<1>8. fetches' \subseteq Fetch
  <2>1. \A f \in fetches : f \in Fetch
    BY FetchTypes
  <2> QED
    BY <1>5, <1>6, <2>1
<1> QED
  BY <1>3, <1>6, <1>7, <1>8

LEMMA DropBase == ASSUME Base, Drop PROVE Base'
<1> USE Numbers
<1>0. TypeOK /\ ScreenOK /\ TaskOK /\ RowsKnown /\ AnswersFull
  BY DEF Base
<1>1. /\ pushes' \in Seq(Push)
      /\ \A i \in DOMAIN pushes' : i \in DOMAIN pushes /\ pushes'[i] = pushes[i]
      /\ fetches' \subseteq Fetch
      /\ \A g \in fetches' : \E f \in fetches :
           /\ g.tag = f.tag /\ g.rows = f.rows /\ g.lines = f.lines
           /\ g = f \/ g = [f EXCEPT !.state = "failed"]
  BY <1>0, Dropped
<1>2. TypeOK'
  <2>1. session' \in Session
    BY DEF Drop, NewSession, Session
  <2>2. task' \in Task
    BY IdleTask DEF Drop
  <2>3. poll' \in {"idle", "asked", "answered", "failed"}
    BY <1>0 DEF TypeOK, Drop
  <2>4. drops' \in 0..MaxDrops
    BY <1>0, LineCacheAssumption DEF TypeOK, Drop
  <2>5. told' \in BOOLEAN /\ screen' \in Screen /\ client' \in Surface
    BY <1>0 DEF TypeOK, Drop
  <2> QED
    BY <1>1, <2>1, <2>2, <2>3, <2>4, <2>5 DEF TypeOK
<1>3. ScreenOK'
  <2>1. screen' = screen /\ session'.seqno = 0
    BY DEF Drop, NewSession
  <2> QED
    BY <1>0, <2>1, ScreenTypes DEF ScreenOK
<1>4. TaskOK'
  BY DEF Drop, Idle, TaskOK
<1>5. Horizon' \in Row /\ Horizon \in Row /\ Horizon <= Horizon'
  <2>1. Horizon' = screen.top + Height - 1
    BY DEF Horizon, Drop, Idle
  <2> QED
    BY <1>0, <2>1, HorizonFacts DEF ScreenOK
<1>6. RowsKnown'
  <2>1. ASSUME NEW i \in DOMAIN pushes'
        PROVE  KnownToPush(pushes[i])'
    <3>1. PICK p : p = pushes[i]
      OBVIOUS
    <3>2. p = pushes'[i] /\ p \in Push /\ KnownToPush(p)
      BY <1>0, <1>1, <3>1, PushTypes, KnownNow DEF Base
    <3>3. KnownToPush(p)'
      BY <1>5, <3>2, KnownToPushStays
    <3> QED
      BY <3>2, <3>3 DEF KnownToPush, Names
  <2>2. ASSUME NEW g \in fetches', NEW r \in g.rows
        PROVE  r <= Horizon'
    <3>1. PICK f \in fetches : g.rows = f.rows
      BY <1>1
    <3> QED
      BY <1>0, <1>5, <3>1, <2>2, FetchTypes DEF RowsKnown
  <2>3. client.top + Height - 1 <= Horizon' /\ client.cursor <= Horizon'
    BY <1>0, <1>5, ClientTypes DEF RowsKnown
  <2>4. \A r \in Row : client.lines[r].kind # "none" => r <= Horizon'
    BY <1>0, <1>5 DEF RowsKnown
  <2> QED
    BY <2>1, <2>2, <2>3, <2>4 DEF RowsKnown, Drop
<1>7. AnswersFull'
  <2>1. ASSUME NEW g \in fetches', g.state = "answered", NEW r \in g.rows
        PROVE  g.lines[r] # 0
    <3>1. PICK f \in fetches : /\ g.rows = f.rows /\ g.lines = f.lines
                               /\ g = f \/ g = [f EXCEPT !.state = "failed"]
      BY <1>1
    <3>2. [f EXCEPT !.state = "failed"].state = "failed"
      BY <1>0, FetchTypes DEF Fetch
    <3> QED
      BY <1>0, <2>1, <3>1, <3>2 DEF AnswersFull
  <2> QED
    BY <2>1 DEF AnswersFull
<1> QED
  BY <1>2, <1>3, <1>4, <1>6, <1>7 DEF Base

\* The kinds of steps there are
LEMMA Steps ==
  ASSUME TypeOK, Next
  PROVE  \/ Output \/ PushNotified \/ PushPolled
         \/ ReadCursor \/ ReadSeqno \/ ReadChanged \/ ReadViewport \/ SendPush
         \/ \E f \in fetches : ServeFetch(f) \/ FetchReturns(f) \/ FetchFails(f)
         \/ ApplyPush \/ (\E first \in 1..client.top : Paint(first)) \/ Poll \/ PollReturns
         \/ Drop
<1>1. Serve \/ FetchEnds => \E f \in fetches : ServeFetch(f) \/ FetchReturns(f) \/ FetchFails(f)
  BY DEF Serve, ServeTag, FetchEnds, EndTag
<1>2. Paint(client.top) \/ PaintScrolledBack => \E first \in 1..client.top : Paint(first)
  <2>1. client.top \in Nat /\ 1 <= client.top
    BY ClientTypes, Numbers
  <2>2. client.top \in 1..client.top /\ 1..(client.top - 1) \subseteq 1..client.top
    BY <2>1
  <2> QED
    BY <2>2 DEF PaintScrolledBack
<1> QED
  BY <1>1, <1>2 DEF Next, Server, Client, Compute

LEMMA StepBase == Base /\ [Next]_vars => Base'
<1> SUFFICES ASSUME Base, [Next]_vars
             PROVE  Base'
  OBVIOUS
<1>1. CASE UNCHANGED vars
  BY <1>1 DEF vars, Base, TypeOK, ScreenOK, TaskOK, RowsKnown, KnownToPush, AnswersFull,
              Names, Horizon
<1>2. CASE Next
  <2>1. TypeOK
    BY DEF Base
  <2>2. PushNotified \/ PushPolled => Base'
    BY <2>1, BeginBase DEF PushNotified, PushPolled, TypeOK
  <2> QED
    BY <1>2, <2>1, <2>2, Steps, OutputBase, ReadCursorBase, ReadSeqnoBase, ReadChangedBase,
       ReadViewportBase, SendPushBase, ServeFetchBase, FetchReturnsBase, FetchFailsBase,
       ApplyPushBase, PaintBase, PollBase, DropBase
<1> QED
  BY <1>1, <1>2

\* The types hold for any number of rows, tags, pieces of output and lost
\* connections, with images or without.
THEOREM TypesHold == Spec => []TypeOK
<1>1. Base => TypeOK
  BY DEF Base
<1> QED
  BY <1>1, InitBase, StepBase, PTL DEF Spec

-----------------------------------------------------------------------------
(* No row waits in vain: tags tell the fetches apart.                      *)

TagsDistinct == \A f, g \in fetches : f.tag = g.tag => f = g

Asked == Base /\ TagsDistinct /\ NeverWaitsInVain

\* These rows may take the fresh tag, others keep theirs or lose it.
Retagged(rows) ==
  \A r \in Row : \/ client'.lines[r].tag \in {NoTag, client.lines[r].tag}
                 \/ r \in rows /\ client'.lines[r].tag = Now

LEMMA AskedStays ==
  ASSUME TypeOK, TagsDistinct, NeverWaitsInVain, Unused(Now), Now \in Tag,
         NEW rows \in SUBSET Row, Ask(rows, Now), Retagged(rows)
  PROVE  TagsDistinct' /\ NeverWaitsInVain'
<1>1. /\ fetches \subseteq fetches'
      /\ \A g \in fetches' : g \in fetches \/ g.tag = Now
      /\ \A r \in rows : \E g \in fetches' : g.tag = Now /\ r \in g.rows
  BY AskFacts
<1>2. \A f \in fetches : f.tag # Now
  BY DEF Unused
<1>3. TagsDistinct'
  <2>1. PICK f : f = [tag |-> Now, rows |-> rows, state |-> "asked",
                      lines |-> [r \in Row |-> 0]]
    OBVIOUS
  <2>2. fetches' = fetches \/ fetches' = fetches \cup {f}
    BY <2>1 DEF Ask
  <2>3. f.tag = Now
    BY <2>1
  <2> QED
    BY <1>2, <2>2, <2>3 DEF TagsDistinct
<1>4. ASSUME NEW r \in Row, client'.lines[r].tag # NoTag
      PROVE  \E g \in fetches' : r \in g.rows /\ client'.lines[r].tag = g.tag
  <2>1. CASE client'.lines[r].tag = client.lines[r].tag
    BY <1>1, <1>4, <2>1 DEF NeverWaitsInVain, Tagged
  <2>2. CASE r \in rows /\ client'.lines[r].tag = Now
    BY <1>1, <2>2
  <2> QED
    BY <1>4, <2>1, <2>2 DEF Retagged
<1> QED
  BY <1>3, <1>4 DEF NeverWaitsInVain, Tagged

LEMMA LineUntagged == \A v, q : Line(v, q).tag = NoTag /\ Absent.tag = NoTag
BY DEF Line, Absent

LEMMA StepAsked == ASSUME Asked, [Next]_vars PROVE Asked'
<1>0. Base /\ TypeOK /\ TagsDistinct /\ NeverWaitsInVain /\ Base'
  BY StepBase DEF Asked, Base
<1>1. CASE UNCHANGED <<fetches, client>>
  BY <1>0, <1>1 DEF Asked, TagsDistinct, NeverWaitsInVain, Tagged
<1>2. CASE ApplyPush
  <2>1. PICK i \in DOMAIN pushes : \E admitted \in BOOLEAN :
           Apply(pushes[i], Now, admitted) /\ pushes[i] \in Push
    BY <1>0, <1>2, Taken
  <2>2. PICK admitted \in BOOLEAN : Apply(pushes[i], Now, admitted)
    BY <2>1
  <2>3. PICK p \in Push : p = pushes[i]
    BY <2>1
  <2>4. Now \in Tag /\ Unused(Now)
    BY <1>2, NowIsNew DEF ApplyPush
  <2>5. /\ \A r \in Row : Becomes(client.lines[r], p, r, admitted)
        /\ Admitted(p, admitted) \in SUBSET Row
        /\ Ask(Admitted(p, admitted), Now)
    BY <1>0, <1>2, <2>2, <2>3, Applied DEF ApplyPush
  <2>6. ASSUME NEW r \in Row
        PROVE  \/ client'.lines[r].tag \in {NoTag, client.lines[r].tag}
               \/ r \in Admitted(p, admitted) /\ client'.lines[r].tag = Now
    <3>1. Becomes(client.lines[r], p, r, admitted) /\ client.lines[r] \in Entry
      BY <1>0, <2>5, ClientTypes
    <3>2. Fetched(client.lines[r], Now).tag = Now /\ Throttled(client.lines[r]).tag = NoTag
      BY <2>4, <3>1, FetchedEntry, ThrottledEntry
    <3> QED
      BY <3>1, <3>2, LineUntagged DEF Becomes
  <2>7. PICK rows \in SUBSET Row : rows = Admitted(p, admitted)
    BY <2>5
  <2>8. Retagged(rows) /\ Ask(rows, Now)
    <3>1. Retagged(rows)
      BY <2>6, <2>7 DEF Retagged
    <3>2. Ask(rows, Now)
      <4>1. Ask(Admitted(p, admitted), Now)
        BY <2>5
      <4> QED
        BY <2>7, <4>1 DEF Ask
    <3> QED
      BY <3>1, <3>2
  <2>9. TagsDistinct' /\ NeverWaitsInVain'
    BY <1>0, <2>4, <2>8, AskedStays
  <2> QED
    BY <1>0, <2>9 DEF Asked
<1>3. ASSUME NEW first \in 1..client.top, Paint(first)
      PROVE  Asked'
  <2>1. /\ Lacking(first) \in SUBSET Row
        /\ Now \in Tag /\ Unused(Now)
        /\ Ask(Lacking(first), Now)
        /\ \A r \in Row :
              \/ client'.lines[r] = client.lines[r]
              \/ Newer(r) /\ client'.lines[r] = Stale(client.lines[r])
              \/ r \in Lacking(first) /\ client'.lines[r] = Fetched(client.lines[r], Now)
    BY <1>0, <1>3, Painted
  <2>2. ASSUME NEW r \in Row
        PROVE  \/ client'.lines[r].tag \in {NoTag, client.lines[r].tag}
               \/ r \in Lacking(first) /\ client'.lines[r].tag = Now
    <3>1. client.lines[r] \in Entry
      BY <1>0, ClientTypes
    <3>2. Fetched(client.lines[r], Now).tag = Now
      BY <2>1, <3>1, FetchedEntry
    <3>3. Newer(r) => Stale(client.lines[r]).tag = NoTag
      BY <3>1, StaleEntry DEF Newer, HasLine
    <3> QED
      BY <2>1, <3>2, <3>3
  <2>3. PICK rows \in SUBSET Row : rows = Lacking(first)
    BY <2>1
  <2>4. Retagged(rows) /\ Ask(rows, Now)
    BY <2>1, <2>2, <2>3 DEF Retagged, Ask
  <2>5. TagsDistinct' /\ NeverWaitsInVain'
    BY <1>0, <2>1, <2>4, AskedStays
  <2> QED
    BY <1>0, <2>5 DEF Asked
<1>4. ASSUME NEW f \in fetches, FetchReturns(f) \/ FetchFails(f)
      PROVE  Asked'
  <2>1. fetches' = fetches \ {f}
    BY <1>4 DEF FetchReturns, FetchFails
  <2>2. \A r \in Row : \/ ~Tagged(r, f) /\ client'.lines[r] = client.lines[r]
                       \/ client'.lines[r].tag = NoTag
    BY <1>0, <1>4, Returned, Failed, LineUntagged
  <2>3. TagsDistinct'
    BY <1>0, <2>1 DEF TagsDistinct
  <2>4. NeverWaitsInVain'
    BY <1>0, <2>1, <2>2 DEF NeverWaitsInVain, Tagged
  <2> QED
    BY <1>0, <2>3, <2>4 DEF Asked
<1>5. ASSUME NEW f \in fetches, ServeFetch(f)
      PROVE  Asked'
  <2>1. PICK g : g = [f EXCEPT !.state = "answered",
                !.lines = [r \in Row |-> IF r \in f.rows THEN screen.written[r] ELSE 0]]
    OBVIOUS
  <2>2. fetches' = (fetches \ {f}) \cup {g} /\ client' = client
    BY <1>5, <2>1 DEF ServeFetch
  <2>3. g.tag = f.tag /\ g.rows = f.rows
    BY <1>0, <2>1, FetchTypes DEF Fetch
  <2>4. TagsDistinct'
    BY <1>0, <2>2, <2>3 DEF TagsDistinct
  <2>5. NeverWaitsInVain'
    BY <1>0, <2>2, <2>3 DEF NeverWaitsInVain, Tagged
  <2> QED
    BY <1>0, <2>4, <2>5 DEF Asked
<1>6. CASE Drop
  <2>1. /\ \A g \in fetches' : \E f \in fetches : g.tag = f.tag /\ g.rows = f.rows
        /\ \A f \in fetches : \E g \in fetches' : g.tag = f.tag /\ g.rows = f.rows
    BY <1>0, <1>6, Dropped
  <2>2. TagsDistinct'
    <3>1. PICK lost \in SUBSET fetches : fetches' = (fetches \ lost) \cup Fail(lost)
      BY <1>6 DEF Drop
    <3>2. \A f \in fetches : [f EXCEPT !.state = "failed"].tag = f.tag
      BY <1>0, FetchTypes DEF Fetch
    <3>3. \A g \in fetches' : \E f \in fetches :
            g.tag = f.tag /\ g = IF f \in lost THEN [f EXCEPT !.state = "failed"] ELSE f
      BY <3>1, <3>2 DEF Fail
    <3> QED
      BY <1>0, <3>3 DEF TagsDistinct
  <2>3. NeverWaitsInVain'
    BY <1>0, <1>6, <2>1 DEF NeverWaitsInVain, Tagged, Drop
  <2> QED
    BY <1>0, <2>2, <2>3 DEF Asked
<1>7. CASE \/ Output \/ PushNotified \/ PushPolled
           \/ ReadCursor \/ ReadSeqno \/ ReadChanged \/ ReadViewport \/ SendPush
           \/ Poll \/ PollReturns
  BY <1>1, <1>7 DEF Output, PushNotified, PushPolled, Begin, ReadCursor, ReadSeqno,
                    ReadChanged, ReadViewport, SendPush, Poll, PollReturns
<1> QED
  BY <1>0, <1>1, <1>2, <1>3, <1>4, <1>5, <1>6, <1>7, Steps DEF vars

\* No row waits for an answer that nobody will give it, for any number of rows,
\* fetches and lost connections, with images or without.
THEOREM NoneWaitsInVain == Spec => []NeverWaitsInVain
<1>1. Init => Asked
  BY InitBase, EntryFacts DEF Init, Asked, TagsDistinct, NeverWaitsInVain, Absent
<1>2. Asked /\ [Next]_vars => Asked'
  BY StepAsked
<1>3. Asked => NeverWaitsInVain
  BY DEF Asked
<1> QED
  BY <1>1, <1>2, <1>3, PTL DEF Spec

-----------------------------------------------------------------------------
(* Nothing is lost.  What the client takes for a row's text, and all that  *)
(* may yet become that, is the present text or the change is on its way;   *)
(* and a change that a push carries comes after what older pushes say.     *)

Fresh(v, r) == v = screen.written[r] \/ Pending(r)

TaskFresh ==
  task.at = "row" => \A r \in Row : task.bonus[r] # 0 =>
    task.bonus[r] = screen.written[r] \/ screen.written[r] > session.seqno

PushFresh(i) ==
  \A r \in Row : pushes[i].bonus[r] # 0 =>
    \/ pushes[i].bonus[r] = screen.written[r]
    \/ OnItsWay(r)
    \/ \E j \in DOMAIN pushes : j > i /\ Names(pushes[j], r)

FetchFresh(f) ==
  \A r \in Row : Tagged(r, f) =>
    /\ f.state = "answered" => Fresh(f.lines[r], r)
    /\ f.state = "failed" /\ HasLine(client.lines[r]) => Fresh(client.lines[r].v, r)

AllFresh ==
  /\ TaskFresh
  /\ \A i \in DOMAIN pushes : PushFresh(i)
  /\ \A f \in fetches : FetchFresh(f)
  /\ NothingLost

Told == Base /\ AllFresh

\* A change that was on its way still is, or a new push names its row.
Carried(r) ==
  \/ OnItsWay(r)'
  \/ \E j \in DOMAIN pushes' : j > Len(pushes) /\ Names(pushes'[j], r)

\* A step of the pane or of the session that keeps the changes on their way
LEMMA ServerFresh ==
  ASSUME Told, UNCHANGED <<client, fetches>>, pushes' \in Seq(Push),
         \A i \in DOMAIN pushes : i \in DOMAIN pushes' /\ pushes'[i] = pushes[i],
         \A r \in Row : screen'.written[r] = screen.written[r] \/ OnItsWay(r)',
         \A r \in Row : r <= Horizon /\ OnItsWay(r) => Carried(r)
  PROVE  /\ \A i \in DOMAIN pushes : PushFresh(i)'
         /\ \A f \in fetches : FetchFresh(f)'
         /\ NothingLost'
<1>0. Base /\ AllFresh
  BY DEF Told
<1>1. ASSUME NEW r \in Row, r <= Horizon, Pending(r)
      PROVE  Pending(r)'
  <2>1. CASE OnItsWay(r)
    BY <1>1, <2>1 DEF Carried, Pending
  <2>2. CASE \E i \in DOMAIN pushes : Names(pushes[i], r)
    BY <2>2 DEF Pending, Names
  <2> QED
    BY <1>1, <2>1, <2>2 DEF Pending
<1>2. ASSUME NEW r \in Row, r <= Horizon, NEW v, Fresh(v, r)
      PROVE  v = screen'.written[r] \/ Pending(r)'
  BY <1>1, <1>2 DEF Fresh, Pending
<1>3. ASSUME NEW i \in DOMAIN pushes
      PROVE  PushFresh(i)'
  <2>1. ASSUME NEW r \in Row, pushes[i].bonus[r] # 0
        PROVE  \/ pushes[i].bonus[r] = screen'.written[r]
               \/ OnItsWay(r)'
               \/ \E j \in DOMAIN pushes' : j > i /\ Names(pushes'[j], r)
    <3>1. r <= Horizon
      BY <2>1, KnownNow DEF Told, KnownToPush, Names
    <3>2. \/ pushes[i].bonus[r] = screen.written[r]
          \/ OnItsWay(r)
          \/ \E j \in DOMAIN pushes : j > i /\ Names(pushes[j], r)
      BY <1>0, <2>1 DEF AllFresh, PushFresh
    <3>3. ASSUME OnItsWay(r)
          PROVE  OnItsWay(r)' \/ \E j \in DOMAIN pushes' : j > i /\ Names(pushes'[j], r)
      <4>1. Carried(r)
        BY <3>1, <3>3
      <4>2. i \in 1..Len(pushes) /\ Len(pushes) \in Nat
        BY <1>0 DEF Base, TypeOK
      <4>3. \A j \in DOMAIN pushes' : j > Len(pushes) => j > i
        BY <4>2
      <4> QED
        BY <4>1, <4>3 DEF Carried
    <3> QED
      BY <3>2, <3>3
  <2> QED
    BY <2>1 DEF PushFresh, Names
<1>4. ASSUME NEW f \in fetches
      PROVE  FetchFresh(f)'
  <2>1. FetchFresh(f)
    BY <1>0 DEF AllFresh
  <2>2. \A r \in f.rows : r <= Horizon
    BY KnownNow DEF Told
  <2> QED
    BY <1>2, <2>1, <2>2 DEF FetchFresh, Tagged, Fresh
<1>5. NothingLost'
  <2>1. ASSUME NEW r \in Row, client.lines[r].kind = "Line"
        PROVE  client.lines[r].v = screen'.written[r] \/ Pending(r)'
    <3>1. r <= Horizon
      BY <2>1, KnownNow DEF Told
    <3>2. Fresh(client.lines[r].v, r)
      BY <1>0, <2>1 DEF AllFresh, NothingLost, Fresh
    <3> QED
      BY <1>2, <3>1, <3>2
  <2> QED
    BY <2>1 DEF NothingLost
<1> QED
  BY <1>3, <1>4, <1>5

\* The same for a step that leaves the pushes alone, too
LEMMA ServerKeepsFresh ==
  ASSUME Told, UNCHANGED <<client, fetches, pushes>>, TaskFresh',
         \A r \in Row : screen'.written[r] = screen.written[r] \/ OnItsWay(r)',
         \A r \in Row : r <= Horizon /\ OnItsWay(r) => OnItsWay(r)'
  PROVE  AllFresh'
<1>1. pushes \in Seq(Push)
  BY DEF Told, Base, TypeOK
<1>2. \A r \in Row : r <= Horizon /\ OnItsWay(r) => Carried(r)
  BY DEF Carried
<1>3. /\ \A i \in DOMAIN pushes : PushFresh(i)'
      /\ \A f \in fetches : FetchFresh(f)'
      /\ NothingLost'
  BY <1>1, <1>2, ServerFresh
<1> QED
  BY <1>3 DEF AllFresh, PushFresh, FetchFresh, Fresh, Tagged, Pending

LEMMA OutputFresh == ASSUME Told, Output PROVE AllFresh'
<1> USE Numbers
<1>0. Base /\ TypeOK /\ ScreenOK /\ TaskFresh
  BY DEF Told, Base, AllFresh
<1>1. PICK top, row, cursor \in Row :
        screen' = [top |-> top, cursor |-> cursor, seqno |-> screen.seqno + 1,
                   written |-> [screen.written EXCEPT ![row] = screen.seqno + 1]]
  <2>1. PICK top \in {screen.top, screen.top + 1}, row, cursor \in Row :
          /\ top + Height - 1 <= MaxRow
          /\ screen' = [top |-> top, cursor |-> cursor, seqno |-> screen.seqno + 1,
                        written |-> [screen.written EXCEPT ![row] = screen.seqno + 1]]
    BY DEF Output
  <2>2. screen.top \in Nat /\ screen.top >= 1
    BY <1>0, ScreenTypes
  <2>3. top \in Row
    BY <2>1, <2>2 DEF Row
  <2> QED
    BY <2>1, <2>3
<1>2. screen'.written = [screen.written EXCEPT ![row] = screen.seqno + 1]
  BY <1>1
<1>3. /\ screen.written \in [Row -> 0..MaxSeqno] /\ screen.seqno \in Nat
      /\ session.seqno \in Nat /\ session.seqno <= screen.seqno
      /\ \A r \in Row : screen.written[r] <= screen.seqno
      /\ task.since \in Nat
  BY <1>0, ScreenTypes, TaskTypes DEF ScreenOK
<1>4. ASSUME NEW r \in Row
      PROVE  /\ screen'.written[r] >= screen.written[r]
             /\ screen'.written[r] = screen.written[r] \/ screen'.written[r] > session.seqno
             /\ screen'.written[r] \in Nat
  BY <1>2, <1>3
<1>5. task' = task /\ session' = session
  BY DEF Output
<1>6. \A r \in Row : screen'.written[r] = screen.written[r] \/ OnItsWay(r)'
  BY <1>4, <1>5 DEF OnItsWay
<1>7. ASSUME NEW r \in Row, OnItsWay(r)
      PROVE  OnItsWay(r)'
  BY <1>3, <1>4, <1>5, <1>7 DEF OnItsWay, Changed
<1>8. TaskFresh'
  BY <1>0, <1>4, <1>5 DEF TaskFresh
<1> QED
  BY <1>6, <1>7, <1>8, ServerKeepsFresh DEF Output

LEMMA BeginFresh == ASSUME Told, NEW polled \in BOOLEAN, Begin(polled) PROVE AllFresh'
<1>1. /\ task.at = "idle" /\ task'.at = "cursor"
      /\ screen' = screen /\ session' = session
  BY DEF Begin, Idle
<1>2. \A r \in Row : OnItsWay(r) => OnItsWay(r)'
  BY <1>1 DEF OnItsWay
<1>3. TaskFresh'
  BY <1>1 DEF TaskFresh
<1> QED
  BY <1>1, <1>2, <1>3, ServerKeepsFresh DEF Begin

LEMMA ReadCursorFresh == ASSUME Told, ReadCursor PROVE AllFresh'
<1>1. /\ task.at = "cursor" /\ task'.at = "seqno"
      /\ screen' = screen /\ session' = session
  BY DEF ReadCursor, Told, Base, TypeOK, Task
<1>2. \A r \in Row : OnItsWay(r) => OnItsWay(r)'
  BY <1>1 DEF OnItsWay
<1>3. TaskFresh'
  BY <1>1 DEF TaskFresh
<1> QED
  BY <1>1, <1>2, <1>3, ServerKeepsFresh DEF ReadCursor

\* The rows are compared with the seqno that the session had: no known row
\* written since is left out.
LEMMA ReadSeqnoFresh == ASSUME Told, ReadSeqno PROVE AllFresh'
<1> USE Numbers
<1>0. Base /\ TypeOK
  BY DEF Told, Base
<1>1. /\ task.at = "seqno" /\ task'.at = "changed"
      /\ task'.since = session.seqno /\ task'.top = task.top
      /\ screen' = screen
  BY <1>0 DEF ReadSeqno, TypeOK, Task
<1>2. Horizon = task.top + Height - 1
  BY <1>1 DEF Horizon
<1>3. ASSUME NEW r \in Row, r <= Horizon, OnItsWay(r)
      PROVE  OnItsWay(r)'
  <2>1. screen.written[r] > session.seqno
    BY <1>1, <1>3 DEF OnItsWay
  <2>2. r < task.top + Height
    BY <1>0, <1>2, <1>3, TaskTypes
  <2> QED
    BY <1>1, <2>1, <2>2 DEF OnItsWay, Changed
<1>4. TaskFresh'
  BY <1>1 DEF TaskFresh
<1> QED
  BY <1>1, <1>3, <1>4, ServerKeepsFresh DEF ReadSeqno

LEMMA ReadChangedFresh == ASSUME Told, ReadChanged PROVE AllFresh'
<1>0. Base /\ TypeOK
  BY DEF Told, Base
<1>1. /\ task.at = "changed"
      /\ screen' = screen /\ session' = session
  BY DEF ReadChanged
<1>2. CASE Changed = {} /\ End
  <2>1. task'.at = "idle"
    BY <1>2 DEF End, Idle
  <2>2. \A r \in Row : OnItsWay(r) => OnItsWay(r)'
    BY <1>1, <1>2 DEF OnItsWay
  <2>3. TaskFresh'
    BY <2>1 DEF TaskFresh
  <2> QED
    BY <1>1, <2>2, <2>3, ServerKeepsFresh DEF ReadChanged
<1>3. CASE task' = [task EXCEPT !.at = "viewport", !.changed = Changed]
  <2>1. task'.at = "viewport" /\ task'.changed = Changed
    BY <1>0, <1>3 DEF TypeOK, Task
  <2>2. \A r \in Row : OnItsWay(r) => OnItsWay(r)'
    BY <1>1, <2>1 DEF OnItsWay
  <2>3. TaskFresh'
    BY <2>1 DEF TaskFresh
  <2> QED
    BY <1>1, <2>2, <2>3, ServerKeepsFresh DEF ReadChanged
<1> QED
  BY <1>2, <1>3 DEF ReadChanged

LEMMA ReadViewportFresh == ASSUME Told, ReadViewport PROVE AllFresh'
<1>0. Base /\ TypeOK
  BY DEF Told, Base
<1>1. /\ task.at = "viewport" /\ task'.at = "row" /\ task'.changed = task.changed
      /\ task'.bonus = [r \in Row |-> IF r \in task.changed \cap Rows(task.top)
                                      THEN screen.written[r] ELSE 0]
      /\ screen' = screen /\ session' = session
  BY <1>0 DEF ReadViewport, TypeOK, Task
<1>2. \A r \in Row : OnItsWay(r) => OnItsWay(r)'
  BY <1>1 DEF OnItsWay
<1>3. TaskFresh'
  BY <1>1 DEF TaskFresh
<1> QED
  BY <1>1, <1>2, <1>3, ServerKeepsFresh DEF ReadViewport

LEMMA SendPushFresh == ASSUME Told, SendPush PROVE AllFresh'
<1> USE Numbers
<1>0. Base /\ TypeOK /\ ScreenOK /\ TaskOK /\ TaskFresh
  BY DEF Told, Base, AllFresh
<1>1. PICK p : p = [top |-> task.top, cursor |-> task.cursor, seqno |-> session.seqno,
         bonus |-> [task.bonus EXCEPT ![task.cursor] = screen.written[task.cursor]],
         dirty |-> task.changed \ Rows(task.top)]
  OBVIOUS
<1>2. /\ pushes' = Append(pushes, p) /\ pushes \in Seq(Push)
      /\ task.at = "row" /\ task'.at = "idle" /\ screen' = screen
      /\ session'.seqno = session.seqno
  BY <1>0, <1>1 DEF SendPush, End, Idle, TypeOK, Session
<1>3. /\ DOMAIN pushes' = 1..(Len(pushes) + 1) /\ Len(pushes) \in Nat
      /\ pushes'[Len(pushes) + 1] = p
      /\ \A i \in DOMAIN pushes : i \in DOMAIN pushes' /\ pushes'[i] = pushes[i]
      /\ DOMAIN pushes = 1..Len(pushes)
  BY <1>2
<1>4. pushes' \in Seq(Push)
  BY <1>0, SendPushBase DEF Base, TypeOK
<1>5. /\ task.cursor \in Row /\ screen.written[task.cursor] # 0
      /\ task.bonus \in [Row -> 0..MaxSeqno]
  <2>1. task.cursor \in Nat /\ 1 <= task.cursor /\ task.cursor <= screen.top + Height - 1
    BY <1>0, <1>2, ScreenTypes DEF TaskOK
  <2>2. task.cursor \in Row /\ task.cursor < screen.top + Height
    BY <1>0, <2>1, ScreenTypes DEF ScreenOK, Row
  <2> QED
    BY <1>0, <2>2, ScreenTypes, TaskTypes DEF ScreenOK
<1>6. \A r \in Row : p.bonus[r] = IF r = task.cursor THEN screen.written[r] ELSE task.bonus[r]
  BY <1>1, <1>5
<1>7. ASSUME NEW r \in Row, OnItsWay(r)
      PROVE  Carried(r)
  <2>1. CASE screen.written[r] > session.seqno
    BY <1>2, <2>1 DEF Carried, OnItsWay
  <2>2. CASE r \in task.changed
    <3>1. Names(p, r)
      BY <1>0, <1>1, <1>2, <1>5, <1>6, <2>2 DEF Names, TaskOK
    <3> QED
      BY <1>3, <3>1 DEF Carried
  <2> QED
    BY <1>2, <1>7, <2>1, <2>2 DEF OnItsWay
<1>8. /\ \A i \in DOMAIN pushes : PushFresh(i)'
      /\ \A f \in fetches : FetchFresh(f)'
      /\ NothingLost'
  BY <1>2, <1>3, <1>4, <1>7, ServerFresh DEF SendPush
<1>9. ASSUME NEW i \in DOMAIN pushes', i \notin DOMAIN pushes
      PROVE  PushFresh(i)'
  <2>1. ASSUME NEW r \in Row, p.bonus[r] # 0
        PROVE  p.bonus[r] = screen.written[r] \/ screen.written[r] > session.seqno
    BY <1>0, <1>2, <1>6, <2>1 DEF TaskFresh
  <2>2. pushes'[i] = p
    BY <1>3, <1>9
  <2> QED
    BY <1>2, <2>1, <2>2 DEF PushFresh, OnItsWay
<1>10. TaskFresh'
  BY <1>2 DEF TaskFresh
<1> QED
  BY <1>3, <1>8, <1>9, <1>10 DEF AllFresh, SendPush

\* A new session is to tell the client everything that it knows of.
LEMMA DropFresh == ASSUME Told, Drop PROVE AllFresh'
<1> USE Numbers
<1>0. Base /\ TypeOK /\ Base'
  BY DropBase DEF Told, Base
<1>1. session'.seqno = 0 /\ task'.at = "idle"
  BY DEF Drop, NewSession, Idle
<1>2. ASSUME NEW r \in Row, r <= Horizon'
      PROVE  OnItsWay(r)'
  <2>1. screen'.written[r] \in 1..MaxSeqno
    BY <1>0, <1>2, HorizonFactsNext DEF Base
  <2> QED
    BY <1>1, <2>1 DEF OnItsWay
<1>3. RowsKnown'
  BY <1>0 DEF Base
<1>4. ASSUME NEW i \in DOMAIN pushes'
      PROVE  PushFresh(i)'
  <2>1. KnownToPush(pushes[i])'
    BY <1>3, <1>4 DEF RowsKnown
  <2> QED
    BY <1>2, <2>1 DEF PushFresh, KnownToPush, Names
<1>5. ASSUME NEW f \in fetches'
      PROVE  FetchFresh(f)'
  <2>1. \A r \in f.rows : r <= Horizon'
    BY <1>3, <1>5 DEF RowsKnown
  <2> QED
    BY <1>2, <2>1 DEF FetchFresh, Fresh, Pending, Tagged
<1>6. NothingLost'
  <2>1. \A r \in Row : client'.lines[r].kind # "none" => r <= Horizon'
    BY <1>3 DEF RowsKnown
  <2> QED
    BY <1>2, <2>1 DEF NothingLost, Pending
<1>7. TaskFresh'
  BY <1>1 DEF TaskFresh
<1> QED
  BY <1>4, <1>5, <1>6, <1>7 DEF AllFresh

\* A step of the client that takes no push: what was fresh is.
LEMMA ClientFresh ==
  ASSUME Told, UNCHANGED <<screen, session, task, pushes>>
  PROVE  /\ \A r \in Row : Pending(r)' <=> Pending(r)
         /\ \A r \in Row : \A v : Fresh(v, r) => v = screen'.written[r] \/ Pending(r)'
         /\ TaskFresh' /\ \A i \in DOMAIN pushes' : PushFresh(i)'
<1>1. \A r \in Row : OnItsWay(r)' <=> OnItsWay(r)
  BY DEF OnItsWay, Changed
<1> QED
  BY <1>1 DEF Told, AllFresh, Pending, Fresh, Names, PushFresh, TaskFresh

LEMMA PollFresh == ASSUME Told, UNCHANGED <<screen, session, task, pushes, fetches, client>>
                   PROVE  AllFresh'
BY ClientFresh DEF Told, AllFresh, FetchFresh, NothingLost, Tagged, Fresh

LEMMA ServeFetchFresh == ASSUME Told, NEW f \in fetches, ServeFetch(f) PROVE AllFresh'
<1>0. Base /\ TypeOK /\ AllFresh
  BY DEF Told, Base
<1>1. PICK g : g = [f EXCEPT !.state = "answered",
              !.lines = [r \in Row |-> IF r \in f.rows THEN screen.written[r] ELSE 0]]
  OBVIOUS
<1>2. fetches' = (fetches \ {f}) \cup {g} /\ client' = client /\ screen' = screen
  BY <1>1 DEF ServeFetch
<1>3. /\ g.state = "answered" /\ g.rows = f.rows
      /\ \A r \in f.rows : g.lines[r] = screen.written[r]
  <2>1. f \in Fetch /\ f.rows \subseteq Row
    BY <1>0, FetchTypes
  <2> QED
    BY <1>1, <2>1 DEF Fetch
<1>4. /\ \A r \in Row : Pending(r)' <=> Pending(r)
      /\ \A r \in Row : \A v : Fresh(v, r) => v = screen'.written[r] \/ Pending(r)'
      /\ TaskFresh' /\ \A i \in DOMAIN pushes' : PushFresh(i)'
  BY ClientFresh DEF ServeFetch
<1>5. ASSUME NEW h \in fetches'
      PROVE  FetchFresh(h)'
  <2>1. CASE h = g
    BY <1>2, <1>3, <2>1 DEF FetchFresh, Tagged, Fresh
  <2>2. CASE h \in fetches
    BY <1>0, <1>2, <1>4, <2>2 DEF AllFresh, FetchFresh, Tagged, Fresh
  <2> QED
    BY <1>2, <1>5, <2>1, <2>2
<1>6. NothingLost'
  BY <1>0, <1>2, <1>4 DEF AllFresh, NothingLost
<1> QED
  BY <1>4, <1>5, <1>6 DEF AllFresh

\* A row that is still tagged by a fetch that goes on has not been touched.
LEMMA TagKept ==
  ASSUME Told, UNCHANGED <<screen, session, task, pushes>>,
         NEW f \in fetches, FetchFresh(f),
         \A r \in Row : client'.lines[r].tag = f.tag => client'.lines[r] = client.lines[r]
  PROVE  FetchFresh(f)'
<1>1. \A r \in Row : \A v : Fresh(v, r) => v = screen'.written[r] \/ Pending(r)'
  BY ClientFresh
<1> QED
  BY <1>1 DEF FetchFresh, Tagged, Fresh

LEMMA FetchEndsFresh ==
  ASSUME Told, NEW f \in fetches, FetchReturns(f) \/ FetchFails(f)
  PROVE  AllFresh'
<1>0. Base /\ TypeOK /\ AllFresh /\ FetchFresh(f)
  BY DEF Told, Base, AllFresh
<1>1. UNCHANGED <<screen, session, task, pushes>> /\ fetches' = fetches \ {f}
  BY DEF FetchReturns, FetchFails
<1>2. /\ \A r \in Row : Pending(r)' <=> Pending(r)
      /\ \A r \in Row : \A v : Fresh(v, r) => v = screen'.written[r] \/ Pending(r)'
      /\ TaskFresh' /\ \A i \in DOMAIN pushes' : PushFresh(i)'
  BY <1>1, ClientFresh
<1>3. ASSUME NEW r \in Row
      PROVE  \/ client'.lines[r] = client.lines[r]
             \/ client'.lines[r].tag = NoTag /\ client'.lines[r].kind # "Line"
             \/ /\ client'.lines[r].tag = NoTag
                /\ Fresh(client'.lines[r].v, r)
  <2>1. CASE FetchReturns(f)
    <3>1. \/ client'.lines[r] = client.lines[r]
          \/ Tagged(r, f) /\ \E q \in 1..MaxSeqno : client'.lines[r] = Line(f.lines[r], q)
      BY <1>0, <2>1, Returned
    <3>2. Tagged(r, f) => Fresh(f.lines[r], r)
      BY <1>0, <2>1 DEF FetchFresh, FetchReturns
    <3>3. \A v, q : Line(v, q).v = v /\ Line(v, q).tag = NoTag
      BY DEF Line
    <3>4. CASE Tagged(r, f) /\ \E q \in 1..MaxSeqno : client'.lines[r] = Line(f.lines[r], q)
      <4>1. client'.lines[r].v = f.lines[r] /\ client'.lines[r].tag = NoTag
        BY <3>3, <3>4
      <4> QED
        BY <3>2, <3>4, <4>1
    <3> QED
      BY <3>1, <3>4
  <2>2. CASE FetchFails(f)
    <3>1. \/ client'.lines[r] = client.lines[r]
          \/ /\ Tagged(r, f) /\ HasLine(client.lines[r])
             /\ client'.lines[r] = Line(client.lines[r].v, client.lines[r].seq)
          \/ client'.lines[r] = Absent
      BY <1>0, <2>2, Failed
    <3>2. Tagged(r, f) /\ HasLine(client.lines[r]) => Fresh(client.lines[r].v, r)
      BY <1>0, <2>2 DEF FetchFresh, FetchFails
    <3> QED
      BY <3>1, <3>2 DEF Line, Absent
  <2> QED
    BY <2>1, <2>2
<1>4. ASSUME NEW g \in fetches'
      PROVE  FetchFresh(g)'
  <2>1. g \in fetches /\ FetchFresh(g) /\ g.tag # NoTag
    BY <1>0, <1>1, FetchTypes, LineCacheAssumption DEF AllFresh
  <2> QED
    BY <1>1, <1>3, <2>1, TagKept
<1>5. NothingLost'
  BY <1>0, <1>2, <1>3 DEF AllFresh, NothingLost, Fresh
<1> QED
  BY <1>2, <1>4, <1>5 DEF AllFresh

LEMMA PaintFresh == ASSUME Told, NEW first \in 1..client.top, Paint(first) PROVE AllFresh'
<1>0. Base /\ TypeOK /\ AllFresh
  BY DEF Told, Base
<1>1. UNCHANGED <<screen, session, task, pushes>>
  BY DEF Paint
<1>2. /\ \A r \in Row : Pending(r)' <=> Pending(r)
      /\ TaskFresh' /\ \A i \in DOMAIN pushes' : PushFresh(i)'
  BY <1>1, ClientFresh
<1>3. /\ Lacking(first) \in SUBSET Row
      /\ Now \in Tag /\ Unused(Now)
      /\ Ask(Lacking(first), Now)
      /\ \A r \in Row :
           \/ client'.lines[r] = client.lines[r]
           \/ Newer(r) /\ client'.lines[r] = Stale(client.lines[r])
           \/ client'.lines[r] = Fetched(client.lines[r], Now)
  BY <1>0, Painted
<1>4. ASSUME NEW r \in Row
      PROVE  \/ client'.lines[r] = client.lines[r]
             \/ client'.lines[r].tag \in {NoTag, Now} /\ client'.lines[r].kind # "Line"
  <2>1. client.lines[r] \in Entry
    BY <1>0, ClientTypes
  <2>2. /\ Fetched(client.lines[r], Now).tag = Now
        /\ Fetched(client.lines[r], Now).kind # "Line"
    BY <1>3, <2>1, FetchedEntry
  <2>3. Newer(r) => Stale(client.lines[r]).tag = NoTag /\ Stale(client.lines[r]).kind # "Line"
    BY <2>1, StaleEntry DEF Newer, HasLine
  <2> QED
    BY <1>3, <2>2, <2>3
<1>5. PICK rows \in SUBSET Row : rows = Lacking(first)
  BY <1>3
<1>6. Ask(rows, Now)
  BY <1>3, <1>5 DEF Ask
<1>7. ASSUME NEW g \in fetches'
      PROVE  FetchFresh(g)'
  <2>1. g \in fetches \/ g.state = "asked"
    BY <1>0, <1>3, <1>6, AskFacts
  <2>2. CASE g \in fetches
    <3>1. FetchFresh(g) /\ g.tag # NoTag /\ g.tag # Now
      BY <1>0, <1>3, <2>2, FetchTypes, LineCacheAssumption DEF AllFresh, Unused
    <3> QED
      BY <1>1, <1>4, <2>2, <3>1, TagKept
  <2>3. CASE g.state = "asked"
    BY <2>3 DEF FetchFresh
  <2> QED
    BY <2>1, <2>2, <2>3
<1>8. NothingLost'
  BY <1>0, <1>1, <1>2, <1>4 DEF AllFresh, NothingLost
<1> QED
  BY <1>2, <1>7, <1>8 DEF AllFresh

\* The oldest push is applied: what it does not name is pending as before, and
\* what it names is as fresh as the pushes after it make it.
LEMMA ApplyPushFresh == ASSUME Told, ~Images, ApplyPush PROVE AllFresh'
<1> USE Numbers
<1>0. Base /\ TypeOK /\ AllFresh
  BY DEF Told, Base
<1>1. /\ 1 \in DOMAIN pushes /\ pushes[1] \in Push
      /\ \E admitted \in BOOLEAN : Apply(pushes[1], Now, admitted)
      /\ DOMAIN pushes' = 1..(Len(pushes) - 1)
      /\ \A j \in DOMAIN pushes' : j + 1 \in DOMAIN pushes /\ pushes'[j] = pushes[j + 1]
      /\ DOMAIN pushes = 1..Len(pushes) /\ Len(pushes) \in Nat
  <2>1. PICK i \in DOMAIN pushes : \E admitted \in BOOLEAN :
           /\ i = 1 \/ Images
           /\ Apply(pushes[i], Now, admitted)
           /\ pushes[i] \in Push
           /\ DOMAIN pushes' = 1..(Len(pushes) - 1)
           /\ \A j \in DOMAIN pushes' : /\ (IF j < i THEN j ELSE j + 1) \in DOMAIN pushes
                                        /\ pushes'[j] = pushes[IF j < i THEN j ELSE j + 1]
    BY <1>0, Taken
  <2>2. i = 1
    BY <2>1
  <2>3. DOMAIN pushes = 1..Len(pushes) /\ Len(pushes) \in Nat
    BY <1>0 DEF TypeOK
  <2>4. \A j \in DOMAIN pushes' : (IF j < 1 THEN j ELSE j + 1) = j + 1
    BY <2>1, <2>3
  <2>5. \A j \in DOMAIN pushes' : j + 1 \in DOMAIN pushes /\ pushes'[j] = pushes[j + 1]
    BY <2>1, <2>2, <2>4
  <2> QED
    BY <2>1, <2>2, <2>3, <2>5
<1>2. PICK admitted \in BOOLEAN : Apply(pushes[1], Now, admitted)
  BY <1>1
<1>3. PICK p \in Push : p = pushes[1]
  BY <1>1
<1>4. Now \in Tag /\ Unused(Now)
  BY NowIsNew DEF ApplyPush
<1>5. /\ \A r \in Row : Becomes(client.lines[r], p, r, admitted)
      /\ Admitted(p, admitted) \in SUBSET Row
      /\ Ask(Admitted(p, admitted), Now)
  BY <1>0, <1>2, <1>3, Applied DEF ApplyPush
<1>6. UNCHANGED <<screen, session, task>>
  BY DEF ApplyPush
<1>7. \A r \in Row : OnItsWay(r)' <=> OnItsWay(r)
  BY <1>6 DEF OnItsWay, Changed
<1>8. ASSUME NEW r \in Row, NEW i \in DOMAIN pushes, i > 1, Names(pushes[i], r)
      PROVE  i - 1 \in DOMAIN pushes' /\ Names(pushes'[i - 1], r)
  <2>1. i - 1 \in DOMAIN pushes'
    BY <1>1, <1>8
  <2>2. pushes'[i - 1] = pushes[(i - 1) + 1] /\ (i - 1) + 1 = i
    BY <1>1, <2>1
  <2> QED
    BY <1>8, <2>1, <2>2
<1>9. ASSUME NEW r \in Row, Pending(r), ~Names(p, r)
      PROVE  Pending(r)'
  <2>1. CASE OnItsWay(r)
    BY <1>7, <2>1 DEF Pending
  <2>2. CASE \E i \in DOMAIN pushes : Names(pushes[i], r)
    <3>1. PICK i \in DOMAIN pushes : Names(pushes[i], r)
      BY <2>2
    <3>2. i > 1
      BY <1>1, <1>3, <1>9, <3>1
    <3>3. i - 1 \in DOMAIN pushes' /\ Names(pushes'[i - 1], r)
      BY <1>8, <3>1, <3>2
    <3> QED
      BY <3>3 DEF Pending, Names
  <2> QED
    BY <1>9, <2>1, <2>2 DEF Pending
<1>10. ASSUME NEW j \in DOMAIN pushes'
       PROVE  PushFresh(j)'
  <2>1. j + 1 \in DOMAIN pushes /\ pushes'[j] = pushes[j + 1] /\ j \in Nat /\ j >= 1
    BY <1>1
  <2>2. ASSUME NEW r \in Row, pushes'[j].bonus[r] # 0
        PROVE  \/ pushes'[j].bonus[r] = screen.written[r]
               \/ OnItsWay(r)
               \/ \E k \in DOMAIN pushes' : k > j /\ Names(pushes'[k], r)
    <3>1. PushFresh(j + 1)
      BY <1>0, <2>1 DEF AllFresh
    <3>2. ASSUME NEW i \in DOMAIN pushes, i > j + 1, Names(pushes[i], r)
          PROVE  \E k \in DOMAIN pushes' : k > j /\ Names(pushes'[k], r)
      <4>1. i > 1 /\ i - 1 > j
        BY <1>1, <2>1, <3>2
      <4>2. i - 1 \in DOMAIN pushes' /\ Names(pushes'[i - 1], r)
        BY <1>8, <3>2, <4>1
      <4> QED
        BY <4>1, <4>2
    <3> QED
      BY <2>1, <2>2, <3>1, <3>2 DEF PushFresh
  <2> QED
    BY <1>6, <1>7, <2>2 DEF PushFresh, Names
<1>11. \A r \in Row : ~Names(p, r) <=> r \notin p.dirty /\ p.bonus[r] = 0
  BY DEF Names
<1>12. ASSUME NEW r \in Row
       PROVE  \/ client'.lines[r] = client.lines[r] /\ ~Names(p, r)
              \/ client'.lines[r].tag \in {NoTag, Now} /\ client'.lines[r].kind # "Line"
              \/ /\ client'.lines[r].tag = NoTag /\ p.bonus[r] # 0
                 /\ client'.lines[r].v = p.bonus[r]
  <2>1. Becomes(client.lines[r], p, r, admitted) /\ client.lines[r] \in Entry
    BY <1>0, <1>5, ClientTypes
  <2>2. /\ Fetched(client.lines[r], Now).tag = Now
        /\ Fetched(client.lines[r], Now).kind # "Line"
        /\ Throttled(client.lines[r]).tag = NoTag
        /\ Throttled(client.lines[r]).kind # "Line"
        /\ Absent.tag = NoTag /\ Absent.kind # "Line"
    BY <1>4, <2>1, FetchedEntry, ThrottledEntry DEF Absent
  <2>3. Line(p.bonus[r], p.bonus[r]).tag = NoTag /\ Line(p.bonus[r], p.bonus[r]).v = p.bonus[r]
    BY DEF Line
  <2>4. r \notin Dirty(p) /\ p.bonus[r] = 0 => ~Names(p, r)
    BY DEF Dirty, Names
  <2> QED
    BY <2>1, <2>2, <2>3, <2>4 DEF Becomes
<1>13. NothingLost'
  <2>1. ASSUME NEW r \in Row, client'.lines[r].kind = "Line"
        PROVE  client'.lines[r].v = screen.written[r] \/ Pending(r)'
    <3>1. CASE client'.lines[r] = client.lines[r] /\ ~Names(p, r)
      BY <1>0, <1>9, <2>1, <3>1 DEF AllFresh, NothingLost
    <3>2. CASE p.bonus[r] # 0 /\ client'.lines[r].v = p.bonus[r]
      <4>1. PushFresh(1)
        BY <1>0, <1>1 DEF AllFresh
      <4>2. \/ p.bonus[r] = screen.written[r]
            \/ OnItsWay(r)
            \/ \E i \in DOMAIN pushes : i > 1 /\ Names(pushes[i], r)
        BY <1>3, <3>2, <4>1 DEF PushFresh
      <4>3. (\E i \in DOMAIN pushes : i > 1 /\ Names(pushes[i], r)) => Pending(r)'
        BY <1>8 DEF Pending, Names
      <4> QED
        BY <1>7, <3>2, <4>2, <4>3 DEF Pending
    <3> QED
      BY <1>12, <2>1, <3>1, <3>2
  <2> QED
    BY <1>6, <2>1 DEF NothingLost
<1>14. PICK rows \in SUBSET Row : rows = Admitted(p, admitted)
  BY <1>5
<1>15. Ask(rows, Now)
  BY <1>5, <1>14 DEF Ask
<1>16. ASSUME NEW g \in fetches'
       PROVE  FetchFresh(g)'
  <2>1. g \in fetches \/ g.state = "asked"
    BY <1>0, <1>4, <1>15, AskFacts
  <2>2. CASE g \in fetches
    <3>1. FetchFresh(g) /\ g.tag # NoTag /\ g.tag # Now
      BY <1>0, <1>4, <2>2, FetchTypes, LineCacheAssumption DEF AllFresh, Unused
    <3>2. ASSUME NEW r \in Row, client'.lines[r].tag = g.tag
          PROVE  client'.lines[r] = client.lines[r] /\ ~Names(p, r)
      BY <1>12, <3>1, <3>2
    <3>3. ASSUME NEW r \in Row, NEW v, Fresh(v, r), ~Names(p, r)
          PROVE  v = screen'.written[r] \/ Pending(r)'
      BY <1>6, <1>9, <3>3 DEF Fresh
    <3> QED
      BY <3>1, <3>2, <3>3 DEF FetchFresh, Tagged, Fresh
  <2>3. CASE g.state = "asked"
    BY <2>3 DEF FetchFresh
  <2> QED
    BY <2>1, <2>2, <2>3
<1>17. TaskFresh'
  BY <1>0, <1>6 DEF AllFresh, TaskFresh
<1> QED
  BY <1>10, <1>13, <1>16, <1>17 DEF AllFresh

LEMMA StepTold == ASSUME Told, ~Images, [Next]_vars PROVE Told'
<1>0. Base /\ TypeOK /\ Base'
  BY StepBase DEF Told, Base
<1>1. UNCHANGED vars \/ Poll \/ PollReturns
        => UNCHANGED <<screen, session, task, pushes, fetches, client>>
  BY DEF vars, Poll, PollReturns
<1>2. PushNotified \/ PushPolled => AllFresh'
  BY BeginFresh DEF PushNotified, PushPolled
<1> QED
  BY <1>0, <1>1, <1>2, Steps, OutputFresh, ReadCursorFresh, ReadSeqnoFresh,
     ReadChangedFresh, ReadViewportFresh, SendPushFresh, ServeFetchFresh, FetchEndsFresh,
     ApplyPushFresh, PaintFresh, PollFresh, DropFresh DEF Told

\* While no row shows an image, the cache never takes an old text for the
\* pane's present one unless the change is still to reach the client, for any
\* number of rows, tags, pieces of output and lost connections.
THEOREM NeverLost == ~Images /\ Spec => []NothingLost
<1> SUFFICES ASSUME ~Images PROVE Spec => []NothingLost
  OBVIOUS
<1>1. Init => Told
  <2>1. Init => AllFresh
    BY DEF Init, AllFresh, TaskFresh, NothingLost, Idle, Absent
  <2> QED
    BY <2>1, InitBase DEF Told
<1>2. Told /\ [Next]_vars => Told'
  BY StepTold
<1>3. Told => NothingLost
  BY DEF Told, AllFresh
<1> QED
  BY <1>1, <1>2, <1>3, PTL DEF Spec
=============================================================================
