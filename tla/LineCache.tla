----------------------------- MODULE LineCache -----------------------------
(***************************************************************************)
(* The rows of a remote pane kept by a client:                             *)
(* wezterm-client/src/pane/renderable.rs and clientpane.rs, against the    *)
(* session that feeds them, wezterm-mux-server-impl/src/sessionhandler.rs. *)
(*                                                                         *)
(* The pane's program writes rows while the session works out, in several  *)
(* readings of the pane, what changed since its last push.  A push carries *)
(* the changed rows of the viewport and the cursor's row, and the names of *)
(* the other changed rows.  The client keeps what it is given, forgets or  *)
(* fetches what was only named, and fetches what it paints and lacks; a    *)
(* fetch's answer counts only for rows that still carry the fetch's tag,   *)
(* for nothing orders the answers with the pushes.  The connection may be  *)
(* lost and made again, with a session that knows nothing of the client.   *)
(*                                                                         *)
(* A row's text stands as the seqno at which it was written, 0 for none.   *)
(* The pane lives throughout, keeps its size and palette, and gets no      *)
(* input.                                                                  *)
(***************************************************************************)
EXTENDS Integers, SequencesExt

CONSTANTS
  MaxRow,    \* bound: rows the pane ever has
  Height,    \* viewport_rows
  Tag,       \* the Instants that tell fetches apart; bounds those under way
  NoTag,     \* no fetch
  Images,    \* whether rows show images the client has to ask for
  MaxSeqno,  \* bound: pieces of output
  MaxDrops   \* bound: connections lost

ASSUME LineCacheAssumption ==
  /\ Height \in Nat \ {0}
  /\ MaxRow \in Nat
  /\ Height <= MaxRow
  /\ NoTag \notin Tag
  /\ Images \in BOOLEAN
  /\ MaxSeqno \in Nat \ {0}
  /\ MaxDrops \in Nat

VARIABLES
  screen,   \* the pane: [top, cursor, seqno, written], 0 for rows to come
  session,  \* PerPane: [top, cursor, seqno] of what was last sent
  told,     \* whether PaneOutput was notified and its push is not begun
  task,     \* compute_changes on the server's main thread
  pushes,   \* the GetPaneRenderChangesResponses not applied yet
  fetches,  \* the GetLines under way, with their answers
  poll,     \* poll_in_progress: "idle", "asked", "answered" or "failed"
  client,   \* RenderableInner: [top, cursor, seqno, lines]
  drops     \* connections lost so far

vars == <<screen, session, told, task, pushes, fetches, poll, client, drops>>

Row == 1..MaxRow
Rows(top) == top..(top + Height - 1)

NewSession == [top |-> 0, cursor |-> 0, seqno |-> 0]

\* No compute_changes, with nothing read
Idle == [at |-> "idle", polled |-> FALSE, top |-> 0, cursor |-> 0, since |-> 0,
         changed |-> {}, bonus |-> [r \in Row |-> 0]]

\* LineEntry, and a row the cache has no entry for.  seq is the seqno the line
\* is marked with, which may be later than v.
Absent == [kind |-> "none", v |-> 0, seq |-> 0, tag |-> NoTag]
Line(v, seq) == [kind |-> "Line", v |-> v, seq |-> seq, tag |-> NoTag]
Stale(e) == [e EXCEPT !.kind = "Stale", !.tag = NoTag]
Fetching(t) == [Absent EXCEPT !.kind = "Fetching", !.tag = t]
LineAndFetching(e, t) == [e EXCEPT !.kind = "LineAndFetching", !.tag = t]

HasLine(e) == e.kind \in {"Line", "Stale", "LineAndFetching"}

Init ==
  /\ screen = [top |-> 1, cursor |-> 1, seqno |-> 1,
               written |-> [r \in Row |-> IF r <= Height THEN 1 ELSE 0]]
  /\ session = NewSession
  /\ told = FALSE
  /\ task = Idle
  /\ pushes = <<>>
  /\ fetches = {}
  /\ poll = "idle"
  /\ client = [top |-> 1, cursor |-> 1, seqno |-> 0, lines |-> [r \in Row |-> Absent]]
  /\ drops = 0

-----------------------------------------------------------------------------
(* The pane's program, on the thread that parses its output.               *)

\* A piece of output: a row is written, perhaps after a scroll, and the cursor
\* is left anywhere on the screen.
Output ==
  /\ screen.seqno < MaxSeqno
  /\ \E top \in {screen.top, screen.top + 1}, row, cursor \in Row :
       /\ top + Height - 1 <= MaxRow
       /\ {row, cursor} \subseteq Rows(top)
       /\ top # screen.top => row = top + Height - 1
       /\ screen' = [top |-> top, cursor |-> cursor, seqno |-> screen.seqno + 1,
                     written |-> [screen.written EXCEPT ![row] = screen.seqno + 1]]
  /\ told' = TRUE
  /\ UNCHANGED <<session, task, pushes, fetches, poll, client, drops>>

-----------------------------------------------------------------------------
(* The session.  compute_changes reads the pane one lock at a time, while  *)
(* the program goes on writing.                                            *)

\* The main thread takes up a push; the pane's dimensions are read.
Begin(polled) ==
  /\ task.at = "idle"
  /\ task' = [Idle EXCEPT !.at = "cursor", !.polled = polled, !.top = screen.top]
  /\ UNCHANGED <<screen, session, pushes, fetches, poll, client, drops>>

PushNotified == told /\ told' = FALSE /\ Begin(FALSE)
PushPolled == poll = "asked" /\ UNCHANGED told /\ Begin(TRUE)

ReadCursor ==
  /\ task.at = "cursor"
  /\ task' = [task EXCEPT !.at = "seqno", !.cursor = screen.cursor]
  /\ UNCHANGED <<screen, session, told, pushes, fetches, poll, client, drops>>

\* The session's seqno is replaced before the rows are looked at.
ReadSeqno ==
  /\ task.at = "seqno"
  /\ task' = [task EXCEPT !.at = "changed", !.since = session.seqno]
  /\ session' = [session EXCEPT !.seqno = screen.seqno]
  /\ UNCHANGED <<screen, told, pushes, fetches, poll, client, drops>>

\* get_changed_since, of the rows down to the end of the viewport
Changed == {r \in Row : r < task.top + Height /\ screen.written[r] > task.since}

\* The task is over, and answers the poll that began it.
End ==
  /\ task' = Idle
  /\ poll' = IF task.polled THEN "answered" ELSE poll

ReadChanged ==
  /\ task.at = "changed"
  /\ IF Changed = {} /\ task.top = session.top /\ task.cursor = session.cursor
     THEN End
     ELSE /\ task' = [task EXCEPT !.at = "viewport", !.changed = Changed]
          /\ UNCHANGED poll
  /\ UNCHANGED <<screen, session, told, pushes, fetches, client, drops>>

ReadViewport ==
  /\ task.at = "viewport"
  /\ task' = [task EXCEPT !.at = "row", !.bonus = [r \in Row |->
                IF r \in task.changed \cap Rows(task.top) THEN screen.written[r] ELSE 0]]
  /\ UNCHANGED <<screen, session, told, pushes, fetches, poll, client, drops>>

\* The cursor's row is always sent, and read last.
SendPush ==
  /\ task.at = "row"
  /\ pushes' = Append(pushes,
       [top |-> task.top, cursor |-> task.cursor, seqno |-> session.seqno,
        bonus |-> [task.bonus EXCEPT ![task.cursor] = screen.written[task.cursor]],
        dirty |-> task.changed \ Rows(task.top)])
  /\ session' = [session EXCEPT !.top = task.top, !.cursor = task.cursor]
  /\ End
  /\ UNCHANGED <<screen, told, fetches, client, drops>>

\* GetLines, between pushes
ServeFetch(f) ==
  /\ task.at = "idle"
  /\ f.state = "asked"
  /\ fetches' = (fetches \ {f}) \cup
       {[f EXCEPT !.state = "answered",
                  !.lines = [r \in Row |-> IF r \in f.rows THEN screen.written[r] ELSE 0]]}
  /\ UNCHANGED <<screen, session, told, task, pushes, poll, client, drops>>

-----------------------------------------------------------------------------
(* The client.                                                             *)

\* Instant::now() at the start of a fetch: no fetch or row has it.
Unused(t) == (\A f \in fetches : f.tag # t) /\ (\A r \in Row : client.lines[r].tag # t)
Now == CHOOSE t \in Tag : Unused(t)

\* schedule_fetch_lines
Ask(rows, t) ==
  fetches' = IF rows = {} THEN fetches
             ELSE fetches \cup {[tag |-> t, rows |-> rows, state |-> "asked",
                                 lines |-> [r \in Row |-> 0]]}

\* The rows a push leaves to be fetched: the cursor's rows, old and new, count
\* as dirty when the cursor moved.
Dirty(p) ==
  LET moved == IF p.cursor # client.cursor THEN {p.cursor, client.cursor} ELSE {}
  IN {r \in p.dirty \cup moved : p.bonus[r] = 0}

\* What becomes of a dirty row that the push leaves in the viewport, when its
\* fetch is admitted, and when it is not and make_stale is called
FetchedAnyhow(e, t) == LineAndFetching(e, t)  \* mutant: no entry taken for a line
Fetched(e, t) == IF HasLine(e) THEN LineAndFetching(e, t) ELSE Fetching(t)
ThrottledTagged(e) == LineAndFetching(e, Now)  \* mutant: make_stale forgotten
Throttled(e) == IF HasLine(e) THEN Stale(e) ELSE Absent

\* apply_changes_to_surface.  The rate limiter admits the fetch, or not.
Apply(p, t, admitted) ==
  LET wanted == {r \in Dirty(p) : r >= p.top}
      entry(r) == IF p.bonus[r] # 0 THEN Line(p.bonus[r], p.bonus[r])
                  ELSE IF r \in wanted THEN IF admitted THEN Fetched(client.lines[r], t)
                                            ELSE Throttled(client.lines[r])
                  ELSE IF r \in Dirty(p) THEN Absent
                  ELSE client.lines[r]
  IN /\ client' = [top |-> p.top, cursor |-> p.cursor, seqno |-> p.seqno,
                   lines |-> [r \in Row |-> entry(r)]]
     /\ Ask(IF admitted THEN wanted ELSE {}, t)

\* Pushes are applied in the order sent, unless one waits for its images:
\* hydrate_lines asks for them first.
ApplyPush ==
  /\ \E t \in Tag : Unused(t)
  /\ \E i \in DOMAIN pushes, admitted \in BOOLEAN :
       /\ i = 1 \/ Images
       /\ pushes' = RemoveAt(pushes, i)
       /\ Apply(pushes[i], Now, admitted)
  /\ UNCHANGED <<screen, session, told, task, poll, drops>>

\* RenderableState::get_lines, for the rows shown from this one on.  A line
\* marked later than the client's seqno is made stale, and fetched in vain.
Newer(r) == client.lines[r].kind = "Line" /\ client.lines[r].seq > client.seqno

Paint(first) ==
  LET wanted == {r \in Rows(first) : Newer(r) \/ client.lines[r].kind \in {"none", "Stale"}}
  IN /\ wanted # {}
     /\ \E t \in Tag : Unused(t)
     /\ client' = [client EXCEPT !.lines = [r \in Row |->
          IF r \notin wanted THEN client.lines[r]
          ELSE IF Newer(r) THEN Stale(client.lines[r]) ELSE Fetched(client.lines[r], Now)]]
     /\ Ask(wanted, Now)
     /\ UNCHANGED <<screen, session, told, task, pushes, poll, drops>>

TaggedAnyhow(r, f) == r \in f.rows  \* mutant: the tag is not compared
Tagged(r, f) == r \in f.rows /\ client.lines[r].tag = f.tag

\* apply_lines and put_line: only rows still tagged by this fetch are replaced.
FetchReturns(f) ==
  /\ f.state = "answered"
  /\ fetches' = fetches \ {f}
  /\ client' = [client EXCEPT !.lines = [r \in Row |->
       IF Tagged(r, f)
       THEN Line(f.lines[r], IF f.lines[r] > client.seqno THEN f.lines[r] ELSE client.seqno)
       ELSE client.lines[r]]]
  /\ UNCHANGED <<screen, session, told, task, pushes, poll, drops>>

\* apply_lines after an error: a line being replaced counts as fresh again.
FetchFails(f) ==
  /\ f.state = "failed"
  /\ fetches' = fetches \ {f}
  /\ client' = [client EXCEPT !.lines = [r \in Row |->
       IF ~Tagged(r, f) THEN client.lines[r]
       ELSE IF HasLine(client.lines[r]) THEN Line(client.lines[r].v, client.lines[r].seq)
       ELSE Absent]]
  /\ UNCHANGED <<screen, session, told, task, pushes, poll, drops>>

\* get_changed_since polls, one poll at a time.
Poll ==
  /\ poll = "idle"
  /\ poll' = "asked"
  /\ UNCHANGED <<screen, session, told, task, pushes, fetches, client, drops>>

\* The poll's task ends, after an answer or an error, and resets the flag.
\* Mutant: an error ends the task before that.
PollReturnsOnce ==
  /\ poll = "answered"
  /\ poll' = "idle"
  /\ UNCHANGED <<screen, session, told, task, pushes, fetches, client, drops>>

PollReturns ==
  /\ poll \in {"answered", "failed"}
  /\ poll' = "idle"
  /\ UNCHANGED <<screen, session, told, task, pushes, fetches, client, drops>>

-----------------------------------------------------------------------------
(* The connection is lost and made again.  What the client had received,   *)
(* and what its thread had not taken up, survives; the calls in between    *)
(* fail, and the session is a new one.                                     *)

Fail(F) == {[f EXCEPT !.state = "failed"] : f \in F}

Drop ==
  /\ drops < MaxDrops
  /\ drops' = drops + 1
  /\ session' = NewSession
  /\ told' = FALSE
  /\ task' = Idle
  /\ \E n \in 0..Len(pushes) : pushes' = SubSeq(pushes, 1, n)
  /\ \E lost \in SUBSET fetches : fetches' = (fetches \ lost) \cup Fail(lost)
  /\ poll' \in IF task.polled THEN {"failed"}
               ELSE IF poll = "asked" THEN {"asked", "failed"} ELSE {poll}
  /\ UNCHANGED <<screen, client>>

-----------------------------------------------------------------------------

Compute == ReadCursor \/ ReadSeqno \/ ReadChanged \/ ReadViewport \/ SendPush
ServeTag(t) == \E f \in fetches : f.tag = t /\ ServeFetch(f)
EndTag(t) == \E f \in fetches : f.tag = t /\ (FetchReturns(f) \/ FetchFails(f))
Serve == \E t \in Tag : ServeTag(t)
FetchEnds == \E t \in Tag : EndTag(t)
PaintScrolledBack == \E first \in 1..(client.top - 1) : Paint(first)

Server == PushNotified \/ PushPolled \/ Compute \/ Serve
Client == ApplyPush \/ FetchEnds \/ Paint(client.top) \/ PaintScrolledBack \/ Poll \/ PollReturns

Next == Output \/ Server \/ Client \/ Drop

Spec == Init /\ [][Next]_vars

\* Both main threads run what is queued for them in turn, the client polls, and
\* it paints the viewport when told of output or of a fetch's end.
FairSpec ==
  /\ Spec
  /\ SF_vars(PushPolled) /\ WF_vars(Compute)
  /\ SF_vars(ApplyPush) /\ SF_vars(Paint(client.top)) /\ WF_vars(Poll \/ PollReturns)
  /\ \A t \in Tag : SF_vars(ServeTag(t)) /\ WF_vars(EndTag(t))

-----------------------------------------------------------------------------
(* Properties.                                                             *)

Entry ==
  [kind : {"none"}, v : {0}, seq : {0}, tag : {NoTag}] \cup
  [kind : {"Line", "Stale"}, v : 1..MaxSeqno, seq : 1..MaxSeqno, tag : {NoTag}] \cup
  [kind : {"Fetching"}, v : {0}, seq : {0}, tag : Tag] \cup
  [kind : {"LineAndFetching"}, v : 1..MaxSeqno, seq : 1..MaxSeqno, tag : Tag]

Push == [top : Row, cursor : Row, seqno : 1..MaxSeqno,
         bonus : [Row -> 0..MaxSeqno], dirty : SUBSET Row]

Fetch == [tag : Tag, rows : SUBSET Row, state : {"asked", "answered", "failed"},
          lines : [Row -> 0..MaxSeqno]]

Screen == [top : Row, cursor : Row, seqno : 1..MaxSeqno, written : [Row -> 0..MaxSeqno]]

Session == [top : 0..MaxRow, cursor : 0..MaxRow, seqno : 0..MaxSeqno]

Task == [at : {"idle", "cursor", "seqno", "changed", "viewport", "row"},
         polled : BOOLEAN, top : 0..MaxRow, cursor : 0..MaxRow,
         since : 0..MaxSeqno, changed : SUBSET Row, bonus : [Row -> 0..MaxSeqno]]

Surface == [top : Row, cursor : Row, seqno : 0..MaxSeqno, lines : [Row -> Entry]]

\* The types: a row is tagged exactly while it is being fetched, and no row
\* that does not exist is ever pushed, fetched or cached.
TypeOK ==
  /\ screen \in Screen
  /\ session \in Session
  /\ told \in BOOLEAN
  /\ task \in Task
  /\ pushes \in Seq(Push)
  /\ fetches \subseteq Fetch
  /\ poll \in {"idle", "asked", "answered", "failed"}
  /\ client \in Surface
  /\ drops \in 0..MaxDrops

\* The session will find the row changed, or has found it changed.
OnItsWay(r) ==
  \/ screen.written[r] > session.seqno
  \/ task.at = "changed" /\ r \in Changed
  \/ task.at \in {"viewport", "row"} /\ r \in task.changed

\* The row's present text is still to be told to the client, by the session or
\* by a push under way.
Names(p, r) == r \in p.dirty \/ p.bonus[r] # 0
Pending(r) == OnItsWay(r) \/ \E i \in DOMAIN pushes : Names(pushes[i], r)

\* LineEntry::Line is "Up to date wrt. server": a row the cache takes for fresh
\* has the pane's present text, or the change is on its way, although output
\* goes on while compute_changes reads the pane, fetches answer late, fail or
\* overtake pushes, and sessions are lost.
NothingLost ==
  \A r \in Row : client.lines[r].kind = "Line" =>
    client.lines[r].v = screen.written[r] \/ Pending(r)

\* A row painted blank or old because it is being fetched has its fetch under
\* way, in spite of throttled, failed and superseded fetches: no row waits for
\* an answer that nobody will give it.
NeverWaitsInVain ==
  \A r \in Row : client.lines[r].tag # NoTag => \E f \in fetches : Tagged(r, f)

\* However often rows are dirtied, throttled, or fetched in vain, and although
\* the session of a new connection says nothing until it is polled, the whole
\* viewport comes to be cached as the server has it.
EventuallyShown ==
  []<>(/\ client.top = screen.top
       /\ \A r \in Rows(screen.top) :
            client.lines[r].kind = "Line" /\ client.lines[r].v = screen.written[r])
=============================================================================
