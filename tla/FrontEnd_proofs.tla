--------------------------- MODULE FrontEnd_proofs ---------------------------
(***************************************************************************)
(* Proofs about FrontEnd, for any number of windows, GUI windows and       *)
(* workspaces: type correctness, a switch that is announced is coming,     *)
(* and what the GUI windows show while the front end is at rest.           *)
(*                                                                         *)
(* The inductive invariant, Steady, has four parts:                        *)
(*                                                                         *)
(*   SwitchesKept  SwitchPending, and a task that spawns a window for a    *)
(*                 switch knows the name to switch to. No task posted      *)
(*                 takes a switch from the queue, and the one at its head  *)
(*                 is only taken by the action that makes that switch      *)
(*                 (Grows).                                                *)
(*   Typed         TypeOK, what each kind of task holds, and the counts    *)
(*                 of panes: right unless set_workspace has moved a        *)
(*                 window.                                                 *)
(*   Agree         what a GUI window shows is what known_windows says,     *)
(*                 once it has been told all that is on its way to it:     *)
(*                 the last of the orders in the queue decides.            *)
(*   Rested        unless a reconcile is coming (Due), each GUI window is  *)
(*                 to show a window of the active workspace, and no two    *)
(*                 the same (Settled), each window of that workspace is    *)
(*                 shown, claimed or about to be (Covered), and the        *)
(*                 workspace is not the empty one of two (Inhabited).      *)
(*                                                                         *)
(* At rest nothing is on its way: Agree and Rested then speak of what is   *)
(* shown, which is OthersHidden, ActiveShown and NotLeftEmpty.             *)
(***************************************************************************)
EXTENDS FrontEnd, SequenceLemmas, FiniteSetTheorems

\* A task that spawns a window for a switch knows where to switch to
Aimed(q) == \A k \in DOMAIN q : q[k].type = "spawn" => q[k].to # None

\* A switch waits in the queue, or for its spawn
Waits(q) == \E k \in DOMAIN q : q[k].type \in {"spawn", "switch"}
Spawns(S) == \E s \in S : s.to # None

\* The queue p may become q: no switch is lost
Grows(p, q) == Queued(q) /\ Aimed(q) /\ (Waits(p) => Waits(q))

\* The inductive invariant of switches
SwitchesKept == Queued(tasks) /\ Aimed(tasks) /\ SwitchPending

-----------------------------------------------------------------------------
(* Queues.                                                                 *)

\* Posting tasks that spawn for a known switch, or do not spawn
LEMMA PostedGrows ==
  ASSUME NEW p, NEW q, Queued(p), Aimed(p), Queued(q), Aimed(q)
  PROVE  Grows(p, p \o q)
  <1> USE Joined
  <1>1. Queued(p \o q) OBVIOUS
  <1>2. Aimed(p \o q) BY DEF Aimed
  <1>3. Waits(p) => Waits(p \o q) BY DEF Waits
  <1> QED BY <1>1, <1>2, <1>3 DEF Grows

LEMMA OneQueued ==
  ASSUME NEW t
  PROVE  /\ Queued(<<t>>)
         /\ (t.type = "spawn" => t.to # None) => Aimed(<<t>>)
  <1>1. <<t>> \in Seq({t}) /\ DOMAIN <<t>> = 1..1 /\ <<t>>[1] = t
    OBVIOUS
  <1>2. Queued(<<t>>) BY <1>1, SeqIsQueued
  <1>3. (t.type = "spawn" => t.to # None) => Aimed(<<t>>) BY <1>1 DEF Aimed
  <1> QED BY <1>2, <1>3

LEMMA Appended ==
  ASSUME NEW q, NEW t, Queued(q), Aimed(q), t.type = "spawn" => t.to # None
  PROVE  /\ Grows(q, Append(q, t))
         /\ t.type \in {"spawn", "switch"} => Waits(Append(q, t))
  <1> DEFINE S == {q[k] : k \in DOMAIN q} \cup {t}
  <1>1. q \in Seq({q[k] : k \in DOMAIN q}) /\ Len(q) \in Nat /\ DOMAIN q = 1..Len(q)
    BY QueuedIsSeq
  <1>2. q \in Seq(S) /\ t \in S
    BY <1>1, SeqDef
  <1>3. /\ Append(q, t) \in Seq(S)
        /\ Len(Append(q, t)) = Len(q) + 1
        /\ \A i \in 1..Len(q) : Append(q, t)[i] = q[i]
        /\ Append(q, t)[Len(q) + 1] = t
    BY <1>2, AppendProperties
  <1>4. Queued(Append(q, t)) BY <1>3, SeqIsQueued
  <1>5. DOMAIN Append(q, t) = 1..(Len(q) + 1) BY <1>3, <1>4, QueuedIsSeq
  <1> HIDE DEF S
  <1>6. Aimed(Append(q, t))
    <2> SUFFICES ASSUME NEW k \in 1..(Len(q) + 1)
                 PROVE  Append(q, t)[k].type = "spawn" => Append(q, t)[k].to # None
      BY <1>5 DEF Aimed
    <2>1. CASE k = Len(q) + 1 BY <2>1, <1>3
    <2>2. CASE k \in 1..Len(q) BY <2>2, <1>1, <1>3 DEF Aimed
    <2> QED BY <2>1, <2>2, <1>1
  <1>7. Waits(q) => Waits(Append(q, t)) BY <1>1, <1>3, <1>5 DEF Waits
  <1>8. t.type \in {"spawn", "switch"} => Waits(Append(q, t))
    BY <1>1, <1>3, <1>5 DEF Waits
  <1> QED BY <1>4, <1>6, <1>7, <1>8 DEF Grows

LEMMA NotifiedGrows ==
  ASSUME NEW q, Queued(q), Aimed(q)
  PROVE  Grows(q, Notified(q))
  <1>1. Reconcile.type = "reconcile" BY DEF Reconcile
  <1>2. Grows(q, Append(q, Reconcile)) BY <1>1, Appended
  <1> QED BY <1>2 DEF Notified, Grows

\* The task at the head is no switch unless it is taken for one.
LEMMA TailGrows ==
  ASSUME NEW q, Queued(q), Aimed(q), q # <<>>
  PROVE  /\ Queued(Tail(q)) /\ Aimed(Tail(q))
         /\ Head(q).type = "spawn" => Head(q).to # None
         /\ Head(q).type \notin {"spawn", "switch"} => Grows(q, Tail(q))
  <1> DEFINE S == {q[k] : k \in DOMAIN q}
  <1>1. q \in Seq(S) /\ Len(q) \in Nat /\ DOMAIN q = 1..Len(q)
    BY QueuedIsSeq
  <1>2. /\ Tail(q) \in Seq(S)
        /\ Len(Tail(q)) = Len(q) - 1
        /\ \A i \in 1..Len(Tail(q)) : Tail(q)[i] = q[i + 1]
    BY <1>1, HeadTailProperties
  <1>3. Head(q) = q[1] /\ 1 \in DOMAIN q
    BY <1>1
  <1>4. Queued(Tail(q)) BY <1>2, SeqIsQueued
  <1>5. DOMAIN Tail(q) = 1..(Len(q) - 1) BY <1>2, <1>4, QueuedIsSeq
  <1> HIDE DEF S
  <1>6. Aimed(Tail(q))
    <2> SUFFICES ASSUME NEW k \in 1..(Len(q) - 1)
                 PROVE  Tail(q)[k].type = "spawn" => Tail(q)[k].to # None
      BY <1>5 DEF Aimed
    <2>1. k + 1 \in DOMAIN q /\ Tail(q)[k] = q[k + 1] BY <1>1, <1>2
    <2> QED BY <2>1 DEF Aimed
  <1>7. Head(q).type = "spawn" => Head(q).to # None BY <1>3 DEF Aimed
  <1>8. ASSUME Head(q).type \notin {"spawn", "switch"}, Waits(q) PROVE Waits(Tail(q))
    <2>1. PICK k \in DOMAIN q : q[k].type \in {"spawn", "switch"} BY <1>8 DEF Waits
    <2>2. k \in 2..Len(q) BY <2>1, <1>1, <1>3, <1>8
    <2>3. k - 1 \in DOMAIN Tail(q) /\ Tail(q)[k - 1] = q[k]
      BY <2>2, <1>1, <1>2, <1>5
    <2> QED BY <2>1, <2>3 DEF Waits
  <1> QED BY <1>4, <1>6, <1>7, <1>8 DEF Grows

LEMMA GrowsOn ==
  ASSUME NEW p, NEW q, NEW r, Grows(p, q), Grows(q, r)
  PROVE  Grows(p, r)
  BY DEF Grows

-----------------------------------------------------------------------------
(* Reconciling.                                                            *)

LEMMA OrdersQueued ==
  ASSUME NEW kn, NEW new
  PROVE  Queued(Orders(kn, new)) /\ Aimed(Orders(kn, new))
  <1> DEFINE C == {i \in GuiWindow : kn[i] # new[i]}
             changed == Sorted(C)
             told == Orders(kn, new)
  <1>1. IsFiniteSet(GuiWindow)
    <2>1. 1 \in Int /\ MaxGuiWindows \in Int BY BoundsAssumption
    <2> QED BY <2>1, FS_Interval DEF GuiWindow
  <1>2. Cardinality(C) \in Nat
    BY <1>1, FS_Subset, FS_CardinalityType
  <1>3. DOMAIN changed = 1..Cardinality(C) BY DEF Sorted
  <1>4. told = [k \in DOMAIN changed |-> IF new[changed[k]] = None THEN Close(changed[k])
                                         ELSE Show(changed[k], new[changed[k]])]
    BY DEF Orders
  <1> HIDE DEF told, changed, C
  <1>5. DOMAIN told = 1..Cardinality(C) /\ told = [k \in DOMAIN told |-> told[k]]
    BY <1>3, <1>4
  <1>6. Queued(told) BY <1>2, <1>5 DEF Queued
  <1>7. \A k \in DOMAIN told : told[k].type \in {"close", "show"}
    <2> SUFFICES ASSUME NEW k \in DOMAIN told PROVE told[k].type \in {"close", "show"}
      OBVIOUS
    <2>1. told[k] = Close(changed[k]) \/ told[k] = Show(changed[k], new[changed[k]])
      BY <1>3, <1>4, <1>5
    <2> QED BY <2>1 DEF Close, Show
  <1>8. Aimed(told) BY <1>7 DEF Aimed
  <1> QED BY <1>6, <1>8 DEF told

LEMMA ReconcileGrows ==
  ASSUME NEW name, NEW kn, NEW queue, Queued(queue), Aimed(queue),
         ReconcileWorkspace(name, kn, queue)
  PROVE  Grows(queue, tasks')
  <1> DEFINE told == Orders(kn, known')
             rest == <<Open(Sorted(InWorkspace(mux', active') \ Range(known')))>>
  <1>1. PICK q : q = IF active' # name THEN Notified(queue) ELSE queue OBVIOUS
  <1>2. tasks' = q \o told \o rest BY <1>1 DEF ReconcileWorkspace
  <1>3. Grows(queue, q) BY <1>1, NotifiedGrows DEF Grows
  <1>4. Queued(told) /\ Aimed(told) BY OrdersQueued
  <1>5. Queued(rest) /\ Aimed(rest)
    <2>1. \A ws : Open(ws).type = "open" BY DEF Open
    <2> QED BY <2>1, OneQueued
  <1> HIDE DEF told, rest
  <1>6. Grows(q, q \o told) BY <1>3, <1>4, PostedGrows DEF Grows
  <1>7. Grows(q \o told, q \o told \o rest) BY <1>5, <1>6, PostedGrows DEF Grows
  <1> QED BY <1>2, <1>3, <1>6, <1>7 DEF Grows

LEMMA UnlessSwitchingGrows ==
  ASSUME NEW kn, NEW queue, Queued(queue), Aimed(queue), UnlessSwitching(kn, queue)
  PROVE  Grows(queue, tasks')
  <1>1. CASE switching BY <1>1 DEF UnlessSwitching, Grows
  <1>2. CASE ~switching
    <2>1. ReconcileWorkspace(active, kn, queue) BY <1>2 DEF UnlessSwitching
    <2> QED BY <2>1, ReconcileGrows
  <1> QED BY <1>1, <1>2

\* A switch that is made leaves none to be waited for.
LEMMA SwitchDone ==
  ASSUME NEW name, NEW queue, Queued(queue), Aimed(queue), SwitchWorkspace(name, queue)
  PROVE  SwitchesKept'
  <1>1. PICK q : q = Notified(queue) OBVIOUS
  <1>2. Queued(q) /\ Aimed(q) BY <1>1, NotifiedGrows DEF Grows
  <1>3. ReconcileWorkspace(name, known, q) /\ ~switching' BY <1>1 DEF SwitchWorkspace
  <1>4. Grows(q, tasks') BY <1>2, <1>3, ReconcileGrows
  <1> QED BY <1>3, <1>4 DEF SwitchesKept, SwitchPending, Grows

\* Neither a switch nor a spawn it waits for is lost while the flag stays.
LEMMA StillPending ==
  ASSUME SwitchesKept, Grows(tasks, tasks'), switching' => switching,
         Spawns(starting) => Spawns(starting')
  PROVE  SwitchesKept'
  <1>1. switching => Waits(tasks) \/ Spawns(starting)
    BY DEF SwitchesKept, SwitchPending, Waits, Spawns
  <1>2. switching' => Waits(tasks') \/ Spawns(starting')
    BY <1>1 DEF Grows
  <1>3. SwitchPending' BY <1>2 DEF SwitchPending, Waits, Spawns
  <1> QED BY <1>3 DEF SwitchesKept, Grows

-----------------------------------------------------------------------------
(* The initial state and the steps.                                        *)

LEMMA NoneWaitsAtFirst == Init => SwitchesKept
  <1> SUFFICES ASSUME Init PROVE SwitchesKept
    OBVIOUS
  <1>1. tasks = <<Reconcile>> /\ ~switching BY DEF Init
  <1>2. Queued(tasks) /\ Aimed(tasks) BY <1>1, OneQueued DEF Reconcile
  <1> QED BY <1>1, <1>2 DEF SwitchesKept, SwitchPending

\* What the task at the head leaves, if it is no switch
LEMMA Taken ==
  ASSUME SwitchesKept, NEW type, NextIs(type), type \notin {"spawn", "switch"}
  PROVE  Grows(tasks, Tail(tasks))
  <1>1. tasks # <<>> /\ Head(tasks).type = type BY DEF NextIs
  <1> QED BY <1>1, TailGrows DEF SwitchesKept

LEMMA TaskKeeps == ASSUME SwitchesKept, RunTask PROVE SwitchesKept'
  <1> USE DEF SwitchesKept
  <1>1. CASE RunReconcile
    <2>1. NextIs("reconcile") /\ switching' = switching /\ starting' = starting
          /\ UnlessSwitching(known, Tail(tasks))
      BY <1>1 DEF RunReconcile
    <2>2. Grows(tasks, Tail(tasks)) BY <2>1, Taken
    <2>3. Grows(Tail(tasks), tasks') BY <2>1, <2>2, UnlessSwitchingGrows DEF Grows
    <2>4. Grows(tasks, tasks') BY <2>2, <2>3, GrowsOn
    <2> QED BY <2>1, <2>4, StillPending
  <1>2. CASE RunShow
    <2>1. NextIs("show") /\ switching' = switching /\ starting' = starting
          /\ tasks' = Tail(tasks)
      BY <1>2 DEF RunShow
    <2>2. Grows(tasks, tasks') BY <2>1, Taken
    <2> QED BY <2>1, <2>2, StillPending
  <1>3. CASE RunClose
    <2> DEFINE kn == [known EXCEPT ![Head(tasks).on] = None]
    <2>1. /\ NextIs("close") /\ switching' = switching /\ starting' = starting
          /\ tasks' = Tail(tasks) \/ UnlessSwitching(kn, Tail(tasks))
      BY <1>3 DEF RunClose
    <2>2. Grows(tasks, Tail(tasks)) BY <2>1, Taken
    <2> HIDE DEF kn
    <2>3. Grows(tasks, tasks')
      <3>1. CASE tasks' = Tail(tasks) BY <2>2, <3>1
      <3>2. CASE UnlessSwitching(kn, Tail(tasks))
        <4>1. Grows(Tail(tasks), tasks')
          BY <2>2, <3>2, UnlessSwitchingGrows DEF Grows
        <4> QED BY <2>2, <4>1, GrowsOn
      <3> QED BY <2>1, <3>1, <3>2
    <2> QED BY <2>1, <2>3, StillPending
  <1>4. CASE RunOpen
    <2>1. NextIs("open") /\ starting' = starting /\ tasks' = Tail(tasks)
      BY <1>4 DEF RunOpen
    <2>2. switching' => switching BY <1>4 DEF RunOpen, GoOn
    <2>3. Grows(tasks, tasks') BY <2>1, Taken
    <2> QED BY <2>1, <2>2, <2>3, StillPending
  <1>5. CASE RunSpawn
    <2>1. tasks # <<>> /\ Head(tasks).type = "spawn" BY <1>5 DEF RunSpawn, NextIs
    <2>2. Queued(Tail(tasks)) /\ Aimed(Tail(tasks)) /\ Head(tasks).to # None
      BY <2>1, TailGrows
    <2>3. CASE mux.made < MaxWindows
      <3>1. /\ starting' = starting \cup {[window |-> mux.made + 1, to |-> Head(tasks).to]}
            /\ tasks' = Tail(tasks)
        BY <1>5, <2>3 DEF RunSpawn
      <3>2. PICK s : s = [window |-> mux.made + 1, to |-> Head(tasks).to] OBVIOUS
      <3>3. s \in starting' /\ s.to # None BY <3>1, <3>2, <2>2
      <3>4. Spawns(starting)' BY <3>3 DEF Spawns
      <3> QED BY <2>2, <3>1, <3>4 DEF SwitchPending, Spawns
    <2>4. CASE ~(mux.made < MaxWindows)
      <3>1. SwitchWorkspace(Head(tasks).to, Tail(tasks)) BY <1>5, <2>4 DEF RunSpawn
      <3> QED BY <2>2, <3>1, SwitchDone DEF SwitchesKept
    <2> QED BY <2>3, <2>4
  <1>6. CASE RunSwitch
    <2>1. tasks # <<>> /\ SwitchWorkspace(Head(tasks).to, Tail(tasks))
      BY <1>6 DEF RunSwitch, NextIs
    <2>2. Queued(Tail(tasks)) /\ Aimed(Tail(tasks)) BY <2>1, TailGrows
    <2> QED BY <2>1, <2>2, SwitchDone
  <1> QED BY <1>1, <1>2, <1>3, <1>4, <1>5, <1>6 DEF RunTask

LEMMA OpenedKeeps ==
  ASSUME SwitchesKept, NEW k, Opened(k) PROVE SwitchesKept'
  <1>1. PICK i \in GuiWindow :
          /\ UnlessSwitching([known EXCEPT ![i] = opening[k].window], tasks)
          /\ GoOn(opening[k].rest, Kept([known EXCEPT ![i] = opening[k].window]),
                  RemoveAt(opening, k))
    BY DEF Opened
  <1>2. starting' = starting BY DEF Opened
  <1>3. switching' => switching BY <1>1 DEF GoOn
  <1>4. Grows(tasks, tasks') BY <1>1, UnlessSwitchingGrows DEF SwitchesKept
  <1> QED BY <1>2, <1>3, <1>4, StillPending

\* A notification, or none
LEMMA MaybeNotified ==
  ASSUME SwitchesKept, tasks' \in {tasks, Notified(tasks)} PROVE Grows(tasks, tasks')
  <1>1. Grows(tasks, Notified(tasks)) BY NotifiedGrows DEF SwitchesKept
  <1>2. Grows(tasks, tasks) BY DEF SwitchesKept, Grows
  <1> QED BY <1>1, <1>2

LEMMA OpenFailsKeeps ==
  ASSUME SwitchesKept, NEW k, OpenFails(k) PROVE SwitchesKept'
  <1>1. tasks' \in {tasks, Notified(tasks)} /\ starting' = starting BY DEF OpenFails
  <1>2. switching' => switching BY DEF OpenFails, GoOn
  <1> QED BY <1>1, <1>2, MaybeNotified, StillPending

LEMMA AnnounceKeeps ==
  ASSUME SwitchesKept, NEW s, starting' = starting \ {s}, Announce(s) PROVE SwitchesKept'
  <1>1. CASE s.to = None
    <2>1. tasks' = Notified(tasks) /\ switching' = switching BY <1>1 DEF Announce
    <2>2. Spawns(starting) => Spawns(starting') BY <1>1 DEF Spawns
    <2> QED BY <2>1, <2>2, MaybeNotified, StillPending
  <1>2. CASE s.to # None
    <2>1. SwitchWorkspace(s.to, Notified(tasks)) BY <1>2 DEF Announce
    <2>2. PICK q : q = Notified(tasks) OBVIOUS
    <2>3. Queued(q) /\ Aimed(q) BY <2>2, NotifiedGrows DEF SwitchesKept, Grows
    <2> QED BY <2>1, <2>2, <2>3, SwitchDone
  <1> QED BY <1>1, <1>2

LEMMA PrunedKeeps ==
  ASSUME SwitchesKept, NEW w, Pruned(w) PROVE SwitchesKept'
  <1>1. tasks' = Notified(tasks) /\ starting' = starting /\ switching' = switching
    BY DEF Pruned
  <1> QED BY <1>1, MaybeNotified, StillPending

LEMMA SpawnKeeps ==
  ASSUME SwitchesKept, NEW name \in Workspace, SpawnWindow(name) PROVE SwitchesKept'
  <1>1. /\ tasks' = tasks /\ switching' = switching
        /\ starting' = starting \cup {[window |-> mux.made + 1, to |-> None]}
    BY DEF SpawnWindow
  <1>2. Spawns(starting) => Spawns(starting') BY <1>1 DEF Spawns
  <1> QED BY <1>1, <1>2, MaybeNotified, StillPending

LEMMA SwitchKeeps ==
  ASSUME SwitchesKept, NEW name \in Workspace, SwitchToWorkspace(name) PROVE SwitchesKept'
  <1>1. CASE InWorkspace(mux, name) = {}
    <2>1. tasks' = Append(Notified(tasks), SpawnThenSwitch(name))
      BY <1>1 DEF SwitchToWorkspace
    <2>2. PICK q : q = Notified(tasks) OBVIOUS
    <2>3. Queued(q) /\ Aimed(q) BY <2>2, NotifiedGrows DEF SwitchesKept, Grows
    <2>4. name # None BY BoundsAssumption DEF Workspace, None
    <2>5. PICK t : t = SpawnThenSwitch(name) OBVIOUS
    <2>6. t.type = "spawn" /\ t.to # None BY <2>4, <2>5 DEF SpawnThenSwitch
    <2>7. Grows(q, Append(q, t)) /\ Waits(Append(q, t)) BY <2>3, <2>6, Appended
    <2> QED BY <2>1, <2>2, <2>5, <2>7 DEF SwitchesKept, SwitchPending, Grows, Waits
  <1>2. CASE InWorkspace(mux, name) # {}
    <2>1. SwitchWorkspace(name, tasks) BY <1>2 DEF SwitchToWorkspace
    <2> QED BY <2>1, SwitchDone DEF SwitchesKept
  <1> QED BY <1>1, <1>2

LEMMA CloseKeeps ==
  ASSUME SwitchesKept, NEW i \in GuiWindow, CloseRequested(i) PROVE SwitchesKept'
  <1>1. PICK q : q = IF shows[i] \in Listed(mux) THEN Notified(tasks) ELSE tasks OBVIOUS
  <1>2. /\ starting' = starting /\ switching' = switching
        /\ UnlessSwitching([known EXCEPT ![i] = None], Append(q, Close(i)))
    BY <1>1 DEF CloseRequested
  <1>3. Grows(tasks, q) BY <1>1, NotifiedGrows DEF SwitchesKept, Grows
  <1>4. PICK t : t = Close(i) OBVIOUS
  <1>5. t.type = "close" BY <1>4 DEF Close
  <1>6. Grows(q, Append(q, t)) BY <1>3, <1>5, Appended DEF Grows
  <1>7. PICK r : r = Append(q, t) OBVIOUS
  <1>8. Grows(r, tasks')
    BY <1>2, <1>4, <1>6, <1>7, UnlessSwitchingGrows DEF Grows
  <1>9. Grows(tasks, tasks') BY <1>3, <1>6, <1>7, <1>8, GrowsOn
  <1> QED BY <1>2, <1>9, StillPending

LEMMA RenameKeeps ==
  ASSUME SwitchesKept, NEW old \in Workspace, NEW new \in Workspace,
         RenameWorkspace(old, new)
  PROVE  SwitchesKept'
  <1> DEFINE announced == IF active \in {old, new} THEN Append(tasks, Switch(new)) ELSE tasks
  <1>1. /\ starting' = starting
        /\ switching' = (switching \/ active \in {old, new})
        /\ tasks' \in {announced, Notified(announced)}
    BY DEF RenameWorkspace
  <1>2. Switch(new).type = "switch" BY DEF Switch
  <1>3. PICK t : t = Switch(new) OBVIOUS
  <1>4. Grows(tasks, Append(tasks, t)) /\ Waits(Append(tasks, t))
    BY <1>2, <1>3, Appended DEF SwitchesKept
  <1>5. Grows(tasks, announced) /\ (active \in {old, new} => Waits(announced))
    BY <1>3, <1>4 DEF SwitchesKept, Grows
  <1> HIDE DEF announced
  <1>6. PICK q : q = announced OBVIOUS
  <1>7. Grows(q, Notified(q)) BY <1>5, <1>6, NotifiedGrows DEF Grows
  <1>8. Grows(tasks, tasks') /\ (active \in {old, new} => Waits(tasks'))
    BY <1>1, <1>5, <1>6, <1>7 DEF Grows
  <1>9. CASE active \in {old, new}
    BY <1>8, <1>9 DEF SwitchesKept, SwitchPending, Grows, Waits
  <1>10. CASE active \notin {old, new} BY <1>1, <1>8, <1>10, StillPending
  <1> QED BY <1>9, <1>10

LEMMA NextKeeps == SwitchesKept /\ [Next]_vars => SwitchesKept'
  <1> SUFFICES ASSUME SwitchesKept, [Next]_vars PROVE SwitchesKept'
    OBVIOUS
  <1>1. CASE Proceed
    <2>1. CASE RunTask BY <2>1, TaskKeeps
    <2>2. CASE \E k \in DOMAIN opening : Opened(k) BY <2>2, OpenedKeeps
    <2>3. CASE \E k \in DOMAIN opening : OpenFails(k) BY <2>3, OpenFailsKeeps
    <2>4. CASE \E s \in starting : Started(s) \/ StartFails(s)
      BY <2>4, AnnounceKeeps DEF Started, StartFails
    <2>5. CASE \E w \in Listed(mux) \ mux.alive : Pruned(w) BY <2>5, PrunedKeeps
    <2> QED BY <1>1, <2>1, <2>2, <2>3, <2>4, <2>5 DEF Proceed
  <1>2. CASE Event
    <2>1. CASE \E name \in Workspace : SpawnWindow(name) \/ SwitchToWorkspace(name)
      BY <2>1, SpawnKeeps, SwitchKeeps
    <2>2. CASE \E i \in GuiWindow : CloseRequested(i) BY <2>2, CloseKeeps
    <2>3. CASE \E w \in Window, name \in Workspace : SetWorkspace(w, name)
      <3>1. tasks' = Notified(tasks) /\ starting' = starting /\ switching' = switching
        BY <2>3 DEF SetWorkspace
      <3> QED BY <3>1, MaybeNotified, StillPending
    <2>4. CASE \E old, new \in Workspace : RenameWorkspace(old, new) BY <2>4, RenameKeeps
    <2>5. CASE PanesChange
      <3>1. tasks' = tasks /\ starting' = starting /\ switching' = switching
        BY <2>5 DEF PanesChange
      <3> QED BY <3>1, MaybeNotified, StillPending
    <2>6. CASE \E k \in DOMAIN opening : OpenFails(k) BY <2>6, OpenFailsKeeps
    <2>7. CASE \E s \in starting : StartFails(s)
      BY <2>7, AnnounceKeeps DEF StartFails
    <2>8. CASE \E w \in mux.alive : Pruned(w) BY <2>8, PrunedKeeps
    <2> QED BY <1>2, <2>1, <2>2, <2>3, <2>4, <2>5, <2>6, <2>7, <2>8 DEF Event
  <1>3. CASE UNCHANGED vars
    BY <1>3 DEF vars, SwitchesKept, SwitchPending, Queued, Aimed
  <1> QED BY <1>1, <1>2, <1>3 DEF Next

\* While switching_workspaces puts reconcile_workspace off there is a
\* WorkspaceSwitcher whose drop will clear it (frontend.rs), for any number of
\* windows and workspaces, whatever is posted, opened, spawned and renamed.
THEOREM SwitchAlwaysPending == Spec => []SwitchPending
  <1>1. SwitchesKept => SwitchPending BY DEF SwitchesKept
  <1> QED BY <1>1, NoneWaitsAtFirst, NextKeeps, PTL DEF Spec

-----------------------------------------------------------------------------
(* Sorted: the ranks of the members of a set of n numbers are 0..n - 1.    *)

LEMMA SortedParts ==
  ASSUME NEW S \in SUBSET Nat, IsFiniteSet(S)
  PROVE  /\ Queued(Sorted(S))
         /\ \A k \in DOMAIN Sorted(S) : Sorted(S)[k] \in S
         /\ \A k, l \in DOMAIN Sorted(S) : Sorted(S)[k] = Sorted(S)[l] => k = l
         /\ \A x \in S : \E k \in DOMAIN Sorted(S) : Sorted(S)[k] = x
         /\ \A k \in DOMAIN Sorted(S) : Cardinality({y \in S : y < Sorted(S)[k]}) = k - 1
         /\ DOMAIN Sorted(S) = 1..Cardinality(S)
  <1> DEFINE n == Cardinality(S)
             below(x) == {y \in S : y < x}
             rank == [x \in S |-> Cardinality(below(x))]
             s == Sorted(S)
  <1>1. n \in Nat BY FS_CardinalityType
  <1>2. \A x \in S : /\ IsFiniteSet(below(x))
                     /\ rank[x] \in Nat
                     /\ rank[x] < n
    <2> SUFFICES ASSUME NEW x \in S
                 PROVE  IsFiniteSet(below(x)) /\ rank[x] \in Nat /\ rank[x] < n
      OBVIOUS
    <2>1. below(x) \subseteq S /\ x \notin below(x) OBVIOUS
    <2>2. /\ IsFiniteSet(below(x)) /\ Cardinality(below(x)) <= n
          /\ n = Cardinality(below(x)) => S = below(x)
      <3> HIDE DEF below
      <3> QED BY <2>1, FS_Subset
    <2>3. rank[x] = Cardinality(below(x)) OBVIOUS
    <2> HIDE DEF below, rank
    <2>4. Cardinality(below(x)) \in Nat BY <2>2, FS_CardinalityType
    <2> QED BY <1>1, <2>1, <2>2, <2>3, <2>4
  <1>3. \A x, y \in S : x < y => rank[x] < rank[y]
    <2> SUFFICES ASSUME NEW x \in S, NEW y \in S, x < y PROVE rank[x] < rank[y]
      OBVIOUS
    <2>1. below(x) \subseteq below(y) /\ x \in below(y) /\ x \notin below(x)
      <3>1. x \in Nat /\ y \in Nat /\ \A z \in S : z \in Nat OBVIOUS
      <3>2. \A z \in S : z < x => z < y BY <3>1
      <3>3. ~(x < x) BY <3>1
      <3> QED BY <3>2, <3>3
    <2>2. IsFiniteSet(below(y)) /\ rank[x] \in Nat /\ rank[y] \in Nat BY <1>2
    <2>3. rank[x] = Cardinality(below(x)) /\ rank[y] = Cardinality(below(y)) OBVIOUS
    <2> HIDE DEF below, rank
    <2>4. /\ Cardinality(below(x)) <= Cardinality(below(y))
          /\ Cardinality(below(y)) = Cardinality(below(x)) => below(y) = below(x)
      BY <2>1, <2>2, FS_Subset
    <2> QED BY <2>1, <2>2, <2>3, <2>4
  <1>4. \A x, y \in S : rank[x] = rank[y] => x = y
    <2> SUFFICES ASSUME NEW x \in S, NEW y \in S, rank[x] = rank[y], x # y PROVE FALSE
      OBVIOUS
    <2>1. x < y \/ y < x OBVIOUS
    <2>2. rank[x] \in Nat /\ rank[y] \in Nat BY <1>2
    <2> HIDE DEF rank
    <2> QED BY <1>3, <2>1, <2>2
  <1>5. \A k \in 1..n : \E x \in S : rank[x] = k - 1
    <2> DEFINE T == 0..(n - 1)
    <2>1. IsFiniteSet(T) /\ Cardinality(T) = n
      <3>1. n - 1 \in Int /\ 0 \in Int BY <1>1
      <3>2. CASE n = 0
        <4>1. Cardinality(0..(n - 1)) = 0 /\ IsFiniteSet(0..(n - 1)) BY <3>1, <3>2, FS_Interval
        <4> QED BY <3>2, <4>1
      <3>3. CASE n > 0
        <4> HIDE DEF n
        <4>1. Cardinality(0..(n - 1)) = n - 1 - 0 + 1 /\ IsFiniteSet(0..(n - 1))
          BY <1>1, <3>1, <3>3, FS_Interval
        <4> QED BY <1>1, <4>1
      <3> QED BY <1>1, <3>2, <3>3
    <2> HIDE DEF rank, n
    <2>2. rank \in [S -> T]
      <3>1. rank = [x \in S |-> rank[x]] BY DEF rank
      <3>2. \A x \in S : rank[x] \in T
        <4> SUFFICES ASSUME NEW x \in S PROVE rank[x] \in T OBVIOUS
        <4>1. PICK r : r = rank[x] OBVIOUS
        <4>2. r \in Nat /\ r < n BY <1>2, <4>1
        <4>3. r \in 0..(n - 1) BY <1>1, <4>2
        <4> QED BY <4>1, <4>3
      <3> HIDE DEF T
      <3> QED BY <3>1, <3>2
    <2> HIDE DEF T
    <2>3. rank \in Injection(S, T) BY <1>4, <2>2 DEF Injection, IsInjective
    <2>4. rank \in Surjection(S, T) BY <2>1, <2>3, FS_Injection DEF n
    <2>5. \A t \in T : \E x \in S : rank[x] = t BY <2>4 DEF Surjection
    <2> QED BY <1>1, <2>5 DEF T
  <1>6. DOMAIN s = 1..n BY DEF Sorted
  <1>7. \A k \in 1..n : s[k] \in S /\ rank[s[k]] = k - 1
    <2> SUFFICES ASSUME NEW k \in 1..n PROVE s[k] \in S /\ rank[s[k]] = k - 1
      OBVIOUS
    <2>1. \E x \in S : Cardinality({y \in S : y < x}) = k - 1 BY <1>5
    <2>2. s[k] = CHOOSE x \in S : Cardinality({y \in S : y < x}) = k - 1
      BY DEF Sorted
    <2>3. s[k] \in S /\ Cardinality({y \in S : y < s[k]}) = k - 1 BY <2>1, <2>2
    <2> QED BY <2>3
  <1>8. Queued(s)
    <2> DEFINE pick(k) == CHOOSE x \in S : Cardinality({y \in S : y < x}) = k - 1
    <2>1. s = [k \in 1..n |-> pick(k)] BY DEF Sorted
    <2> HIDE DEF pick, s, n
    <2>2. s = [k \in DOMAIN s |-> s[k]] BY <2>1
    <2> QED BY <1>1, <1>6, <2>2 DEF Queued
  <1>9. ASSUME NEW x \in S PROVE \E k \in 1..n : s[k] = x
    <2>1. rank[x] \in Nat /\ rank[x] < n BY <1>2
    <2> HIDE DEF rank, n, s
    <2>2. PICK k : k = rank[x] + 1 OBVIOUS
    <2>3. k \in 1..n /\ rank[x] = k - 1 BY <1>1, <2>1, <2>2
    <2> QED BY <1>4, <1>7, <2>3
  <1>10. ASSUME NEW k \in 1..n, NEW l \in 1..n, s[k] = s[l] PROVE k = l
    <2> HIDE DEF rank, n, s
    <2> QED BY <1>1, <1>7, <1>10
  <1>11. \A k \in 1..n : Cardinality({y \in S : y < s[k]}) = k - 1 BY <1>7
  <1> QED BY <1>6, <1>7, <1>8, <1>9, <1>10, <1>11

LEMMA NamesFinite ==
  /\ \A S \in SUBSET GuiWindow : IsFiniteSet(S) /\ S \in SUBSET Nat
  /\ \A S \in SUBSET Window : IsFiniteSet(S) /\ S \in SUBSET Nat
  /\ \A S \in SUBSET Workspace : IsFiniteSet(S) /\ S \in SUBSET Nat
  /\ None \notin GuiWindow /\ None \notin Window /\ None \notin Workspace
  <1>1. /\ IsFiniteSet(1..MaxWindows) /\ IsFiniteSet(1..MaxGuiWindows)
        /\ IsFiniteSet(1..MaxWorkspaces)
    BY BoundsAssumption, FS_Interval
  <1>2. /\ 1..MaxWindows \subseteq Nat /\ 1..MaxGuiWindows \subseteq Nat
        /\ 1..MaxWorkspaces \subseteq Nat
    BY BoundsAssumption
  <1>3. None \notin 1..MaxWindows /\ None \notin 1..MaxGuiWindows /\ None \notin 1..MaxWorkspaces
    BY BoundsAssumption DEF None
  <1> QED BY <1>1, <1>2, <1>3, FS_Subset DEF Window, GuiWindow, Workspace

\* Windows in order
LEMMA SortedWindows ==
  ASSUME NEW S \in SUBSET Window
  PROVE  /\ Sorted(S) \in Seq(Window)
         /\ \A w \in S : w \in Range(Sorted(S))
  <1>1. PICK s : s = Sorted(S) OBVIOUS
  <1>2. /\ Queued(s)
        /\ \A k \in DOMAIN s : s[k] \in S
        /\ \A x \in S : \E k \in DOMAIN s : s[k] = x
    BY <1>1, SortedParts, NamesFinite
  <1>3. s \in Seq({s[k] : k \in DOMAIN s}) BY <1>2, QueuedIsSeq
  <1>4. s \in Seq(Window)
    <2>1. {s[k] : k \in DOMAIN s} \subseteq Window BY <1>2
    <2> HIDE DEF Window
    <2> QED BY <1>3, <2>1, SeqDef
  <1>5. \A w \in S : w \in Range(s) BY <1>2 DEF Range
  <1> QED BY <1>1, <1>4, <1>5

\* Least, of numbers
LEMMA LeastParts ==
  ASSUME NEW S \in SUBSET Nat, S # {}
  PROVE  Least(S) \in S /\ \A y \in S : Least(S) <= y
  <1>1. PICK n \in S : TRUE OBVIOUS
  <1> DEFINE T == {y \in S : y <= n}
  <1>2. IsFiniteSet(T)
    <2>1. T \in SUBSET Nat /\ n \in Nat /\ \A y \in T : y <= n BY <1>1
    <2> HIDE DEF T
    <2> QED BY <2>1, FS_BoundedSetOfNaturals
  <1>3. T \in SUBSET Nat /\ n \in T /\ n \in Nat
    <2>1. n \in Nat OBVIOUS
    <2>2. n <= n BY <2>1
    <2> QED BY <2>1, <2>2
  <1>4. \E x \in T : \A y \in T : ~(y < x)
    <2> HIDE DEF T
    <2>1. Cardinality(T) \in Nat /\ Cardinality(T) # 0 BY <1>2, <1>3, FS_CardinalityType, FS_EmptySet
    <2>2. 1 \in 1..Cardinality(T) BY <2>1
    <2>3. PICK s : s = Sorted(T) OBVIOUS
    <2>4. s[1] \in T /\ Cardinality({y \in T : y < s[1]}) = 1 - 1
      <3>1. /\ DOMAIN s = 1..Cardinality(T)
            /\ \A k \in DOMAIN s : s[k] \in T
            /\ \A k \in DOMAIN s : Cardinality({y \in T : y < s[k]}) = k - 1
        BY <1>2, <1>3, <2>3, SortedParts
      <3> QED BY <2>2, <3>1
    <2>5. PICK B : B = {y \in T : y < s[1]} OBVIOUS
    <2>6. B \subseteq T BY <2>5
    <2>7. IsFiniteSet(B) /\ Cardinality(B) = 0 BY <1>2, <2>4, <2>5, <2>6, FS_Subset
    <2>8. B = {} BY <2>7, FS_EmptySet
    <2> QED BY <2>4, <2>5, <2>8
  <1>5. \E x \in S : \A y \in S : x <= y
    <2>1. PICK x \in T : \A y \in T : ~(y < x) BY <1>4
    <2>2. x \in S /\ x \in Nat /\ x <= n BY <1>3
    <2>3. \A y \in S : x <= y
      <3> SUFFICES ASSUME NEW y \in S PROVE x <= y OBVIOUS
      <3>1. y \in Nat OBVIOUS
      <3>2. CASE y <= n BY <1>3, <2>1, <2>2, <3>1, <3>2
      <3>3. CASE n < y BY <1>3, <2>2, <3>1, <3>3
      <3> QED BY <1>3, <3>1, <3>2, <3>3
    <2> QED BY <2>2, <2>3
  <1> QED BY <1>5 DEF Least

\* What reconcile_workspace assigns: wanted windows, each to one GUI window
LEMMA AssignedParts ==
  ASSUME NEW kn \in [GuiWindow -> Window \cup {None}], NEW wanted \in SUBSET Window
  PROVE  /\ Assigned(kn, wanted) \in [GuiWindow -> Window \cup {None}]
         /\ \A i \in GuiWindow : kn[i] = None => Assigned(kn, wanted)[i] = None
         /\ \A i \in GuiWindow : Assigned(kn, wanted)[i] \in wanted \cup {None}
         /\ \A i, j \in GuiWindow :
              Assigned(kn, wanted)[i] # None /\ Assigned(kn, wanted)[i] = Assigned(kn, wanted)[j]
                => i = j
  <1> DEFINE kept == {i \in GuiWindow : /\ kn[i] \in wanted
                                        /\ \A j \in GuiWindow : kn[j] = kn[i] => i <= j}
             U == {i \in GuiWindow : kn[i] # None} \ kept
             M == wanted \ {kn[i] : i \in kept}
             unused == Sorted(U)
             missing == Sorted(M)
             takes(i) == {missing[k] : k \in {l \in DOMAIN unused \cap DOMAIN missing : unused[l] = i}}
             new == Assigned(kn, wanted)
  <1>1. new = [i \in GuiWindow |-> IF i \in kept THEN kn[i]
                                   ELSE IF takes(i) = {} THEN None
                                   ELSE CHOOSE w \in takes(i) : TRUE]
    BY DEF Assigned
  <1>2. /\ \A k \in DOMAIN unused : unused[k] \in U
        /\ \A k, l \in DOMAIN unused : unused[k] = unused[l] => k = l
    <2>1. U \in SUBSET GuiWindow OBVIOUS
    <2>2. U \in SUBSET Nat /\ IsFiniteSet(U) BY <2>1, NamesFinite
    <2> HIDE DEF U
    <2> QED BY <2>2, SortedParts
  <1>3. /\ \A k \in DOMAIN missing : missing[k] \in M
        /\ \A k, l \in DOMAIN missing : missing[k] = missing[l] => k = l
    <2>1. M \in SUBSET Window OBVIOUS
    <2>2. M \in SUBSET Nat /\ IsFiniteSet(M) BY <2>1, NamesFinite
    <2> HIDE DEF M
    <2> QED BY <2>2, SortedParts
  <1> HIDE DEF unused, missing, new
  <1>4. \A i \in GuiWindow :
          \/ i \in kept /\ new[i] = kn[i]
          \/ i \notin kept /\ new[i] = None
          \/ i \notin kept /\ \E k \in DOMAIN unused \cap DOMAIN missing :
                                unused[k] = i /\ new[i] = missing[k]
    <2> SUFFICES ASSUME NEW i \in GuiWindow, i \notin kept, takes(i) # {}
                 PROVE  \E k \in DOMAIN unused \cap DOMAIN missing :
                          unused[k] = i /\ new[i] = missing[k]
      BY <1>1
    <2>1. new[i] = CHOOSE w \in takes(i) : TRUE BY <1>1
    <2>2. new[i] \in takes(i) BY <2>1
    <2> QED BY <2>2
  <1>5. \A i \in kept : kn[i] \in wanted /\ kn[i] \notin M OBVIOUS
  <1>6. \A i, j \in kept : kn[i] = kn[j] => i = j
    <2>1. \A i, j \in kept : kn[i] = kn[j] => i <= j /\ j <= i OBVIOUS
    <2>2. \A i, j \in GuiWindow : i <= j /\ j <= i => i = j
      BY BoundsAssumption DEF GuiWindow
    <2>3. \A i \in kept : i \in GuiWindow OBVIOUS
    <2> HIDE DEF kept
    <2> QED BY <2>1, <2>2, <2>3
  <1>7. M \subseteq wanted /\ \A i \in U : kn[i] # None OBVIOUS
  <1>8. None \notin wanted BY NamesFinite
  <1> HIDE DEF kept, U, M
  <1>9. \A i \in GuiWindow : new[i] \in wanted \cup {None}
    BY <1>3, <1>4, <1>5, <1>7
  <1>10. \A i \in GuiWindow : kn[i] = None => new[i] = None
    BY <1>2, <1>4, <1>5, <1>7, <1>8
  <1>11. ASSUME NEW i \in GuiWindow, NEW j \in GuiWindow, new[i] # None, new[i] = new[j]
         PROVE  i = j
    <2>1. CASE i \in kept /\ j \in kept BY <1>4, <1>6, <1>11, <2>1
    <2>2. CASE i \in kept /\ j \notin kept BY <1>3, <1>4, <1>5, <1>11, <2>2
    <2>3. CASE i \notin kept /\ j \in kept BY <1>3, <1>4, <1>5, <1>11, <2>3
    <2>4. CASE i \notin kept /\ j \notin kept BY <1>3, <1>4, <1>11, <2>4
    <2> QED BY <2>1, <2>2, <2>3, <2>4
  <1>12. new \in [GuiWindow -> Window \cup {None}]
    <2>1. new = [i \in GuiWindow |-> new[i]] BY <1>1
    <2>2. \A i \in GuiWindow : new[i] \in Window \cup {None} BY <1>9
    <2> QED BY <2>1, <2>2
  <1> QED BY <1>9, <1>10, <1>11, <1>12 DEF new

\* What a GUI window is told that is to show w, or nothing
Order(i, w) == IF w = None THEN Close(i) ELSE Show(i, w)

LEMMA OrdersParts ==
  ASSUME NEW kn, NEW new
  PROVE  /\ Queued(Orders(kn, new))
         /\ \A t : Member(Orders(kn, new), t) =>
              \E i \in GuiWindow : kn[i] # new[i] /\ t = Order(i, new[i])
         /\ \A i \in GuiWindow : kn[i] # new[i] => Member(Orders(kn, new), Order(i, new[i]))
  <1> DEFINE C == {i \in GuiWindow : kn[i] # new[i]}
             changed == Sorted(C)
             told == Orders(kn, new)
  <1>1. /\ \A k \in DOMAIN changed : changed[k] \in C
        /\ \A i \in C : \E k \in DOMAIN changed : changed[k] = i
    <2>1. C \in SUBSET Nat /\ IsFiniteSet(C) BY NamesFinite
    <2> HIDE DEF C
    <2> QED BY <2>1, SortedParts
  <1>2. DOMAIN told = DOMAIN changed BY DEF Orders
  <1>3. \A k \in DOMAIN changed : told[k] = Order(changed[k], new[changed[k]])
    BY DEF Orders, Order
  <1>4. Queued(told) BY OrdersQueued
  <1> HIDE DEF changed, told
  <1>5. ASSUME NEW t, Member(told, t)
        PROVE  \E i \in GuiWindow : kn[i] # new[i] /\ t = Order(i, new[i])
    BY <1>1, <1>2, <1>3, <1>5 DEF Member
  <1>6. ASSUME NEW i \in GuiWindow, kn[i] # new[i] PROVE Member(told, Order(i, new[i]))
    BY <1>1, <1>2, <1>3, <1>6 DEF Member
  <1> QED BY <1>4, <1>5, <1>6 DEF told

-----------------------------------------------------------------------------
(* Type correctness.                                                       *)

MuxType == [place : [Window -> Workspace \cup {None}], alive : SUBSET Window,
            counted : SUBSET Workspace, made : 0..MaxWindows, moved : BOOLEAN]
KnownType == [GuiWindow -> Window \cup {None}]
OpeningType == [window : Window, rest : Seq(Window)]
StartingType == [window : Window, to : Workspace \cup {None}]

Job(t) ==
  \/ t = Reconcile
  \/ \E i \in GuiWindow, w \in Window : t = Show(i, w)
  \/ \E i \in GuiWindow : t = Close(i)
  \/ \E ws \in Seq(Window) : t = Open(ws)
  \/ \E name \in Workspace : t = SpawnThenSwitch(name) \/ t = Switch(name)

Jobs(q) == Queued(q) /\ \A t : Member(q, t) => Job(t)

LEMMA JobParts ==
  ASSUME NEW t, Job(t)
  PROVE  /\ t.type = "reconcile" => t = Reconcile
         /\ t.type = "show" => t.on \in GuiWindow /\ t.window \in Window
                               /\ t = Show(t.on, t.window)
         /\ t.type = "close" => t.on \in GuiWindow /\ t = Close(t.on)
         /\ t.type = "open" => t.windows \in Seq(Window) /\ t = Open(t.windows)
         /\ t.type \in {"spawn", "switch"} => t.to \in Workspace
  BY DEF Job, Reconcile, Show, Close, Open, SpawnThenSwitch, Switch

LEMMA MoreJobs ==
  ASSUME NEW q, Jobs(q)
  PROVE  /\ \A t : Job(t) => Jobs(Append(q, t))
         /\ Jobs(Notified(q))
         /\ q # <<>> => Job(Head(q)) /\ Jobs(Tail(q))
         /\ \A p : Jobs(p) => Jobs(q \o p)
  <1>1. ASSUME NEW t, Job(t) PROVE Jobs(Append(q, t))
    BY <1>1, AppendParts, AppendMembers DEF Jobs
  <1>2. Jobs(Notified(q)) BY <1>1 DEF Notified, Job
  <1>3. q # <<>> => Job(Head(q)) /\ Jobs(Tail(q)) BY TailParts, TailMembers DEF Jobs
  <1>4. ASSUME NEW p, Jobs(p) PROVE Jobs(q \o p) BY <1>4, JoinedMembers DEF Jobs
  <1> QED BY <1>1, <1>2, <1>3, <1>4

LEMMA OneJob ==
  ASSUME NEW t, Job(t)
  PROVE  Jobs(<<t>>)
  <1>1. Queued(<<t>>) BY OneQueued
  <1>2. \A x : Member(<<t>>, x) => x = t BY DEF Member
  <1> QED BY <1>1, <1>2 DEF Jobs

LEMMA PopulatedTyped ==
  ASSUME NEW m \in MuxType, NEW name \in Workspace
  PROVE  Populated(m, name) \in Workspace
  <1> DEFINE P == {m.place[w] : w \in Listed(m)} \cap m.counted
  <1>1. m.counted \subseteq Workspace BY DEF MuxType
  <1>2. P \in SUBSET Nat BY <1>1, NamesFinite
  <1> HIDE DEF P
  <1>3. P # {} => Least(P) \in P BY <1>2, LeastParts
  <1> USE DEF P
  <1> QED BY <1>1, <1>3 DEF Populated

LEMMA ReconcileTyped ==
  ASSUME mux' \in MuxType, NEW name \in Workspace, NEW kn \in KnownType,
         NEW queue, Jobs(queue), ReconcileWorkspace(name, kn, queue)
  PROVE  active' \in Workspace /\ known' \in KnownType /\ Jobs(tasks')
  <1>1. PICK m, a, new : m = mux' /\ a = active' /\ new = known' OBVIOUS
  <1>2. a = Populated(m, name) /\ new = Assigned(kn, InWorkspace(m, a))
    BY <1>1 DEF ReconcileWorkspace
  <1>3. a \in Workspace BY <1>1, <1>2, PopulatedTyped
  <1>4. PICK wanted : wanted = InWorkspace(m, a) OBVIOUS
  <1>5. wanted \in SUBSET Window BY <1>4 DEF InWorkspace
  <1>6. new \in KnownType BY <1>2, <1>4, <1>5, AssignedParts DEF KnownType
  <1>7. PICK told, ws, q :
          /\ told = Orders(kn, new) /\ ws = Sorted(wanted \ Range(new))
          /\ q = IF a # name THEN Notified(queue) ELSE queue
    OBVIOUS
  <1>8. tasks' = q \o told \o <<Open(ws)>> BY <1>1, <1>4, <1>7 DEF ReconcileWorkspace
  <1>9. Jobs(q) BY <1>7, MoreJobs
  <1>10. Jobs(told)
    <2>1. \A i \in GuiWindow : new[i] \in Window \cup {None} BY <1>6 DEF KnownType
    <2>2. \A i \in GuiWindow : Job(Order(i, new[i])) BY <2>1 DEF Job, Order
    <2> QED BY <1>7, <2>2, OrdersParts DEF Jobs
  <1>11. ws \in Seq(Window)
    <2>1. wanted \ Range(new) \in SUBSET Window BY <1>5
    <2> QED BY <1>7, <2>1, SortedWindows
  <1>12. Job(Open(ws)) BY <1>11 DEF Job
  <1>13. Jobs(<<Open(ws)>>) BY <1>12, OneJob
  <1>14. Jobs(q \o told) BY <1>9, <1>10, MoreJobs
  <1>15. Jobs(q \o told \o <<Open(ws)>>) BY <1>13, <1>14, MoreJobs
  <1> QED BY <1>1, <1>3, <1>6, <1>8, <1>15

LEMMA UnlessSwitchingTyped ==
  ASSUME mux' \in MuxType, active \in Workspace, NEW kn \in KnownType,
         NEW queue, Jobs(queue), UnlessSwitching(kn, queue)
  PROVE  active' \in Workspace /\ known' \in KnownType /\ Jobs(tasks')
  <1>1. CASE switching BY <1>1 DEF UnlessSwitching
  <1>2. CASE ~switching BY <1>2, ReconcileTyped DEF UnlessSwitching
  <1> QED BY <1>1, <1>2

LEMMA SwitchTyped ==
  ASSUME TypeOK, mux' \in MuxType, NEW name \in Workspace, NEW queue, Jobs(queue),
         SwitchWorkspace(name, queue)
  PROVE  /\ active' \in Workspace /\ known' \in KnownType /\ Jobs(tasks')
         /\ spawned' \subseteq Window /\ switching' \in BOOLEAN
  <1>1. PICK q : q = Notified(queue) OBVIOUS
  <1>2. Jobs(q) BY <1>1, MoreJobs
  <1>3. known \in KnownType BY DEF TypeOK, KnownType
  <1>4. ReconcileWorkspace(name, known, q) BY <1>1 DEF SwitchWorkspace
  <1>5. active' \in Workspace /\ known' \in KnownType /\ Jobs(tasks')
    BY <1>2, <1>3, <1>4, ReconcileTyped
  <1> QED BY <1>5 DEF SwitchWorkspace, Kept, TypeOK

LEMMA GoOnTyped ==
  ASSUME NEW ws \in Seq(Window), NEW claimed \in SUBSET Window,
         NEW others \in Seq(OpeningType), switching \in BOOLEAN, GoOn(ws, claimed, others)
  PROVE  switching' \in BOOLEAN /\ spawned' \subseteq Window /\ opening' \in Seq(OpeningType)
  <1> DEFINE needed == {k \in DOMAIN ws : ws[k] \notin Range(known') \cup claimed}
             k == Least(needed)
  <1>1. CASE needed = {} BY <1>1 DEF GoOn
  <1>2. CASE needed # {}
    <2>1. /\ switching' = switching /\ spawned' = claimed \cup {ws[k]}
          /\ opening' = Append(others, [window |-> ws[k], rest |-> SubSeq(ws, k + 1, Len(ws))])
      BY <1>2 DEF GoOn
    <2>2. Len(ws) \in Nat /\ DOMAIN ws = 1..Len(ws) BY LenProperties
    <2>3. needed \in SUBSET Nat /\ needed \subseteq DOMAIN ws BY <2>2
    <2> HIDE DEF needed
    <2>4. k \in DOMAIN ws BY <1>2, <2>3, LeastParts
    <2> HIDE DEF k
    <2>5. ws[k] \in Window BY <2>4, ElementOfSeq, <2>2
    <2>6. SubSeq(ws, k + 1, Len(ws)) \in Seq(Window) BY <2>2, <2>4, SubSeqProperties
    <2>7. PICK o : o = [window |-> ws[k], rest |-> SubSeq(ws, k + 1, Len(ws))] OBVIOUS
    <2>8. o \in OpeningType BY <2>5, <2>6, <2>7 DEF OpeningType
    <2>9. Append(others, o) \in Seq(OpeningType) BY <2>8, AppendProperties
    <2> QED BY <2>1, <2>5, <2>7, <2>9
  <1> QED BY <1>1, <1>2

\* The mux, field by field
LEMMA MuxParts ==
  ASSUME NEW m
  PROVE  m \in MuxType <=>
           /\ m = [place |-> m.place, alive |-> m.alive, counted |-> m.counted,
                   made |-> m.made, moved |-> m.moved]
           /\ m.place \in [Window -> Workspace \cup {None}]
           /\ m.alive \subseteq Window /\ m.counted \subseteq Workspace
           /\ m.made \in 0..MaxWindows /\ m.moved \in BOOLEAN
  BY DEF MuxType

\* Panes are in windows that there are, and are counted unless set_workspace has moved
\* one
Sound(m) ==
  /\ m \in MuxType
  /\ m.alive \subseteq Listed(m)
  /\ \A w \in Listed(m) : w <= m.made
  /\ ~m.moved => m.counted = {m.place[w] : w \in m.alive}

\* The inductive invariant of types
Typed == TypeOK /\ Jobs(tasks) /\ Sound(mux)

LEMMA RecountedParts ==
  ASSUME NEW m \in MuxType, m.alive \subseteq Listed(m), \A w \in Listed(m) : w <= m.made
  PROVE  /\ Sound(Recounted(m))
         /\ Recounted(m).place = m.place /\ Recounted(m).alive = m.alive
         /\ Recounted(m).made = m.made /\ Recounted(m).moved = m.moved
         /\ Recounted(m).counted = {m.place[w] : w \in m.alive}
  <1>1. {m.place[w] : w \in m.alive} \subseteq Workspace BY DEF Listed, MuxType
  <1>2. PICK n : n = Recounted(m) OBVIOUS
  <1>3. /\ n \in MuxType
        /\ n.place = m.place /\ n.alive = m.alive /\ n.made = m.made /\ n.moved = m.moved
        /\ n.counted = {m.place[w] : w \in m.alive}
    BY <1>1, <1>2, MuxParts DEF Recounted
  <1>4. Listed(n) = Listed(m) /\ n.counted = {n.place[w] : w \in n.alive} BY <1>3 DEF Listed
  <1>5. Sound(n) BY <1>3, <1>4 DEF Sound
  <1> QED BY <1>2, <1>3, <1>5

LEMMA RemovedParts ==
  ASSUME NEW m, Sound(m), NEW w \in Window
  PROVE  /\ Sound(Removed(m, w))
         /\ Removed(m, w).place = [m.place EXCEPT ![w] = None]
         /\ Removed(m, w).alive = m.alive \ {w}
         /\ Removed(m, w).moved = m.moved
  <1>1. PICK n : n = [m EXCEPT !.place[w] = None, !.alive = @ \ {w}] OBVIOUS
  <1>2. /\ n.place = [m.place EXCEPT ![w] = None] /\ n.alive = m.alive \ {w}
        /\ n.made = m.made /\ n.moved = m.moved /\ n.counted = m.counted
        /\ n = [place |-> n.place, alive |-> n.alive, counted |-> n.counted,
                made |-> n.made, moved |-> n.moved]
    <2>1. PICK p, a, c, d, v : /\ p = m.place /\ a = m.alive /\ c = m.counted
                               /\ d = m.made /\ v = m.moved
      OBVIOUS
    <2>2. m = [place |-> p, alive |-> a, counted |-> c, made |-> d, moved |-> v]
      BY <2>1, MuxParts DEF Sound
    <2>3. n = [place |-> [p EXCEPT ![w] = None], alive |-> a \ {w}, counted |-> c,
               made |-> d, moved |-> v]
      BY <1>1, <2>2
    <2> QED BY <2>1, <2>3
  <1>3. n \in MuxType BY <1>2, MuxParts DEF Sound
  <1>4. m.place \in [Window -> Workspace \cup {None}] BY MuxParts DEF Sound
  <1>5. n.alive \subseteq Listed(n) /\ Listed(n) \subseteq Listed(m)
    BY <1>2, <1>4 DEF Listed, Sound
  <1>6. \A v \in Listed(n) : v <= n.made BY <1>2, <1>5 DEF Sound
  <1>7. PICK r : r = Removed(m, w) OBVIOUS
  <1>8. r = Recounted(n) BY <1>1, <1>7 DEF Removed
  <1>9. Sound(r) /\ r.place = n.place /\ r.alive = n.alive /\ r.moved = n.moved
    BY <1>3, <1>5, <1>6, <1>8, RecountedParts
  <1> QED BY <1>2, <1>7, <1>9

LEMMA WithEmptyParts ==
  ASSUME NEW m, Sound(m), m.made < MaxWindows, NEW name \in Workspace
  PROVE  /\ Sound(WithEmpty(m, name))
         /\ m.made + 1 \in Window
         /\ WithEmpty(m, name).place = [m.place EXCEPT ![m.made + 1] = name]
         /\ WithEmpty(m, name).alive = m.alive
         /\ WithEmpty(m, name).moved = m.moved
         /\ WithEmpty(m, name).counted = m.counted
  <1>1. PICK n : n = WithEmpty(m, name) OBVIOUS
  <1>2. PICK p, a, c, d, v : /\ p = m.place /\ a = m.alive /\ c = m.counted
                             /\ d = m.made /\ v = m.moved
    OBVIOUS
  <1>3. m = [place |-> p, alive |-> a, counted |-> c, made |-> d, moved |-> v]
    BY <1>2, MuxParts DEF Sound
  <1>4. n = [place |-> [p EXCEPT ![d + 1] = name], alive |-> a, counted |-> c,
             made |-> d + 1, moved |-> v]
    BY <1>1, <1>3 DEF WithEmpty
  <1>5. d \in Nat /\ d + 1 \in 0..MaxWindows /\ d + 1 \in Window
    BY <1>2, MuxParts, BoundsAssumption DEF Sound, Window
  <1>6. p \in [Window -> Workspace \cup {None}] BY <1>2, MuxParts DEF Sound
  <1>7. n \in MuxType BY <1>2, <1>4, <1>5, <1>6, MuxParts DEF Sound
  <1>8. Listed(n) = Listed(m) \cup {d + 1}
    BY <1>2, <1>4, <1>5, <1>6, NamesFinite DEF Listed
  <1>9. \A w \in Listed(n) : w <= n.made
    <2> SUFFICES ASSUME NEW w \in Listed(n) PROVE w <= d + 1 BY <1>4
    <2>1. CASE w = d + 1 BY <1>5, <2>1
    <2>2. CASE w \in Listed(m)
      <3>1. w <= d BY <1>2, <2>2 DEF Sound
      <3>2. w \in Nat BY <2>2, NamesFinite DEF Listed
      <3> QED BY <1>5, <3>1, <3>2
    <2> QED BY <1>8, <2>1, <2>2
  <1>10. d + 1 \notin a
    <2> SUFFICES ASSUME d + 1 \in a PROVE FALSE OBVIOUS
    <2>1. d + 1 <= d BY <1>2 DEF Sound
    <2> QED BY <1>5, <2>1
  <1>11. ~n.moved => n.counted = {n.place[w] : w \in n.alive}
    <2> SUFFICES ASSUME ~v PROVE c = {n.place[w] : w \in a} BY <1>4
    <2>1. c = {p[w] : w \in a} BY <1>2 DEF Sound
    <2>2. \A w \in a : n.place[w] = p[w]
      <3>1. a \subseteq Window BY <1>2, MuxParts DEF Sound
      <3> QED BY <1>4, <1>6, <1>10, <3>1
    <2> QED BY <2>1, <2>2
  <1>12. Sound(n) BY <1>2, <1>4, <1>7, <1>8, <1>9, <1>11 DEF Sound
  <1> QED BY <1>1, <1>2, <1>4, <1>5, <1>12

\* A program has started
LEMMA StartedParts ==
  ASSUME NEW m, Sound(m), NEW w \in Listed(m), NEW n,
         n = Recounted([m EXCEPT !.alive = @ \cup {w}])
  PROVE  /\ Sound(n) /\ n.place = m.place
         /\ n.alive = m.alive \cup {w} /\ n.moved = m.moved
  <1>1. PICK k : k = [m EXCEPT !.alive = @ \cup {w}] OBVIOUS
  <1>2. k \in MuxType /\ k.place = m.place /\ k.made = m.made /\ k.moved = m.moved
        /\ k.alive = m.alive \cup {w}
    BY <1>1, MuxParts DEF Sound, Listed
  <1>3. Listed(k) = Listed(m) BY <1>2 DEF Listed
  <1>4. k.alive \subseteq Listed(k) /\ \A v \in Listed(k) : v <= k.made
    BY <1>2, <1>3 DEF Sound
  <1>5. n = Recounted(k) BY <1>1
  <1> QED BY <1>2, <1>4, <1>5, RecountedParts

LEMMA MovedParts ==
  ASSUME NEW m, Sound(m), NEW w \in Listed(m), NEW name \in Workspace, NEW n,
         n = [m EXCEPT !.place[w] = name, !.moved = TRUE]
  PROVE  Sound(n) /\ n.moved
  <1>1. PICK p, a, c, d, v : /\ p = m.place /\ a = m.alive /\ c = m.counted
                             /\ d = m.made /\ v = m.moved
    OBVIOUS
  <1>2. m = [place |-> p, alive |-> a, counted |-> c, made |-> d, moved |-> v]
    BY <1>1, MuxParts DEF Sound
  <1>3. n = [place |-> [p EXCEPT ![w] = name], alive |-> a, counted |-> c, made |-> d,
             moved |-> TRUE]
    BY <1>2
  <1>4. p \in [Window -> Workspace \cup {None}] BY <1>1, MuxParts DEF Sound
  <1>5. n \in MuxType BY <1>1, <1>3, <1>4, MuxParts DEF Sound
  <1>6. Listed(n) = Listed(m) BY <1>1, <1>3, <1>4, NamesFinite DEF Listed
  <1> QED BY <1>1, <1>3, <1>5, <1>6 DEF Sound

LEMMA RenamedParts ==
  ASSUME NEW m, Sound(m), NEW old \in Workspace, NEW new \in Workspace, NEW n,
         n = Recounted([m EXCEPT !.place =
                          [w \in Window |-> IF w \in InWorkspace(m, old) THEN new ELSE @[w]]])
  PROVE  /\ Sound(n) /\ n.alive = m.alive /\ n.moved = m.moved
         /\ \A w \in Window : n.place[w] = IF m.place[w] = old THEN new ELSE m.place[w]
  <1>1. PICK p, q : /\ p = m.place
                    /\ q = [w \in Window |-> IF w \in InWorkspace(m, old) THEN new ELSE p[w]]
    OBVIOUS
  <1>2. PICK k : k = [m EXCEPT !.place = q] OBVIOUS
  <1>3. p \in [Window -> Workspace \cup {None}] BY <1>1, MuxParts DEF Sound
  <1>4. \A w \in Window : q[w] = IF p[w] = old THEN new ELSE p[w]
    BY <1>1 DEF InWorkspace
  <1>5. q \in [Window -> Workspace \cup {None}]
    <2>1. \A w \in Window : q[w] \in Workspace \cup {None} BY <1>3, <1>4
    <2>2. q = [w \in Window |-> q[w]] BY <1>1
    <2> QED BY <2>1, <2>2
  <1>6. k \in MuxType /\ k.place = q /\ k.alive = m.alive /\ k.made = m.made
        /\ k.moved = m.moved
    BY <1>2, <1>5, MuxParts DEF Sound
  <1>7. Listed(k) = Listed(m) BY <1>1, <1>3, <1>4, <1>6, NamesFinite DEF Listed
  <1>8. k.alive \subseteq Listed(k) /\ \A w \in Listed(k) : w <= k.made
    BY <1>6, <1>7 DEF Sound
  <1>9. n = Recounted(k) BY <1>1, <1>2
  <1>10. Sound(n) /\ n.place = k.place /\ n.alive = k.alive /\ n.moved = k.moved
    BY <1>6, <1>8, <1>9, RecountedParts
  <1> QED BY <1>1, <1>4, <1>6, <1>10

\* What TypeOK says, by the names used here
LEMMA TypedParts ==
  Typed <=> /\ Sound(mux) /\ Jobs(tasks)
            /\ active \in Workspace /\ known \in KnownType /\ spawned \subseteq Window
            /\ switching \in BOOLEAN /\ shows \in KnownType
            /\ opening \in Seq(OpeningType) /\ starting \subseteq StartingType
            /\ events \in 0..MaxEvents
  BY DEF Typed, TypeOK, Sound, MuxType, KnownType, OpeningType, StartingType

LEMMA TypedThen ==
  ASSUME Sound(mux'), Jobs(tasks'),
         active' \in Workspace, known' \in KnownType, spawned' \subseteq Window,
         switching' \in BOOLEAN, shows' \in KnownType,
         opening' \in Seq(OpeningType), starting' \subseteq StartingType,
         events' \in 0..MaxEvents
  PROVE  Typed'
  BY DEF Typed, TypeOK, Sound, MuxType, KnownType, OpeningType, StartingType

LEMMA TypedAtFirst ==
  ASSUME Init
  PROVE  Typed
  <1>1. 1 \in Window /\ 1 \in Workspace /\ 1 \in 0..MaxWindows /\ None # 1
    BY BoundsAssumption DEF Window, Workspace, None
  <1>2. PICK p : p = [w \in Window |-> IF w = 1 THEN 1 ELSE None] OBVIOUS
  <1>3. PICK m : m = mux OBVIOUS
  <1>4. m = [place |-> p, alive |-> {1}, counted |-> {1}, made |-> 1, moved |-> FALSE]
    BY <1>2, <1>3 DEF Init
  <1>5. p \in [Window -> Workspace \cup {None}] /\ p[1] = 1 BY <1>1, <1>2
  <1>6. m \in MuxType BY <1>1, <1>4, <1>5, MuxParts
  <1>7. Listed(m) = {1} BY <1>1, <1>2, <1>4, <1>5 DEF Listed
  <1>8. Sound(mux)
    <2>1. m.counted = {1} /\ m.place[1] = 1 /\ m.alive = {1} BY <1>4, <1>5
    <2>2. m.counted = {m.place[w] : w \in m.alive} BY <2>1
    <2>3. m.alive \subseteq Listed(m) /\ \A w \in Listed(m) : w <= m.made
      <3>1. m.made = 1 /\ 1 <= 1 BY <1>4
      <3> QED BY <1>7, <2>1, <3>1
    <2>4. ~m.moved => m.counted = {m.place[w] : w \in m.alive} BY <2>2
    <2>5. Sound(m) BY <1>6, <2>3, <2>4, Zenon DEF Sound
    <2> QED BY <1>3, <2>5
  <1>9. Jobs(tasks) BY OneJob DEF Init, Job
  <1>10. known \in KnownType /\ shows \in KnownType BY DEF Init, KnownType
  <1>11. events \in 0..MaxEvents BY BoundsAssumption DEF Init
  <1>12. opening \in Seq(OpeningType) BY DEF Init
  <1> QED BY <1>1, <1>8, <1>9, <1>10, <1>11, <1>12, TypedParts DEF Init

LEMMA KeptTyped ==
  ASSUME NEW kn, spawned \subseteq Window
  PROVE  Kept(kn) \subseteq Window
  BY DEF Kept

LEMMA TaskTyped ==
  ASSUME Typed, RunTask, events' = events
  PROVE  Typed'
  <1> USE TypedParts, TypedThen
  <1>1. Sound(mux) => mux \in MuxType BY DEF Sound
  <1>2. ASSUME NEW type, NextIs(type)
        PROVE  Job(Head(tasks)) /\ Jobs(Tail(tasks)) /\ Head(tasks).type = type
    BY <1>2, MoreJobs DEF NextIs
  <1>3. CASE RunReconcile
    <2>1. PICK q : q = Tail(tasks) OBVIOUS
    <2>2. Jobs(q) /\ UnlessSwitching(known, q) /\ mux' = mux BY <1>2, <1>3, <2>1 DEF RunReconcile
    <2>3. active' \in Workspace /\ known' \in KnownType /\ Jobs(tasks')
      BY <1>1, <2>2, UnlessSwitchingTyped
    <2>4. spawned' \subseteq Window BY <1>3, KeptTyped DEF RunReconcile
    <2> QED BY <1>3, <2>2, <2>3, <2>4 DEF RunReconcile
  <1>4. CASE RunShow
    <2>1. PICK t, q : t = Head(tasks) /\ q = Tail(tasks) OBVIOUS
    <2>2. Job(t) /\ Jobs(q) /\ t.type = "show" BY <1>2, <1>4, <2>1 DEF RunShow
    <2>3. t.on \in GuiWindow /\ t.window \in Window BY <2>2, JobParts
    <2>4. shows' \in KnownType BY <1>4, <2>1, <2>3 DEF RunShow, KnownType
    <2> QED BY <1>4, <2>1, <2>2, <2>4 DEF RunShow
  <1>5. CASE RunClose
    <2>1. PICK t, q, i : t = Head(tasks) /\ q = Tail(tasks) /\ i = t.on OBVIOUS
    <2>2. Job(t) /\ Jobs(q) /\ t.type = "close" BY <1>2, <1>5, <2>1 DEF RunClose
    <2>3. i \in GuiWindow BY <2>1, <2>2, JobParts
    <2>4. PICK kn : kn = [known EXCEPT ![i] = None] OBVIOUS
    <2>5. kn \in KnownType BY <2>3, <2>4 DEF KnownType
    <2>6. mux' = mux /\ (\/ UNCHANGED <<active, known>> /\ tasks' = q
                         \/ UnlessSwitching(kn, q))
      BY <1>5, <2>1, <2>4 DEF RunClose
    <2>7. active' \in Workspace /\ known' \in KnownType /\ Jobs(tasks')
      BY <1>1, <2>2, <2>5, <2>6, UnlessSwitchingTyped
    <2>8. spawned' \subseteq Window BY <1>5, <2>1, <2>4, KeptTyped DEF RunClose
    <2>9. shows' \in KnownType BY <1>5, <2>1, <2>3 DEF RunClose, KnownType
    <2> QED BY <1>5, <2>6, <2>7, <2>8, <2>9 DEF RunClose
  <1>6. CASE RunOpen
    <2>1. PICK t, q, ws : t = Head(tasks) /\ q = Tail(tasks) /\ ws = t.windows OBVIOUS
    <2>2. Job(t) /\ Jobs(q) /\ t.type = "open" BY <1>2, <1>6, <2>1 DEF RunOpen
    <2>3. ws \in Seq(Window) BY <2>1, <2>2, JobParts
    <2>4. GoOn(ws, spawned, opening) BY <1>6, <2>1 DEF RunOpen
    <2>5. switching' \in BOOLEAN /\ spawned' \subseteq Window /\ opening' \in Seq(OpeningType)
      BY <2>3, <2>4, GoOnTyped
    <2> QED BY <1>6, <2>1, <2>2, <2>5 DEF RunOpen
  <1>7. CASE RunSpawn
    <2>1. PICK t, q : t = Head(tasks) /\ q = Tail(tasks) OBVIOUS
    <2>2. Job(t) /\ Jobs(q) /\ t.type = "spawn" BY <1>2, <1>7, <2>1 DEF RunSpawn
    <2>3. t.to \in Workspace BY <2>2, JobParts
    <2>4. CASE mux.made < MaxWindows
      <3>1. mux' = WithEmpty(mux, active) BY <1>7, <2>4 DEF RunSpawn
      <3>2. Sound(mux') /\ mux.made + 1 \in Window BY <2>4, <3>1, WithEmptyParts
      <3>3. PICK s : s = [window |-> mux.made + 1, to |-> t.to] OBVIOUS
      <3>4. s \in StartingType BY <2>3, <3>2, <3>3 DEF StartingType
      <3>5. starting' = starting \cup {s} /\ tasks' = q BY <1>7, <2>1, <2>4, <3>3 DEF RunSpawn
      <3> QED BY <1>7, <2>2, <2>4, <3>2, <3>4, <3>5 DEF RunSpawn
    <2>5. CASE ~(mux.made < MaxWindows)
      <3>1. mux' = mux /\ SwitchWorkspace(t.to, q) BY <1>7, <2>1, <2>5 DEF RunSpawn
      <3>2. /\ active' \in Workspace /\ known' \in KnownType /\ Jobs(tasks')
            /\ spawned' \subseteq Window /\ switching' \in BOOLEAN
        BY <1>1, <2>2, <2>3, <3>1, SwitchTyped DEF Typed
      <3> QED BY <1>7, <2>5, <3>1, <3>2 DEF RunSpawn
    <2> QED BY <2>4, <2>5
  <1>8. CASE RunSwitch
    <2>1. PICK t, q : t = Head(tasks) /\ q = Tail(tasks) OBVIOUS
    <2>2. Job(t) /\ Jobs(q) /\ t.type = "switch" BY <1>2, <1>8, <2>1 DEF RunSwitch
    <2>3. t.to \in Workspace BY <2>2, JobParts
    <2>4. mux' = mux /\ SwitchWorkspace(t.to, q) BY <1>8, <2>1 DEF RunSwitch
    <2>5. /\ active' \in Workspace /\ known' \in KnownType /\ Jobs(tasks')
          /\ spawned' \subseteq Window /\ switching' \in BOOLEAN
      BY <1>1, <2>2, <2>3, <2>4, SwitchTyped DEF Typed
    <2> QED BY <1>8, <2>4, <2>5 DEF RunSwitch
  <1> QED BY <1>3, <1>4, <1>5, <1>6, <1>7, <1>8 DEF RunTask

\* An opening that is done with, or has failed
LEMMA OthersTyped ==
  ASSUME opening \in Seq(OpeningType), NEW k \in DOMAIN opening
  PROVE  /\ opening[k].window \in Window /\ opening[k].rest \in Seq(Window)
         /\ RemoveAt(opening, k) \in Seq(OpeningType)
  <1>1. Len(opening) \in Nat /\ DOMAIN opening = 1..Len(opening) BY LenProperties
  <1>2. opening[k] \in OpeningType BY <1>1, ElementOfSeq
  <1>3. RemoveAt(opening, k) \in Seq(OpeningType) BY <1>1, RemoveAtParts
  <1> QED BY <1>2, <1>3 DEF OpeningType

LEMMA OpenedTyped ==
  ASSUME Typed, NEW k \in DOMAIN opening, Opened(k), events' = events
  PROVE  Typed'
  <1> USE TypedParts, TypedThen
  <1>1. Sound(mux) => mux \in MuxType BY DEF Sound
  <1>2. PICK w, rest, others : /\ w = opening[k].window /\ rest = opening[k].rest
                               /\ others = RemoveAt(opening, k)
    OBVIOUS
  <1>3. w \in Window /\ rest \in Seq(Window) /\ others \in Seq(OpeningType)
    BY <1>2, OthersTyped
  <1>4. PICK i \in GuiWindow :
          /\ shows' = [shows EXCEPT ![i] = w]
          /\ UnlessSwitching([known EXCEPT ![i] = w], tasks)
          /\ GoOn(rest, Kept([known EXCEPT ![i] = w]), others)
    BY <1>2 DEF Opened
  <1>5. PICK kn : kn = [known EXCEPT ![i] = w] OBVIOUS
  <1>6. kn \in KnownType BY <1>3, <1>5 DEF KnownType
  <1>7. mux' = mux /\ starting' = starting BY DEF Opened
  <1>8. UnlessSwitching(kn, tasks) BY <1>4, <1>5
  <1>9. active' \in Workspace /\ known' \in KnownType /\ Jobs(tasks')
    BY <1>1, <1>6, <1>7, <1>8, UnlessSwitchingTyped
  <1>10. PICK claimed : claimed = Kept(kn) OBVIOUS
  <1>11. claimed \subseteq Window BY <1>10, KeptTyped
  <1>12. GoOn(rest, claimed, others) BY <1>4, <1>5, <1>10
  <1>13. switching' \in BOOLEAN /\ spawned' \subseteq Window /\ opening' \in Seq(OpeningType)
    BY <1>3, <1>11, <1>12, GoOnTyped
  <1>14. shows' \in KnownType BY <1>3, <1>4 DEF KnownType
  <1> QED BY <1>7, <1>9, <1>13, <1>14

LEMMA OpenFailsTyped ==
  ASSUME Typed, NEW k \in DOMAIN opening, OpenFails(k), events' \in 0..MaxEvents
  PROVE  Typed'
  <1> USE TypedParts, TypedThen
  <1>1. PICK w, rest, others, claimed :
          /\ w = opening[k].window /\ rest = opening[k].rest
          /\ others = RemoveAt(opening, k) /\ claimed = spawned \ {w}
    OBVIOUS
  <1>2. w \in Window /\ rest \in Seq(Window) /\ others \in Seq(OpeningType)
    BY <1>1, OthersTyped
  <1>3. mux' = Removed(mux, w) BY <1>1 DEF OpenFails
  <1>4. Sound(mux') BY <1>2, <1>3, RemovedParts
  <1>5. tasks' \in {tasks, Notified(tasks)} BY DEF OpenFails
  <1>6. Jobs(tasks') BY <1>5, MoreJobs
  <1>7. claimed \subseteq Window BY <1>1
  <1>8. GoOn(rest, claimed, others) BY <1>1 DEF OpenFails
  <1>9. switching' \in BOOLEAN /\ spawned' \subseteq Window /\ opening' \in Seq(OpeningType)
    BY <1>2, <1>7, <1>8, GoOnTyped
  <1> QED BY <1>4, <1>6, <1>9 DEF OpenFails

LEMMA AnnounceTyped ==
  ASSUME Typed, mux' \in MuxType, NEW s \in starting, Announce(s)
  PROVE  /\ active' \in Workspace /\ known' \in KnownType /\ Jobs(tasks')
         /\ spawned' \subseteq Window /\ switching' \in BOOLEAN
  <1> USE TypedParts
  <1>1. s.to \in Workspace \cup {None} BY DEF StartingType
  <1>2. PICK q : q = Notified(tasks) OBVIOUS
  <1>3. Jobs(q) BY <1>2, MoreJobs
  <1>4. CASE s.to = None BY <1>2, <1>3, <1>4 DEF Announce
  <1>5. CASE s.to # None
    <2>1. SwitchWorkspace(s.to, q) BY <1>2, <1>5 DEF Announce
    <2>2. TypeOK BY DEF Typed
    <2> QED BY <1>1, <1>3, <1>5, <2>1, <2>2, SwitchTyped
  <1> QED BY <1>4, <1>5

LEMMA StartedTyped ==
  ASSUME Typed, NEW s \in starting, Started(s), events' = events
  PROVE  Typed'
  <1> USE TypedParts, TypedThen
  <1>1. s.window \in Listed(mux) /\ mux' = Recounted([mux EXCEPT !.alive = @ \cup {s.window}])
    BY DEF Started
  <1>2. PICK m, w, n : m = mux /\ w = s.window /\ n = mux' OBVIOUS
  <1>3. Sound(n)
    <2>1. Sound(m) /\ w \in Listed(m) /\ n = Recounted([m EXCEPT !.alive = @ \cup {w}])
      BY <1>1, <1>2
    <2> QED BY <2>1, StartedParts
  <1>4. mux' \in MuxType BY <1>2, <1>3 DEF Sound
  <1>5. /\ active' \in Workspace /\ known' \in KnownType /\ Jobs(tasks')
        /\ spawned' \subseteq Window /\ switching' \in BOOLEAN
    BY <1>4, AnnounceTyped DEF Started
  <1>6. starting' \subseteq StartingType BY DEF Started
  <1> QED BY <1>2, <1>3, <1>5, <1>6 DEF Started

LEMMA StartFailsTyped ==
  ASSUME Typed, NEW s \in starting, StartFails(s), events' \in 0..MaxEvents
  PROVE  Typed'
  <1> USE TypedParts, TypedThen
  <1>1. mux' = mux /\ Sound(mux) BY DEF StartFails
  <1>2. mux' \in MuxType BY <1>1 DEF Sound
  <1>3. /\ active' \in Workspace /\ known' \in KnownType /\ Jobs(tasks')
        /\ spawned' \subseteq Window /\ switching' \in BOOLEAN
    BY <1>2, AnnounceTyped DEF StartFails
  <1>4. starting' \subseteq StartingType BY DEF StartFails
  <1> QED BY <1>1, <1>3, <1>4 DEF StartFails

LEMMA PrunedTyped ==
  ASSUME Typed, NEW w \in Window, Pruned(w), events' \in 0..MaxEvents
  PROVE  Typed'
  <1> USE TypedParts, TypedThen
  <1>1. Sound(mux') BY RemovedParts DEF Pruned
  <1>2. Jobs(tasks') BY MoreJobs DEF Pruned
  <1> QED BY <1>1, <1>2 DEF Pruned

LEMMA UserTyped ==
  ASSUME Typed, events' \in 0..MaxEvents,
         \/ \E name \in Workspace : SpawnWindow(name) \/ SwitchToWorkspace(name)
         \/ \E i \in GuiWindow : CloseRequested(i)
         \/ \E w \in Window, name \in Workspace : SetWorkspace(w, name)
         \/ \E old, new \in Workspace : RenameWorkspace(old, new)
         \/ PanesChange
  PROVE  Typed'
  <1> USE TypedParts, TypedThen
  <1>1. mux \in MuxType BY DEF Sound
  <1>2. ASSUME NEW name \in Workspace, SpawnWindow(name) PROVE Typed'
    <2>1. mux.made < MaxWindows /\ mux' = WithEmpty(mux, name) BY <1>2 DEF SpawnWindow
    <2>2. Sound(mux') /\ mux.made + 1 \in Window BY <2>1, WithEmptyParts
    <2>3. PICK s : s = [window |-> mux.made + 1, to |-> None] OBVIOUS
    <2>4. s \in StartingType BY <2>2, <2>3 DEF StartingType
    <2>5. starting' = starting \cup {s} BY <1>2, <2>3 DEF SpawnWindow
    <2> QED BY <1>2, <2>2, <2>4, <2>5 DEF SpawnWindow
  <1>3. ASSUME NEW name \in Workspace, SwitchToWorkspace(name) PROVE Typed'
    <2>1. mux' = mux /\ Sound(mux') BY <1>3 DEF SwitchToWorkspace
    <2>2. CASE InWorkspace(mux, name) = {}
      <3>1. PICK q, t : q = Notified(tasks) /\ t = SpawnThenSwitch(name) OBVIOUS
      <3>2. Jobs(q) /\ Job(t) BY <3>1, MoreJobs DEF Job
      <3>3. tasks' = Append(q, t) BY <1>3, <2>2, <3>1 DEF SwitchToWorkspace
      <3>4. Jobs(tasks') BY <3>2, <3>3, MoreJobs
      <3> QED BY <1>3, <2>1, <2>2, <3>4 DEF SwitchToWorkspace
    <2>3. CASE InWorkspace(mux, name) # {}
      <3>1. SwitchWorkspace(name, tasks) BY <1>3, <2>3 DEF SwitchToWorkspace
      <3>2. TypeOK BY DEF Typed
      <3>3. /\ active' \in Workspace /\ known' \in KnownType /\ Jobs(tasks')
            /\ spawned' \subseteq Window /\ switching' \in BOOLEAN
        BY <1>1, <2>1, <3>1, <3>2, SwitchTyped
      <3> QED BY <1>3, <2>1, <3>3 DEF SwitchToWorkspace
    <2> QED BY <2>2, <2>3
  <1>4. ASSUME NEW i \in GuiWindow, CloseRequested(i) PROVE Typed'
    <2>1. PICK kn, w, q, r :
            /\ kn = [known EXCEPT ![i] = None] /\ w = shows[i]
            /\ q = IF w \in Listed(mux) THEN Notified(tasks) ELSE tasks
            /\ r = Append(q, Close(i))
      OBVIOUS
    <2>2. /\ w # None /\ mux' = Removed(mux, w) /\ UnlessSwitching(kn, r)
          /\ spawned' = Kept(kn)
      BY <1>4, <2>1 DEF CloseRequested
    <2>3. kn \in KnownType /\ w \in Window BY <2>1, <2>2 DEF KnownType
    <2>4. Sound(mux') BY <2>2, <2>3, RemovedParts
    <2>5. Jobs(r)
      <3>1. Jobs(q) BY <2>1, MoreJobs
      <3>2. Job(Close(i)) BY DEF Job
      <3> QED BY <2>1, <3>1, <3>2, MoreJobs
    <2>6. mux' \in MuxType BY <2>4 DEF Sound
    <2>7. active' \in Workspace /\ known' \in KnownType /\ Jobs(tasks')
      BY <2>2, <2>3, <2>5, <2>6, UnlessSwitchingTyped
    <2>8. spawned' \subseteq Window BY <2>2, KeptTyped
    <2> QED BY <1>4, <2>4, <2>7, <2>8 DEF CloseRequested
  <1>5. ASSUME NEW w \in Window, NEW name \in Workspace, SetWorkspace(w, name) PROVE Typed'
    <2>1. PICK m, n : m = mux /\ n = mux' OBVIOUS
    <2>2. Sound(m) /\ w \in Listed(m) /\ n = [m EXCEPT !.place[w] = name, !.moved = TRUE]
      BY <1>5, <2>1 DEF SetWorkspace, Listed
    <2>3. Sound(n) BY <2>2, MovedParts
    <2>4. Jobs(tasks') BY <1>5, MoreJobs DEF SetWorkspace
    <2> QED BY <1>5, <2>1, <2>3, <2>4 DEF SetWorkspace
  <1>6. ASSUME NEW old \in Workspace, NEW new \in Workspace, RenameWorkspace(old, new)
        PROVE  Typed'
    <2>1. PICK m, n : m = mux /\ n = mux' OBVIOUS
    <2>2. Sound(m) /\ n = Recounted([m EXCEPT !.place =
                            [w \in Window |-> IF w \in InWorkspace(m, old) THEN new ELSE @[w]]])
      BY <1>6, <2>1 DEF RenameWorkspace
    <2>3. Sound(n) BY <2>2, RenamedParts
    <2>4. PICK q : q = IF active \in {old, new} THEN Append(tasks, Switch(new)) ELSE tasks
      OBVIOUS
    <2>5. Jobs(q)
      <3>1. Job(Switch(new)) BY DEF Job
      <3> QED BY <2>4, <3>1, MoreJobs
    <2>6. tasks' \in {q, Notified(q)} BY <1>6, <2>4 DEF RenameWorkspace
    <2>7. Jobs(tasks') BY <2>5, <2>6, MoreJobs
    <2> QED BY <1>6, <2>1, <2>3, <2>7 DEF RenameWorkspace
  <1>7. CASE PanesChange
    <2>1. mux' = Recounted(mux) BY <1>7 DEF PanesChange
    <2>2. Sound(mux') BY <1>1, <2>1, RecountedParts DEF Sound
    <2> QED BY <1>7, <2>2 DEF PanesChange
  <1> QED BY <1>2, <1>3, <1>4, <1>5, <1>6, <1>7

LEMMA NextTyped == Typed /\ [Next]_vars => Typed'
  <1> SUFFICES ASSUME Typed, [Next]_vars PROVE Typed'
    OBVIOUS
  <1>1. events \in 0..MaxEvents /\ mux \in MuxType BY TypedParts DEF Sound
  <1>2. \A w \in mux.alive : w \in Window BY <1>1, MuxParts
  <1>3. CASE Proceed
    <2>1. events' = events /\ events' \in 0..MaxEvents BY <1>1, <1>3 DEF Proceed
    <2>2. CASE RunTask BY <2>1, <2>2, TaskTyped
    <2>3. CASE \E k \in DOMAIN opening : Opened(k) BY <2>1, <2>3, OpenedTyped
    <2>4. CASE \E k \in DOMAIN opening : OpenFails(k) BY <2>1, <2>4, OpenFailsTyped
    <2>5. CASE \E s \in starting : Started(s) BY <2>1, <2>5, StartedTyped
    <2>6. CASE \E s \in starting : StartFails(s) BY <2>1, <2>6, StartFailsTyped
    <2>7. CASE \E w \in Listed(mux) \ mux.alive : Pruned(w)
      BY <2>1, <2>7, PrunedTyped DEF Listed
    <2> QED BY <1>3, <2>2, <2>3, <2>4, <2>5, <2>6, <2>7 DEF Proceed
  <1>4. CASE Event
    <2>1. events' \in 0..MaxEvents
      <3>1. events > 0 /\ events' = events - 1 BY <1>4 DEF Event
      <3> QED BY <1>1, <3>1, BoundsAssumption
    <2>2. CASE \/ \E name \in Workspace : SpawnWindow(name) \/ SwitchToWorkspace(name)
               \/ \E i \in GuiWindow : CloseRequested(i)
               \/ \E w \in Window, name \in Workspace : SetWorkspace(w, name)
               \/ \E old, new \in Workspace : RenameWorkspace(old, new)
               \/ PanesChange
      BY <2>1, <2>2, UserTyped
    <2>3. CASE \E k \in DOMAIN opening : OpenFails(k) BY <2>1, <2>3, OpenFailsTyped
    <2>4. CASE \E s \in starting : StartFails(s) BY <2>1, <2>4, StartFailsTyped
    <2>5. CASE \E w \in mux.alive : Pruned(w) BY <1>2, <2>1, <2>5, PrunedTyped
    <2> QED BY <1>4, <2>2, <2>3, <2>4, <2>5 DEF Event
  <1>5. CASE UNCHANGED vars
    <2>1. /\ mux' = mux /\ tasks' = tasks /\ active' = active /\ known' = known
          /\ spawned' = spawned /\ switching' = switching /\ shows' = shows
          /\ opening' = opening /\ starting' = starting /\ events' = events
      BY <1>5 DEF vars
    <2> QED BY <2>1, TypedParts, TypedThen
  <1> QED BY <1>3, <1>4, <1>5 DEF Next

\* Type correctness, for any number of windows, GUI windows and workspaces: what is
\* assigned, claimed, told and opened are windows, the active workspace is one of the
\* workspaces, and a name is never taken twice (frontend.rs, mux/src/lib.rs).
THEOREM FrontEndTyped == Spec => []TypeOK
  <1>1. Init => Typed BY TypedAtFirst
  <1>2. Typed => TypeOK BY DEF Typed
  <1> QED BY <1>1, <1>2, NextTyped, PTL DEF Spec

-----------------------------------------------------------------------------
(* What GUI windows are told.  One that shows sh when the queue is q will, *)
(* told what is in q, end with w: the last it is told is to show w, and    *)
(* nothing closes it that is still to show anything.                       *)

Told(q, i, sh, w) ==
  /\ sh = None => w = None
  /\ Member(q, Close(i)) => w = None
  /\ sh \notin {None, w} => Member(q, Order(i, w))
  /\ w # None => \A k \in DOMAIN q : \A v : q[k] = Show(i, v) /\ v # w =>
                   \E l \in DOMAIN q : k < l /\ q[l] = Show(i, w)

\* What the GUI windows show is what the front end believes, but for what they are
\* still to be told
Agree == \A i \in GuiWindow : Told(tasks, i, shows[i], known[i])

\* A task that tells GUI window i something
About(t, i) == t = Close(i) \/ \E v : t = Show(i, v)

LEMMA Distinct ==
  /\ \A i, j, v, u : Show(i, v) = Show(j, u) => i = j /\ v = u
  /\ \A i, j : Close(i) = Close(j) => i = j
  /\ \A i, j, v : Show(i, v) # Close(j)
  /\ \A t, i : About(t, i) => t.type \in {"show", "close"} /\ t.on = i
  /\ \A i, w : About(Order(i, w), i)
  <1>1. \A i, j, v, u : Show(i, v) = Show(j, u) => i = j /\ v = u
    <2>1. \A i, v : Show(i, v).on = i /\ Show(i, v).window = v BY DEF Show
    <2> QED BY <2>1
  <1>2. \A i, j : Close(i) = Close(j) => i = j
    <2>1. \A i : Close(i).on = i BY DEF Close
    <2> QED BY <2>1
  <1>3. \A i, j, v : Show(i, v) # Close(j)
    <2>1. (\A i, v : Show(i, v).type = "show") /\ (\A i : Close(i).type = "close")
      BY DEF Show, Close
    <2> QED BY <2>1
  <1>4. \A t, i : About(t, i) => t.type \in {"show", "close"} /\ t.on = i
    BY DEF About, Show, Close
  <1>5. \A i, w : About(Order(i, w), i) BY DEF About, Order
  <1> QED BY <1>1, <1>2, <1>3, <1>4, <1>5

\* Told in p what is to be shown now, if that is something else, and nothing else
LEMMA ToldMore ==
  ASSUME NEW q, NEW p, Queued(q), Queued(p), NEW i, NEW sh, NEW w, NEW w2,
         Told(q, i, sh, w), w = None => w2 = None,
         w2 # w => Member(p, Order(i, w2)),
         \A t : Member(p, t) /\ About(t, i) => w2 # w /\ t = Order(i, w2)
  PROVE  Queued(q \o p) /\ Told(q \o p, i, sh, w2)
  <1> DEFINE r == q \o p
  <1>1. /\ Queued(r)
        /\ \A k \in DOMAIN r :
             \/ k \in DOMAIN q /\ r[k] = q[k]
             \/ k - Len(q) \in DOMAIN p /\ r[k] = p[k - Len(q)]
        /\ DOMAIN q \subseteq DOMAIN r
        /\ \A k \in DOMAIN q : r[k] = q[k]
    BY Joined
  <1>2. /\ Len(q) \in Nat /\ Len(p) \in Nat /\ DOMAIN q = 1..Len(q) /\ DOMAIN p = 1..Len(p)
        /\ \A k \in DOMAIN p : Len(q) + k \in DOMAIN r /\ r[Len(q) + k] = p[k]
    <2>1. Len(q) \in Nat /\ Len(p) \in Nat /\ DOMAIN q = 1..Len(q) /\ DOMAIN p = 1..Len(p)
      BY QueuedIsSeq
    <2>2. /\ Len(r) = Len(q) + Len(p)
          /\ \A k \in 1..(Len(q) + Len(p)) : r[k] = IF k <= Len(q) THEN q[k] ELSE p[k - Len(q)]
      <3> DEFINE S == {q[k] : k \in DOMAIN q} \cup {p[k] : k \in DOMAIN p}
      <3>1. q \in Seq({q[k] : k \in DOMAIN q}) /\ p \in Seq({p[k] : k \in DOMAIN p})
        BY QueuedIsSeq
      <3>2. q \in Seq(S) /\ p \in Seq(S) BY <3>1, SeqDef
      <3> HIDE DEF S
      <3> QED BY <3>2, ConcatProperties
    <2>3. DOMAIN r = 1..Len(r) BY <1>1, QueuedIsSeq
    <2> HIDE DEF r
    <2>4. ASSUME NEW k \in DOMAIN p PROVE Len(q) + k \in DOMAIN r /\ r[Len(q) + k] = p[k]
      <3>1. k \in Nat /\ k >= 1 /\ k <= Len(p) BY <2>1
      <3>2. Len(q) + k \in 1..(Len(q) + Len(p)) /\ ~(Len(q) + k <= Len(q))
            /\ Len(q) + k - Len(q) = k
        BY <2>1, <3>1
      <3> QED BY <2>2, <2>3, <3>2
    <2> QED BY <2>1, <2>4
  <1> HIDE DEF r
  <1>3. \A t : Member(r, t) => Member(q, t) \/ Member(p, t) BY <1>1 DEF Member
  <1>4. \A t : Member(q, t) \/ Member(p, t) => Member(r, t) BY <1>1, <1>2 DEF Member
  <1>5. w # None \/ w2 = w OBVIOUS
  <1>6. sh = None => w2 = None BY DEF Told
  <1>7. Member(r, Close(i)) => w2 = None
    <2>1. CASE Member(q, Close(i)) BY <2>1 DEF Told
    <2>2. CASE Member(p, Close(i))
      <3>1. Close(i) = Order(i, w2) BY <2>2 DEF About
      <3> QED BY <3>1, Distinct DEF Order
    <2> QED BY <1>3, <2>1, <2>2
  <1>8. sh \notin {None, w2} => Member(r, Order(i, w2)) BY <1>4 DEF Told
  <1>9. ASSUME w2 # None, NEW k \in DOMAIN r, NEW v, r[k] = Show(i, v), v # w2
        PROVE  \E l \in DOMAIN r : k < l /\ r[l] = Show(i, w2)
    <2>1. CASE k \in DOMAIN q /\ r[k] = q[k]
      <3>1. CASE w2 = w
        <4>1. PICK l \in DOMAIN q : k < l /\ q[l] = Show(i, w) BY <1>9, <2>1, <3>1 DEF Told
        <4> QED BY <1>1, <3>1, <4>1
      <3>2. CASE w2 # w
        <4>1. Member(p, Show(i, w2)) BY <1>9, <3>2 DEF Order
        <4>2. PICK l \in DOMAIN p : p[l] = Show(i, w2) BY <4>1 DEF Member
        <4>3. k < Len(q) + l
          <5>1. k \in Nat /\ k <= Len(q) /\ l \in Nat /\ l >= 1 BY <1>2, <2>1
          <5> QED BY <1>2, <5>1
        <4> QED BY <1>2, <4>2, <4>3
      <3> QED BY <3>1, <3>2
    <2>2. CASE k - Len(q) \in DOMAIN p /\ r[k] = p[k - Len(q)]
      <3>1. Member(p, Show(i, v)) /\ About(Show(i, v), i) BY <1>9, <2>2 DEF Member, About
      <3>2. Show(i, v) = Show(i, w2) BY <1>9, <3>1 DEF Order
      <3> QED BY <1>9, <3>2, Distinct
    <2> QED BY <1>1, <2>1, <2>2
  <1> QED BY <1>1, <1>6, <1>7, <1>8, <1>9 DEF Told, r

\* A task about something else
LEMMA ToldSame ==
  ASSUME NEW q, Queued(q), NEW t, NEW i, ~About(t, i), NEW sh, NEW w, Told(q, i, sh, w)
  PROVE  Told(Append(q, t), i, sh, w)
  <1> DEFINE r == Append(q, t)
  <1>1. /\ DOMAIN r = 1..(Len(q) + 1) /\ DOMAIN q = 1..Len(q) /\ Len(q) \in Nat
        /\ \A k \in 1..Len(q) : r[k] = q[k]
        /\ r[Len(q) + 1] = t
    BY AppendParts, QueuedIsSeq
  <1> HIDE DEF r
  <1>2. /\ DOMAIN q \subseteq DOMAIN r
        /\ \A k \in DOMAIN q : r[k] = q[k]
        /\ \A k \in DOMAIN r : k \in DOMAIN q \/ r[k] = t
    BY <1>1
  <1>3. ~(t = Close(i)) /\ \A v : t # Show(i, v) BY DEF About
  <1>4. Member(r, Close(i)) => Member(q, Close(i)) BY <1>2, <1>3 DEF Member
  <1>5. Member(q, Order(i, w)) => Member(r, Order(i, w)) BY <1>2 DEF Member
  <1>6. ASSUME w # None, NEW k \in DOMAIN r, NEW v, r[k] = Show(i, v), v # w
        PROVE  \E l \in DOMAIN r : k < l /\ r[l] = Show(i, w)
    <2>1. k \in DOMAIN q /\ q[k] = Show(i, v) BY <1>2, <1>3, <1>6
    <2>2. PICK l \in DOMAIN q : k < l /\ q[l] = Show(i, w) BY <1>6, <2>1 DEF Told
    <2> QED BY <1>2, <2>2
  <1> QED BY <1>4, <1>5, <1>6 DEF Told, r

LEMMA ToldNotified ==
  ASSUME NEW q, Queued(q), NEW i, NEW sh, NEW w, Told(q, i, sh, w)
  PROVE  Told(Notified(q), i, sh, w)
  <1>1. ~About(Reconcile, i) BY Distinct DEF Reconcile
  <1> QED BY <1>1, ToldSame DEF Notified

\* The task at the head, and what it leaves
LEMMA ToldRest ==
  ASSUME NEW q, Queued(q), q # <<>>, NEW i, NEW sh, NEW w, Told(q, i, sh, w)
  PROVE  /\ ~About(Head(q), i) => Told(Tail(q), i, sh, w)
         /\ \A v : Head(q) = Show(i, v) /\ v # None =>
              Told(Tail(q), i, IF sh = None THEN None ELSE v, w)
         /\ Head(q) = Close(i) => w = None
  <1> DEFINE r == Tail(q)
             h == Head(q)
  <1>1. /\ Len(q) \in Nat /\ DOMAIN q = 1..Len(q) /\ 1 \in DOMAIN q
        /\ h = q[1]
        /\ DOMAIN r = 1..(Len(q) - 1)
        /\ \A k \in 1..(Len(q) - 1) : r[k] = q[k + 1]
    BY TailParts
  <1> HIDE DEF r, h
  <1>2. /\ \A k \in DOMAIN r : k \in Nat /\ k + 1 \in DOMAIN q /\ r[k] = q[k + 1]
        /\ \A k \in DOMAIN q : k = 1 \/ (k \in Nat /\ k - 1 \in DOMAIN r /\ r[k - 1] = q[k] /\ 1 < k)
    BY <1>1
  <1>3. \A t : Member(r, t) => Member(q, t) BY <1>2 DEF Member
  <1>4. \A t : Member(q, t) => t = h \/ Member(r, t) BY <1>1, <1>2 DEF Member
  <1>5. ASSUME w # None, NEW k \in DOMAIN r, NEW v, r[k] = Show(i, v), v # w
        PROVE  \E l \in DOMAIN r : k < l /\ r[l] = Show(i, w)
    <2>1. k + 1 \in DOMAIN q /\ q[k + 1] = Show(i, v) BY <1>2, <1>5
    <2>2. PICK l \in DOMAIN q : k + 1 < l /\ q[l] = Show(i, w) BY <1>5, <2>1 DEF Told
    <2>3. k \in Nat /\ l \in Nat /\ k < l - 1 BY <1>1, <1>2, <2>2
    <2>4. l - 1 \in DOMAIN r /\ r[l - 1] = q[l] BY <1>2, <2>2, <2>3
    <2> QED BY <2>2, <2>3, <2>4
  <1>6. ASSUME ~About(h, i) PROVE Told(r, i, sh, w)
    <2>1. h # Order(i, w) BY <1>6, Distinct
    <2> QED BY <1>3, <1>4, <1>5, <2>1 DEF Told
  <1>7. ASSUME NEW v, h = Show(i, v), v # None
        PROVE  Told(r, i, IF sh = None THEN None ELSE v, w)
    <2>1. PICK s2 : s2 = IF sh = None THEN None ELSE v OBVIOUS
    <2>2. s2 = None => w = None BY <1>7, <2>1 DEF Told
    <2>3. ASSUME s2 \notin {None, w} PROVE Member(r, Order(i, w))
      <3>1. sh # None /\ s2 = v /\ v # w BY <2>1, <2>3
      <3>2. CASE w = None
        <4>1. Member(q, Close(i)) BY <3>1, <3>2 DEF Told, Order
        <4>2. h # Close(i) BY <1>7, Distinct
        <4> QED BY <1>4, <3>2, <4>1, <4>2 DEF Order
      <3>3. CASE w # None
        <4>1. q[1] = Show(i, v) /\ 1 \in DOMAIN q BY <1>1, <1>7
        <4>2. PICK l \in DOMAIN q : 1 < l /\ q[l] = Show(i, w) BY <3>1, <3>3, <4>1 DEF Told
        <4>3. l # 1 BY <1>1, <4>2
        <4>4. l - 1 \in DOMAIN r /\ r[l - 1] = Show(i, w) BY <1>2, <4>2, <4>3
        <4> QED BY <3>3, <4>4 DEF Member, Order
      <3> QED BY <3>2, <3>3
    <2>4. Told(r, i, s2, w) BY <1>3, <1>5, <2>2, <2>3 DEF Told
    <2> QED BY <2>1, <2>4
  <1>8. h = Close(i) => w = None
    <2>1. Member(q, h) BY <1>1 DEF Member
    <2> QED BY <2>1 DEF Told
  <1> QED BY <1>6, <1>7, <1>8 DEF r, h

AllTold(q, sh, kn) == \A i \in GuiWindow : Told(q, i, sh[i], kn[i])

LEMMA AllToldMore ==
  ASSUME NEW q, Queued(q), NEW sh, NEW kn, AllTold(q, sh, kn)
  PROVE  /\ AllTold(Notified(q), sh, kn)
         /\ \A t : t.type \notin {"show", "close"} => AllTold(Append(q, t), sh, kn)
         /\ q # <<>> /\ Head(q).type \notin {"show", "close"} => AllTold(Tail(q), sh, kn)
  <1>1. AllTold(Notified(q), sh, kn) BY ToldNotified DEF AllTold
  <1>2. ASSUME NEW t, t.type \notin {"show", "close"} PROVE AllTold(Append(q, t), sh, kn)
    <2>1. \A i \in GuiWindow : ~About(t, i) BY <1>2, Distinct
    <2> QED BY <2>1, ToldSame DEF AllTold
  <1>3. ASSUME q # <<>>, Head(q).type \notin {"show", "close"} PROVE AllTold(Tail(q), sh, kn)
    <2>1. \A i \in GuiWindow : ~About(Head(q), i) BY <1>3, Distinct
    <2> QED BY <1>3, <2>1, ToldRest DEF AllTold
  <1> QED BY <1>1, <1>2, <1>3

\* reconcile_workspace tells the GUI windows what it has assigned them
LEMMA ReconcileAgrees ==
  ASSUME mux' \in MuxType, NEW name \in Workspace, NEW kn \in KnownType,
         NEW queue, Jobs(queue), NEW sh, AllTold(queue, sh, kn),
         ReconcileWorkspace(name, kn, queue)
  PROVE  AllTold(tasks', sh, known')
  <1>1. PICK m, a, new : m = mux' /\ a = active' /\ new = known' OBVIOUS
  <1>2. new = Assigned(kn, InWorkspace(m, a)) BY <1>1 DEF ReconcileWorkspace
  <1>3. PICK wanted : wanted = InWorkspace(m, a) OBVIOUS
  <1>4. wanted \in SUBSET Window BY <1>3 DEF InWorkspace
  <1>5. \A i \in GuiWindow : kn[i] = None => new[i] = None
    BY <1>2, <1>3, <1>4, AssignedParts DEF KnownType
  <1>6. PICK told, t, q :
          /\ told = Orders(kn, new) /\ t = Open(Sorted(wanted \ Range(new)))
          /\ q = IF a # name THEN Notified(queue) ELSE queue
    OBVIOUS
  <1>7. tasks' = q \o told \o <<t>> BY <1>1, <1>3, <1>6 DEF ReconcileWorkspace
  <1>8. Queued(q) /\ AllTold(q, sh, kn)
    <2>1. Queued(queue) BY DEF Jobs
    <2>2. Jobs(q) BY <1>6, MoreJobs
    <2> QED BY <1>6, <2>1, <2>2, AllToldMore DEF Jobs
  <1>9. /\ Queued(told)
        /\ \A x : Member(told, x) => \E i \in GuiWindow : kn[i] # new[i] /\ x = Order(i, new[i])
        /\ \A i \in GuiWindow : kn[i] # new[i] => Member(told, Order(i, new[i]))
    BY <1>6, OrdersParts
  <1>10. ASSUME NEW i \in GuiWindow
         PROVE  Queued(q \o told) /\ Told(q \o told, i, sh[i], new[i])
    <2>1. ASSUME NEW x, Member(told, x), About(x, i)
          PROVE  new[i] # kn[i] /\ x = Order(i, new[i])
      <3>1. PICK j \in GuiWindow : kn[j] # new[j] /\ x = Order(j, new[j]) BY <1>9, <2>1
      <3>2. About(x, j) BY <3>1, Distinct
      <3>3. i = j BY <2>1, <3>2, Distinct
      <3> QED BY <3>1, <3>3
    <2>2. Told(q, i, sh[i], kn[i]) BY <1>8 DEF AllTold
    <2>3. PICK w, w2, s2 : w = kn[i] /\ w2 = new[i] /\ s2 = sh[i] OBVIOUS
    <2>4. /\ Told(q, i, s2, w) /\ (w = None => w2 = None)
          /\ (w2 # w => Member(told, Order(i, w2)))
          /\ \A x : Member(told, x) /\ About(x, i) => w2 # w /\ x = Order(i, w2)
      BY <1>5, <1>9, <2>1, <2>2, <2>3
    <2>5. Queued(q \o told) /\ Told(q \o told, i, s2, w2)
      BY <1>8, <1>9, <2>4, ToldMore
    <2> QED BY <2>3, <2>5
  <1>11. ASSUME NEW i \in GuiWindow PROVE Told(tasks', i, sh[i], new[i])
    <2>1. PICK r, w, s2 : r = q \o told /\ w = new[i] /\ s2 = sh[i] OBVIOUS
    <2>2. Queued(r) /\ Told(r, i, s2, w) BY <1>10, <2>1
    <2>3. Queued(<<t>>) /\ \A x : Member(<<t>>, x) => x = t BY OneQueued DEF Member
    <2>4. ~About(t, i)
      <3>1. t.type = "open" BY <1>6 DEF Open
      <3> QED BY <3>1, Distinct
    <2>5. PICK p : p = <<t>> OBVIOUS
    <2>6. Told(r \o p, i, s2, w) BY <2>2, <2>3, <2>4, <2>5, ToldMore
    <2> QED BY <1>7, <2>1, <2>5, <2>6
  <1> QED BY <1>1, <1>11 DEF AllTold

LEMMA UnlessSwitchingAgrees ==
  ASSUME mux' \in MuxType, active \in Workspace, NEW kn \in KnownType,
         NEW queue, Jobs(queue), NEW sh, AllTold(queue, sh, kn), UnlessSwitching(kn, queue)
  PROVE  AllTold(tasks', sh, known')
  <1>1. CASE switching BY <1>1 DEF UnlessSwitching
  <1>2. CASE ~switching BY <1>2, ReconcileAgrees DEF UnlessSwitching
  <1> QED BY <1>1, <1>2

LEMMA SwitchAgrees ==
  ASSUME Typed, mux' \in MuxType, NEW name \in Workspace, NEW queue, Jobs(queue),
         NEW sh, AllTold(queue, sh, known), SwitchWorkspace(name, queue)
  PROVE  AllTold(tasks', sh, known')
  <1>1. PICK q, kn : q = Notified(queue) /\ kn = known OBVIOUS
  <1>2. Jobs(q) BY <1>1, MoreJobs
  <1>3. AllTold(q, sh, kn) BY <1>1, AllToldMore DEF Jobs
  <1>4. kn \in KnownType BY <1>1, TypedParts
  <1>5. ReconcileWorkspace(name, kn, q) BY <1>1 DEF SwitchWorkspace
  <1> QED BY <1>2, <1>3, <1>4, <1>5, ReconcileAgrees

LEMMA AgreeThen == ASSUME NEW sh, sh = shows', AllTold(tasks', sh, known') PROVE Agree'
  BY DEF AllTold, Agree

LEMMA AgreeNow == ASSUME Agree PROVE AllTold(tasks, shows, known)
  BY DEF AllTold, Agree

LEMMA TaskAgrees ==
  ASSUME Typed, Agree, RunTask PROVE Agree'
  <1>1. /\ Jobs(tasks) /\ Queued(tasks) /\ active \in Workspace /\ known \in KnownType
        /\ shows \in KnownType /\ mux \in MuxType
    BY TypedParts DEF Jobs, Sound
  <1>2. AllTold(tasks, shows, known) BY AgreeNow
  <1>3. PICK t, q, sh, kn : t = Head(tasks) /\ q = Tail(tasks) /\ sh = shows /\ kn = known
    OBVIOUS
  <1>4. ASSUME NEW type, NextIs(type)
        PROVE  /\ tasks # <<>> /\ Job(t) /\ Jobs(q) /\ t.type = type
               /\ type \notin {"show", "close"} => AllTold(q, sh, kn)
    <2>1. tasks # <<>> /\ t.type = type BY <1>3, <1>4 DEF NextIs
    <2>2. Job(t) /\ Jobs(q) BY <1>1, <1>3, <2>1, MoreJobs
    <2>3. PICK q0 : q0 = tasks OBVIOUS
    <2>4. /\ Queued(q0) /\ AllTold(q0, sh, kn) /\ q0 # <<>> /\ t = Head(q0) /\ q = Tail(q0)
      BY <1>1, <1>2, <1>3, <2>1, <2>3
    <2>5. type \notin {"show", "close"} => AllTold(q, sh, kn) BY <2>1, <2>4, AllToldMore
    <2> QED BY <2>1, <2>2, <2>5
  <1>5. CASE RunReconcile
    <2>1. /\ NextIs("reconcile") /\ UnlessSwitching(kn, q) /\ mux' = mux /\ shows' = sh
      BY <1>3, <1>5 DEF RunReconcile
    <2>2. AllTold(tasks', sh, known')
      BY <1>1, <1>3, <1>4, <2>1, UnlessSwitchingAgrees
    <2> QED BY <2>1, <2>2, AgreeThen
  <1>6. CASE RunShow
    <2>1. PICK i, v, s2 : i = t.on /\ v = t.window /\ s2 = shows' OBVIOUS
    <2>2. /\ NextIs("show") /\ tasks' = q /\ known' = kn
          /\ s2 = [sh EXCEPT ![i] = IF @ = None THEN None ELSE v]
      BY <1>3, <1>6, <2>1 DEF RunShow
    <2>3. i \in GuiWindow /\ v \in Window /\ t = Show(i, v) BY <1>4, <2>1, <2>2, JobParts
    <2>4. v # None BY <2>3, NamesFinite
    <2>5. ASSUME NEW j \in GuiWindow PROVE Told(q, j, s2[j], kn[j])
      <3>1. PICK q0, s1, w : q0 = tasks /\ s1 = sh[j] /\ w = kn[j] OBVIOUS
      <3>2. /\ Queued(q0) /\ q0 # <<>> /\ Told(q0, j, s1, w)
            /\ t = Head(q0) /\ q = Tail(q0)
        BY <1>1, <1>2, <1>3, <1>4, <2>2, <3>1 DEF AllTold
      <3>3. CASE j = i
        <4>1. Told(q, j, IF s1 = None THEN None ELSE v, w)
          BY <2>3, <2>4, <3>2, <3>3, ToldRest
        <4>2. s2[j] = IF s1 = None THEN None ELSE v
          BY <1>1, <1>3, <2>2, <2>3, <3>1, <3>3 DEF KnownType
        <4> QED BY <3>1, <4>1, <4>2
      <3>4. CASE j # i
        <4>1. ~About(t, j) BY <2>3, <3>4, Distinct DEF About
        <4>2. Told(q, j, s1, w) BY <3>2, <4>1, ToldRest
        <4>3. s2[j] = s1 BY <1>1, <1>3, <2>2, <3>1, <3>4 DEF KnownType
        <4> QED BY <3>1, <4>2, <4>3
      <3> QED BY <3>3, <3>4
    <2> QED BY <2>1, <2>2, <2>5, AgreeThen DEF AllTold
  <1>7. CASE RunClose
    <2>1. PICK i, k2, s2 : i = t.on /\ k2 = [kn EXCEPT ![i] = None] /\ s2 = shows' OBVIOUS
    <2>2. /\ NextIs("close") /\ mux' = mux /\ s2 = [sh EXCEPT ![i] = None]
          /\ \/ tasks' = q /\ known' = kn
             \/ UnlessSwitching(k2, q)
      BY <1>3, <1>7, <2>1 DEF RunClose
    <2>3. i \in GuiWindow /\ t = Close(i) BY <1>4, <2>1, <2>2, JobParts
    <2>4. k2 \in KnownType BY <1>1, <1>3, <2>1, <2>3 DEF KnownType
    <2>5. ASSUME NEW j \in GuiWindow PROVE Told(q, j, s2[j], kn[j]) /\ k2[j] = kn[j]
      <3>1. PICK q0, s1, w : q0 = tasks /\ s1 = sh[j] /\ w = kn[j] OBVIOUS
      <3>2. /\ Queued(q0) /\ q0 # <<>> /\ Told(q0, j, s1, w)
            /\ t = Head(q0) /\ q = Tail(q0)
        BY <1>1, <1>2, <1>3, <1>4, <2>2, <3>1 DEF AllTold
      <3>3. CASE j = i
        <4>1. w = None BY <2>3, <3>2, <3>3, ToldRest
        <4>2. s2[j] = None BY <1>1, <1>3, <2>2, <2>3, <3>3 DEF KnownType
        <4>3. k2[j] = None BY <1>1, <1>3, <2>1, <2>3, <3>3 DEF KnownType
        <4>4. Told(q, j, None, None) BY DEF Told
        <4> QED BY <3>1, <4>1, <4>2, <4>3, <4>4
      <3>4. CASE j # i
        <4>1. ~About(t, j) BY <2>3, <3>4, Distinct DEF About
        <4>2. Told(q, j, s1, w) BY <3>2, <4>1, ToldRest
        <4>3. s2[j] = s1 /\ k2[j] = w BY <1>1, <1>3, <2>1, <2>2, <3>1, <3>4 DEF KnownType
        <4> QED BY <3>1, <4>2, <4>3
      <3> QED BY <3>3, <3>4
    <2>6. AllTold(q, s2, kn) /\ AllTold(q, s2, k2) BY <2>5 DEF AllTold
    <2>7. AllTold(tasks', s2, known')
      <3>1. CASE tasks' = q /\ known' = kn BY <2>6, <3>1
      <3>2. CASE UnlessSwitching(k2, q)
        BY <1>1, <1>4, <2>2, <2>4, <2>6, <3>2, UnlessSwitchingAgrees
      <3> QED BY <2>2, <3>1, <3>2
    <2> QED BY <2>1, <2>7, AgreeThen
  <1>8. CASE RunOpen
    <2>1. NextIs("open") /\ tasks' = q /\ known' = kn /\ shows' = sh
      BY <1>3, <1>8 DEF RunOpen
    <2>2. AllTold(tasks', sh, known') BY <1>4, <2>1
    <2> QED BY <2>1, <2>2, AgreeThen
  <1>9. CASE RunSpawn
    <2>1. /\ NextIs("spawn") /\ shows' = sh
          /\ \/ tasks' = q /\ known' = kn
             \/ mux' = mux /\ SwitchWorkspace(t.to, q)
      BY <1>3, <1>9 DEF RunSpawn
    <2>2. t.to \in Workspace BY <1>4, <2>1, JobParts
    <2>3. AllTold(tasks', sh, known')
      <3>1. CASE tasks' = q /\ known' = kn BY <1>4, <2>1, <3>1
      <3>2. CASE mux' = mux /\ SwitchWorkspace(t.to, q)
        <4>1. Jobs(q) /\ AllTold(q, sh, known) BY <1>3, <1>4, <2>1
        <4> QED BY <1>1, <2>2, <3>2, <4>1, SwitchAgrees
      <3> QED BY <2>1, <3>1, <3>2
    <2> QED BY <2>1, <2>3, AgreeThen
  <1>10. CASE RunSwitch
    <2>1. NextIs("switch") /\ shows' = sh /\ mux' = mux /\ SwitchWorkspace(t.to, q)
      BY <1>3, <1>10 DEF RunSwitch
    <2>2. t.to \in Workspace BY <1>4, <2>1, JobParts
    <2>3. Jobs(q) /\ AllTold(q, sh, known) BY <1>3, <1>4, <2>1
    <2>4. AllTold(tasks', sh, known') BY <1>1, <2>1, <2>2, <2>3, SwitchAgrees
    <2> QED BY <2>1, <2>4, AgreeThen
  <1> QED BY <1>5, <1>6, <1>7, <1>8, <1>9, <1>10 DEF RunTask

\* What is posted tells no GUI window anything
LEMMA PostedAgrees ==
  ASSUME Typed, Agree, tasks' \in {tasks, Notified(tasks)}, UNCHANGED <<shows, known>>
  PROVE  Agree'
  <1>1. Queued(tasks) /\ AllTold(tasks, shows, known) BY TypedParts, AgreeNow DEF Jobs
  <1>2. PICK q, sh, kn : q = tasks /\ sh = shows /\ kn = known OBVIOUS
  <1>3. AllTold(q, sh, kn) /\ AllTold(Notified(q), sh, kn) BY <1>1, <1>2, AllToldMore
  <1>4. AllTold(tasks', sh, known') BY <1>2, <1>3
  <1> QED BY <1>2, <1>4, AgreeThen

LEMMA OpenedAgrees ==
  ASSUME Typed, Agree, NEW k \in DOMAIN opening, Opened(k) PROVE Agree'
  <1>1. /\ Jobs(tasks) /\ active \in Workspace /\ known \in KnownType /\ shows \in KnownType
        /\ mux \in MuxType /\ opening \in Seq(OpeningType)
    BY TypedParts DEF Sound
  <1>2. AllTold(tasks, shows, known) BY AgreeNow
  <1>3. PICK w, q, sh, kn, s2 : /\ w = opening[k].window /\ q = tasks /\ sh = shows
                                /\ kn = known /\ s2 = shows'
    OBVIOUS
  <1>4. w \in Window BY <1>1, <1>3, OthersTyped
  <1>5. PICK i \in GuiWindow :
          Unnamed(i) /\ s2 = [sh EXCEPT ![i] = w] /\ UnlessSwitching([kn EXCEPT ![i] = w], q)
    BY <1>3 DEF Opened
  <1>6. PICK k2 : k2 = [kn EXCEPT ![i] = w] OBVIOUS
  <1>7. mux' = mux /\ k2 \in KnownType BY <1>1, <1>3, <1>4, <1>6 DEF Opened, KnownType
  <1>8. ASSUME NEW j \in GuiWindow PROVE Told(q, j, s2[j], k2[j])
    <2>1. CASE j # i
      <3>1. s2[j] = sh[j] /\ k2[j] = kn[j] BY <1>1, <1>3, <1>5, <1>6, <2>1 DEF KnownType
      <3> QED BY <1>2, <1>3, <3>1 DEF AllTold
    <2>2. CASE j = i
      <3>1. s2[j] = w /\ k2[j] = w BY <1>1, <1>3, <1>5, <1>6, <2>2 DEF KnownType
      <3>2. \A l \in DOMAIN q : ~About(q[l], i) BY <1>3, <1>5, Distinct DEF Unnamed
      <3>3. ~Member(q, Close(i)) BY <3>2 DEF Member, About
      <3>4. \A l \in DOMAIN q : \A v : q[l] # Show(i, v) BY <3>2 DEF About
      <3>5. w # None BY <1>4, NamesFinite
      <3>6. Told(q, i, w, w) BY <3>3, <3>4, <3>5 DEF Told
      <3> QED BY <2>2, <3>1, <3>6
    <2> QED BY <2>1, <2>2
  <1>9. AllTold(q, s2, k2) /\ Jobs(q) BY <1>1, <1>3, <1>8 DEF AllTold
  <1>10. UnlessSwitching(k2, q) BY <1>5, <1>6
  <1>11. AllTold(tasks', s2, known') BY <1>1, <1>7, <1>9, <1>10, UnlessSwitchingAgrees
  <1> QED BY <1>3, <1>11, AgreeThen

LEMMA AnnounceAgrees ==
  ASSUME Typed, Agree, mux' \in MuxType, NEW s \in starting, Announce(s), shows' = shows
  PROVE  Agree'
  <1>1. CASE s.to = None
    <2>1. tasks' = Notified(tasks) /\ known' = known BY <1>1 DEF Announce
    <2> QED BY <2>1, PostedAgrees
  <1>2. CASE s.to # None
    <2>1. PICK q, sh : q = Notified(tasks) /\ sh = shows OBVIOUS
    <2>2. s.to \in Workspace /\ SwitchWorkspace(s.to, q)
      BY <1>2, <2>1, TypedParts DEF Announce, StartingType
    <2>3. PICK q0, kn : q0 = tasks /\ kn = known OBVIOUS
    <2>4. Jobs(q0) /\ AllTold(q0, sh, kn) BY <2>1, <2>3, AgreeNow, TypedParts
    <2>5. Jobs(q) /\ AllTold(q, sh, kn) BY <2>1, <2>3, <2>4, MoreJobs, AllToldMore DEF Jobs
    <2>6. AllTold(q, sh, known) BY <2>3, <2>5
    <2>7. AllTold(tasks', sh, known') BY <2>2, <2>5, <2>6, SwitchAgrees
    <2> QED BY <2>1, <2>7, AgreeThen
  <1> QED BY <1>1, <1>2

LEMMA CloseAgrees ==
  ASSUME Typed, Agree, mux' \in MuxType, NEW i \in GuiWindow, CloseRequested(i) PROVE Agree'
  <1>1. /\ Jobs(tasks) /\ active \in Workspace /\ known \in KnownType /\ shows \in KnownType
    BY TypedParts
  <1>2. AllTold(tasks, shows, known) BY AgreeNow
  <1>3. PICK q0, q, t, r, sh, kn, k2 :
          /\ q0 = tasks /\ q = IF shows[i] \in Listed(mux) THEN Notified(q0) ELSE q0
          /\ t = Close(i) /\ r = Append(q, t)
          /\ sh = shows /\ kn = known /\ k2 = [kn EXCEPT ![i] = None]
    OBVIOUS
  <1>4. sh[i] # None /\ UnlessSwitching(k2, r) /\ shows' = sh BY <1>3 DEF CloseRequested
  <1>5. Jobs(q0) /\ AllTold(q0, sh, kn) BY <1>1, <1>2, <1>3
  <1>6. Jobs(q) /\ AllTold(q, sh, kn) BY <1>3, <1>5, MoreJobs, AllToldMore DEF Jobs
  <1>7. Jobs(r)
    <2>1. Job(t) BY <1>3 DEF Job
    <2> QED BY <1>3, <1>6, <2>1, MoreJobs
  <1>8. k2 \in KnownType BY <1>1, <1>3 DEF KnownType
  <1>9. ASSUME NEW j \in GuiWindow PROVE Told(r, j, sh[j], k2[j])
    <2>1. CASE j # i
      <3>1. k2[j] = kn[j] BY <1>1, <1>3, <2>1 DEF KnownType
      <3>2. ~About(t, j) BY <1>3, <2>1, Distinct DEF About
      <3>3. PICK s1, w : s1 = sh[j] /\ w = kn[j] OBVIOUS
      <3>4. Told(q, j, s1, w) BY <1>6, <3>3 DEF AllTold
      <3>5. Told(r, j, s1, w) BY <1>3, <1>6, <3>2, <3>4, ToldSame DEF Jobs
      <3> QED BY <3>1, <3>3, <3>5
    <2>2. CASE j = i
      <3>1. k2[j] = None BY <1>1, <1>3, <2>2 DEF KnownType
      <3>2. DOMAIN r = 1..(Len(q) + 1) /\ r[Len(q) + 1] = t /\ Len(q) \in Nat
        BY <1>3, <1>6, AppendParts, QueuedIsSeq DEF Jobs
      <3>3. Member(r, t) BY <3>2 DEF Member
      <3>4. Member(r, Order(i, None)) BY <1>3, <3>3 DEF Order
      <3>5. Told(r, i, sh[i], None) BY <1>4, <3>4 DEF Told
      <3> QED BY <2>2, <3>1, <3>5
    <2> QED BY <2>1, <2>2
  <1>10. AllTold(r, sh, k2) BY <1>9 DEF AllTold
  <1>11. AllTold(tasks', sh, known') BY <1>1, <1>4, <1>7, <1>8, <1>10, UnlessSwitchingAgrees
  <1> QED BY <1>4, <1>11, AgreeThen

LEMMA SwitchToAgrees ==
  ASSUME Typed, Agree, NEW name \in Workspace, SwitchToWorkspace(name) PROVE Agree'
  <1>1. PICK q, sh, kn : q = tasks /\ sh = shows /\ kn = known OBVIOUS
  <1>2. Jobs(q) /\ AllTold(q, sh, kn) /\ mux \in MuxType
    BY <1>1, AgreeNow, TypedParts DEF Sound
  <1>3. shows' = sh /\ mux' = mux BY <1>1 DEF SwitchToWorkspace
  <1>4. CASE InWorkspace(mux, name) = {}
    <2>1. PICK r, t : r = Notified(q) /\ t = SpawnThenSwitch(name) OBVIOUS
    <2>2. tasks' = Append(r, t) /\ known' = kn BY <1>1, <1>4, <2>1 DEF SwitchToWorkspace
    <2>3. Jobs(r) /\ AllTold(r, sh, kn) BY <1>2, <2>1, MoreJobs, AllToldMore DEF Jobs
    <2>4. t.type = "spawn" BY <2>1 DEF SpawnThenSwitch
    <2>5. AllTold(Append(r, t), sh, kn) BY <2>3, <2>4, AllToldMore DEF Jobs
    <2>6. AllTold(tasks', sh, known') BY <2>2, <2>5
    <2> QED BY <1>3, <2>6, AgreeThen
  <1>5. CASE InWorkspace(mux, name) # {}
    <2>1. SwitchWorkspace(name, q) BY <1>1, <1>5 DEF SwitchToWorkspace
    <2>2. AllTold(q, sh, known) BY <1>1, <1>2
    <2>3. AllTold(tasks', sh, known') BY <1>2, <1>3, <2>1, <2>2, SwitchAgrees
    <2> QED BY <1>3, <2>3, AgreeThen
  <1> QED BY <1>4, <1>5

LEMMA RenameAgrees ==
  ASSUME Typed, Agree, NEW old \in Workspace, NEW new \in Workspace,
         RenameWorkspace(old, new)
  PROVE  Agree'
  <1>1. PICK q, sh, kn, t, r :
          /\ q = tasks /\ sh = shows /\ kn = known /\ t = Switch(new)
          /\ r = IF active \in {old, new} THEN Append(q, t) ELSE q
    OBVIOUS
  <1>2. Jobs(q) /\ AllTold(q, sh, kn) BY <1>1, AgreeNow, TypedParts
  <1>3. tasks' \in {r, Notified(r)} /\ shows' = sh /\ known' = kn
    BY <1>1 DEF RenameWorkspace
  <1>4. t.type = "switch" /\ Job(t) BY <1>1 DEF Switch, Job
  <1>5. Jobs(r) /\ AllTold(r, sh, kn) BY <1>1, <1>2, <1>4, MoreJobs, AllToldMore DEF Jobs
  <1>6. AllTold(Notified(r), sh, kn) BY <1>5, AllToldMore DEF Jobs
  <1>7. AllTold(tasks', sh, known') BY <1>3, <1>5, <1>6
  <1> QED BY <1>3, <1>7, AgreeThen

LEMMA NextAgrees ==
  ASSUME Typed, Typed', Agree, [Next]_vars PROVE Agree'
  <1> USE PostedAgrees
  <1>1. mux' \in MuxType
    <2>1. Sound(mux') BY DEF Typed
    <2> QED BY <2>1 DEF Sound
  <1>2. ASSUME NEW k \in DOMAIN opening, OpenFails(k) PROVE Agree'
    BY <1>2 DEF OpenFails
  <1>3. ASSUME NEW s \in starting, StartFails(s) PROVE Agree'
    BY <1>1, <1>3, AnnounceAgrees DEF StartFails
  <1>4. ASSUME NEW w, Pruned(w) PROVE Agree' BY <1>4 DEF Pruned
  <1>5. CASE Proceed
    <2>1. CASE RunTask BY <2>1, TaskAgrees
    <2>2. CASE \E k \in DOMAIN opening : Opened(k) BY <2>2, OpenedAgrees
    <2>3. CASE \E s \in starting : Started(s) BY <1>1, <2>3, AnnounceAgrees DEF Started
    <2> QED BY <1>2, <1>3, <1>4, <1>5, <2>1, <2>2, <2>3 DEF Proceed
  <1>6. CASE Event
    <2>1. CASE \E name \in Workspace : SpawnWindow(name) BY <2>1 DEF SpawnWindow
    <2>2. CASE \E name \in Workspace : SwitchToWorkspace(name) BY <2>2, SwitchToAgrees
    <2>3. CASE \E i \in GuiWindow : CloseRequested(i) BY <1>1, <2>3, CloseAgrees
    <2>4. CASE \E w \in Window, name \in Workspace : SetWorkspace(w, name)
      BY <2>4 DEF SetWorkspace
    <2>5. CASE \E old, new \in Workspace : RenameWorkspace(old, new) BY <2>5, RenameAgrees
    <2>6. CASE PanesChange BY <2>6 DEF PanesChange
    <2> QED BY <1>2, <1>3, <1>4, <1>6, <2>1, <2>2, <2>3, <2>4, <2>5, <2>6 DEF Event
  <1>7. CASE UNCHANGED vars BY <1>7 DEF vars
  <1> QED BY <1>5, <1>6, <1>7 DEF Next

LEMMA AgreeAtFirst ==
  ASSUME Init PROVE Agree
  <1>1. \A i \in GuiWindow : shows[i] = None /\ known[i] = None BY DEF Init
  <1> QED BY <1>1 DEF Agree, Told

-----------------------------------------------------------------------------
(* What there is to say between two runs of reconcile_workspace.           *)

\* What is queued will reconcile, or wait for a spawn and then switch
Wakes(q) == \E k \in DOMAIN q : q[k].type \in {"reconcile", "spawn", "switch"}
Due == Wakes(tasks) \/ Spawns(starting)

\* Something is about to open a GUI window for w, has claimed it, or shows it
Opens(q, w) == \E k \in DOMAIN q : q[k].type = "open" /\ w \in Range(q[k].windows)
Waiting(o, w) == \E k \in DOMAIN o : w \in Range(o[k].rest)
Awaited(w) ==
  \/ w \in Range(known) \/ w \in spawned
  \/ Opens(tasks, w) \/ Waiting(opening, w)
  \/ \E s \in starting : s.window = w

\* Each GUI window is to show a window of the active workspace, and none the same
Settled ==
  \A i \in GuiWindow : known[i] # None =>
    /\ mux.place[known[i]] = active
    /\ \A j \in GuiWindow : known[j] = known[i] => j = i

\* Each window of the active workspace is taken care of
Covered == \A w \in InWorkspace(mux, active) : Awaited(w)

\* The active workspace is not empty while another is not
Inhabited == mux.moved \/ mux.alive = {} \/ \E w \in mux.alive : mux.place[w] = active

\* Unless it is about to reconcile, the front end has no reason to
Rested == Due \/ (Settled /\ Covered /\ Inhabited)

LEMMA DueThen ==
  ASSUME Wakes(tasks') \/ Spawns(starting')
  PROVE  Rested'
  BY DEF Rested, Due, Wakes, Spawns

LEMMA QueueWakes ==
  ASSUME NEW q, Queued(q)
  PROVE  /\ Wakes(Notified(q))
         /\ \A t : t.type \in {"spawn", "switch"} => Wakes(Append(q, t))
         /\ \A w : q # <<>> /\ Opens(q, w) =>
              \/ Opens(Tail(q), w)
              \/ Head(q).type = "open" /\ w \in Range(Head(q).windows)
         /\ q # <<>> /\ Head(q).type \notin {"reconcile", "spawn", "switch"} /\ Wakes(q) =>
              Wakes(Tail(q))
         /\ \A w : Opens(q, w) => Opens(Notified(q), w)
  <1>1. Len(q) \in Nat /\ DOMAIN q = 1..Len(q) BY QueuedIsSeq
  <1>2. ASSUME NEW t
        PROVE  /\ t.type \in {"reconcile", "spawn", "switch"} => Wakes(Append(q, t))
               /\ \A w : Opens(q, w) => Opens(Append(q, t), w)
    <2>1. /\ DOMAIN Append(q, t) = 1..(Len(q) + 1) /\ Append(q, t)[Len(q) + 1] = t
          /\ \A k \in 1..Len(q) : Append(q, t)[k] = q[k]
      BY AppendParts
    <2>2. Len(q) + 1 \in DOMAIN Append(q, t) /\ DOMAIN q \subseteq DOMAIN Append(q, t)
      BY <1>1, <2>1
    <2> QED BY <1>1, <2>1, <2>2 DEF Wakes, Opens
  <1>3. Wakes(Notified(q))
    <2>1. CASE q # <<>> /\ Last(q) = Reconcile
      <3>1. Len(q) \in DOMAIN q /\ q[Len(q)] = Reconcile BY <1>1, <2>1, TailParts DEF Last
      <3> QED BY <2>1, <3>1 DEF Notified, Wakes, Reconcile
    <2>2. CASE ~(q # <<>> /\ Last(q) = Reconcile)
      <3>1. Reconcile.type = "reconcile" BY DEF Reconcile
      <3> QED BY <1>2, <2>2, <3>1 DEF Notified
    <2> QED BY <2>1, <2>2
  <1>4. \A w : Opens(q, w) => Opens(Notified(q), w) BY <1>2 DEF Notified
  <1>5. ASSUME q # <<>>
        PROVE  \A k \in DOMAIN q :
                 q[k] = Head(q) \/ \E l \in DOMAIN Tail(q) : Tail(q)[l] = q[k]
    <2>1. /\ Head(q) = q[1] /\ DOMAIN Tail(q) = 1..(Len(q) - 1)
          /\ \A l \in 1..(Len(q) - 1) : Tail(q)[l] = q[l + 1]
      BY <1>5, TailParts
    <2> SUFFICES ASSUME NEW k \in DOMAIN q, k # 1
                 PROVE  \E l \in DOMAIN Tail(q) : Tail(q)[l] = q[k]
      BY <2>1
    <2>2. k - 1 \in 1..(Len(q) - 1) /\ (k - 1) + 1 = k BY <1>1
    <2> QED BY <2>1, <2>2
  <1>6. ASSUME q # <<>>, NEW w, Opens(q, w)
        PROVE  Opens(Tail(q), w) \/ (Head(q).type = "open" /\ w \in Range(Head(q).windows))
    <2>1. PICK k \in DOMAIN q : q[k].type = "open" /\ w \in Range(q[k].windows)
      BY <1>6 DEF Opens
    <2>2. CASE q[k] = Head(q) BY <2>1, <2>2
    <2>3. CASE \E l \in DOMAIN Tail(q) : Tail(q)[l] = q[k] BY <2>1, <2>3 DEF Opens
    <2> QED BY <1>5, <1>6, <2>2, <2>3
  <1>7. ASSUME q # <<>>, Head(q).type \notin {"reconcile", "spawn", "switch"}, Wakes(q)
        PROVE  Wakes(Tail(q))
    BY <1>5, <1>7 DEF Wakes
  <1> QED BY <1>2, <1>3, <1>4, <1>6, <1>7

\* The workspace that reconcile_workspace makes active
LEMMA PopulatedInhabits ==
  ASSUME NEW m, Sound(m), NEW name \in Workspace
  PROVE  m.moved \/ m.alive = {} \/ \E w \in m.alive : m.place[w] = Populated(m, name)
  <1> SUFFICES ASSUME ~m.moved, m.alive # {}
               PROVE  \E w \in m.alive : m.place[w] = Populated(m, name)
    OBVIOUS
  <1> DEFINE P == {m.place[w] : w \in Listed(m)} \cap m.counted
  <1>1. m.counted = {m.place[w] : w \in m.alive} /\ m.alive \subseteq Listed(m)
        /\ m.counted \subseteq Workspace
    BY MuxParts DEF Sound
  <1>2. P # {} /\ P \subseteq m.counted BY <1>1
  <1>3. P \in SUBSET Nat BY <1>1, NamesFinite
  <1> HIDE DEF P
  <1>4. Least(P) \in P BY <1>2, <1>3, LeastParts
  <1>5. Populated(m, name) \in m.counted
    <2>1. Populated(m, name) = IF name \in m.counted \/ P = {} THEN name ELSE Least(P)
      BY DEF Populated, P
    <2> QED BY <1>2, <1>4, <2>1
  <1> QED BY <1>1, <1>5

LEMMA ReconcileRests ==
  ASSUME Sound(mux'), NEW name \in Workspace, NEW kn \in KnownType, NEW queue, Jobs(queue),
         ReconcileWorkspace(name, kn, queue)
  PROVE  Rested'
  <1>1. PICK m, a, new : m = mux' /\ a = active' /\ new = known' OBVIOUS
  <1>2. m \in MuxType /\ a = Populated(m, name) /\ new = Assigned(kn, InWorkspace(m, a))
    BY <1>1 DEF ReconcileWorkspace, Sound
  <1>3. PICK wanted : wanted = InWorkspace(m, a) OBVIOUS
  <1>4. wanted \in SUBSET Window /\ \A w \in wanted : m.place[w] = a
    BY <1>3 DEF InWorkspace
  <1>5. /\ \A i \in GuiWindow : new[i] \in wanted \cup {None}
        /\ \A i, j \in GuiWindow : new[i] # None /\ new[i] = new[j] => i = j
    BY <1>2, <1>3, <1>4, AssignedParts DEF KnownType
  <1>6. Settled' BY <1>1, <1>4, <1>5 DEF Settled
  <1>7. Inhabited' BY <1>1, <1>2, PopulatedInhabits DEF Inhabited
  <1>8. PICK q, told, left, t :
          /\ told = Orders(kn, new) /\ left = wanted \ Range(new)
          /\ t = Open(Sorted(left)) /\ q = IF a # name THEN Notified(queue) ELSE queue
    OBVIOUS
  <1>9. tasks' = q \o told \o <<t>> BY <1>1, <1>3, <1>8 DEF ReconcileWorkspace
  <1>10. Queued(q \o told)
    <2>1. Jobs(q) BY <1>8, MoreJobs
    <2> QED BY <1>8, <2>1, OrdersParts, JoinedMembers DEF Jobs
  <1>11. \A w \in left : Opens(tasks', w)
    <2>1. PICK r : r = q \o told OBVIOUS
    <2>2. tasks' = Append(r, t)
      <3>1. r \in Seq({r[k] : k \in DOMAIN r}) BY <1>10, <2>1, QueuedIsSeq
      <3>2. r \o <<t>> = Append(r, t) BY <3>1
      <3> QED BY <1>9, <2>1, <3>2
    <2>3. Len(r) \in Nat /\ Len(r) + 1 \in DOMAIN Append(r, t) /\ Append(r, t)[Len(r) + 1] = t
      BY <1>10, <2>1, AppendParts, QueuedIsSeq
    <2>4. \A w \in left : w \in Range(t.windows)
      <3>1. left \in SUBSET Window BY <1>4, <1>8
      <3> QED BY <1>8, <3>1, SortedWindows DEF Open
    <2>5. t.type = "open" BY <1>8 DEF Open
    <2> QED BY <2>2, <2>3, <2>4, <2>5 DEF Opens
  <1>12. ASSUME NEW w \in wanted PROVE Awaited(w)'
    <2>1. CASE w \in Range(new) BY <1>1, <2>1 DEF Awaited
    <2>2. CASE w \notin Range(new)
      <3>1. Opens(tasks', w) BY <1>8, <1>11, <2>2
      <3> QED BY <3>1 DEF Awaited, Opens
    <2> QED BY <2>1, <2>2
  <1>13. Covered' BY <1>1, <1>3, <1>12 DEF Covered
  <1> QED BY <1>6, <1>7, <1>13 DEF Rested

\* It is put off only while a switch is waited for
LEMMA UnlessSwitchingRests ==
  ASSUME SwitchesKept, active \in Workspace, Sound(mux'), starting' = starting,
         NEW kn \in KnownType, NEW queue, Jobs(queue), Waits(tasks) => Waits(queue),
         UnlessSwitching(kn, queue)
  PROVE  Rested'
  <1>1. CASE switching
    <2>1. Waits(tasks) \/ Spawns(starting)
      BY <1>1 DEF SwitchesKept, SwitchPending, Waits, Spawns
    <2>2. tasks' = queue BY <1>1 DEF UnlessSwitching
    <2>3. Wakes(tasks') \/ Spawns(starting') BY <2>1, <2>2 DEF Waits, Wakes
    <2> QED BY <2>3, DueThen
  <1>2. CASE ~switching
    <2>1. ReconcileWorkspace(active, kn, queue) BY <1>2 DEF UnlessSwitching
    <2> QED BY <2>1, ReconcileRests
  <1> QED BY <1>1, <1>2

LEMMA SwitchRests ==
  ASSUME Typed, Sound(mux'), NEW name \in Workspace, NEW queue, Jobs(queue),
         SwitchWorkspace(name, queue)
  PROVE  Rested'
  <1>1. PICK q, kn : q = Notified(queue) /\ kn = known OBVIOUS
  <1>2. Jobs(q) /\ kn \in KnownType BY <1>1, MoreJobs, TypedParts
  <1>3. ReconcileWorkspace(name, kn, q) BY <1>1 DEF SwitchWorkspace
  <1> QED BY <1>2, <1>3, ReconcileRests

\* Nothing has changed that matters
LEMMA StillRests ==
  ASSUME Typed, Rested, Due => Due', UNCHANGED <<active, known>>,
         mux'.alive = mux.alive, mux'.moved = mux.moved,
         \A w \in Listed(mux) : mux'.place[w] = mux.place[w],
         \A w \in Listed(mux') : Awaited(w)' \/ (w \in Listed(mux) /\ ~Awaited(w))
  PROVE  Rested'
  <1>1. CASE Due BY <1>1 DEF Rested
  <1>2. CASE ~Due
    <2>1. Settled /\ Covered /\ Inhabited BY <1>2 DEF Rested
    <2>2. active # None /\ \A i \in GuiWindow : known[i] \in Window \cup {None}
      BY TypedParts, NamesFinite DEF KnownType
    <2>3. mux.alive \subseteq Listed(mux) BY TypedParts DEF Sound
    <2>4. Settled'
      <3>1. \A i \in GuiWindow : known[i] # None => known[i] \in Listed(mux)
        BY <2>1, <2>2 DEF Settled, Listed
      <3> QED BY <2>1, <3>1 DEF Settled
    <2>5. Covered'
      <3>1. ASSUME NEW w \in Window, mux'.place[w] = active PROVE Awaited(w)'
        <4>1. w \in Listed(mux') BY <2>2, <3>1 DEF Listed
        <4>2. CASE w \in Listed(mux) /\ ~Awaited(w)
          <5>1. mux.place[w] = active BY <3>1, <4>2
          <5> QED BY <2>1, <4>2, <5>1 DEF Covered, InWorkspace
        <4> QED BY <4>1, <4>2
      <3> QED BY <3>1 DEF Covered, InWorkspace
    <2>6. Inhabited' BY <2>1, <2>3 DEF Inhabited
    <2> QED BY <2>4, <2>5, <2>6 DEF Rested
  <1> QED BY <1>1, <1>2

\* The task that opens windows goes on: what it leaves out is taken care of
LEMMA GoneOn ==
  ASSUME NEW ws \in Seq(Window), NEW claimed, NEW others \in Seq(OpeningType),
         GoOn(ws, claimed, others)
  PROVE  /\ \A w \in Range(ws) : w \in Range(known') \/ w \in spawned' \/ Waiting(opening', w)
         /\ \A w : Waiting(others, w) => Waiting(opening', w)
         /\ \A w \in claimed : w \in spawned'
  <1> DEFINE needed == {k \in DOMAIN ws : ws[k] \notin Range(known') \cup claimed}
             k == Least(needed)
  <1>1. Len(ws) \in Nat /\ DOMAIN ws = 1..Len(ws) BY LenProperties
  <1>2. CASE needed = {}
    <2>1. spawned' = claimed /\ opening' = others BY <1>2 DEF GoOn
    <2>2. \A l \in DOMAIN ws : ws[l] \in Range(known') \cup claimed BY <1>2
    <2>3. \A w \in Range(ws) : w \in Range(known') \/ w \in claimed BY <2>2 DEF Range
    <2> QED BY <2>1, <2>3
  <1>3. CASE needed # {}
    <2>1. PICK o : o = [window |-> ws[k], rest |-> SubSeq(ws, k + 1, Len(ws))] OBVIOUS
    <2>2. spawned' = claimed \cup {ws[k]} /\ opening' = Append(others, o)
      BY <1>3, <2>1 DEF GoOn
    <2>3. needed \in SUBSET Nat /\ needed \subseteq DOMAIN ws BY <1>1
    <2>4. \A l \in DOMAIN ws : l \notin needed => ws[l] \in Range(known') \/ ws[l] \in claimed
      OBVIOUS
    <2> HIDE DEF needed
    <2>5. k \in needed /\ \A l \in needed : k <= l BY <1>3, <2>3, LeastParts
    <2>6. PICK n : n = k OBVIOUS
    <2>7. n \in 1..Len(ws) /\ \A l \in needed : n <= l BY <1>1, <2>3, <2>5, <2>6
    <2> HIDE DEF k
    <2>8. /\ Len(SubSeq(ws, n + 1, Len(ws))) = Len(ws) - n
          /\ SubSeq(ws, n + 1, Len(ws)) \in Seq(Window)
          /\ \A l \in 1..(Len(ws) - n) : SubSeq(ws, n + 1, Len(ws))[l] = ws[n + l]
      BY <1>1, <2>7, SubSeqProperties
    <2>9. PICK rest : rest = SubSeq(ws, n + 1, Len(ws)) OBVIOUS
    <2>10. DOMAIN rest = 1..(Len(ws) - n) /\ \A l \in 1..(Len(ws) - n) : rest[l] = ws[n + l]
      BY <2>8, <2>9, LenProperties
    <2>11. ASSUME NEW l \in DOMAIN ws
           PROVE  ws[l] \in Range(known') \/ ws[l] \in spawned' \/ ws[l] \in Range(rest)
      <3>1. CASE l \notin needed BY <2>2, <2>4, <3>1
      <3>2. CASE l = n BY <2>2, <2>6, <3>2
      <3>3. CASE l \in needed /\ l # n
        <4>1. l - n \in 1..(Len(ws) - n) /\ n + (l - n) = l BY <1>1, <2>7, <3>3
        <4>2. rest[l - n] = ws[l] BY <2>10, <4>1
        <4> QED BY <2>10, <4>1, <4>2 DEF Range
      <3> QED BY <3>1, <3>2, <3>3
    <2>12. o.rest = rest BY <2>1, <2>6, <2>9
    <2>13. Queued(others) BY SeqIsQueued
    <2>14. /\ Len(others) \in Nat /\ DOMAIN others = 1..Len(others)
           /\ DOMAIN Append(others, o) = 1..(Len(others) + 1)
           /\ Append(others, o)[Len(others) + 1] = o
           /\ \A l \in 1..Len(others) : Append(others, o)[l] = others[l]
      BY <2>13, AppendParts, QueuedIsSeq
    <2>15. /\ Len(others) + 1 \in DOMAIN Append(others, o)
           /\ DOMAIN others \subseteq DOMAIN Append(others, o)
      BY <2>14
    <2>16. \A w \in Range(rest) : Waiting(opening', w)
      BY <2>2, <2>12, <2>14, <2>15 DEF Waiting
    <2>17. \A w : Waiting(others, w) => Waiting(opening', w)
      BY <2>2, <2>14, <2>15 DEF Waiting
    <2>18. \A w \in Range(ws) : \E l \in DOMAIN ws : w = ws[l] BY DEF Range
    <2> QED BY <2>2, <2>11, <2>16, <2>17, <2>18
  <1> QED BY <1>2, <1>3

LEMMA TaskRests ==
  ASSUME Typed, Typed', SwitchesKept, SwitchesKept', Agree, Rested, RunTask PROVE Rested'
  <1>1. /\ Jobs(tasks) /\ Queued(tasks) /\ active \in Workspace /\ known \in KnownType
        /\ Sound(mux) /\ Sound(mux') /\ spawned \subseteq Window
        /\ opening \in Seq(OpeningType)
    BY TypedParts DEF Jobs, Typed
  <1>2. PICK t, q : t = Head(tasks) /\ q = Tail(tasks) OBVIOUS
  <1>3. ASSUME NEW type, NextIs(type)
        PROVE  /\ tasks # <<>> /\ Job(t) /\ Jobs(q) /\ t.type = type
               /\ type \notin {"spawn", "switch"} => (Waits(tasks) => Waits(q))
               /\ type \notin {"reconcile", "spawn", "switch"} => (Wakes(tasks) => Wakes(q))
               /\ type # "open" => \A w : Opens(tasks, w) => Opens(q, w)
    <2>1. tasks # <<>> /\ t.type = type BY <1>2, <1>3 DEF NextIs
    <2>2. Job(t) /\ Jobs(q) BY <1>1, <1>2, <2>1, MoreJobs
    <2>3. type \notin {"spawn", "switch"} => (Waits(tasks) => Waits(q))
      BY <1>2, <1>3, Taken DEF Grows
    <2>4. type \notin {"reconcile", "spawn", "switch"} => (Wakes(tasks) => Wakes(q))
      BY <1>1, <1>2, <2>1, QueueWakes
    <2>5. type # "open" => \A w : Opens(tasks, w) => Opens(q, w)
      BY <1>1, <1>2, <2>1, QueueWakes
    <2> QED BY <2>1, <2>2, <2>3, <2>4, <2>5
  <1>4. CASE RunReconcile
    <2>1. NextIs("reconcile") /\ UnlessSwitching(known, q) /\ starting' = starting
      BY <1>2, <1>4 DEF RunReconcile
    <2>2. Jobs(q) /\ (Waits(tasks) => Waits(q)) BY <1>3, <2>1
    <2>3. PICK kn : kn = known OBVIOUS
    <2>4. kn \in KnownType /\ UnlessSwitching(kn, q) BY <1>1, <2>1, <2>3
    <2> QED BY <1>1, <2>1, <2>2, <2>4, UnlessSwitchingRests
  <1>5. CASE RunShow
    <2>1. /\ NextIs("show") /\ tasks' = q
          /\ UNCHANGED <<mux, active, known, spawned, switching, opening, starting>>
      BY <1>2, <1>5 DEF RunShow
    <2>2. (Wakes(tasks) => Wakes(tasks')) /\ \A w : Opens(tasks, w) => Opens(tasks', w)
      BY <1>3, <2>1
    <2>3. Due => Due' BY <2>1, <2>2 DEF Due, Wakes, Spawns
    <2>4. \A w : Awaited(w) => Awaited(w)' BY <2>1, <2>2 DEF Awaited, Opens, Waiting
    <2> QED BY <2>1, <2>3, <2>4, StillRests DEF Listed
  <1>6. CASE RunClose
    <2>1. PICK i, kn : i = t.on /\ kn = [known EXCEPT ![i] = None] OBVIOUS
    <2>2. /\ NextIs("close") /\ mux' = mux /\ starting' = starting /\ opening' = opening
          /\ \/ shows[i] = None /\ UNCHANGED <<active, known>> /\ tasks' = q
             \/ UnlessSwitching(kn, q)
          /\ spawned' = Kept(kn)
      BY <1>2, <1>6, <2>1 DEF RunClose
    <2>3. i \in GuiWindow BY <1>3, <2>1, <2>2, JobParts
    <2>4. kn \in KnownType BY <1>1, <2>1, <2>3 DEF KnownType
    <2>5. CASE UnlessSwitching(kn, q)
      <3>1. Jobs(q) /\ (Waits(tasks) => Waits(q)) BY <1>3, <2>2
      <3> QED BY <1>1, <2>2, <2>4, <2>5, <3>1, UnlessSwitchingRests
    <2>6. CASE shows[i] = None /\ UNCHANGED <<active, known>> /\ tasks' = q
      <3>1. \A j \in GuiWindow : known[j] = None => kn[j] = None
        BY <1>1, <2>1 DEF KnownType
      <3>2. spawned' = spawned
        <4>1. \A j \in GuiWindow : known'[j] = None => kn[j] = None BY <2>6, <3>1
        <4>2. \A w \in {kn[j] : j \in {l \in GuiWindow : known'[l] = None}} : w = None BY <4>1
        <4>3. \A w \in spawned : w # None BY <1>1, NamesFinite
        <4>4. Kept(kn) = spawned BY <4>2, <4>3 DEF Kept
        <4> QED BY <2>2, <4>4
      <3>3. (Wakes(tasks) => Wakes(tasks')) /\ \A w : Opens(tasks, w) => Opens(tasks', w)
        BY <1>3, <2>2, <2>6
      <3>4. Due => Due' BY <2>2, <3>3 DEF Due, Wakes, Spawns
      <3>5. \A w : Awaited(w) => Awaited(w)'
        BY <2>2, <2>6, <3>2, <3>3 DEF Awaited, Opens, Waiting
      <3> QED BY <2>2, <2>6, <3>4, <3>5, StillRests DEF Listed
    <2> QED BY <2>2, <2>5, <2>6
  <1>7. CASE RunOpen
    <2>1. PICK ws : ws = t.windows OBVIOUS
    <2>2. /\ NextIs("open") /\ tasks' = q /\ UNCHANGED <<mux, active, known, shows, starting>>
          /\ GoOn(ws, spawned, opening)
      BY <1>2, <1>7, <2>1 DEF RunOpen
    <2>3. ws \in Seq(Window) BY <1>3, <2>1, <2>2, JobParts
    <2>4. /\ \A w \in Range(ws) : w \in Range(known') \/ w \in spawned' \/ Waiting(opening', w)
          /\ \A w : Waiting(opening, w) => Waiting(opening', w)
          /\ \A w \in spawned : w \in spawned'
      <3>1. PICK claimed, others : claimed = spawned /\ others = opening OBVIOUS
      <3>2. GoOn(ws, claimed, others) /\ others \in Seq(OpeningType) BY <1>1, <2>2, <3>1
      <3>3. /\ \A w \in Range(ws) : w \in Range(known') \/ w \in spawned' \/ Waiting(opening', w)
            /\ \A w : Waiting(others, w) => Waiting(opening', w)
            /\ \A w \in claimed : w \in spawned'
        BY <2>3, <3>2, GoneOn
      <3> QED BY <3>1, <3>3
    <2>5. Wakes(tasks) => Wakes(tasks') BY <1>3, <2>2
    <2>6. \A w : Opens(tasks, w) => Opens(tasks', w) \/ w \in Range(ws)
      <3>1. PICK q0 : q0 = tasks OBVIOUS
      <3>2. Queued(q0) /\ q0 # <<>> /\ t = Head(q0) /\ q = Tail(q0)
        BY <1>1, <1>2, <1>3, <2>2, <3>1
      <3>3. \A w : Opens(q0, w) => Opens(q, w) \/ w \in Range(ws)
        BY <2>1, <3>2, QueueWakes
      <3> QED BY <2>2, <3>1, <3>3
    <2>7. Due => Due' BY <2>2, <2>5 DEF Due, Wakes, Spawns
    <2>8. ASSUME NEW w, Awaited(w) PROVE Awaited(w)'
      <3>1. \/ w \in Range(known) \/ w \in spawned \/ Opens(tasks, w) \/ Waiting(opening, w)
            \/ \E s \in starting : s.window = w
        BY <2>8 DEF Awaited
      <3>2. \/ w \in Range(known') \/ w \in spawned' \/ Opens(tasks', w) \/ Waiting(opening', w)
            \/ \E s \in starting' : s.window = w
        BY <2>2, <2>4, <2>6, <3>1
      <3> QED BY <3>2 DEF Awaited, Opens, Waiting
    <2> QED BY <2>2, <2>7, <2>8, StillRests DEF Listed
  <1>8. CASE RunSpawn
    <2>1. NextIs("spawn") BY <1>8 DEF RunSpawn
    <2>2. t.to \in Workspace /\ Jobs(q) BY <1>3, <2>1, JobParts
    <2>3. CASE mux.made < MaxWindows
      <3>1. PICK s : s = [window |-> mux.made + 1, to |-> t.to] OBVIOUS
      <3>2. starting' = starting \cup {s} BY <1>2, <1>8, <2>3, <3>1 DEF RunSpawn
      <3>3. s.to # None BY <2>2, <3>1, NamesFinite
      <3>4. Spawns(starting') BY <3>2, <3>3 DEF Spawns
      <3> QED BY <3>4, DueThen
    <2>4. CASE ~(mux.made < MaxWindows)
      <3>1. SwitchWorkspace(t.to, q) BY <1>2, <1>8, <2>4 DEF RunSpawn
      <3> QED BY <1>1, <2>2, <3>1, SwitchRests
    <2> QED BY <2>3, <2>4
  <1>9. CASE RunSwitch
    <2>1. NextIs("switch") /\ SwitchWorkspace(t.to, q) BY <1>2, <1>9 DEF RunSwitch
    <2>2. t.to \in Workspace /\ Jobs(q) BY <1>3, <2>1, JobParts
    <2> QED BY <1>1, <2>1, <2>2, SwitchRests
  <1> QED BY <1>4, <1>5, <1>6, <1>7, <1>8, <1>9 DEF RunTask

\* What is announced is due
LEMMA NotifiedRests ==
  ASSUME Typed, tasks' = Notified(tasks) PROVE Rested'
  <1>1. Queued(tasks) BY TypedParts DEF Jobs
  <1>2. Wakes(tasks') BY <1>1, QueueWakes
  <1> QED BY <1>2, DueThen

LEMMA OpenedRests ==
  ASSUME Typed, Typed', SwitchesKept, NEW k \in DOMAIN opening, Opened(k) PROVE Rested'
  <1>1. /\ Jobs(tasks) /\ active \in Workspace /\ known \in KnownType
        /\ Sound(mux') /\ opening \in Seq(OpeningType)
    BY TypedParts DEF Typed
  <1>2. PICK w, q : w = opening[k].window /\ q = tasks OBVIOUS
  <1>3. w \in Window BY <1>1, <1>2, OthersTyped
  <1>4. PICK i \in GuiWindow : UnlessSwitching([known EXCEPT ![i] = w], q)
    BY <1>2 DEF Opened
  <1>5. PICK kn : kn = [known EXCEPT ![i] = w] OBVIOUS
  <1>6. kn \in KnownType BY <1>1, <1>3, <1>5 DEF KnownType
  <1>7. starting' = starting /\ UnlessSwitching(kn, q) BY <1>4, <1>5 DEF Opened
  <1>8. Jobs(q) /\ (Waits(tasks) => Waits(q)) BY <1>1, <1>2
  <1> QED BY <1>1, <1>6, <1>7, <1>8, UnlessSwitchingRests

LEMMA OpenFailsRests ==
  ASSUME Typed, Rested, NEW k \in DOMAIN opening, OpenFails(k) PROVE Rested'
  <1>1. /\ Jobs(tasks) /\ Sound(mux) /\ spawned \subseteq Window
        /\ opening \in Seq(OpeningType)
    BY TypedParts
  <1>2. PICK w, rest, others, claimed :
          /\ w = opening[k].window /\ rest = opening[k].rest
          /\ others = RemoveAt(opening, k) /\ claimed = spawned \ {w}
    OBVIOUS
  <1>3. w \in Window /\ rest \in Seq(Window) /\ others \in Seq(OpeningType)
    BY <1>1, <1>2, OthersTyped
  <1>4. CASE w \in Listed(mux)
    <2>1. tasks' = Notified(tasks) BY <1>2, <1>4 DEF OpenFails
    <2> QED BY <2>1, NotifiedRests
  <1>5. CASE w \notin Listed(mux)
    <2>1. /\ tasks' = tasks /\ UNCHANGED <<active, known, shows, starting>>
          /\ mux' = Removed(mux, w) /\ GoOn(rest, claimed, others)
      BY <1>2, <1>5 DEF OpenFails
    <2>2. PICK m, n : m = mux /\ n = Removed(m, w) OBVIOUS
    <2>3. /\ n.place = [m.place EXCEPT ![w] = None] /\ n.alive = m.alive \ {w}
          /\ n.moved = m.moved /\ w \notin Listed(m) /\ m.alive \subseteq Listed(m)
          /\ m.place \in [Window -> Workspace \cup {None}]
      BY <1>1, <1>3, <1>5, <2>2, RemovedParts, MuxParts DEF Sound
    <2>4. n.alive = m.alive /\ \A v \in Window : n.place[v] = m.place[v]
      BY <1>3, <2>3 DEF Listed
    <2>5. mux' = n BY <2>1, <2>2
    <2>6. /\ \A v \in Range(rest) : v \in Range(known') \/ v \in spawned' \/ Waiting(opening', v)
          /\ \A v : Waiting(others, v) => Waiting(opening', v)
          /\ \A v \in claimed : v \in spawned'
      BY <1>3, <2>1, GoneOn
    <2>7. \A v : Waiting(opening, v) => v \in Range(rest) \/ Waiting(others, v)
      <3>1. PICK o : o = opening OBVIOUS
      <3>2. k \in 1..Len(o) /\ Len(o) \in Nat /\ DOMAIN o = 1..Len(o) /\ o \in Seq(OpeningType)
        BY <1>1, <3>1, LenProperties
      <3>3. others = RemoveAt(o, k) /\ rest = o[k].rest BY <1>2, <3>1
      <3>4. /\ DOMAIN others = 1..(Len(o) - 1)
            /\ \A j \in 1..(Len(o) - 1) : others[j] = IF j < k THEN o[j] ELSE o[j + 1]
        BY <3>2, <3>3, RemoveAtParts
      <3>5. ASSUME NEW l \in 1..Len(o), l # k PROVE \E j \in DOMAIN others : others[j] = o[l]
        <4>1. CASE l < k
          <5>1. l \in 1..(Len(o) - 1) BY <3>2, <4>1
          <5> QED BY <3>4, <4>1, <5>1
        <4>2. CASE l > k
          <5>1. l - 1 \in 1..(Len(o) - 1) /\ ~(l - 1 < k) /\ (l - 1) + 1 = l BY <3>2, <4>2
          <5> QED BY <3>4, <5>1
        <4> QED BY <3>2, <3>5, <4>1, <4>2
      <3>6. ASSUME NEW v, Waiting(o, v) PROVE v \in Range(rest) \/ Waiting(others, v)
        <4>1. PICK l \in DOMAIN o : v \in Range(o[l].rest) BY <3>6 DEF Waiting
        <4>2. CASE l = k BY <3>3, <4>1, <4>2
        <4>3. CASE l # k BY <3>2, <3>5, <4>1, <4>3 DEF Waiting
        <4> QED BY <4>2, <4>3
      <3> QED BY <3>1, <3>6
    <2>8. ASSUME NEW v \in Listed(mux), Awaited(v) PROVE Awaited(v)'
      <3>1. v # w BY <1>5
      <3>2. \/ v \in Range(known) \/ v \in spawned \/ Opens(tasks, v) \/ Waiting(opening, v)
            \/ \E s \in starting : s.window = v
        BY <2>8 DEF Awaited
      <3>3. \/ v \in Range(known') \/ v \in spawned' \/ Opens(tasks', v) \/ Waiting(opening', v)
            \/ \E s \in starting' : s.window = v
        BY <1>2, <2>1, <2>6, <2>7, <3>1, <3>2
      <3> QED BY <3>3 DEF Awaited, Opens, Waiting
    <2>9. Due => Due' BY <2>1 DEF Due, Wakes, Spawns
    <2>10. \A v \in Listed(mux') : v \in Listed(mux) BY <2>2, <2>4, <2>5 DEF Listed
    <2>11. mux'.alive = mux.alive /\ mux'.moved = mux.moved
           /\ \A v \in Listed(mux) : mux'.place[v] = mux.place[v]
      BY <2>2, <2>3, <2>4, <2>5 DEF Listed
    <2> QED BY <2>1, <2>8, <2>9, <2>10, <2>11, StillRests
  <1> QED BY <1>4, <1>5

LEMMA AnnounceRests ==
  ASSUME Typed, Typed', NEW s \in starting, Announce(s) PROVE Rested'
  <1>1. CASE s.to = None BY <1>1, NotifiedRests DEF Announce
  <1>2. CASE s.to # None
    <2>1. PICK q : q = Notified(tasks) OBVIOUS
    <2>2. s.to \in Workspace /\ Jobs(q) BY <1>2, <2>1, TypedParts, MoreJobs DEF StartingType
    <2>3. Sound(mux') /\ SwitchWorkspace(s.to, q) BY <1>2, <2>1 DEF Announce, Typed
    <2> QED BY <2>2, <2>3, SwitchRests
  <1> QED BY <1>1, <1>2

LEMMA SpawnRests ==
  ASSUME Typed, Rested, NEW name \in Workspace, SpawnWindow(name) PROVE Rested'
  <1>1. Sound(mux) BY TypedParts
  <1>2. /\ mux.made < MaxWindows /\ mux' = WithEmpty(mux, name)
        /\ starting' = starting \cup {[window |-> mux.made + 1, to |-> None]}
        /\ UNCHANGED <<active, known, spawned, switching, shows, tasks, opening>>
    BY DEF SpawnWindow
  <1>3. PICK m, n, w : m = mux /\ n = mux' /\ w = m.made + 1 OBVIOUS
  <1>4. /\ w \in Window /\ n.place = [m.place EXCEPT ![w] = name] /\ n.alive = m.alive
        /\ n.moved = m.moved /\ m.place \in [Window -> Workspace \cup {None}]
    BY <1>1, <1>2, <1>3, WithEmptyParts, MuxParts DEF Sound
  <1>5. w \notin Listed(m)
    <2> SUFFICES ASSUME w \in Listed(m) PROVE FALSE OBVIOUS
    <2>1. m.made + 1 <= m.made BY <1>1, <1>3 DEF Sound
    <2>2. m.made \in Nat BY <1>1, <1>3, MuxParts, BoundsAssumption DEF Sound
    <2> QED BY <2>1, <2>2
  <1>6. \A v \in Listed(m) : n.place[v] = m.place[v] BY <1>4, <1>5 DEF Listed
  <1>7. \A v \in Listed(n) : v = w \/ v \in Listed(m) BY <1>4 DEF Listed
  <1>8. Awaited(w)'
    <2>1. PICK s : s = [window |-> mux.made + 1, to |-> None] OBVIOUS
    <2>2. s \in starting' /\ s.window = w BY <1>2, <1>3, <2>1
    <2> QED BY <2>2 DEF Awaited
  <1>9. \A v : Awaited(v) => Awaited(v)' BY <1>2 DEF Awaited, Opens, Waiting
  <1>10. Due => Due' BY <1>2 DEF Due, Wakes, Spawns
  <1>11. mux'.alive = mux.alive /\ mux'.moved = mux.moved
         /\ \A v \in Listed(mux) : mux'.place[v] = mux.place[v]
    BY <1>3, <1>4, <1>6
  <1>12. \A v \in Listed(mux') : Awaited(v)' \/ (v \in Listed(mux) /\ ~Awaited(v))
    BY <1>3, <1>7, <1>8, <1>9
  <1> QED BY <1>2, <1>10, <1>11, <1>12, StillRests

LEMMA SwitchToRests ==
  ASSUME Typed, Typed', NEW name \in Workspace, SwitchToWorkspace(name) PROVE Rested'
  <1>1. Jobs(tasks) /\ Sound(mux') BY TypedParts DEF Typed
  <1>2. CASE InWorkspace(mux, name) = {}
    <2>1. PICK q, t : q = Notified(tasks) /\ t = SpawnThenSwitch(name) OBVIOUS
    <2>2. tasks' = Append(q, t) BY <1>2, <2>1 DEF SwitchToWorkspace
    <2>3. Queued(q) BY <1>1, <2>1, MoreJobs DEF Jobs
    <2>4. t.type = "spawn" BY <2>1 DEF SpawnThenSwitch
    <2>5. Wakes(tasks') BY <2>2, <2>3, <2>4, QueueWakes
    <2> QED BY <2>5, DueThen
  <1>3. CASE InWorkspace(mux, name) # {}
    <2>1. PICK q : q = tasks OBVIOUS
    <2>2. SwitchWorkspace(name, q) /\ Jobs(q) BY <1>1, <1>3, <2>1 DEF SwitchToWorkspace
    <2> QED BY <1>1, <2>2, SwitchRests
  <1> QED BY <1>2, <1>3

LEMMA CloseRests ==
  ASSUME Typed, Typed', SwitchesKept, NEW i \in GuiWindow, CloseRequested(i) PROVE Rested'
  <1>1. /\ Jobs(tasks) /\ active \in Workspace /\ known \in KnownType /\ Sound(mux')
    BY TypedParts DEF Typed
  <1>2. PICK q, r, t, kn :
          /\ q = IF shows[i] \in Listed(mux) THEN Notified(tasks) ELSE tasks
          /\ t = Close(i) /\ r = Append(q, t) /\ kn = [known EXCEPT ![i] = None]
    OBVIOUS
  <1>3. UnlessSwitching(kn, r) /\ starting' = starting BY <1>2 DEF CloseRequested
  <1>4. kn \in KnownType BY <1>1, <1>2 DEF KnownType
  <1>5. Grows(tasks, q) BY <1>2, NotifiedGrows DEF SwitchesKept, Grows
  <1>6. t.type = "close" /\ Job(t) BY <1>2 DEF Close, Job
  <1>7. Grows(q, r) BY <1>2, <1>5, <1>6, Appended DEF Grows
  <1>8. Waits(tasks) => Waits(r) BY <1>5, <1>7 DEF Grows
  <1>9. Jobs(r) BY <1>1, <1>2, <1>6, MoreJobs
  <1> QED BY <1>1, <1>3, <1>4, <1>8, <1>9, UnlessSwitchingRests

LEMMA RenameRests ==
  ASSUME Typed, Rested, NEW old \in Workspace, NEW new \in Workspace,
         RenameWorkspace(old, new)
  PROVE  Rested'
  <1>1. Jobs(tasks) /\ Sound(mux) BY TypedParts
  <1>2. PICK t, q :
          /\ t = Switch(new)
          /\ q = IF active \in {old, new} THEN Append(tasks, t) ELSE tasks
    OBVIOUS
  <1>3. t.type = "switch" /\ Job(t) BY <1>2 DEF Switch, Job
  <1>4. Jobs(q) BY <1>1, <1>2, <1>3, MoreJobs
  <1>5. tasks' = IF InWorkspace(mux, old) # {} \/ active = old THEN Notified(q) ELSE q
    BY <1>2 DEF RenameWorkspace
  <1>6. CASE InWorkspace(mux, old) # {} \/ active = old
    <2>1. Wakes(tasks') BY <1>4, <1>5, <1>6, QueueWakes DEF Jobs
    <2> QED BY <2>1, DueThen
  <1>7. CASE active = new
    <2>1. q = Append(tasks, t) BY <1>2, <1>7
    <2>2. Wakes(q) BY <1>1, <1>3, <2>1, QueueWakes DEF Jobs
    <2>3. Wakes(Notified(q)) BY <1>4, QueueWakes DEF Jobs
    <2> QED BY <1>5, <2>2, <2>3, DueThen
  <1>8. CASE InWorkspace(mux, old) = {} /\ active # old /\ active # new
    <2>1. /\ tasks' = tasks /\ active' = active
          /\ UNCHANGED <<known, spawned, shows, opening, starting>>
      BY <1>2, <1>5, <1>8 DEF RenameWorkspace
    <2>2. PICK m, n : m = mux /\ n = mux' OBVIOUS
    <2>3. Sound(m) /\ n = Recounted([m EXCEPT !.place =
                            [w \in Window |-> IF w \in InWorkspace(m, old) THEN new ELSE @[w]]])
      BY <1>1, <2>2 DEF RenameWorkspace
    <2>4. /\ n.alive = m.alive /\ n.moved = m.moved
          /\ \A w \in Window : n.place[w] = IF m.place[w] = old THEN new ELSE m.place[w]
      BY <2>3, RenamedParts
    <2>5. \A w \in Window : m.place[w] # old BY <1>8, <2>2 DEF InWorkspace
    <2>6. \A w \in Window : n.place[w] = m.place[w] BY <2>4, <2>5
    <2>7. /\ mux'.alive = mux.alive /\ mux'.moved = mux.moved
          /\ \A w \in Listed(mux) : mux'.place[w] = mux.place[w]
          /\ \A w \in Listed(mux') : w \in Listed(mux)
      BY <2>2, <2>4, <2>6 DEF Listed
    <2>8. \A w : Awaited(w) => Awaited(w)' BY <2>1 DEF Awaited, Opens, Waiting
    <2>9. Due => Due' BY <2>1 DEF Due, Wakes, Spawns
    <2> QED BY <2>1, <2>7, <2>8, <2>9, StillRests
  <1> QED BY <1>6, <1>7, <1>8

LEMMA NextRests ==
  ASSUME Typed, Typed', SwitchesKept, SwitchesKept', Agree, Rested, [Next]_vars
  PROVE  Rested'
  <1>1. ASSUME NEW k \in DOMAIN opening, OpenFails(k) PROVE Rested' BY <1>1, OpenFailsRests
  <1>2. ASSUME NEW s \in starting, StartFails(s) PROVE Rested'
    BY <1>2, AnnounceRests DEF StartFails
  <1>3. ASSUME NEW w, Pruned(w) PROVE Rested' BY <1>3, NotifiedRests DEF Pruned
  <1>4. CASE Proceed
    <2>1. CASE RunTask BY <2>1, TaskRests
    <2>2. CASE \E k \in DOMAIN opening : Opened(k) BY <2>2, OpenedRests
    <2>3. CASE \E s \in starting : Started(s) BY <2>3, AnnounceRests DEF Started
    <2> QED BY <1>1, <1>2, <1>3, <1>4, <2>1, <2>2, <2>3 DEF Proceed
  <1>5. CASE Event
    <2>1. CASE \E name \in Workspace : SpawnWindow(name) BY <2>1, SpawnRests
    <2>2. CASE \E name \in Workspace : SwitchToWorkspace(name) BY <2>2, SwitchToRests
    <2>3. CASE \E i \in GuiWindow : CloseRequested(i) BY <2>3, CloseRests
    <2>4. CASE \E w \in Window, name \in Workspace : SetWorkspace(w, name)
      BY <2>4, NotifiedRests DEF SetWorkspace
    <2>5. CASE \E old, new \in Workspace : RenameWorkspace(old, new) BY <2>5, RenameRests
    <2>6. CASE PanesChange
      <3>1. /\ mux' = Recounted(mux)
            /\ UNCHANGED <<active, known, spawned, switching, shows, tasks, opening, starting>>
        BY <2>6 DEF PanesChange
      <3>2. Sound(mux) BY TypedParts
      <3>3. mux'.place = mux.place /\ mux'.alive = mux.alive /\ mux'.moved = mux.moved
        BY <3>1, <3>2, RecountedParts DEF Sound
      <3>4. \A w : Awaited(w) => Awaited(w)' BY <3>1 DEF Awaited, Opens, Waiting
      <3>5. Due => Due' BY <3>1 DEF Due, Wakes, Spawns
      <3> QED BY <3>1, <3>3, <3>4, <3>5, StillRests DEF Listed
    <2> QED BY <1>1, <1>2, <1>3, <1>5, <2>1, <2>2, <2>3, <2>4, <2>5, <2>6 DEF Event
  <1>6. CASE UNCHANGED vars
    <2>1. UNCHANGED <<mux, active, known, spawned, switching, shows, tasks, opening, starting>>
      BY <1>6 DEF vars
    <2>2. \A w : Awaited(w) => Awaited(w)' BY <2>1 DEF Awaited, Opens, Waiting
    <2>3. Due => Due' BY <2>1 DEF Due, Wakes, Spawns
    <2> QED BY <2>1, <2>2, <2>3, StillRests DEF Listed
  <1> QED BY <1>4, <1>5, <1>6 DEF Next

\* A reconcile is queued
LEMMA RestsAtFirst == Init => Rested
  <1> SUFFICES ASSUME Init PROVE Rested OBVIOUS
  <1>1. tasks = <<Reconcile>> /\ Reconcile.type = "reconcile" BY DEF Init, Reconcile
  <1> QED BY <1>1 DEF Rested, Due, Wakes

-----------------------------------------------------------------------------
(* The theorems.                                                           *)

\* The inductive invariant
Steady == Typed /\ SwitchesKept /\ Agree /\ Rested

\* Whatever is queued, opened and spawned: the types, the pending switch, what the GUI
\* windows are told, and what is due or settled (frontend.rs).
THEOREM AlwaysSteady == Spec => []Steady
  <1>1. Init => Steady
    BY TypedAtFirst, NoneWaitsAtFirst, AgreeAtFirst, RestsAtFirst DEF Steady
  <1>2. Steady /\ [Next]_vars => Steady'
    <2> SUFFICES ASSUME Typed, SwitchesKept, Agree, Rested, [Next]_vars PROVE Steady'
      BY DEF Steady
    <2>1. Typed' BY NextTyped
    <2>2. SwitchesKept' BY NextKeeps
    <2>3. Agree' BY <2>1, NextAgrees
    <2>4. Rested' BY <2>1, <2>2, NextRests
    <2> QED BY <2>1, <2>2, <2>3, <2>4 DEF Steady
  <1> QED BY <1>1, <1>2, PTL DEF Spec

\* Nothing is left to do
LEMMA SteadyAtRest ==
  ASSUME Steady, AtRest
  PROVE  /\ Settled /\ Covered /\ Inhabited
         /\ \A i \in GuiWindow : /\ shows[i] \in {None, known[i]}
                                 /\ shows[i] = None => known[i] = None
         /\ \A w : ~Opens(tasks, w) /\ ~Waiting(opening, w) /\ ~(\E s \in starting : s.window = w)
  <1>1. DOMAIN tasks = {} /\ DOMAIN opening = {} /\ starting = {} BY DEF AtRest
  <1>2. ~Due BY <1>1 DEF Due, Wakes, Spawns
  <1>3. Settled /\ Covered /\ Inhabited BY <1>2 DEF Steady, Rested
  <1>4. \A x : ~Member(tasks, x) BY <1>1 DEF Member
  <1>5. ASSUME NEW i \in GuiWindow
        PROVE  shows[i] \in {None, known[i]} /\ (shows[i] = None => known[i] = None)
    BY <1>4 DEF Steady, Agree, Told
  <1> QED BY <1>1, <1>3, <1>5 DEF Opens, Waiting

\* For any number of windows, GUI windows and workspaces, and however openings,
\* closings, switches and renames interleave: when nothing is left to do each GUI window
\* shows what known_windows says, a window of the active workspace that no other shows
\* (frontend.rs, reconcile_workspace).
THEOREM OthersAlwaysHidden == Spec => []OthersHidden
  <1>1. Steady => OthersHidden
    <2> SUFFICES ASSUME Steady, AtRest, NEW i \in GuiWindow, shows[i] # None
                 PROVE  /\ known[i] = shows[i]
                        /\ mux.place[shows[i]] = active
                        /\ \A j \in GuiWindow : shows[j] = shows[i] => j = i
      BY DEF OthersHidden
    <2>1. /\ Settled
          /\ \A j \in GuiWindow : shows[j] \in {None, known[j]}
      BY SteadyAtRest
    <2>2. known[i] = shows[i] /\ known[i] # None BY <2>1
    <2>3. /\ mux.place[known[i]] = active
          /\ \A j \in GuiWindow : known[j] = known[i] => j = i
      BY <2>1, <2>2 DEF Settled
    <2>4. ASSUME NEW j \in GuiWindow, shows[j] = shows[i] PROVE j = i
      <3>1. known[j] = shows[j] BY <2>1, <2>2, <2>4
      <3> QED BY <2>2, <2>3, <2>4, <3>1
    <2> QED BY <2>2, <2>3, <2>4
  <1> QED BY <1>1, AlwaysSteady, PTL

\* and each window of the active workspace is in view, unless a claim on it has been
\* left behind in spawned_mux_window (frontend.rs, "then spawn any new windows that are
\* needed").
THEOREM ActiveAlwaysShown == Spec => []ActiveShown
  <1>1. Steady => ActiveShown
    <2> SUFFICES ASSUME Steady, AtRest, NEW w \in InWorkspace(mux, active)
                 PROVE  InView(w) \/ Stranded(w)
      BY DEF ActiveShown
    <2>1. /\ Covered
          /\ \A i \in GuiWindow : /\ shows[i] \in {None, known[i]}
                                  /\ shows[i] = None => known[i] = None
          /\ \A v : ~Opens(tasks, v) /\ ~Waiting(opening, v) /\ ~(\E s \in starting : s.window = v)
      BY SteadyAtRest
    <2>2. w \in Range(known) \/ w \in spawned BY <2>1 DEF Covered, Awaited
    <2>3. CASE w \in Range(known)
      <3>1. DOMAIN known = GuiWindow /\ w # None
        BY TypedParts, NamesFinite DEF Steady, KnownType, InWorkspace
      <3>2. PICK i \in GuiWindow : known[i] = w BY <2>3, <3>1 DEF Range
      <3>3. shows[i] = w BY <2>1, <3>1, <3>2
      <3> QED BY <3>2, <3>3 DEF InView
    <2>4. CASE w \notin Range(known) BY <2>2, <2>4 DEF Stranded
    <2> QED BY <2>3, <2>4
  <1> QED BY <1>1, AlwaysSteady, PTL

\* The user is not left in an empty workspace while programs run in another, unless
\* set_workspace has moved a window without counting the panes again (frontend.rs, "We
\* don't want to silently kill off things that might be running in other workspaces").
THEOREM NeverLeftEmpty == Spec => []NotLeftEmpty
  <1>1. Steady => NotLeftEmpty
    <2> SUFFICES ASSUME Steady, AtRest, ~mux.moved
                 PROVE  mux.alive = {} \/ \E w \in mux.alive : mux.place[w] = active
      BY DEF NotLeftEmpty
    <2> QED BY SteadyAtRest DEF Inhabited
  <1> QED BY <1>1, AlwaysSteady, PTL
=============================================================================
