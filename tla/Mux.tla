-------------------------------- MODULE Mux --------------------------------
(***************************************************************************)
(* The registry of the multiplexer (mux/src/lib.rs): panes, tabs and       *)
(* windows, and who removes what when.                                     *)
(*                                                                         *)
(* Everything that changes the registry runs on the main thread, one task  *)
(* of its FIFO queue at a time, but requests are async functions that      *)
(* yield while a program is being spawned, and the threads of every pane   *)
(* (the one that waits for the child, the one that reads the pty) only     *)
(* post tasks.  Dead things are removed by prune_dead_windows, which does  *)
(* nothing while an Activity is alive and relies on whoever ends the       *)
(* activity to prune later.                                                *)
(*                                                                         *)
(* The panes of a tab are a set here: the tree is the subject of PaneTree, *)
(* and the order of a window's tabs that of WindowTabs.                    *)
(***************************************************************************)
EXTENDS Naturals, Sequences, FiniteSets

CONSTANTS
  Pane, Tab, Window,  \* identifiers, each allocated at most once
  Remote,             \* the panes of a detachable (client) domain
  Op,                 \* requests that may be in flight, each used once
  ResizeMayFail,      \* whether Pane::resize can report an error (a dead ssh pty)
  MaxQueue            \* bound: how far the queue may fill before users and
                      \* threads wait for it; what its own tasks post comes on top

ASSUME RemoteAssumption == Remote \subseteq Pane
ASSUME ResizeAssumption == ResizeMayFail \in BOOLEAN
ASSUME QueueAssumption == MaxQueue \in Nat

VARIABLES
  mux,        \* the registry: [panes, tabs, windows, tree, tabsOf]
  proc,       \* what Pane::is_dead is going to say of each pane
  reading,    \* the panes whose read_from_pane_pty thread is still running
  queue,      \* the main thread's queue: the tasks that matter here
  activities, \* the live Activity objects, named by the request holding them
  op,         \* where each request is, and what it kept from before its await
  madeTabs, madeWindows, \* identifiers already allocated
  quit        \* terminate_message_loop has been called

vars == <<mux, proc, reading, queue, activities, op, madeTabs, madeWindows, quit>>

PruneTask == [type |-> "prune", panes |-> {}]
QuitTask == [type |-> "quit", panes |-> {}]
RemoveTask(ps) == [type |-> "remove", panes |-> ps]

\* Option::map over a possibly absent task
Post(cond, task) == IF cond THEN <<task>> ELSE <<>>

ListedTabs(m) == UNION {m.tabsOf[w] : w \in m.windows}

-----------------------------------------------------------------------------
(* Removal, as in lib.rs: each operator maps a registry to a registry.     *)

\* remove_pane_internal, for each of ps
RemovePanes(m, ps) == [m EXCEPT !.panes = @ \ ps]

\* LocalPane::kill: a pane held open after its child's exit becomes dead; a
\* running child is signalled, and ChildExit follows in its own time
Killed(pr, ps) == [p \in Pane |-> IF p \in ps /\ pr[p] = "held" THEN "dead" ELSE pr[p]]

\* The window list is left alone when its lock is held by the caller.
RemoveTabsUnlisted(m, ts) ==
  [m EXCEPT !.tabs = @ \ ts, !.panes = @ \ UNION {m.tree[t] : t \in ts \cap m.tabs}]

\* remove_tab_internal, for each of ts; the tab objects keep their trees
RemoveTabs(m, ts) ==
  [m EXCEPT !.tabs = @ \ ts,
            !.tabsOf = [w \in Window |-> @[w] \ ts],
            !.panes = @ \ UNION {m.tree[t] : t \in ts \cap m.tabs}]

\* the last part of remove_window_internal
RemoveWindows(m, ws) ==
  [m EXCEPT !.windows = @ \ ws,
            !.tabsOf = [w \in Window |-> IF w \in ws THEN {} ELSE @[w]]]

\* Hands out the pane without taking it from the tree.
TakeClone(m, t, p) == m

\* Tab::remove_pane: exactly this pane, wherever it is
TakePane(m, t, p) == [m EXCEPT !.tree[t] = @ \ {p}]

\* Tab::is_dead; a tab without panes is dead
DeadTab(m, pr, t) == \A p \in m.tree[t] : pr[p] = "dead"

\* The sets Tab::remove_pane_if may take out of the listed tabs in one sweep
\* when `matches` holds of the panes in ps: it can skip the sibling of a pane
\* it removes, but it never misses every match of a tab.
Sweeps(m, ps) ==
  {r \in SUBSET (ps \cap UNION {m.tree[t] : t \in ListedTabs(m)}) :
     \A t \in ListedTabs(m) : m.tree[t] \cap ps # {} => m.tree[t] \cap r # {}}

Swept(m, r) ==
  [m EXCEPT !.tree = [t \in Tab |-> IF t \in ListedTabs(m) THEN @[t] \ r ELSE @[t]]]

\* Takes a pane held open after its child's exit for a dead one.
PrunableHeld(m, pr) == {p \in Pane : pr[p] # "running" \/ p \notin m.panes}

\* prune_dead_panes: `dead || !in_mux`
Prunable(m, pr) == {p \in Pane : pr[p] = "dead" \/ p \notin m.panes}

\* prune_dead_windows, after the sweep r of every listed tab's panes: windows
\* drop their dead and unknown tabs, then dead tabs and empty windows go.
Pruned(m, pr, r) ==
  LET swept == Swept(m, r)
      shown == [w \in Window |->
                  {t \in swept.tabsOf[w] : t \in m.tabs /\ ~DeadTab(swept, pr, t)}]
      deadTabs == {t \in m.tabs : DeadTab(swept, pr, t)}
      deadWindows == {w \in m.windows : shown[w] = {}}
  IN RemoveWindows(RemoveTabs([swept EXCEPT !.tabsOf = shown], deadTabs), deadWindows)

\* The outcomes of prune_dead_windows from registry m and queue q: it posts the
\* removal of the panes it swept, and MuxNotification::Empty makes the front
\* end post its check whether to quit.
Prunes(m, pr, q, busy) ==
  IF busy
  THEN {[mux |-> m, queue |-> q]}
  ELSE {[mux |-> Pruned(m, pr, r),
         queue |-> q \o Post(r # {}, RemoveTask(r))
                     \o Post(Pruned(m, pr, r).panes = {}, QuitTask)]
          : r \in Sweeps(m, Prunable(m, pr))}

Busy == activities # {}

PruneFrom(m, pr, q) ==
  \E x \in Prunes(m, pr, q, Busy) : mux' = x.mux /\ queue' = x.queue

-----------------------------------------------------------------------------
Init ==
  /\ mux = [panes |-> {}, tabs |-> {}, windows |-> {},
            tree |-> [t \in Tab |-> {}], tabsOf |-> [w \in Window |-> {}]]
  /\ proc = [p \in Pane |-> "unborn"]
  /\ reading = {}
  /\ queue = <<>>
  /\ activities = {}
  /\ op = [o \in Op |-> [pc |-> "unused"]]
  /\ madeTabs = {} /\ madeWindows = {}
  /\ quit = FALSE

\* Identifiers come from counters, so the next one is determined.
Unborn == {p \in Pane : proc[p] = "unborn"}
NewTab == CHOOSE t \in Tab : t \notin madeTabs
NewWindow == CHOOSE w \in Window : w \notin madeWindows

\* The Activity objects a request may hold: the caller's (spawn.rs) and the
\* one inside the MuxWindowBuilder of a window it opens.
Holding(o) == activities \cap {<<o, "caller">>, <<o, "builder">>}

\* What the request kept is not dropped with it.
ReturnKeeping(o, q) ==
  /\ op' = [op EXCEPT ![o].pc = "done"]
  /\ activities' = activities \ Holding(o)
  /\ queue' = q \o Post(Holding(o) # {}, PruneTask)

\* The last Activity is dropped without a prune.
ReturnSilently(o, q) ==
  /\ op' = [op EXCEPT ![o] = [pc |-> "done"]]
  /\ activities' = activities \ Holding(o)
  /\ queue' = q

\* A request returns, with success or an error: what it holds is dropped, and
\* every Activity that is dropped posts a prune.
Return(o, q) ==
  /\ op' = [op EXCEPT ![o] = [pc |-> "done"]]
  /\ activities' = activities \ Holding(o)
  /\ queue' = q \o Post(Holding(o) # {}, PruneTask)

-----------------------------------------------------------------------------
(* spawn_tab_or_window: the window is chosen or created before the await   *)
(* of Domain::spawn, and looked up again after it.                         *)

StartSpawnTab(o, w, held) ==
  /\ op[o].pc = "unused"
  /\ w \in mux.windows
  /\ \E t \in mux.tabsOf[w] : mux.tree[t] # {}
  /\ op' = [op EXCEPT ![o] = [pc |-> "spawning", window |-> w]]
  /\ activities' = activities \cup held
  /\ UNCHANGED <<mux, proc, reading, queue, madeTabs, madeWindows, quit>>

StartSpawnWindow(o, held) ==
  /\ op[o].pc = "unused"
  /\ madeWindows # Window
  /\ op' = [op EXCEPT ![o] = [pc |-> "spawning", window |-> NewWindow]]
  /\ mux' = [mux EXCEPT !.windows = @ \cup {NewWindow}]
  /\ madeWindows' = madeWindows \cup {NewWindow}
  /\ activities' = activities \cup held \cup {<<o, "builder">>}
  /\ UNCHANGED <<proc, reading, queue, madeTabs, quit>>

\* spawn_pane or an earlier step reports an error
SpawnFails(o) ==
  /\ op[o].pc \in {"spawning", "splitting"}
  /\ Return(o, queue)
  /\ UNCHANGED <<mux, proc, reading, madeTabs, madeWindows, quit>>

\* spawn_pane registers the pane (add_pane) and starts its reader; remote
\* panes have none.
StartPane(p) ==
  /\ proc' = [proc EXCEPT ![p] = "running"]
  /\ reading' = reading \cup ({p} \ Remote)

\* Domain::spawn: the tab is registered before add_tab_to_window finds out
\* whether the window is still there.
FinishSpawn(o, p) ==
  LET w == op[o].window IN
  /\ op[o].pc = "spawning"
  /\ p \in Unborn
  /\ madeTabs # Tab
  /\ StartPane(p)
  /\ mux' = [mux EXCEPT !.panes = @ \cup {p},
                        !.tabs = @ \cup {NewTab},
                        !.tree[NewTab] = {p},
                        !.tabsOf[w] = IF w \in mux.windows THEN @ \cup {NewTab} ELSE @]
  /\ madeTabs' = madeTabs \cup {NewTab}
  /\ Return(o, queue)
  /\ UNCHANGED <<madeWindows, quit>>

-----------------------------------------------------------------------------
(* split_pane with SplitSource::Spawn keeps the tab object and the target  *)
(* pane across the await of spawn_pane.                                    *)

StartSplit(o, t, p, held) ==
  /\ op[o].pc = "unused"
  /\ t \in ListedTabs(mux)
  /\ p \in mux.tree[t] \cap mux.panes
  /\ p \notin Remote
  /\ op' = [op EXCEPT ![o] = [pc |-> "splitting", tab |-> t, pane |-> p]]
  /\ activities' = activities \cup held
  /\ UNCHANGED <<mux, proc, reading, queue, madeTabs, madeWindows, quit>>

\* The end of Domain::split_pane: insert beside the target if it is still in
\* the tree and the tab is not zoomed and has the space.
InsertBeside(m, t, target, p, fits) ==
  IF fits /\ target \in m.tree[t] THEN [m EXCEPT !.tree[t] = @ \cup {p}] ELSE m

FinishSplit(o, p, fits) ==
  /\ op[o].pc = "splitting"
  /\ p \in Unborn \ Remote
  /\ StartPane(p)
  /\ mux' = InsertBeside([mux EXCEPT !.panes = @ \cup {p}],
                         op[o].tab, op[o].pane, p, fits)
  /\ Return(o, queue)
  /\ UNCHANGED <<madeTabs, madeWindows, quit>>

\* split_pane with SplitSource::MovePane has no await after the tabs are
\* resolved: take the source out, drop its tab if nothing alive is left, look
\* the target up again, insert.
MovePane(t, target, s, source, fits) ==
  /\ t \in ListedTabs(mux) /\ s \in ListedTabs(mux)
  /\ target \in mux.tree[t] \cap mux.panes
  /\ target \notin Remote
  /\ source \in mux.tree[s]
  /\ LET taken == TakePane(mux, s, source) IN
     IF DeadTab(taken, proc, s)
     THEN \E x \in Prunes(RemoveTabs(taken, {s}), proc, queue, Busy) :
            /\ mux' = InsertBeside(x.mux, t, target, source, fits)
            /\ queue' = x.queue
     ELSE /\ mux' = InsertBeside(taken, t, target, source, fits)
          /\ UNCHANGED queue
  /\ UNCHANGED <<proc, reading, activities, op, madeTabs, madeWindows, quit>>

-----------------------------------------------------------------------------
(* move_pane_to_new_tab: no await either, once the local domain has        *)
(* declined.  The pane leaves its tab before it is resized for the new one.*)

\* Mux::add_tab_and_active_pane and add_tab_to_window for the moved pane; a
\* pane the mux had already removed is registered again.
InNewTab(m, p, w) ==
  [m EXCEPT !.panes = @ \cup {p}, !.tabs = @ \cup {NewTab},
            !.tree[NewTab] = {p}, !.tabsOf[w] = @ \cup {NewTab}]

\* The outcomes of the move into w, from registry m and queue q: if the resize
\* fails, the error is returned with the pane in no tab; otherwise the source
\* tab goes if it is dead.
Moved(m, s, p, w, q, busy, fits) ==
  LET moved == InNewTab(TakePane(m, s, p), p, w) IN
  IF ~fits THEN {[mux |-> TakePane(m, s, p), queue |-> q]}
  ELSE IF DeadTab(moved, proc, s)
  THEN Prunes(RemoveTabs(moved, {s}), proc, q, busy)
  ELSE {[mux |-> moved, queue |-> q]}

CanMoveToNewTab(s, p) ==
  /\ s \in ListedTabs(mux)
  /\ p \in mux.tree[s] \ Remote
  /\ madeTabs # Tab

\* Whether Pane::resize succeeds
Resizes == IF ResizeMayFail THEN BOOLEAN ELSE {TRUE}

MoveToNewTab(s, p, w, fits) ==
  /\ CanMoveToNewTab(s, p)
  /\ w \in mux.windows /\ mux.tabsOf[w] # {}
  /\ \E x \in Moved(mux, s, p, w, queue, Busy, fits) : mux' = x.mux /\ queue' = x.queue
  /\ madeTabs' = madeTabs \cup {NewTab}
  /\ reading' = IF fits THEN reading \cup ({p} \ mux.panes) ELSE reading
  /\ UNCHANGED <<proc, activities, op, madeWindows, quit>>

\* The builder's Activity keeps prune_dead_windows off and posts a prune when
\* it is dropped at the end.
MoveToNewWindow(s, p, fits) ==
  LET opened == [mux EXCEPT !.windows = @ \cup {NewWindow}] IN
  /\ CanMoveToNewTab(s, p)
  /\ madeWindows # Window
  /\ \E x \in Moved(opened, s, p, NewWindow, queue, TRUE, fits) :
       mux' = x.mux /\ queue' = x.queue \o <<PruneTask>>
  /\ madeTabs' = madeTabs \cup {NewTab}
  /\ madeWindows' = madeWindows \cup {NewWindow}
  /\ reading' = IF fits THEN reading \cup ({p} \ mux.panes) ELSE reading
  /\ UNCHANGED <<proc, activities, op, quit>>

-----------------------------------------------------------------------------
(* Closing, by the user or a client.                                       *)

\* The GUI closes a pane: Tab::kill_pane takes it out of the tree and posts
\* its removal from the mux.
ClosePane(t, p) ==
  /\ t \in ListedTabs(mux)
  /\ p \in mux.tree[t]
  /\ mux' = TakePane(mux, t, p)
  /\ queue' = Append(queue, RemoveTask({p}))
  /\ UNCHANGED <<proc, reading, activities, op, madeTabs, madeWindows, quit>>

\* Mux::remove_pane for each of ps: the prune after the last one can sweep all
\* that the prunes after the earlier ones could, so it stands for them.
RemovePane(ps, q) ==
  /\ proc' = Killed(proc, ps \cap mux.panes)
  /\ PruneFrom(RemovePanes(mux, ps), proc', q)

\* A client's KillPane request
KillPane(p) ==
  /\ p \in mux.panes
  /\ RemovePane({p}, queue)
  /\ UNCHANGED <<reading, activities, op, madeTabs, madeWindows, quit>>

\* Mux::remove_tab, of a tab the user sees
CloseTab(t) ==
  /\ t \in ListedTabs(mux)
  /\ proc' = Killed(proc, mux.tree[t] \cap mux.panes)
  /\ PruneFrom(RemoveTabs(mux, {t}), proc', queue)
  /\ UNCHANGED <<reading, activities, op, madeTabs, madeWindows, quit>>

\* domain_was_detached, before it prunes: sweep the listed tabs, then remove
\* every pane of the domain.
Detached(m, k) == RemovePanes(Swept(m, k), Remote)

DetachDomain ==
  /\ mux.panes \cap Remote # {}
  /\ \E k \in Sweeps(mux, Remote) :
       PruneFrom(Detached(mux, k), proc, queue \o Post(k # {}, RemoveTask(k)))
  /\ UNCHANGED <<proc, reading, activities, op, madeTabs, madeWindows, quit>>

\* A window is shown, and can be closed, once its MuxWindowBuilder is dropped.
Hidden(w) == \E o \in Op : <<o, "builder">> \in activities /\ op[o].window = w

\* Mux::kill_window: a window with panes of a detachable domain detaches it
\* (the prune in the middle of that is subsumed by the one at the end).
CloseWindow(w) ==
  LET ts == mux.tabsOf[w]
      gone == RemoveWindows(mux, {w})
      detach == \E t \in ts : mux.tree[t] \cap Remote # {}
  IN
  /\ w \in mux.windows /\ ~Hidden(w)
  /\ proc' = Killed(proc, UNION {mux.tree[t] : t \in ts} \cap mux.panes)
  /\ IF detach
     THEN \E k \in Sweeps(gone, Remote) :
            PruneFrom(RemoveTabs(Detached(gone, k), ts), proc',
                      queue \o Post(k # {}, RemoveTask(k)))
     ELSE PruneFrom(RemoveTabs(gone, ts), proc', queue)
  /\ UNCHANGED <<reading, activities, op, madeTabs, madeWindows, quit>>

-----------------------------------------------------------------------------
(* The threads of a pane, and the main thread's queue.                     *)

\* The thread that waits for the child posts a prune.  Only a local pane may
\* be held open by exit_behavior.
ChildExit(p, state) ==
  /\ proc[p] = "running"
  /\ state = "held" => p \notin Remote
  /\ proc' = [proc EXCEPT ![p] = state]
  /\ queue' = Append(queue, PruneTask)
  /\ UNCHANGED <<mux, reading, activities, op, madeTabs, madeWindows, quit>>

\* read_from_pane_pty ends: exit_behavior, read when the thread started, says
\* whether the pane is removed outright or pruned if dead.
ReaderEof(p, task) ==
  /\ p \in reading
  /\ reading' = reading \ {p}
  /\ queue' = Append(queue, task)
  /\ UNCHANGED <<mux, proc, activities, op, madeTabs, madeWindows, quit>>

RunPrune ==
  /\ queue # <<>> /\ Head(queue).type = "prune"
  /\ PruneFrom(mux, proc, Tail(queue))
  /\ UNCHANGED <<proc, reading, activities, op, madeTabs, madeWindows, quit>>

RunRemove ==
  /\ queue # <<>> /\ Head(queue).type = "remove"
  /\ RemovePane(Head(queue).panes, Tail(queue))
  /\ UNCHANGED <<reading, activities, op, madeTabs, madeWindows, quit>>

\* The front end's answer to MuxNotification::Empty
RunQuit ==
  /\ queue # <<>> /\ Head(queue).type = "quit"
  /\ quit' = (activities = {})
  /\ queue' = Tail(queue)
  /\ UNCHANGED <<mux, proc, reading, activities, op, madeTabs, madeWindows>>

RunTask == ~quit /\ (RunPrune \/ RunRemove \/ RunQuit)

Request ==
  \E o \in Op : \E held \in {{}, {<<o, "caller">>}} :
    \/ \E w \in Window : StartSpawnTab(o, w, held)
    \/ StartSpawnWindow(o, held)
    \/ \E t \in Tab, p \in Pane : StartSplit(o, t, p, held)

Finish(o) ==
  \/ SpawnFails(o)
  \/ \E p \in Pane : FinishSpawn(o, p)
  \/ \E p \in Pane, fits \in BOOLEAN : FinishSplit(o, p, fits)

Move ==
  \E s \in Tab, p \in Pane :
    \/ \E t \in Tab, target \in Pane, fits \in BOOLEAN : MovePane(t, target, s, p, fits)
    \/ \E w \in Window, fits \in Resizes : MoveToNewTab(s, p, w, fits)
    \/ \E fits \in Resizes : MoveToNewWindow(s, p, fits)

Close ==
  \/ \E t \in Tab, p \in Pane : ClosePane(t, p)
  \/ \E p \in Pane : KillPane(p)
  \/ \E t \in Tab : CloseTab(t)
  \/ \E w \in Window : CloseWindow(w)
  \/ DetachDomain

PaneThread ==
  \/ \E p \in Pane, state \in {"dead", "held"} : ChildExit(p, state)
  \/ \E p \in Pane : \E task \in {PruneTask, RemoveTask({p})} : ReaderEof(p, task)

\* Users and threads act while the queue is short.
Open == ~quit /\ Len(queue) < MaxQueue

Next ==
  \/ RunTask
  \/ /\ Open
     /\ \/ Request
        \/ \E o \in Op : Finish(o)
        \/ Move
        \/ Close
        \/ PaneThread

Spec == Init /\ [][Next]_vars

\* The main loop runs its tasks, a spawned program starts or fails, and the
\* thread of a pane sees the end of file once the child is gone.  Children
\* need not exit, and users need not do anything.
Fairness ==
  /\ WF_vars(RunTask)
  /\ \A o \in Op : WF_vars(Open /\ Finish(o))
  /\ \A p \in Pane :
       WF_vars(/\ Open
               /\ proc[p] \in {"dead", "held"}
               /\ \E task \in {PruneTask, RemoveTask({p})} : ReaderEof(p, task))

FairSpec == Spec /\ Fairness

-----------------------------------------------------------------------------
Registry ==
  [panes : SUBSET Pane, tabs : SUBSET Tab, windows : SUBSET Window,
   tree : [Tab -> SUBSET Pane], tabsOf : [Window -> SUBSET Tab]]

Task == [type : {"prune", "quit", "remove"}, panes : SUBSET Pane]

OpState ==
  [pc : {"unused", "done"}]
    \cup [pc : {"spawning"}, window : Window]
    \cup [pc : {"splitting"}, tab : Tab, pane : Pane]

TypeOK ==
  /\ mux \in Registry
  /\ proc \in [Pane -> {"unborn", "running", "held", "dead"}]
  /\ reading \subseteq Pane
  /\ queue \in Seq(Task)
  /\ activities \subseteq Op \X {"caller", "builder"}
  /\ op \in [Op -> OpState]
  /\ madeTabs \subseteq Tab /\ madeWindows \subseteq Window
  /\ quit \in BOOLEAN

\* No pane is in the trees of two tabs, whatever moves, splits and prunes were
\* in flight together: a pane in two tabs would be resized, killed and drawn
\* twice.
PaneInOneTab ==
  \A t, u \in Tab : t # u => mux.tree[t] \cap mux.tree[u] = {}

\* A window that exists lists only tabs the mux knows, no tab is listed by two
\* windows, and a window that is gone lists nothing.
ListedTabsKnown ==
  /\ ListedTabs(mux) \subseteq mux.tabs
  /\ \A w \in Window : w \notin mux.windows => mux.tabsOf[w] = {}
  /\ \A v, w \in Window : v # w => mux.tabsOf[v] \cap mux.tabsOf[w] = {}

\* What a prune would clear away: an empty window, a tab without panes, and a
\* pane that is dead or unknown to the mux and still shown in a tab.
Untidy(m, pr) ==
  \/ \E w \in m.windows : m.tabsOf[w] = {}
  \/ \E t \in ListedTabs(m) : m.tree[t] = {} \/ m.tree[t] \cap Prunable(m, pr) # {}

PruneComing(q, acts) ==
  acts # {} \/ \E i \in DOMAIN q : q[i].type \in {"prune", "remove"}

\* prune_dead_windows gives up while an Activity is alive and removes only
\* part of the dead panes in one sweep, yet no garbage is ever forgotten: if
\* there is some, a prune is still to come.
PruneNotLost == Untidy(mux, proc) => PruneComing(queue, activities)

Shown == UNION {mux.tree[t] : t \in ListedTabs(mux)}

\* A prune, and the detaching of a domain, remove whole tabs and windows on
\* the evidence of some of their panes, yet a local pane whose child still
\* runs, or that is held open for reading, stays on the screen and in the mux.
Living == {p \in (mux.panes \cap Shown) \ Remote : proc[p] # "dead"}

PruneSparesLiving ==
  [][RunPrune \/ DetachDomain => Living \subseteq (mux.panes \cap Shown)']_vars

\* However prunes are put off by activities and however many panes die
\* together, a dead pane shown in a window does not stay there.
DeadPanesLeave ==
  \A p \in Pane : (proc[p] = "dead" /\ p \in Shown) ~> (p \notin Shown \/ quit)

-----------------------------------------------------------------------------
(* What the front end says and the documentation promises of quitting.     *)

\* "Mux is now empty, terminate gui": when the message loop is ended, no
\* window shows a pane.
QuitOnlyWhenEmpty == [][quit' /\ ~quit => Shown = {}]_vars

\* "wezterm will terminate when all windows are closed" (unless another one is
\* opened first)
QuitWhenWindowsClosed ==
  (madeWindows # {} /\ mux.windows = {}) ~> (quit \/ mux.windows # {})
=============================================================================
