------------------------------- MODULE FrontEnd -------------------------------
(***************************************************************************)
(* GUI windows and the mux windows they show: GuiFrontEnd and              *)
(* WorkspaceSwitcher of wezterm-gui/src/frontend.rs, what TermWindow calls *)
(* them for, and the workspaces of the mux.                                *)
(*                                                                         *)
(* reconcile_workspace makes the GUI show the windows of the active        *)
(* workspace: it repurposes the GUI windows there are, closes those left   *)
(* over, and has a task open those that are missing, one await after the   *)
(* other.  Everything runs on the main thread; the user's events come      *)
(* between two tasks of its FIFO queue.                                    *)
(*                                                                         *)
(* A mux window has panes or has none: its tabs are the subject of Mux and *)
(* WindowTabs.  The process outlives its windows, as it does when          *)
(* quit_when_all_windows_are_closed is off; quitting is in Mux.            *)
(***************************************************************************)
EXTENDS Naturals, Sequences, FiniteSets, SequencesExt

CONSTANTS
  MaxWindows,    \* bound: how many windows the mux ever makes
  MaxGuiWindows, \* bound: how many GUI windows there are at a time
  MaxWorkspaces, \* bound: how many workspaces there are
  MaxEvents,     \* bound: how often users act, programs exit, openings and spawns fail
  MaxQueued      \* bound: nothing but the next task happens while more are queued

ASSUME BoundsAssumption ==
  /\ MaxWindows \in Nat \ {0} /\ MaxGuiWindows \in Nat \ {0}
  /\ MaxWorkspaces \in Nat \ {0} /\ MaxEvents \in Nat /\ MaxQueued \in Nat

\* Identifiers are given in order, and workspaces are sorted by their names
None == 0
Window == 1..MaxWindows
GuiWindow == 1..MaxGuiWindows
Workspace == 1..MaxWorkspaces

VARIABLES
  mux,       \* the mux, see Init
  active,    \* the active workspace of the GUI's client
  known,     \* known_windows: which window each GUI window is meant to show
  spawned,   \* spawned_mux_window: windows a GUI window has been made for
  switching, \* switching_workspaces
  shows,     \* TermWindow::mux_window_id; None: there is no such GUI window
  tasks,     \* what the main thread has queued
  opening,   \* tasks of reconcile_workspace that wait in TermWindow::new_window
  starting,  \* windows whose program is being spawned
  events     \* how often somebody may still act

vars == <<mux, active, known, spawned, switching, shows, tasks, opening, starting, events>>

-----------------------------------------------------------------------------
(* Tasks of the main thread                                                *)

Reconcile == [type |-> "reconcile"]
Show(i, w) == [type |-> "show", on |-> i, window |-> w]
Close(i) == [type |-> "close", on |-> i]
Open(ws) == [type |-> "open", windows |-> ws]
SpawnThenSwitch(name) == [type |-> "spawn", to |-> name]
Switch(name) == [type |-> "switch", to |-> name]

\* WindowCreated, WindowRemoved, WindowWorkspaceChanged, ActiveWorkspaceChanged:
\* what the front end's subscriber posts.  Two in a row do what one does.
Notified(queue) ==
  IF queue # <<>> /\ Last(queue) = Reconcile THEN queue ELSE Append(queue, Reconcile)

-----------------------------------------------------------------------------
(* The mux.  counted is what is_workspace_empty looks at: the workspaces    *)
(* num_panes_by_workspace has panes for, as of the last recompute_pane_count. *)

Listed(m) == {w \in Window : m.place[w] # None}
InWorkspace(m, name) == {w \in Window : m.place[w] = name}

\* recompute_pane_count
Recounted(m) == [m EXCEPT !.counted = {m.place[w] : w \in m.alive}]

\* Mutant of Removed: the panes are not counted again
RemovedUncounted(m, w) == [m EXCEPT !.place[w] = None, !.alive = @ \ {w}]

\* remove_window_internal
Removed(m, w) == Recounted([m EXCEPT !.place[w] = None, !.alive = @ \ {w}])

\* new_empty_window: no notification, and no panes to count
WithEmpty(m, name) == [m EXCEPT !.made = @ + 1, !.place[m.made + 1] = name]

-----------------------------------------------------------------------------
(* reconcile_workspace                                                     *)

\* In order: the kth of S has k - 1 below it
Sorted(S) == [k \in 1..Cardinality(S) |-> CHOOSE x \in S : Cardinality({y \in S : y < x}) = k - 1]
Least(S) == CHOOSE x \in S : \A y \in S : x <= y

\* Mutant of Populated: without a workspace to go to, none is active
PopulatedOrNone(m, name) ==
  LET populated == {m.place[w] : w \in Listed(m)} \cap m.counted
  IN IF name \in m.counted THEN name
     ELSE IF populated = {} THEN None ELSE Least(populated)

\* An empty workspace is left for the first that is not
Populated(m, name) ==
  LET populated == {m.place[w] : w \in Listed(m)} \cap m.counted
  IN IF name \in m.counted \/ populated = {} THEN name ELSE Least(populated)

\* Mutant of Assigned: a window shown twice stays so
AssignedTwice(kn, wanted) ==
  LET kept == {i \in GuiWindow : kn[i] \in wanted}
      unused == Sorted({i \in GuiWindow : kn[i] # None} \ kept)
      missing == Sorted(wanted \ {kn[i] : i \in kept})
      takes(i) == {missing[k] : k \in {l \in DOMAIN unused \cap DOMAIN missing : unused[l] = i}}
  IN [i \in GuiWindow |-> IF i \in kept THEN kn[i]
                          ELSE IF takes(i) = {} THEN None
                          ELSE CHOOSE w \in takes(i) : TRUE]

\* GUI windows that show a wanted window keep it, the first of them if it is
\* shown twice.  The others take what is missing, in order, as far as it goes.
Assigned(kn, wanted) ==
  LET kept == {i \in GuiWindow : /\ kn[i] \in wanted
                                 /\ \A j \in GuiWindow : kn[j] = kn[i] => i <= j}
      unused == Sorted({i \in GuiWindow : kn[i] # None} \ kept)
      missing == Sorted(wanted \ {kn[i] : i \in kept})
      takes(i) == {missing[k] : k \in {l \in DOMAIN unused \cap DOMAIN missing : unused[l] = i}}
  IN [i \in GuiWindow |-> IF i \in kept THEN kn[i]
                          ELSE IF takes(i) = {} THEN None
                          ELSE CHOOSE w \in takes(i) : TRUE]

\* Mutant of Orders: a GUI window that is repurposed is not told
OrdersSilent(kn, new) ==
  LET changed == Sorted({i \in GuiWindow : kn[i] # new[i] /\ new[i] = None})
  IN [k \in DOMAIN changed |-> Close(changed[k])]

\* What the GUI windows are told that do not keep what they show
Orders(kn, new) ==
  LET changed == Sorted({i \in GuiWindow : kn[i] # new[i]})
  IN [k \in DOMAIN changed |->
        IF new[changed[k]] = None THEN Close(changed[k])
        ELSE Show(changed[k], new[changed[k]])]

\* Mutant of ReconcileWorkspace: the workspace is activated, changed or not
ReconcileAnew(name, kn, queue) ==
  /\ active' = Populated(mux', name)
  /\ known' = Assigned(kn, InWorkspace(mux', active'))
  /\ tasks' = Notified(queue)
              \o Orders(kn, known')
              \o <<Open(Sorted(InWorkspace(mux', active') \ Range(known')))>>

\* reconcile_workspace of the GUI windows of kn, the tasks of queue posted before.
\* Its callers see to it that no switch is going on, as it does again.
ReconcileWorkspace(name, kn, queue) ==
  /\ active' = Populated(mux', name)
  /\ known' = Assigned(kn, InWorkspace(mux', active'))
  /\ tasks' = (IF active' # name THEN Notified(queue) ELSE queue)
              \o Orders(kn, known')
              \o <<Open(Sorted(InWorkspace(mux', active') \ Range(known')))>>

\* What record_known_window, forget_known_window and the subscriber end with
UnlessSwitching(kn, queue) ==
  IF switching THEN /\ active' = active /\ known' = kn /\ tasks' = queue
  ELSE ReconcileWorkspace(active, kn, queue)

\* The claims that are left when GUI windows of kn have been closed
Kept(kn) == spawned \ {kn[i] : i \in {j \in GuiWindow : known'[j] = None}}

\* Mutant of SwitchWorkspace: the switch is not marked as done
SwitchWithoutEnd(name, queue) ==
  /\ ReconcileWorkspace(name, known, Notified(queue))
  /\ spawned' = Kept(known)
  /\ switching' = switching

\* switch_workspace
SwitchWorkspace(name, queue) ==
  /\ ReconcileWorkspace(name, known, Notified(queue))
  /\ spawned' = Kept(known)
  /\ switching' = FALSE

\* The task goes on to the next of the windows ws that needs a GUI window and
\* claims it, or ends
GoOn(ws, claimed, others) ==
  LET needed == {k \in DOMAIN ws : ws[k] \notin Range(known') \cup claimed}
      k == Least(needed)
  IN IF needed = {}
     THEN /\ switching' = FALSE /\ spawned' = claimed /\ opening' = others
     ELSE /\ switching' = switching
          /\ spawned' = claimed \cup {ws[k]}
          /\ opening' = Append(others, [window |-> ws[k], rest |-> SubSeq(ws, k + 1, Len(ws))])

-----------------------------------------------------------------------------
\* One window, and the GUI about to open
Init ==
  /\ mux = [place   |-> [w \in Window |-> IF w = 1 THEN 1 ELSE None], \* its workspace
            alive   |-> {1},   \* the windows with panes
            counted |-> {1},
            made    |-> 1,     \* how many windows there have been
            moved   |-> FALSE] \* has set_workspace moved one? for a property
  /\ active = 1
  /\ known = [i \in GuiWindow |-> None]
  /\ spawned = {}
  /\ switching = FALSE
  /\ shows = [i \in GuiWindow |-> None]
  /\ tasks = <<Reconcile>>
  /\ opening = <<>>
  /\ starting = {}
  /\ events = MaxEvents

-----------------------------------------------------------------------------
(* The main thread runs its next task                                      *)

NextIs(type) == tasks # <<>> /\ Head(tasks).type = type

RunReconcile ==
  /\ NextIs("reconcile")
  /\ UNCHANGED <<mux, switching, shows, opening, starting>>
  /\ UnlessSwitching(known, Tail(tasks))
  /\ spawned' = Kept(known)

\* A GUI window hears that it has been repurposed, if it still exists
RunShow ==
  /\ NextIs("show")
  /\ shows' = [shows EXCEPT ![Head(tasks).on] = IF @ = None THEN None ELSE Head(tasks).window]
  /\ tasks' = Tail(tasks)
  /\ UNCHANGED <<mux, active, known, spawned, switching, opening, starting>>

\* A GUI window goes, and with it its TermWindow: forget_known_window
RunClose ==
  LET i == Head(tasks).on
  IN /\ NextIs("close")
     /\ UNCHANGED <<mux, switching, opening, starting>>
     /\ IF shows[i] = None THEN UNCHANGED <<active, known>> /\ tasks' = Tail(tasks)
        ELSE UnlessSwitching([known EXCEPT ![i] = None], Tail(tasks))
     /\ spawned' = Kept([known EXCEPT ![i] = None])
     /\ shows' = [shows EXCEPT ![i] = None]

RunOpen ==
  /\ NextIs("open")
  /\ tasks' = Tail(tasks)
  /\ UNCHANGED <<mux, active, known, shows, starting>>
  /\ GoOn(Head(tasks).windows, spawned, opening)

\* SwitchToWorkspace spawns a window in what is the active workspace by now
RunSpawn ==
  /\ NextIs("spawn")
  /\ IF mux.made < MaxWindows
     THEN /\ mux' = WithEmpty(mux, active)
          /\ starting' = starting \cup {[window |-> mux.made + 1, to |-> Head(tasks).to]}
          /\ tasks' = Tail(tasks)
          /\ UNCHANGED <<active, known, spawned, switching>>
     ELSE /\ UNCHANGED <<mux, starting>>
          /\ SwitchWorkspace(Head(tasks).to, Tail(tasks))
  /\ UNCHANGED <<shows, opening>>

\* The WorkspaceSwitcher of a renamed workspace is dropped
RunSwitch ==
  /\ NextIs("switch")
  /\ UNCHANGED <<mux, shows, opening, starting>>
  /\ SwitchWorkspace(Head(tasks).to, Tail(tasks))

RunTask == RunReconcile \/ RunShow \/ RunClose \/ RunOpen \/ RunSpawn \/ RunSwitch

-----------------------------------------------------------------------------
(* What tasks wait for.  Their continuations are tasks again, behind what   *)
(* is queued.                                                              *)

MayAct == Len(tasks) <= MaxQueued

\* An identifier for a GUI window
Unnamed(i) ==
  /\ shows[i] = None
  /\ \A k \in DOMAIN tasks : tasks[k].type \in {"show", "close"} => tasks[k].on # i

\* TermWindow::new_window ends with record_known_window
Opened(k) ==
  /\ MayAct
  /\ UNCHANGED <<mux, starting>>
  /\ \E i \in GuiWindow :
       LET w == opening[k].window
           kn == [known EXCEPT ![i] = w]
       IN /\ Unnamed(i)
          /\ shows' = [shows EXCEPT ![i] = w]
          /\ UnlessSwitching(kn, tasks)
          /\ GoOn(opening[k].rest, Kept(kn), RemoveAt(opening, k))

\* It fails: the mux window is killed
OpenFails(k) ==
  LET w == opening[k].window
  IN /\ MayAct
     /\ mux' = Removed(mux, w)
     /\ tasks' = IF w \in Listed(mux) THEN Notified(tasks) ELSE tasks
     /\ UNCHANGED <<active, known, shows, starting>>
     /\ GoOn(opening[k].rest, spawned \ {w}, RemoveAt(opening, k))

\* The spawn has ended: its window is announced, and the switch made that waits
Announce(s) ==
  IF s.to = None
  THEN tasks' = Notified(tasks) /\ UNCHANGED <<active, known, spawned, switching>>
  ELSE SwitchWorkspace(s.to, Notified(tasks))

\* The program runs, if its window is still there
Started(s) ==
  /\ MayAct
  /\ s.window \in Listed(mux)
  /\ mux' = Recounted([mux EXCEPT !.alive = @ \cup {s.window}])
  /\ starting' = starting \ {s}
  /\ Announce(s)
  /\ UNCHANGED <<shows, opening>>

StartFails(s) ==
  /\ MayAct
  /\ starting' = starting \ {s}
  /\ UNCHANGED <<mux, shows, opening>>
  /\ Announce(s)

\* A window is pruned when its programs have exited, or it never had one, and
\* no Activity is alive
Pruned(w) ==
  /\ MayAct
  /\ starting = {} /\ \A k \in DOMAIN tasks : tasks[k].type # "spawn"
  /\ w \in Listed(mux)
  /\ mux' = Removed(mux, w)
  /\ tasks' = Notified(tasks)
  /\ UNCHANGED <<active, known, spawned, switching, shows, opening, starting>>

-----------------------------------------------------------------------------
(* Users                                                                   *)

HasGui == \E i \in GuiWindow : shows[i] # None

\* SpawnWindow, or cli spawn --new-window --workspace
SpawnWindow(name) ==
  /\ MayAct /\ mux.made < MaxWindows
  /\ mux' = WithEmpty(mux, name)
  /\ starting' = starting \cup {[window |-> mux.made + 1, to |-> None]}
  /\ UNCHANGED <<active, known, spawned, switching, shows, tasks, opening>>

\* SwitchToWorkspace, and SwitchWorkspaceRelative, which finds only workspaces that
\* have windows.  A workspace without is to have one, and the switch to wait for it.
SwitchToWorkspace(name) ==
  /\ MayAct /\ HasGui
  /\ UNCHANGED <<mux, shows, opening, starting>>
  /\ IF InWorkspace(mux, name) = {}
     THEN /\ switching' = TRUE
          /\ active' = name
          /\ tasks' = Append(Notified(tasks), SpawnThenSwitch(name))
          /\ UNCHANGED <<known, spawned>>
     ELSE SwitchWorkspace(name, tasks)

\* close_requested, of what the GUI window shows
CloseRequested(i) ==
  LET kn == [known EXCEPT ![i] = None]
  IN /\ MayAct /\ shows[i] # None
     /\ mux' = Removed(mux, shows[i])
     /\ UnlessSwitching(kn, Append(IF shows[i] \in Listed(mux) THEN Notified(tasks) ELSE tasks,
                                   Close(i)))
     /\ spawned' = Kept(kn)
     /\ UNCHANGED <<switching, shows, opening, starting>>

\* MuxWindow:set_workspace does not count the panes again
SetWorkspace(w, name) ==
  /\ MayAct
  /\ mux.place[w] \notin {None, name}
  /\ mux' = [mux EXCEPT !.place[w] = name, !.moved = TRUE]
  /\ tasks' = Notified(tasks)
  /\ UNCHANGED <<active, known, spawned, switching, shows, opening, starting>>

\* rename_workspace
RenameWorkspace(old, new) ==
  LET moved == InWorkspace(mux, old)
      announced == IF active \in {old, new} THEN Append(tasks, Switch(new)) ELSE tasks
  IN /\ MayAct
     /\ old # new
     /\ mux' = Recounted([mux EXCEPT !.place =
                            [w \in Window |-> IF w \in moved THEN new ELSE @[w]]])
     /\ active' = IF active = old THEN new ELSE active
     /\ switching' = (switching \/ active \in {old, new})
     /\ tasks' = IF moved # {} \/ active = old THEN Notified(announced) ELSE announced
     /\ UNCHANGED <<known, spawned, shows, opening, starting>>

\* A pane comes or goes in a window that has others: the panes are counted
PanesChange ==
  /\ mux.alive # {}
  /\ mux' = Recounted(mux)
  /\ UNCHANGED <<active, known, spawned, switching, shows, tasks, opening, starting>>

-----------------------------------------------------------------------------
\* What goes on by itself.  An opening without an identifier left for it fails.
Proceed ==
  /\ UNCHANGED events
  /\ \/ RunTask
     \/ \E k \in DOMAIN opening : Opened(k)
     \/ (\A i \in GuiWindow : ~Unnamed(i)) /\ \E k \in DOMAIN opening : OpenFails(k)
     \/ \E s \in starting : Started(s)
     \/ \E s \in starting : s.window \notin Listed(mux) /\ StartFails(s)
     \/ \E w \in Listed(mux) \ mux.alive : Pruned(w)

Event ==
  /\ events > 0 /\ events' = events - 1
  /\ \/ \E name \in Workspace : SpawnWindow(name) \/ SwitchToWorkspace(name)
     \/ \E i \in GuiWindow : CloseRequested(i)
     \/ \E w \in Window, name \in Workspace : SetWorkspace(w, name)
     \/ \E old, new \in Workspace : RenameWorkspace(old, new)
     \/ PanesChange
     \/ \E k \in DOMAIN opening : OpenFails(k)
     \/ \E s \in starting : StartFails(s)
     \/ \E w \in mux.alive : Pruned(w)

Next == Proceed \/ Event

Spec == Init /\ [][Next]_vars

FairSpec == Spec /\ WF_vars(Proceed)

-----------------------------------------------------------------------------
TypeOK ==
  /\ mux \in [place : [Window -> Workspace \cup {None}], alive : SUBSET Window,
              counted : SUBSET Workspace, made : 0..MaxWindows, moved : BOOLEAN]
  /\ active \in Workspace
  /\ known \in [GuiWindow -> Window \cup {None}]
  /\ spawned \subseteq Window
  /\ switching \in BOOLEAN
  /\ shows \in [GuiWindow -> Window \cup {None}]
  /\ opening \in Seq([window : Window, rest : Seq(Window)])
  /\ starting \subseteq [window : Window, to : Workspace \cup {None}]
  /\ events \in 0..MaxEvents

AtRest == tasks = <<>> /\ opening = <<>> /\ starting = {}

InView(w) == \E i \in GuiWindow : known[i] = w /\ shows[i] = w

\* Claimed for a GUI window that has been repurposed since: the claim is only
\* taken back from what a GUI window shows when it is closed
Stranded(w) == w \in spawned /\ w \notin Range(known)

\* Whatever the interleaving of openings, closings, switches and renames, when
\* nothing is left to do each window of the active workspace is in view, unless a
\* claim on it has been left behind (frontend.rs, "then spawn any new windows that
\* are needed")
ActiveShown ==
  AtRest => \A w \in InWorkspace(mux, active) : InView(w) \/ Stranded(w)

\* and each GUI window shows what the front end believes, a window of the active
\* workspace, that no other GUI window shows
OthersHidden ==
  AtRest => \A i \in GuiWindow : shows[i] # None =>
              /\ known[i] = shows[i]
              /\ mux.place[shows[i]] = active
              /\ \A j \in GuiWindow : shows[j] = shows[i] => j = i

\* The user is not left in an empty workspace while programs run in another ("We
\* don't want to silently kill off things that might be running in other
\* workspaces"), unless set_workspace, after which pane counts are out of date, has
\* moved a window
NotLeftEmpty ==
  AtRest /\ ~mux.moved => mux.alive = {} \/ \E w \in mux.alive : mux.place[w] = active

\* While switching_workspaces puts reconcile_workspace off there is a
\* WorkspaceSwitcher whose drop will clear it and reconcile
SwitchPending ==
  switching => \/ \E k \in DOMAIN tasks : tasks[k].type \in {"spawn", "switch"}
               \/ \E s \in starting : s.to # None

\* Reconciling posts what makes it reconcile again, and yet it comes to an end
ComesToRest == []<>AtRest
=============================================================================
