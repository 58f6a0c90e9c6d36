----------------------------- MODULE WindowTabs -----------------------------
(***************************************************************************)
(* The tab strip of one mux window: struct Window of mux/src/window.rs.    *)
(* The code keeps the tabs in a Vec, the active position as an index into  *)
(* it, and the previously active tab as an id.  Every removal must repair  *)
(* the index, and pruning removes several tabs one after the other under   *)
(* the lock of Mux::windows.  Positions count from 1 here, from 0 there.   *)
(***************************************************************************)
EXTENDS Naturals, Sequences, Functions

CONSTANTS
  Tab,                  \* the tabs that can be listed in this window
  NoTab,                \* Option::<TabId>::None
  SwitchToLastSettings  \* values switch_to_last_active_tab_when_closing_tab takes

ASSUME TabAssumption == NoTab \notin Tab
ASSUME SettingsAssumption == SwitchToLastSettings \subseteq BOOLEAN

VARIABLES
  win,    \* [tabs, active, last]: Window::tabs, active and last_active
  doomed, \* the ids prune_dead_tabs has collected and not removed yet
  pass    \* where the lock holder is: "idle", "dead" or "live" pass of a prune

vars == <<win, doomed, pass>>

-----------------------------------------------------------------------------
(* Helpers on the record.                                                  *)

Listed(w) == Range(w.tabs)

\* idx_by_id, where the tab is listed
IdxById(w, t) == CHOOSE i \in DOMAIN w.tabs : w.tabs[i] = t

\* get_active
GetActive(w) == IF w.active \in DOMAIN w.tabs THEN w.tabs[w.active] ELSE NoTab

\* Vec::remove and Vec::insert
Without(s, i) == [j \in 1..(Len(s) - 1) |-> IF j < i THEN s[j] ELSE s[j + 1]]
With(s, i, t) ==
  [j \in 1..(Len(s) + 1) |-> IF j < i THEN s[j] ELSE IF j = i THEN t ELSE s[j - 1]]

Push(w, t) == [w EXCEPT !.tabs = Append(@, t)]
InsertAt(w, i, t) == [w EXCEPT !.tabs = With(@, i, t)]

SetActiveWithoutSaving(w, i) == [w EXCEPT !.active = i]

SaveAndThenSetActive(w, i) ==
  IF i = w.active
  THEN w
  ELSE SetActiveWithoutSaving([w EXCEPT !.last = GetActive(w)], i)

\* Mutants of FixupActive: the index is not clamped; the tab is not followed
FixupNoClamp(w, active) ==
  IF active \in Listed(w) THEN SetActiveWithoutSaving(w, IdxById(w, active)) ELSE w

FixupNoFollow(w, active) ==
  IF w.tabs # <<>> /\ w.active > Len(w.tabs)
  THEN SetActiveWithoutSaving(w, Len(w.tabs))
  ELSE w

\* fixup_active_tab_after_removal: follow the tab that was active, else clamp
FixupActive(w, active) ==
  IF active \in Listed(w)
  THEN SetActiveWithoutSaving(w, IdxById(w, active))
  ELSE IF w.tabs # <<>> /\ w.active > Len(w.tabs)
       THEN SetActiveWithoutSaving(w, Len(w.tabs))
       ELSE w

\* The first half of do_remove_idx: leave a closing active tab for the last one
LeaveClosing(w, i, switchToLast) ==
  IF w.tabs[i] = GetActive(w) /\ switchToLast /\ w.last \in Listed(w)
  THEN SetActiveWithoutSaving(w, IdxById(w, w.last))
  ELSE w

DoRemoveIdx(w, i, switchToLast) ==
  FixupActive([LeaveClosing(w, i, switchToLast) EXCEPT !.tabs = Without(@, i)],
              GetActive(w))

-----------------------------------------------------------------------------
Init ==
  /\ win = [tabs |-> <<>>, active |-> 1, last |-> NoTab]
  /\ doomed = {}
  /\ pass = "idle"

Idle == pass = "idle" /\ UNCHANGED <<doomed, pass>>

\* Mutant of AddTab: push without its assertion
AddTabUnchecked(t) == Idle /\ win' = Push(win, t) /\ Len(win.tabs) < 5

\* Mux::add_tab_to_window: the assertion in push wants the tab not listed yet
AddTab(t) ==
  /\ Idle
  /\ t \notin Listed(win)
  /\ win' = Push(win, t)

\* Mux::spawn_tab_or_window activates the tab it has just added, if it is
\* still listed: some other step may come between the two
ActivateSpawned(t) ==
  /\ Idle
  /\ t \in Listed(win)
  /\ win' = SaveAndThenSetActive(win, IdxById(win, t))

\* main.rs activates the tab of the command line without saving the last one
ActivateWithoutSaving(t) ==
  /\ Idle
  /\ t \in Listed(win)
  /\ win' = SetActiveWithoutSaving(win, IdxById(win, t))

\* TermWindow::activate_last_tab
ActivateLastTab ==
  /\ Idle
  /\ win.last \in Listed(win)
  /\ win' = SaveAndThenSetActive(win, IdxById(win, win.last))

\* Mutant of MoveTab: exchange the active tab with the one at the target
MoveTabBySwap(i) ==
  /\ Idle
  /\ i \in DOMAIN win.tabs
  /\ win' = [win EXCEPT !.tabs[i] = win.tabs[win.active],
                        !.tabs[win.active] = win.tabs[i],
                        !.active = i]

\* TermWindow::move_tab takes the active tab out and puts it at position i
MoveTab(i) ==
  /\ Idle
  /\ i \in DOMAIN win.tabs
  /\ \E switchToLast \in SwitchToLastSettings :
       win' = SetActiveWithoutSaving(
                InsertAt(DoRemoveIdx(win, win.active, switchToLast), i, GetActive(win)),
                i)

\* Mux::remove_tab_internal
RemoveTab(t) ==
  /\ Idle
  /\ t \in Listed(win)
  /\ \E switchToLast \in SwitchToLastSettings :
       win' = DoRemoveIdx(win, IdxById(win, t), switchToLast)

-----------------------------------------------------------------------------
(* prune_dead_tabs: a pass over the tabs whose panes are all dead, then a  *)
(* pass over those the mux does not know; both collect the ids first and   *)
(* then remove them in the order of the strip.                             *)

PruneBegin(dead) ==
  /\ pass = "idle"
  /\ dead \subseteq Listed(win)
  /\ pass' = "dead"
  /\ doomed' = dead
  /\ UNCHANGED win

FirstDoomed(i) ==
  /\ i \in DOMAIN win.tabs
  /\ win.tabs[i] \in doomed
  /\ \A j \in DOMAIN win.tabs : win.tabs[j] \in doomed => i <= j

\* Mutant of PruneOne: the collected id stays in the list
PruneOneStale ==
  \E i \in DOMAIN win.tabs, switchToLast \in SwitchToLastSettings :
    /\ FirstDoomed(i)
    /\ win' = DoRemoveIdx(win, i, switchToLast)
    /\ UNCHANGED <<doomed, pass>>

PruneOne ==
  \E i \in DOMAIN win.tabs, switchToLast \in SwitchToLastSettings :
    /\ FirstDoomed(i)
    /\ win' = DoRemoveIdx(win, i, switchToLast)
    /\ doomed' = doomed \ {win.tabs[i]}
    /\ UNCHANGED pass

PruneNotLive(live) ==
  /\ pass = "dead" /\ doomed = {}
  /\ pass' = "live"
  /\ doomed' = Listed(win) \ live
  /\ UNCHANGED win

PruneEnd ==
  /\ pass = "live" /\ doomed = {}
  /\ pass' = "idle"
  /\ UNCHANGED <<win, doomed>>

Next ==
  \/ \E t \in Tab : AddTab(t)
  \/ \E t \in Tab : ActivateSpawned(t)
  \/ \E t \in Tab : ActivateWithoutSaving(t)
  \/ ActivateLastTab
  \/ \E i \in DOMAIN win.tabs : MoveTab(i)
  \/ \E t \in Tab : RemoveTab(t)
  \/ \E dead \in SUBSET Listed(win) : PruneBegin(dead)
  \/ PruneOne
  \/ \E live \in SUBSET Listed(win) : PruneNotLive(live)
  \/ PruneEnd

Spec == Init /\ [][Next]_vars

-----------------------------------------------------------------------------
Window ==
  [tabs : Seq(Tab), active : Nat \ {0}, last : Tab \cup {NoTab}]

TypeOK ==
  /\ win \in Window
  /\ doomed \subseteq Listed(win)
  /\ pass \in {"idle", "dead", "live"}

\* No tab is listed twice: push and insert assert it, and every lookup by id
\* takes the first match.
NoTabTwice == IsInjective(win.tabs)

\* As long as the window lists a tab it shows one: the index is repaired by
\* every removal, in the middle of a prune too, so the assertion in
\* set_active_without_saving and the lookups by `active` never miss.
ActiveIsListed == win.tabs # <<>> => win.active \in DOMAIN win.tabs

\* A step that takes other tabs out of the strip, or only adds some, never
\* changes which tab is shown: the user's tab is followed to its new position.
ActiveTabFollowed ==
  [][ /\ Listed(win') # Listed(win)
      /\ GetActive(win) \in Listed(win')
      => GetActive(win') = GetActive(win) ]_vars

\* Tabs keep their order on the strip; only move_tab may change it, and then
\* only the place of the active tab.
OrderKept ==
  [][ \A a, b \in Listed(win) \cap Listed(win') :
        (IdxById(win, a) < IdxById(win, b)) # (IdxById(win', a) < IdxById(win', b))
          => GetActive(win) \in {a, b} /\ GetActive(win') = GetActive(win) ]_vars

\* docs/config/lua/config/switch_to_last_active_tab_when_closing_tab.md: "If
\* set to `true`, when the active tab is closed, the previously activated tab
\* will be activated."
PreviousTabActivated ==
  [][ LET closing == GetActive(win) IN
      /\ SwitchToLastSettings = {TRUE}
      /\ pass = "idle"
      /\ closing \notin Listed(win') \cup {NoTab}
      /\ win.last \in Listed(win')
      => GetActive(win') = win.last ]_vars
=============================================================================
