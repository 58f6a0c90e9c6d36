----------------------------- MODULE ClientMirror -----------------------------
(***************************************************************************)
(* A client's mirror of the windows, tabs and panes of a mux server:       *)
(* ClientDomain and ClientInner of wezterm-client/src/domain.rs, the       *)
(* dispatch of unilateral messages of client.rs, and what of the client's  *)
(* own mux (mux/src/lib.rs) they change.                                   *)
(*                                                                         *)
(* Client and server name things independently.  The client keeps a map    *)
(* from remote to local names for each kind, learns of changes by asking   *)
(* for the whole list again, and is told what to forget.  A local name is  *)
(* here <<remote name, copy>>: the client may make several for the same.   *)
(*                                                                         *)
(* One session is modelled, from attaching to detaching.  Tabs and windows *)
(* are sets: their order and trees are WindowTabs and PaneTree.            *)
(***************************************************************************)
EXTENDS Naturals, Sequences, FiniteSets, Functions, SequencesExt

CONSTANTS
  Pane, Tab, Window,  \* what the server names
  None,               \* Option::None, and a pane not yet spawned
  Gone,               \* a pane that is in no tab of the server any more
  First, FirstTab, FirstWindow, \* what the server has to begin with
  Home,               \* one of the client's windows, with a tab of another domain
  Copies,             \* bound: how many local names at a time for a remote one
  MaxEvents,          \* bound: how often others, programs and the user act
  MaxQueued,          \* bound: a pane not shown, or killed, writes while less than this is queued
  NoRoom              \* may there be no room here for a split the server has made?

\* What the client calls them
LocalPane == Pane \X (1..Copies)
LocalTab == Tab \X (1..Copies)
LocalWindow == {Home} \cup (Window \X (1..Copies))

ASSUME NamesAssumption ==
  /\ First \in Pane /\ FirstTab \in Tab /\ FirstWindow \in Window
  /\ None \notin Pane \cup Tab \cup Window /\ None \notin LocalPane
  /\ {None, Gone} \cap Tab = {} /\ None # Gone
  /\ IsFiniteSet(Pane)
ASSUME BoundsAssumption == Copies \in Nat \ {0} /\ MaxEvents \in Nat /\ MaxQueued \in Nat
ASSUME NoRoomAssumption == NoRoom \in BOOLEAN

VARIABLES
  at,        \* the tab whose tree has each pane of the server, or None, Gone
  window,    \* the window of each tab of the server
  told,      \* panes taken out of the server's mux, and clients told: PaneRemoved
  opening,   \* spawns into new windows under way: they hold an Activity
  events,    \* how many times somebody may still act
  toServer,  \* requests list_panes and kill_pane on their way, in order
  serving,   \* requests spawn_v2 and split_pane, which the server may overtake
  inbox,     \* what the client's main thread will do, see Posted
  domain,    \* DomainState, or "attaching"
  local,     \* the client's mux and the maps of its ClientInner
  closed,    \* panes of the server that the user has closed: for a property
  revived,   \* panes that a list has named after they were told: for a property
  crashed    \* which expect() the client has hit, None at first

server == <<at, window, told, opening>>
vars == <<at, window, told, opening, events, toServer, serving, inbox, domain,
          local, closed, revived, crashed>>

\* What the trees of the server have, and what of it its mux still knows
OnServer == {r \in Pane : at[r] \in Tab}
Known == OnServer \ told

-----------------------------------------------------------------------------
(* Tasks.  inbox is the server's stream with the main thread's queue before *)
(* it: some prefix has arrived.  A task posted now comes after all that has *)
(* arrived, and so after those posted before.                              *)

Posts(q, m) ==
  LET posted == {i \in DOMAIN q : q[i].posted}
  IN {InsertAt(q, k, m) : k \in {i \in 1..(Len(q) + 1) : \A j \in posted : j < i}}

Change == [type |-> "change", posted |-> FALSE]
Removed(r) == [type |-> "removed", pane |-> r, posted |-> FALSE]
Output(r) == [type |-> "output", pane |-> r, posted |-> FALSE]
Panes(why) == [type |-> "list", panes |-> Restrict(at, OnServer), why |-> why, posted |-> FALSE]
Spawned(r, t, request) ==
  [type |-> "spawned", pane |-> r, tab |-> t, request |-> request, posted |-> FALSE]
Failed == [type |-> "failed", posted |-> FALSE]
Removals(panes) == [type |-> "remove", panes |-> panes, posted |-> TRUE]
PruneTask == [type |-> "prune", posted |-> TRUE]

Post(q, panes) == IF panes = {} THEN {q} ELSE Posts(q, Removals(panes))

List(why) == [type |-> "list", why |-> why]
Kill(r) == [type |-> "kill", pane |-> r]

-----------------------------------------------------------------------------
(* The client's mux, as values.  took: panes whose removal is to be posted; *)
(* killed: remote panes that ClientPane::kill asks the server to kill.     *)

Unmapped == [x \in {} |-> None]

Idle == [panes |-> {}, dead |-> {}, tabs |-> Unmapped, windows |-> [w \in {Home} |-> {}],
         paneMap |-> Unmapped, tabMap |-> Unmapped, windowMap |-> Unmapped, busy |-> 0,
         took |-> {}, killed |-> {}]

TabsOf(l, ws) == UNION {l.windows[w] : w \in ws \cap DOMAIN l.windows}
PanesOf(l, ts) == UNION {l.tabs[t] : t \in ts \cap DOMAIN l.tabs}
Shown(l) == PanesOf(l, TabsOf(l, DOMAIN l.windows))

\* prune_dead_windows.  Home has a tab of its own that keeps it
Pruned(l) ==
  LET listed == TabsOf(l, DOMAIN l.windows)
      stay(t) == IF t \in listed THEN l.tabs[t] \cap (l.panes \ l.dead) ELSE l.tabs[t]
      alive == {t \in DOMAIN l.tabs : ~(stay(t) \subseteq l.dead)}
      left(w) == l.windows[w] \cap alive
  IN IF l.busy > 0 THEN l
     ELSE [l EXCEPT !.tabs = [t \in alive |-> stay(t)],
                    !.windows = [w \in {v \in DOMAIN l.windows : v = Home \/ left(v) # {}} |-> left(w)],
                    !.panes = @ \ PanesOf(l, DOMAIN l.tabs \ (alive \cup listed)),
                    !.took = @ \cup UNION {l.tabs[t] \ stay(t) : t \in DOMAIN l.tabs}]

\* Mutant of Killed: the domain's state is not looked at
KilledAnyhow(l, panes, state) == {p[1] : p \in panes \cap l.panes}

\* ClientPane::kill, of those the mux has
Killed(l, panes, state) ==
  IF state = "detached" THEN {} ELSE {p[1] : p \in panes \cap l.panes}

\* remove_pane_internal
RemovePanes(l, panes, state) ==
  [l EXCEPT !.panes = @ \ panes, !.killed = @ \cup Killed(l, panes, state)]

\* Mutant of RemoveTabs: the window keeps the tab
RemoveTabsListed(l, ts, state) ==
  RemovePanes([l EXCEPT !.tabs = Restrict(@, DOMAIN @ \ ts)], PanesOf(l, ts), state)

\* remove_tab_internal
RemoveTabs(l, ts, state) ==
  RemovePanes([l EXCEPT !.tabs = Restrict(@, DOMAIN @ \ ts),
                        !.windows = [w \in DOMAIN @ |-> @[w] \ ts]],
              PanesOf(l, ts), state)

\* domain_was_detached.  The removals that the tabs post find nothing to do
Detached(l) ==
  Pruned(RemovePanes([l EXCEPT !.tabs = [t \in DOMAIN @ |->
                                           IF t \in TabsOf(l, DOMAIN l.windows) THEN {} ELSE @[t]]],
                     l.panes, "detached"))

\* expire_stale_mappings
Expired(l) ==
  LET has(t) == t \in DOMAIN l.tabs /\ l.tabs[t] # {}
      keep(m, P(_)) == Restrict(m, {x \in DOMAIN m : P(m[x])})
  IN [l EXCEPT !.paneMap = keep(@, LAMBDA p : p \in l.panes),
               !.tabMap = keep(@, has),
               !.windowMap = keep(@, LAMBDA w : \E t \in TabsOf(l, {w}) : has(t))]

\* Mutant of Find: the mux is not searched
FindMapped(l, r) == IF r \in DOMAIN l.paneMap THEN l.paneMap[r] ELSE None

\* remote_to_local_pane_id: the map, or any pane of the mux with that remote id
Find(l, r) ==
  IF r \in DOMAIN l.paneMap THEN l.paneMap[r]
  ELSE LET copies == {p \in l.panes : p[1] = r}
       IN IF copies = {} THEN None ELSE CHOOSE p \in copies : TRUE

\* Finding a pane among those of the mux puts it in the map
Found(l, r) ==
  IF Find(l, r) = None THEN l
  ELSE [l EXCEPT !.paneMap = [x \in DOMAIN @ \cup {r} |-> IF x = r THEN Find(l, r) ELSE @[x]]]

\* A name for x that nothing refers to any more, as a fresh one is
Fresh(x, used) == <<x, CHOOSE k \in 1..Copies : <<x, k>> \notin used>>

UsedPanes(l) == l.panes \cup PanesOf(l, DOMAIN l.tabs) \cup Range(l.paneMap)
                  \cup UNION {inbox[i].panes : i \in {j \in DOMAIN inbox : inbox[j].type = "remove"}}
UsedTabs(l) == DOMAIN l.tabs \cup TabsOf(l, DOMAIN l.windows) \cup Range(l.tabMap)
UsedWindows(l) == DOMAIN l.windows \cup Range(l.windowMap)

\* What the client hears of can be named
NamesLeft ==
  LET left(S, used) == \A x \in S : ~({x} \X (1..Copies) \subseteq used)
  IN left(Pane, UsedPanes(local)) /\ left(Tab, UsedTabs(local)) /\ left(Window, UsedWindows(local))

\* The client's mux after a handler, with what it posts and asks for
Becomes(to, q) ==
  \E l \in {to} :
    /\ inbox' \in Post(q, l.took)
    /\ toServer' = toServer \o SetToSeq({Kill(r) : r \in l.killed \ told})
    /\ local' = [l EXCEPT !.took = {}, !.killed = {}]

-----------------------------------------------------------------------------
(* process_pane_list.  l is the client's mux, list the tab of each pane that *)
(* the server listed, adopt the remote window whose tabs go to Home, the   *)
(* primary window of an attach.                                            *)

PaneFor(l, r) == IF Find(l, r) \in l.panes THEN Find(l, r) ELSE Fresh(r, UsedPanes(l))

TabFor(l, t) ==
  IF t \in DOMAIN l.tabMap /\ l.tabMap[t] \in DOMAIN l.tabs
  THEN l.tabMap[t] ELSE Fresh(t, UsedTabs(l))

WindowFor(l, w, adopt) ==
  CASE w \in DOMAIN l.windowMap -> l.windowMap[w]
    [] w \notin DOMAIN l.windowMap /\ w = adopt -> Home
    [] OTHER -> Fresh(w, UsedWindows(l))

WindowsOf(list) == {window[t] : t \in Range(list)}
NewWindows(l, list, adopt) == WindowsOf(list) \ (DOMAIN l.windowMap \cup {adopt})

\* expect("no such window!?")
Dangles(l, list) ==
  \E w \in WindowsOf(list) \cap DOMAIN l.windowMap : l.windowMap[w] \notin DOMAIN l.windows

Synced(l, list, adopt) ==
  LET tabMap == [t \in Range(list) |-> TabFor(l, t)]
      windowMap == [w \in WindowsOf(list) |-> WindowFor(l, w, adopt)]
      tree(t) == {PaneFor(l, r) : r \in {s \in DOMAIN list : tabMap[list[s]] = t}}
      tabs == Range(tabMap)
      pushed(v) == {tabMap[t] : t \in {u \in Range(list) : windowMap[window[u]] = v}}
  IN [l EXCEPT !.panes = @ \cup {PaneFor(l, r) : r \in DOMAIN list},
               !.tabs = [t \in DOMAIN @ \cup tabs |-> IF t \in tabs THEN tree(t) ELSE @[t]],
               !.windows = [v \in DOMAIN @ \cup Range(windowMap) |->
                              (IF v \in DOMAIN @ THEN @[v] ELSE {}) \cup pushed(v)],
               !.paneMap = [r \in {s \in DOMAIN list : Find(l, s) \in l.panes} |-> Find(l, r)],
               !.tabMap = tabMap,
               !.windowMap = windowMap]

-----------------------------------------------------------------------------
Init ==
  /\ at = [r \in Pane |-> IF r = First THEN FirstTab ELSE None]
  /\ window = [t \in Tab |-> IF t = FirstTab THEN FirstWindow ELSE None]
  /\ told = {}
  /\ opening = {}
  /\ events = MaxEvents
  /\ toServer = <<List(None)>>
  /\ serving = {}
  /\ inbox = <<>>
  /\ domain = "attaching"
  /\ local = Idle
  /\ closed = {}
  /\ revived = {}
  /\ crashed = None

\* Somebody acts
Acts == crashed = None /\ events > 0 /\ events' = events - 1

\* A step of the programs themselves
Works == crashed = None /\ UNCHANGED events

-----------------------------------------------------------------------------
(* The server: its own programs, other clients, and the requests it has.   *)

Alive(w) == \E r \in OnServer : window[at[r]] = w
Unused(S, used) == CHOOSE x \in S : x \notin used
NewPane == Unused(Pane, {r \in Pane : at[r] # None})
NewTab == Unused(Tab, {t \in Tab : window[t] # None})
NewWindow == Unused(Window, Range(window))
MorePanes == \E r \in Pane : at[r] = None
MoreTabs == \E t \in Tab : window[t] = None
WindowChoice == {w \in Window : Alive(w)} \cup {w \in Window : w \notin Range(window) /\ w = NewWindow}

Tell(m) == inbox' = Append(inbox, m)

\* What happens on the server matters as long as this client is interested
Serves == Acts /\ domain # "detached"

\* A pane r, new or moved, gets a new tab
InNewTab(r, w) ==
  /\ MoreTabs
  /\ at' = [at EXCEPT ![r] = NewTab]
  /\ window' = [window EXCEPT ![NewTab] = w]

\* prune_dead_windows on the server, where trees hold panes that its mux has not.
\* It does nothing while a window is being opened, and its walk of a tree may skip
\* the sibling of a pane that it takes
Swept(a, out) ==
  LET left == {r \in out : a[r] \in Tab}
  IN IF opening # {} \/ left = {} THEN {a}
     ELSE {[r \in Pane |-> IF r \in taken THEN Gone ELSE a[r]] : taken \in (SUBSET left) \ {{}}}

\* Mux::remove_pane of a pane that the mux knows, and all that is sent with it
MuxRemoves(r, messages) ==
  /\ told' = told \cup {r}
  /\ at' \in Swept(at, told \cup {r})
  /\ inbox' = inbox \o messages
  /\ UNCHANGED <<window, opening>>

OtherSpawns(w) ==
  /\ Serves /\ MorePanes
  /\ Alive(w)
  /\ InNewTab(NewPane, w)
  /\ Tell(Change)
  /\ UNCHANGED <<told, opening, toServer, serving, domain, local, closed, revived, crashed>>

\* Another client opens a window: one at a time, None in opening stands for it
OtherOpens ==
  /\ Serves
  /\ None \notin opening
  /\ opening' = opening \cup {None}
  /\ UNCHANGED <<at, window, told, toServer, serving, inbox, domain, local, closed, revived, crashed>>

\* Its program starts
OtherOpened(w) ==
  /\ Serves /\ MorePanes
  /\ None \in opening
  /\ opening' = opening \ {None}
  /\ w \in WindowChoice /\ ~Alive(w)
  /\ InNewTab(NewPane, w)
  /\ Tell(Change)
  /\ UNCHANGED <<told, toServer, serving, domain, local, closed, revived, crashed>>

\* It does not
OtherGivesUp ==
  /\ Works
  /\ None \in opening
  /\ opening' = opening \ {None}
  /\ UNCHANGED <<at, window, told, toServer, serving, inbox, domain, local, closed, revived, crashed>>

\* Nothing tells the clients of a split
OtherSplits(r) ==
  /\ Serves /\ MorePanes
  /\ r \in Known
  /\ at' = [at EXCEPT ![NewPane] = at[r]]
  /\ UNCHANGED <<window, told, opening, toServer, serving, inbox, domain, local, closed, revived,
                 crashed>>

\* move_pane_to_new_tab, of a pane that the mux knows.  A tab left with none that it
\* knows may be dead: it is removed, and dead windows are pruned unless the new tab
\* is in a window that is only being built
OtherMoves(r, w) ==
  /\ Serves
  /\ r \in Known
  /\ w \in WindowChoice
  /\ MoreTabs
  /\ window' = [window EXCEPT ![NewTab] = w]
  /\ LET moved == [at EXCEPT ![r] = NewTab]
         rest == {s \in OnServer \ {r} : at[s] = at[r]}
         emptied == [s \in Pane |-> IF s \in rest THEN Gone ELSE moved[s]]
     IN at' \in (IF rest = {} THEN {} ELSE {moved})
                \cup (IF ~(rest \subseteq told) THEN {}
                      ELSE IF Alive(w) THEN Swept(emptied, told) ELSE {emptied})
  /\ Tell(Change)
  /\ UNCHANGED <<told, opening, toServer, serving, domain, local, closed, revived, crashed>>

\* A tab is zoomed, rotated or resized
TabResized ==
  /\ Serves
  /\ Tell(Change)
  /\ UNCHANGED <<server, toServer, serving, domain, local, closed, revived, crashed>>

\* A tab lets a pane go, which kill_pane or a prune takes from its tree; the task
\* that it posts takes it from the mux
PaneExits(r) ==
  /\ Serves
  /\ r \in Known
  /\ at' = [at EXCEPT ![r] = Gone]
  /\ UNCHANGED <<window, told, opening, toServer, serving, inbox, domain, local, closed, revived,
                 crashed>>

RemovePane(r) ==
  /\ Works
  /\ at[r] = Gone /\ r \notin told
  /\ MuxRemoves(r, <<Removed(r)>>)
  /\ UNCHANGED <<toServer, serving, domain, local, closed, revived, crashed>>

\* The program ends and its pane is to close with it, or another client asks for that
PaneEnds(r) ==
  /\ Serves
  /\ r \in Known
  /\ MuxRemoves(r, <<Removed(r)>>)
  /\ UNCHANGED <<toServer, serving, domain, local, closed, revived, crashed>>

\* A prune that was put off: Activity::drop posts it, and so do the removals of a
\* prune that has left some
ServePrune ==
  /\ Works
  /\ opening = {} /\ OnServer \cap told # {}
  /\ at' \in Swept(at, told)
  /\ UNCHANGED <<window, told, opening, toServer, serving, inbox, domain, local, closed, revived,
                 crashed>>

ShownHere(r) == \E p \in Shown(local) : p[1] = r

\* schedule_pane_push.  What a pane that is shown writes matters to LineCache only
PaneWrites(r) ==
  /\ Works /\ domain = "attached"
  /\ r \in Known
  /\ ~ShownHere(r)
  /\ Len(inbox) + Len(toServer) < MaxQueued
  /\ Tell(Output(r))
  /\ UNCHANGED <<server, toServer, serving, domain, local, closed, revived, crashed>>

\* A list has what the trees hold, known to the mux or not
ServeList ==
  /\ Works
  /\ toServer # <<>> /\ Head(toServer).type = "list"
  /\ toServer' = Tail(toServer)
  /\ Tell(Panes(Head(toServer).why))
  /\ revived' = revived \cup (OnServer \cap told)
  /\ UNCHANGED <<server, serving, domain, local, closed, crashed>>

\* Output of the pane may be pushed even after it was removed
ServeKill ==
  /\ Works
  /\ toServer # <<>> /\ Head(toServer).type = "kill"
  /\ toServer' = Tail(toServer)
  /\ LET r == Head(toServer).pane
     IN IF r \in told
        THEN UNCHANGED <<server, inbox>>
        ELSE \/ MuxRemoves(r, <<Removed(r)>>)
             \/ Len(inbox) + Len(toServer') < MaxQueued /\ MuxRemoves(r, <<Removed(r), Output(r)>>)
  /\ UNCHANGED <<serving, domain, local, closed, revived, crashed>>

Answers(request, answers) ==
  /\ serving' = serving \ {request}
  /\ opening' = opening \ {request}
  /\ inbox' = inbox \o answers
  /\ UNCHANGED <<told, toServer, domain, local, closed, revived, crashed>>

\* spawn_tab_or_window makes the window first, and what it holds lasts until the end
StartsWindow(request) ==
  /\ Works
  /\ request \in serving \ opening /\ request.type = "spawn" /\ request.window = None
  /\ opening' = opening \cup {request}
  /\ UNCHANGED <<at, window, told, toServer, serving, inbox, domain, local, closed, revived, crashed>>

\* domain_spawn_v2, in the window asked for if it is still there, or a new one
ServeSpawn(request) ==
  /\ Works
  /\ request \in serving /\ request.type = "spawn"
  /\ request.window = None => request \in opening
  /\ MorePanes
  /\ \E w \in WindowChoice :
       /\ IF request.window = None THEN ~Alive(w) ELSE w = request.window
       /\ InNewTab(NewPane, w)
  /\ Answers(request, <<Change, Spawned(NewPane, NewTab, request)>>)

ServeSplit(request) ==
  /\ Works
  /\ request \in serving /\ request.type = "split"
  /\ MorePanes
  /\ request.beside[1] \in Known
  /\ at' = [at EXCEPT ![NewPane] = at[request.beside[1]]]
  /\ UNCHANGED window
  /\ Answers(request, <<Spawned(NewPane, at[request.beside[1]], request)>>)

\* There may be no such program, pane or window
ServeFails(request) ==
  /\ Works
  /\ request \in serving
  /\ Answers(request, <<Failed>>)
  /\ UNCHANGED <<at, window>>

-----------------------------------------------------------------------------
(* The client's main thread.                                               *)

Next1(type) == Works /\ inbox # <<>> /\ Head(inbox).type = type
Rest == Tail(inbox)

\* The program ends, and what it had with it
Crash(expect) ==
  /\ crashed' = expect
  /\ domain' = "detached"
  /\ local' = Idle
  /\ toServer' = <<>> /\ serving' = {} /\ inbox' = <<>> /\ closed' = {}
  /\ opening' = opening \cap {None}
  /\ UNCHANGED <<at, window, told, revived>>

\* Mutant of Resync: only a pane that was removed makes it ask again
ResyncOnRemoval(why) ==
  /\ toServer' = IF domain = "attached" /\ why # None THEN Append(toServer, List(why)) ELSE toServer
  /\ inbox' = Rest
  /\ UNCHANGED <<server, serving, domain, local, closed, revived, crashed>>

\* resync, if the domain is attached
Resync(why) ==
  /\ toServer' = IF domain = "attached" THEN Append(toServer, List(why)) ELSE toServer
  /\ inbox' = Rest
  /\ UNCHANGED <<server, serving, domain, local, closed, revived, crashed>>

\* TabResized and TabAddedToWindow
RunChange == Next1("change") /\ Resync(None)

\* A message about a pane is handled by a second task, which the first spawns
Hop ==
  /\ Next1("removed") \/ Next1("output")
  /\ ~Head(inbox).posted
  /\ inbox' \in Posts(Rest, [Head(inbox) EXCEPT !.posted = TRUE])
  /\ UNCHANGED <<server, toServer, serving, domain, local, closed, revived, crashed>>

Has(r) == domain = "attached" /\ Find(local, r) \in local.panes

\* process_unilateral_inner_async: a pane not known here makes it ask again
RunOutput ==
  /\ Next1("output") /\ Head(inbox).posted
  /\ LET r == Head(inbox).pane
     IN IF Has(r)
        THEN Becomes(Found(local, r), Rest) /\ UNCHANGED <<server, serving, domain, closed, revived, crashed>>
        ELSE Resync(None)

\* Mutant of PaneGone: nothing is pruned
PaneGoneKept(l, r) ==
  IF Find(l, r) \in l.panes THEN Expired([Found(l, r) EXCEPT !.dead = @ \cup {Find(l, r)}]) ELSE l

\* Pdu::PaneRemoved in ClientPane::process_unilateral
PaneGone(l, r) ==
  IF Find(l, r) \in l.panes
  THEN Expired(Pruned([Found(l, r) EXCEPT !.dead = @ \cup {Find(l, r)}]))
  ELSE l

RunRemoved ==
  /\ Next1("removed") /\ Head(inbox).posted
  /\ LET r == Head(inbox).pane
     IN IF Has(r)
        THEN Becomes(PaneGone(local, r), Rest) /\ UNCHANGED <<server, serving, domain, closed, revived, crashed>>
        ELSE Resync(r)

\* process_pane_list, and what the message that asked for it does then.  A new
\* window's builder posts a prune when it is dropped
Sync(state, adopt, why) ==
  LET list == Head(inbox).panes
  IN /\ \E synced \in {Synced(local, list, adopt)},
           q \in IF NewWindows(local, list, adopt) = {} THEN {Rest} ELSE Posts(Rest, PruneTask) :
          Becomes(IF why # None /\ state = "attached" THEN PaneGone(synced, why) ELSE synced, q)
     /\ domain' = state
     /\ UNCHANGED <<server, serving, closed, revived, crashed>>

RunList ==
  /\ Next1("list") /\ domain # "attaching" /\ NamesLeft
  /\ IF Dangles(local, Head(inbox).panes) THEN Crash("window") ELSE Sync(domain, None, Head(inbox).why)

\* finish_attach.  primary is the window to attach to; its workspace may differ
FinishAttach(primary, adopt) ==
  /\ Next1("list") /\ domain = "attaching" /\ NamesLeft
  /\ adopt # None => primary /\ adopt \in WindowsOf(Head(inbox).panes)
  /\ IF primary /\ Head(inbox).panes # Unmapped /\ Home \notin DOMAIN local.windows
     THEN Crash("primary") ELSE Sync("attached", adopt, None)

\* Activity::drop at the end of a request
Released == [local EXCEPT !.busy = @ - 1]

\* ClientDomain::spawn after its await: the window may be closed by now
SpawnDone(l, r, t, request) ==
  LET p == Fresh(r, UsedPanes(l))
      mine == Fresh(t, UsedTabs(l))
  IN [l EXCEPT !.panes = @ \cup {p},
               !.tabs = [x \in DOMAIN @ \cup {mine} |-> IF x = mine THEN {p} ELSE @[x]],
               !.windows = [w \in DOMAIN @ |-> @[w] \cup (IF w = request.into THEN {mine} ELSE {})],
               !.tabMap = [x \in DOMAIN @ \cup {t} |-> IF x = t THEN mine ELSE @[x]],
               !.windowMap = [x \in DOMAIN @ \cup {window[t]} |->
                                IF x = window[t] THEN request.into ELSE @[x]]]

\* ClientDomain::split_pane after its await.  It gives up if the pane to split
\* is gone, or hidden by a zoomed one; a tab the mux has dropped is still held
SplitDone(l, r, request) ==
  LET p == Fresh(r, UsedPanes(l))
      registered == [l EXCEPT !.panes = @ \cup {p}]
      held == request.tab \in DOMAIN l.tabs
      there == held /\ request.beside \in l.tabs[request.tab]
  IN {l} \cup (IF there THEN {[registered EXCEPT !.tabs[request.tab] = @ \cup {p}]} ELSE {})
         \cup (IF ~held \/ (there /\ NoRoom) THEN {registered} ELSE {})

RunSpawned ==
  /\ Next1("spawned") /\ NamesLeft
  /\ LET m == Head(inbox)
         done == IF m.request.type = "spawn" THEN {SpawnDone(Released, m.pane, m.tab, m.request)}
                                             ELSE SplitDone(Released, m.pane, m.request)
     IN \E l \in done, q \in Posts(Rest, PruneTask) : Becomes(l, q)
  /\ UNCHANGED <<server, serving, domain, closed, revived, crashed>>

RunFailed ==
  /\ Next1("failed")
  /\ \E q \in Posts(Rest, PruneTask) : Becomes(Released, q)
  /\ UNCHANGED <<server, serving, domain, closed, revived, crashed>>

RunPrune ==
  /\ Next1("prune")
  /\ Becomes(Pruned(local), Rest)
  /\ UNCHANGED <<server, serving, domain, closed, revived, crashed>>

\* Mux::remove_pane of the panes a tab has let go
RunRemove ==
  /\ Next1("remove")
  /\ Becomes(Pruned(RemovePanes(local, Head(inbox).panes, domain)), Rest)
  /\ UNCHANGED <<server, serving, domain, closed, revived, crashed>>

\* The answer to a poll of a pane that is painted, when the server's mux has it no more
Polled(p) ==
  /\ Acts
  /\ p \in Shown(local) \ local.dead /\ p[1] \in told
  /\ local' = [local EXCEPT !.dead = @ \cup {p}]
  /\ UNCHANGED <<server, toServer, serving, inbox, domain, closed, revived, crashed>>

RunHead == \/ RunChange \/ Hop \/ RunOutput \/ RunRemoved \/ RunList
           \/ \E primary \in BOOLEAN, adopt \in Window \cup {None} : FinishAttach(primary, adopt)
           \/ RunSpawned \/ RunFailed \/ RunPrune \/ RunRemove

-----------------------------------------------------------------------------
(* The user.                                                               *)

\* kill_pane of a tab: out of its tree now, out of the mux by a task
ClosePane(t, p) ==
  /\ Acts
  /\ t \in TabsOf(local, DOMAIN local.windows) /\ p \in local.tabs[t]
  /\ Becomes([local EXCEPT !.tabs[t] = @ \ {p}, !.took = {p}], inbox)
  /\ closed' = closed \cup {p[1]}
  /\ UNCHANGED <<server, serving, domain, revived, crashed>>

\* Mux::remove_tab
CloseTab(t) ==
  /\ Acts
  /\ t \in TabsOf(local, DOMAIN local.windows)
  /\ Becomes(Pruned(RemoveTabs(local, {t}, domain)), inbox)
  /\ closed' = closed \cup {p[1] : p \in local.tabs[t]}
  /\ UNCHANGED <<server, serving, domain, revived, crashed>>

\* remove_window_internal detaches the domains that have a pane in the window
CloseWindow(w) ==
  /\ Acts
  /\ w \in DOMAIN local.windows
  /\ LET ts == local.windows[w]
         l == [local EXCEPT !.windows = Restrict(@, DOMAIN @ \ {w})]
     IN IF PanesOf(local, ts) = {}
        THEN Becomes(Pruned(RemoveTabs(l, ts, domain)), inbox) /\ UNCHANGED domain
        ELSE Becomes(Pruned(RemoveTabs(Detached(l), ts, "detached")), inbox) /\ domain' = "detached"
  /\ UNCHANGED <<server, serving, closed, revived, crashed>>

\* perform_detach
Detach ==
  /\ Acts
  /\ domain = "attached"
  /\ Becomes(Detached(local), inbox)
  /\ domain' = "detached"
  /\ UNCHANGED <<server, serving, closed, revived, crashed>>

Ask(request) ==
  /\ Acts
  /\ domain = "attached"
  /\ request \notin serving
  /\ serving' = serving \cup {request}
  /\ local' = [local EXCEPT !.busy = @ + 1]
  /\ UNCHANGED <<server, toServer, inbox, domain, closed, revived, crashed>>

\* ClientDomain::spawn: in the remote window that w stands for, or a new one
AskSpawn(w) ==
  /\ w \in DOMAIN local.windows
  /\ LET remote == {v \in DOMAIN local.windowMap : local.windowMap[v] = w}
     IN \E v \in IF remote = {} THEN {None} ELSE remote :
          Ask([type |-> "spawn", window |-> v, into |-> w])

AskSplit(t, p) ==
  /\ t \in TabsOf(local, DOMAIN local.windows) /\ p \in local.tabs[t]
  /\ Ask([type |-> "split", tab |-> t, beside |-> p])

-----------------------------------------------------------------------------
Others ==
  \/ \E w \in Window : OtherSpawns(w) \/ OtherOpened(w) \/ \E r \in Pane : OtherMoves(r, w)
  \/ \E r \in Pane : OtherSplits(r) \/ PaneExits(r) \/ PaneEnds(r)
  \/ OtherOpens \/ TabResized

ServerWorks ==
  \/ ServeList \/ ServeKill \/ ServePrune \/ OtherGivesUp
  \/ \E r \in Pane : RemovePane(r) \/ PaneWrites(r)
  \/ \E request \in serving : \/ StartsWindow(request) \/ ServeSpawn(request)
                              \/ ServeSplit(request) \/ ServeFails(request)

User ==
  \/ \E t \in DOMAIN local.tabs : CloseTab(t)
  \/ \E t \in DOMAIN local.tabs : \E p \in local.tabs[t] : ClosePane(t, p) \/ AskSplit(t, p)
  \/ \E w \in DOMAIN local.windows : CloseWindow(w) \/ AskSpawn(w)
  \/ Detach

Polls == \E p \in local.panes : Polled(p)

Next == Others \/ ServerWorks \/ RunHead \/ Polls \/ User

Spec == Init /\ [][Next]_vars

\* ENABLED <<RunHead>>_vars, written out because TLC is slow to evaluate that
CanRun ==
  /\ crashed = None /\ inbox # <<>>
  /\ Head(inbox).type \in {"list", "spawned"} => NamesLeft

\* The main threads run what is queued: WF_vars(RunHead), for the client's.  Programs
\* that are spawned start or fail, and a pane that nobody has been told of writes
Fairness ==
  /\ []<>~CanRun \/ []<><<RunHead>>_vars
  /\ WF_vars(ServerWorks)

FairSpec == Spec /\ Fairness

-----------------------------------------------------------------------------
(* Properties.                                                             *)

Map(S, T) == UNION {[D -> T] : D \in SUBSET S}

\* The maps lead from remote names to local ones, trees hold local panes, and
\* queues hold the messages of the protocol.
TypeOK ==
  /\ at \in [Pane -> Tab \cup {None, Gone}]
  /\ window \in [Tab -> Window \cup {None}]
  /\ told \subseteq Pane /\ revived \subseteq told
  /\ opening \subseteq serving \cup {None}
  /\ events \in 0..MaxEvents
  /\ \A i \in DOMAIN toServer : toServer[i].type \in {"list", "kill"}
  /\ \A i \in DOMAIN inbox : inbox[i].posted \in BOOLEAN
  /\ domain \in {"attaching", "attached", "detached"}
  /\ local.panes \subseteq LocalPane /\ local.dead \subseteq LocalPane
  /\ DOMAIN local.tabs \subseteq LocalTab
  /\ \A t \in DOMAIN local.tabs : local.tabs[t] \subseteq LocalPane
  /\ DOMAIN local.windows \subseteq LocalWindow
  /\ \A w \in DOMAIN local.windows : local.windows[w] \subseteq DOMAIN local.tabs
  /\ DOMAIN local.paneMap \subseteq Pane /\ Range(local.paneMap) \subseteq LocalPane
  /\ DOMAIN local.tabMap \subseteq Tab /\ Range(local.tabMap) \subseteq LocalTab
  /\ DOMAIN local.windowMap \subseteq Window /\ Range(local.windowMap) \subseteq LocalWindow
  /\ local.busy \in 0..MaxEvents
  /\ local.took = {} /\ local.killed = {}
  /\ closed \subseteq Pane
  /\ crashed \in {None, "window", "primary"}

\* A pane of the server has at most one live pane in the client's mux, whichever
\* of a spawn's answer, a list or a message came first (process_pane_list,
\* remote_to_local_pane_id): two would both take its output and its input.
OnePanePerRemote ==
  \A p, q \in local.panes \ local.dead : p[1] = q[1] => p = q

\* As ClientPane::kill says, the server is asked to kill a pane only if the user
\* has closed it: never because a domain is detached, a window closed, a tab
\* pruned or a pane missing from a list.
KillsOnlyAsked ==
  \A i \in DOMAIN toServer : toServer[i].type = "kill" => toServer[i].pane \in closed

\* A pane on the server is shown sooner or later, whoever made it and in whatever
\* order the answers and messages about it come (process_unilateral asks again when
\* it hears of a pane that it does not know), unless it goes, the domain is detached
\* or the user closes something: a split whose tab is closed meanwhile is lost.
EachShown ==
  \A r \in Pane :
    (r \in Known /\ domain = "attached")
      ~> (ShownHere(r) \/ r \notin Known \/ domain # "attached" \/ closed # {})

\* A pane that the server's mux has no more, of which clients are told once, is not
\* shown for ever, even if a list made before comes after the message that it was
\* removed (PaneRemoved, prune) and whatever spawn puts off the server's own prune.
\* Left out are panes that a list names after they were told: ListPanes reads the
\* trees, and the client makes such a pane anew with nobody to tell it again.
GoneLeaves ==
  \A r \in Pane :
    (r \in told /\ domain = "attached")
      ~> (~ShownHere(r) \/ domain # "attached" \/ r \in revived)

\* expect("no such window!?") in process_pane_list: a remote window that the map
\* knows has a local window.  This does not hold, and no run asks for it: the map is
\* repaired when a PaneRemoved is handled, but a local window goes when the user
\* closes it, while a list may be on its way (see the README).
WindowThere == crashed # "window"
=============================================================================
