----------------------------- MODULE Mux_proofs -----------------------------
(***************************************************************************)
(* The registry of the multiplexer: type correctness, that no pane is in   *)
(* two tabs, that windows list known tabs, that prunes spare the living,   *)
(* and that no prune is forgotten.                                         *)
(*                                                                         *)
(* The first part says what each operator on registries does to the five   *)
(* fields; the second what they preserve; the third goes through the       *)
(* actions.                                                                *)
(***************************************************************************)
EXTENDS Mux, SequenceTheorems, TLAPS

-----------------------------------------------------------------------------
(* What the operators on registries do, field by field.                    *)

LEMMA RemovePanesFacts ==
  ASSUME NEW m \in Registry, NEW ps
  PROVE  /\ RemovePanes(m, ps) \in Registry
         /\ RemovePanes(m, ps).panes = m.panes \ ps
         /\ RemovePanes(m, ps).tabs = m.tabs
         /\ RemovePanes(m, ps).windows = m.windows
         /\ RemovePanes(m, ps).tree = m.tree
         /\ RemovePanes(m, ps).tabsOf = m.tabsOf
BY DEF RemovePanes, Registry

LEMMA RemoveTabsFacts ==
  ASSUME NEW m \in Registry, NEW ts
  PROVE  /\ RemoveTabs(m, ts) \in Registry
         /\ RemoveTabs(m, ts).panes = m.panes \ UNION {m.tree[t] : t \in ts \cap m.tabs}
         /\ RemoveTabs(m, ts).tabs = m.tabs \ ts
         /\ RemoveTabs(m, ts).windows = m.windows
         /\ RemoveTabs(m, ts).tree = m.tree
         /\ \A w \in Window : RemoveTabs(m, ts).tabsOf[w] = m.tabsOf[w] \ ts
BY DEF RemoveTabs, Registry

LEMMA RemoveWindowsFacts ==
  ASSUME NEW m \in Registry, NEW ws
  PROVE  /\ RemoveWindows(m, ws) \in Registry
         /\ RemoveWindows(m, ws).panes = m.panes
         /\ RemoveWindows(m, ws).tabs = m.tabs
         /\ RemoveWindows(m, ws).windows = m.windows \ ws
         /\ RemoveWindows(m, ws).tree = m.tree
         /\ \A w \in Window :
              RemoveWindows(m, ws).tabsOf[w] = IF w \in ws THEN {} ELSE m.tabsOf[w]
BY DEF RemoveWindows, Registry

LEMMA TakePaneFacts ==
  ASSUME NEW m \in Registry, NEW s \in Tab, NEW p
  PROVE  /\ TakePane(m, s, p) \in Registry
         /\ TakePane(m, s, p).panes = m.panes
         /\ TakePane(m, s, p).tabs = m.tabs
         /\ TakePane(m, s, p).windows = m.windows
         /\ TakePane(m, s, p).tabsOf = m.tabsOf
         /\ \A t \in Tab :
              TakePane(m, s, p).tree[t] = IF t = s THEN m.tree[t] \ {p} ELSE m.tree[t]
BY DEF TakePane, Registry

LEMMA SweptFacts ==
  ASSUME NEW m \in Registry, NEW r
  PROVE  /\ Swept(m, r) \in Registry
         /\ Swept(m, r).panes = m.panes
         /\ Swept(m, r).tabs = m.tabs
         /\ Swept(m, r).windows = m.windows
         /\ Swept(m, r).tabsOf = m.tabsOf
         /\ \A t \in Tab : Swept(m, r).tree[t] =
              IF t \in ListedTabs(m) THEN m.tree[t] \ r ELSE m.tree[t]
BY DEF Swept, Registry

LEMMA InsertFacts ==
  ASSUME NEW m \in Registry, NEW t \in Tab, NEW target, NEW p \in Pane,
         NEW fits \in BOOLEAN
  PROVE  /\ InsertBeside(m, t, target, p, fits) \in Registry
         /\ InsertBeside(m, t, target, p, fits).panes = m.panes
         /\ InsertBeside(m, t, target, p, fits).tabs = m.tabs
         /\ InsertBeside(m, t, target, p, fits).windows = m.windows
         /\ InsertBeside(m, t, target, p, fits).tabsOf = m.tabsOf
BY DEF InsertBeside, Registry

LEMMA InsertTree ==
  ASSUME NEW m \in Registry, NEW t \in Tab, NEW target, NEW p \in Pane,
         NEW fits \in BOOLEAN, NEW u \in Tab, NEW q
  PROVE  q \in InsertBeside(m, t, target, p, fits).tree[u] <=>
           \/ q \in m.tree[u]
           \/ q = p /\ u = t /\ fits /\ target \in m.tree[t]
BY DEF InsertBeside, Registry

LEMMA InNewTabFacts ==
  ASSUME NEW m \in Registry, NEW p \in Pane, NEW w \in Window, NewTab \in Tab
  PROVE  /\ InNewTab(m, p, w) \in Registry
         /\ \A q : q \in InNewTab(m, p, w).panes <=> q \in m.panes \/ q = p
         /\ \A t : t \in InNewTab(m, p, w).tabs <=> t \in m.tabs \/ t = NewTab
         /\ InNewTab(m, p, w).windows = m.windows
BY DEF InNewTab, Registry

LEMMA InNewTabTree ==
  ASSUME NEW m \in Registry, NEW p \in Pane, NEW w \in Window, NewTab \in Tab,
         NEW t \in Tab, NEW q
  PROVE  q \in InNewTab(m, p, w).tree[t] <=> IF t = NewTab THEN q = p ELSE q \in m.tree[t]
BY DEF InNewTab, Registry

LEMMA InNewTabListed ==
  ASSUME NEW m \in Registry, NEW p \in Pane, NEW w \in Window, NewTab \in Tab,
         NEW v \in Window, NEW t
  PROVE  t \in InNewTab(m, p, w).tabsOf[v] <=> t \in m.tabsOf[v] \/ (t = NewTab /\ v = w)
BY DEF InNewTab, Registry

\* prune_dead_windows: it sweeps the trees of the listed tabs; of the tabs it
\* keeps listed, known ones with a living pane; of the windows, those that
\* still list a tab.
LEMMA PrunedFacts ==
  ASSUME NEW m \in Registry, NEW pr, NEW r
  PROVE  LET n == Pruned(m, pr, r)
             s == Swept(m, r)
         IN /\ n \in Registry
            /\ n.tree = s.tree
            /\ n.tabs = {t \in m.tabs : ~DeadTab(s, pr, t)}
            /\ \A p : p \in n.panes <=> 
                 p \in m.panes /\ \A t \in m.tabs : DeadTab(s, pr, t) => p \notin s.tree[t]
            /\ \A w \in Window : \A t \in Tab : t \in n.tabsOf[w] <=>
                 t \in m.tabsOf[w] /\ t \in m.tabs /\ ~DeadTab(s, pr, t)
            /\ \A w : w \in n.windows <=> w \in m.windows /\ n.tabsOf[w] # {}
<1> DEFINE s == Swept(m, r)
           shown == [w \in Window |-> {t \in s.tabsOf[w] : t \in m.tabs /\ ~DeadTab(s, pr, t)}]
           deadTabs == {t \in m.tabs : DeadTab(s, pr, t)}
           deadWindows == {w \in m.windows : shown[w] = {}}
           a == [s EXCEPT !.tabsOf = shown]
           b == RemoveTabs(a, deadTabs)
           c == RemoveWindows(b, deadWindows)
<1>1. /\ s \in Registry /\ s.panes = m.panes /\ s.tabs = m.tabs
      /\ s.windows = m.windows /\ s.tabsOf = m.tabsOf
  BY SweptFacts
<1>2. /\ shown \in [Window -> SUBSET Tab]
      /\ \A w \in Window : shown[w] = {t \in m.tabsOf[w] : t \in m.tabs /\ ~DeadTab(s, pr, t)}
  <2> HIDE DEF s
  <2> QED BY <1>1 DEF Registry
<1>3. /\ a \in Registry /\ a.panes = m.panes /\ a.tabs = m.tabs
      /\ a.windows = m.windows /\ a.tree = s.tree /\ a.tabsOf = shown
  <2> HIDE DEF s, shown
  <2> QED BY <1>1, <1>2 DEF Registry
<1>4. /\ b \in Registry
      /\ b.panes = a.panes \ UNION {a.tree[t] : t \in deadTabs \cap a.tabs}
      /\ b.tabs = a.tabs \ deadTabs /\ b.windows = a.windows /\ b.tree = a.tree
      /\ \A w \in Window : b.tabsOf[w] = a.tabsOf[w] \ deadTabs
  <2> HIDE DEF a, deadTabs
  <2> QED BY <1>3, RemoveTabsFacts
<1>5. /\ c \in Registry /\ c.panes = b.panes /\ c.tabs = b.tabs /\ c.tree = b.tree
      /\ c.windows = b.windows \ deadWindows
      /\ \A w \in Window : c.tabsOf[w] = IF w \in deadWindows THEN {} ELSE b.tabsOf[w]
  <2> HIDE DEF b, deadWindows
  <2> QED BY <1>4, RemoveWindowsFacts
<1>6. c = Pruned(m, pr, r)
  BY <1>1 DEF Pruned
<1>7. c.tabs = {t \in m.tabs : ~DeadTab(s, pr, t)}
  <2> HIDE DEF s, a, b, c
  <2> QED BY <1>3, <1>4, <1>5
<1>8. \A p : p \in c.panes <=>
        p \in m.panes /\ \A t \in m.tabs : DeadTab(s, pr, t) => p \notin s.tree[t]
  <2> HIDE DEF s, a, b, c
  <2> QED BY <1>3, <1>4, <1>5
<1>9. \A w \in Window : \A t \in Tab : t \in c.tabsOf[w] <=>
        t \in m.tabsOf[w] /\ t \in m.tabs /\ ~DeadTab(s, pr, t)
  <2> HIDE DEF s, a, b, c, shown
  <2> QED BY <1>2, <1>3, <1>4, <1>5
<1>10. \A w : w \in c.windows <=> w \in m.windows /\ c.tabsOf[w] # {}
  <2>1. m.windows \subseteq Window
    BY DEF Registry
  <2>2. \A w \in Window : b.tabsOf[w] = shown[w]
    <3> TAKE w \in Window
    <3>1. \A t \in shown[w] : t \notin deadTabs
      <4> HIDE DEF s, shown
      <4> QED BY <1>2
    <3>2. b.tabsOf[w] = shown[w] \ deadTabs
      <4> HIDE DEF s, a, b, shown, deadTabs
      <4> QED BY <1>3, <1>4
    <3> HIDE DEF s, a, b, shown, deadTabs
    <3> QED BY <3>1, <3>2
  <2>3. c.windows = m.windows \ deadWindows
    <3> HIDE DEF s, a, b, c, shown, deadWindows
    <3> QED BY <1>3, <1>4, <1>5
  <2>4. \A w \in m.windows : w \in deadWindows <=> shown[w] = {}
    <3> HIDE DEF shown
    <3> QED OBVIOUS
  <2> HIDE DEF s, a, b, c, shown, deadWindows
  <2> QED BY <1>5, <2>1, <2>2, <2>3, <2>4
<1> HIDE DEF s, a, b, c
<1>11. c.tree = s.tree
  BY <1>3, <1>4, <1>5
<1> QED BY <1>5, <1>6, <1>7, <1>8, <1>9, <1>10, <1>11 DEF s

-----------------------------------------------------------------------------
(* The inductive invariant on registries, and what keeps it.               *)

Born(pr) == {p \in Pane : pr[p] # "unborn"}

\* Trees share no pane, windows share no tab.
Disjoint(m) ==
  /\ \A t, u \in Tab : t # u => m.tree[t] \cap m.tree[u] = {}
  /\ \A v, w \in Window : v # w => m.tabsOf[v] \cap m.tabsOf[w] = {}

\* A window lists known tabs, and none once it is gone.
Known(m) ==
  \A w \in Window :
    /\ m.tabsOf[w] \subseteq m.tabs
    /\ w \notin m.windows => m.tabsOf[w] = {}

\* Nothing is there that was not allocated.
Allocated(m, born, ts, ws) ==
  /\ \A t \in Tab : m.tree[t] \subseteq born
  /\ m.tabs \subseteq ts
  /\ m.windows \subseteq ws

Good(m, born, ts, ws) ==
  m \in Registry /\ Disjoint(m) /\ Known(m) /\ Allocated(m, born, ts, ws)

\* n shows nothing that m does not.
Within(n, m) ==
  /\ \A t \in Tab : n.tree[t] \subseteq m.tree[t]
  /\ \A w \in Window : n.tabsOf[w] \subseteq m.tabsOf[w]
  /\ n.tabs \subseteq m.tabs
  /\ n.windows \subseteq m.windows

LEMMA GoodWithin ==
  ASSUME NEW m, NEW n \in Registry, NEW born, NEW ts, NEW ws,
         Good(m, born, ts, ws), Within(n, m), Known(n)
  PROVE  Good(n, born, ts, ws)
<1>1. \A t, u \in Tab : t # u => n.tree[t] \cap n.tree[u] = {}
  BY DEF Good, Within, Disjoint
<1>2. \A v, w \in Window : v # w => n.tabsOf[v] \cap n.tabsOf[w] = {}
  BY DEF Good, Within, Disjoint
<1>3. Allocated(n, born, ts, ws)
  BY DEF Good, Within, Allocated
<1> QED BY <1>1, <1>2, <1>3 DEF Good, Disjoint

LEMMA WithinTrans ==
  ASSUME NEW a, NEW b, NEW c, Within(a, b), Within(b, c)
  PROVE  Within(a, c)
BY DEF Within

LEMMA ListedFacts ==
  ASSUME NEW m, NEW born, NEW ts, NEW ws, Good(m, born, ts, ws)
  PROVE  /\ ListedTabs(m) \subseteq m.tabs /\ ListedTabs(m) \subseteq Tab
         /\ ListedTabs(m) \subseteq ts
BY DEF Good, Known, Allocated, ListedTabs, Registry

LEMMA RemovePanesGood ==
  ASSUME NEW m, NEW born, NEW ts, NEW ws, Good(m, born, ts, ws), NEW ps
  PROVE  Good(RemovePanes(m, ps), born, ts, ws) /\ Within(RemovePanes(m, ps), m)
<1> DEFINE n == RemovePanes(m, ps)
<1>1. n \in Registry /\ n.tabs = m.tabs /\ n.windows = m.windows
      /\ n.tree = m.tree /\ n.tabsOf = m.tabsOf
  BY RemovePanesFacts DEF Good
<1> HIDE DEF n
<1>2. Within(n, m) /\ Known(n)
  BY <1>1 DEF Within, Known, Good
<1>3. Good(n, born, ts, ws)
  BY <1>1, <1>2, GoodWithin
<1> QED BY <1>2, <1>3 DEF n

LEMMA RemoveTabsGood ==
  ASSUME NEW m, NEW born, NEW ts, NEW ws, Good(m, born, ts, ws), NEW gone
  PROVE  Good(RemoveTabs(m, gone), born, ts, ws) /\ Within(RemoveTabs(m, gone), m)
<1> DEFINE n == RemoveTabs(m, gone)
<1>1. n \in Registry /\ n.tabs = m.tabs \ gone /\ n.windows = m.windows
      /\ n.tree = m.tree /\ \A w \in Window : n.tabsOf[w] = m.tabsOf[w] \ gone
  BY RemoveTabsFacts DEF Good
<1> HIDE DEF n
<1>2. Within(n, m) /\ Known(n)
  BY <1>1 DEF Within, Known, Good
<1>3. Good(n, born, ts, ws)
  BY <1>1, <1>2, GoodWithin
<1> QED BY <1>2, <1>3 DEF n

LEMMA RemoveWindowsGood ==
  ASSUME NEW m, NEW born, NEW ts, NEW ws, Good(m, born, ts, ws), NEW gone
  PROVE  Good(RemoveWindows(m, gone), born, ts, ws) /\ Within(RemoveWindows(m, gone), m)
<1> DEFINE n == RemoveWindows(m, gone)
<1>1. n \in Registry /\ n.tabs = m.tabs /\ n.windows = m.windows \ gone
      /\ n.tree = m.tree
      /\ \A w \in Window : n.tabsOf[w] = IF w \in gone THEN {} ELSE m.tabsOf[w]
  BY RemoveWindowsFacts DEF Good
<1> HIDE DEF n
<1>2. Within(n, m) /\ Known(n)
  BY <1>1 DEF Within, Known, Good
<1>3. Good(n, born, ts, ws)
  BY <1>1, <1>2, GoodWithin
<1> QED BY <1>2, <1>3 DEF n

LEMMA TakePaneGood ==
  ASSUME NEW m, NEW born, NEW ts, NEW ws, Good(m, born, ts, ws), NEW s \in Tab, NEW p
  PROVE  Good(TakePane(m, s, p), born, ts, ws) /\ Within(TakePane(m, s, p), m)
<1> DEFINE n == TakePane(m, s, p)
<1>1. n \in Registry /\ n.tabs = m.tabs /\ n.windows = m.windows /\ n.tabsOf = m.tabsOf
      /\ \A t \in Tab : n.tree[t] = IF t = s THEN m.tree[t] \ {p} ELSE m.tree[t]
  BY TakePaneFacts DEF Good
<1> HIDE DEF n
<1>2. Within(n, m) /\ Known(n)
  BY <1>1 DEF Within, Known, Good
<1>3. Good(n, born, ts, ws)
  BY <1>1, <1>2, GoodWithin
<1> QED BY <1>2, <1>3 DEF n

LEMMA SweptGood ==
  ASSUME NEW m, NEW born, NEW ts, NEW ws, Good(m, born, ts, ws), NEW r
  PROVE  Good(Swept(m, r), born, ts, ws) /\ Within(Swept(m, r), m)
<1> DEFINE n == Swept(m, r)
<1>1. n \in Registry /\ n.tabs = m.tabs /\ n.windows = m.windows /\ n.tabsOf = m.tabsOf
      /\ \A t \in Tab :
           n.tree[t] = IF t \in ListedTabs(m) THEN m.tree[t] \ r ELSE m.tree[t]
  BY SweptFacts DEF Good
<1> HIDE DEF n
<1>2. Within(n, m) /\ Known(n)
  BY <1>1 DEF Within, Known, Good
<1>3. Good(n, born, ts, ws)
  BY <1>1, <1>2, GoodWithin
<1> QED BY <1>2, <1>3 DEF n

LEMMA PrunedGood ==
  ASSUME NEW m, NEW born, NEW ts, NEW ws, Good(m, born, ts, ws), NEW pr, NEW r
  PROVE  Good(Pruned(m, pr, r), born, ts, ws) /\ Within(Pruned(m, pr, r), m)
<1> DEFINE n == Pruned(m, pr, r)
           s == Swept(m, r)
<1>1. /\ n \in Registry /\ n.tree = s.tree
      /\ n.tabs = {t \in m.tabs : ~DeadTab(s, pr, t)}
      /\ \A w \in Window : \A t \in Tab : t \in n.tabsOf[w] <=>
           t \in m.tabsOf[w] /\ t \in m.tabs /\ ~DeadTab(s, pr, t)
      /\ \A w : w \in n.windows <=> w \in m.windows /\ n.tabsOf[w] # {}
  BY PrunedFacts DEF Good
<1>2. Within(s, m)
  BY SweptGood
<1> HIDE DEF n, s
<1>3. \A w \in Window : n.tabsOf[w] \subseteq Tab
  BY <1>1 DEF Registry
<1>4. Within(n, m)
  BY <1>1, <1>2, <1>3 DEF Within
<1>5. Known(n)
  <2> SUFFICES ASSUME NEW w \in Window
               PROVE  /\ n.tabsOf[w] \subseteq n.tabs
                      /\ w \notin n.windows => n.tabsOf[w] = {}
    BY DEF Known
  <2>1. n.tabsOf[w] \subseteq n.tabs
    BY <1>1, <1>3
  <2>2. w \notin n.windows => n.tabsOf[w] = {}
    BY <1>1, <1>4 DEF Good, Known, Within
  <2> QED BY <2>1, <2>2
<1>6. Good(n, born, ts, ws)
  BY <1>1, <1>4, <1>5, GoodWithin
<1> QED BY <1>4, <1>6 DEF n

-----------------------------------------------------------------------------
(* The queue.                                                              *)

LEMMA TaskType ==
  /\ PruneTask \in Task /\ QuitTask \in Task
  /\ \A r \in SUBSET Pane : RemoveTask(r) \in Task
BY DEF PruneTask, QuitTask, RemoveTask, Task

LEMMA PostType ==
  ASSUME NEW q \in Seq(Task), NEW cond \in BOOLEAN, NEW task \in Task
  PROVE  q \o Post(cond, task) \in Seq(Task)
BY DEF Post

\* Every outcome of prune_dead_windows is a good registry and a queue of tasks.
LEMMA PrunesGood ==
  ASSUME NEW m, NEW born, NEW ts, NEW ws, Good(m, born, ts, ws),
         NEW pr, NEW q \in Seq(Task), NEW busy \in BOOLEAN,
         NEW x \in Prunes(m, pr, q, busy)
  PROVE  Good(x.mux, born, ts, ws) /\ Within(x.mux, m) /\ x.queue \in Seq(Task)
<1>1. CASE busy
  <2>1. x.mux = m /\ x.queue = q
    BY <1>1 DEF Prunes
  <2>2. Within(m, m)
    BY DEF Within
  <2> QED BY <2>1, <2>2
<1>2. CASE ~busy
  <2>1. PICK r \in Sweeps(m, Prunable(m, pr)) :
          x = [mux |-> Pruned(m, pr, r),
               queue |-> q \o Post(r # {}, RemoveTask(r))
                           \o Post(Pruned(m, pr, r).panes = {}, QuitTask)]
    BY <1>2 DEF Prunes
  <2>2. r \in SUBSET Pane
    BY DEF Sweeps, Prunable
  <2>3. x.queue \in Seq(Task)
    <3>1. q \o Post(r # {}, RemoveTask(r)) \in Seq(Task)
      BY <2>2, TaskType, PostType
    <3>2. PICK e : e = q \o Post(r # {}, RemoveTask(r))
      OBVIOUS
    <3>3. PICK b \in BOOLEAN : b <=> Pruned(m, pr, r).panes = {}
      OBVIOUS
    <3>4. e \o Post(Pruned(m, pr, r).panes = {}, QuitTask) \in Seq(Task)
      BY <3>1, <3>2, TaskType, PostType
    <3> QED BY <2>1, <3>2, <3>4
  <2> QED BY <2>1, <2>3, PrunedGood
<1> QED BY <1>1, <1>2

LEMMA PruneFromGood ==
  ASSUME NEW m, NEW born, NEW ts, NEW ws, Good(m, born, ts, ws),
         NEW pr, NEW q \in Seq(Task), PruneFrom(m, pr, q)
  PROVE  Good(mux', born, ts, ws) /\ queue' \in Seq(Task)
BY PrunesGood DEF PruneFrom, Busy

-----------------------------------------------------------------------------
(* What makes a registry grow.                                             *)

LEMMA InsertGood ==
  ASSUME NEW m, NEW born, NEW ts, NEW ws, Good(m, born, ts, ws),
         NEW t \in Tab, NEW target, NEW p \in Pane, p \in born, NEW fits \in BOOLEAN,
         \A u \in Tab : p \notin m.tree[u]
  PROVE  Good(InsertBeside(m, t, target, p, fits), born, ts, ws)
<1>0. m \in Registry /\ Disjoint(m) /\ Known(m) /\ Allocated(m, born, ts, ws)
  BY DEF Good
<1> DEFINE n == InsertBeside(m, t, target, p, fits)
<1>1. n \in Registry /\ n.tabs = m.tabs /\ n.windows = m.windows /\ n.tabsOf = m.tabsOf
  BY <1>0, InsertFacts
<1>2. \A u \in Tab : \A q : q \in n.tree[u] <=>
        q \in m.tree[u] \/ (q = p /\ u = t /\ fits /\ target \in m.tree[t])
  <2> SUFFICES ASSUME NEW u \in Tab, NEW q
               PROVE  q \in n.tree[u] <=>
                        q \in m.tree[u] \/ (q = p /\ u = t /\ fits /\ target \in m.tree[t])
    OBVIOUS
  <2> QED BY <1>0 DEF InsertBeside, Registry
<1> HIDE DEF n
<1>3. \A u \in Tab : /\ n.tree[u] \subseteq m.tree[u] \cup {p}
                     /\ u # t => n.tree[u] = m.tree[u]
  BY <1>2
<1>4. \A u, v \in Tab : u # v => n.tree[u] \cap n.tree[v] = {}
  BY <1>0, <1>3 DEF Disjoint
<1>5. Disjoint(n)
  BY <1>0, <1>1, <1>4 DEF Disjoint
<1>6. Known(n)
  BY <1>0, <1>1 DEF Known
<1>7. Allocated(n, born, ts, ws)
  BY <1>0, <1>1, <1>3 DEF Allocated
<1> QED BY <1>1, <1>5, <1>6, <1>7 DEF Good, n

LEMMA InNewTabGood ==
  ASSUME NEW m, NEW born, NEW ts, NEW ws, Good(m, born, ts, ws),
         NEW p \in Pane, p \in born, NEW w \in Window, w \in m.windows,
         NewTab \in Tab, NewTab \notin ts,
         \A u \in Tab : p \notin m.tree[u]
  PROVE  Good(InNewTab(m, p, w), born, ts \cup {NewTab}, ws)
<1>0. m \in Registry /\ Disjoint(m) /\ Known(m) /\ Allocated(m, born, ts, ws)
  BY DEF Good
<1> DEFINE n == InNewTab(m, p, w)
<1>1. n \in Registry /\ n.windows = m.windows
      /\ \A t : t \in n.tabs <=> t \in m.tabs \/ t = NewTab
  BY <1>0, InNewTabFacts
<1>2. \A t \in Tab : \A q : q \in n.tree[t] <=> IF t = NewTab THEN q = p ELSE q \in m.tree[t]
  BY <1>0, InNewTabTree
<1>3. \A v \in Window : \A t : t \in n.tabsOf[v] <=> t \in m.tabsOf[v] \/ (t = NewTab /\ v = w)
  BY <1>0, InNewTabListed
<1> HIDE DEF n
<1>4. \A v \in Window : NewTab \notin m.tabsOf[v]
  BY <1>0 DEF Known, Allocated
<1>5. \A t, u \in Tab : t # u => n.tree[t] \cap n.tree[u] = {}
  BY <1>0, <1>2 DEF Disjoint
<1>6. \A u, v \in Window : u # v => n.tabsOf[u] \cap n.tabsOf[v] = {}
  <2> SUFFICES ASSUME NEW u \in Window, NEW v \in Window, u # v,
                      NEW t \in n.tabsOf[u], t \in n.tabsOf[v]
               PROVE  FALSE
    OBVIOUS
  <2>1. m.tabsOf[u] \cap m.tabsOf[v] = {}
    BY <1>0 DEF Disjoint
  <2> QED BY <1>3, <1>4, <2>1
<1>7. Disjoint(n)
  BY <1>5, <1>6 DEF Disjoint
<1>8. Known(n)
  <2> SUFFICES ASSUME NEW v \in Window
               PROVE  /\ n.tabsOf[v] \subseteq n.tabs
                      /\ v \notin n.windows => n.tabsOf[v] = {}
    BY DEF Known
  <2>1. m.tabsOf[v] \subseteq m.tabs /\ (v \notin m.windows => m.tabsOf[v] = {})
    BY <1>0 DEF Known
  <2> QED BY <1>1, <1>3, <2>1
<1>9. Allocated(n, born, ts \cup {NewTab}, ws)
  BY <1>0, <1>1, <1>2 DEF Allocated
<1> QED BY <1>1, <1>7, <1>8, <1>9 DEF Good, n

LEMMA GoodGrows ==
  ASSUME NEW m, NEW born, NEW ts, NEW ws, Good(m, born, ts, ws),
         NEW born2, NEW ts2, NEW ws2,
         born \subseteq born2, ts \subseteq ts2, ws \subseteq ws2
  PROVE  Good(m, born2, ts2, ws2)
BY DEF Good, Allocated

LEMMA NewIdFacts ==
  /\ madeTabs \subseteq Tab /\ madeTabs # Tab => NewTab \in Tab /\ NewTab \notin madeTabs
  /\ madeWindows \subseteq Window /\ madeWindows # Window
       => NewWindow \in Window /\ NewWindow \notin madeWindows
BY DEF NewTab, NewWindow

-----------------------------------------------------------------------------
(* What every step keeps.                                                  *)

Inv == TypeOK /\ Good(mux, Born(proc), madeTabs, madeWindows)

ProcState == {"unborn", "running", "held", "dead"}

LEMMA KilledFacts ==
  ASSUME NEW pr \in [Pane -> ProcState], NEW ps
  PROVE  /\ Killed(pr, ps) \in [Pane -> ProcState]
         /\ Born(Killed(pr, ps)) = Born(pr)
<1>1. Killed(pr, ps) \in [Pane -> ProcState]
  BY DEF Killed, ProcState
<1>2. \A p \in Pane : Killed(pr, ps)[p] # "unborn" <=> pr[p] # "unborn"
  BY DEF Killed
<1> QED BY <1>1, <1>2 DEF Born

LEMMA ReturnType ==
  ASSUME TypeOK, NEW o \in Op, NEW q \in Seq(Task), Return(o, q)
  PROVE  /\ op' \in [Op -> OpState]
         /\ activities' \subseteq Op \X {"caller", "builder"}
         /\ queue' \in Seq(Task)
<1>1. op' \in [Op -> OpState]
  <2>1. [pc |-> "done"] \in OpState
    BY DEF OpState
  <2> QED BY <2>1 DEF Return, TypeOK
<1>2. activities' \subseteq Op \X {"caller", "builder"}
  BY DEF Return, TypeOK
<1>3. queue' \in Seq(Task)
  <2>1. (Holding(o) # {}) \in BOOLEAN
    OBVIOUS
  <2> QED BY <2>1, TaskType, PostType DEF Return
<1> QED BY <1>1, <1>2, <1>3

LEMMA StartPaneFacts ==
  ASSUME TypeOK, NEW p \in Unborn, StartPane(p)
  PROVE  /\ proc' \in [Pane -> ProcState] /\ reading' \subseteq Pane
         /\ Born(proc) \subseteq Born(proc') /\ p \in Born(proc') /\ p \notin Born(proc)
         /\ p \in Pane
<1>1. p \in Pane /\ proc[p] = "unborn"
  BY DEF Unborn
<1>2. proc' \in [Pane -> ProcState] /\ reading' \subseteq Pane
  BY <1>1 DEF StartPane, TypeOK, ProcState
<1>3. \A q \in Pane : proc'[q] = IF q = p THEN "running" ELSE proc[q]
  BY <1>1 DEF StartPane, TypeOK
<1> QED BY <1>1, <1>2, <1>3 DEF Born

-----------------------------------------------------------------------------
(* The actions.                                                            *)

LEMMA InitInv == Init => Inv
<1> SUFFICES ASSUME Init PROVE Inv
  OBVIOUS
<1>1. TypeOK
  <2>1. mux \in Registry
    BY DEF Init, Registry
  <2>2. op \in [Op -> OpState] /\ queue \in Seq(Task)
    BY DEF Init, OpState
  <2>3. /\ proc \in [Pane -> {"unborn", "running", "held", "dead"}]
        /\ reading \subseteq Pane
        /\ activities \subseteq Op \X {"caller", "builder"}
        /\ madeTabs \subseteq Tab /\ madeWindows \subseteq Window
        /\ quit \in BOOLEAN
    BY DEF Init
  <2> QED BY <2>1, <2>2, <2>3 DEF TypeOK
<1>2. Good(mux, Born(proc), madeTabs, madeWindows)
  BY <1>1 DEF Init, TypeOK, Good, Disjoint, Known, Allocated, Registry
<1> QED BY <1>1, <1>2 DEF Inv

LEMMA SpawnInv ==
  ASSUME Inv,
         \/ \E o \in Op, w \in Window : \E held \in {{}, {<<o, "caller">>}} :
              StartSpawnTab(o, w, held)
         \/ \E o \in Op : \E held \in {{}, {<<o, "caller">>}} : StartSpawnWindow(o, held)
         \/ \E o \in Op : SpawnFails(o)
         \/ \E o \in Op, p \in Pane : FinishSpawn(o, p)
  PROVE  Inv'
<1>0. TypeOK /\ Good(mux, Born(proc), madeTabs, madeWindows)
  BY DEF Inv
<1>1. ASSUME NEW o \in Op, NEW w \in Window, NEW held \in {{}, {<<o, "caller">>}},
             StartSpawnTab(o, w, held)
      PROVE  Inv'
  <2>1. op' \in [Op -> OpState]
    BY <1>0, <1>1 DEF StartSpawnTab, TypeOK, OpState
  <2>2. activities' \subseteq Op \X {"caller", "builder"}
    BY <1>0, <1>1 DEF StartSpawnTab, TypeOK
  <2>3. TypeOK'
    BY <1>0, <1>1, <2>1, <2>2 DEF StartSpawnTab, TypeOK
  <2> QED BY <1>0, <1>1, <2>3 DEF StartSpawnTab, Inv
<1>2. ASSUME NEW o \in Op, NEW held \in {{}, {<<o, "caller">>}}, StartSpawnWindow(o, held)
      PROVE  Inv'
  <2>1. NewWindow \in Window /\ NewWindow \notin madeWindows
    BY <1>0, <1>2, NewIdFacts DEF StartSpawnWindow, TypeOK
  <2>2. op' \in [Op -> OpState]
    BY <1>0, <1>2, <2>1 DEF StartSpawnWindow, TypeOK, OpState
  <2>3. activities' \subseteq Op \X {"caller", "builder"}
    BY <1>0, <1>2 DEF StartSpawnWindow, TypeOK
  <2>4. /\ mux' \in Registry /\ mux'.tabs = mux.tabs /\ mux'.tree = mux.tree
        /\ mux'.tabsOf = mux.tabsOf /\ mux'.windows = mux.windows \cup {NewWindow}
    BY <1>0, <1>2, <2>1 DEF StartSpawnWindow, TypeOK, Registry
  <2>5. TypeOK'
    BY <1>0, <1>2, <2>1, <2>2, <2>3, <2>4 DEF StartSpawnWindow, TypeOK
  <2>6. Good(mux', Born(proc), madeTabs, madeWindows')
    BY <1>0, <1>2, <2>4 DEF StartSpawnWindow, Good, Disjoint, Known, Allocated
  <2>7. Born(proc)' = Born(proc) /\ madeTabs' = madeTabs
    BY <1>2 DEF StartSpawnWindow, Born
  <2> QED BY <2>5, <2>6, <2>7 DEF Inv
<1>3. ASSUME NEW o \in Op, SpawnFails(o)
      PROVE  Inv'
  <2>1. TypeOK'
    BY <1>0, <1>3, ReturnType DEF SpawnFails, TypeOK
  <2> QED BY <1>0, <1>3, <2>1 DEF SpawnFails, Inv, Born
<1>4. ASSUME NEW o \in Op, NEW p \in Pane, FinishSpawn(o, p)
      PROVE  Inv'
  <2>1. NewTab \in Tab /\ NewTab \notin madeTabs
    BY <1>0, <1>4, NewIdFacts DEF FinishSpawn, TypeOK
  <2>2. PICK w \in Window : op[o].window = w
    BY <1>0, <1>4 DEF FinishSpawn, TypeOK, OpState
  <2>3. p \in Unborn /\ StartPane(p)
    BY <1>4 DEF FinishSpawn
  <2>4. /\ proc' \in [Pane -> ProcState] /\ reading' \subseteq Pane
        /\ Born(proc) \subseteq Born(proc') /\ p \in Born(proc') /\ p \notin Born(proc)
    BY <1>0, <2>3, StartPaneFacts
  <2>5. /\ mux' \in Registry
        /\ mux'.tabs = mux.tabs \cup {NewTab} /\ mux'.windows = mux.windows
        /\ mux'.tree = [mux.tree EXCEPT ![NewTab] = {p}]
        /\ mux'.tabsOf = [mux.tabsOf EXCEPT ![w] =
                            IF w \in mux.windows THEN @ \cup {NewTab} ELSE @]
    <3>1. mux \in Registry
      BY <1>0 DEF TypeOK
    <3>2. mux' = [mux EXCEPT !.panes = @ \cup {p},
                             !.tabs = @ \cup {NewTab},
                             !.tree[NewTab] = {p},
                             !.tabsOf[w] = IF w \in mux.windows THEN @ \cup {NewTab} ELSE @]
      BY <1>4, <2>2 DEF FinishSpawn
    <3> QED BY <2>1, <3>1, <3>2 DEF Registry
  <2>51. madeTabs' = madeTabs \cup {NewTab} /\ madeWindows' = madeWindows
    BY <1>4 DEF FinishSpawn
  <2>6. TypeOK'
    <3>1. queue \in Seq(Task) /\ Return(o, queue)
      BY <1>0, <1>4 DEF FinishSpawn, TypeOK
    <3>2. /\ op' \in [Op -> OpState] /\ queue' \in Seq(Task)
          /\ activities' \subseteq Op \X {"caller", "builder"}
      BY <1>0, <3>1, ReturnType
    <3>3. /\ madeTabs' \subseteq Tab /\ madeWindows' \subseteq Window /\ quit' \in BOOLEAN
      BY <1>0, <1>4, <2>1 DEF FinishSpawn, TypeOK
    <3> QED BY <2>4, <2>5, <3>2, <3>3 DEF TypeOK, ProcState
  <2>7. \A t \in Tab : mux'.tree[t] = IF t = NewTab THEN {p} ELSE mux.tree[t]
    BY <1>0, <2>5 DEF TypeOK, Registry
  <2>8. \A v \in Window : mux'.tabsOf[v] =
          IF v = w /\ w \in mux.windows THEN mux.tabsOf[v] \cup {NewTab} ELSE mux.tabsOf[v]
    BY <1>0, <2>5 DEF TypeOK, Registry
  <2>9. \A t \in Tab : p \notin mux.tree[t]
    BY <1>0, <2>4 DEF Good, Allocated
  <2>10. \A v \in Window : NewTab \notin mux.tabsOf[v]
    BY <1>0, <2>1 DEF Good, Allocated, Known
  <2>11. Disjoint(mux')
    <3>1. \A t, u \in Tab : t # u => mux'.tree[t] \cap mux'.tree[u] = {}
      BY <1>0, <2>7, <2>9 DEF Good, Disjoint
    <3>2. \A u, v \in Window : u # v => mux'.tabsOf[u] \cap mux'.tabsOf[v] = {}
      BY <1>0, <2>8, <2>10 DEF Good, Disjoint
    <3> QED BY <3>1, <3>2 DEF Disjoint
  <2>12. Known(mux')
    BY <1>0, <2>5, <2>8 DEF Good, Known
  <2>13. Allocated(mux', Born(proc'), madeTabs', madeWindows')
    BY <1>0, <2>4, <2>5, <2>51, <2>7 DEF Good, Allocated
  <2>14. Good(mux, Born(proc), madeTabs, madeWindows)'
    BY <2>5, <2>11, <2>12, <2>13 DEF Good, Born, Disjoint, Known, Allocated
  <2> QED BY <2>6, <2>14 DEF Inv
<1> QED BY <1>1, <1>2, <1>3, <1>4

LEMMA AddPaneGood ==
  ASSUME NEW m, NEW born, NEW ts, NEW ws, Good(m, born, ts, ws), NEW p \in Pane
  PROVE  LET n == [m EXCEPT !.panes = @ \cup {p}]
         IN Good(n, born, ts, ws) /\ n.tree = m.tree
<1> DEFINE n == [m EXCEPT !.panes = @ \cup {p}]
<1>1. /\ n \in Registry /\ n.tabs = m.tabs /\ n.windows = m.windows
      /\ n.tree = m.tree /\ n.tabsOf = m.tabsOf
  BY DEF Good, Registry
<1> HIDE DEF n
<1>2. Good(n, born, ts, ws)
  BY <1>1 DEF Good, Disjoint, Known, Allocated
<1> QED BY <1>1, <1>2 DEF n

LEMMA SplitInv ==
  ASSUME Inv,
         \/ \E o \in Op, t \in Tab, p \in Pane : \E held \in {{}, {<<o, "caller">>}} :
              StartSplit(o, t, p, held)
         \/ \E o \in Op, p \in Pane, fits \in BOOLEAN : FinishSplit(o, p, fits)
  PROVE  Inv'
<1>0. TypeOK /\ Good(mux, Born(proc), madeTabs, madeWindows)
  BY DEF Inv
<1>1. ASSUME NEW o \in Op, NEW t \in Tab, NEW p \in Pane,
             NEW held \in {{}, {<<o, "caller">>}}, StartSplit(o, t, p, held)
      PROVE  Inv'
  <2>1. op' \in [Op -> OpState]
    BY <1>0, <1>1 DEF StartSplit, TypeOK, OpState
  <2>2. activities' \subseteq Op \X {"caller", "builder"}
    BY <1>0, <1>1 DEF StartSplit, TypeOK
  <2>3. TypeOK'
    BY <1>0, <1>1, <2>1, <2>2 DEF StartSplit, TypeOK
  <2> QED BY <1>0, <1>1, <2>3 DEF StartSplit, Inv
<1>2. ASSUME NEW o \in Op, NEW p \in Pane, NEW fits \in BOOLEAN, FinishSplit(o, p, fits)
      PROVE  Inv'
  <2>1. /\ p \in Unborn /\ StartPane(p) /\ Return(o, queue)
        /\ madeTabs' = madeTabs /\ madeWindows' = madeWindows /\ quit' = quit
        /\ op[o].pc = "splitting"
    BY <1>2 DEF FinishSplit
  <2>2. PICK t \in Tab, target \in Pane : op[o].tab = t /\ op[o].pane = target
    BY <1>0, <2>1 DEF TypeOK, OpState
  <2>3. mux' = InsertBeside([mux EXCEPT !.panes = @ \cup {p}], t, target, p, fits)
    BY <1>2, <2>2 DEF FinishSplit
  <2>4. /\ proc' \in [Pane -> ProcState] /\ reading' \subseteq Pane
        /\ Born(proc) \subseteq Born(proc') /\ p \in Born(proc') /\ p \notin Born(proc)
    BY <1>0, <2>1, StartPaneFacts
  <2>5. PICK m : m = [mux EXCEPT !.panes = @ \cup {p}]
    OBVIOUS
  <2>6. Good(m, Born(proc), madeTabs, madeWindows) /\ m.tree = mux.tree
    BY <1>0, <2>5, AddPaneGood
  <2>7. \A u \in Tab : p \notin m.tree[u]
    BY <2>4, <2>6 DEF Good, Allocated
  <2>8. Good(m, Born(proc'), madeTabs, madeWindows)
    BY <2>4, <2>6, GoodGrows
  <2>9. Good(mux', Born(proc'), madeTabs', madeWindows')
    BY <2>1, <2>3, <2>4, <2>5, <2>7, <2>8, InsertGood
  <2>10. TypeOK'
    <3>1. queue \in Seq(Task)
      BY <1>0 DEF TypeOK
    <3>2. /\ op' \in [Op -> OpState] /\ queue' \in Seq(Task)
          /\ activities' \subseteq Op \X {"caller", "builder"}
      BY <1>0, <2>1, <3>1, ReturnType
    <3>3. mux' \in Registry
      BY <2>9 DEF Good
    <3> QED BY <1>0, <2>1, <2>4, <3>2, <3>3 DEF TypeOK, ProcState
  <2>11. Good(mux, Born(proc), madeTabs, madeWindows)'
    BY <2>9 DEF Good, Born, Disjoint, Known, Allocated
  <2> QED BY <2>10, <2>11 DEF Inv
<1> QED BY <1>1, <1>2

\* Tab::remove_pane leaves the pane in no tab at all.
LEMMA TakenGone ==
  ASSUME NEW m, NEW born, NEW ts, NEW ws, Good(m, born, ts, ws),
         NEW s \in Tab, NEW p \in m.tree[s]
  PROVE  /\ \A u \in Tab : p \notin TakePane(m, s, p).tree[u]
         /\ p \in Pane /\ p \in born
<1>1. m \in Registry /\ Disjoint(m) /\ Allocated(m, born, ts, ws)
  BY DEF Good
<1>2. \A u \in Tab :
        TakePane(m, s, p).tree[u] = IF u = s THEN m.tree[u] \ {p} ELSE m.tree[u]
  BY <1>1 DEF TakePane, Registry
<1>3. \A u \in Tab : u # s => p \notin m.tree[u]
  BY <1>1 DEF Disjoint
<1>4. p \in Pane /\ p \in born
  BY <1>1 DEF Registry, Allocated
<1> QED BY <1>2, <1>3, <1>4

LEMMA MovedGood ==
  ASSUME NEW m, NEW born, NEW ts, NEW ws, Good(m, born, ts, ws),
         NEW s \in Tab, NEW p \in m.tree[s], NEW w \in Window, w \in m.windows,
         NewTab \in Tab, NewTab \notin ts,
         NEW q \in Seq(Task), NEW busy \in BOOLEAN, NEW fits \in BOOLEAN,
         NEW x \in Moved(m, s, p, w, q, busy, fits)
  PROVE  Good(x.mux, born, ts \cup {NewTab}, ws) /\ x.queue \in Seq(Task)
<1>1. Good(TakePane(m, s, p), born, ts, ws)
  BY TakePaneGood
<1>2. PICK taken : taken = TakePane(m, s, p)
  OBVIOUS
<1>3. PICK moved : moved = InNewTab(taken, p, w)
  OBVIOUS
<1>4. Good(taken, born, ts \cup {NewTab}, ws)
  BY <1>1, <1>2, GoodGrows
<1>5. Good(moved, born, ts \cup {NewTab}, ws)
  <2>1. (\A u \in Tab : p \notin taken.tree[u]) /\ p \in Pane /\ p \in born
    BY <1>2, TakenGone
  <2>2. taken.windows = m.windows
    BY <1>2, TakePaneFacts DEF Good
  <2>3. Good(taken, born, ts, ws) /\ w \in taken.windows
    BY <1>1, <1>2, <2>2
  <2> QED BY <1>3, <2>1, <2>3, InNewTabGood
<1>6. CASE ~fits
  <2>1. x = [mux |-> taken, queue |-> q]
    BY <1>2, <1>6 DEF Moved
  <2> QED BY <1>4, <2>1
<1>7. CASE fits /\ DeadTab(moved, proc, s)
  <2>1. x \in Prunes(RemoveTabs(moved, {s}), proc, q, busy)
    BY <1>2, <1>3, <1>7 DEF Moved
  <2>2. Good(RemoveTabs(moved, {s}), born, ts \cup {NewTab}, ws)
    BY <1>5, RemoveTabsGood
  <2> QED BY <2>1, <2>2, PrunesGood
<1>8. CASE fits /\ ~DeadTab(moved, proc, s)
  <2>1. x = [mux |-> moved, queue |-> q]
    BY <1>2, <1>3, <1>8 DEF Moved
  <2> QED BY <1>5, <2>1
<1> QED BY <1>6, <1>7, <1>8

\* Enough for a step that neither starts nor ends a request.
LEMMA OutcomeInv ==
  ASSUME Inv,
         Good(mux', Born(proc), madeTabs', madeWindows'),
         queue' \in Seq(Task),
         proc' \in [Pane -> ProcState], Born(proc') = Born(proc),
         reading' \subseteq Pane,
         madeTabs' \subseteq Tab, madeWindows' \subseteq Window,
         UNCHANGED <<activities, op>>, quit' \in BOOLEAN
  PROVE  Inv'
<1>1. TypeOK'
  BY DEF Inv, TypeOK, ProcState, Good
<1>2. Good(mux', Born(proc'), madeTabs', madeWindows')
  OBVIOUS
<1>3. Good(mux, Born(proc), madeTabs, madeWindows)'
  BY <1>2 DEF Good, Born, Disjoint, Known, Allocated
<1> QED BY <1>1, <1>3 DEF Inv

\* A window that is opened and lists nothing yet.
LEMMA OpenedGood ==
  ASSUME NEW m, NEW born, NEW ts, NEW ws, Good(m, born, ts, ws), NEW w \in Window
  PROVE  LET n == [m EXCEPT !.windows = @ \cup {w}]
         IN Good(n, born, ts, ws \cup {w}) /\ n.tree = m.tree /\ w \in n.windows
<1> DEFINE n == [m EXCEPT !.windows = @ \cup {w}]
<1>1. /\ n \in Registry /\ n.tabs = m.tabs /\ n.windows = m.windows \cup {w}
      /\ n.tree = m.tree /\ n.tabsOf = m.tabsOf
  BY DEF Good, Registry
<1> HIDE DEF n
<1>2. Good(n, born, ts, ws \cup {w})
  BY <1>1 DEF Good, Disjoint, Known, Allocated
<1> QED BY <1>1, <1>2 DEF n

LEMMA MoveInv ==
  ASSUME Inv, Move
  PROVE  Inv'
<1>0. /\ Good(mux, Born(proc), madeTabs, madeWindows)
      /\ queue \in Seq(Task) /\ proc \in [Pane -> ProcState] /\ reading \subseteq Pane
      /\ madeTabs \subseteq Tab /\ madeWindows \subseteq Window /\ quit \in BOOLEAN
      /\ Busy \in BOOLEAN
  BY DEF Inv, TypeOK, ProcState, Busy
<1>1. ASSUME NEW s \in Tab, NEW p \in Pane, NEW t \in Tab, NEW target \in Pane,
             NEW fits \in BOOLEAN, MovePane(t, target, s, p, fits)
      PROVE  Inv'
  <2>1. p \in mux.tree[s]
    BY <1>1 DEF MovePane
  <2>2. PICK taken : taken = TakePane(mux, s, p)
    OBVIOUS
  <2>3. /\ Good(taken, Born(proc), madeTabs, madeWindows)
        /\ \A u \in Tab : p \notin taken.tree[u]
        /\ p \in Born(proc)
    BY <1>0, <2>1, <2>2, TakePaneGood, TakenGone
  <2>4. CASE DeadTab(taken, proc, s)
    <3>1. PICK x \in Prunes(RemoveTabs(taken, {s}), proc, queue, Busy) :
            mux' = InsertBeside(x.mux, t, target, p, fits) /\ queue' = x.queue
      BY <1>1, <2>2, <2>4 DEF MovePane
    <3>2. PICK m : m = RemoveTabs(taken, {s})
      OBVIOUS
    <3>3. Good(m, Born(proc), madeTabs, madeWindows) /\ Within(m, taken)
      BY <2>3, <3>2, RemoveTabsGood
    <3>4. /\ Good(x.mux, Born(proc), madeTabs, madeWindows) /\ Within(x.mux, m)
          /\ x.queue \in Seq(Task)
      BY <1>0, <3>1, <3>2, <3>3, PrunesGood
    <3>5. \A u \in Tab : p \notin x.mux.tree[u]
      BY <2>3, <3>3, <3>4 DEF Within
    <3>6. Good(mux', Born(proc), madeTabs, madeWindows)
      BY <2>3, <3>1, <3>4, <3>5, InsertGood
    <3> QED BY <1>0, <1>1, <3>1, <3>4, <3>6, OutcomeInv DEF MovePane
  <2>5. CASE ~DeadTab(taken, proc, s)
    <3>1. mux' = InsertBeside(taken, t, target, p, fits) /\ queue' = queue
      BY <1>1, <2>2, <2>5 DEF MovePane
    <3>2. Good(mux', Born(proc), madeTabs, madeWindows)
      BY <2>3, <3>1, InsertGood
    <3> QED BY <1>0, <1>1, <3>1, <3>2, OutcomeInv DEF MovePane
  <2> QED BY <2>4, <2>5
<1>2. ASSUME NEW s \in Tab, NEW p \in Pane, NEW w \in Window, NEW fits \in BOOLEAN,
             MoveToNewTab(s, p, w, fits)
      PROVE  Inv'
  <2>1. NewTab \in Tab /\ NewTab \notin madeTabs
    BY <1>0, <1>2, NewIdFacts DEF MoveToNewTab, CanMoveToNewTab
  <2>2. p \in mux.tree[s] /\ w \in mux.windows
    BY <1>2 DEF MoveToNewTab, CanMoveToNewTab
  <2>3. PICK x \in Moved(mux, s, p, w, queue, Busy, fits) : mux' = x.mux /\ queue' = x.queue
    BY <1>2 DEF MoveToNewTab
  <2>4. Good(mux', Born(proc), madeTabs \cup {NewTab}, madeWindows) /\ queue' \in Seq(Task)
    BY <1>0, <2>1, <2>2, <2>3, MovedGood
  <2>5. /\ madeTabs' = madeTabs \cup {NewTab} /\ madeWindows' = madeWindows
        /\ reading' \subseteq Pane /\ UNCHANGED <<proc, activities, op, quit>>
    BY <1>0, <1>2 DEF MoveToNewTab
  <2> QED BY <1>0, <2>1, <2>4, <2>5, OutcomeInv
<1>3. ASSUME NEW s \in Tab, NEW p \in Pane, NEW fits \in BOOLEAN, MoveToNewWindow(s, p, fits)
      PROVE  Inv'
  <2>1. /\ NewTab \in Tab /\ NewTab \notin madeTabs
        /\ NewWindow \in Window /\ NewWindow \notin madeWindows
    BY <1>0, <1>3, NewIdFacts DEF MoveToNewWindow, CanMoveToNewTab
  <2>2. PICK opened : opened = [mux EXCEPT !.windows = @ \cup {NewWindow}]
    OBVIOUS
  <2>3. /\ Good(opened, Born(proc), madeTabs, madeWindows \cup {NewWindow})
        /\ opened.tree = mux.tree /\ NewWindow \in opened.windows
    BY <1>0, <2>1, <2>2, OpenedGood
  <2>4. p \in opened.tree[s]
    BY <1>3, <2>3 DEF MoveToNewWindow, CanMoveToNewTab
  <2>5. PICK x \in Moved(opened, s, p, NewWindow, queue, TRUE, fits) :
          mux' = x.mux /\ queue' = x.queue \o <<PruneTask>>
    BY <1>3, <2>2 DEF MoveToNewWindow
  <2>6. /\ Good(mux', Born(proc), madeTabs \cup {NewTab}, madeWindows \cup {NewWindow})
        /\ x.queue \in Seq(Task)
    BY <1>0, <2>1, <2>3, <2>4, <2>5, MovedGood
  <2>7. queue' \in Seq(Task)
    BY <2>5, <2>6, TaskType
  <2>8. /\ madeTabs' = madeTabs \cup {NewTab} /\ madeWindows' = madeWindows \cup {NewWindow}
        /\ reading' \subseteq Pane /\ UNCHANGED <<proc, activities, op, quit>>
    BY <1>0, <1>3 DEF MoveToNewWindow
  <2> QED BY <1>0, <2>1, <2>6, <2>7, <2>8, OutcomeInv
<1>4. Resizes \subseteq BOOLEAN
  BY DEF Resizes
<1> QED BY <1>1, <1>2, <1>3, <1>4 DEF Move

LEMMA DetachedGood ==
  ASSUME NEW m, NEW born, NEW ts, NEW ws, Good(m, born, ts, ws), NEW k
  PROVE  Good(Detached(m, k), born, ts, ws)
<1>1. Good(Swept(m, k), born, ts, ws)
  BY SweptGood
<1>2. PICK n : n = Swept(m, k)
  OBVIOUS
<1>3. Good(RemovePanes(n, Remote), born, ts, ws)
  BY <1>1, <1>2, RemovePanesGood
<1> QED BY <1>2, <1>3 DEF Detached

LEMMA SweepType ==
  ASSUME NEW m, NEW ps \in SUBSET Pane, NEW r \in Sweeps(m, ps), NEW q \in Seq(Task)
  PROVE  q \o Post(r # {}, RemoveTask(r)) \in Seq(Task)
<1>1. r \in SUBSET Pane
  BY DEF Sweeps
<1>2. RemoveTask(r) \in Task
  BY <1>1, TaskType
<1>3. (r # {}) \in BOOLEAN
  OBVIOUS
<1> QED BY <1>2, <1>3, PostType

\* Closing a pane, a tab or a window and detaching a domain all end in a prune
\* of a good registry.
LEMMA ClosePrunes ==
  ASSUME Inv,
         \/ \E p \in Pane : KillPane(p)
         \/ \E t \in Tab : CloseTab(t)
         \/ \E w \in Window : CloseWindow(w)
         \/ DetachDomain
  PROVE  /\ \E m \in Registry, q \in Seq(Task) :
              Good(m, Born(proc), madeTabs, madeWindows) /\ PruneFrom(m, proc', q)
         /\ proc' \in [Pane -> ProcState] /\ Born(proc') = Born(proc)
         /\ UNCHANGED <<reading, activities, op, madeTabs, madeWindows, quit>>
<1> DEFINE Pruning == \E m \in Registry, q \in Seq(Task) :
                        Good(m, Born(proc), madeTabs, madeWindows) /\ PruneFrom(m, proc', q)
<1>0. /\ Good(mux, Born(proc), madeTabs, madeWindows)
      /\ queue \in Seq(Task) /\ proc \in [Pane -> ProcState]
      /\ Remote \in SUBSET Pane
  BY RemoteAssumption DEF Inv, TypeOK, ProcState
<1>1. ASSUME NEW m, NEW q \in Seq(Task),
             Good(m, Born(proc), madeTabs, madeWindows), PruneFrom(m, proc', q)
      PROVE  Pruning
  BY <1>1 DEF Good
<1>2. ASSUME NEW p \in Pane, KillPane(p)
      PROVE  /\ Pruning /\ \E ps : proc' = Killed(proc, ps)
             /\ UNCHANGED <<reading, activities, op, madeTabs, madeWindows, quit>>
  <2>1. PICK n : n = RemovePanes(mux, {p})
    OBVIOUS
  <2>2. Good(n, Born(proc), madeTabs, madeWindows)
    BY <1>0, <2>1, RemovePanesGood
  <2>3. PruneFrom(n, proc', queue)
        /\ proc' = Killed(proc, {p} \cap mux.panes)
        /\ UNCHANGED <<reading, activities, op, madeTabs, madeWindows, quit>>
    BY <1>2, <2>1 DEF KillPane, RemovePane
  <2> HIDE DEF Pruning
  <2> QED BY <1>0, <1>1, <2>2, <2>3
<1>3. ASSUME NEW t \in Tab, CloseTab(t)
      PROVE  /\ Pruning /\ \E ps : proc' = Killed(proc, ps)
             /\ UNCHANGED <<reading, activities, op, madeTabs, madeWindows, quit>>
  <2>1. PICK n : n = RemoveTabs(mux, {t})
    OBVIOUS
  <2>2. Good(n, Born(proc), madeTabs, madeWindows)
    BY <1>0, <2>1, RemoveTabsGood
  <2>3. PruneFrom(n, proc', queue)
        /\ proc' = Killed(proc, mux.tree[t] \cap mux.panes)
        /\ UNCHANGED <<reading, activities, op, madeTabs, madeWindows, quit>>
    BY <1>3, <2>1 DEF CloseTab
  <2> HIDE DEF Pruning
  <2> QED BY <1>0, <1>1, <2>2, <2>3
<1>4. ASSUME NEW w \in Window, CloseWindow(w)
      PROVE  /\ Pruning /\ \E ps : proc' = Killed(proc, ps)
             /\ UNCHANGED <<reading, activities, op, madeTabs, madeWindows, quit>>
  <2>1. PICK gone : gone = RemoveWindows(mux, {w})
    OBVIOUS
  <2>2. Good(gone, Born(proc), madeTabs, madeWindows)
    BY <1>0, <2>1, RemoveWindowsGood
  <2>3. PICK ts : ts = mux.tabsOf[w]
    OBVIOUS
  <2>4. /\ proc' = Killed(proc, UNION {mux.tree[t] : t \in ts} \cap mux.panes)
        /\ UNCHANGED <<reading, activities, op, madeTabs, madeWindows, quit>>
    BY <1>4, <2>3 DEF CloseWindow
  <2>5. \/ \E k \in Sweeps(gone, Remote) :
             PruneFrom(RemoveTabs(Detached(gone, k), ts), proc',
                       queue \o Post(k # {}, RemoveTask(k)))
        \/ PruneFrom(RemoveTabs(gone, ts), proc', queue)
    BY <1>4, <2>1, <2>3 DEF CloseWindow
  <2>6. ASSUME NEW k \in Sweeps(gone, Remote),
               PruneFrom(RemoveTabs(Detached(gone, k), ts), proc',
                         queue \o Post(k # {}, RemoveTask(k)))
        PROVE  Pruning
    <3>1. PICK d : d = Detached(gone, k)
      OBVIOUS
    <3>2. Good(d, Born(proc), madeTabs, madeWindows)
      BY <2>2, <3>1, DetachedGood
    <3>3. PICK n : n = RemoveTabs(d, ts)
      OBVIOUS
    <3>4. Good(n, Born(proc), madeTabs, madeWindows)
      BY <3>2, <3>3, RemoveTabsGood
    <3>5. PICK q \in Seq(Task) : q = queue \o Post(k # {}, RemoveTask(k))
      BY <1>0, SweepType
    <3>6. PruneFrom(n, proc', q)
      BY <2>6, <3>1, <3>3, <3>5
    <3> HIDE DEF Pruning
    <3> QED BY <1>1, <3>4, <3>6
  <2>7. ASSUME PruneFrom(RemoveTabs(gone, ts), proc', queue)
        PROVE  Pruning
    <3>1. PICK n : n = RemoveTabs(gone, ts)
      OBVIOUS
    <3>2. Good(n, Born(proc), madeTabs, madeWindows)
      BY <2>2, <3>1, RemoveTabsGood
    <3> HIDE DEF Pruning
    <3> QED BY <1>0, <1>1, <2>7, <3>1, <3>2
  <2> HIDE DEF Pruning
  <2>8. \E ps : proc' = Killed(proc, ps)
    BY <2>4
  <2> QED BY <2>4, <2>5, <2>6, <2>7, <2>8
<1>5. ASSUME DetachDomain
      PROVE  Pruning /\ UNCHANGED <<proc, reading, activities, op, madeTabs, madeWindows, quit>>
  <2>1. UNCHANGED <<proc, reading, activities, op, madeTabs, madeWindows, quit>>
    BY <1>5 DEF DetachDomain
  <2>2. PICK k \in Sweeps(mux, Remote) :
          PruneFrom(Detached(mux, k), proc, queue \o Post(k # {}, RemoveTask(k)))
    BY <1>5 DEF DetachDomain
  <2>3. PICK d : d = Detached(mux, k)
    OBVIOUS
  <2>4. Good(d, Born(proc), madeTabs, madeWindows)
    BY <1>0, <2>3, DetachedGood
  <2>5. PICK q \in Seq(Task) : q = queue \o Post(k # {}, RemoveTask(k))
    BY <1>0, SweepType
  <2>6. PruneFrom(d, proc', q)
    BY <2>1, <2>2, <2>3, <2>5
  <2> HIDE DEF Pruning
  <2> QED BY <1>1, <2>1, <2>4, <2>6
<1>6. ASSUME NEW ps, proc' = Killed(proc, ps)
      PROVE  proc' \in [Pane -> ProcState] /\ Born(proc') = Born(proc)
  BY <1>0, <1>6, KilledFacts
<1> HIDE DEF Pruning
<1>7. Pruning /\ UNCHANGED <<reading, activities, op, madeTabs, madeWindows, quit>>
  BY <1>2, <1>3, <1>4, <1>5
<1>8. proc' \in [Pane -> ProcState] /\ Born(proc') = Born(proc)
  BY <1>0, <1>2, <1>3, <1>4, <1>5, <1>6
<1> QED BY <1>7, <1>8 DEF Pruning

LEMMA CloseInv ==
  ASSUME Inv, Close
  PROVE  Inv'
<1>0. /\ Good(mux, Born(proc), madeTabs, madeWindows)
      /\ queue \in Seq(Task) /\ proc \in [Pane -> ProcState] /\ reading \subseteq Pane
      /\ madeTabs \subseteq Tab /\ madeWindows \subseteq Window /\ quit \in BOOLEAN
  BY DEF Inv, TypeOK, ProcState
<1>1. ASSUME NEW t \in Tab, NEW p \in Pane, ClosePane(t, p)
      PROVE  Inv'
  <2>1. mux' = TakePane(mux, t, p) /\ queue' = Append(queue, RemoveTask({p}))
        /\ UNCHANGED <<proc, reading, activities, op, madeTabs, madeWindows, quit>>
    BY <1>1 DEF ClosePane
  <2>2. Good(mux', Born(proc), madeTabs, madeWindows)
    BY <1>0, <2>1, TakePaneGood
  <2>3. queue' \in Seq(Task)
    BY <1>0, <2>1, TaskType
  <2> QED BY <1>0, <2>1, <2>2, <2>3, OutcomeInv
<1>2. ASSUME \/ \E p \in Pane : KillPane(p)
             \/ \E t \in Tab : CloseTab(t)
             \/ \E w \in Window : CloseWindow(w)
             \/ DetachDomain
      PROVE  Inv'
  <2>1. PICK m \in Registry, q \in Seq(Task) :
          Good(m, Born(proc), madeTabs, madeWindows) /\ PruneFrom(m, proc', q)
    BY <1>2, ClosePrunes
  <2>2. /\ proc' \in [Pane -> ProcState] /\ Born(proc') = Born(proc)
        /\ UNCHANGED <<reading, activities, op, madeTabs, madeWindows, quit>>
    BY <1>2, ClosePrunes
  <2>3. Good(mux', Born(proc), madeTabs, madeWindows) /\ queue' \in Seq(Task)
    BY <2>1, PruneFromGood
  <2> QED BY <1>0, <2>2, <2>3, OutcomeInv
<1> QED BY <1>1, <1>2 DEF Close

LEMMA PaneThreadInv ==
  ASSUME Inv, PaneThread
  PROVE  Inv'
<1>0. /\ Good(mux, Born(proc), madeTabs, madeWindows)
      /\ queue \in Seq(Task) /\ proc \in [Pane -> ProcState] /\ reading \subseteq Pane
      /\ madeTabs \subseteq Tab /\ madeWindows \subseteq Window /\ quit \in BOOLEAN
  BY DEF Inv, TypeOK, ProcState
<1>1. ASSUME NEW p \in Pane, NEW state \in {"dead", "held"}, ChildExit(p, state)
      PROVE  Inv'
  <2>1. /\ proc[p] = "running" /\ proc' = [proc EXCEPT ![p] = state]
        /\ queue' = Append(queue, PruneTask)
        /\ UNCHANGED <<mux, reading, activities, op, madeTabs, madeWindows, quit>>
    BY <1>1 DEF ChildExit
  <2>2. proc' \in [Pane -> ProcState]
    BY <1>0, <2>1 DEF ProcState
  <2>3. \A q \in Pane : proc'[q] # "unborn" <=> proc[q] # "unborn"
    BY <1>0, <2>1
  <2>4. Born(proc') = Born(proc)
    BY <2>3 DEF Born
  <2>5. queue' \in Seq(Task)
    BY <1>0, <2>1, TaskType
  <2> QED BY <1>0, <2>1, <2>2, <2>4, <2>5, OutcomeInv
<1>2. ASSUME NEW p \in Pane, NEW task \in {PruneTask, RemoveTask({p})}, ReaderEof(p, task)
      PROVE  Inv'
  <2>1. /\ reading' = reading \ {p} /\ queue' = Append(queue, task)
        /\ UNCHANGED <<mux, proc, activities, op, madeTabs, madeWindows, quit>>
    BY <1>2 DEF ReaderEof
  <2>2. queue' \in Seq(Task)
    BY <1>0, <2>1, TaskType
  <2> QED BY <1>0, <2>1, <2>2, OutcomeInv
<1> QED BY <1>1, <1>2 DEF PaneThread

LEMMA RunTaskInv ==
  ASSUME Inv, RunTask
  PROVE  Inv'
<1>0. /\ Good(mux, Born(proc), madeTabs, madeWindows)
      /\ queue \in Seq(Task) /\ proc \in [Pane -> ProcState] /\ reading \subseteq Pane
      /\ madeTabs \subseteq Tab /\ madeWindows \subseteq Window /\ quit \in BOOLEAN
  BY DEF Inv, TypeOK, ProcState
<1>1. queue # <<>> => Tail(queue) \in Seq(Task)
  BY <1>0
<1>2. CASE RunPrune
  <2>1. PruneFrom(mux, proc, Tail(queue)) /\ queue # <<>>
        /\ UNCHANGED <<proc, reading, activities, op, madeTabs, madeWindows, quit>>
    BY <1>2 DEF RunPrune
  <2>2. Good(mux', Born(proc), madeTabs, madeWindows) /\ queue' \in Seq(Task)
    BY <1>0, <1>1, <2>1, PruneFromGood
  <2> QED BY <1>0, <2>1, <2>2, OutcomeInv
<1>3. CASE RunRemove
  <2>1. PICK ps : ps = Head(queue).panes
    OBVIOUS
  <2>2. PICK n : n = RemovePanes(mux, ps)
    OBVIOUS
  <2>3. PruneFrom(n, proc', Tail(queue)) /\ queue # <<>>
        /\ proc' = Killed(proc, ps \cap mux.panes)
        /\ UNCHANGED <<reading, activities, op, madeTabs, madeWindows, quit>>
    BY <1>3, <2>1, <2>2 DEF RunRemove, RemovePane
  <2>4. Good(n, Born(proc), madeTabs, madeWindows)
    BY <1>0, <2>2, RemovePanesGood
  <2>5. Good(mux', Born(proc), madeTabs, madeWindows) /\ queue' \in Seq(Task)
    BY <1>1, <2>3, <2>4, PruneFromGood
  <2> QED BY <1>0, <2>3, <2>5, KilledFacts, OutcomeInv
<1>4. CASE RunQuit
  <2>1. /\ queue # <<>> /\ queue' = Tail(queue) /\ quit' = (activities = {})
        /\ UNCHANGED <<mux, proc, reading, activities, op, madeTabs, madeWindows>>
    BY <1>4 DEF RunQuit
  <2>2. quit' \in BOOLEAN /\ queue' \in Seq(Task)
    BY <1>1, <2>1
  <2> QED BY <1>0, <2>1, <2>2, OutcomeInv
<1> QED BY <1>2, <1>3, <1>4 DEF RunTask

LEMMA StepInv == Inv /\ [Next]_vars => Inv'
<1> SUFFICES ASSUME Inv, [Next]_vars PROVE Inv'
  OBVIOUS
<1>1. CASE Request
  BY <1>1, SpawnInv, SplitInv DEF Request
<1>2. CASE \E o \in Op : Finish(o)
  BY <1>2, SpawnInv, SplitInv DEF Finish
<1>3. CASE UNCHANGED vars
  BY <1>3 DEF vars, Inv, TypeOK, Good, Born, Disjoint, Known, Allocated
<1> QED BY <1>1, <1>2, <1>3, MoveInv, CloseInv, PaneThreadInv, RunTaskInv DEF Next

LEMMA InvGives == Inv => TypeOK /\ PaneInOneTab /\ ListedTabsKnown
<1> SUFFICES ASSUME Inv PROVE PaneInOneTab /\ ListedTabsKnown
  BY DEF Inv
<1>1. Good(mux, Born(proc), madeTabs, madeWindows)
  BY DEF Inv
<1>2. ListedTabs(mux) \subseteq mux.tabs
  BY <1>1, ListedFacts
<1> QED BY <1>1, <1>2 DEF Good, Disjoint, Known, PaneInOneTab, ListedTabsKnown

LEMMA InvAlways == Spec => []Inv
<1> QED BY InitInv, StepInv, PTL DEF Spec

\* The registry always has its type; no pane is ever in two tabs, and windows
\* list only tabs the mux knows, each in one window: for any number of panes,
\* requests and queued tasks.
THEOREM RegistryAlwaysGood == Spec => [](TypeOK /\ PaneInOneTab /\ ListedTabsKnown)
<1> QED BY InvAlways, InvGives, PTL

\* The types, for any number of panes, tabs, windows and operations
THEOREM RegistryTyped == Spec => []TypeOK
<1> QED BY RegistryAlwaysGood, PTL

\* Windows list tabs the mux knows, and no tab is listed by two windows, for
\* any number of them.
THEOREM ListedAlwaysKnown == Spec => []ListedTabsKnown
<1> QED BY RegistryAlwaysGood, PTL

-----------------------------------------------------------------------------
(* Pruning spares the living.                                              *)

\* A pane that is not swept, in a listed tab of a good registry, keeps its tab
\* and its window through prune_dead_windows.
LEMMA PrunedSpares ==
  ASSUME NEW m, NEW born, NEW ts, NEW ws, Good(m, born, ts, ws), NEW pr, NEW r,
         NEW w \in m.windows, NEW t \in m.tabsOf[w],
         NEW p \in m.tree[t], p \in m.panes, p \notin r, pr[p] # "dead"
  PROVE  LET n == Pruned(m, pr, r)
         IN p \in n.panes /\ p \in n.tree[t] /\ w \in n.windows /\ t \in n.tabsOf[w]
<1>1. /\ w \in Window /\ t \in Tab /\ t \in m.tabs /\ m \in Registry
  BY DEF Good, Known, Registry
<1>2. PICK s : s = Swept(m, r)
  OBVIOUS
<1>3. PICK n : n = Pruned(m, pr, r)
  OBVIOUS
<1>4. s.tree[t] = IF t \in ListedTabs(m) THEN m.tree[t] \ r ELSE m.tree[t]
  BY <1>1, <1>2 DEF Swept, Registry
<1>5. p \in s.tree[t] /\ ~DeadTab(s, pr, t)
  BY <1>4 DEF DeadTab
<1>6. n.tree = s.tree
  BY <1>1, <1>2, <1>3, PrunedFacts
<1>7. p \in n.panes <=>
        p \in m.panes /\ \A u \in m.tabs : DeadTab(s, pr, u) => p \notin s.tree[u]
  BY <1>1, <1>2, <1>3, PrunedFacts
<1>8. p \in n.panes
  BY <1>7 DEF DeadTab
<1>9. t \in n.tabsOf[w]
  BY <1>1, <1>2, <1>3, <1>5, PrunedFacts
<1>10. w \in n.windows
  BY <1>1, <1>3, <1>9, PrunedFacts
<1> QED BY <1>3, <1>5, <1>6, <1>8, <1>9, <1>10

LEMMA PruneFromSpares ==
  ASSUME NEW m, NEW born, NEW ts, NEW ws, Good(m, born, ts, ws), NEW pr, NEW q,
         PruneFrom(m, pr, q),
         NEW w \in m.windows, NEW t \in m.tabsOf[w],
         NEW p \in m.tree[t], p \in m.panes, pr[p] # "dead"
  PROVE  p \in mux'.panes /\ p \in Shown'
<1>1. PICK x \in Prunes(m, pr, q, Busy) : mux' = x.mux
  BY DEF PruneFrom
<1>2. /\ p \in mux'.panes /\ p \in mux'.tree[t]
      /\ w \in mux'.windows /\ t \in mux'.tabsOf[w]
  <2>1. CASE Busy
    BY <1>1, <2>1 DEF Prunes
  <2>2. CASE ~Busy
    <3>1. PICK r \in Sweeps(m, Prunable(m, pr)) : x.mux = Pruned(m, pr, r)
      BY <2>2 DEF Prunes
    <3>2. p \notin r
      BY DEF Sweeps, Prunable
    <3> QED BY <1>1, <3>1, <3>2, PrunedSpares
  <2> QED BY <2>1, <2>2
<1> QED BY <1>2 DEF Shown, ListedTabs

LEMMA DetachedSpares ==
  ASSUME NEW m \in Registry, NEW k \in Sweeps(m, Remote),
         NEW p \in m.panes, p \notin Remote, NEW t \in Tab, p \in m.tree[t]
  PROVE  LET n == Detached(m, k)
         IN /\ p \in n.panes /\ p \in n.tree[t]
            /\ n.windows = m.windows /\ n.tabsOf = m.tabsOf
<1>1. PICK s : s = Swept(m, k)
  OBVIOUS
<1>2. /\ s \in Registry /\ s.panes = m.panes
      /\ s.windows = m.windows /\ s.tabsOf = m.tabsOf
  BY <1>1, SweptFacts
<1>3. p \in s.tree[t]
  <2>1. p \notin k
    BY DEF Sweeps
  <2> QED BY <1>1, <2>1 DEF Swept, Registry
<1>4. PICK n : n = RemovePanes(s, Remote)
  OBVIOUS
<1>5. /\ n.panes = s.panes \ Remote /\ n.windows = s.windows
      /\ n.tree = s.tree /\ n.tabsOf = s.tabsOf
  BY <1>2, <1>4, RemovePanesFacts
<1>6. n = Detached(m, k)
  BY <1>1, <1>4 DEF Detached
<1> QED BY <1>2, <1>3, <1>5, <1>6

LEMMA SparesStep == Inv /\ (RunPrune \/ DetachDomain) => Living \subseteq (mux.panes \cap Shown)'
<1> SUFFICES ASSUME Inv, RunPrune \/ DetachDomain, NEW p \in Living
             PROVE  p \in mux'.panes /\ p \in Shown'
  OBVIOUS
<1>1. Good(mux, Born(proc), madeTabs, madeWindows) /\ mux \in Registry
  BY DEF Inv, Good
<1>2. p \in mux.panes /\ p \notin Remote /\ proc[p] # "dead"
  BY DEF Living
<1>3. PICK w \in mux.windows : \E t \in mux.tabsOf[w] : p \in mux.tree[t]
  BY DEF Living, Shown, ListedTabs
<1>4. PICK t \in mux.tabsOf[w] : p \in mux.tree[t]
  BY <1>3
<1>5. CASE RunPrune
  <2>1. PruneFrom(mux, proc, Tail(queue))
    BY <1>5 DEF RunPrune
  <2> QED BY <1>1, <1>2, <1>3, <1>4, <2>1, PruneFromSpares
<1>6. CASE DetachDomain
  <2>1. PICK k \in Sweeps(mux, Remote) :
          PruneFrom(Detached(mux, k), proc, queue \o Post(k # {}, RemoveTask(k)))
    BY <1>6 DEF DetachDomain
  <2>2. PICK n : n = Detached(mux, k)
    OBVIOUS
  <2>3. w \in Window /\ t \in Tab
    BY <1>1, <1>3, <1>4 DEF Registry
  <2>4. /\ p \in n.panes /\ p \in n.tree[t]
        /\ w \in n.windows /\ t \in n.tabsOf[w]
    BY <1>1, <1>2, <1>3, <1>4, <2>2, <2>3, DetachedSpares
  <2>5. Good(n, Born(proc), madeTabs, madeWindows)
    BY <1>1, <2>2, DetachedGood
  <2> QED BY <1>2, <2>1, <2>2, <2>4, <2>5, PruneFromSpares
<1> QED BY <1>5, <1>6

\* No prune, and no detaching of a domain, ever takes a living local pane off
\* the screen or out of the mux.
THEOREM LivingSpared == Spec => PruneSparesLiving
<1>1. Inv /\ [Next]_vars =>
        [RunPrune \/ DetachDomain => Living \subseteq (mux.panes \cap Shown)']_vars
  BY SparesStep
<1> QED BY <1>1, InvAlways, PTL DEF Spec, PruneSparesLiving

-----------------------------------------------------------------------------
(* No prune is forgotten.                                                  *)

IsPrune(task) == task.type \in {"prune", "remove"}

LEMMA ComingConcat ==
  ASSUME NEW q \in Seq(Task), NEW e \in Seq(Task), NEW a, PruneComing(q, a)
  PROVE  PruneComing(q \o e, a)
<1>1. CASE a # {}
  BY <1>1 DEF PruneComing
<1>2. ASSUME NEW i \in DOMAIN q, q[i].type \in {"prune", "remove"}
      PROVE  PruneComing(q \o e, a)
  <2>1. i \in DOMAIN (q \o e) /\ (q \o e)[i] = q[i]
    OBVIOUS
  <2> QED BY <1>2, <2>1 DEF PruneComing
<1> QED BY <1>1, <1>2 DEF PruneComing

LEMMA ComingLast ==
  ASSUME NEW q \in Seq(Task), NEW task \in Task, IsPrune(task), NEW a
  PROVE  PruneComing(Append(q, task), a) /\ PruneComing(q \o <<task>>, a)
<1>1. /\ Len(q) + 1 \in DOMAIN Append(q, task)
      /\ Append(q, task)[Len(q) + 1] = task
  OBVIOUS
<1>2. /\ Len(q) + 1 \in DOMAIN (q \o <<task>>)
      /\ (q \o <<task>>)[Len(q) + 1] = task
  OBVIOUS
<1> QED BY <1>1, <1>2 DEF PruneComing, IsPrune

LEMMA TasksPrune ==
  IsPrune(PruneTask) /\ \A r : IsPrune(RemoveTask(r))
BY DEF IsPrune, PruneTask, RemoveTask

\* A prune whose sweep takes no pane leaves nothing to clear away: a pane that
\* stays listed is alive, so no dead tab takes it out of the mux.
LEMMA PrunedTidy ==
  ASSUME NEW m, NEW born, NEW ts, NEW ws, Good(m, born, ts, ws), NEW pr,
         {} \in Sweeps(m, Prunable(m, pr))
  PROVE  ~Untidy(Pruned(m, pr, {}), pr)
<1>0. m \in Registry
  BY DEF Good
<1>1. PICK s : s = Swept(m, {})
  OBVIOUS
<1>2. PICK n : n = Pruned(m, pr, {})
  OBVIOUS
<1>3. s.tree = m.tree
  <2>1. s \in Registry /\ \A t \in Tab : s.tree[t] = m.tree[t]
    BY <1>0, <1>1 DEF Swept, Registry
  <2> QED BY <1>0, <2>1 DEF Registry
<1>4. n \in Registry /\ n.tree = m.tree
  BY <1>0, <1>1, <1>2, <1>3, PrunedFacts
<1>5. \A p : p \in n.panes <=>
        p \in m.panes /\ \A t \in m.tabs : DeadTab(s, pr, t) => p \notin s.tree[t]
  BY <1>0, <1>1, <1>2, PrunedFacts
<1>6. \A w \in Window : \A t \in Tab : t \in n.tabsOf[w] <=>
        t \in m.tabsOf[w] /\ t \in m.tabs /\ ~DeadTab(s, pr, t)
  BY <1>0, <1>1, <1>2, PrunedFacts
<1>7. \A w : w \in n.windows <=> w \in m.windows /\ n.tabsOf[w] # {}
  BY <1>0, <1>2, PrunedFacts
<1>8. \A w \in n.windows : n.tabsOf[w] # {}
  BY <1>7
<1>9. ASSUME NEW t \in ListedTabs(n)
      PROVE  n.tree[t] # {} /\ n.tree[t] \cap Prunable(n, pr) = {}
  <2>1. PICK w \in n.windows : t \in n.tabsOf[w]
    BY <1>9 DEF ListedTabs
  <2>2. w \in Window /\ t \in Tab /\ w \in m.windows
    BY <1>4, <1>7, <2>1 DEF Registry
  <2>3. t \in m.tabsOf[w] /\ t \in m.tabs /\ ~DeadTab(s, pr, t)
    BY <1>6, <2>1, <2>2
  <2>4. n.tree[t] # {}
    BY <1>3, <1>4, <2>3 DEF DeadTab
  <2>5. t \in ListedTabs(m)
    BY <2>2, <2>3 DEF ListedTabs
  <2>6. m.tree[t] \cap Prunable(m, pr) = {}
    BY <2>5 DEF Sweeps
  <2>7. ASSUME NEW p \in n.tree[t], p \in Prunable(n, pr)
        PROVE  FALSE
    <3>1. p \in Pane /\ p \in m.tree[t]
      BY <1>4, <2>7 DEF Prunable
    <3>2. p \in m.panes /\ pr[p] # "dead"
      BY <2>6, <3>1 DEF Prunable
    <3>3. p \notin n.panes
      BY <2>7, <3>2 DEF Prunable
    <3>4. PICK u \in m.tabs : DeadTab(s, pr, u) /\ p \in s.tree[u]
      BY <1>5, <3>2, <3>3
    <3> QED BY <3>2, <3>4 DEF DeadTab
  <2> QED BY <2>4, <2>7
<1> QED BY <1>2, <1>8, <1>9 DEF Untidy

\* Whatever prune_dead_windows leaves behind, a later prune will find.
LEMMA PrunesTidy ==
  ASSUME NEW m, NEW born, NEW ts, NEW ws, Good(m, born, ts, ws),
         NEW pr, NEW q \in Seq(Task), NEW x \in Prunes(m, pr, q, Busy),
         Untidy(x.mux, pr) \/ PruneComing(q, activities)
  PROVE  PruneComing(x.queue, activities)
<1>1. CASE Busy
  BY <1>1 DEF Busy, PruneComing
<1>2. CASE ~Busy
  <2>1. PICK r \in Sweeps(m, Prunable(m, pr)) :
          x = [mux |-> Pruned(m, pr, r),
               queue |-> q \o Post(r # {}, RemoveTask(r))
                           \o Post(Pruned(m, pr, r).panes = {}, QuitTask)]
    BY <1>2 DEF Prunes
  <2>2. RemoveTask(r) \in Task
    BY TaskType DEF Sweeps, Prunable
  <2>3. PICK e : e = q \o Post(r # {}, RemoveTask(r))
    OBVIOUS
  <2>31. e \in Seq(Task)
    <3>1. PICK ps \in SUBSET Pane : ps = Prunable(m, pr)
      BY DEF Prunable
    <3>2. r \in Sweeps(m, ps)
      BY <3>1
    <3> QED BY <2>3, <3>2, SweepType
  <2>4. PICK f : f = Post(Pruned(m, pr, r).panes = {}, QuitTask)
    OBVIOUS
  <2>41. f \in Seq(Task)
    <3>1. f = <<QuitTask>> \/ f = <<>>
      BY <2>4 DEF Post
    <3>2. PICK task \in Task : task = QuitTask
      BY TaskType
    <3>3. <<task>> \in Seq(Task) /\ <<>> \in Seq(Task)
      OBVIOUS
    <3> QED BY <3>1, <3>2, <3>3
  <2>5. x.queue = e \o f /\ x.mux = Pruned(m, pr, r)
    BY <2>1, <2>3, <2>4
  <2>6. PruneComing(e, activities)
    <3>1. CASE r # {}
      <4>1. e = q \o <<RemoveTask(r)>>
        BY <2>3, <3>1 DEF Post
      <4> QED BY <2>2, <4>1, ComingLast, TasksPrune
    <3>2. CASE r = {}
      <4>1. e = q
        BY <2>3, <3>2 DEF Post
      <4>2. ~Untidy(x.mux, pr)
        BY <2>5, <3>2, PrunedTidy
      <4> QED BY <4>1, <4>2
    <3> QED BY <3>1, <3>2
  <2> QED BY <2>31, <2>41, <2>5, <2>6, ComingConcat
<1> QED BY <1>1, <1>2

LEMMA PruneFromTidy ==
  ASSUME NEW m, NEW born, NEW ts, NEW ws, Good(m, born, ts, ws),
         NEW pr, NEW q \in Seq(Task), PruneFrom(m, pr, q), activities' = activities,
         Untidy(mux', pr)
  PROVE  PruneComing(queue', activities')
BY PrunesTidy DEF PruneFrom

\* A request that returns leaves a prune to come, if one was.
LEMMA ReturnComing ==
  ASSUME TypeOK, NEW o \in Op, Return(o, queue), PruneComing(queue, activities)
  PROVE  PruneComing(queue', activities')
<1>0. queue \in Seq(Task)
  BY DEF TypeOK
<1>1. CASE Holding(o) = {}
  <2>1. queue' = queue /\ activities' = activities
    BY <1>0, <1>1 DEF Return, Post
  <2> QED BY <2>1
<1>2. CASE Holding(o) # {}
  <2>1. queue' = queue \o <<PruneTask>>
    BY <1>2 DEF Return, Post
  <2> QED BY <1>0, <2>1, TaskType, TasksPrune, ComingLast
<1> QED BY <1>1, <1>2

\* How an untidy registry is untidy.
LEMMA UntidyWhere ==
  ASSUME NEW m, NEW pr, Untidy(m, pr)
  PROVE  \/ \E w \in m.windows : m.tabsOf[w] = {}
         \/ \E t \in ListedTabs(m) : m.tree[t] = {}
         \/ \E t \in ListedTabs(m) : \E p \in m.tree[t] :
              p \in Pane /\ (pr[p] = "dead" \/ p \notin m.panes)
BY DEF Untidy, Prunable

LEMMA UntidyPane ==
  ASSUME NEW m, NEW pr, NEW t \in ListedTabs(m), NEW p \in m.tree[t], p \in Pane,
         pr[p] = "dead" \/ p \notin m.panes
  PROVE  Untidy(m, pr)
BY DEF Untidy, Prunable

\* A new tab with a fresh pane in it is tidy.
LEMMA SpawnTidy ==
  ASSUME Inv, NEW o \in Op, NEW p \in Pane, FinishSpawn(o, p), Untidy(mux', proc')
  PROVE  Untidy(mux, proc)
<1>0. TypeOK /\ Good(mux, Born(proc), madeTabs, madeWindows)
  BY DEF Inv
<1>1. PICK w \in Window : op[o].window = w
  BY <1>0 DEF FinishSpawn, TypeOK, OpState
<1>2. NewTab \in Tab /\ NewTab \notin madeTabs
  BY <1>0, NewIdFacts DEF FinishSpawn, TypeOK
<1>3. mux \in Registry /\ proc \in [Pane -> ProcState]
  BY <1>0 DEF TypeOK, ProcState
<1>4. mux' = [mux EXCEPT !.panes = @ \cup {p},
                         !.tabs = @ \cup {NewTab},
                         !.tree[NewTab] = {p},
                         !.tabsOf[w] = IF w \in mux.windows THEN @ \cup {NewTab} ELSE @]
  BY <1>1 DEF FinishSpawn
<1>5. /\ mux'.panes = mux.panes \cup {p} /\ mux'.windows = mux.windows
      /\ \A t \in Tab : mux'.tree[t] = IF t = NewTab THEN {p} ELSE mux.tree[t]
      /\ \A v \in Window : mux'.tabsOf[v] =
           IF v = w /\ w \in mux.windows THEN mux.tabsOf[v] \cup {NewTab} ELSE mux.tabsOf[v]
  BY <1>2, <1>3, <1>4 DEF Registry
<1>6. \A q \in Pane : proc'[q] = IF q = p THEN "running" ELSE proc[q]
  BY <1>3 DEF FinishSpawn, StartPane
<1>7. mux.windows \subseteq Window /\ \A v \in Window : mux.tabsOf[v] \subseteq Tab
  BY <1>3 DEF Registry
<1>8. \A t \in ListedTabs(mux') : t \in Tab /\ (t = NewTab \/ t \in ListedTabs(mux))
  <2> SUFFICES ASSUME NEW t \in ListedTabs(mux')
               PROVE  t \in Tab /\ (t = NewTab \/ t \in ListedTabs(mux))
    OBVIOUS
  <2>1. PICK v \in mux'.windows : t \in mux'.tabsOf[v]
    BY DEF ListedTabs
  <2>2. v \in mux.windows /\ v \in Window
    BY <1>5, <1>7, <2>1
  <2>3. t = NewTab \/ t \in mux.tabsOf[v]
    BY <1>5, <2>1, <2>2
  <2>4. t \in mux.tabsOf[v] => t \in ListedTabs(mux) /\ t \in Tab
    BY <1>7, <2>2 DEF ListedTabs
  <2> QED BY <1>2, <2>3, <2>4
<1>9. \A v \in mux'.windows : mux'.tabsOf[v] = {} => mux.tabsOf[v] = {} /\ v \in mux.windows
  BY <1>5, <1>7
<1>10. \A t \in ListedTabs(mux') :
         mux'.tree[t] = {} => t \in ListedTabs(mux) /\ mux.tree[t] = {}
  BY <1>5, <1>8
<1>11. ASSUME NEW t \in ListedTabs(mux'), NEW q \in mux'.tree[t], q \in Pane,
              proc'[q] = "dead" \/ q \notin mux'.panes
       PROVE  Untidy(mux, proc)
  <2>1. q # p
    BY <1>5, <1>6, <1>11
  <2>2. t \in ListedTabs(mux) /\ q \in mux.tree[t]
    BY <1>5, <1>8, <2>1
  <2>3. proc[q] = "dead" \/ q \notin mux.panes
    BY <1>5, <1>6, <1>11, <2>1
  <2> QED BY <1>11, <2>2, <2>3, UntidyPane
<1> QED BY <1>9, <1>10, <1>11, UntidyWhere DEF Untidy

\* So is a fresh pane in an old tab.
LEMMA SplitTidy ==
  ASSUME Inv, NEW o \in Op, NEW p \in Pane, NEW fits \in BOOLEAN,
         FinishSplit(o, p, fits), Untidy(mux', proc')
  PROVE  Untidy(mux, proc)
<1>0. TypeOK /\ mux \in Registry /\ proc \in [Pane -> ProcState]
  BY DEF Inv, TypeOK, ProcState
<1>1. PICK t \in Tab, target \in Pane : op[o].tab = t /\ op[o].pane = target
  BY <1>0 DEF FinishSplit, TypeOK, OpState
<1>2. mux' = InsertBeside([mux EXCEPT !.panes = @ \cup {p}], t, target, p, fits)
  BY <1>1 DEF FinishSplit
<1>3. PICK m : m = [mux EXCEPT !.panes = @ \cup {p}]
  OBVIOUS
<1>4. /\ m \in Registry /\ m.panes = mux.panes \cup {p} /\ m.windows = mux.windows
      /\ m.tree = mux.tree /\ m.tabsOf = mux.tabsOf
  BY <1>0, <1>3 DEF Registry
<1>5. /\ mux'.panes = mux.panes \cup {p} /\ mux'.windows = mux.windows
      /\ mux'.tabsOf = mux.tabsOf
  BY <1>2, <1>3, <1>4 DEF InsertBeside, Registry
<1>6. \A u \in Tab : /\ mux.tree[u] \subseteq mux'.tree[u]
                     /\ mux'.tree[u] \subseteq mux.tree[u] \cup {p}
  BY <1>2, <1>3, <1>4 DEF InsertBeside, Registry
<1>7. \A q \in Pane : proc'[q] = IF q = p THEN "running" ELSE proc[q]
  BY <1>0 DEF FinishSplit, StartPane
<1>8. ListedTabs(mux') = ListedTabs(mux) /\ ListedTabs(mux) \subseteq Tab
  BY <1>0, <1>5 DEF ListedTabs, Registry
<1>9. ASSUME NEW u \in ListedTabs(mux'), NEW q \in mux'.tree[u], q \in Pane,
             proc'[q] = "dead" \/ q \notin mux'.panes
      PROVE  Untidy(mux, proc)
  <2>1. q # p
    BY <1>5, <1>7, <1>9
  <2>2. u \in ListedTabs(mux) /\ q \in mux.tree[u]
    BY <1>6, <1>8, <2>1
  <2>3. proc[q] = "dead" \/ q \notin mux.panes
    BY <1>5, <1>7, <1>9, <2>1
  <2> QED BY <1>9, <2>2, <2>3, UntidyPane
<1>10. \A u \in ListedTabs(mux') : mux'.tree[u] = {} => mux.tree[u] = {}
  BY <1>6, <1>8
<1> QED BY <1>5, <1>8, <1>9, <1>10, UntidyWhere DEF Untidy

\* Inserting a pane makes a registry no less tidy than it and the pane were.
LEMMA InsertUntidy ==
  ASSUME NEW m \in Registry, NEW t \in Tab, NEW target, NEW p \in Pane,
         NEW fits \in BOOLEAN, NEW pr,
         Untidy(InsertBeside(m, t, target, p, fits), pr)
  PROVE  Untidy(m, pr) \/ pr[p] = "dead" \/ p \notin m.panes
<1>1. PICK n : n = InsertBeside(m, t, target, p, fits)
  OBVIOUS
<1>2. n.panes = m.panes /\ n.windows = m.windows /\ n.tabsOf = m.tabsOf
  BY <1>1 DEF InsertBeside, Registry
<1>3. \A u \in Tab : m.tree[u] \subseteq n.tree[u] /\ n.tree[u] \subseteq m.tree[u] \cup {p}
  BY <1>1 DEF InsertBeside, Registry
<1>4. ListedTabs(n) = ListedTabs(m) /\ ListedTabs(m) \subseteq Tab
  BY <1>2 DEF ListedTabs, Registry
<1>5. Untidy(n, pr)
  BY <1>1
<1>6. ASSUME NEW u \in ListedTabs(n), NEW q \in n.tree[u], q \in Pane,
             pr[q] = "dead" \/ q \notin n.panes
      PROVE  Untidy(m, pr) \/ pr[p] = "dead" \/ p \notin m.panes
  <2>1. CASE q = p
    BY <1>2, <1>6, <2>1
  <2>2. CASE q # p
    <3>1. u \in ListedTabs(m) /\ q \in m.tree[u]
      BY <1>3, <1>4, <2>2
    <3> QED BY <1>2, <1>6, <3>1, UntidyPane
  <2> QED BY <2>1, <2>2
<1>7. \A u \in ListedTabs(n) : n.tree[u] = {} => m.tree[u] = {}
  BY <1>3, <1>4
<1> QED BY <1>2, <1>4, <1>5, <1>6, <1>7, UntidyWhere DEF Untidy

\* Taking a pane leaves a registry as tidy as it was, if it leaves its tab one.
LEMMA TakenUntidy ==
  ASSUME NEW m \in Registry, NEW s \in Tab, NEW p, NEW pr,
         TakePane(m, s, p).tree[s] # {}, Untidy(TakePane(m, s, p), pr)
  PROVE  Untidy(m, pr)
<1>1. PICK n : n = TakePane(m, s, p)
  OBVIOUS
<1>2. n.panes = m.panes /\ n.windows = m.windows /\ n.tabsOf = m.tabsOf
  BY <1>1 DEF TakePane, Registry
<1>3. \A u \in Tab : n.tree[u] \subseteq m.tree[u] /\ (u # s => n.tree[u] = m.tree[u])
  BY <1>1 DEF TakePane, Registry
<1>4. ListedTabs(n) = ListedTabs(m) /\ ListedTabs(m) \subseteq Tab
  BY <1>2 DEF ListedTabs, Registry
<1>5. Untidy(n, pr) /\ n.tree[s] # {}
  BY <1>1
<1>6. ASSUME NEW u \in ListedTabs(n), NEW q \in n.tree[u], q \in Pane,
             pr[q] = "dead" \/ q \notin n.panes
      PROVE  Untidy(m, pr)
  <2>1. u \in ListedTabs(m) /\ q \in m.tree[u]
    BY <1>3, <1>4
  <2> QED BY <1>2, <1>6, <2>1, UntidyPane
<1>7. \A u \in ListedTabs(n) : n.tree[u] = {} => m.tree[u] = {}
  BY <1>3, <1>4, <1>5
<1> QED BY <1>2, <1>4, <1>5, <1>6, <1>7, UntidyWhere DEF Untidy

LEMMA InNewTabUntidy ==
  ASSUME NEW m \in Registry, NEW p \in Pane, NEW w \in Window, NewTab \in Tab, NEW pr,
         w \in m.windows, Untidy(InNewTab(m, p, w), pr)
  PROVE  Untidy(m, pr) \/ pr[p] = "dead"
<1>1. PICK n : n = InNewTab(m, p, w)
  OBVIOUS
<1>2. n.panes = m.panes \cup {p} /\ n.windows = m.windows
  BY <1>1 DEF InNewTab, Registry
<1>3. \A u \in Tab : n.tree[u] = IF u = NewTab THEN {p} ELSE m.tree[u]
  BY <1>1 DEF InNewTab, Registry
<1>4. \A v \in Window : /\ m.tabsOf[v] \subseteq n.tabsOf[v]
                        /\ n.tabsOf[v] \subseteq m.tabsOf[v] \cup {NewTab}
  BY <1>1 DEF InNewTab, Registry
<1>5. m.windows \subseteq Window /\ \A v \in Window : m.tabsOf[v] \subseteq Tab
  BY DEF Registry
<1>6. ASSUME NEW u \in ListedTabs(n)
      PROVE  u \in Tab /\ (u = NewTab \/ u \in ListedTabs(m))
  <2>1. PICK v \in n.windows : u \in n.tabsOf[v]
    BY <1>6 DEF ListedTabs
  <2>2. v \in m.windows /\ v \in Window
    BY <1>2, <1>5, <2>1
  <2>3. u = NewTab \/ u \in m.tabsOf[v]
    BY <1>4, <2>1, <2>2
  <2>4. u \in m.tabsOf[v] => u \in ListedTabs(m) /\ u \in Tab
    BY <1>5, <2>2 DEF ListedTabs
  <2> QED BY <2>3, <2>4
<1>7. Untidy(n, pr)
  BY <1>1
<1>8. ASSUME NEW u \in ListedTabs(n), NEW q \in n.tree[u], q \in Pane,
             pr[q] = "dead" \/ q \notin n.panes
      PROVE  Untidy(m, pr) \/ pr[p] = "dead"
  <2>1. CASE q = p
    BY <1>2, <1>8, <2>1
  <2>2. CASE q # p
    <3>1. u \in ListedTabs(m) /\ q \in m.tree[u]
      BY <1>3, <1>6, <2>2
    <3>2. pr[q] = "dead" \/ q \notin m.panes
      BY <1>2, <1>8
    <3> QED BY <1>8, <3>1, <3>2, UntidyPane
  <2> QED BY <2>1, <2>2
<1>9. \A u \in ListedTabs(n) : n.tree[u] = {} => u \in ListedTabs(m) /\ m.tree[u] = {}
  BY <1>3, <1>6
<1>10. \A v \in n.windows : n.tabsOf[v] = {} => v \in m.windows /\ m.tabsOf[v] = {}
  BY <1>2, <1>4, <1>5
<1>11. ASSUME NEW v \in n.windows, n.tabsOf[v] = {}
       PROVE  Untidy(m, pr)
  BY <1>10, <1>11 DEF Untidy
<1>12. ASSUME NEW u \in ListedTabs(n), n.tree[u] = {}
       PROVE  Untidy(m, pr)
  BY <1>9, <1>12 DEF Untidy
<1> QED BY <1>7, <1>8, <1>11, <1>12, UntidyWhere

\* A prune takes no pane out of the mux that is in no tree.
LEMMA PrunesKeeps ==
  ASSUME NEW m \in Registry, NEW pr, NEW q, NEW busy \in BOOLEAN,
         NEW x \in Prunes(m, pr, q, busy),
         NEW p \in m.panes, \A u \in Tab : p \notin m.tree[u]
  PROVE  p \in x.mux.panes
<1>1. CASE busy
  BY <1>1 DEF Prunes
<1>2. CASE ~busy
  <2>1. PICK r : x.mux = Pruned(m, pr, r)
    BY <1>2 DEF Prunes
  <2>2. PICK s : s = Swept(m, r)
    OBVIOUS
  <2>3. \A u \in Tab : s.tree[u] \subseteq m.tree[u]
    BY <2>2 DEF Swept, Registry
  <2>4. p \in x.mux.panes <=>
          p \in m.panes /\ \A u \in m.tabs : DeadTab(s, pr, u) => p \notin s.tree[u]
    BY <2>1, <2>2, PrunedFacts
  <2>5. m.tabs \subseteq Tab
    BY DEF Registry
  <2> QED BY <2>3, <2>4, <2>5
<1> QED BY <1>1, <1>2

\* Moving a pane beside another one.
LEMMA MovePaneComing ==
  ASSUME Inv, PruneNotLost,
         NEW t \in Tab, NEW target \in Pane, NEW s \in Tab, NEW p \in Pane,
         NEW fits \in BOOLEAN, MovePane(t, target, s, p, fits), Untidy(mux', proc')
  PROVE  PruneComing(queue', activities')
<1>0. /\ Good(mux, Born(proc), madeTabs, madeWindows) /\ mux \in Registry
      /\ queue \in Seq(Task) /\ Busy \in BOOLEAN
  BY DEF Inv, TypeOK, Busy
<1>1. /\ s \in ListedTabs(mux) /\ p \in mux.tree[s]
      /\ UNCHANGED <<proc, activities>>
  BY DEF MovePane
<1>2. proc[p] = "dead" \/ p \notin mux.panes => PruneComing(queue, activities)
  BY <1>1, UntidyPane DEF PruneNotLost
<1>3. PICK taken : taken = TakePane(mux, s, p)
  OBVIOUS
<1>4. /\ Good(taken, Born(proc), madeTabs, madeWindows) /\ taken \in Registry
      /\ \A u \in Tab : p \notin taken.tree[u]
      /\ taken.panes = mux.panes
  BY <1>0, <1>1, <1>3, TakePaneGood, TakenGone, TakePaneFacts
<1>5. CASE DeadTab(taken, proc, s)
  <2>1. PICK x \in Prunes(RemoveTabs(taken, {s}), proc, queue, Busy) :
          mux' = InsertBeside(x.mux, t, target, p, fits) /\ queue' = x.queue
    BY <1>3, <1>5 DEF MovePane
  <2>2. PICK m : m = RemoveTabs(taken, {s})
    OBVIOUS
  <2>3. /\ Good(m, Born(proc), madeTabs, madeWindows) /\ m \in Registry
        /\ m.tree = taken.tree
        /\ m.panes = taken.panes \ UNION {taken.tree[u] : u \in {s} \cap taken.tabs}
    BY <1>4, <2>2, RemoveTabsGood, RemoveTabsFacts
  <2>4. x.mux \in Registry
    BY <1>0, <2>1, <2>2, <2>3, PrunesGood DEF Good
  <2>5. Untidy(x.mux, proc) \/ proc[p] = "dead" \/ p \notin x.mux.panes
    BY <1>1, <2>1, <2>4, InsertUntidy
  <2>6. p \in mux.panes => p \in x.mux.panes
    <3>1. p \in mux.panes => p \in m.panes
      BY <1>4, <2>3
    <3>2. \A u \in Tab : p \notin m.tree[u]
      BY <1>4, <2>3
    <3> QED BY <1>0, <2>1, <2>2, <2>3, <3>1, <3>2, PrunesKeeps
  <2>7. Untidy(x.mux, proc) \/ PruneComing(queue, activities)
    BY <1>2, <2>5, <2>6
  <2>8. PruneComing(x.queue, activities)
    BY <1>0, <2>1, <2>2, <2>3, <2>7, PrunesTidy
  <2> QED BY <1>1, <2>1, <2>8
<1>6. CASE ~DeadTab(taken, proc, s)
  <2>1. mux' = InsertBeside(taken, t, target, p, fits) /\ queue' = queue
    BY <1>3, <1>6 DEF MovePane
  <2>2. Untidy(taken, proc) \/ proc[p] = "dead" \/ p \notin mux.panes
    BY <1>1, <1>4, <2>1, InsertUntidy
  <2>3. taken.tree[s] # {}
    BY <1>6 DEF DeadTab
  <2>4. Untidy(taken, proc) => Untidy(mux, proc)
    BY <1>0, <1>3, <2>3, TakenUntidy
  <2> QED BY <1>1, <1>2, <2>1, <2>2, <2>4 DEF PruneNotLost
<1> QED BY <1>5, <1>6

\* Moving a pane to a new tab; the resize must not fail half-way.
LEMMA MoveToNewTabComing ==
  ASSUME Inv, PruneNotLost, NEW s \in Tab, NEW p \in Pane, NEW w \in Window,
         MoveToNewTab(s, p, w, TRUE), Untidy(mux', proc')
  PROVE  PruneComing(queue', activities')
<1>0. /\ Good(mux, Born(proc), madeTabs, madeWindows) /\ mux \in Registry
      /\ queue \in Seq(Task) /\ Busy \in BOOLEAN
      /\ NewTab \in Tab /\ NewTab \notin madeTabs
  BY NewIdFacts DEF Inv, TypeOK, Busy, MoveToNewTab, CanMoveToNewTab
<1>1. /\ s \in ListedTabs(mux) /\ p \in mux.tree[s] /\ w \in mux.windows
      /\ UNCHANGED <<proc, activities>>
  BY DEF MoveToNewTab, CanMoveToNewTab
<1>2. PICK taken : taken = TakePane(mux, s, p)
  OBVIOUS
<1>3. /\ Good(taken, Born(proc), madeTabs, madeWindows) /\ taken \in Registry
      /\ \A u \in Tab : p \notin taken.tree[u]
      /\ taken.windows = mux.windows /\ p \in Born(proc)
  BY <1>0, <1>1, <1>2, TakePaneGood, TakenGone, TakePaneFacts
<1>4. PICK moved : moved = InNewTab(taken, p, w)
  OBVIOUS
<1>5. Good(moved, Born(proc), madeTabs \cup {NewTab}, madeWindows)
  BY <1>0, <1>1, <1>3, <1>4, InNewTabGood
<1>6. PICK x \in Moved(mux, s, p, w, queue, Busy, TRUE) : mux' = x.mux /\ queue' = x.queue
  BY DEF MoveToNewTab
<1>7. CASE DeadTab(moved, proc, s)
  <2>1. PICK m : m = RemoveTabs(moved, {s})
    OBVIOUS
  <2>2. Good(m, Born(proc), madeTabs \cup {NewTab}, madeWindows)
    BY <1>5, <2>1, RemoveTabsGood
  <2>3. x \in Prunes(m, proc, queue, Busy)
    BY <1>2, <1>4, <1>6, <1>7, <2>1 DEF Moved
  <2>4. Untidy(x.mux, proc)
    BY <1>1, <1>6
  <2> QED BY <1>0, <1>1, <1>6, <2>2, <2>3, <2>4, PrunesTidy
<1>8. CASE ~DeadTab(moved, proc, s)
  <2>1. mux' = moved /\ queue' = queue
    BY <1>2, <1>4, <1>6, <1>8 DEF Moved
  <2>2. Untidy(taken, proc) \/ proc[p] = "dead"
    BY <1>0, <1>1, <1>3, <1>4, <2>1, InNewTabUntidy
  <2>3. taken.tree[s] # {}
    <3>1. s # NewTab
      BY <1>0, <1>1, ListedFacts
    <3>2. moved.tree[s] = taken.tree[s]
      BY <1>3, <1>4, <3>1 DEF InNewTab, Registry
    <3> QED BY <1>8, <3>2 DEF DeadTab
  <2>4. Untidy(taken, proc) => Untidy(mux, proc)
    BY <1>0, <1>2, <2>3, TakenUntidy
  <2>5. proc[p] = "dead" => Untidy(mux, proc)
    BY <1>1, UntidyPane
  <2> QED BY <1>1, <2>1, <2>2, <2>4, <2>5 DEF PruneNotLost
<1> QED BY <1>7, <1>8

\* Moving a pane to a new window posts a prune.
LEMMA MoveToNewWindowComing ==
  ASSUME Inv, NEW s \in Tab, NEW p \in Pane, MoveToNewWindow(s, p, TRUE)
  PROVE  PruneComing(queue', activities')
<1>0. /\ Good(mux, Born(proc), madeTabs, madeWindows)
      /\ queue \in Seq(Task) /\ proc \in [Pane -> ProcState]
      /\ NewTab \in Tab /\ NewTab \notin madeTabs
      /\ NewWindow \in Window /\ NewWindow \notin madeWindows
  BY NewIdFacts DEF Inv, TypeOK, ProcState, MoveToNewWindow, CanMoveToNewTab
<1>1. PICK opened : opened = [mux EXCEPT !.windows = @ \cup {NewWindow}]
  OBVIOUS
<1>2. /\ Good(opened, Born(proc), madeTabs, madeWindows \cup {NewWindow})
      /\ opened.tree = mux.tree /\ NewWindow \in opened.windows
  BY <1>0, <1>1, OpenedGood
<1>3. p \in opened.tree[s]
  BY <1>2 DEF MoveToNewWindow, CanMoveToNewTab
<1>4. PICK x \in Moved(opened, s, p, NewWindow, queue, TRUE, TRUE) :
        queue' = x.queue \o <<PruneTask>>
  BY <1>1 DEF MoveToNewWindow
<1>5. x.queue \in Seq(Task)
  BY <1>0, <1>2, <1>3, <1>4, MovedGood
<1> QED BY <1>4, <1>5, TaskType, TasksPrune, ComingLast

\* A request that starts or ends.
LEMMA RequestComing ==
  ASSUME Inv, PruneNotLost, Request \/ \E o \in Op : Finish(o), Untidy(mux', proc')
  PROVE  PruneComing(queue', activities')
<1>1. ASSUME NEW o \in Op, NEW w \in Window, NEW held, StartSpawnTab(o, w, held)
      PROVE  PruneComing(queue', activities')
  BY <1>1 DEF StartSpawnTab, PruneNotLost, PruneComing
<1>2. ASSUME NEW o \in Op, NEW held, StartSpawnWindow(o, held)
      PROVE  PruneComing(queue', activities')
  BY <1>2 DEF StartSpawnWindow, PruneComing
<1>3. ASSUME NEW o \in Op, NEW t \in Tab, NEW p \in Pane, NEW held, StartSplit(o, t, p, held)
      PROVE  PruneComing(queue', activities')
  BY <1>3 DEF StartSplit, PruneNotLost, PruneComing
<1>4. ASSUME NEW o \in Op, Finish(o)
      PROVE  PruneComing(queue', activities')
  <2>1. Untidy(mux, proc)
    <3>1. CASE SpawnFails(o)
      BY <3>1 DEF SpawnFails
    <3>2. ASSUME NEW p \in Pane, FinishSpawn(o, p)
          PROVE  Untidy(mux, proc)
      BY <3>2, SpawnTidy
    <3>3. ASSUME NEW p \in Pane, NEW fits \in BOOLEAN, FinishSplit(o, p, fits)
          PROVE  Untidy(mux, proc)
      BY <3>3, SplitTidy
    <3> QED BY <1>4, <3>1, <3>2, <3>3 DEF Finish
  <2>2. Return(o, queue)
    BY <1>4 DEF Finish, SpawnFails, FinishSpawn, FinishSplit
  <2> QED BY <2>1, <2>2, ReturnComing DEF PruneNotLost, Inv
<1> QED BY <1>1, <1>2, <1>3, <1>4 DEF Request

\* The moves.
LEMMA MoveComing ==
  ASSUME ~ResizeMayFail, Inv, PruneNotLost, Move, Untidy(mux', proc')
  PROVE  PruneComing(queue', activities')
<1>1. Resizes = {TRUE}
  BY DEF Resizes
<1> QED BY <1>1, MovePaneComing, MoveToNewTabComing, MoveToNewWindowComing DEF Move

\* Closing something.
LEMMA CloseComing ==
  ASSUME Inv, Close, Untidy(mux', proc')
  PROVE  PruneComing(queue', activities')
<1>1. ASSUME NEW t \in Tab, NEW p \in Pane, ClosePane(t, p)
      PROVE  PruneComing(queue', activities')
  <2>1. PICK task \in Task : task = RemoveTask({p})
    BY TaskType
  <2>2. queue' = Append(queue, task) /\ queue \in Seq(Task) /\ IsPrune(task)
    BY <1>1, <2>1, TasksPrune DEF ClosePane, Inv, TypeOK
  <2> QED BY <2>2, ComingLast
<1>2. ASSUME \/ \E p \in Pane : KillPane(p)
             \/ \E t \in Tab : CloseTab(t)
             \/ \E w \in Window : CloseWindow(w)
             \/ DetachDomain
      PROVE  PruneComing(queue', activities')
  <2>1. PICK m \in Registry, q \in Seq(Task) :
          Good(m, Born(proc), madeTabs, madeWindows) /\ PruneFrom(m, proc', q)
    BY <1>2, ClosePrunes
  <2>2. activities' = activities
    BY <1>2, ClosePrunes
  <2> QED BY <2>1, <2>2, PruneFromTidy
<1> QED BY <1>1, <1>2 DEF Close

\* The threads of a pane post a prune or a removal.
LEMMA PaneThreadComing ==
  ASSUME Inv, PaneThread
  PROVE  PruneComing(queue', activities')
<1>1. PICK task \in Task : IsPrune(task) /\ queue' = Append(queue, task)
  BY TaskType, TasksPrune DEF PaneThread, ChildExit, ReaderEof
<1> QED BY <1>1, ComingLast DEF Inv, TypeOK

\* The tasks of the queue: two of them prune, and the third is no prune.
LEMMA RunTaskComing ==
  ASSUME Inv, PruneNotLost, RunTask, Untidy(mux', proc')
  PROVE  PruneComing(queue', activities')
<1>0. /\ Good(mux, Born(proc), madeTabs, madeWindows)
      /\ queue \in Seq(Task)
  BY DEF Inv, TypeOK
<1>1. CASE RunPrune
  <2>1. PruneFrom(mux, proc', Tail(queue)) /\ queue # <<>> /\ activities' = activities
    BY <1>1 DEF RunPrune
  <2>2. Tail(queue) \in Seq(Task)
    BY <1>0, <2>1
  <2> QED BY <1>0, <2>1, <2>2, PruneFromTidy
<1>2. CASE RunRemove
  <2>1. PICK ps : ps = Head(queue).panes
    OBVIOUS
  <2>2. PICK n : n = RemovePanes(mux, ps)
    OBVIOUS
  <2>3. PruneFrom(n, proc', Tail(queue)) /\ queue # <<>> /\ activities' = activities
    BY <1>2, <2>1, <2>2 DEF RunRemove, RemovePane
  <2>4. Good(n, Born(proc), madeTabs, madeWindows)
    BY <1>0, <2>2, RemovePanesGood
  <2>5. Tail(queue) \in Seq(Task)
    BY <1>0, <2>3
  <2> QED BY <2>3, <2>4, <2>5, PruneFromTidy
<1>3. CASE RunQuit
  <2>1. /\ queue # <<>> /\ Head(queue).type = "quit" /\ queue' = Tail(queue)
        /\ UNCHANGED <<mux, proc, activities>>
    BY <1>3 DEF RunQuit
  <2>2. PruneComing(queue, activities)
    BY <2>1 DEF PruneNotLost
  <2>3. ASSUME NEW i \in DOMAIN queue, queue[i].type \in {"prune", "remove"}
        PROVE  PruneComing(queue', activities')
    <3>1. i # 1
      BY <1>0, <2>1, <2>3
    <3>2. i - 1 \in DOMAIN queue' /\ queue'[i - 1] = queue[i]
      BY <1>0, <2>1, <3>1
    <3> QED BY <2>3, <3>2 DEF PruneComing
  <2> QED BY <2>1, <2>2, <2>3 DEF PruneComing
<1> QED BY <1>1, <1>2, <1>3 DEF RunTask

LEMMA NotLostStep ==
  ASSUME ~ResizeMayFail, Inv, PruneNotLost, [Next]_vars
  PROVE  PruneNotLost'
<1>1. ASSUME Untidy(mux', proc'), Next
      PROVE  PruneComing(queue', activities')
  BY <1>1, RequestComing, MoveComing, CloseComing, PaneThreadComing, RunTaskComing DEF Next
<1>2. CASE UNCHANGED vars
  BY <1>2 DEF vars, PruneNotLost
<1> QED BY <1>1, <1>2 DEF PruneNotLost

\* Garbage in the registry always has a prune coming, however many panes die
\* together and however activities put prunes off, unless a resize fails in
\* the middle of a move: move_pane_to_new_tab then returns with the source
\* tab empty and no prune posted.
THEOREM NoPruneLost == ~ResizeMayFail => (Spec => []PruneNotLost)
<1>1. Init => PruneNotLost
  BY DEF Init, PruneNotLost, Untidy, ListedTabs
<1>2. ~ResizeMayFail => (Inv /\ PruneNotLost /\ [Next]_vars => PruneNotLost')
  BY NotLostStep
<1>3. CASE ~ResizeMayFail
  BY <1>1, <1>2, <1>3, InvAlways, PTL DEF Spec
<1> QED BY <1>3
=============================================================================
