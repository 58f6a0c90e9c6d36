------------------------- MODULE WindowTabs_proofs -------------------------
(***************************************************************************)
(* Proofs about WindowTabs, for every set of tabs and either setting:      *)
(* the types, that no tab is listed twice, that a nonempty window always   *)
(* shows one of its tabs, that the shown tab is followed when others come  *)
(* and go, and that the strip keeps its order.                             *)
(***************************************************************************)
EXTENDS WindowTabs, TLAPS

\* What every operation on the record preserves: its type, distinct entries
\* and an index that is good whenever there is something to show.  That the
\* index of an empty strip is the first one is what makes the strengthening
\* inductive: the next tab to be pushed lands there.
GoodStrip(w) ==
  /\ w \in Window
  /\ IsInjective(w.tabs)
  /\ w.tabs # <<>> => w.active \in DOMAIN w.tabs
  /\ w.tabs = <<>> => w.active = 1

Inv ==
  /\ GoodStrip(win)
  /\ doomed \subseteq Listed(win)
  /\ pass \in {"idle", "dead", "live"}
  /\ pass = "idle" => doomed = {}

\* The invariants of the run, as one formula.
ShownTabExists == TypeOK /\ NoTabTwice /\ ActiveIsListed

-----------------------------------------------------------------------------
(* Facts about the operators on sequences and on the record.               *)

\* Vec::remove takes out exactly the element at i.
LEMMA WithoutFacts ==
  ASSUME NEW s \in Seq(Tab), NEW i \in 1..Len(s), IsInjective(s)
  PROVE  /\ Without(s, i) \in Seq(Tab)
         /\ Len(Without(s, i)) = Len(s) - 1
         /\ Range(Without(s, i)) = Range(s) \ {s[i]}
         /\ IsInjective(Without(s, i))
<1> DEFINE n == Len(s) - 1
           u == Without(s, i)
<1>1. n \in Nat /\ DOMAIN s = 1..Len(s) /\ \A j \in 1..Len(s) : s[j] \in Tab
  OBVIOUS
<1>2. u = [j \in 1..n |-> IF j < i THEN s[j] ELSE s[j + 1]]
  BY DEF Without
<1>3. u \in Seq(Tab) /\ Len(u) = n /\ DOMAIN u = 1..n
  <2>1. u \in [1..n -> Tab]
    BY <1>1, <1>2
  <2> HIDE DEF u, n
  <2> QED BY <1>1, <2>1
<1>4. ASSUME NEW j \in 1..Len(s), j # i
      PROVE  \E k \in 1..n : u[k] = s[j]
  <2>1. CASE j < i
    <3>1. j \in 1..n /\ u[j] = s[j]
      BY <2>1, <1>2
    <3> QED BY <3>1
  <2>2. CASE j > i
    <3>1. j - 1 \in 1..n /\ ~(j - 1 < i) /\ (j - 1) + 1 = j
      BY <2>2
    <3>2. u[j - 1] = s[j]
      BY <3>1, <1>2
    <3> QED BY <3>1, <3>2
  <2> QED BY <1>4, <2>1, <2>2
<1>5. ASSUME NEW k \in 1..n
      PROVE  \E j \in 1..Len(s) : j # i /\ u[k] = s[j]
  BY <1>2
<1>6. \A j, k \in 1..n : u[j] = u[k] => j = k
  <2>1. \A j, k \in 1..Len(s) : s[j] = s[k] => j = k
    BY <1>1 DEF IsInjective
  <2> QED BY <1>1, <1>2, <2>1
<1> HIDE DEF u, n
<1>7. IsInjective(u)
  BY <1>3, <1>6 DEF IsInjective
<1>8. Range(u) \subseteq Range(s) \ {s[i]}
  BY <1>1, <1>3, <1>5 DEF Range, IsInjective
<1>9. Range(s) \ {s[i]} \subseteq Range(u)
  BY <1>1, <1>3, <1>4 DEF Range
<1> QED BY <1>3, <1>7, <1>8, <1>9 DEF u, n

\* Vec::insert adds exactly the new element.
LEMMA WithFacts ==
  ASSUME NEW s \in Seq(Tab), NEW i \in 1..(Len(s) + 1), NEW t \in Tab,
         IsInjective(s), t \notin Range(s)
  PROVE  /\ With(s, i, t) \in Seq(Tab)
         /\ Len(With(s, i, t)) = Len(s) + 1
         /\ Range(With(s, i, t)) = Range(s) \cup {t}
         /\ IsInjective(With(s, i, t))
<1> DEFINE n == Len(s) + 1
           u == With(s, i, t)
<1>1. n \in Nat /\ DOMAIN s = 1..Len(s) /\ \A j \in 1..Len(s) : s[j] \in Tab /\ s[j] # t
  BY DEF Range
<1>2. u = [j \in 1..n |-> IF j < i THEN s[j] ELSE IF j = i THEN t ELSE s[j - 1]]
  BY DEF With
<1>3. u \in Seq(Tab) /\ Len(u) = n /\ DOMAIN u = 1..n /\ u[i] = t /\ i \in 1..n
  <2>1. u \in [1..n -> Tab]
    BY <1>1, <1>2
  <2> QED BY <1>1, <1>2, <2>1
<1>4. ASSUME NEW j \in 1..Len(s)
      PROVE  \E k \in 1..n : u[k] = s[j]
  <2>1. CASE j < i
    <3>1. j \in 1..n /\ u[j] = s[j]
      BY <2>1, <1>2
    <3> QED BY <3>1
  <2>2. CASE j >= i
    <3>1. j + 1 \in 1..n /\ ~(j + 1 < i) /\ j + 1 # i /\ (j + 1) - 1 = j
      BY <2>2
    <3>2. u[j + 1] = s[j]
      BY <3>1, <1>2
    <3> QED BY <3>1, <3>2
  <2> QED BY <2>1, <2>2
<1>5. ASSUME NEW k \in 1..n
      PROVE  u[k] = t \/ \E j \in 1..Len(s) : u[k] = s[j]
  BY <1>2
<1>6. \A j, k \in 1..n : u[j] = u[k] => j = k
  <2>1. \A j, k \in 1..Len(s) : s[j] = s[k] => j = k
    BY <1>1 DEF IsInjective
  <2> QED BY <1>1, <1>2, <2>1
<1> HIDE DEF u, n
<1>7. IsInjective(u)
  BY <1>3, <1>6 DEF IsInjective
<1>8. Range(u) \subseteq Range(s) \cup {t}
  BY <1>1, <1>3, <1>5 DEF Range
<1>9. Range(s) \cup {t} \subseteq Range(u)
  BY <1>1, <1>3, <1>4 DEF Range
<1> QED BY <1>3, <1>7, <1>8, <1>9 DEF u, n

\* A listed tab is found at its position.
LEMMA IdxFacts ==
  ASSUME NEW w, NEW t \in Listed(w)
  PROVE  IdxById(w, t) \in DOMAIN w.tabs /\ w.tabs[IdxById(w, t)] = t
BY DEF Listed, Range, IdxById

\* The strip stays good wherever the index is put on it.
LEMMA SetActiveGood ==
  ASSUME NEW w, GoodStrip(w), NEW i \in DOMAIN w.tabs
  PROVE  /\ GoodStrip(SetActiveWithoutSaving(w, i))
         /\ GoodStrip(SaveAndThenSetActive(w, i))
         /\ SetActiveWithoutSaving(w, i).tabs = w.tabs
         /\ SaveAndThenSetActive(w, i).tabs = w.tabs
<1>1. w.tabs # <<>> /\ w.active \in DOMAIN w.tabs /\ GetActive(w) \in Tab
  BY DEF GoodStrip, Window, GetActive
<1>2. i \in Nat \ {0}
  BY DEF GoodStrip, Window
<1> QED BY <1>1, <1>2 DEF GoodStrip, Window, SetActiveWithoutSaving, SaveAndThenSetActive

\* do_remove_idx: the strip loses one tab and stays good, and if another tab
\* was shown that tab still is.
LEMMA RemoveFacts ==
  ASSUME NEW w, GoodStrip(w), NEW i \in DOMAIN w.tabs, NEW b \in BOOLEAN
  PROVE  /\ GoodStrip(DoRemoveIdx(w, i, b))
         /\ DoRemoveIdx(w, i, b).tabs = Without(w.tabs, i)
         /\ Listed(DoRemoveIdx(w, i, b)) = Listed(w) \ {w.tabs[i]}
         /\ GetActive(w) # w.tabs[i] => GetActive(DoRemoveIdx(w, i, b)) = GetActive(w)
<1> DEFINE s == Without(w.tabs, i)
           v == LeaveClosing(w, i, b)
           u == [v EXCEPT !.tabs = Without(@, i)]
           a == GetActive(w)
<1>1. w \in Window /\ w.tabs \in Seq(Tab) /\ DOMAIN w.tabs = 1..Len(w.tabs)
  BY DEF GoodStrip, Window
<1>2. /\ s \in Seq(Tab) /\ DOMAIN s = 1..Len(s)
      /\ Len(s) = Len(w.tabs) - 1
      /\ Range(s) = Listed(w) \ {w.tabs[i]}
      /\ IsInjective(s)
  BY <1>1, WithoutFacts DEF GoodStrip, Listed
<1>3. w.active \in DOMAIN w.tabs /\ a = w.tabs[w.active] /\ a \in Listed(w)
  BY DEF GoodStrip, GetActive, Listed, Range
<1>4. v \in Window /\ v.tabs = w.tabs /\ v.active \in DOMAIN w.tabs
  <2>1. CASE w.last \in Listed(w)
    BY <2>1, <1>1, <1>3, IdxFacts DEF LeaveClosing, SetActiveWithoutSaving, Window
  <2>2. CASE w.last \notin Listed(w)
    BY <2>2, <1>1, <1>3 DEF LeaveClosing
  <2> QED BY <2>1, <2>2
<1>5. u \in Window /\ u.tabs = s /\ u.active \in DOMAIN w.tabs /\ u.active = v.active
  <2> HIDE DEF v
  <2> QED BY <1>2, <1>4 DEF Window
<1>6. Listed(u) = Listed(w) \ {w.tabs[i]}
  BY <1>2, <1>5 DEF Listed
<1>7. DoRemoveIdx(w, i, b) = FixupActive(u, a)
  BY DEF DoRemoveIdx
<1> HIDE DEF u, v, s, a
<1>8. CASE a \in Listed(u)
  <2>1. /\ IdxById(u, a) \in DOMAIN s
        /\ s[IdxById(u, a)] = a
    BY <1>5, <1>8, IdxFacts
  <2>2. FixupActive(u, a) = [u EXCEPT !.active = IdxById(u, a)]
    BY <1>8 DEF FixupActive, SetActiveWithoutSaving
  <2>3. FixupActive(u, a) \in Window /\ FixupActive(u, a).tabs = s
    BY <1>2, <1>5, <2>1, <2>2 DEF Window
  <2>4. FixupActive(u, a).active = IdxById(u, a)
    BY <1>5, <2>2 DEF Window
  <2>5. GoodStrip(FixupActive(u, a)) /\ GetActive(FixupActive(u, a)) = a
    BY <1>2, <2>1, <2>3, <2>4 DEF GoodStrip, GetActive
  <2>6. Listed(FixupActive(u, a)) = Listed(u)
    BY <1>5, <2>3 DEF Listed
  <2> QED BY <1>6, <1>7, <2>3, <2>5, <2>6 DEF s, a
<1>9. CASE a \notin Listed(u)
  <2>1. a = w.tabs[i]
    BY <1>3, <1>6, <1>9
  <2>2. FixupActive(u, a) =
          IF s # <<>> /\ u.active > Len(s) THEN [u EXCEPT !.active = Len(s)] ELSE u
    BY <1>5, <1>9 DEF FixupActive, SetActiveWithoutSaving
  <2>3. u.active \in Nat \ {0} /\ Len(s) \in Nat /\ (s # <<>> => Len(s) \in Nat \ {0})
    <3>1. s \in Seq(Tab)
      BY <1>2
    <3>2. Len(s) \in Nat /\ (s # <<>> => Len(s) # 0)
      BY <3>1
    <3> QED BY <1>5, <3>2 DEF Window
  <2>4. FixupActive(u, a) \in Window /\ FixupActive(u, a).tabs = s
    BY <1>5, <2>2, <2>3 DEF Window
  <2>5. /\ s # <<>> => FixupActive(u, a).active \in DOMAIN s
        /\ s = <<>> => FixupActive(u, a).active = 1
    <3>1. ASSUME s = <<>>
          PROVE  u.active = 1
      <4>1. Len(s) = 0 /\ Len(w.tabs) \in Nat
        BY <1>1, <3>1
      <4>2. Len(w.tabs) = 1
        BY <1>2, <4>1
      <4>3. DOMAIN w.tabs = {1}
        BY <1>1, <4>2
      <4> QED BY <1>5, <4>3
    <3> QED BY <1>2, <1>5, <2>2, <2>3, <3>1 DEF Window
  <2>6. GoodStrip(FixupActive(u, a))
    BY <1>2, <2>4, <2>5 DEF GoodStrip
  <2>7. Listed(FixupActive(u, a)) = Listed(u)
    BY <1>5, <2>4 DEF Listed
  <2> QED BY <1>6, <1>7, <2>1, <2>4, <2>6, <2>7 DEF s, a
<1> QED BY <1>8, <1>9

\* Taking the active tab out and putting it back anywhere loses no tab.
LEMMA MoveFacts ==
  ASSUME NEW w, GoodStrip(w), NEW i \in DOMAIN w.tabs, NEW b \in BOOLEAN,
         NEW v, v = SetActiveWithoutSaving(
                      InsertAt(DoRemoveIdx(w, w.active, b), i, GetActive(w)), i)
  PROVE  GoodStrip(v) /\ Listed(v) = Listed(w)
<1> DEFINE r == DoRemoveIdx(w, w.active, b)
           a == GetActive(w)
           s == With(r.tabs, i, a)
<1>1. /\ w.tabs \in Seq(Tab) /\ DOMAIN w.tabs = 1..Len(w.tabs)
      /\ w.active \in DOMAIN w.tabs
      /\ a = w.tabs[w.active] /\ a \in Tab /\ a \in Listed(w)
  BY DEF GoodStrip, Window, GetActive, Listed, Range
<1>2. /\ GoodStrip(r)
      /\ r.tabs = Without(w.tabs, w.active)
      /\ Listed(r) = Listed(w) \ {a}
  BY <1>1, RemoveFacts
<1>3. Len(r.tabs) = Len(w.tabs) - 1
  BY <1>1, <1>2, WithoutFacts DEF GoodStrip
<1> HIDE DEF r, a, s
<1>4. r \in Window /\ r.tabs \in Seq(Tab) /\ IsInjective(r.tabs) /\ a \notin Range(r.tabs)
  BY <1>2 DEF GoodStrip, Window, Listed
<1>5. i \in 1..(Len(r.tabs) + 1) /\ i \in Nat \ {0}
  BY <1>1, <1>3
<1>6. /\ s \in Seq(Tab) /\ Len(s) = Len(r.tabs) + 1 /\ IsInjective(s)
      /\ Range(s) = Range(r.tabs) \cup {a}
  BY <1>1, <1>4, <1>5, WithFacts DEF s
<1>7. v = [[r EXCEPT !.tabs = s] EXCEPT !.active = i]
  BY DEF SetActiveWithoutSaving, InsertAt, r, a, s
<1>8. v \in Window /\ v.tabs = s /\ v.active = i
  BY <1>4, <1>5, <1>6, <1>7 DEF Window
<1>9. i \in DOMAIN s /\ s # <<>>
  BY <1>4, <1>5, <1>6
<1> QED BY <1>1, <1>2, <1>6, <1>8, <1>9 DEF GoodStrip, Listed

\* push: the strip gains a tab it did not list, and shows the same one.
LEMMA PushFacts ==
  ASSUME NEW w, GoodStrip(w), NEW t \in Tab, t \notin Listed(w)
  PROVE  /\ GoodStrip(Push(w, t))
         /\ Listed(Push(w, t)) = Listed(w) \cup {t}
         /\ w.tabs # <<>> => GetActive(Push(w, t)) = GetActive(w)
<1> DEFINE s == Append(w.tabs, t)
<1>1. w \in Window /\ w.tabs \in Seq(Tab) /\ DOMAIN w.tabs = 1..Len(w.tabs)
  BY DEF GoodStrip, Window
<1>2. /\ s \in Seq(Tab)
      /\ DOMAIN s = 1..(Len(w.tabs) + 1)
      /\ \A j \in 1..Len(w.tabs) : s[j] = w.tabs[j]
      /\ s[Len(w.tabs) + 1] = t
  BY <1>1
<1>3. Push(w, t) \in Window /\ Push(w, t).tabs = s /\ Push(w, t).active = w.active
  BY <1>1, <1>2 DEF Push, Window
<1> HIDE DEF s
<1>4. IsInjective(s)
  BY <1>1, <1>2 DEF GoodStrip, Listed, Range, IsInjective
<1>5. Listed(Push(w, t)) = Listed(w) \cup {t}
  <2>1. Range(s) \subseteq Range(w.tabs) \cup {t}
    BY <1>1, <1>2 DEF Range
  <2>2. \A j \in DOMAIN w.tabs : w.tabs[j] \in Range(s)
    BY <1>1, <1>2 DEF Range
  <2>3. t \in Range(s)
    BY <1>1, <1>2 DEF Range
  <2>4. Range(w.tabs) \subseteq Range(s)
    BY <2>2 DEF Range
  <2> QED BY <1>3, <2>1, <2>3, <2>4 DEF Listed
<1>6. /\ w.active \in DOMAIN s /\ s # <<>>
      /\ w.tabs # <<>> => w.active \in DOMAIN w.tabs
  BY <1>1, <1>2 DEF GoodStrip
<1>7. GoodStrip(Push(w, t))
  BY <1>3, <1>4, <1>6 DEF GoodStrip
<1>8. w.tabs # <<>> => GetActive(Push(w, t)) = GetActive(w)
  BY <1>1, <1>2, <1>3, <1>6 DEF GetActive
<1> QED BY <1>5, <1>7, <1>8

-----------------------------------------------------------------------------
(* The order of the tabs on the strip.                                     *)

\* Two tabs that both strips list stand in the same order on both.
SameOrder(v, w) ==
  \A a, b \in Listed(v) \cap Listed(w) :
    (IdxById(v, a) < IdxById(v, b)) <=> (IdxById(w, a) < IdxById(w, b))

\* No other position holds the tab.
LEMMA IdxUnique ==
  ASSUME NEW w, GoodStrip(w), NEW i \in DOMAIN w.tabs
  PROVE  IdxById(w, w.tabs[i]) = i
<1>1. IdxById(w, w.tabs[i]) \in DOMAIN w.tabs /\ w.tabs[IdxById(w, w.tabs[i])] = w.tabs[i]
  BY IdxFacts DEF Listed, Range
<1> QED BY <1>1 DEF GoodStrip, IsInjective

\* If the tabs of w come to v at rising positions, their order is kept.
LEMMA RisingOrder ==
  ASSUME NEW v, GoodStrip(v), NEW w, GoodStrip(w), NEW to \in [DOMAIN v.tabs -> DOMAIN w.tabs],
         \A j \in DOMAIN v.tabs : w.tabs[to[j]] = v.tabs[j],
         \A j, k \in DOMAIN v.tabs : j < k => to[j] < to[k]
  PROVE  SameOrder(v, w)
<1> SUFFICES ASSUME NEW a \in Listed(v), NEW b \in Listed(v)
             PROVE  (IdxById(v, a) < IdxById(v, b)) <=> (IdxById(w, a) < IdxById(w, b))
  BY DEF SameOrder
<1>1. PICK j \in DOMAIN v.tabs : v.tabs[j] = a
  BY DEF Listed, Range
<1>2. PICK k \in DOMAIN v.tabs : v.tabs[k] = b
  BY DEF Listed, Range
<1>3. IdxById(v, a) = j /\ IdxById(v, b) = k
  BY <1>1, <1>2, IdxUnique
<1>4. to[j] \in DOMAIN w.tabs /\ w.tabs[to[j]] = a
  BY <1>1
<1>5. to[k] \in DOMAIN w.tabs /\ w.tabs[to[k]] = b
  BY <1>2
<1>6. IdxById(w, a) = to[j] /\ IdxById(w, b) = to[k]
  BY <1>4, <1>5, IdxUnique
<1>7. v.tabs \in Seq(Tab) /\ w.tabs \in Seq(Tab)
  BY DEF GoodStrip, Window
<1>8. j \in Nat /\ k \in Nat /\ to[j] \in Nat /\ to[k] \in Nat
  BY <1>4, <1>5, <1>7
<1>9. j < k => to[j] < to[k]
  OBVIOUS
<1>10. k < j => to[k] < to[j]
  OBVIOUS
<1>11. (j < k) <=> (to[j] < to[k])
  BY <1>8, <1>9, <1>10
<1> QED BY <1>3, <1>6, <1>11

\* Neither showing another tab, nor removing, adding or putting one somewhere
\* changes the order of the others.
LEMMA UnmovedOrder ==
  ASSUME NEW v, NEW w, v.tabs = w.tabs
  PROVE  SameOrder(v, w)
BY DEF SameOrder, IdxById

LEMMA RemovedOrder ==
  ASSUME NEW w, GoodStrip(w), NEW i \in DOMAIN w.tabs,
         NEW v, GoodStrip(v), v.tabs = Without(w.tabs, i)
  PROVE  SameOrder(v, w)
<1> DEFINE n == Len(w.tabs) - 1
<1>1. w.tabs \in Seq(Tab) /\ DOMAIN w.tabs = 1..Len(w.tabs) /\ i \in Nat /\ Len(w.tabs) \in Nat
  BY DEF GoodStrip, Window
<1>2. v.tabs = [j \in 1..n |-> IF j < i THEN w.tabs[j] ELSE w.tabs[j + 1]]
  BY DEF Without
<1>3. PICK to : to = [j \in 1..n |-> IF j < i THEN j ELSE j + 1]
  OBVIOUS
<1>4. DOMAIN v.tabs = 1..n
  BY <1>2
<1>5. to \in [DOMAIN v.tabs -> DOMAIN w.tabs]
  BY <1>1, <1>3, <1>4
<1>6. \A j \in DOMAIN v.tabs : w.tabs[to[j]] = v.tabs[j]
  BY <1>1, <1>2, <1>3, <1>4
<1>7. \A j, k \in DOMAIN v.tabs : j < k => to[j] < to[k]
  BY <1>1, <1>3, <1>4
<1> QED BY <1>5, <1>6, <1>7, RisingOrder

LEMMA PushedOrder ==
  ASSUME NEW w, GoodStrip(w), NEW t, NEW v, GoodStrip(v), v.tabs = Append(w.tabs, t)
  PROVE  SameOrder(w, v)
<1>1. w.tabs \in Seq(Tab) /\ v.tabs \in Seq(Tab)
  BY DEF GoodStrip, Window
<1>2. /\ DOMAIN w.tabs = 1..Len(w.tabs) /\ Len(w.tabs) \in Nat
      /\ DOMAIN v.tabs = 1..(Len(w.tabs) + 1)
      /\ \A j \in 1..Len(w.tabs) : v.tabs[j] = w.tabs[j]
  BY <1>1
<1>3. PICK to : to = [j \in DOMAIN w.tabs |-> j]
  OBVIOUS
<1>4. to \in [DOMAIN w.tabs -> DOMAIN v.tabs]
  BY <1>2, <1>3
<1>5. \A j \in DOMAIN w.tabs : v.tabs[to[j]] = w.tabs[j]
  BY <1>2, <1>3
<1>6. \A j, k \in DOMAIN w.tabs : j < k => to[j] < to[k]
  BY <1>3
<1> QED BY <1>4, <1>5, <1>6, RisingOrder

LEMMA PlacedOrder ==
  ASSUME NEW w, GoodStrip(w), NEW i \in 1..(Len(w.tabs) + 1), NEW t,
         NEW v, GoodStrip(v), v.tabs = With(w.tabs, i, t)
  PROVE  SameOrder(w, v)
<1> DEFINE n == Len(w.tabs) + 1
<1>1. w.tabs \in Seq(Tab) /\ DOMAIN w.tabs = 1..Len(w.tabs) /\ i \in Nat /\ Len(w.tabs) \in Nat
  BY DEF GoodStrip, Window
<1>2. v.tabs = [j \in 1..n |-> IF j < i THEN w.tabs[j] ELSE IF j = i THEN t ELSE w.tabs[j - 1]]
  BY DEF With
<1>3. PICK to : to = [j \in DOMAIN w.tabs |-> IF j < i THEN j ELSE j + 1]
  OBVIOUS
<1>4. DOMAIN v.tabs = 1..n
  BY <1>2
<1>5. to \in [DOMAIN w.tabs -> DOMAIN v.tabs]
  BY <1>1, <1>3, <1>4
<1>6. ASSUME NEW j \in DOMAIN w.tabs
      PROVE  v.tabs[to[j]] = w.tabs[j]
  <2>1. CASE j < i
    BY <2>1, <1>1, <1>2, <1>3
  <2>2. CASE ~(j < i)
    <3>1. to[j] = j + 1 /\ ~(j + 1 < i) /\ j + 1 # i /\ (j + 1) - 1 = j /\ j + 1 \in 1..n
      BY <2>2, <1>1, <1>3
    <3> QED BY <3>1, <1>2
  <2> QED BY <2>1, <2>2
<1>7. \A j, k \in DOMAIN w.tabs : j < k => to[j] < to[k]
  BY <1>1, <1>3
<1> QED BY <1>5, <1>6, <1>7, RisingOrder

\* move_tab: the tab that is shown before and after is the one whose place
\* changes.
LEMMA MovedOrder ==
  ASSUME NEW w, GoodStrip(w), NEW i \in DOMAIN w.tabs, NEW b \in BOOLEAN,
         NEW v, v = SetActiveWithoutSaving(
                      InsertAt(DoRemoveIdx(w, w.active, b), i, GetActive(w)), i)
  PROVE  /\ GetActive(v) = GetActive(w)
         /\ \A x, y \in Listed(w) :
              GetActive(w) \notin {x, y} =>
                ((IdxById(w, x) < IdxById(w, y)) <=> (IdxById(v, x) < IdxById(v, y)))
<1> DEFINE r == DoRemoveIdx(w, w.active, b)
           a == GetActive(w)
           s == With(r.tabs, i, a)
<1>1. /\ w.tabs \in Seq(Tab) /\ DOMAIN w.tabs = 1..Len(w.tabs)
      /\ w.active \in DOMAIN w.tabs /\ a = w.tabs[w.active]
  BY DEF GoodStrip, Window, GetActive
<1>2. /\ GoodStrip(r)
      /\ r.tabs = Without(w.tabs, w.active)
      /\ Listed(r) = Listed(w) \ {a}
  BY <1>1, RemoveFacts
<1>3. Len(r.tabs) = Len(w.tabs) - 1
  BY <1>1, <1>2, WithoutFacts DEF GoodStrip
<1>4. GoodStrip(v) /\ Listed(v) = Listed(w)
  BY MoveFacts
<1> HIDE DEF r, a, s
<1>5. v = [[r EXCEPT !.tabs = s] EXCEPT !.active = i]
  BY DEF SetActiveWithoutSaving, InsertAt, r, a, s
<1>6. r \in Window
  BY <1>2 DEF GoodStrip
<1>7. v.tabs = s /\ v.active = i
  BY <1>5, <1>6 DEF Window
<1>8. i \in 1..(Len(r.tabs) + 1)
  BY <1>1, <1>3
<1>9. SameOrder(r, w)
  BY <1>1, <1>2, RemovedOrder
<1>10. SameOrder(r, v)
  BY <1>2, <1>4, <1>7, <1>8, PlacedOrder DEF s
<1>11. GetActive(v) = a
  <2>1. s = [j \in 1..(Len(r.tabs) + 1) |->
               IF j < i THEN r.tabs[j] ELSE IF j = i THEN a ELSE r.tabs[j - 1]]
    BY DEF s, With
  <2>2. i \in DOMAIN s /\ s[i] = a
    BY <1>1, <1>8, <2>1
  <2> QED BY <1>7, <2>2 DEF GetActive
<1>12. ASSUME NEW x \in Listed(w), NEW y \in Listed(w), a \notin {x, y}
       PROVE  (IdxById(w, x) < IdxById(w, y)) <=> (IdxById(v, x) < IdxById(v, y))
  <2>1. x \in Listed(r) /\ y \in Listed(r)
    BY <1>2, <1>12
  <2>2. (IdxById(r, x) < IdxById(r, y)) <=> (IdxById(w, x) < IdxById(w, y))
    BY <1>9, <2>1 DEF SameOrder
  <2>3. (IdxById(r, x) < IdxById(r, y)) <=> (IdxById(v, x) < IdxById(v, y))
    BY <1>4, <1>10, <2>1 DEF SameOrder
  <2> QED BY <2>2, <2>3
<1> QED BY <1>11, <1>12 DEF a

-----------------------------------------------------------------------------
(* The specification.                                                      *)

LEMMA InitInv == Init => Inv
BY DEF Init, Inv, GoodStrip, Window, Listed, Range, IsInjective

\* What ActiveTabFollowed says of one step.
Follows ==
  Listed(win') # Listed(win) /\ GetActive(win) \in Listed(win')
    => GetActive(win') = GetActive(win)

\* Every step keeps the strip good and follows the shown tab.
LEMMA StepFacts ==
  ASSUME Inv, [Next]_vars
  PROVE  Inv' /\ Follows
<1>1. GoodStrip(win) /\ \A t \in Listed(win) : t \in Tab
  BY DEF Inv, GoodStrip, Window, Listed, Range
<1>2. ASSUME NEW t \in Tab, AddTab(t)
      PROVE  Inv' /\ Follows
  <2>1. /\ GoodStrip(win')
        /\ Listed(win') = Listed(win) \cup {t}
        /\ win.tabs # <<>> => GetActive(win') = GetActive(win)
    BY <1>1, <1>2, PushFacts DEF AddTab
  <2>2. win.tabs = <<>> => GetActive(win) = NoTab
    BY DEF GetActive
  <2>3. \A u \in Listed(win') : u # NoTab
    BY <1>1, <2>1, TabAssumption
  <2> QED BY <1>2, <2>1, <2>2, <2>3 DEF Inv, Follows, AddTab, Idle
<1>3. ASSUME NEW t \in Tab, ActivateSpawned(t) \/ ActivateWithoutSaving(t)
      PROVE  Inv' /\ Follows
  <2>1. IdxById(win, t) \in DOMAIN win.tabs
    BY <1>3, IdxFacts DEF ActivateSpawned, ActivateWithoutSaving
  <2>2. GoodStrip(win') /\ win'.tabs = win.tabs
    BY <1>1, <1>3, <2>1, SetActiveGood DEF ActivateSpawned, ActivateWithoutSaving
  <2> QED BY <1>3, <2>2
          DEF Inv, Follows, Listed, ActivateSpawned, ActivateWithoutSaving, Idle
<1>4. ASSUME ActivateLastTab
      PROVE  Inv' /\ Follows
  <2>1. IdxById(win, win.last) \in DOMAIN win.tabs
    BY <1>4, IdxFacts DEF ActivateLastTab
  <2>2. GoodStrip(win') /\ win'.tabs = win.tabs
    BY <1>1, <1>4, <2>1, SetActiveGood DEF ActivateLastTab
  <2> QED BY <1>4, <2>2 DEF Inv, Follows, Listed, ActivateLastTab, Idle
<1>5. ASSUME NEW i \in DOMAIN win.tabs, MoveTab(i)
      PROVE  Inv' /\ Follows
  <2>1. GoodStrip(win') /\ Listed(win') = Listed(win)
    BY <1>1, <1>5, MoveFacts, SettingsAssumption DEF MoveTab
  <2> QED BY <1>5, <2>1 DEF Inv, Follows, MoveTab, Idle
<1>6. ASSUME NEW t \in Tab, RemoveTab(t)
      PROVE  Inv' /\ Follows
  <2>1. PICK b \in BOOLEAN : win' = DoRemoveIdx(win, IdxById(win, t), b)
    BY <1>6, SettingsAssumption DEF RemoveTab
  <2>2. IdxById(win, t) \in DOMAIN win.tabs /\ win.tabs[IdxById(win, t)] = t
    BY <1>6, IdxFacts DEF RemoveTab
  <2>3. /\ GoodStrip(win')
        /\ Listed(win') = Listed(win) \ {t}
        /\ GetActive(win) # t => GetActive(win') = GetActive(win)
    BY <1>1, <2>1, <2>2, RemoveFacts
  <2>4. doomed' = doomed /\ pass' = pass /\ doomed = {}
    BY <1>6 DEF RemoveTab, Idle, Inv
  <2> QED BY <2>3, <2>4 DEF Inv, Follows
<1>7. ASSUME NEW dead \in SUBSET Listed(win), PruneBegin(dead)
      PROVE  Inv' /\ Follows
  BY <1>7 DEF Inv, Follows, PruneBegin
<1>8. ASSUME PruneOne
      PROVE  Inv' /\ Follows
  <2>1. PICK i \in DOMAIN win.tabs, b \in BOOLEAN :
          /\ win' = DoRemoveIdx(win, i, b)
          /\ doomed' = doomed \ {win.tabs[i]}
          /\ pass' = pass
    BY <1>8, SettingsAssumption DEF PruneOne
  <2>2. /\ GoodStrip(win')
        /\ Listed(win') = Listed(win) \ {win.tabs[i]}
        /\ GetActive(win) # win.tabs[i] => GetActive(win') = GetActive(win)
    BY <1>1, <2>1, RemoveFacts
  <2> QED BY <2>1, <2>2 DEF Inv, Follows
<1>9. ASSUME NEW live \in SUBSET Listed(win), PruneNotLive(live)
      PROVE  Inv' /\ Follows
  BY <1>9 DEF Inv, Follows, PruneNotLive
<1>10. ASSUME PruneEnd
       PROVE  Inv' /\ Follows
  BY <1>10 DEF Inv, Follows, PruneEnd
<1>11. ASSUME UNCHANGED vars
       PROVE  Inv' /\ Follows
  BY <1>11 DEF Inv, Follows, vars
<1> QED BY <1>2, <1>3, <1>4, <1>5, <1>6, <1>7, <1>8, <1>9, <1>10, <1>11 DEF Next

LEMMA InvImpliesShown == Inv => ShownTabExists
BY DEF Inv, GoodStrip, ShownTabExists, TypeOK, NoTabTwice, ActiveIsListed

\* For every set of tabs: the types, no tab is listed twice, and a window that
\* lists a tab shows one of its tabs, through removals and prunes of any length.
THEOREM ShownTabAlways == Spec => [](TypeOK /\ NoTabTwice /\ ActiveIsListed)
<1>1. Inv /\ [Next]_vars => Inv'
  BY StepFacts
<1>2. Inv => TypeOK /\ NoTabTwice /\ ActiveIsListed
  BY InvImpliesShown DEF ShownTabExists
<1> QED BY InitInv, <1>1, <1>2, PTL DEF Spec

\* The strip is a sequence of tabs, and a prune takes only listed ones, for
\* every set of tabs.
THEOREM TabsTyped == Spec => []TypeOK
<1> QED BY ShownTabAlways, PTL

\* No tab is ever listed twice, for every set of tabs.
THEOREM NeverListedTwice == Spec => []NoTabTwice
<1> QED BY ShownTabAlways, PTL

\* For every set of tabs: tabs that come and go never change which of the
\* others is shown.
THEOREM ShownTabFollowed == Spec => ActiveTabFollowed
<1>1. Inv /\ [Next]_vars => Inv'
  BY StepFacts
<1>2. Inv /\ [Next]_vars =>
        [Listed(win') # Listed(win) /\ GetActive(win) \in Listed(win')
           => GetActive(win') = GetActive(win)]_vars
  BY StepFacts DEF Follows
<1> QED BY InitInv, <1>1, <1>2, PTL DEF Spec, ActiveTabFollowed

\* What OrderKept says of one step.
Ordered ==
  \A a, b \in Listed(win) \cap Listed(win') :
    (IdxById(win, a) < IdxById(win, b)) # (IdxById(win', a) < IdxById(win', b))
      => GetActive(win) \in {a, b} /\ GetActive(win') = GetActive(win)

LEMMA SameIsOrdered ==
  ASSUME SameOrder(win, win') \/ SameOrder(win', win)
  PROVE  Ordered
BY DEF SameOrder, Ordered

\* Every step but a move keeps the order of all tabs.
LEMMA StepOrdered ==
  ASSUME Inv, [Next]_vars
  PROVE  Ordered
<1>1. GoodStrip(win) /\ GoodStrip(win')
  BY StepFacts DEF Inv
<1>2. ASSUME NEW t \in Tab, AddTab(t)
      PROVE  Ordered
  <2>1. win'.tabs = Append(win.tabs, t)
    BY <1>1, <1>2 DEF AddTab, Push, GoodStrip, Window
  <2> QED BY <1>1, <2>1, PushedOrder, SameIsOrdered
<1>3. ASSUME NEW t \in Tab, ActivateSpawned(t) \/ ActivateWithoutSaving(t)
      PROVE  Ordered
  <2>1. IdxById(win, t) \in DOMAIN win.tabs
    BY <1>3, IdxFacts DEF ActivateSpawned, ActivateWithoutSaving
  <2>2. win'.tabs = win.tabs
    BY <1>1, <1>3, <2>1, SetActiveGood DEF ActivateSpawned, ActivateWithoutSaving
  <2> QED BY <2>2, UnmovedOrder, SameIsOrdered
<1>4. ASSUME ActivateLastTab
      PROVE  Ordered
  <2>1. IdxById(win, win.last) \in DOMAIN win.tabs
    BY <1>4, IdxFacts DEF ActivateLastTab
  <2>2. win'.tabs = win.tabs
    BY <1>1, <1>4, <2>1, SetActiveGood DEF ActivateLastTab
  <2> QED BY <2>2, UnmovedOrder, SameIsOrdered
<1>5. ASSUME NEW i \in DOMAIN win.tabs, MoveTab(i)
      PROVE  Ordered
  <2>1. PICK b \in BOOLEAN :
          win' = SetActiveWithoutSaving(
                   InsertAt(DoRemoveIdx(win, win.active, b), i, GetActive(win)), i)
    BY <1>5, SettingsAssumption DEF MoveTab
  <2>2. /\ GetActive(win') = GetActive(win)
        /\ \A x, y \in Listed(win) :
             GetActive(win) \notin {x, y} =>
               ((IdxById(win, x) < IdxById(win, y)) <=> (IdxById(win', x) < IdxById(win', y)))
    BY <1>1, <2>1, MovedOrder
  <2> QED BY <2>2 DEF Ordered
<1>6. ASSUME NEW i \in DOMAIN win.tabs, NEW b \in BOOLEAN, win' = DoRemoveIdx(win, i, b)
      PROVE  Ordered
  <2>1. win'.tabs = Without(win.tabs, i)
    BY <1>1, <1>6, RemoveFacts
  <2> QED BY <1>1, <2>1, RemovedOrder, SameIsOrdered
<1>7. ASSUME NEW t \in Tab, RemoveTab(t)
      PROVE  Ordered
  <2>1. PICK b \in BOOLEAN : win' = DoRemoveIdx(win, IdxById(win, t), b)
    BY <1>7, SettingsAssumption DEF RemoveTab
  <2>2. IdxById(win, t) \in DOMAIN win.tabs
    BY <1>7, IdxFacts DEF RemoveTab
  <2> QED BY <1>6, <2>1, <2>2
<1>8. ASSUME PruneOne
      PROVE  Ordered
  <2>1. PICK i \in DOMAIN win.tabs, b \in BOOLEAN : win' = DoRemoveIdx(win, i, b)
    BY <1>8, SettingsAssumption DEF PruneOne
  <2> QED BY <1>6, <2>1
<1>9. ASSUME UNCHANGED win
      PROVE  Ordered
  BY <1>9 DEF Ordered
<1> QED BY <1>2, <1>3, <1>4, <1>5, <1>7, <1>8, <1>9
        DEF Next, PruneBegin, PruneNotLive, PruneEnd, vars

\* For every set of tabs: whatever comes and goes, two tabs that stay on the
\* strip keep their order, unless one of them is the shown tab that is moved.
THEOREM OrderAlwaysKept == Spec => OrderKept
<1>1. Inv /\ [Next]_vars => Inv'
  BY StepFacts
<1>2. Inv /\ [Next]_vars =>
        [\A a, b \in Listed(win) \cap Listed(win') :
           (IdxById(win, a) < IdxById(win, b)) # (IdxById(win', a) < IdxById(win', b))
             => GetActive(win) \in {a, b} /\ GetActive(win') = GetActive(win)]_vars
  BY StepOrdered DEF Ordered
<1> QED BY InitInv, <1>1, <1>2, PTL DEF Spec, OrderKept
=============================================================================
