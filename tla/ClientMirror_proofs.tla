------------------------- MODULE ClientMirror_proofs -------------------------
(***************************************************************************)
(* Proofs about ClientMirror, for any number of panes, tabs, windows,      *)
(* requests and messages on their way: type correctness, one pane here     *)
(* for each of the server's, and no kill but of what the user has closed.  *)
(*                                                                         *)
(* Three invariants, the others inductive given the first:                 *)
(*                                                                         *)
(*   Justified  every message says what is so: a removed pane is told, a   *)
(*              list names panes there have been, a request to kill is     *)
(*              for a pane the user closed, what a task removes was        *)
(*              closed or told. The answer to a spawn or split names a     *)
(*              pane that nothing here stands for yet, and no list before  *)
(*              it in the inbox names that pane (Ordered): so nobody       *)
(*              makes a second pane for it, and its first one is in the    *)
(*              map.                                                       *)
(*   Kept       Justified; messages and requests of the protocol and a     *)
(*              mux of the right shape (Written); and each request that    *)
(*              waits is with the server or its answer is in the inbox     *)
(*              (Tally), which is what bounds local.busy.                  *)
(*   Registered only panes are told, and only requests with the server     *)
(*              open windows.                                              *)
(*                                                                         *)
(* Each operation on the client's mux is first described field by field,   *)
(* then by what it preserves, so that the actions are combinations.        *)
(***************************************************************************)
EXTENDS ClientMirror, SequenceLemmas

\* The client's mux is a record of these fields
Fields == {"panes", "dead", "tabs", "windows", "paneMap", "tabMap", "windowMap",
           "busy", "took", "killed"}

Mirror(l) == DOMAIN l = Fields

-----------------------------------------------------------------------------
(* The operations on the client's mux, field by field.                     *)

\* m is l but for the tabs, windows and maps of those
SamePanes(l, m) ==
  /\ Mirror(m)
  /\ m.panes = l.panes /\ m.dead = l.dead /\ m.paneMap = l.paneMap
  /\ m.took = l.took /\ m.killed = l.killed

\* Nobody is asked to kill, and what is let go is dead or not in the mux
Prunes(l, m) ==
  /\ Mirror(m)
  /\ m.panes \subseteq l.panes
  /\ m.dead = l.dead /\ m.paneMap = l.paneMap /\ m.killed = l.killed
  /\ \A p \in m.took : p \in l.took \/ p \notin l.panes \/ p \in l.dead

LEMMA PrunedParts ==
  ASSUME NEW l, Mirror(l)
  PROVE  Prunes(l, Pruned(l))
  <1> DEFINE listed == TabsOf(l, DOMAIN l.windows)
             stay(t) == IF t \in listed THEN l.tabs[t] \cap (l.panes \ l.dead) ELSE l.tabs[t]
             alive == {t \in DOMAIN l.tabs : ~(stay(t) \subseteq l.dead)}
  <1>1. CASE l.busy > 0 BY <1>1 DEF Pruned, Prunes
  <1>2. CASE ~(l.busy > 0)
    <2>1. Mirror(Pruned(l)) BY <1>2 DEF Pruned, Mirror, Fields
    <2>2. /\ Pruned(l).dead = l.dead /\ Pruned(l).paneMap = l.paneMap
          /\ Pruned(l).killed = l.killed
      BY <1>2 DEF Pruned, Mirror, Fields
    <2>3. Pruned(l).panes = l.panes \ PanesOf(l, DOMAIN l.tabs \ (alive \cup listed))
      BY <1>2 DEF Pruned, Mirror, Fields
    <2>4. Pruned(l).took = l.took \cup UNION {l.tabs[t] \ stay(t) : t \in DOMAIN l.tabs}
      BY <1>2 DEF Pruned, Mirror, Fields
    <2> HIDE DEF alive, listed
    <2>5. \A p \in Pruned(l).took : p \in l.took \/ p \notin l.panes \/ p \in l.dead
      BY <2>4
    <2> QED BY <2>1, <2>2, <2>3, <2>5 DEF Prunes
  <1> QED BY <1>1, <1>2

\* The panes are gone from the mux, and the server is asked to kill them, unless
\* the domain is detached
Removes(l, panes, state, m) ==
  /\ Mirror(m)
  /\ m.panes = l.panes \ panes
  /\ m.dead = l.dead /\ m.paneMap = l.paneMap /\ m.took = l.took
  /\ m.killed = l.killed \cup Killed(l, panes, state)

LEMMA RemovePanesParts ==
  ASSUME NEW l, Mirror(l), NEW panes, NEW state
  PROVE  Removes(l, panes, state, RemovePanes(l, panes, state))
  BY DEF RemovePanes, Removes, Mirror, Fields

LEMMA RemoveTabsParts ==
  ASSUME NEW l, Mirror(l), NEW ts, NEW state
  PROVE  Removes(l, PanesOf(l, ts), state, RemoveTabs(l, ts, state))
  <1> DEFINE m == [l EXCEPT !.tabs = Restrict(@, DOMAIN @ \ ts),
                            !.windows = [w \in DOMAIN @ |-> @[w] \ ts]]
  <1>1. SamePanes(l, m) BY DEF SamePanes, Mirror, Fields
  <1>2. RemoveTabs(l, ts, state) = RemovePanes(m, PanesOf(l, ts), state)
    BY DEF RemoveTabs
  <1> HIDE DEF m
  <1>3. Removes(m, PanesOf(l, ts), state, RemoveTabs(l, ts, state))
    BY <1>1, <1>2, RemovePanesParts DEF SamePanes
  <1> QED BY <1>1, <1>3 DEF SamePanes, Removes, Killed

LEMMA DetachedParts ==
  ASSUME NEW l, Mirror(l)
  PROVE  /\ Mirror(Detached(l))
         /\ Detached(l).panes = {}
         /\ Detached(l).dead = l.dead /\ Detached(l).paneMap = l.paneMap
         /\ Detached(l).killed = l.killed
  <1> DEFINE k == [l EXCEPT !.tabs = [t \in DOMAIN @ |->
                                        IF t \in TabsOf(l, DOMAIN l.windows) THEN {} ELSE @[t]]]
             m == RemovePanes(k, l.panes, "detached")
  <1>1. SamePanes(l, k) BY DEF SamePanes, Mirror, Fields
  <1>2. Removes(k, l.panes, "detached", m)
    <2> HIDE DEF k
    <2> QED BY <1>1, RemovePanesParts DEF SamePanes
  <1>3. Detached(l) = Pruned(m) BY DEF Detached
  <1> HIDE DEF k, m
  <1>4. Prunes(m, Pruned(m)) BY <1>2, PrunedParts DEF Removes
  <1>5. m.panes = {} /\ m.killed = l.killed /\ m.dead = l.dead /\ m.paneMap = l.paneMap
    BY <1>1, <1>2 DEF SamePanes, Removes, Killed
  <1> QED BY <1>3, <1>4, <1>5 DEF Prunes

LEMMA ExpiredParts ==
  ASSUME NEW l, Mirror(l)
  PROVE  /\ Mirror(Expired(l))
         /\ Expired(l).panes = l.panes /\ Expired(l).dead = l.dead
         /\ Expired(l).took = l.took /\ Expired(l).killed = l.killed
         /\ \A r \in DOMAIN Expired(l).paneMap :
              r \in DOMAIN l.paneMap /\ Expired(l).paneMap[r] = l.paneMap[r]
  <1> DEFINE keep == {r \in DOMAIN l.paneMap : l.paneMap[r] \in l.panes}
  <1>1. Mirror(Expired(l)) BY DEF Expired, Mirror, Fields
  <1>2. /\ Expired(l).panes = l.panes /\ Expired(l).dead = l.dead
        /\ Expired(l).took = l.took /\ Expired(l).killed = l.killed
    BY DEF Expired, Mirror, Fields
  <1>3. Expired(l).paneMap = Restrict(l.paneMap, keep)
    BY DEF Expired, Mirror, Fields
  <1>4. \A r \in DOMAIN Expired(l).paneMap :
          r \in DOMAIN l.paneMap /\ Expired(l).paneMap[r] = l.paneMap[r]
    BY <1>3 DEF Restrict
  <1> QED BY <1>1, <1>2, <1>4

\* The map leads from a remote pane to a copy of it
Faithful(l) == \A r \in DOMAIN l.paneMap : l.paneMap[r][1] = r

LEMMA FindParts ==
  ASSUME NEW l, Faithful(l), NEW r, Find(l, r) # None
  PROVE  Find(l, r)[1] = r
  BY DEF Find, Faithful

LEMMA FoundParts ==
  ASSUME NEW l, Mirror(l), Faithful(l), NEW r
  PROVE  /\ Mirror(Found(l, r))
         /\ Found(l, r).panes = l.panes /\ Found(l, r).dead = l.dead
         /\ Found(l, r).took = l.took /\ Found(l, r).killed = l.killed
         /\ Faithful(Found(l, r))
         /\ \A x \in DOMAIN Found(l, r).paneMap :
              \/ x \in DOMAIN l.paneMap /\ Found(l, r).paneMap[x] = l.paneMap[x]
              \/ x = r /\ Find(l, r) # None /\ Found(l, r).paneMap[x] = Find(l, r)
  <1>1. CASE Find(l, r) = None BY <1>1 DEF Found
  <1>2. CASE Find(l, r) # None
    <2> DEFINE D == DOMAIN l.paneMap \cup {r}
    <2>1. Mirror(Found(l, r)) BY <1>2 DEF Found, Mirror, Fields
    <2>2. /\ Found(l, r).panes = l.panes /\ Found(l, r).dead = l.dead
          /\ Found(l, r).took = l.took /\ Found(l, r).killed = l.killed
      BY <1>2 DEF Found, Mirror, Fields
    <2>3. Found(l, r).paneMap = [x \in D |-> IF x = r THEN Find(l, r) ELSE l.paneMap[x]]
      BY <1>2 DEF Found, Mirror, Fields
    <2>4. \A x \in DOMAIN Found(l, r).paneMap :
            \/ x \in DOMAIN l.paneMap /\ Found(l, r).paneMap[x] = l.paneMap[x]
            \/ x = r /\ Find(l, r) # None /\ Found(l, r).paneMap[x] = Find(l, r)
      BY <1>2, <2>3
    <2>5. Faithful(Found(l, r)) BY <1>2, <2>4, FindParts DEF Faithful
    <2> QED BY <2>1, <2>2, <2>4, <2>5
  <1> QED BY <1>1, <1>2

\* A pane that the server has removed is dead here, if it is here at all
LEMMA PaneGoneParts ==
  ASSUME NEW l, Mirror(l), Faithful(l), None \notin l.panes, NEW r
  PROVE  /\ Mirror(PaneGone(l, r))
         /\ PaneGone(l, r).panes \subseteq l.panes
         /\ PaneGone(l, r).killed = l.killed
         /\ Faithful(PaneGone(l, r))
         /\ \A p \in PaneGone(l, r).dead : p \in l.dead \/ p[1] = r
         /\ \A p \in PaneGone(l, r).took :
              p \in l.took \/ p \notin l.panes \/ p \in PaneGone(l, r).dead
         /\ \A x \in DOMAIN PaneGone(l, r).paneMap :
              \/ x \in DOMAIN l.paneMap /\ PaneGone(l, r).paneMap[x] = l.paneMap[x]
              \/ x = r /\ Find(l, r) \in l.panes /\ PaneGone(l, r).paneMap[x] = Find(l, r)
  <1>1. CASE Find(l, r) \notin l.panes BY <1>1 DEF PaneGone
  <1>2. CASE Find(l, r) \in l.panes
    <2> DEFINE f == Found(l, r)
               k == [f EXCEPT !.dead = @ \cup {Find(l, r)}]
    <2>1. Find(l, r) # None /\ Find(l, r)[1] = r BY <1>2, FindParts
    <2>2. /\ Mirror(f)
          /\ f.panes = l.panes /\ f.dead = l.dead
          /\ f.took = l.took /\ f.killed = l.killed
          /\ Faithful(f)
          /\ \A x \in DOMAIN f.paneMap :
               \/ x \in DOMAIN l.paneMap /\ f.paneMap[x] = l.paneMap[x]
               \/ x = r /\ Find(l, r) # None /\ f.paneMap[x] = Find(l, r)
      BY FoundParts
    <2>3. /\ Mirror(k)
          /\ k.panes = f.panes /\ k.took = f.took /\ k.killed = f.killed
          /\ k.dead = f.dead \cup {Find(l, r)} /\ k.paneMap = f.paneMap
      <3> HIDE DEF f
      <3> QED BY <2>2 DEF Mirror, Fields
    <2>4. PaneGone(l, r) = Expired(Pruned(k)) BY <1>2 DEF PaneGone
    <2> HIDE DEF f, k
    <2>5. Prunes(k, Pruned(k)) BY <2>3, PrunedParts
    <2>6. PICK m : m = Pruned(k) OBVIOUS
    <2>7. /\ Mirror(Expired(m))
          /\ Expired(m).panes = m.panes /\ Expired(m).dead = m.dead
          /\ Expired(m).took = m.took /\ Expired(m).killed = m.killed
          /\ \A x \in DOMAIN Expired(m).paneMap :
               x \in DOMAIN m.paneMap /\ Expired(m).paneMap[x] = m.paneMap[x]
      BY <2>5, <2>6, ExpiredParts DEF Prunes
    <2>8. PICK g : g = PaneGone(l, r) OBVIOUS
    <2>9. /\ Mirror(g) /\ g.panes \subseteq k.panes /\ g.killed = k.killed
          /\ g.dead = k.dead
          /\ \A p \in g.took : p \in k.took \/ p \notin k.panes \/ p \in k.dead
          /\ \A x \in DOMAIN g.paneMap : x \in DOMAIN k.paneMap /\ g.paneMap[x] = k.paneMap[x]
      BY <2>4, <2>5, <2>6, <2>7, <2>8 DEF Prunes
    <2>10. Faithful(g) BY <2>2, <2>3, <2>9 DEF Faithful
    <2>11. \A x \in DOMAIN g.paneMap :
             \/ x \in DOMAIN l.paneMap /\ g.paneMap[x] = l.paneMap[x]
             \/ x = r /\ Find(l, r) \in l.panes /\ g.paneMap[x] = Find(l, r)
      BY <1>2, <2>2, <2>3, <2>9
    <2>12. \A p \in g.dead : p \in l.dead \/ p[1] = r BY <2>1, <2>2, <2>3, <2>9
    <2>13. \A p \in g.took : p \in l.took \/ p \notin l.panes \/ p \in g.dead
      BY <2>2, <2>3, <2>9
    <2> QED BY <2>2, <2>3, <2>8, <2>9, <2>10, <2>11, <2>12, <2>13
  <1> QED BY <1>1, <1>2

-----------------------------------------------------------------------------
(* What the invariant says of the parts of the state.  Made is what the     *)
(* server has ever had of panes, told what its mux has removed.             *)

Made == {r \in Pane : at[r] # None}

\* The client's mux has one pane for a remote pane, and the map leads to it
Calm(l, M, G) ==
  /\ Mirror(l)
  /\ Faithful(l)
  /\ l.panes \subseteq LocalPane
  /\ \A p, q \in l.panes : p[1] = q[1] => p = q
  /\ \A p \in l.panes : p[1] \in DOMAIN l.paneMap => l.paneMap[p[1]] = p
  /\ \A p \in l.panes : p[1] \in M
  /\ \A r \in DOMAIN l.paneMap : r \in M
  /\ \A p \in l.dead : p[1] \in G

\* Nothing of the client's mux stands for r
Unheard(l, r) == (\A p \in l.panes : p[1] # r) /\ r \notin DOMAIN l.paneMap

\* What a message to the client says is so
Heard(m, l, M, G, C) ==
  /\ m.type \in {"removed", "output"} => DOMAIN m = {"type", "pane", "posted"}
  /\ m.type = "removed" => m.pane \in G
  /\ m.type = "list" => /\ \A r \in DOMAIN m.panes : r \in M
                        /\ m.why # None => m.why \in G
  /\ m.type = "spawned" => m.pane \in M /\ Unheard(l, m.pane)
  /\ m.type = "remove" => \A p \in m.panes : p[1] \in C \/ p[1] \in G \/ p \notin l.panes

\* What a request of the client says is so
Asked(m, G, C) ==
  /\ m.type \in {"list", "kill"}
  /\ m.type = "list" /\ m.why # None => m.why \in G
  /\ m.type = "kill" => m.pane \in Pane /\ m.pane \in C

\* A pane made for the client is in no list made before, and made once
Ordered(q) ==
  \A m, n : Before(q, m, n) /\ n.type = "spawned" =>
    /\ m.type = "list" => n.pane \notin DOMAIN m.panes
    /\ m.type = "spawned" => m.pane # n.pane

Just(q, s, l, M, G, C) ==
  /\ Queued(q) /\ Queued(s)
  /\ Calm(l, M, G)
  /\ \A m : Member(q, m) => Heard(m, l, M, G, C)
  /\ \A m : Member(s, m) => Asked(m, G, C)
  /\ Ordered(q)

\* The inductive invariant
Justified ==
  /\ at \in [Pane -> Tab \cup {None, Gone}]
  /\ local.took = {} /\ local.killed = {}
  /\ Just(inbox, toServer, local, Made, told, closed)

LEMMA Distinct == None # Gone /\ None \notin Tab /\ Gone \notin Tab
  BY NamesAssumption

\* Time passes on the server
LEMMA ServerStep ==
  ASSUME NEW q, NEW s, NEW l, NEW M, NEW G, NEW C, Just(q, s, l, M, G, C),
         NEW q2, NEW s2, NEW M2, NEW G2,
         M \subseteq M2, G \subseteq G2,
         Queued(q2), Queued(s2), Ordered(q2),
         \A m : Member(q2, m) => Member(q, m) \/ Heard(m, l, M2, G2, C),
         \A m : Member(s2, m) => Member(s, m) \/ Asked(m, G2, C)
  PROVE  Just(q2, s2, l, M2, G2, C)
  <1>1. Calm(l, M2, G2) BY DEF Just, Calm
  <1>2. \A m : Heard(m, l, M, G, C) => Heard(m, l, M2, G2, C)
    <2> SUFFICES ASSUME NEW m, Heard(m, l, M, G, C) PROVE Heard(m, l, M2, G2, C) OBVIOUS
    <2> QED BY DEF Heard
  <1>3. \A m : Asked(m, G, C) => Asked(m, G2, C) BY DEF Asked
  <1> QED BY <1>1, <1>2, <1>3 DEF Just

-----------------------------------------------------------------------------
(* A task is posted.                                                       *)

\* q is p, and perhaps a prune somewhere
Carries(p, q) ==
  /\ Queued(q)
  /\ \A m : Member(q, m) => Member(p, m) \/ m = PruneTask
  /\ \A m, n : Before(q, m, n) => Before(p, m, n) \/ m = PruneTask \/ n = PruneTask

LEMMA PostsParts ==
  ASSUME NEW q, Queued(q), NEW t, NEW p \in Posts(q, t)
  PROVE  /\ Queued(p)
         /\ \A m : Member(p, m) => Member(q, m) \/ m = t
         /\ \A m, n : Before(p, m, n) => Before(q, m, n) \/ m = t \/ n = t
  <1>1. PICK k \in 1..(Len(q) + 1) : p = InsertAt(q, k, t) BY DEF Posts
  <1>2. Queued(InsertAt(q, k, t)) BY InsertParts
  <1> QED BY <1>1, <1>2, InsertMembers

LEMMA CarriesItself ==
  ASSUME NEW q, Queued(q)
  PROVE  Carries(q, q)
  BY DEF Carries

LEMMA PruneCarried ==
  ASSUME NEW p, Queued(p), NEW q \in Posts(p, PruneTask)
  PROVE  Carries(p, q)
  BY PostsParts DEF Carries

LEMMA RestCarried ==
  ASSUME NEW p, Queued(p), p # <<>>, NEW q, Carries(Tail(p), q)
  PROVE  /\ Carries(p, q)
         /\ \A m : Member(q, m) => Before(p, Head(p), m) \/ m = PruneTask
  BY TailMembers DEF Carries

LEMMA CarriedOrder ==
  ASSUME NEW p, NEW q, Carries(p, q), Ordered(p)
  PROVE  Ordered(q)
  BY DEF Carries, Ordered, PruneTask

\* What the client's mux becomes after a handler is as the invariant says if the
\* handler's result is, and what it lets go or kills is closed or told
LEMMA Becoming ==
  ASSUME Justified, NEW l, NEW q, Becomes(l, q), UNCHANGED <<at, told>>, closed \subseteq closed',
         Carries(inbox, q), Calm(l, Made, told),
         \A p \in l.panes : \/ p \in local.panes
                            \/ \A m : Member(inbox, m) /\ m.type = "remove" => p \notin m.panes,
         \A m : Member(q, m) /\ m.type = "spawned" => Unheard(l, m.pane),
         \A p \in l.took : p[1] \in closed' \/ p[1] \in told \/ p \notin l.panes,
         \A r \in l.killed : r \in Pane /\ (r \in closed' \/ r \in told)
  PROVE  Justified'
  <1> DEFINE K == l.killed \ told
             t == Removals(l.took)
  <1>1. /\ inbox' \in Post(q, l.took)
        /\ toServer' = toServer \o SetToSeq({Kill(r) : r \in K})
        /\ local' = [l EXCEPT !.took = {}, !.killed = {}]
    BY DEF Becomes
  <1>2. IsFiniteSet({Kill(r) : r \in K})
    <2>1. IsFiniteSet(K)
      <3>1. K \subseteq Pane OBVIOUS
      <3> QED BY <3>1, FS_Subset, NamesAssumption
    <2> DEFINE f == [r \in K |-> Kill(r)]
               T == {Kill(r) : r \in K}
    <2>2. f \in Surjection(K, T) BY DEF Surjection
    <2> HIDE DEF K, T, f
    <2>3. IsFiniteSet(T) BY <2>1, <2>2, FS_Surjection
    <2> QED BY <2>3 DEF T
  <1>3. \A m : Member(SetToSeq({Kill(r) : r \in K}), m) =>
          m.type = "kill" /\ m.pane \in Pane /\ m.pane \in closed'
    <2>1. SUFFICES ASSUME NEW m, Member(SetToSeq({Kill(r) : r \in K}), m)
                   PROVE  m.type = "kill" /\ m.pane \in Pane /\ m.pane \in closed'
      OBVIOUS
    <2>2. PICK r \in K : m = Kill(r) BY <1>2, <2>1, SetToSeqParts
    <2>3. r \in Pane /\ r \in closed' BY <2>2
    <2> QED BY <2>2, <2>3 DEF Kill
  <1>4. Queued(toServer) /\ Queued(SetToSeq({Kill(r) : r \in K}))
    BY <1>2, SetToSeqParts DEF Justified, Just
  <1>5. /\ Queued(toServer')
        /\ \A m : Member(toServer', m) => Asked(m, told, closed')
    <2> HIDE DEF K
    <2>1. PICK e : e = SetToSeq({Kill(r) : r \in K}) OBVIOUS
    <2>2. \A m : Member(e, m) => Asked(m, told, closed') BY <1>3, <2>1 DEF Asked
    <2>3. \A m : Member(toServer, m) => Asked(m, told, closed') BY DEF Justified, Just, Asked
    <2>4. Queued(toServer) /\ Queued(e) /\ toServer' = toServer \o e BY <1>1, <1>4, <2>1
    <2> QED BY <2>2, <2>3, <2>4, JoinedMembers
  <1>6. /\ Queued(inbox')
        /\ \A m : Member(inbox', m) => Member(q, m) \/ m = t
        /\ \A m, n : Before(inbox', m, n) => Before(q, m, n) \/ m = t \/ n = t
    <2>1. Queued(q) BY DEF Carries
    <2> HIDE DEF t
    <2>2. CASE inbox' = q BY <2>1, <2>2
    <2>3. CASE inbox' \in Posts(q, t) BY <2>1, <2>3, PostsParts
    <2> QED BY <1>1, <2>2, <2>3 DEF Post, t
  <1>7. /\ Mirror(local')
        /\ local'.took = {} /\ local'.killed = {}
        /\ local'.panes = l.panes /\ local'.dead = l.dead /\ local'.paneMap = l.paneMap
    BY <1>1 DEF Calm, Mirror, Fields
  <1>8. Calm(local', Made, told) BY <1>7 DEF Calm, Faithful
  <1>9. t.type = "remove" /\ t.panes = l.took BY DEF Removals
  <1>10. \A m : Member(inbox', m) => Heard(m, local', Made, told, closed')
    <2> HIDE DEF t
    <2>1. Heard(t, local', Made, told, closed') BY <1>7, <1>9 DEF Heard
    <2>2. SUFFICES ASSUME NEW m, Member(q, m) PROVE Heard(m, local', Made, told, closed')
      BY <1>6, <2>1
    <2>3. CASE m = PruneTask BY <2>3 DEF PruneTask, Heard
    <2>4. CASE Member(inbox, m)
      <3>1. Heard(m, local, Made, told, closed) BY <2>4 DEF Justified, Just
      <3>2. m.type = "spawned" => Unheard(local', m.pane) BY <1>7, <2>2 DEF Unheard
      <3>3. m.type = "remove" =>
              \A p \in m.panes : p[1] \in closed' \/ p[1] \in told \/ p \notin local'.panes
        BY <1>7, <2>4, <3>1 DEF Heard
      <3> QED BY <3>1, <3>2, <3>3 DEF Heard
    <2> QED BY <2>2, <2>3, <2>4 DEF Carries
  <1>11. Ordered(inbox')
    <2>1. Ordered(q) BY CarriedOrder DEF Justified, Just
    <2> HIDE DEF t
    <2> QED BY <1>6, <1>9, <2>1 DEF Ordered
  <1>12. Made' = Made /\ told' = told BY DEF Made
  <1>13. Just(inbox', toServer', local', Made, told, closed')
    BY <1>5, <1>6, <1>8, <1>10, <1>11 DEF Just
  <1>14. Just(inbox, toServer, local, Made, told, closed)' BY <1>12, <1>13
  <1> QED BY <1>7, <1>14 DEF Justified

-----------------------------------------------------------------------------
(* Steps of the server.                                                    *)

\* What has been stays so
Ages ==
  /\ at' \in [Pane -> Tab \cup {None, Gone}]
  /\ \A r \in Pane : at[r] # None => at'[r] # None
  /\ told \subseteq told'

LEMMA Aging ==
  ASSUME Ages
  PROVE  Made \subseteq Made' /\ told \subseteq told'
  BY DEF Ages, Made

LEMMA Put ==
  ASSUME Justified, NEW r \in Pane, NEW t \in Tab \cup {Gone},
         at' = [at EXCEPT ![r] = t], told' = told
  PROVE  Ages
  BY Distinct DEF Justified, Ages

LEMMA StillAged ==
  ASSUME Justified, UNCHANGED <<at, told>>
  PROVE  Ages
  BY DEF Justified, Ages

\* A sweep takes panes from trees, and no more
LEMMA SweptParts ==
  ASSUME NEW a, a \in [Pane -> Tab \cup {None, Gone}], NEW out, NEW b \in Swept(a, out)
  PROVE  /\ b \in [Pane -> Tab \cup {None, Gone}]
         /\ \A r \in Pane : b[r] = a[r] \/ (a[r] \in Tab /\ b[r] = Gone)
  <1> DEFINE left == {r \in out : a[r] \in Tab}
             without(taken) == [r \in Pane |-> IF r \in taken THEN Gone ELSE a[r]]
  <1>1. b = a \/ \E taken \in SUBSET left : b = without(taken) BY DEF Swept
  <1>2. CASE b = a BY <1>2
  <1>3. ASSUME NEW taken \in SUBSET left, b = without(taken)
        PROVE  /\ b \in [Pane -> Tab \cup {None, Gone}]
               /\ \A r \in Pane : b[r] = a[r] \/ (a[r] \in Tab /\ b[r] = Gone)
    BY <1>3
  <1> QED BY <1>1, <1>2, <1>3

LEMMA SweepAges ==
  ASSUME Justified, NEW out, at' \in Swept(at, out), told \subseteq told'
  PROVE  Ages
  <1>1. at \in [Pane -> Tab \cup {None, Gone}] BY DEF Justified
  <1>2. PICK b : b = at' OBVIOUS
  <1>3. /\ b \in [Pane -> Tab \cup {None, Gone}]
        /\ \A r \in Pane : b[r] = at[r] \/ (at[r] \in Tab /\ b[r] = Gone)
    BY <1>1, <1>2, SweptParts
  <1> QED BY <1>2, <1>3, Distinct DEF Ages

\* The server tells the client something, and perhaps has a request behind it
LEMMA Told ==
  ASSUME Justified, Ages, UNCHANGED <<local, closed>>,
         NEW t, inbox' = Append(inbox, t), t.type # "spawned",
         Heard(t, local, Made', told', closed),
         toServer' = toServer \/ (toServer # <<>> /\ toServer' = Tail(toServer))
  PROVE  Justified'
  <1>1. Just(inbox, toServer, local, Made, told, closed) BY DEF Justified
  <1>2. Queued(inbox) /\ Queued(toServer) /\ Ordered(inbox) BY <1>1 DEF Just
  <1>3. Queued(inbox') /\ Queued(toServer')
    <2>1. Queued(inbox') BY <1>2, AppendParts
    <2>2. CASE toServer' = toServer BY <1>2, <2>1, <2>2
    <2>3. CASE toServer # <<>> /\ toServer' = Tail(toServer) BY <1>2, <2>1, <2>3, TailParts
    <2> QED BY <2>2, <2>3
  <1>4. Ordered(inbox') BY <1>2, AppendMembers DEF Ordered
  <1>5. \A m : Member(inbox', m) => Member(inbox, m) \/ Heard(m, local, Made', told', closed)
    BY <1>2, AppendMembers
  <1>6. \A m : Member(toServer', m) => Member(toServer, m) \/ Asked(m, told', closed)
    BY <1>2, TailMembers
  <1>7. Just(inbox', toServer', local, Made', told', closed)
    <2>1. PICK M2, G2 : M2 = Made' /\ G2 = told' OBVIOUS
    <2>2. Made \subseteq M2 /\ told \subseteq G2 BY <2>1, Aging
    <2>3. PICK q2, s2 : q2 = inbox' /\ s2 = toServer' OBVIOUS
    <2>4. /\ Queued(q2) /\ Queued(s2) /\ Ordered(q2)
          /\ \A m : Member(q2, m) => Member(inbox, m) \/ Heard(m, local, M2, G2, closed)
          /\ \A m : Member(s2, m) => Member(toServer, m) \/ Asked(m, G2, closed)
      BY <1>3, <1>4, <1>5, <1>6, <2>1, <2>3
    <2>5. Just(q2, s2, local, M2, G2, closed) BY <1>1, <2>2, <2>4, ServerStep
    <2> QED BY <2>1, <2>3, <2>5
  <1>8. Just(inbox, toServer, local, Made, told, closed)' BY <1>7
  <1> QED BY <1>8 DEF Justified, Ages

\* The server changes and tells nothing
LEMMA Unmoved ==
  ASSUME Justified, Ages, UNCHANGED <<local, closed, inbox>>,
         toServer' = toServer \/ (toServer # <<>> /\ toServer' = Tail(toServer))
  PROVE  Justified'
  <1>1. Just(inbox, toServer, local, Made, told, closed) BY DEF Justified
  <1>2. Queued(inbox) /\ Queued(toServer) /\ Ordered(inbox) BY <1>1 DEF Just
  <1>3. Queued(toServer')
    <2>1. CASE toServer' = toServer BY <1>2, <2>1
    <2>2. CASE toServer # <<>> /\ toServer' = Tail(toServer) BY <1>2, <2>2, TailParts
    <2> QED BY <2>1, <2>2
  <1>4. PICK M2, G2, s2 : M2 = Made' /\ G2 = told' /\ s2 = toServer' OBVIOUS
  <1>5. Queued(s2) /\ \A m : Member(s2, m) => Member(toServer, m) \/ Asked(m, G2, closed)
    BY <1>2, <1>3, <1>4, TailMembers
  <1>6. Made \subseteq M2 /\ told \subseteq G2 BY <1>4, Aging
  <1>7. Just(inbox, s2, local, M2, G2, closed) BY <1>1, <1>2, <1>5, <1>6, ServerStep
  <1>8. Just(inbox, toServer, local, Made, told, closed)' BY <1>4, <1>7
  <1> QED BY <1>8 DEF Justified, Ages

\* A new pane
LEMMA NewPaneParts ==
  ASSUME MorePanes
  PROVE  NewPane \in Pane /\ at[NewPane] = None
  <1>1. \E r \in Pane : r \notin {x \in Pane : at[x] # None} BY DEF MorePanes
  <1> QED BY <1>1 DEF NewPane, Unused

LEMMA NewTabParts ==
  ASSUME MoreTabs
  PROVE  NewTab \in Tab
  <1>1. \E t \in Tab : t \notin {x \in Tab : window[x] # None} BY DEF MoreTabs
  <1> QED BY <1>1 DEF NewTab, Unused

\* The server says several things, perhaps of a pane that it has just made
LEMMA Answered ==
  ASSUME Justified, Ages, UNCHANGED <<local, closed>>,
         toServer' = toServer \/ (toServer # <<>> /\ toServer' = Tail(toServer)),
         NEW e, inbox' = inbox \o e, Queued(e),
         \A m : Member(e, m) =>
           \/ m.type \in {"change", "output", "failed"} /\ Heard(m, local, Made', told', closed)
           \/ m.type = "removed" /\ Heard(m, local, Made', told', closed)
           \/ m.type = "spawned" /\ m.pane \in Pane /\ at[m.pane] = None /\ at'[m.pane] # None,
         \A m, n : Before(e, m, n) => m.type \in {"change", "removed"}
  PROVE  Justified'
  <1>1. Just(inbox, toServer, local, Made, told, closed) BY DEF Justified
  <1>2. Queued(inbox) /\ Queued(toServer) /\ Ordered(inbox) /\ Calm(local, Made, told)
    BY <1>1 DEF Just
  <1>3. \A m : Member(e, m) /\ m.type = "spawned" => m.pane \notin Made /\ m.pane \in Made'
    BY DEF Made
  <1>4. \A m : Member(inbox, m) => Heard(m, local, Made, told, closed) BY <1>1 DEF Just
  <1>5. Ordered(inbox')
    <2> SUFFICES ASSUME NEW m, NEW n, Before(inbox', m, n), n.type = "spawned"
                 PROVE  /\ m.type = "list" => n.pane \notin DOMAIN m.panes
                        /\ m.type = "spawned" => m.pane # n.pane
      BY DEF Ordered
    <2>1. CASE Before(inbox, m, n) BY <1>2, <2>1 DEF Ordered
    <2>2. CASE Before(e, m, n) BY <2>2
    <2>3. CASE Member(inbox, m) /\ Member(e, n)
      <3>1. n.pane \notin Made BY <1>3, <2>3
      <3>2. Heard(m, local, Made, told, closed) BY <1>4, <2>3
      <3> QED BY <3>1, <3>2 DEF Heard
    <2> QED BY <1>2, <2>1, <2>2, <2>3, JoinedMembers
  <1>6. \A r : r \notin Made => Unheard(local, r) BY <1>2 DEF Unheard, Calm
  <1>7. PICK M2, G2 : M2 = Made' /\ G2 = told' OBVIOUS
  <1>8. \A m : Member(e, m) => Heard(m, local, M2, G2, closed)
    BY <1>3, <1>6, <1>7 DEF Heard
  <1>9. PICK q2 : q2 = inbox' OBVIOUS
  <1>10. /\ Queued(q2) /\ Ordered(q2)
         /\ \A m : Member(q2, m) => Member(inbox, m) \/ Heard(m, local, M2, G2, closed)
    BY <1>2, <1>5, <1>8, <1>9, JoinedMembers
  <1>11. Made \subseteq M2 /\ told \subseteq G2 BY <1>7, Aging
  <1>12. PICK s2 : s2 = toServer' OBVIOUS
  <1>13. Queued(s2)
    <2>1. CASE s2 = toServer BY <1>2, <2>1
    <2>2. CASE toServer # <<>> /\ s2 = Tail(toServer) BY <1>2, <2>2, TailParts
    <2> QED BY <1>12, <2>1, <2>2
  <1>14. \A m : Member(s2, m) => Member(toServer, m) \/ Asked(m, G2, closed)
    <2>1. CASE s2 = toServer BY <2>1
    <2>2. CASE toServer # <<>> /\ s2 = Tail(toServer) BY <1>2, <2>2, TailMembers
    <2> QED BY <1>12, <2>1, <2>2
  <1>15. Just(q2, s2, local, M2, G2, closed)
    BY <1>1, <1>10, <1>11, <1>13, <1>14, ServerStep
  <1>16. Just(inbox, toServer, local, Made, told, closed)' BY <1>7, <1>9, <1>12, <1>15
  <1> QED BY <1>16 DEF Justified, Ages

LEMMA PairParts ==
  ASSUME NEW a, NEW b
  PROVE  /\ Queued(<<a, b>>)
         /\ \A m : Member(<<a, b>>, m) => m = a \/ m = b
         /\ \A m, n : Before(<<a, b>>, m, n) => m = a
  <1>1. <<a, b>> \in Seq({a, b}) OBVIOUS
  <1>2. Queued(<<a, b>>) BY <1>1, SeqIsQueued
  <1>3. DOMAIN <<a, b>> = {1, 2} /\ <<a, b>>[1] = a /\ <<a, b>>[2] = b OBVIOUS
  <1> QED BY <1>2, <1>3 DEF Member, Before

LEMMA SingleParts ==
  ASSUME NEW a
  PROVE  /\ Queued(<<a>>)
         /\ \A m : Member(<<a>>, m) => m = a
         /\ \A m, n : ~Before(<<a>>, m, n)
  <1>1. <<a>> \in Seq({a}) OBVIOUS
  <1>2. Queued(<<a>>) BY <1>1, SeqIsQueued
  <1>3. DOMAIN <<a>> = {1} /\ <<a>>[1] = a OBVIOUS
  <1> QED BY <1>2, <1>3 DEF Member, Before

\* A pane that moves leaves a tab, which may go with what else it holds
Moved(r) == [at EXCEPT ![r] = NewTab]
Emptying(r) ==
  [s \in Pane |-> IF s \in {x \in OnServer \ {r} : at[x] = at[r]} THEN Gone ELSE Moved(r)[s]]

LEMMA MoveParts ==
  ASSUME Justified, NEW r \in Pane, NEW w, OtherMoves(r, w)
  PROVE  /\ NewTab \in Tab
         /\ at' \in [Pane -> Tab \cup {None, Gone}]
         /\ at'[r] \in {NewTab, Gone}
         /\ \A x \in Pane \ {r} : at'[x] = at[x] \/ (at[x] \in Tab /\ at'[x] = Gone)
  <1>1. at \in [Pane -> Tab \cup {None, Gone}] BY DEF Justified
  <1>2. NewTab \in Tab BY NewTabParts DEF OtherMoves
  <1>3. PICK a, m, n, out : a = at' /\ m = Moved(r) /\ n = Emptying(r) /\ out = told OBVIOUS
  <1>4. a = m \/ a = n \/ a \in Swept(n, out)
    BY <1>3 DEF OtherMoves, Moved, Emptying
  <1>5. /\ m \in [Pane -> Tab \cup {None, Gone}]
        /\ m[r] = NewTab /\ \A x \in Pane \ {r} : m[x] = at[x]
    BY <1>1, <1>2, <1>3 DEF Moved
  <1>6. /\ n \in [Pane -> Tab \cup {None, Gone}]
        /\ n[r] = NewTab
        /\ \A x \in Pane \ {r} : n[x] = at[x] \/ (at[x] \in Tab /\ n[x] = Gone)
    BY <1>3, <1>5 DEF Emptying, OnServer
  <1>7. ASSUME a \in Swept(n, out)
        PROVE  /\ a \in [Pane -> Tab \cup {None, Gone}]
               /\ \A x \in Pane : a[x] = n[x] \/ (n[x] \in Tab /\ a[x] = Gone)
    BY <1>6, <1>7, SweptParts
  <1>8. a[r] \in {NewTab, Gone} BY <1>4, <1>5, <1>6, <1>7
  <1>9. \A x \in Pane \ {r} : a[x] = at[x] \/ (at[x] \in Tab /\ a[x] = Gone)
    BY <1>4, <1>5, <1>6, <1>7, Distinct
  <1> QED BY <1>2, <1>3, <1>4, <1>5, <1>6, <1>7, <1>8, <1>9

LEMMA MoveAges ==
  ASSUME Justified, NEW r \in Pane, NEW w, OtherMoves(r, w)
  PROVE  Ages
  BY MoveParts, Distinct DEF OtherMoves, Ages

\* A pane is taken out of the server's mux
LEMMA RemovalTold ==
  ASSUME Justified, NEW r, NEW messages, MuxRemoves(r, messages),
         messages \in {<<Removed(r)>>, <<Removed(r), Output(r)>>},
         UNCHANGED <<local, closed>>,
         toServer' = toServer \/ (toServer # <<>> /\ toServer' = Tail(toServer))
  PROVE  Justified'
  <1>1. Ages BY SweepAges DEF MuxRemoves
  <1>2. PICK a, b : a = Removed(r) /\ b = Output(r) OBVIOUS
  <1>3. a.type = "removed" /\ a.pane = r /\ b.type = "output" BY <1>2 DEF Removed, Output
  <1>4. DOMAIN a = {"type", "pane", "posted"} /\ DOMAIN b = {"type", "pane", "posted"}
    BY <1>2 DEF Removed, Output
  <1>5. r \in told' BY DEF MuxRemoves
  <1>6. Heard(a, local, Made', told', closed) /\ Heard(b, local, Made', told', closed)
    BY <1>3, <1>4, <1>5 DEF Heard
  <1>7. PICK e : e = messages OBVIOUS
  <1>8. /\ Queued(e)
        /\ \A m : Member(e, m) => m = a \/ m = b
        /\ \A m, n : Before(e, m, n) => m = a
    <2>1. CASE e = <<a>> BY <2>1, SingleParts
    <2>2. CASE e = <<a, b>> BY <2>2, PairParts
    <2> QED BY <1>2, <1>7, <2>1, <2>2
  <1>9. inbox' = inbox \o e BY <1>7 DEF MuxRemoves
  <1> QED BY <1>1, <1>3, <1>6, <1>8, <1>9, Answered

\* None of what the server does by itself, or of what is asked of it, disturbs it
LEMMA OthersJustified ==
  ASSUME Justified, Others
  PROVE  Justified'
  <1>1. Heard(Change, local, Made', told', closed) /\ Change.type # "spawned"
    BY DEF Heard, Change
  <1>2. ASSUME NEW r \in Pane, NEW w, InNewTab(r, w), told' = told PROVE Ages
    <2>1. NewTab \in Tab BY <1>2, NewTabParts DEF InNewTab
    <2> QED BY <1>2, <2>1, Put DEF InNewTab
  <1>3. ASSUME NEW w \in Window, OtherSpawns(w) \/ OtherOpened(w) PROVE Justified'
    <2>1. NewPane \in Pane BY <1>3, NewPaneParts DEF OtherSpawns, OtherOpened
    <2>2. Ages BY <1>2, <1>3, <2>1 DEF OtherSpawns, OtherOpened
    <2> QED BY <1>1, <1>3, <2>2, Told DEF OtherSpawns, OtherOpened, Tell
  <1>4. ASSUME NEW w \in Window, NEW r \in Pane, OtherMoves(r, w) PROVE Justified'
    <2>1. Ages BY <1>4, MoveAges
    <2> QED BY <1>1, <1>4, <2>1, Told DEF OtherMoves, Tell
  <1>5. ASSUME NEW r \in Pane, OtherSplits(r) PROVE Justified'
    <2>1. NewPane \in Pane BY <1>5, NewPaneParts DEF OtherSplits
    <2>2. at[r] \in Tab BY <1>5 DEF OtherSplits, Known, OnServer
    <2>3. Ages BY <1>5, <2>1, <2>2, Put DEF OtherSplits
    <2> QED BY <1>5, <2>3, Unmoved DEF OtherSplits
  <1>6. ASSUME NEW r \in Pane, PaneExits(r) PROVE Justified'
    <2>1. Ages BY <1>6, Put DEF PaneExits
    <2> QED BY <1>6, <2>1, Unmoved DEF PaneExits
  <1>7. ASSUME NEW r \in Pane, PaneEnds(r) PROVE Justified'
    BY <1>7, RemovalTold DEF PaneEnds
  <1>8. CASE OtherOpens
    <2>1. Ages BY <1>8, StillAged DEF OtherOpens
    <2> QED BY <1>8, <2>1, Unmoved DEF OtherOpens
  <1>9. CASE TabResized
    <2>1. Ages BY <1>9, StillAged DEF TabResized, server
    <2> QED BY <1>1, <1>9, <2>1, Told DEF TabResized, Tell
  <1> QED BY <1>3, <1>4, <1>5, <1>6, <1>7, <1>8, <1>9 DEF Others

LEMMA ServerJustified ==
  ASSUME Justified, ServerWorks
  PROVE  Justified'
  <1>1. CASE ServeList
    <2>1. PICK why : why = Head(toServer).why OBVIOUS
    <2>2. Ages BY <1>1, StillAged DEF ServeList, server
    <2>3. Asked(Head(toServer), told, closed)
      BY <1>1, TailMembers DEF ServeList, Justified, Just
    <2>4. why # None => why \in told' BY <1>1, <2>1, <2>3 DEF ServeList, server, Asked
    <2>5. DOMAIN Panes(why).panes = OnServer /\ Panes(why).type = "list" /\ Panes(why).why = why
      BY DEF Panes, Restrict
    <2>6. \A r \in OnServer : r \in Made' BY <1>1, Distinct DEF OnServer, Made, ServeList, server
    <2>7. Heard(Panes(why), local, Made', told', closed) BY <2>4, <2>5, <2>6 DEF Heard
    <2> QED BY <1>1, <2>1, <2>2, <2>5, <2>7, Told DEF ServeList, Tell
  <1>2. CASE ServeKill
    <2>1. PICK r : r = Head(toServer).pane OBVIOUS
    <2>2. CASE r \in told
      <3>1. Ages BY <1>2, <2>1, <2>2, StillAged DEF ServeKill, server
      <3> QED BY <1>2, <2>1, <2>2, <3>1, Unmoved DEF ServeKill
    <2>3. CASE r \notin told
      <3>1. PICK messages \in {<<Removed(r)>>, <<Removed(r), Output(r)>>} : MuxRemoves(r, messages)
        BY <1>2, <2>1, <2>3 DEF ServeKill
      <3> QED BY <1>2, <3>1, RemovalTold DEF ServeKill
    <2> QED BY <2>2, <2>3
  <1>3. ASSUME NEW r \in Pane, RemovePane(r) PROVE Justified'
    BY <1>3, RemovalTold DEF RemovePane
  <1>4. ASSUME NEW r \in Pane, PaneWrites(r) PROVE Justified'
    <2>1. Ages BY <1>4, StillAged DEF PaneWrites, server
    <2>2. Heard(Output(r), local, Made', told', closed) /\ Output(r).type # "spawned"
      BY DEF Heard, Output
    <2> QED BY <1>4, <2>1, <2>2, Told DEF PaneWrites, Tell
  <1>5. ASSUME NEW request, ServeSpawn(request) PROVE Justified'
    <2>1. NewPane \in Pane /\ at[NewPane] = None BY <1>5, NewPaneParts DEF ServeSpawn
    <2>2. NewTab \in Tab /\ at' = [at EXCEPT ![NewPane] = NewTab]
      BY <1>5, NewTabParts DEF ServeSpawn, InNewTab
    <2>3. Ages BY <1>5, <2>1, <2>2, Put DEF ServeSpawn, Answers
    <2>4. at'[NewPane] # None BY <2>1, <2>2, Distinct DEF Justified
    <2>5. PICK c, a : c = Change /\ a = Spawned(NewPane, NewTab, request) OBVIOUS
    <2>6. c.type = "change" /\ a.type = "spawned" /\ a.pane = NewPane
      BY <2>5 DEF Change, Spawned
    <2>7. inbox' = inbox \o <<c, a>> /\ UNCHANGED <<local, closed, toServer>>
      BY <1>5, <2>5 DEF ServeSpawn, Answers
    <2>8. PICK e : e = <<c, a>> OBVIOUS
    <2>9. /\ Queued(e)
          /\ \A m : Member(e, m) => m = c \/ m = a
          /\ \A m, n : Before(e, m, n) => m = c
      BY <2>8, PairParts
    <2>10. Heard(c, local, Made', told', closed) BY <2>6 DEF Heard
    <2> QED BY <2>1, <2>3, <2>4, <2>6, <2>7, <2>8, <2>9, <2>10, Answered
  <1>6. ASSUME NEW request, ServeSplit(request) PROVE Justified'
    <2>1. NewPane \in Pane /\ at[NewPane] = None BY <1>6, NewPaneParts DEF ServeSplit
    <2>2. PICK t : t = at[request.beside[1]] OBVIOUS
    <2>3. t \in Tab /\ at' = [at EXCEPT ![NewPane] = t]
      BY <1>6, <2>2 DEF ServeSplit, Known, OnServer
    <2>4. Ages BY <1>6, <2>1, <2>3, Put DEF ServeSplit, Answers
    <2>5. at'[NewPane] # None BY <2>1, <2>3, Distinct DEF Justified
    <2>6. PICK a : a = Spawned(NewPane, t, request) OBVIOUS
    <2>7. a.type = "spawned" /\ a.pane = NewPane BY <2>6 DEF Spawned
    <2>8. inbox' = inbox \o <<a>> /\ UNCHANGED <<local, closed, toServer>>
      BY <1>6, <2>2, <2>6 DEF ServeSplit, Answers
    <2>9. PICK e : e = <<a>> OBVIOUS
    <2>10. /\ Queued(e)
           /\ \A m : Member(e, m) => m = a
           /\ \A m, n : ~Before(e, m, n)
      BY <2>9, SingleParts
    <2> QED BY <2>1, <2>4, <2>5, <2>7, <2>8, <2>9, <2>10, Answered
  <1>7. ASSUME NEW request, ServeFails(request) PROVE Justified'
    <2>1. Ages BY <1>7, StillAged DEF ServeFails, Answers
    <2>2. PICK a : a = Failed OBVIOUS
    <2>3. a.type = "failed" BY <2>2 DEF Failed
    <2>4. inbox' = inbox \o <<a>> /\ UNCHANGED <<local, closed, toServer>>
      BY <1>7, <2>2 DEF ServeFails, Answers
    <2>5. PICK e : e = <<a>> OBVIOUS
    <2>6. /\ Queued(e)
          /\ \A m : Member(e, m) => m = a
          /\ \A m, n : ~Before(e, m, n)
      BY <2>5, SingleParts
    <2>7. Heard(a, local, Made', told', closed) BY <2>3 DEF Heard
    <2> QED BY <2>1, <2>3, <2>4, <2>5, <2>6, <2>7, Answered
  <1>8. CASE ServePrune
    <2>1. PICK out : out = told OBVIOUS
    <2>2. Ages BY <1>8, <2>1, SweepAges DEF ServePrune
    <2> QED BY <1>8, <2>2, Unmoved DEF ServePrune
  <1>9. CASE OtherGivesUp
    <2>1. Ages BY <1>9, StillAged DEF OtherGivesUp
    <2> QED BY <1>9, <2>1, Unmoved DEF OtherGivesUp
  <1>10. ASSUME NEW request, StartsWindow(request) PROVE Justified'
    <2>1. Ages BY <1>10, StillAged DEF StartsWindow
    <2> QED BY <1>10, <2>1, Unmoved DEF StartsWindow
  <1> QED BY <1>1, <1>2, <1>3, <1>4, <1>5, <1>6, <1>7, <1>8, <1>9, <1>10 DEF ServerWorks

-----------------------------------------------------------------------------
(* Steps of the client.                                                    *)

\* m has no pane that l has not, and its map no more than leads to those
Lessens(l, m) ==
  /\ Mirror(m)
  /\ Faithful(m)
  /\ m.panes \subseteq l.panes
  /\ \A r \in DOMAIN m.paneMap :
       \/ r \in DOMAIN l.paneMap /\ m.paneMap[r] = l.paneMap[r]
       \/ m.paneMap[r] \in l.panes

LEMMA LessCalm ==
  ASSUME NEW l, NEW M, NEW G, Calm(l, M, G), NEW m, Lessens(l, m),
         \A p \in m.dead : p[1] \in G
  PROVE  /\ Calm(m, M, G)
         /\ \A r : Unheard(l, r) => Unheard(m, r)
  <1>1. \A p \in m.panes : p[1] \in DOMAIN m.paneMap => m.paneMap[p[1]] = p
    <2> SUFFICES ASSUME NEW p \in m.panes, p[1] \in DOMAIN m.paneMap PROVE m.paneMap[p[1]] = p
      OBVIOUS
    <2>1. PICK r : r = p[1] OBVIOUS
    <2>2. CASE r \in DOMAIN l.paneMap /\ m.paneMap[r] = l.paneMap[r]
      BY <2>1, <2>2 DEF Calm, Lessens
    <2>3. CASE m.paneMap[r] \in l.panes
      <3>1. m.paneMap[r][1] = r BY <2>1 DEF Lessens, Faithful
      <3> QED BY <2>1, <2>3, <3>1 DEF Calm, Lessens
    <2> QED BY <2>1, <2>2, <2>3 DEF Lessens
  <1>2. \A r \in DOMAIN m.paneMap : r \in M
    <2> SUFFICES ASSUME NEW r \in DOMAIN m.paneMap PROVE r \in M OBVIOUS
    <2>1. m.paneMap[r][1] = r BY DEF Lessens, Faithful
    <2> QED BY <2>1 DEF Lessens, Calm
  <1>3. Calm(m, M, G) BY <1>1, <1>2 DEF Calm, Lessens
  <1>4. ASSUME NEW r, Unheard(l, r) PROVE Unheard(m, r)
    <2>1. r \notin DOMAIN m.paneMap
      <3> SUFFICES ASSUME r \in DOMAIN m.paneMap PROVE FALSE OBVIOUS
      <3>1. m.paneMap[r][1] = r BY DEF Lessens, Faithful
      <3> QED BY <1>4, <3>1 DEF Lessens, Unheard
    <2> QED BY <1>4, <2>1 DEF Lessens, Unheard
  <1> QED BY <1>3, <1>4

LEMMA LessAgain ==
  ASSUME NEW l, NEW m, NEW n, Lessens(l, m), Lessens(m, n)
  PROVE  Lessens(l, n)
  BY DEF Lessens

\* A handler that names nothing new
LEMMA Lessening ==
  ASSUME Justified, NEW l, NEW q, Becomes(l, q), UNCHANGED <<at, told>>, closed \subseteq closed',
         Carries(inbox, q), Lessens(local, l),
         \A p \in l.dead : p[1] \in told,
         \A p \in l.took : p[1] \in closed' \/ p[1] \in told \/ p \notin l.panes,
         \A r \in l.killed : r \in Pane /\ (r \in closed' \/ r \in told)
  PROVE  Justified'
  <1>1. Calm(local, Made, told) BY DEF Justified, Just
  <1>2. PICK k, M, G : k = local /\ M = Made /\ G = told OBVIOUS
  <1>3. Calm(l, M, G) /\ \A r : Unheard(k, r) => Unheard(l, r) BY <1>1, <1>2, LessCalm
  <1>4. \A m : Member(q, m) /\ m.type = "spawned" => Unheard(l, m.pane)
    <2> SUFFICES ASSUME NEW m, Member(q, m), m.type = "spawned" PROVE Unheard(l, m.pane)
      OBVIOUS
    <2>1. Member(inbox, m) BY DEF Carries, PruneTask
    <2>2. Heard(m, local, Made, told, closed) BY <2>1 DEF Justified, Just
    <2> QED BY <1>2, <1>3, <2>2 DEF Heard
  <1>5. \A p \in l.panes : p \in local.panes BY DEF Lessens
  <1> QED BY <1>2, <1>3, <1>4, <1>5, Becoming

\* The operations name nothing new, and let go and kill as they say
LEMMA PrunesLess ==
  ASSUME NEW l, NEW m, Faithful(l), Prunes(l, m)
  PROVE  Lessens(l, m)
  BY DEF Prunes, Lessens, Faithful

LEMMA RemovesLess ==
  ASSUME NEW l, NEW m, NEW panes, NEW state, Faithful(l), Removes(l, panes, state, m)
  PROVE  Lessens(l, m)
  BY DEF Removes, Lessens, Faithful

LEMMA ShedParts ==
  ASSUME NEW l, Mirror(l), Faithful(l), l.took = {}, l.killed = {},
         NEW m, NEW panes, NEW state, Removes(l, panes, state, m)
  PROVE  /\ Lessens(l, Pruned(m))
         /\ Pruned(m).dead = l.dead
         /\ Pruned(m).killed = Killed(l, panes, state)
         /\ \A p \in Pruned(m).took : p \in l.dead \/ p \notin Pruned(m).panes
  <1>1. Prunes(m, Pruned(m)) BY PrunedParts DEF Removes
  <1>2. Lessens(l, m) BY RemovesLess
  <1>3. PICK n : n = Pruned(m) OBVIOUS
  <1>4. Lessens(m, n) BY <1>1, <1>2, <1>3, PrunesLess DEF Lessens
  <1>5. Lessens(l, n) BY <1>2, <1>4, LessAgain
  <1>6. n.dead = l.dead /\ n.killed = Killed(l, panes, state)
    BY <1>1, <1>3 DEF Prunes, Removes
  <1>7. \A p \in n.took : p \in l.dead \/ p \notin n.panes
    BY <1>1, <1>3 DEF Prunes, Removes
  <1> QED BY <1>3, <1>5, <1>6, <1>7

LEMMA PaneGoneLess ==
  ASSUME NEW l, Mirror(l), Faithful(l), l.panes \subseteq LocalPane, NEW r
  PROVE  /\ Lessens(l, PaneGone(l, r))
         /\ PaneGone(l, r).killed = l.killed
         /\ \A p \in PaneGone(l, r).dead : p \in l.dead \/ p[1] = r
         /\ \A p \in PaneGone(l, r).took :
              p \in l.took \/ p \notin PaneGone(l, r).panes \/ p \in PaneGone(l, r).dead
  <1>1. None \notin l.panes BY NamesAssumption
  <1>2. PICK g : g = PaneGone(l, r) OBVIOUS
  <1>3. /\ Mirror(g) /\ g.panes \subseteq l.panes /\ g.killed = l.killed /\ Faithful(g)
        /\ \A p \in g.dead : p \in l.dead \/ p[1] = r
        /\ \A p \in g.took : p \in l.took \/ p \notin l.panes \/ p \in g.dead
        /\ \A x \in DOMAIN g.paneMap :
             \/ x \in DOMAIN l.paneMap /\ g.paneMap[x] = l.paneMap[x]
             \/ x = r /\ Find(l, r) \in l.panes /\ g.paneMap[x] = Find(l, r)
    BY <1>1, <1>2, PaneGoneParts
  <1>4. Lessens(l, g) BY <1>3 DEF Lessens
  <1> QED BY <1>2, <1>3, <1>4

\* The client asks for the list again
LEMMA Resynced ==
  ASSUME Justified, inbox # <<>>, NEW why, Resync(why), why # None => why \in told
  PROVE  Justified'
  <1>1. Just(inbox, toServer, local, Made, told, closed) BY DEF Justified
  <1>2. Queued(inbox) /\ Queued(toServer) /\ Ordered(inbox) BY <1>1 DEF Just
  <1>3. Made' = Made /\ told' = told BY DEF Made, Resync, server
  <1>4. PICK q2, s2, t : q2 = inbox' /\ s2 = toServer' /\ t = List(why) OBVIOUS
  <1>5. q2 = Tail(inbox) /\ (s2 = toServer \/ s2 = Append(toServer, t))
    BY <1>4 DEF Resync, Rest
  <1>6. Queued(q2) /\ Ordered(q2) /\ \A m : Member(q2, m) => Member(inbox, m)
    BY <1>2, <1>5, TailParts, TailMembers DEF Ordered
  <1>7. Asked(t, told, closed) BY <1>4 DEF Asked, List
  <1>8. Queued(s2)
    <2>1. Queued(Append(toServer, t)) BY <1>2, AppendParts
    <2> QED BY <1>2, <1>5, <2>1
  <1>9. \A m : Member(s2, m) => Member(toServer, m) \/ Asked(m, told, closed)
    BY <1>2, <1>5, <1>7, AppendMembers
  <1>10. PICK M, G : M = Made /\ G = told OBVIOUS
  <1>11. Just(q2, s2, local, M, G, closed) BY <1>1, <1>6, <1>8, <1>9, <1>10, ServerStep
  <1>12. Just(inbox, toServer, local, Made, told, closed)'
    BY <1>3, <1>4, <1>10, <1>11 DEF Resync
  <1> QED BY <1>12 DEF Justified, Resync, server

LEMMA HopJustified ==
  ASSUME Justified, Hop
  PROVE  Justified'
  <1>1. Just(inbox, toServer, local, Made, told, closed) BY DEF Justified
  <1>2. Queued(inbox) /\ Ordered(inbox) /\ inbox # <<>> BY <1>1 DEF Just, Hop, Next1
  <1>3. PICK h, t : h = Head(inbox) /\ t = [h EXCEPT !.posted = TRUE] OBVIOUS
  <1>4. Heard(h, local, Made, told, closed) BY <1>1, <1>2, <1>3, TailMembers DEF Just
  <1>5. h.type \in {"removed", "output"} BY <1>3 DEF Hop, Next1
  <1>6. DOMAIN t = DOMAIN h /\ t.type = h.type /\ t.pane = h.pane BY <1>3, <1>4, <1>5 DEF Heard
  <1>7. Heard(t, local, Made, told, closed) BY <1>4, <1>5, <1>6 DEF Heard
  <1>8. PICK q, q2 : q = Rest /\ q2 = inbox' OBVIOUS
  <1>9. Queued(q) /\ q2 \in Posts(q, t) BY <1>2, <1>3, <1>8, TailParts DEF Hop, Rest
  <1>10. /\ Queued(q2)
         /\ \A m : Member(q2, m) => Member(q, m) \/ m = t
         /\ \A m, n : Before(q2, m, n) => Before(q, m, n) \/ m = t \/ n = t
    BY <1>9, PostsParts
  <1>11. \A m : Member(q2, m) => Member(inbox, m) \/ Heard(m, local, Made, told, closed)
    BY <1>2, <1>7, <1>8, <1>10, TailMembers DEF Rest
  <1>12. Ordered(q2)
    <2>1. \A m, n : Before(q2, m, n) => Before(inbox, m, n) \/ m = t \/ n = t
      BY <1>2, <1>8, <1>10, TailMembers DEF Rest
    <2> QED BY <1>2, <1>5, <1>6, <2>1 DEF Ordered
  <1>13. PICK M, G : M = Made /\ G = told OBVIOUS
  <1>14. Just(q2, toServer, local, M, G, closed)
    BY <1>1, <1>10, <1>11, <1>12, <1>13, ServerStep DEF Just
  <1>15. Made' = Made /\ told' = told BY DEF Made, Hop, server
  <1>16. Just(inbox, toServer, local, Made, told, closed)'
    BY <1>8, <1>13, <1>14, <1>15 DEF Hop
  <1> QED BY <1>16 DEF Justified, Hop, server

\* What is at the head of the inbox
LEMMA HeadHeard ==
  ASSUME Justified, inbox # <<>>
  PROVE  /\ Heard(Head(inbox), local, Made, told, closed)
         /\ Carries(inbox, Rest)
         /\ Queued(Rest)
         /\ \A q \in Posts(Rest, PruneTask) : Carries(inbox, q)
  <1>1. Queued(inbox) /\ \A m : Member(inbox, m) => Heard(m, local, Made, told, closed)
    BY DEF Justified, Just
  <1>2. PICK t : t = Tail(inbox) OBVIOUS
  <1>3. Queued(t) BY <1>1, <1>2, TailParts
  <1>4. Carries(t, t) BY <1>3, CarriesItself
  <1>5. Carries(inbox, t) BY <1>1, <1>2, <1>4, RestCarried
  <1>6. \A q \in Posts(t, PruneTask) : Carries(inbox, q)
    BY <1>1, <1>2, <1>3, PruneCarried, RestCarried
  <1> QED BY <1>1, <1>2, <1>3, <1>5, <1>6, TailMembers DEF Rest

LEMMA LocalParts ==
  ASSUME Justified
  PROVE  /\ Mirror(local) /\ Faithful(local) /\ local.panes \subseteq LocalPane
         /\ \A p \in local.dead : p[1] \in told
         /\ local.took = {} /\ local.killed = {}
         /\ Queued(inbox) /\ Carries(inbox, inbox)
  BY CarriesItself DEF Justified, Just, Calm

LEMMA OutputJustified ==
  ASSUME Justified, RunOutput
  PROVE  Justified'
  <1>1. PICK r : r = Head(inbox).pane OBVIOUS
  <1>2. inbox # <<>> BY DEF RunOutput, Next1
  <1>3. CASE Has(r)
    <2>1. PICK f, q : f = Found(local, r) /\ q = Rest OBVIOUS
    <2>2. Becomes(f, q) /\ UNCHANGED <<server, closed>> BY <1>1, <1>3, <2>1 DEF RunOutput
    <2>3. PICK k : k = local OBVIOUS
    <2>4. /\ Mirror(f) /\ Faithful(f)
          /\ f.panes = k.panes /\ f.dead = k.dead /\ f.took = k.took /\ f.killed = k.killed
          /\ \A x \in DOMAIN f.paneMap :
               \/ x \in DOMAIN k.paneMap /\ f.paneMap[x] = k.paneMap[x]
               \/ x = r /\ Find(k, r) # None /\ f.paneMap[x] = Find(k, r)
      BY <2>1, <2>3, FoundParts, LocalParts
    <2>5. Find(k, r) \in k.panes BY <1>3, <2>3 DEF Has
    <2>6. Lessens(local, f) BY <2>3, <2>4, <2>5 DEF Lessens
    <2>7. Carries(inbox, q) BY <1>2, <2>1, HeadHeard
    <2> QED BY <2>2, <2>3, <2>4, <2>6, <2>7, LocalParts, Lessening DEF server
  <1>4. CASE ~Has(r) BY <1>1, <1>2, <1>4, Resynced DEF RunOutput
  <1> QED BY <1>3, <1>4

LEMMA RemovedJustified ==
  ASSUME Justified, RunRemoved
  PROVE  Justified'
  <1>1. PICK r : r = Head(inbox).pane OBVIOUS
  <1>2. inbox # <<>> BY DEF RunRemoved, Next1
  <1>3. r \in told BY <1>1, <1>2, HeadHeard DEF Heard, RunRemoved, Next1
  <1>4. CASE Has(r)
    <2>1. PICK g, q, k : g = PaneGone(local, r) /\ q = Rest /\ k = local OBVIOUS
    <2>2. Becomes(g, q) /\ UNCHANGED <<server, closed>> BY <1>1, <1>4, <2>1 DEF RunRemoved
    <2>3. /\ Lessens(k, g) /\ g.killed = k.killed
          /\ \A p \in g.dead : p \in k.dead \/ p[1] = r
          /\ \A p \in g.took : p \in k.took \/ p \notin g.panes \/ p \in g.dead
      BY <2>1, PaneGoneLess, LocalParts
    <2>4. Carries(inbox, q) BY <1>2, <2>1, HeadHeard
    <2>5. \A p \in g.dead : p[1] \in told BY <1>3, <2>1, <2>3, LocalParts
    <2> QED BY <2>1, <2>2, <2>3, <2>4, <2>5, LocalParts, Lessening DEF server
  <1>5. CASE ~Has(r) BY <1>1, <1>2, <1>3, <1>5, Resynced DEF RunRemoved
  <1> QED BY <1>4, <1>5

LEMMA FailedJustified ==
  ASSUME Justified, RunFailed
  PROVE  Justified'
  <1>1. PICK l, k : l = Released /\ k = local OBVIOUS
  <1>2. PICK q \in Posts(Rest, PruneTask) : Becomes(l, q) BY <1>1 DEF RunFailed
  <1>3. Carries(inbox, q) BY HeadHeard DEF RunFailed, Next1
  <1>4. SamePanes(k, l) BY <1>1, LocalParts DEF Released, SamePanes, Mirror, Fields
  <1>5. Lessens(k, l) BY <1>1, <1>4, LocalParts DEF SamePanes, Lessens, Faithful
  <1> QED BY <1>1, <1>2, <1>3, <1>4, <1>5, LocalParts, Lessening DEF SamePanes, RunFailed, server

LEMMA PruneJustified ==
  ASSUME Justified, RunPrune
  PROVE  Justified'
  <1>1. PICK l, k, q : l = Pruned(local) /\ k = local /\ q = Rest OBVIOUS
  <1>2. Becomes(l, q) BY <1>1 DEF RunPrune
  <1>3. Carries(inbox, q) BY <1>1, HeadHeard DEF RunPrune, Next1
  <1>4. Prunes(k, l) BY <1>1, PrunedParts, LocalParts
  <1>5. Lessens(k, l) BY <1>1, <1>4, LocalParts, PrunesLess
  <1>6. \A p \in l.took : p \in l.dead \/ p \notin l.panes BY <1>1, <1>4, LocalParts DEF Prunes
  <1> QED BY <1>1, <1>2, <1>3, <1>4, <1>5, <1>6, LocalParts, Lessening DEF Prunes, RunPrune, server

LEMMA RemoveJustified ==
  ASSUME Justified, RunRemove
  PROVE  Justified'
  <1>1. PICK h, k, q : h = Head(inbox) /\ k = local /\ q = Rest OBVIOUS
  <1>2. PICK m : m = RemovePanes(k, h.panes, domain) OBVIOUS
  <1>3. PICK l : l = Pruned(m) OBVIOUS
  <1>4. Becomes(l, q) BY <1>1, <1>2, <1>3 DEF RunRemove
  <1>5. Carries(inbox, q) /\ Heard(h, local, Made, told, closed) /\ h.type = "remove"
    BY <1>1, HeadHeard DEF RunRemove, Next1
  <1>6. PICK state : state = domain OBVIOUS
  <1>7. Removes(k, h.panes, state, m) BY <1>1, <1>2, <1>6, RemovePanesParts, LocalParts
  <1>8. /\ Lessens(k, l) /\ l.dead = k.dead
        /\ l.killed = Killed(k, h.panes, state)
        /\ \A p \in l.took : p \in k.dead \/ p \notin l.panes
    BY <1>1, <1>3, <1>7, LocalParts, ShedParts
  <1>9. \A r \in l.killed : r \in Pane /\ (r \in closed \/ r \in told)
    <2> SUFFICES ASSUME NEW r \in l.killed PROVE r \in Pane /\ (r \in closed \/ r \in told) OBVIOUS
    <2>1. PICK p \in h.panes \cap k.panes : r = p[1] BY <1>8 DEF Killed
    <2>2. p \in LocalPane BY <1>1, <2>1, LocalParts
    <2> QED BY <1>1, <1>5, <2>1, <2>2 DEF Heard, LocalPane
  <1> QED BY <1>1, <1>4, <1>5, <1>8, <1>9, LocalParts, Lessening DEF RunRemove, server

-----------------------------------------------------------------------------
(* A pane is named: nothing of the client's mux, and no removal on its way, *)
(* has that name.                                                          *)

LEMMA FreshParts ==
  ASSUME NEW x, NEW used, \E k \in 1..Copies : <<x, k>> \notin used
  PROVE  /\ Fresh(x, used) \notin used
         /\ Fresh(x, used)[1] = x
         /\ \E k \in 1..Copies : Fresh(x, used) = <<x, k>>
  BY DEF Fresh

LEMMA FreshPane ==
  ASSUME NamesLeft, NEW r \in Pane, Queued(inbox)
  PROVE  /\ Fresh(r, UsedPanes(local)) \in LocalPane
         /\ Fresh(r, UsedPanes(local))[1] = r
         /\ Fresh(r, UsedPanes(local)) \notin local.panes
         /\ \A m : Member(inbox, m) /\ m.type = "remove" => Fresh(r, UsedPanes(local)) \notin m.panes
  <1>1. \E k \in 1..Copies : <<r, k>> \notin UsedPanes(local) BY DEF NamesLeft
  <1>2. PICK used : used = UsedPanes(local) OBVIOUS
  <1>3. PICK p : p = Fresh(r, used) OBVIOUS
  <1>4. p \notin used /\ p[1] = r /\ \E k \in 1..Copies : p = <<r, k>>
    BY <1>1, <1>2, <1>3, FreshParts
  <1>5. p \in LocalPane BY <1>4 DEF LocalPane
  <1>6. p \notin local.panes BY <1>2, <1>4 DEF UsedPanes
  <1>7. ASSUME NEW m, Member(inbox, m), m.type = "remove" PROVE p \notin m.panes
    BY <1>2, <1>4, <1>7 DEF UsedPanes, Member
  <1> QED BY <1>2, <1>3, <1>4, <1>5, <1>6, <1>7

\* m has, besides what l has, new panes for the remote panes of S, which l had none for
Names(l, S, m) ==
  /\ Mirror(m)
  /\ m.dead = l.dead /\ m.took = l.took /\ m.killed = l.killed
  /\ l.panes \subseteq m.panes
  /\ \A p \in m.panes : p \in l.panes \/ (p[1] \in S /\ p = Fresh(p[1], UsedPanes(local)))
  /\ \A r \in S : (\A p \in l.panes : p[1] # r) /\ r \notin DOMAIN m.paneMap

\* Its map leads to panes that l has
LEMMA NamedCalm ==
  ASSUME Justified, NamesLeft, NEW l, Calm(l, Made, told), l.panes = local.panes,
         NEW S, S \subseteq Made, NEW m, Names(l, S, m), Faithful(m),
         \A r \in DOMAIN m.paneMap :
            \/ r \in DOMAIN l.paneMap /\ m.paneMap[r] = l.paneMap[r]
            \/ m.paneMap[r] \in l.panes
  PROVE  /\ Calm(m, Made, told)
         /\ \A r : Unheard(l, r) /\ r \notin S => Unheard(m, r)
         /\ \A p \in m.panes : \/ p \in local.panes
                               \/ \A x : Member(inbox, x) /\ x.type = "remove" => p \notin x.panes
  <1>1. Queued(inbox) BY DEF Justified, Just
  <1>2. S \subseteq Pane BY DEF Made
  <1>3. PICK used : used = UsedPanes(local) OBVIOUS
  <1>4. \A r \in S : /\ Fresh(r, used) \in LocalPane
                     /\ Fresh(r, used)[1] = r
                     /\ \A x : Member(inbox, x) /\ x.type = "remove" => Fresh(r, used) \notin x.panes
    BY <1>1, <1>2, <1>3, FreshPane
  <1>5. \A p \in m.panes : p \in l.panes \/ (p[1] \in S /\ p = Fresh(p[1], used))
    BY <1>3 DEF Names
  <1>6. \A p \in m.panes : p \in LocalPane /\ p[1] \in Made BY <1>4, <1>5 DEF Calm
  <1>7. \A p, q \in m.panes : p[1] = q[1] => p = q
    <2> SUFFICES ASSUME NEW p \in m.panes, NEW q \in m.panes, p[1] = q[1] PROVE p = q OBVIOUS
    <2>1. CASE p[1] \in S
      <3>1. p \notin l.panes /\ q \notin l.panes BY <2>1 DEF Names
      <3> QED BY <1>5, <3>1
    <2>2. CASE p[1] \notin S BY <1>5, <2>2 DEF Calm
    <2> QED BY <2>1, <2>2
  <1>8. ASSUME NEW r \in DOMAIN m.paneMap
        PROVE  r \in Made /\ r \notin S
    <2>1. m.paneMap[r][1] = r BY DEF Faithful
    <2> QED BY <2>1 DEF Calm, Names
  <1>9. ASSUME NEW p \in m.panes, p[1] \in DOMAIN m.paneMap PROVE m.paneMap[p[1]] = p
    <2>1. PICK r : r = p[1] OBVIOUS
    <2>2. r \notin S BY <1>8, <1>9, <2>1
    <2>3. p \in l.panes BY <1>5, <2>1, <2>2
    <2>4. CASE r \in DOMAIN l.paneMap /\ m.paneMap[r] = l.paneMap[r]
      BY <2>1, <2>3, <2>4 DEF Calm
    <2>5. CASE m.paneMap[r] \in l.panes
      <3>1. m.paneMap[r][1] = r BY <1>9, <2>1 DEF Faithful
      <3> QED BY <2>1, <2>3, <2>5, <3>1 DEF Calm
    <2> QED BY <1>9, <2>1, <2>4, <2>5
  <1>10. Calm(m, Made, told) BY <1>6, <1>7, <1>8, <1>9 DEF Calm, Names
  <1>11. ASSUME NEW r, Unheard(l, r), r \notin S PROVE Unheard(m, r)
    <2>1. \A p \in m.panes : p[1] # r BY <1>5, <1>11 DEF Unheard
    <2>2. r \notin DOMAIN m.paneMap
      <3> SUFFICES ASSUME r \in DOMAIN m.paneMap PROVE FALSE OBVIOUS
      <3>1. m.paneMap[r][1] = r BY DEF Faithful
      <3> QED BY <1>11, <3>1 DEF Unheard
    <2> QED BY <2>1, <2>2 DEF Unheard
  <1>12. ASSUME NEW p \in m.panes, p \notin local.panes,
                NEW x, Member(inbox, x), x.type = "remove"
         PROVE  p \notin x.panes
    BY <1>4, <1>5, <1>12
  <1> QED BY <1>10, <1>11, <1>12

LEMMA SyncedParts ==
  ASSUME NEW list, NEW adopt, Calm(local, Made, told)
  PROVE  /\ Names(local, {r \in DOMAIN list : Find(local, r) \notin local.panes}, Synced(local, list, adopt))
         /\ Faithful(Synced(local, list, adopt))
         /\ \A r \in DOMAIN Synced(local, list, adopt).paneMap :
              Synced(local, list, adopt).paneMap[r] \in local.panes
  <1> DEFINE m == Synced(local, list, adopt)
             S == {r \in DOMAIN list : Find(local, r) \notin local.panes}
             F == {s \in DOMAIN list : Find(local, s) \in local.panes}
  <1>1. Mirror(m) BY DEF Synced, Calm, Mirror, Fields
  <1>2. /\ m.dead = local.dead /\ m.took = local.took /\ m.killed = local.killed
        /\ m.panes = local.panes \cup {PaneFor(local, r) : r \in DOMAIN list}
        /\ m.paneMap = [r \in F |-> Find(local, r)]
    BY DEF Synced, Calm, Mirror, Fields
  <1> HIDE DEF m
  <1>3. ASSUME NEW r \in S, NEW p \in local.panes, p[1] = r PROVE FALSE
    <2>1. CASE r \in DOMAIN local.paneMap
      <3>1. local.paneMap[r] = p BY <1>3, <2>1 DEF Calm
      <3> QED BY <1>3, <2>1, <3>1 DEF Find
    <2>2. CASE r \notin DOMAIN local.paneMap
      <3> DEFINE copies == {c \in local.panes : c[1] = r}
      <3>1. p \in copies BY <1>3
      <3>2. Find(local, r) = CHOOSE c \in copies : TRUE BY <2>2, <3>1 DEF Find
      <3>3. Find(local, r) \in local.panes BY <3>1, <3>2
      <3> QED BY <1>3, <3>3
    <2> QED BY <2>1, <2>2
  <1>4. \A r \in S : r \notin DOMAIN m.paneMap BY <1>2
  <1>5. ASSUME NEW p \in m.panes, p \notin local.panes
        PROVE  p[1] \in S /\ p = Fresh(p[1], UsedPanes(local))
    <2>1. PICK r \in DOMAIN list : p = PaneFor(local, r) BY <1>2, <1>5
    <2>2. Find(local, r) \notin local.panes BY <1>5, <2>1 DEF PaneFor
    <2>3. p = Fresh(r, UsedPanes(local)) BY <2>1, <2>2 DEF PaneFor
    <2>4. p[1] = r BY <2>3 DEF Fresh
    <2> QED BY <2>2, <2>3, <2>4
  <1>6. Names(local, S, m) BY <1>1, <1>2, <1>3, <1>4, <1>5 DEF Names
  <1>7. ASSUME NEW r \in DOMAIN m.paneMap
        PROVE  m.paneMap[r] \in local.panes /\ m.paneMap[r][1] = r
    <2>1. r \in F /\ m.paneMap[r] = Find(local, r) BY <1>2, <1>7
    <2>2. CASE r \in DOMAIN local.paneMap BY <2>1, <2>2 DEF Find, Calm, Faithful
    <2>3. CASE r \notin DOMAIN local.paneMap
      <3> DEFINE copies == {c \in local.panes : c[1] = r}
      <3>1. CASE copies = {}
        <4>1. Find(local, r) = None BY <2>3, <3>1 DEF Find
        <4> QED BY <2>1, <4>1, NamesAssumption DEF Calm
      <3>2. CASE copies # {}
        <4>1. Find(local, r) = CHOOSE c \in copies : TRUE BY <2>3, <3>2 DEF Find
        <4>2. Find(local, r) \in copies BY <3>2, <4>1
        <4> QED BY <2>1, <4>2
      <3> QED BY <3>1, <3>2
    <2> QED BY <2>2, <2>3
  <1>8. Faithful(m) BY <1>7 DEF Faithful
  <1> QED BY <1>6, <1>7, <1>8 DEF m

LEMMA SyncJustified ==
  ASSUME Justified, NamesLeft, inbox # <<>>, Head(inbox).type = "list",
         NEW state, NEW adopt, NEW why, Sync(state, adopt, why),
         why # None => why \in told
  PROVE  Justified'
  <1>1. PICK h, list, k : h = Head(inbox) /\ list = h.panes /\ k = local OBVIOUS
  <1>2. PICK m : m = Synced(k, list, adopt) OBVIOUS
  <1>3. PICK q \in IF NewWindows(local, list, adopt) = {} THEN {Rest} ELSE Posts(Rest, PruneTask) :
          Becomes(IF why # None /\ state = "attached" THEN PaneGone(m, why) ELSE m, q)
    BY <1>1, <1>2 DEF Sync
  <1>4. PICK l : l = IF why # None /\ state = "attached" THEN PaneGone(m, why) ELSE m OBVIOUS
  <1>5. UNCHANGED <<at, told>> /\ closed' = closed BY DEF Sync, server
  <1>6. PICK r : r = Rest OBVIOUS
  <1>7. /\ Queued(inbox) /\ Ordered(inbox) /\ Calm(k, Made, told)
        /\ k.took = {} /\ k.killed = {}
        /\ \A x : Member(inbox, x) => Heard(x, k, Made, told, closed)
    BY <1>1 DEF Justified, Just
  <1>8. Queued(r) /\ r = Tail(inbox) BY <1>6, HeadHeard DEF Rest
  <1>9. Carries(r, q)
    <2>1. CASE q = r BY <1>8, <2>1, CarriesItself
    <2>2. CASE q \in Posts(r, PruneTask) BY <1>8, <2>2, PruneCarried
    <2> QED BY <1>3, <1>6, <2>1, <2>2
  <1>10. /\ Carries(inbox, q)
         /\ \A x : Member(q, x) => Before(inbox, h, x) \/ x = PruneTask
    BY <1>1, <1>7, <1>8, <1>9, RestCarried
  <1>11. PICK S : S = {x \in DOMAIN list : Find(k, x) \notin k.panes} OBVIOUS
  <1>12. /\ Names(k, S, m) /\ Faithful(m)
         /\ \A x \in DOMAIN m.paneMap : m.paneMap[x] \in k.panes
    BY <1>1, <1>2, <1>7, <1>11, SyncedParts
  <1>13. Heard(h, k, Made, told, closed) BY <1>1, HeadHeard
  <1>14. S \subseteq Made BY <1>1, <1>11, <1>13 DEF Heard
  <1>15. /\ Calm(m, Made, told)
         /\ \A x : Unheard(k, x) /\ x \notin S => Unheard(m, x)
         /\ \A p \in m.panes : \/ p \in local.panes
                               \/ \A x : Member(inbox, x) /\ x.type = "remove" => p \notin x.panes
    BY <1>1, <1>7, <1>12, <1>14, NamedCalm
  <1>16. m.took = {} /\ m.killed = {} BY <1>7, <1>12 DEF Names
  <1>17. /\ Calm(l, Made, told)
         /\ \A x : Unheard(m, x) => Unheard(l, x)
         /\ l.panes \subseteq m.panes
         /\ l.killed = {}
         /\ \A p \in l.took : p[1] \in told \/ p \notin l.panes
    <2>1. CASE l = m BY <1>15, <1>16, <2>1
    <2>2. CASE why # None /\ l = PaneGone(m, why)
      <3>1. /\ Lessens(m, l) /\ l.killed = {}
            /\ \A p \in l.dead : p \in m.dead \/ p[1] = why
            /\ \A p \in l.took : p \notin l.panes \/ p \in l.dead
        BY <1>15, <1>16, <2>2, PaneGoneLess DEF Calm
      <3>2. \A p \in l.dead : p[1] \in told BY <1>15, <2>2, <3>1 DEF Calm
      <3>3. PICK M, G : M = Made /\ G = told OBVIOUS
      <3>4. Calm(l, M, G) /\ \A x : Unheard(m, x) => Unheard(l, x)
        BY <1>15, <3>1, <3>2, <3>3, LessCalm
      <3> QED BY <3>1, <3>2, <3>3, <3>4 DEF Lessens
    <2> QED BY <1>4, <2>1, <2>2
  <1>18. ASSUME NEW x, Member(q, x), x.type = "spawned" PROVE Unheard(l, x.pane)
    <2>1. x # PruneTask BY <1>18 DEF PruneTask
    <2>2. Before(inbox, h, x) BY <1>10, <1>18, <2>1
    <2>3. x.pane \notin DOMAIN list BY <1>1, <1>7, <1>18, <2>2 DEF Ordered
    <2>4. x.pane \notin S BY <1>11, <2>3
    <2>5. Heard(x, k, Made, told, closed) BY <1>7, <2>2, BeforeMember
    <2> QED BY <1>15, <1>17, <1>18, <2>4, <2>5 DEF Heard
  <1>19. Becomes(l, q) BY <1>3, <1>4
  <1>20. \A p \in l.panes : \/ p \in local.panes
                            \/ \A x : Member(inbox, x) /\ x.type = "remove" => p \notin x.panes
    BY <1>15, <1>17
  <1> QED BY <1>5, <1>10, <1>17, <1>18, <1>19, <1>20, Becoming

LEMMA Crashed ==
  ASSUME Justified, NEW expect, Crash(expect)
  PROVE  Justified'
  <1>1. Mirror(Idle) BY DEF Mirror, Fields, Idle
  <1>2. /\ Idle.panes = {} /\ Idle.dead = {} /\ DOMAIN Idle.paneMap = {}
        /\ Idle.took = {} /\ Idle.killed = {}
    BY DEF Idle, Unmapped
  <1>3. \A M, G : Calm(Idle, M, G) BY <1>1, <1>2 DEF Calm, Faithful
  <1>4. Ordered(<<>>) BY EmptyMembers DEF Ordered
  <1>5. \A M, G : Just(<<>>, <<>>, Idle, M, G, {}) BY <1>3, <1>4, EmptyMembers DEF Just
  <1>6. Just(inbox, toServer, local, Made, told, closed)' BY <1>5 DEF Crash
  <1> QED BY <1>2, <1>6 DEF Justified, Crash, server

LEMMA ListJustified ==
  ASSUME Justified, RunList
  PROVE  Justified'
  <1>1. PICK h : h = Head(inbox) OBVIOUS
  <1>2. inbox # <<>> /\ h.type = "list" /\ NamesLeft BY <1>1 DEF RunList, Next1
  <1>3. h.why # None => h.why \in told BY <1>1, <1>2, HeadHeard DEF Heard
  <1>4. CASE Crash("window") BY <1>4, Crashed
  <1>5. CASE Sync(domain, None, Head(inbox).why)
    <2>1. PICK state, why : state = domain /\ why = Head(inbox).why OBVIOUS
    <2> QED BY <1>1, <1>2, <1>3, <1>5, <2>1, SyncJustified
  <1> QED BY <1>4, <1>5 DEF RunList

LEMMA AttachJustified ==
  ASSUME Justified, NEW primary, NEW adopt, FinishAttach(primary, adopt)
  PROVE  Justified'
  <1>1. inbox # <<>> /\ Head(inbox).type = "list" /\ NamesLeft BY DEF FinishAttach, Next1
  <1>2. CASE Crash("primary") BY <1>2, Crashed
  <1>3. CASE Sync("attached", adopt, None) BY <1>1, <1>3, SyncJustified
  <1> QED BY <1>2, <1>3 DEF FinishAttach

\* What comes of an answer: at most one pane is named
LEMMA AnsweredParts ==
  ASSUME NEW l, Mirror(l), NEW r, UsedPanes(l) = UsedPanes(local), Unheard(l, r),
         NEW t, NEW request,
         NEW m \in {SpawnDone(l, r, t, request)} \cup SplitDone(l, r, request)
  PROVE  /\ m = l \/ Names(l, {r}, m)
         /\ m.paneMap = l.paneMap
  <1> DEFINE p == Fresh(r, UsedPanes(l))
             registered == [l EXCEPT !.panes = @ \cup {p}]
             into == [registered EXCEPT !.tabs[request.tab] = @ \cup {p}]
  <1>1. p[1] = r BY DEF Fresh
  <1> HIDE DEF p
  <1>2. /\ Mirror(registered)
        /\ registered.dead = l.dead /\ registered.took = l.took /\ registered.killed = l.killed
        /\ registered.panes = l.panes \cup {p} /\ registered.paneMap = l.paneMap
    BY DEF Mirror, Fields
  <1>3. /\ Mirror(into)
        /\ into.dead = l.dead /\ into.took = l.took /\ into.killed = l.killed
        /\ into.panes = l.panes \cup {p} /\ into.paneMap = l.paneMap
    <2> HIDE DEF registered
    <2> QED BY <1>2 DEF Mirror, Fields
  <1>4. ASSUME m = SpawnDone(l, r, t, request)
        PROVE  /\ Mirror(m)
               /\ m.dead = l.dead /\ m.took = l.took /\ m.killed = l.killed
               /\ m.panes = l.panes \cup {p} /\ m.paneMap = l.paneMap
    BY <1>4 DEF SpawnDone, p, Mirror, Fields
  <1>5. m \in SplitDone(l, r, request) => m \in {l, registered, into}
    BY DEF SplitDone, p
  <1> HIDE DEF registered, into
  <1>6. ASSUME Mirror(m), m.dead = l.dead, m.took = l.took, m.killed = l.killed,
               m.panes = l.panes \cup {p}, m.paneMap = l.paneMap
        PROVE  Names(l, {r}, m)
    BY <1>1, <1>6 DEF Names, Unheard, p
  <1>7. CASE m = l BY <1>7
  <1>8. CASE m = registered BY <1>2, <1>6, <1>8
  <1>9. CASE m = into BY <1>3, <1>6, <1>9
  <1>10. CASE m = SpawnDone(l, r, t, request) BY <1>4, <1>6, <1>10
  <1> QED BY <1>5, <1>7, <1>8, <1>9, <1>10

LEMMA SpawnedJustified ==
  ASSUME Justified, RunSpawned
  PROVE  Justified'
  <1>1. PICK h, l, k : h = Head(inbox) /\ l = Released /\ k = local OBVIOUS
  <1>2. PICK m \in {SpawnDone(l, h.pane, h.tab, h.request)} \cup SplitDone(l, h.pane, h.request),
             q \in Posts(Rest, PruneTask) : Becomes(m, q)
    BY <1>1 DEF RunSpawned
  <1>3. /\ Queued(inbox) /\ Ordered(inbox) /\ Calm(k, Made, told)
        /\ k.took = {} /\ k.killed = {}
        /\ \A x : Member(inbox, x) => Heard(x, k, Made, told, closed)
    BY <1>1 DEF Justified, Just
  <1>4. inbox # <<>> /\ h.type = "spawned" /\ NamesLeft BY <1>1 DEF RunSpawned, Next1
  <1>5. Heard(h, k, Made, told, closed) BY <1>1, <1>4, HeadHeard
  <1>6. h.pane \in Made /\ Unheard(k, h.pane) BY <1>4, <1>5 DEF Heard
  <1>7. SamePanes(k, l) /\ l.tabs = k.tabs
    BY <1>1, <1>3 DEF Released, SamePanes, Calm, Mirror, Fields
  <1>8. UsedPanes(l) = UsedPanes(local)
    BY <1>1, <1>7 DEF UsedPanes, SamePanes, PanesOf
  <1>9. Calm(l, Made, told) /\ \A r : Unheard(k, r) => Unheard(l, r)
    BY <1>3, <1>7 DEF Calm, SamePanes, Faithful, Unheard
  <1>10. (m = l \/ Names(l, {h.pane}, m)) /\ m.paneMap = l.paneMap
    <2>1. PICK r, t, request : r = h.pane /\ t = h.tab /\ request = h.request OBVIOUS
    <2>2. m \in {SpawnDone(l, r, t, request)} \cup SplitDone(l, r, request) BY <1>2, <2>1
    <2>3. Mirror(l) /\ Unheard(l, r) BY <1>6, <1>9, <2>1 DEF Calm
    <2> QED BY <1>8, <2>1, <2>2, <2>3, AnsweredParts
  <1>11. PICK r : r = Rest OBVIOUS
  <1>12. Queued(r) /\ r = Tail(inbox) BY <1>4, <1>11, HeadHeard DEF Rest
  <1>13. Carries(r, q) BY <1>11, <1>12, PruneCarried
  <1>14. /\ Carries(inbox, q)
         /\ \A x : Member(q, x) => Before(inbox, h, x) \/ x = PruneTask
    BY <1>1, <1>3, <1>4, <1>12, <1>13, RestCarried
  <1>15. /\ Calm(m, Made, told)
         /\ \A x : Unheard(l, x) /\ x # h.pane => Unheard(m, x)
         /\ \A p \in m.panes : \/ p \in local.panes
                               \/ \A x : Member(inbox, x) /\ x.type = "remove" => p \notin x.panes
    <2>1. CASE m = l BY <1>1, <1>7, <1>9, <2>1 DEF SamePanes
    <2>2. CASE Names(l, {h.pane}, m)
      <3>1. PICK S : S = {h.pane} OBVIOUS
      <3>2. S \subseteq Made /\ Names(l, S, m) BY <1>6, <2>2, <3>1
      <3>3. l.panes = local.panes BY <1>1, <1>7 DEF SamePanes
      <3>4. Faithful(m) BY <1>9, <1>10 DEF Faithful, Calm
      <3>5. \A x \in DOMAIN m.paneMap : x \in DOMAIN l.paneMap /\ m.paneMap[x] = l.paneMap[x]
        BY <1>10
      <3>6. /\ Calm(m, Made, told)
            /\ \A x : Unheard(l, x) /\ x \notin S => Unheard(m, x)
            /\ \A p \in m.panes : \/ p \in local.panes
                                  \/ \A x : Member(inbox, x) /\ x.type = "remove" => p \notin x.panes
        BY <1>4, <1>9, <3>2, <3>3, <3>4, <3>5, NamedCalm
      <3> QED BY <3>1, <3>6
    <2> QED BY <1>10, <2>1, <2>2
  <1>16. m.took = {} /\ m.killed = {} BY <1>3, <1>7, <1>10 DEF SamePanes, Names
  <1>17. ASSUME NEW x, Member(q, x), x.type = "spawned" PROVE Unheard(m, x.pane)
    <2>1. x # PruneTask BY <1>17 DEF PruneTask
    <2>2. Before(inbox, h, x) BY <1>14, <1>17, <2>1
    <2>3. x.pane # h.pane BY <1>3, <1>4, <1>17, <2>2 DEF Ordered
    <2>4. Heard(x, k, Made, told, closed) BY <1>3, <2>2, BeforeMember
    <2> QED BY <1>9, <1>15, <1>17, <2>3, <2>4 DEF Heard
  <1>18. UNCHANGED <<at, told>> /\ closed' = closed BY DEF RunSpawned, server
  <1> QED BY <1>2, <1>14, <1>15, <1>16, <1>17, <1>18, Becoming

\* The user closes and detaches
LEMMA ClosePaneJustified ==
  ASSUME Justified, NEW t, NEW p, ClosePane(t, p)
  PROVE  Justified'
  <1>1. PICK k, l, q : k = local /\ l = [k EXCEPT !.tabs[t] = @ \ {p}, !.took = {p}] /\ q = inbox
    OBVIOUS
  <1>2. Becomes(l, q) BY <1>1 DEF ClosePane
  <1>3. /\ Mirror(l)
        /\ l.panes = k.panes /\ l.dead = k.dead /\ l.paneMap = k.paneMap
        /\ l.took = {p} /\ l.killed = k.killed
    BY <1>1, LocalParts DEF Mirror, Fields
  <1>4. Lessens(k, l) BY <1>1, <1>3, LocalParts DEF Lessens, Faithful
  <1>5. p[1] \in closed' /\ closed \subseteq closed' BY DEF ClosePane
  <1>6. Carries(inbox, q) BY <1>1, LocalParts
  <1> QED BY <1>1, <1>2, <1>3, <1>4, <1>5, <1>6, LocalParts, Lessening DEF ClosePane, server

LEMMA CloseTabJustified ==
  ASSUME Justified, NEW t, CloseTab(t)
  PROVE  Justified'
  <1>1. PICK k, q, state, panes :
          k = local /\ q = inbox /\ state = domain /\ panes = PanesOf(k, {t})
    OBVIOUS
  <1>2. PICK m : m = RemoveTabs(k, {t}, state) OBVIOUS
  <1>3. PICK l : l = Pruned(m) OBVIOUS
  <1>4. Becomes(l, q) BY <1>1, <1>2, <1>3 DEF CloseTab
  <1>5. Removes(k, panes, state, m) BY <1>1, <1>2, RemoveTabsParts, LocalParts
  <1>6. /\ Lessens(k, l) /\ l.dead = k.dead
        /\ l.killed = Killed(k, panes, state)
        /\ \A p \in l.took : p \in k.dead \/ p \notin l.panes
    BY <1>1, <1>3, <1>5, LocalParts, ShedParts
  <1>7. \A p \in panes : p[1] \in closed' BY <1>1 DEF PanesOf, CloseTab
  <1>8. \A r \in l.killed : r \in Pane /\ r \in closed'
    <2> SUFFICES ASSUME NEW r \in l.killed PROVE r \in Pane /\ r \in closed' OBVIOUS
    <2>1. PICK p \in panes \cap k.panes : r = p[1] BY <1>6 DEF Killed
    <2>2. p \in LocalPane BY <1>1, <2>1, LocalParts
    <2> QED BY <1>7, <2>1, <2>2 DEF LocalPane
  <1>9. Carries(inbox, q) BY <1>1, LocalParts
  <1>10. UNCHANGED <<at, told>> /\ closed \subseteq closed' BY DEF CloseTab, server
  <1> QED BY <1>1, <1>4, <1>6, <1>8, <1>9, <1>10, LocalParts, Lessening

\* Nothing is left, and nobody is asked to kill
LEMMA Emptied ==
  ASSUME Justified, NEW l, Becomes(l, inbox), UNCHANGED <<at, told>>, closed' = closed,
         Mirror(l), l.panes = {}, l.dead = local.dead, l.paneMap = local.paneMap, l.killed = {}
  PROVE  Justified'
  <1>1. PICK k, q : k = local /\ q = inbox OBVIOUS
  <1>2. Lessens(k, l) BY <1>1, LocalParts DEF Lessens, Faithful
  <1> QED BY <1>1, <1>2, LocalParts, Lessening

LEMMA DetachJustified ==
  ASSUME Justified, Detach
  PROVE  Justified'
  <1>1. PICK k, l : k = local /\ l = Detached(k) OBVIOUS
  <1>2. /\ Mirror(l) /\ l.panes = {}
        /\ l.dead = k.dead /\ l.paneMap = k.paneMap /\ l.killed = k.killed
    BY <1>1, DetachedParts, LocalParts
  <1> QED BY <1>1, <1>2, LocalParts, Emptied DEF Detach, server

LEMMA CloseWindowJustified ==
  ASSUME Justified, NEW w, CloseWindow(w)
  PROVE  Justified'
  <1>1. PICK k, ts : k = local /\ ts = local.windows[w] OBVIOUS
  <1>2. PICK l : l = [k EXCEPT !.windows = Restrict(@, DOMAIN @ \ {w})] OBVIOUS
  <1>3. SamePanes(k, l) /\ l.tabs = k.tabs
    BY <1>1, <1>2, LocalParts DEF SamePanes, Mirror, Fields
  <1>4. Mirror(l) /\ Faithful(l) /\ l.took = {} /\ l.killed = {} /\ l.dead = k.dead
    BY <1>1, <1>3, LocalParts DEF SamePanes, Faithful
  <1>5. UNCHANGED <<at, told>> /\ closed' = closed BY DEF CloseWindow, server
  <1>6. CASE PanesOf(local, ts) = {}
    <2>1. PICK state, panes, q : state = domain /\ panes = PanesOf(l, ts) /\ q = inbox OBVIOUS
    <2>2. PICK m : m = RemoveTabs(l, ts, state) OBVIOUS
    <2>3. PICK n : n = Pruned(m) OBVIOUS
    <2>4. Becomes(n, q) BY <1>1, <1>2, <1>6, <2>1, <2>2, <2>3 DEF CloseWindow
    <2>5. panes = {} BY <1>1, <1>3, <1>6, <2>1 DEF PanesOf
    <2>6. Removes(l, panes, state, m) BY <1>4, <2>1, <2>2, RemoveTabsParts
    <2>7. /\ Lessens(l, n) /\ n.dead = l.dead
          /\ n.killed = Killed(l, panes, state)
          /\ \A p \in n.took : p \in l.dead \/ p \notin n.panes
      BY <1>4, <2>3, <2>6, ShedParts
    <2>8. Lessens(k, l) BY <1>3, <1>4 DEF SamePanes, Lessens
    <2>9. Lessens(k, n) BY <2>7, <2>8, LessAgain
    <2>10. n.killed = {} BY <2>5, <2>7 DEF Killed
    <2>11. Carries(inbox, q) BY <2>1, LocalParts
    <2> QED BY <1>1, <1>4, <1>5, <2>4, <2>7, <2>9, <2>10, <2>11, LocalParts, Lessening
  <1>7. CASE PanesOf(local, ts) # {}
    <2>1. PICK d : d = Detached(l) OBVIOUS
    <2>2. PICK m : m = RemoveTabs(d, ts, "detached") OBVIOUS
    <2>3. PICK n : n = Pruned(m) OBVIOUS
    <2>4. Becomes(n, inbox) BY <1>1, <1>2, <1>7, <2>1, <2>2, <2>3 DEF CloseWindow
    <2>5. /\ Mirror(d) /\ d.panes = {} /\ d.dead = l.dead /\ d.paneMap = l.paneMap /\ d.killed = {}
      BY <1>4, <2>1, DetachedParts
    <2>6. PICK panes : panes = PanesOf(d, ts) OBVIOUS
    <2>7. Removes(d, panes, "detached", m) BY <2>2, <2>5, <2>6, RemoveTabsParts
    <2>8. m.killed = {} /\ m.panes = {} /\ m.dead = d.dead /\ m.paneMap = d.paneMap /\ Mirror(m)
      BY <2>5, <2>7 DEF Removes, Killed
    <2>9. Prunes(m, n) BY <2>3, <2>8, PrunedParts
    <2> QED BY <1>1, <1>3, <1>5, <2>4, <2>5, <2>8, <2>9, Emptied DEF Prunes, SamePanes
  <1> QED BY <1>6, <1>7

LEMMA AskJustified ==
  ASSUME Justified, NEW request, Ask(request)
  PROVE  Justified'
  <1>1. PICK k, l : k = local /\ l = [k EXCEPT !.busy = @ + 1] OBVIOUS
  <1>2. SamePanes(k, l) BY <1>1, LocalParts DEF SamePanes, Mirror, Fields
  <1>3. Just(inbox, toServer, k, Made, told, closed) BY <1>1 DEF Justified
  <1>4. Calm(l, Made, told) BY <1>2, <1>3 DEF Just, Calm, SamePanes, Faithful
  <1>5. \A m : Heard(m, k, Made, told, closed) => Heard(m, l, Made, told, closed)
    <2> SUFFICES ASSUME NEW m, Heard(m, k, Made, told, closed)
                 PROVE  Heard(m, l, Made, told, closed)
      OBVIOUS
    <2> QED BY <1>2 DEF Heard, Unheard, SamePanes
  <1>6. Just(inbox, toServer, l, Made, told, closed) BY <1>3, <1>4, <1>5 DEF Just
  <1>7. Made' = Made /\ told' = told BY DEF Made, Ask, server
  <1>8. local' = l BY <1>1 DEF Ask
  <1>9. Just(inbox, toServer, local, Made, told, closed)' BY <1>6, <1>7, <1>8 DEF Ask
  <1>10. l.took = {} /\ l.killed = {} BY <1>1, <1>2, LocalParts DEF SamePanes
  <1> QED BY <1>8, <1>9, <1>10 DEF Justified, Ask, server

\* A poll says that a pane is dead: the server's mux has it no more
LEMMA PolledJustified ==
  ASSUME Justified, NEW p, Polled(p)
  PROVE  Justified'
  <1>1. PICK k, l : k = local /\ l = [k EXCEPT !.dead = @ \cup {p}] OBVIOUS
  <1>2. /\ Mirror(l)
        /\ l.panes = k.panes /\ l.paneMap = k.paneMap /\ l.took = k.took /\ l.killed = k.killed
        /\ l.dead = k.dead \cup {p}
    BY <1>1, LocalParts DEF Mirror, Fields
  <1>3. Just(inbox, toServer, k, Made, told, closed) BY <1>1 DEF Justified
  <1>4. p[1] \in told BY DEF Polled
  <1>5. Calm(l, Made, told) BY <1>2, <1>3, <1>4 DEF Just, Calm, Faithful
  <1>6. \A m : Heard(m, k, Made, told, closed) => Heard(m, l, Made, told, closed)
    <2> SUFFICES ASSUME NEW m, Heard(m, k, Made, told, closed)
                 PROVE  Heard(m, l, Made, told, closed)
      OBVIOUS
    <2> QED BY <1>2 DEF Heard, Unheard
  <1>7. Just(inbox, toServer, l, Made, told, closed) BY <1>3, <1>5, <1>6 DEF Just
  <1>8. Made' = Made /\ told' = told BY DEF Made, Polled, server
  <1>9. local' = l BY <1>1 DEF Polled
  <1>10. Just(inbox, toServer, local, Made, told, closed)' BY <1>7, <1>8, <1>9 DEF Polled
  <1>11. l.took = {} /\ l.killed = {} BY <1>1, <1>2, LocalParts
  <1> QED BY <1>9, <1>10, <1>11 DEF Justified, Polled, server

-----------------------------------------------------------------------------
LEMMA InitJustified ==
  ASSUME Init
  PROVE  Justified
  <1>1. Mirror(Idle) /\ Idle.panes = {} /\ Idle.dead = {} /\ DOMAIN Idle.paneMap = {}
        /\ Idle.took = {} /\ Idle.killed = {}
    BY DEF Mirror, Fields, Idle, Unmapped
  <1>2. Calm(Idle, Made, told) BY <1>1 DEF Calm, Faithful
  <1>3. PICK t : t = List(None) OBVIOUS
  <1>4. Queued(<<t>>) /\ \A m : Member(<<t>>, m) => m = t BY SingleParts
  <1>5. Asked(t, told, {}) BY <1>3 DEF Asked, List
  <1>6. Ordered(<<>>) BY EmptyMembers DEF Ordered
  <1>7. Just(<<>>, <<t>>, Idle, Made, told, {})
    BY <1>2, <1>4, <1>5, <1>6, EmptyMembers DEF Just
  <1>8. at \in [Pane -> Tab \cup {None, Gone}] BY NamesAssumption DEF Init
  <1> QED BY <1>1, <1>3, <1>7, <1>8 DEF Init, Justified

\* What the messages, the requests and the client's mux say of the server's panes
\* is so, whatever was overtaken.
THEOREM AlwaysJustified == Spec => []Justified
  <1>1. Init => Justified BY InitJustified
  <1>2. Justified /\ [Next]_vars => Justified'
    <2> SUFFICES ASSUME Justified, [Next]_vars PROVE Justified' OBVIOUS
    <2>1. CASE UNCHANGED vars
      <3>1. Made' = Made /\ told' = told BY <2>1 DEF Made, vars
      <3> QED BY <2>1, <3>1 DEF Justified, vars
    <2>2. CASE Others BY <2>2, OthersJustified
    <2>3. CASE ServerWorks BY <2>3, ServerJustified
    <2>4. CASE RunHead
      <3>1. CASE RunChange
        BY <3>1, Resynced DEF RunChange, Next1
      <3> QED BY <2>4, <3>1, HopJustified, OutputJustified, RemovedJustified, ListJustified,
                 AttachJustified, SpawnedJustified, FailedJustified, PruneJustified,
                 RemoveJustified DEF RunHead
    <2>5. CASE User
      <3>1. ASSUME NEW w, AskSpawn(w) PROVE Justified' BY <3>1, AskJustified DEF AskSpawn
      <3>2. ASSUME NEW t, NEW p, AskSplit(t, p) PROVE Justified' BY <3>2, AskJustified DEF AskSplit
      <3> QED BY <2>5, <3>1, <3>2, ClosePaneJustified, CloseTabJustified, CloseWindowJustified,
                 DetachJustified DEF User
    <2>6. CASE Polls BY <2>6, PolledJustified DEF Polls
    <2> QED BY <2>1, <2>2, <2>3, <2>4, <2>5, <2>6 DEF Next
  <1> QED BY <1>1, <1>2, PTL DEF Spec

\* The server is asked to kill only what the user has closed, for any number of
\* panes, requests and messages on their way.
THEOREM KillsAreTheUsers == Spec => []KillsOnlyAsked
  <1>1. Justified => KillsOnlyAsked
    BY DEF Justified, Just, Asked, Member, KillsOnlyAsked
  <1> QED BY <1>1, AlwaysJustified, PTL

\* No pane of the server ever has two panes here.
THEOREM NoSecondCopy == Spec => []OnePanePerRemote
  <1>1. Justified => OnePanePerRemote
    BY DEF Justified, Just, Calm, OnePanePerRemote
  <1> QED BY <1>1, AlwaysJustified, PTL

-----------------------------------------------------------------------------
(* How many answers are on their way.                                      *)

Answering(q) == {i \in DOMAIN q : q[i].type \in {"spawned", "failed"}}
Count(q) == Cardinality(Answering(q))

LEMMA SameCount ==
  ASSUME NEW A, IsFiniteSet(A), NEW B, NEW f \in [A -> B],
         \A i, j \in A : f[i] = f[j] => i = j,
         \A b \in B : \E i \in A : f[i] = b
  PROVE  IsFiniteSet(B) /\ Cardinality(B) = Cardinality(A)
  <1>1. f \in Injection(A, B) BY DEF Injection, IsInjective
  <1>2. f \in Surjection(A, B) BY DEF Surjection
  <1>3. ExistsBijection(A, B) BY <1>1, <1>2 DEF ExistsBijection, Bijection
  <1> QED BY <1>3, FS_Bijection

LEMMA CountType ==
  ASSUME NEW q, Queued(q)
  PROVE  IsFiniteSet(Answering(q)) /\ Count(q) \in Nat
  <1>1. Len(q) \in Nat /\ DOMAIN q = 1..Len(q) BY QueuedIsSeq
  <1>2. IsFiniteSet(1..Len(q)) BY <1>1, FS_Interval
  <1>3. Answering(q) \subseteq 1..Len(q) BY <1>1 DEF Answering
  <1>4. IsFiniteSet(Answering(q)) BY <1>2, <1>3, FS_Subset
  <1> QED BY <1>4, FS_CardinalityType DEF Count

LEMMA CountEmpty == Count(<<>>) = 0
  <1>1. Answering(<<>>) = {} BY DEF Answering
  <1> QED BY <1>1, FS_EmptySet DEF Count

LEMMA CountAppend ==
  ASSUME NEW q, NEW m, Queued(q)
  PROVE  /\ m.type \in {"spawned", "failed"} => Count(Append(q, m)) = Count(q) + 1
         /\ m.type \notin {"spawned", "failed"} => Count(Append(q, m)) = Count(q)
  <1> DEFINE r == Append(q, m)
             n == Len(q) + 1
  <1>1. Len(q) \in Nat /\ DOMAIN q = 1..Len(q) BY QueuedIsSeq
  <1>2. DOMAIN r = 1..n /\ (\A i \in 1..Len(q) : r[i] = q[i]) /\ r[n] = m BY AppendParts
  <1> HIDE DEF r
  <1>3. n \notin Answering(q) BY <1>1 DEF Answering
  <1>4. IsFiniteSet(Answering(q)) BY CountType
  <1>5. ASSUME m.type \in {"spawned", "failed"} PROVE Answering(r) = Answering(q) \cup {n}
    BY <1>1, <1>2, <1>5 DEF Answering
  <1>6. ASSUME m.type \notin {"spawned", "failed"} PROVE Answering(r) = Answering(q)
    BY <1>1, <1>2, <1>6 DEF Answering
  <1>7. Cardinality(Answering(q) \cup {n}) = Cardinality(Answering(q)) + 1
    BY <1>3, <1>4, FS_AddElement
  <1> QED BY <1>5, <1>6, <1>7 DEF Count, r

LEMMA CountTail ==
  ASSUME NEW q, Queued(q), q # <<>>
  PROVE  /\ Head(q).type \in {"spawned", "failed"} => Count(Tail(q)) = Count(q) - 1
         /\ Head(q).type \notin {"spawned", "failed"} => Count(Tail(q)) = Count(q)
  <1> DEFINE r == Tail(q)
             A == Answering(q) \ {1}
             B == Answering(r)
             f == [i \in A |-> i - 1]
  <1>1. /\ Len(q) \in Nat /\ DOMAIN q = 1..Len(q) /\ Head(q) = q[1] /\ 1 \in DOMAIN q
        /\ DOMAIN r = 1..(Len(q) - 1)
        /\ \A i \in 1..(Len(q) - 1) : r[i] = q[i + 1]
    BY TailParts
  <1> HIDE DEF r
  <1>2. IsFiniteSet(Answering(q)) BY CountType
  <1>3. IsFiniteSet(A) /\ Cardinality(A) = IF 1 \in Answering(q) THEN Count(q) - 1 ELSE Count(q)
    BY <1>2, FS_RemoveElement DEF Count
  <1>4. \A i \in A : i \in Nat /\ i - 1 \in 1..(Len(q) - 1) /\ (i - 1) + 1 = i
    BY <1>1 DEF Answering
  <1>5. \A i \in A : i - 1 \in B BY <1>1, <1>4 DEF Answering
  <1>6. f \in [A -> B] BY <1>5
  <1>7. \A i, j \in A : f[i] = f[j] => i = j BY <1>4
  <1>8. \A b \in B : \E i \in A : f[i] = b
    <2> SUFFICES ASSUME NEW b \in B PROVE \E i \in A : f[i] = b OBVIOUS
    <2>1. b \in 1..(Len(q) - 1) /\ r[b] = q[b + 1] BY <1>1 DEF Answering
    <2>2. b + 1 \in A /\ (b + 1) - 1 = b BY <1>1, <2>1 DEF Answering
    <2> QED BY <2>2
  <1> HIDE DEF f, A, B
  <1>9. Cardinality(B) = Cardinality(A) BY <1>3, <1>6, <1>7, <1>8, SameCount
  <1>10. 1 \in Answering(q) <=> Head(q).type \in {"spawned", "failed"} BY <1>1 DEF Answering
  <1>11. Count(r) = Cardinality(B) BY DEF B, Count
  <1> QED BY <1>3, <1>9, <1>10, <1>11 DEF r

LEMMA CountInsert ==
  ASSUME NEW q, NEW m, Queued(q), NEW k \in 1..(Len(q) + 1),
         m.type \notin {"spawned", "failed"}
  PROVE  Count(InsertAt(q, k, m)) = Count(q)
  <1> DEFINE r == InsertAt(q, k, m)
             A == Answering(q)
             B == Answering(r)
             to(i) == IF i < k THEN i ELSE i + 1
             f == [i \in A |-> to(i)]
  <1>1. /\ Len(q) \in Nat /\ DOMAIN q = 1..Len(q)
        /\ DOMAIN r = 1..(Len(q) + 1)
        /\ \A j \in 1..(Len(q) + 1) : r[j] = IF j < k THEN q[j] ELSE IF j = k THEN m ELSE q[j - 1]
    BY QueuedIsSeq, InsertParts
  <1> HIDE DEF r
  <1>2. IsFiniteSet(A) BY CountType
  <1>3. \A i \in A : i \in 1..Len(q) /\ q[i].type \in {"spawned", "failed"} BY <1>1 DEF Answering
  <1>4. ASSUME NEW i \in A PROVE to(i) \in B
    <2>1. CASE i < k BY <1>1, <1>3, <2>1 DEF Answering
    <2>2. CASE ~(i < k)
      <3>1. to(i) = i + 1 /\ ~(i + 1 < k) /\ i + 1 # k /\ (i + 1) - 1 = i /\ i + 1 \in 1..(Len(q) + 1)
        BY <1>1, <1>3, <2>2
      <3>2. r[i + 1] = q[i] BY <1>1, <3>1
      <3> QED BY <1>1, <1>3, <3>1, <3>2 DEF Answering
    <2> QED BY <2>1, <2>2
  <1>5. f \in [A -> B] BY <1>4
  <1>6. \A i, j \in A : f[i] = f[j] => i = j BY <1>1, <1>3
  <1>7. ASSUME NEW b \in B PROVE \E i \in A : f[i] = b
    <2>1. b \in 1..(Len(q) + 1) /\ r[b].type \in {"spawned", "failed"} BY <1>1 DEF Answering
    <2>2. b # k BY <1>1, <2>1
    <2>3. CASE b < k
      <3>1. b \in 1..Len(q) /\ r[b] = q[b] BY <1>1, <2>1, <2>3
      <3>2. b \in A BY <1>1, <2>1, <3>1 DEF Answering
      <3> QED BY <2>3, <3>2
    <2>4. CASE ~(b < k)
      <3>1. b - 1 \in 1..Len(q) /\ r[b] = q[b - 1] /\ ~(b - 1 < k) /\ (b - 1) + 1 = b
        BY <1>1, <2>1, <2>2, <2>4
      <3>2. b - 1 \in A BY <1>1, <2>1, <3>1 DEF Answering
      <3> QED BY <3>1, <3>2
    <2> QED BY <2>3, <2>4
  <1> HIDE DEF f, A, B
  <1>8. Cardinality(B) = Cardinality(A) BY <1>2, <1>5, <1>6, <1>7, SameCount
  <1> QED BY <1>8 DEF A, B, r, Count

-----------------------------------------------------------------------------
(* The shape of the client's mux, and that each operation keeps it.         *)

Shaped(l) ==
  /\ Mirror(l)
  /\ l.panes \subseteq LocalPane /\ l.dead \subseteq LocalPane
  /\ DOMAIN l.tabs \subseteq LocalTab
  /\ \A t \in DOMAIN l.tabs : l.tabs[t] \subseteq LocalPane
  /\ DOMAIN l.windows \subseteq LocalWindow
  /\ \A w \in DOMAIN l.windows : l.windows[w] \subseteq DOMAIN l.tabs
  /\ \A r \in DOMAIN l.paneMap : r \in Pane /\ l.paneMap[r] \in LocalPane
  /\ \A t \in DOMAIN l.tabMap : t \in Tab /\ l.tabMap[t] \in LocalTab
  /\ \A w \in DOMAIN l.windowMap : w \in Window /\ l.windowMap[w] \in LocalWindow

\* m has that shape, and as many requests wait for their answer as in l
Reshaped(l, m) == Shaped(m) /\ m.busy = l.busy

LEMMA ReshapedAgain ==
  ASSUME NEW l, NEW m, NEW n, Reshaped(l, m), Reshaped(m, n)
  PROVE  Reshaped(l, n)
  BY DEF Reshaped

LEMMA PrunedShape ==
  ASSUME NEW l, Shaped(l)
  PROVE  Reshaped(l, Pruned(l))
  <1> DEFINE listed == TabsOf(l, DOMAIN l.windows)
             stay(t) == IF t \in listed THEN l.tabs[t] \cap (l.panes \ l.dead) ELSE l.tabs[t]
             alive == {t \in DOMAIN l.tabs : ~(stay(t) \subseteq l.dead)}
             left(w) == l.windows[w] \cap alive
             ws == {v \in DOMAIN l.windows : v = Home \/ left(v) # {}}
  <1>1. CASE l.busy > 0 BY <1>1 DEF Pruned, Reshaped
  <1>2. CASE ~(l.busy > 0)
    <2>1. Mirror(l) BY DEF Shaped
    <2>2. Mirror(Pruned(l)) BY <1>2, <2>1 DEF Pruned, Mirror, Fields
    <2>3. /\ Pruned(l).dead = l.dead /\ Pruned(l).paneMap = l.paneMap
          /\ Pruned(l).tabMap = l.tabMap /\ Pruned(l).windowMap = l.windowMap
          /\ Pruned(l).busy = l.busy
      BY <1>2, <2>1 DEF Pruned, Mirror, Fields
    <2>4. Pruned(l).panes = l.panes \ PanesOf(l, DOMAIN l.tabs \ (alive \cup listed))
      BY <1>2, <2>1 DEF Pruned, Mirror, Fields
    <2>5. Pruned(l).tabs = [t \in alive |-> stay(t)]
      BY <1>2, <2>1 DEF Pruned, Mirror, Fields
    <2>6. Pruned(l).windows = [w \in ws |-> left(w)]
      BY <1>2, <2>1 DEF Pruned, Mirror, Fields
    <2>7. PICK m : m = Pruned(l) OBVIOUS
    <2>8. \A t \in DOMAIN l.tabs : stay(t) \subseteq LocalPane BY DEF Shaped
    <2>9. \A t \in DOMAIN m.tabs : t \in DOMAIN l.tabs /\ m.tabs[t] \subseteq LocalPane
      BY <2>5, <2>7, <2>8
    <2>10. DOMAIN m.tabs = alive BY <2>5, <2>7
    <2>11. \A w \in DOMAIN m.windows : w \in DOMAIN l.windows /\ m.windows[w] \subseteq alive
      BY <2>6, <2>7
    <2> HIDE DEF alive, listed, stay, left, ws
    <2>12. Shaped(m) BY <2>2, <2>3, <2>4, <2>7, <2>9, <2>10, <2>11 DEF Shaped
    <2> QED BY <2>3, <2>7, <2>12 DEF Reshaped
  <1> QED BY <1>1, <1>2

LEMMA RemovePanesShape ==
  ASSUME NEW l, Shaped(l), NEW panes, NEW state
  PROVE  Reshaped(l, RemovePanes(l, panes, state))
  <1>1. PICK m : m = RemovePanes(l, panes, state) OBVIOUS
  <1>2. /\ Mirror(m)
        /\ m.panes = l.panes \ panes /\ m.dead = l.dead /\ m.tabs = l.tabs
        /\ m.windows = l.windows /\ m.paneMap = l.paneMap /\ m.tabMap = l.tabMap
        /\ m.windowMap = l.windowMap /\ m.busy = l.busy
    BY <1>1 DEF RemovePanes, Shaped, Mirror, Fields
  <1> QED BY <1>1, <1>2 DEF Shaped, Reshaped

LEMMA RemoveTabsShape ==
  ASSUME NEW l, Shaped(l), NEW ts, NEW state
  PROVE  Reshaped(l, RemoveTabs(l, ts, state))
  <1>1. PICK m : m = [l EXCEPT !.tabs = Restrict(@, DOMAIN @ \ ts),
                               !.windows = [w \in DOMAIN @ |-> @[w] \ ts]]
    OBVIOUS
  <1>2. RemoveTabs(l, ts, state) = RemovePanes(m, PanesOf(l, ts), state)
    BY <1>1 DEF RemoveTabs
  <1>3. /\ Mirror(m)
        /\ m.panes = l.panes /\ m.dead = l.dead
        /\ m.paneMap = l.paneMap /\ m.tabMap = l.tabMap
        /\ m.windowMap = l.windowMap /\ m.busy = l.busy
        /\ m.tabs = [t \in DOMAIN l.tabs \ ts |-> l.tabs[t]]
        /\ m.windows = [w \in DOMAIN l.windows |-> l.windows[w] \ ts]
    BY <1>1 DEF Shaped, Mirror, Fields, Restrict
  <1>4. Shaped(m)
    <2>1. \A t \in DOMAIN m.tabs : t \in DOMAIN l.tabs /\ m.tabs[t] = l.tabs[t] BY <1>3
    <2>2. DOMAIN m.windows = DOMAIN l.windows BY <1>3
    <2>3. \A w \in DOMAIN m.windows : m.windows[w] \subseteq DOMAIN m.tabs
      BY <1>3 DEF Shaped
    <2> QED BY <1>3, <2>1, <2>2, <2>3 DEF Shaped
  <1>5. Reshaped(m, RemoveTabs(l, ts, state)) BY <1>2, <1>4, RemovePanesShape
  <1> QED BY <1>3, <1>5 DEF Reshaped

LEMMA DetachedShape ==
  ASSUME NEW l, Shaped(l)
  PROVE  Reshaped(l, Detached(l))
  <1>1. PICK k : k = [l EXCEPT !.tabs = [t \in DOMAIN @ |->
                                  IF t \in TabsOf(l, DOMAIN l.windows) THEN {} ELSE @[t]]]
    OBVIOUS
  <1>2. PICK m : m = RemovePanes(k, l.panes, "detached") OBVIOUS
  <1>3. Detached(l) = Pruned(m) BY <1>1, <1>2 DEF Detached
  <1>4. /\ Mirror(k)
        /\ k.panes = l.panes /\ k.dead = l.dead /\ k.windows = l.windows
        /\ k.paneMap = l.paneMap /\ k.tabMap = l.tabMap
        /\ k.windowMap = l.windowMap /\ k.busy = l.busy
        /\ k.tabs = [t \in DOMAIN l.tabs |->
                       IF t \in TabsOf(l, DOMAIN l.windows) THEN {} ELSE l.tabs[t]]
    BY <1>1 DEF Shaped, Mirror, Fields
  <1>5. Reshaped(l, k)
    <2>1. DOMAIN k.tabs = DOMAIN l.tabs BY <1>4
    <2>2. \A t \in DOMAIN k.tabs : k.tabs[t] \subseteq LocalPane BY <1>4 DEF Shaped
    <2> QED BY <1>4, <2>1, <2>2 DEF Shaped, Reshaped
  <1>6. Reshaped(k, m) BY <1>2, <1>5, RemovePanesShape DEF Reshaped
  <1>7. Reshaped(m, Pruned(m)) BY <1>6, PrunedShape DEF Reshaped
  <1> QED BY <1>3, <1>5, <1>6, <1>7 DEF Reshaped

LEMMA ExpiredShape ==
  ASSUME NEW l, Shaped(l)
  PROVE  Reshaped(l, Expired(l))
  <1> DEFINE has(t) == t \in DOMAIN l.tabs /\ l.tabs[t] # {}
             ps == {r \in DOMAIN l.paneMap : l.paneMap[r] \in l.panes}
             ts == {t \in DOMAIN l.tabMap : has(l.tabMap[t])}
             ws == {w \in DOMAIN l.windowMap : \E t \in TabsOf(l, {l.windowMap[w]}) : has(t)}
  <1>1. PICK m : m = Expired(l) OBVIOUS
  <1>2. /\ Mirror(m)
        /\ m.panes = l.panes /\ m.dead = l.dead /\ m.tabs = l.tabs
        /\ m.windows = l.windows /\ m.busy = l.busy
    BY <1>1 DEF Expired, Shaped, Mirror, Fields
  <1>3. m.paneMap = Restrict(l.paneMap, ps)
    BY <1>1 DEF Expired, Shaped, Mirror, Fields
  <1>4. m.tabMap = Restrict(l.tabMap, ts)
    BY <1>1 DEF Expired, Shaped, Mirror, Fields
  <1>5. m.windowMap = Restrict(l.windowMap, ws)
    BY <1>1 DEF Expired, Shaped, Mirror, Fields
  <1>6. /\ \A r \in DOMAIN m.paneMap : r \in DOMAIN l.paneMap /\ m.paneMap[r] = l.paneMap[r]
        /\ \A t \in DOMAIN m.tabMap : t \in DOMAIN l.tabMap /\ m.tabMap[t] = l.tabMap[t]
        /\ \A w \in DOMAIN m.windowMap : w \in DOMAIN l.windowMap /\ m.windowMap[w] = l.windowMap[w]
    <2> HIDE DEF has
    <2> QED BY <1>3, <1>4, <1>5 DEF Restrict
  <1> QED BY <1>1, <1>2, <1>6 DEF Shaped, Reshaped

LEMMA FindShape ==
  ASSUME NEW l, Shaped(l), NEW r, Find(l, r) # None
  PROVE  r \in Pane /\ Find(l, r) \in LocalPane
  <1>1. CASE r \in DOMAIN l.paneMap BY <1>1 DEF Find, Shaped
  <1>2. CASE r \notin DOMAIN l.paneMap
    <2> DEFINE copies == {p \in l.panes : p[1] = r}
    <2>1. copies # {} BY <1>2 DEF Find
    <2>2. Find(l, r) = CHOOSE p \in copies : TRUE BY <1>2, <2>1 DEF Find
    <2>3. PICK p : p = Find(l, r) OBVIOUS
    <2>4. p \in copies BY <2>1, <2>2, <2>3
    <2>5. p \in LocalPane /\ p[1] = r BY <2>4 DEF Shaped
    <2> QED BY <2>3, <2>5 DEF LocalPane
  <1> QED BY <1>1, <1>2

LEMMA FoundShape ==
  ASSUME NEW l, Shaped(l), NEW r
  PROVE  Reshaped(l, Found(l, r))
  <1>1. CASE Find(l, r) = None BY <1>1 DEF Found, Reshaped
  <1>2. CASE Find(l, r) # None
    <2>1. PICK m, p : m = Found(l, r) /\ p = Find(l, r) OBVIOUS
    <2>2. r \in Pane /\ p \in LocalPane BY <1>2, <2>1, FindShape
    <2>3. /\ Mirror(m)
          /\ m.panes = l.panes /\ m.dead = l.dead /\ m.tabs = l.tabs
          /\ m.windows = l.windows /\ m.busy = l.busy
          /\ m.tabMap = l.tabMap /\ m.windowMap = l.windowMap
      BY <1>2, <2>1 DEF Found, Shaped, Mirror, Fields
    <2>4. m.paneMap = [x \in DOMAIN l.paneMap \cup {r} |-> IF x = r THEN p ELSE l.paneMap[x]]
      BY <1>2, <2>1 DEF Found, Shaped, Mirror, Fields
    <2>5. \A x \in DOMAIN m.paneMap : x \in Pane /\ m.paneMap[x] \in LocalPane
      BY <2>2, <2>4 DEF Shaped
    <2> QED BY <2>1, <2>3, <2>5 DEF Shaped, Reshaped
  <1> QED BY <1>1, <1>2

LEMMA PaneGoneShape ==
  ASSUME NEW l, Shaped(l), NEW r
  PROVE  Reshaped(l, PaneGone(l, r))
  <1>1. CASE Find(l, r) \notin l.panes BY <1>1 DEF PaneGone, Reshaped
  <1>2. CASE Find(l, r) \in l.panes
    <2>1. PICK f, p : f = Found(l, r) /\ p = Find(l, r) OBVIOUS
    <2>2. PICK k : k = [f EXCEPT !.dead = @ \cup {p}] OBVIOUS
    <2>3. PICK m : m = Pruned(k) OBVIOUS
    <2>4. PaneGone(l, r) = Expired(m) BY <1>2, <2>1, <2>2, <2>3 DEF PaneGone
    <2>5. Reshaped(l, f) BY <2>1, FoundShape
    <2>6. p \in LocalPane BY <1>2, <2>1 DEF Shaped
    <2>7. Reshaped(f, k)
      <3>1. /\ Mirror(k)
            /\ k.panes = f.panes /\ k.dead = f.dead \cup {p} /\ k.tabs = f.tabs
            /\ k.windows = f.windows /\ k.busy = f.busy /\ k.paneMap = f.paneMap
            /\ k.tabMap = f.tabMap /\ k.windowMap = f.windowMap
        BY <2>2, <2>5 DEF Reshaped, Shaped, Mirror, Fields
      <3> QED BY <2>5, <2>6, <3>1 DEF Reshaped, Shaped
    <2>8. Reshaped(k, m) BY <2>3, <2>7, PrunedShape DEF Reshaped
    <2>9. Reshaped(m, Expired(m)) BY <2>8, ExpiredShape DEF Reshaped
    <2> QED BY <2>4, <2>5, <2>7, <2>8, <2>9 DEF Reshaped
  <1> QED BY <1>1, <1>2

-----------------------------------------------------------------------------
(* What is named has a name of the client's.                               *)

\* The tabs that the server has ever had
Placed == {t \in Tab : window[t] \in Window}

\* The lists that the server makes
Listing(list) == \A r \in DOMAIN list : r \in Pane /\ list[r] \in Placed

LEMMA PaneNamed ==
  ASSUME Shaped(local), NamesLeft, NEW r \in Pane
  PROVE  /\ Fresh(r, UsedPanes(local)) \in LocalPane
         /\ PaneFor(local, r) \in LocalPane
  <1>1. PICK used : used = UsedPanes(local) OBVIOUS
  <1>2. \E k \in 1..Copies : <<r, k>> \notin used BY <1>1 DEF NamesLeft
  <1>3. PICK p : p = Fresh(r, used) OBVIOUS
  <1>4. \E k \in 1..Copies : p = <<r, k>> BY <1>2, <1>3, FreshParts
  <1>5. p \in LocalPane BY <1>4 DEF LocalPane
  <1> QED BY <1>1, <1>3, <1>5 DEF PaneFor, Shaped

LEMMA TabNamed ==
  ASSUME Shaped(local), NamesLeft, NEW t \in Tab
  PROVE  /\ Fresh(t, UsedTabs(local)) \in LocalTab
         /\ TabFor(local, t) \in LocalTab
  <1>1. PICK used : used = UsedTabs(local) OBVIOUS
  <1>2. \E k \in 1..Copies : <<t, k>> \notin used BY <1>1 DEF NamesLeft
  <1>3. PICK n : n = Fresh(t, used) OBVIOUS
  <1>4. \E k \in 1..Copies : n = <<t, k>> BY <1>2, <1>3, FreshParts
  <1>5. n \in LocalTab BY <1>4 DEF LocalTab
  <1> QED BY <1>1, <1>3, <1>5 DEF TabFor, Shaped

LEMMA WindowNamed ==
  ASSUME Shaped(local), NamesLeft, NEW w \in Window, NEW adopt
  PROVE  WindowFor(local, w, adopt) \in LocalWindow
  <1>1. PICK used : used = UsedWindows(local) OBVIOUS
  <1>2. \E k \in 1..Copies : <<w, k>> \notin used BY <1>1 DEF NamesLeft
  <1>3. PICK n : n = Fresh(w, used) OBVIOUS
  <1>4. \E k \in 1..Copies : n = <<w, k>> BY <1>2, <1>3, FreshParts
  <1>5. n \in LocalWindow BY <1>4 DEF LocalWindow
  <1>6. CASE w \in DOMAIN local.windowMap BY <1>6 DEF WindowFor, Shaped
  <1>7. CASE w \notin DOMAIN local.windowMap /\ w = adopt BY <1>7 DEF WindowFor, LocalWindow
  <1>8. CASE w \notin DOMAIN local.windowMap /\ w # adopt
    BY <1>1, <1>3, <1>5, <1>8 DEF WindowFor
  <1> QED BY <1>6, <1>7, <1>8

LEMMA SyncedShape ==
  ASSUME Shaped(local), NamesLeft, NEW list, Listing(list), NEW adopt
  PROVE  Reshaped(local, Synced(local, list, adopt))
  <1> DEFINE l == local
             tabMap == [t \in Range(list) |-> TabFor(l, t)]
             windowMap == [w \in WindowsOf(list) |-> WindowFor(l, w, adopt)]
             tree(t) == {PaneFor(l, r) : r \in {s \in DOMAIN list : tabMap[list[s]] = t}}
             tabs == Range(tabMap)
             pushed(v) == {tabMap[t] : t \in {u \in Range(list) : windowMap[window[u]] = v}}
             F == {s \in DOMAIN list : Find(l, s) \in l.panes}
  <1>1. PICK m : m = Synced(l, list, adopt) OBVIOUS
  <1>2. Mirror(l) BY DEF Shaped
  <1>3. /\ Mirror(m)
        /\ m.panes = l.panes \cup {PaneFor(l, r) : r \in DOMAIN list}
        /\ m.dead = l.dead /\ m.busy = l.busy
        /\ m.paneMap = [r \in F |-> Find(l, r)]
        /\ m.tabMap = tabMap /\ m.windowMap = windowMap
    BY <1>1, <1>2 DEF Synced, Mirror, Fields
  <1>4. m.tabs = [t \in DOMAIN l.tabs \cup tabs |-> IF t \in tabs THEN tree(t) ELSE l.tabs[t]]
    BY <1>1, <1>2 DEF Synced, Mirror, Fields
  <1>5. m.windows = [v \in DOMAIN l.windows \cup Range(windowMap) |->
                       (IF v \in DOMAIN l.windows THEN l.windows[v] ELSE {}) \cup pushed(v)]
    BY <1>1, <1>2 DEF Synced, Mirror, Fields
  <1>6. \A t \in Range(list) : t \in Tab /\ window[t] \in Window
    BY DEF Range, Listing, Placed
  <1>7. \A w \in WindowsOf(list) : w \in Window BY <1>6 DEF WindowsOf
  <1>8. \A t \in Range(list) : TabFor(l, t) \in LocalTab BY <1>6, TabNamed
  <1>9. \A w \in WindowsOf(list) : WindowFor(l, w, adopt) \in LocalWindow BY <1>7, WindowNamed
  <1>10. \A r \in DOMAIN list : r \in Pane /\ PaneFor(l, r) \in LocalPane
    BY PaneNamed DEF Listing
  <1>11. \A t \in DOMAIN tabMap : t \in Tab /\ tabMap[t] \in LocalTab BY <1>6, <1>8
  <1>12. \A w \in DOMAIN windowMap : w \in Window /\ windowMap[w] \in LocalWindow
    BY <1>7, <1>9
  <1>13. m.panes \subseteq LocalPane BY <1>3, <1>10 DEF Shaped
  <1>14. tabs \subseteq LocalTab BY <1>11 DEF Range
  <1>15. Range(windowMap) \subseteq LocalWindow BY <1>12 DEF Range
  <1>16. \A t : tree(t) \subseteq LocalPane BY <1>10
  <1>17. \A v : pushed(v) \subseteq tabs
    <2> SUFFICES ASSUME NEW v, NEW x \in pushed(v) PROVE x \in tabs OBVIOUS
    <2>1. PICK t \in Range(list) : x = tabMap[t] OBVIOUS
    <2>2. t \in DOMAIN tabMap OBVIOUS
    <2> HIDE DEF tabMap
    <2> QED BY <2>1, <2>2 DEF Range
  <1>18. \A r \in DOMAIN m.paneMap : r \in Pane /\ m.paneMap[r] \in LocalPane
    BY <1>3, <1>10 DEF Shaped
  <1> HIDE DEF tabMap, windowMap, tree, tabs, pushed, F, l
  <1>19. \A t \in DOMAIN m.tabs : t \in LocalTab /\ m.tabs[t] \subseteq LocalPane
    BY <1>4, <1>14, <1>16 DEF Shaped, l
  <1>20. DOMAIN m.tabs = DOMAIN l.tabs \cup tabs BY <1>4
  <1>21. \A v \in DOMAIN m.windows : v \in LocalWindow /\ m.windows[v] \subseteq DOMAIN m.tabs
    <2> SUFFICES ASSUME NEW v \in DOMAIN m.windows
                 PROVE  v \in LocalWindow /\ m.windows[v] \subseteq DOMAIN m.tabs
      OBVIOUS
    <2>1. v \in DOMAIN l.windows \cup Range(windowMap) BY <1>5
    <2>2. m.windows[v] = (IF v \in DOMAIN l.windows THEN l.windows[v] ELSE {}) \cup pushed(v)
      BY <1>5, <2>1
    <2>3. v \in LocalWindow BY <1>15, <2>1 DEF Shaped, l
    <2>4. v \in DOMAIN l.windows => l.windows[v] \subseteq DOMAIN l.tabs BY DEF Shaped, l
    <2> QED BY <1>17, <1>20, <2>2, <2>3, <2>4
  <1>22. Shaped(m) BY <1>3, <1>11, <1>12, <1>13, <1>18, <1>19, <1>21 DEF Shaped, l
  <1> QED BY <1>1, <1>3, <1>22 DEF Reshaped, l

\* An answer: the pane, and perhaps a tab of its own
LEMMA SpawnDoneShape ==
  ASSUME Shaped(local), NamesLeft, NEW l, Shaped(l),
         UsedPanes(l) = UsedPanes(local), UsedTabs(l) = UsedTabs(local),
         NEW r \in Pane, NEW t \in Placed, NEW request, request.into \in LocalWindow
  PROVE  Reshaped(l, SpawnDone(l, r, t, request))
  <1>1. PICK m, p, mine : /\ m = SpawnDone(l, r, t, request)
                          /\ p = Fresh(r, UsedPanes(l)) /\ mine = Fresh(t, UsedTabs(l))
    OBVIOUS
  <1>2. PICK into : into = request.into OBVIOUS
  <1>3. t \in Tab /\ window[t] \in Window BY DEF Placed
  <1>4. p \in LocalPane /\ mine \in LocalTab BY <1>1, <1>3, PaneNamed, TabNamed
  <1>5. Mirror(l) BY DEF Shaped
  <1>6. /\ Mirror(m)
        /\ m.panes = l.panes \cup {p} /\ m.dead = l.dead /\ m.busy = l.busy
        /\ m.paneMap = l.paneMap
    BY <1>1, <1>5 DEF SpawnDone, Mirror, Fields
  <1>7. /\ m.tabs = [x \in DOMAIN l.tabs \cup {mine} |-> IF x = mine THEN {p} ELSE l.tabs[x]]
        /\ m.windows = [w \in DOMAIN l.windows |->
                          l.windows[w] \cup (IF w = into THEN {mine} ELSE {})]
    BY <1>1, <1>2, <1>5 DEF SpawnDone, Mirror, Fields
  <1>8. /\ m.tabMap = [x \in DOMAIN l.tabMap \cup {t} |-> IF x = t THEN mine ELSE l.tabMap[x]]
        /\ m.windowMap = [x \in DOMAIN l.windowMap \cup {window[t]} |->
                            IF x = window[t] THEN into ELSE l.windowMap[x]]
    BY <1>1, <1>2, <1>5 DEF SpawnDone, Mirror, Fields
  <1>9. \A x \in DOMAIN m.tabs : x \in LocalTab /\ m.tabs[x] \subseteq LocalPane
    BY <1>4, <1>7 DEF Shaped
  <1>10. \A w \in DOMAIN m.windows : w \in LocalWindow /\ m.windows[w] \subseteq DOMAIN m.tabs
    BY <1>7 DEF Shaped
  <1>11. \A x \in DOMAIN m.tabMap : x \in Tab /\ m.tabMap[x] \in LocalTab
    BY <1>3, <1>4, <1>8 DEF Shaped
  <1>12. \A x \in DOMAIN m.windowMap : x \in Window /\ m.windowMap[x] \in LocalWindow
    BY <1>2, <1>3, <1>8 DEF Shaped
  <1>13. Shaped(m) BY <1>4, <1>6, <1>9, <1>10, <1>11, <1>12 DEF Shaped
  <1> QED BY <1>1, <1>6, <1>13 DEF Reshaped

LEMMA SplitDoneShape ==
  ASSUME Shaped(local), NamesLeft, NEW l, Shaped(l), UsedPanes(l) = UsedPanes(local),
         NEW r \in Pane, NEW request, NEW m \in SplitDone(l, r, request)
  PROVE  Reshaped(l, m)
  <1>1. PICK p, tab : p = Fresh(r, UsedPanes(l)) /\ tab = request.tab OBVIOUS
  <1>2. PICK registered : registered = [l EXCEPT !.panes = @ \cup {p}] OBVIOUS
  <1>3. \/ m = l
        \/ m = registered
        \/ tab \in DOMAIN l.tabs /\ m = [registered EXCEPT !.tabs[tab] = @ \cup {p}]
    BY <1>1, <1>2 DEF SplitDone
  <1>4. p \in LocalPane BY <1>1, PaneNamed
  <1>5. /\ Mirror(registered)
        /\ registered.panes = l.panes \cup {p} /\ registered.dead = l.dead
        /\ registered.tabs = l.tabs /\ registered.windows = l.windows
        /\ registered.paneMap = l.paneMap /\ registered.tabMap = l.tabMap
        /\ registered.windowMap = l.windowMap /\ registered.busy = l.busy
    BY <1>2 DEF Shaped, Mirror, Fields
  <1>6. Reshaped(l, registered) BY <1>4, <1>5 DEF Shaped, Reshaped
  <1>7. CASE m = l BY <1>7 DEF Reshaped
  <1>8. CASE m = registered BY <1>6, <1>8
  <1>9. CASE tab \in DOMAIN l.tabs /\ m = [registered EXCEPT !.tabs[tab] = @ \cup {p}]
    <2>1. /\ Mirror(m)
          /\ m.panes = registered.panes /\ m.dead = l.dead
          /\ m.windows = l.windows /\ m.paneMap = l.paneMap /\ m.tabMap = l.tabMap
          /\ m.windowMap = l.windowMap /\ m.busy = l.busy
      BY <1>5, <1>9 DEF Mirror, Fields
    <2>2. m.tabs = [l.tabs EXCEPT ![tab] = @ \cup {p}]
      BY <1>5, <1>9 DEF Mirror, Fields
    <2>3. DOMAIN m.tabs = DOMAIN l.tabs BY <2>2
    <2>4. \A t \in DOMAIN m.tabs : m.tabs[t] \subseteq LocalPane BY <1>4, <2>2 DEF Shaped
    <2> QED BY <1>6, <2>1, <2>3, <2>4 DEF Shaped, Reshaped
  <1> QED BY <1>3, <1>7, <1>8, <1>9

-----------------------------------------------------------------------------
(* Messages are of the protocol, and every request that waits is counted:  *)
(* it is with the server or its answer is on its way.                      *)

Request(x) == x.type = "spawn" => x.into \in LocalWindow

Worded(m, N) ==
  /\ m.posted \in BOOLEAN
  /\ m.type = "list" => \A r \in DOMAIN m.panes : m.panes[r] \in N
  /\ m.type = "spawned" => m.tab \in N /\ Request(m.request)

Written ==
  /\ window \in [Tab -> Window \cup {None}]
  /\ \A r \in OnServer : at[r] \in Placed
  /\ \A m : Member(inbox, m) => Worded(m, Placed)
  /\ \A x \in serving : Request(x)
  /\ Shaped(local)
  /\ domain \in {"attaching", "attached", "detached"}
  /\ closed \subseteq Pane
  /\ crashed \in {None, "window", "primary"}

Tally ==
  /\ events \in 0..MaxEvents
  /\ IsFiniteSet(serving)
  /\ local.busy = Count(inbox) + Cardinality(serving)
  /\ local.busy + events <= MaxEvents

\* The inductive invariant
Kept == Justified /\ Written /\ Tally

LEMMA Counted ==
  ASSUME Kept
  PROVE  /\ Queued(inbox)
         /\ Count(inbox) \in Nat /\ Cardinality(serving) \in Nat /\ local.busy \in Nat
         /\ events \in Nat /\ MaxEvents \in Nat
  <1>1. Queued(inbox) BY DEF Kept, Justified, Just
  <1>2. Count(inbox) \in Nat BY <1>1, CountType
  <1>3. Cardinality(serving) \in Nat BY FS_CardinalityType DEF Kept, Tally
  <1> QED BY <1>1, <1>2, <1>3, BoundsAssumption DEF Kept, Tally

\* Tabs stay in their window, and a pane is in a tab that has one
Settles ==
  /\ window' \in [Tab -> Window \cup {None}]
  /\ \A t \in Placed : t \in Placed'
  /\ \A r \in OnServer' : at'[r] \in Placed'

LEMMA Untouched ==
  ASSUME Kept, UNCHANGED <<at, window>>
  PROVE  Settles
  BY DEF Kept, Written, Settles, Placed, OnServer

LEMMA StillSettled ==
  ASSUME Kept, UNCHANGED server
  PROVE  Settles
  BY Untouched DEF server

\* Panes that go leave no tab without a window
LEMMA SweepSettles ==
  ASSUME Kept, NEW out, at' \in Swept(at, out), UNCHANGED window
  PROVE  Settles
  <1>1. window \in [Tab -> Window \cup {None}] /\ \A x \in OnServer : at[x] \in Placed
    BY DEF Kept, Written
  <1>2. at \in [Pane -> Tab \cup {None, Gone}] BY DEF Kept, Justified
  <1>3. PICK b : b = at' OBVIOUS
  <1>4. \A r \in Pane : b[r] = at[r] \/ (at[r] \in Tab /\ b[r] = Gone)
    BY <1>2, <1>3, SweptParts
  <1>5. \A x : x \in Placed <=> x \in Placed' BY DEF Placed
  <1>6. \A x \in OnServer' : at'[x] \in Placed'
    <2> SUFFICES ASSUME NEW x \in OnServer' PROVE at'[x] \in Placed' OBVIOUS
    <2>1. x \in Pane /\ at'[x] \in Tab BY DEF OnServer
    <2>2. at'[x] = at[x] BY <1>3, <1>4, <2>1, Distinct
    <2>3. x \in OnServer BY <2>1, <2>2 DEF OnServer
    <2> QED BY <1>1, <1>5, <2>2, <2>3
  <1> QED BY <1>1, <1>5, <1>6 DEF Settles

LEMMA MoveSettles ==
  ASSUME Kept, NEW r \in Pane, NEW w \in Window, OtherMoves(r, w)
  PROVE  Settles
  <1>1. \E t \in Tab : t \notin {x \in Tab : window[x] # None} BY DEF OtherMoves, MoreTabs
  <1>2. PICK n, a : n = NewTab /\ a = at' OBVIOUS
  <1>3. n \in Tab /\ window[n] = None BY <1>1, <1>2 DEF NewTab, Unused
  <1>4. window' = [window EXCEPT ![n] = w] BY <1>2 DEF OtherMoves
  <1>5. window \in [Tab -> Window \cup {None}] /\ \A x \in OnServer : at[x] \in Placed
    BY DEF Kept, Written
  <1>6. /\ a[r] \in {n, Gone}
        /\ \A x \in Pane \ {r} : a[x] = at[x] \/ (at[x] \in Tab /\ a[x] = Gone)
    BY <1>2, MoveParts DEF Kept
  <1>7. None \notin Window BY NamesAssumption
  <1>8. n \in Placed' BY <1>3, <1>4, <1>5 DEF Placed
  <1>9. \A t \in Placed : t \in Placed' BY <1>3, <1>4, <1>5, <1>7 DEF Placed
  <1>10. \A x \in OnServer' : at'[x] \in Placed'
    <2> SUFFICES ASSUME NEW x \in OnServer' PROVE at'[x] \in Placed' OBVIOUS
    <2>1. x \in Pane /\ at'[x] \in Tab BY DEF OnServer
    <2>2. CASE x = r BY <1>2, <1>6, <1>8, <2>1, <2>2, Distinct
    <2>3. CASE x # r
      <3>1. at'[x] = at[x] BY <1>2, <1>6, <2>1, <2>3, Distinct
      <3>2. x \in OnServer BY <2>1, <3>1 DEF OnServer
      <3> QED BY <1>5, <1>9, <3>1, <3>2
    <2> QED BY <2>2, <2>3
  <1>11. window' \in [Tab -> Window \cup {None}] BY <1>3, <1>4, <1>5
  <1> QED BY <1>9, <1>10, <1>11 DEF Settles

LEMMA InNewTabSettles ==
  ASSUME Kept, NEW r \in Pane, NEW w \in Window, InNewTab(r, w)
  PROVE  Settles /\ NewTab \in Placed'
  <1>1. \E t \in Tab : t \notin {x \in Tab : window[x] # None} BY DEF InNewTab, MoreTabs
  <1>2. PICK n : n = NewTab OBVIOUS
  <1>3. n \in Tab /\ window[n] = None BY <1>1, <1>2 DEF NewTab, Unused
  <1>4. at' = [at EXCEPT ![r] = n] /\ window' = [window EXCEPT ![n] = w]
    BY <1>2 DEF InNewTab
  <1>5. window \in [Tab -> Window \cup {None}] /\ \A x \in OnServer : at[x] \in Placed
    BY DEF Kept, Written
  <1>6. at \in [Pane -> Tab \cup {None, Gone}] BY DEF Kept, Justified
  <1>7. window' \in [Tab -> Window \cup {None}] BY <1>3, <1>4, <1>5
  <1>8. None \notin Window BY NamesAssumption
  <1>9. n \in Placed' BY <1>3, <1>4, <1>5 DEF Placed
  <1>10. \A t \in Placed : t \in Placed' BY <1>3, <1>4, <1>5, <1>8 DEF Placed
  <1>11. \A x \in OnServer' : at'[x] \in Placed'
    <2> SUFFICES ASSUME NEW x \in OnServer' PROVE at'[x] \in Placed' OBVIOUS
    <2>1. x \in Pane /\ at'[x] \in Tab BY DEF OnServer
    <2>2. CASE x = r BY <1>4, <1>6, <1>9, <2>2
    <2>3. CASE x # r
      <3>1. at'[x] = at[x] BY <1>4, <1>6, <2>1, <2>3
      <3>2. x \in OnServer BY <2>1, <3>1 DEF OnServer
      <3> QED BY <1>5, <1>10, <3>1, <3>2
    <2> QED BY <2>2, <2>3
  <1> QED BY <1>2, <1>7, <1>9, <1>10, <1>11 DEF Settles

LEMMA PutSettles ==
  ASSUME Kept, NEW r \in Pane, NEW t, t \in Placed \/ t \notin Tab,
         at' = [at EXCEPT ![r] = t], window' = window
  PROVE  Settles
  <1>1. window \in [Tab -> Window \cup {None}] /\ \A x \in OnServer : at[x] \in Placed
    BY DEF Kept, Written
  <1>2. at \in [Pane -> Tab \cup {None, Gone}] BY DEF Kept, Justified
  <1>3. \A x : x \in Placed <=> x \in Placed' BY DEF Placed
  <1>4. \A x \in OnServer' : at'[x] \in Placed'
    <2> SUFFICES ASSUME NEW x \in OnServer' PROVE at'[x] \in Placed' OBVIOUS
    <2>1. x \in Pane /\ at'[x] \in Tab BY DEF OnServer
    <2>2. CASE x = r
      <3>1. at'[x] = t BY <1>2, <2>2
      <3>2. t \in Placed BY <2>1, <3>1
      <3> QED BY <1>3, <3>1, <3>2
    <2>3. CASE x # r
      <3>1. at'[x] = at[x] BY <1>2, <2>1, <2>3
      <3>2. x \in OnServer BY <2>1, <3>1 DEF OnServer
      <3> QED BY <1>1, <1>3, <3>1, <3>2
    <2> QED BY <2>2, <2>3
  <1> QED BY <1>1, <1>3, <1>4 DEF Settles

\* A message that was meant so before is so now
LEMMA WordedStays ==
  ASSUME Kept, Settles, NEW m, Member(inbox, m)
  PROVE  Worded(m, Placed')
  BY DEF Kept, Written, Settles, Worded

\* The client's mux is left alone, and nothing is answered
LEMMA Passes ==
  ASSUME Kept, Settles, Acts \/ Works,
         UNCHANGED <<serving, domain, local, closed, crashed>>,
         \A m : Member(inbox', m) => Member(inbox, m) \/ Worded(m, Placed'),
         Count(inbox') = Count(inbox)
  PROVE  Written' /\ Tally'
  <1>1. \A m : Member(inbox', m) => Worded(m, Placed') BY WordedStays
  <1>2. Shaped(local') BY DEF Kept, Written
  <1>3. Written' BY <1>1, <1>2 DEF Kept, Written, Settles
  <1>4. events' \in Nat /\ events' <= events BY Counted DEF Acts, Works
  <1>5. Tally' BY <1>4, Counted DEF Kept, Tally
  <1> QED BY <1>3, <1>5

LEMMA Tells ==
  ASSUME Kept, Settles, Acts \/ Works,
         UNCHANGED <<serving, domain, local, closed, crashed>>,
         NEW m, inbox' = Append(inbox, m), m.type \notin {"spawned", "failed"},
         Worded(m, Placed')
  PROVE  Written' /\ Tally'
  <1>1. Count(inbox') = Count(inbox) BY Counted, CountAppend
  <1>2. \A x : Member(inbox', x) => Member(inbox, x) \/ x = m BY Counted, AppendMembers
  <1>3. \A x : Member(inbox', x) => Member(inbox, x) \/ Worded(x, Placed') BY <1>2
  <1> QED BY <1>1, <1>3, Passes

LEMMA SaysNothing ==
  ASSUME Kept, Settles, Acts \/ Works,
         UNCHANGED <<serving, domain, local, closed, crashed, inbox>>
  PROVE  Written' /\ Tally'
  BY Passes

\* A request is answered
LEMMA JoinedOne ==
  ASSUME NEW q, Queued(q), NEW a
  PROVE  q \o <<a>> = Append(q, a)
  <1> DEFINE S == {q[k] : k \in DOMAIN q} \cup {a}
  <1>1. q \in Seq({q[k] : k \in DOMAIN q}) BY QueuedIsSeq
  <1>2. q \in Seq(S) /\ a \in S BY <1>1, SeqDef
  <1> HIDE DEF S
  <1> QED BY <1>2

LEMMA JoinedTwo ==
  ASSUME NEW q, Queued(q), NEW a, NEW b
  PROVE  q \o <<a, b>> = Append(Append(q, a), b)
  <1> DEFINE S == {q[k] : k \in DOMAIN q} \cup {a, b}
  <1>1. q \in Seq({q[k] : k \in DOMAIN q}) BY QueuedIsSeq
  <1>2. q \in Seq(S) /\ a \in S /\ b \in S BY <1>1, SeqDef
  <1> HIDE DEF S
  <1> QED BY <1>2

LEMMA Replies ==
  ASSUME Kept, Settles, Works, UNCHANGED <<domain, local, closed, crashed>>,
         NEW request \in serving, serving' = serving \ {request},
         NEW q, Queued(q), Count(q) = Count(inbox),
         \A x : Member(q, x) => Member(inbox, x) \/ Worded(x, Placed'),
         NEW m, inbox' = Append(q, m), m.type \in {"spawned", "failed"}, Worded(m, Placed')
  PROVE  Written' /\ Tally'
  <1>1. Count(inbox') = Count(inbox) + 1 BY CountAppend
  <1>2. \A x : Member(inbox', x) => Member(q, x) \/ x = m BY AppendMembers
  <1>3. \A x : Member(inbox', x) => Worded(x, Placed') BY <1>2, WordedStays
  <1>4. IsFiniteSet(serving') /\ Cardinality(serving') = Cardinality(serving) - 1
    BY FS_RemoveElement DEF Kept, Tally
  <1>5. Tally' BY <1>1, <1>4, Counted DEF Works, Kept, Tally
  <1>6. Shaped(local') BY DEF Kept, Written
  <1>7. \A x \in serving' : Request(x) BY DEF Kept, Written
  <1>8. Written' BY <1>3, <1>6, <1>7 DEF Kept, Written, Settles
  <1> QED BY <1>5, <1>8

LEMMA RemovalKept ==
  ASSUME Kept, NEW r, NEW messages, MuxRemoves(r, messages),
         messages \in {<<Removed(r)>>, <<Removed(r), Output(r)>>},
         Acts \/ Works, UNCHANGED <<serving, domain, local, closed, crashed>>
  PROVE  Written' /\ Tally'
  <1>1. Settles BY SweepSettles DEF MuxRemoves
  <1>2. PICK a, b, e : a = Removed(r) /\ b = Output(r) /\ e = messages OBVIOUS
  <1>3. /\ a.type = "removed" /\ a.posted = FALSE
        /\ b.type = "output" /\ b.posted = FALSE
    BY <1>2 DEF Removed, Output
  <1>4. Worded(a, Placed') /\ Worded(b, Placed') BY <1>3 DEF Worded
  <1>5. inbox' = inbox \o e BY <1>2 DEF MuxRemoves
  <1>6. PICK q : q = Append(inbox, a) OBVIOUS
  <1>7. Queued(q) /\ Count(q) = Count(inbox) /\ \A x : Member(q, x) => Member(inbox, x) \/ x = a
    BY <1>3, <1>6, Counted, AppendParts, AppendMembers, CountAppend
  <1>8. CASE e = <<a>>
    <2>1. inbox' = q BY <1>5, <1>6, <1>8, Counted, JoinedOne
    <2> QED BY <1>1, <1>4, <1>7, <2>1, Passes
  <1>9. CASE e = <<a, b>>
    <2>1. inbox' = Append(q, b) BY <1>5, <1>6, <1>9, Counted, JoinedTwo
    <2>2. Count(inbox') = Count(inbox) BY <1>3, <1>7, <2>1, CountAppend
    <2>3. \A x : Member(inbox', x) => Member(inbox, x) \/ x = a \/ x = b
      BY <1>7, <2>1, AppendMembers
    <2> QED BY <1>1, <1>4, <2>2, <2>3, Passes
  <1> QED BY <1>2, <1>8, <1>9

LEMMA OthersKept ==
  ASSUME Kept, Others
  PROVE  Written' /\ Tally'
  <1>1. Justified BY DEF Kept
  <1>2. Worded(Change, Placed') /\ Change.type \notin {"spawned", "failed"}
    BY DEF Worded, Change
  <1>3. ASSUME NEW w \in Window, OtherSpawns(w) \/ OtherOpened(w) PROVE Written' /\ Tally'
    <2>1. NewPane \in Pane BY <1>3, NewPaneParts DEF OtherSpawns, OtherOpened
    <2>2. Settles BY <1>3, <2>1, InNewTabSettles DEF OtherSpawns, OtherOpened
    <2> QED BY <1>2, <1>3, <2>2, Tells DEF OtherSpawns, OtherOpened, Serves, Tell
  <1>4. ASSUME NEW w \in Window, NEW r \in Pane, OtherMoves(r, w) PROVE Written' /\ Tally'
    <2>1. Settles BY <1>4, MoveSettles
    <2> QED BY <1>2, <1>4, <2>1, Tells DEF OtherMoves, Serves, Tell
  <1>5. ASSUME NEW r \in Pane, OtherSplits(r) PROVE Written' /\ Tally'
    <2>1. NewPane \in Pane BY <1>5, NewPaneParts DEF OtherSplits
    <2>2. at[r] \in Placed BY <1>5 DEF OtherSplits, Known, Kept, Written
    <2>3. Settles BY <1>5, <2>1, <2>2, PutSettles DEF OtherSplits
    <2> QED BY <1>5, <2>3, SaysNothing DEF OtherSplits, Serves
  <1>6. ASSUME NEW r \in Pane, PaneExits(r) PROVE Written' /\ Tally'
    <2>1. Settles BY <1>6, PutSettles, Distinct DEF PaneExits
    <2> QED BY <1>6, <2>1, SaysNothing DEF PaneExits, Serves
  <1>7. ASSUME TabResized PROVE Written' /\ Tally'
    <2>1. Settles BY <1>7, StillSettled DEF TabResized
    <2> QED BY <1>2, <1>7, <2>1, Tells DEF TabResized, Serves, Tell
  <1>8. ASSUME NEW r \in Pane, PaneEnds(r) PROVE Written' /\ Tally'
    BY <1>8, RemovalKept DEF PaneEnds, Serves
  <1>9. ASSUME OtherOpens PROVE Written' /\ Tally'
    BY <1>9, Untouched, SaysNothing DEF OtherOpens, Serves
  <1> QED BY <1>3, <1>4, <1>5, <1>6, <1>7, <1>8, <1>9 DEF Others

LEMMA ServerKept ==
  ASSUME Kept, ServerWorks
  PROVE  Written' /\ Tally'
  <1>1. CASE ServeList
    <2>1. PICK why, m : why = Head(toServer).why /\ m = Panes(why) OBVIOUS
    <2>2. Settles BY <1>1, StillSettled DEF ServeList
    <2>3. m.type = "list" /\ m.posted = FALSE BY <2>1 DEF Panes
    <2>4. \A r \in DOMAIN Restrict(at, OnServer) : r \in OnServer /\ Restrict(at, OnServer)[r] = at[r]
      BY DEF Restrict
    <2>5. \A r \in OnServer : at[r] \in Placed' BY <2>2 DEF Kept, Written, Settles
    <2>6. m.panes = Restrict(at, OnServer) BY <2>1 DEF Panes
    <2>7. Worded(m, Placed') BY <2>3, <2>4, <2>5, <2>6 DEF Worded
    <2> QED BY <1>1, <2>1, <2>2, <2>3, <2>7, Tells DEF ServeList, Tell
  <1>2. CASE ServePrune
    BY <1>2, SweepSettles, SaysNothing DEF ServePrune
  <1>3. CASE ServeKill
    <2>1. PICK r : r = Head(toServer).pane OBVIOUS
    <2>2. CASE r \in told
      <3>1. Settles BY <1>3, <2>1, <2>2, StillSettled DEF ServeKill
      <3> QED BY <1>3, <2>1, <2>2, <3>1, SaysNothing DEF ServeKill
    <2>3. CASE r \notin told
      <3>1. PICK messages \in {<<Removed(r)>>, <<Removed(r), Output(r)>>} : MuxRemoves(r, messages)
        BY <1>3, <2>1, <2>3 DEF ServeKill
      <3> QED BY <1>3, <3>1, RemovalKept DEF ServeKill
    <2> QED BY <2>2, <2>3
  <1>4. ASSUME NEW r \in Pane, RemovePane(r) PROVE Written' /\ Tally'
    BY <1>4, RemovalKept DEF RemovePane
  <1>5. ASSUME NEW r \in Pane, PaneWrites(r) PROVE Written' /\ Tally'
    <2>1. Settles BY <1>5, StillSettled DEF PaneWrites
    <2>2. Worded(Output(r), Placed') /\ Output(r).type \notin {"spawned", "failed"}
      BY DEF Worded, Output
    <2> QED BY <1>5, <2>1, <2>2, Tells DEF PaneWrites, Tell
  <1>6. ASSUME NEW request \in serving, ServeSpawn(request) PROVE Written' /\ Tally'
    <2>1. NewPane \in Pane BY <1>6, NewPaneParts DEF ServeSpawn
    <2>2. PICK w \in Window : InNewTab(NewPane, w) BY <1>6 DEF ServeSpawn, WindowChoice
    <2>3. Settles /\ NewTab \in Placed' BY <2>1, <2>2, InNewTabSettles
    <2>4. PICK c, a : c = Change /\ a = Spawned(NewPane, NewTab, request) OBVIOUS
    <2>5. /\ c.type = "change" /\ c.posted = FALSE
          /\ a.type = "spawned" /\ a.posted = FALSE /\ a.tab = NewTab /\ a.request = request
      BY <2>4 DEF Change, Spawned
    <2>6. Request(request) BY DEF Kept, Written
    <2>7. Worded(c, Placed') /\ Worded(a, Placed') BY <2>3, <2>5, <2>6 DEF Worded
    <2>8. PICK q : q = Append(inbox, c) OBVIOUS
    <2>9. Queued(q) /\ Count(q) = Count(inbox) /\ \A x : Member(q, x) => Member(inbox, x) \/ x = c
      BY <2>5, <2>8, Counted, AppendParts, AppendMembers, CountAppend
    <2>10. inbox' = Append(q, a)
      <3>1. inbox' = inbox \o <<c, a>> BY <1>6, <2>4 DEF ServeSpawn, Answers
      <3> QED BY <2>8, <3>1, Counted, JoinedTwo
    <2> QED BY <1>6, <2>3, <2>5, <2>7, <2>9, <2>10, Replies DEF ServeSpawn, Answers
  <1>7. ASSUME NEW request \in serving, NEW m, inbox' = inbox \o <<m>>, Settles, Works,
               serving' = serving \ {request}, UNCHANGED <<domain, local, closed, crashed>>,
               m.type \in {"spawned", "failed"}, Worded(m, Placed')
        PROVE  Written' /\ Tally'
    <2>1. inbox' = Append(inbox, m) BY <1>7, Counted, JoinedOne
    <2>2. PICK q : q = inbox OBVIOUS
    <2>3. Queued(q) /\ Count(q) = Count(inbox) /\ \A x : Member(q, x) => Member(inbox, x)
      BY <2>2, Counted
    <2> QED BY <1>7, <2>1, <2>2, <2>3, Replies
  <1>8. ASSUME NEW request \in serving, ServeSplit(request) PROVE Written' /\ Tally'
    <2>1. NewPane \in Pane BY <1>8, NewPaneParts DEF ServeSplit
    <2>2. PICK t : t = at[request.beside[1]] OBVIOUS
    <2>3. t \in Placed BY <1>8, <2>2 DEF ServeSplit, Known, Kept, Written
    <2>4. Settles BY <1>8, <2>1, <2>2, <2>3, PutSettles DEF ServeSplit
    <2>5. t \in Placed' BY <2>3, <2>4 DEF Settles
    <2>6. PICK a : a = Spawned(NewPane, t, request) OBVIOUS
    <2>7. a.type = "spawned" /\ a.posted = FALSE /\ a.tab = t /\ a.request = request
      BY <2>6 DEF Spawned
    <2>8. Request(request) BY DEF Kept, Written
    <2>9. Worded(a, Placed') BY <2>5, <2>7, <2>8 DEF Worded
    <2>10. inbox' = inbox \o <<a>> BY <1>8, <2>2, <2>6 DEF ServeSplit, Answers
    <2> QED BY <1>7, <1>8, <2>4, <2>7, <2>9, <2>10 DEF ServeSplit, Answers
  <1>9. ASSUME NEW request \in serving, ServeFails(request) PROVE Written' /\ Tally'
    <2>1. Settles BY <1>9, Untouched DEF ServeFails
    <2>2. PICK a : a = Failed OBVIOUS
    <2>3. a.type = "failed" /\ a.posted = FALSE BY <2>2 DEF Failed
    <2>4. Worded(a, Placed') BY <2>3 DEF Worded
    <2>5. inbox' = inbox \o <<a>> BY <1>9, <2>2 DEF ServeFails, Answers
    <2> QED BY <1>7, <1>9, <2>1, <2>3, <2>4, <2>5 DEF ServeFails, Answers
  <1>10. ASSUME OtherGivesUp \/ \E request \in serving : StartsWindow(request)
         PROVE  Written' /\ Tally'
    BY <1>10, Untouched, SaysNothing DEF OtherGivesUp, StartsWindow
  <1> QED BY <1>1, <1>2, <1>3, <1>4, <1>5, <1>6, <1>8, <1>9, <1>10 DEF ServerWorks

-----------------------------------------------------------------------------
(* The handlers of the client.                                             *)

LEMMA PostsCount ==
  ASSUME NEW q, Queued(q), NEW t, t.type \notin {"spawned", "failed"}, NEW p \in Posts(q, t)
  PROVE  Count(p) = Count(q)
  <1>1. PICK k \in 1..(Len(q) + 1) : p = InsertAt(q, k, t) BY DEF Posts
  <1> QED BY <1>1, CountInsert

\* The queue that a handler leaves, before what it posts
LEMMA RestParts ==
  ASSUME Kept, inbox # <<>>
  PROVE  /\ Member(inbox, Head(inbox))
         /\ Worded(Head(inbox), Placed)
         /\ Queued(Rest) /\ \A m : Member(Rest, m) => Member(inbox, m)
         /\ Head(inbox).type \in {"spawned", "failed"} => Count(Rest) = Count(inbox) - 1
         /\ Head(inbox).type \notin {"spawned", "failed"} => Count(Rest) = Count(inbox)
         /\ \A q \in Posts(Rest, PruneTask) :
              /\ Queued(q) /\ Count(q) = Count(Rest)
              /\ \A m : Member(q, m) => Member(inbox, m) \/ m = PruneTask
  <1>1. Queued(inbox) BY Counted
  <1>2. PICK r : r = Rest OBVIOUS
  <1>3. Queued(r) BY <1>1, <1>2, TailParts DEF Rest
  <1>4. Member(inbox, Head(inbox)) /\ \A m : Member(r, m) => Member(inbox, m)
    BY <1>1, <1>2, TailMembers DEF Rest
  <1>5. ASSUME NEW q \in Posts(r, PruneTask)
        PROVE  /\ Queued(q) /\ Count(q) = Count(r)
               /\ \A m : Member(q, m) => Member(inbox, m) \/ m = PruneTask
    <2>1. PruneTask.type \notin {"spawned", "failed"} BY DEF PruneTask
    <2> QED BY <1>3, <1>4, <2>1, PostsParts, PostsCount
  <1>6. Worded(Head(inbox), Placed) BY <1>4 DEF Kept, Written
  <1>7. /\ Head(inbox).type \in {"spawned", "failed"} => Count(r) = Count(inbox) - 1
        /\ Head(inbox).type \notin {"spawned", "failed"} => Count(r) = Count(inbox)
    BY <1>1, <1>2, CountTail DEF Rest
  <1> QED BY <1>2, <1>3, <1>4, <1>5, <1>6, <1>7

\* A handler leaves a mux that has its shape, and counts as it should
LEMMA Handles ==
  ASSUME Kept, Acts \/ Works, UNCHANGED <<server, serving>>, crashed' = crashed,
         NEW l, NEW q, Becomes(l, q),
         Shaped(l), l.busy = Count(q) + Cardinality(serving), l.busy <= local.busy,
         Queued(q), \A m : Member(q, m) => Member(inbox, m) \/ m = PruneTask,
         closed' \subseteq Pane, domain' \in {"attaching", "attached", "detached"}
  PROVE  Written' /\ Tally'
  <1>1. PICK t : t = Removals(l.took) OBVIOUS
  <1>2. t.type = "remove" /\ t.posted = TRUE BY <1>1 DEF Removals
  <1>3. inbox' = q \/ inbox' \in Posts(q, t) BY <1>1 DEF Becomes, Post
  <1>4. PICK p : p = inbox' OBVIOUS
  <1>5. Count(p) = Count(q) /\ \A m : Member(p, m) => Member(q, m) \/ m = t
    BY <1>2, <1>3, <1>4, PostsParts, PostsCount
  <1>6. Settles BY StillSettled
  <1>7. Worded(t, Placed') /\ Worded(PruneTask, Placed') BY <1>2 DEF Worded, PruneTask
  <1>8. \A m : Member(inbox', m) => Worded(m, Placed')
    BY <1>4, <1>5, <1>6, <1>7, WordedStays
  <1>9. local' = [l EXCEPT !.took = {}, !.killed = {}] BY DEF Becomes
  <1>10. /\ Mirror(local')
         /\ local'.panes = l.panes /\ local'.dead = l.dead /\ local'.tabs = l.tabs
         /\ local'.windows = l.windows /\ local'.paneMap = l.paneMap
         /\ local'.tabMap = l.tabMap /\ local'.windowMap = l.windowMap /\ local'.busy = l.busy
    BY <1>9 DEF Shaped, Mirror, Fields
  <1>11. Shaped(local') BY <1>10 DEF Shaped
  <1>12. Written' BY <1>6, <1>8, <1>11 DEF Kept, Written, Settles
  <1>13. Count(q) \in Nat BY CountType
  <1>14. events' \in Nat /\ events' <= events BY Counted DEF Acts, Works
  <1>15. Tally' BY <1>4, <1>5, <1>10, <1>13, <1>14, Counted DEF Kept, Tally
  <1> QED BY <1>12, <1>15

\* A handler that answers nobody
LEMMA HandlesQuietly ==
  ASSUME Kept, Acts \/ Works, UNCHANGED <<server, serving>>, crashed' = crashed,
         NEW l, NEW q, Becomes(l, q), Reshaped(local, l),
         \/ q = inbox
         \/ /\ inbox # <<>> /\ Head(inbox).type \notin {"spawned", "failed"}
            /\ q = Rest \/ q \in Posts(Rest, PruneTask),
         closed' \subseteq Pane, domain' \in {"attaching", "attached", "detached"}
  PROVE  Written' /\ Tally'
  <1>1. Queued(q) /\ Count(q) = Count(inbox)
        /\ \A m : Member(q, m) => Member(inbox, m) \/ m = PruneTask
    BY Counted, RestParts
  <1>2. l.busy = Count(q) + Cardinality(serving) /\ l.busy <= local.busy
    BY <1>1, Counted DEF Kept, Tally, Reshaped
  <1> QED BY <1>1, <1>2, Handles DEF Reshaped

LEMMA KeptParts ==
  ASSUME Kept
  PROVE  /\ Shaped(local) /\ closed \subseteq Pane
         /\ domain \in {"attaching", "attached", "detached"}
  BY DEF Kept, Written

LEMMA ResyncKept ==
  ASSUME Kept, Works, inbox # <<>>, Head(inbox).type \notin {"spawned", "failed"},
         NEW why, Resync(why)
  PROVE  Written' /\ Tally'
  <1>1. inbox' = Rest BY DEF Resync
  <1>2. Settles BY StillSettled DEF Resync
  <1> QED BY <1>1, <1>2, RestParts, Passes DEF Resync

LEMMA HopKept ==
  ASSUME Kept, Hop
  PROVE  Written' /\ Tally'
  <1>1. PICK h, t : h = Head(inbox) /\ t = [h EXCEPT !.posted = TRUE] OBVIOUS
  <1>2. inbox # <<>> /\ h.type \in {"removed", "output"} /\ Works BY <1>1 DEF Hop, Next1
  <1>3. Heard(h, local, Made, told, closed) BY <1>1, <1>2, HeadHeard DEF Kept
  <1>4. t.type = h.type /\ t.posted = TRUE BY <1>1, <1>2, <1>3 DEF Heard
  <1>5. PICK r, p : r = Rest /\ p = inbox' OBVIOUS
  <1>6. /\ Queued(r) /\ (\A m : Member(r, m) => Member(inbox, m))
        /\ Count(r) = Count(inbox)
    BY <1>1, <1>2, <1>5, RestParts
  <1>7. p \in Posts(r, t) BY <1>1, <1>5 DEF Hop
  <1>8. Count(p) = Count(r) /\ \A m : Member(p, m) => Member(r, m) \/ m = t
    BY <1>2, <1>4, <1>6, <1>7, PostsParts, PostsCount
  <1>9. Worded(t, Placed') BY <1>2, <1>4 DEF Worded
  <1>10. \A m : Member(inbox', m) => Member(inbox, m) \/ Worded(m, Placed')
    BY <1>5, <1>6, <1>8, <1>9
  <1>11. Settles BY StillSettled DEF Hop
  <1> QED BY <1>2, <1>5, <1>6, <1>8, <1>10, <1>11, Passes DEF Hop

LEMMA OutputKept ==
  ASSUME Kept, RunOutput
  PROVE  Written' /\ Tally'
  <1>1. PICK r : r = Head(inbox).pane OBVIOUS
  <1>2. inbox # <<>> /\ Head(inbox).type = "output" /\ Works BY DEF RunOutput, Next1
  <1>3. CASE Has(r)
    <2>1. PICK l, q : l = Found(local, r) /\ q = Rest OBVIOUS
    <2>2. Becomes(l, q) /\ UNCHANGED <<server, serving, domain, closed, crashed>>
      BY <1>1, <1>3, <2>1 DEF RunOutput
    <2>3. Reshaped(local, l) BY <2>1, KeptParts, FoundShape
    <2> QED BY <1>2, <2>1, <2>2, <2>3, KeptParts, HandlesQuietly
  <1>4. CASE ~Has(r) BY <1>1, <1>2, <1>4, ResyncKept DEF RunOutput
  <1> QED BY <1>3, <1>4

LEMMA RemovedKept ==
  ASSUME Kept, RunRemoved
  PROVE  Written' /\ Tally'
  <1>1. PICK r : r = Head(inbox).pane OBVIOUS
  <1>2. inbox # <<>> /\ Head(inbox).type = "removed" /\ Works BY DEF RunRemoved, Next1
  <1>3. CASE Has(r)
    <2>1. PICK l, q : l = PaneGone(local, r) /\ q = Rest OBVIOUS
    <2>2. Becomes(l, q) /\ UNCHANGED <<server, serving, domain, closed, crashed>>
      BY <1>1, <1>3, <2>1 DEF RunRemoved
    <2>3. Reshaped(local, l) BY <2>1, KeptParts, PaneGoneShape
    <2> QED BY <1>2, <2>1, <2>2, <2>3, KeptParts, HandlesQuietly
  <1>4. CASE ~Has(r) BY <1>1, <1>2, <1>4, ResyncKept DEF RunRemoved
  <1> QED BY <1>3, <1>4

LEMMA SyncKept ==
  ASSUME Kept, NamesLeft, Works, inbox # <<>>, Head(inbox).type = "list",
         NEW state \in {"attaching", "attached", "detached"}, NEW adopt, NEW why,
         Sync(state, adopt, why)
  PROVE  Written' /\ Tally'
  <1>1. PICK list, m : list = Head(inbox).panes /\ m = Synced(local, list, adopt) OBVIOUS
  <1>2. PICK q \in IF NewWindows(local, list, adopt) = {} THEN {Rest} ELSE Posts(Rest, PruneTask) :
          Becomes(IF why # None /\ state = "attached" THEN PaneGone(m, why) ELSE m, q)
    BY <1>1 DEF Sync
  <1>3. PICK l : l = IF why # None /\ state = "attached" THEN PaneGone(m, why) ELSE m OBVIOUS
  <1>4. Heard(Head(inbox), local, Made, told, closed) BY HeadHeard DEF Kept
  <1>5. Worded(Head(inbox), Placed) BY RestParts
  <1>6. Listing(list) BY <1>1, <1>4, <1>5 DEF Listing, Heard, Worded, Made
  <1>7. Reshaped(local, m) BY <1>1, <1>6, KeptParts, SyncedShape
  <1>8. Reshaped(m, PaneGone(m, why)) BY <1>7, PaneGoneShape DEF Reshaped
  <1>9. Reshaped(local, l) BY <1>3, <1>7, <1>8 DEF Reshaped
  <1>10. q = Rest \/ q \in Posts(Rest, PruneTask) BY <1>2
  <1>11. /\ Becomes(l, q) /\ UNCHANGED <<server, serving>>
         /\ crashed' = crashed /\ closed' = closed /\ domain' = state
    BY <1>2, <1>3 DEF Sync
  <1> QED BY <1>9, <1>10, <1>11, KeptParts, HandlesQuietly

LEMMA CrashKept ==
  ASSUME Kept, Works, NEW expect \in {"window", "primary"}, Crash(expect)
  PROVE  Written' /\ Tally'
  <1>1. Settles BY Untouched DEF Crash
  <1>2. Mirror(Idle) BY DEF Mirror, Fields, Idle
  <1>3. /\ Idle.panes = {} /\ Idle.dead = {} /\ DOMAIN Idle.tabs = {}
        /\ Idle.windows = [w \in {Home} |-> {}]
        /\ DOMAIN Idle.paneMap = {} /\ DOMAIN Idle.tabMap = {} /\ DOMAIN Idle.windowMap = {}
        /\ Idle.busy = 0
    BY DEF Idle, Unmapped
  <1>4. Home \in LocalWindow BY DEF LocalWindow
  <1>5. Shaped(Idle) BY <1>2, <1>3, <1>4 DEF Shaped
  <1>6. /\ inbox' = <<>> /\ serving' = {} /\ closed' = {} /\ domain' = "detached"
        /\ crashed' = expect /\ local' = Idle
    BY DEF Crash
  <1>7. \A m : ~Member(inbox', m) BY <1>6, EmptyMembers
  <1>8. Written' BY <1>1, <1>5, <1>6, <1>7 DEF Written, Settles
  <1>9. Count(inbox') = 0 BY <1>6, CountEmpty
  <1>10. IsFiniteSet(serving') /\ Cardinality(serving') = 0 BY <1>6, FS_EmptySet
  <1>11. events' = events /\ events \in Nat /\ MaxEvents \in Nat /\ events <= MaxEvents
    BY Counted DEF Works, Kept, Tally
  <1>12. Tally' BY <1>3, <1>6, <1>9, <1>10, <1>11 DEF Tally
  <1> QED BY <1>8, <1>12

LEMMA ListKept ==
  ASSUME Kept, RunList
  PROVE  Written' /\ Tally'
  <1>1. inbox # <<>> /\ Head(inbox).type = "list" /\ NamesLeft /\ Works BY DEF RunList, Next1
  <1>2. CASE Crash("window") BY <1>1, <1>2, CrashKept
  <1>3. CASE Sync(domain, None, Head(inbox).why)
    <2>1. PICK state, why : state = domain /\ why = Head(inbox).why OBVIOUS
    <2> QED BY <1>1, <1>3, <2>1, KeptParts, SyncKept
  <1> QED BY <1>2, <1>3 DEF RunList

LEMMA AttachKept ==
  ASSUME Kept, NEW primary, NEW adopt, FinishAttach(primary, adopt)
  PROVE  Written' /\ Tally'
  <1>1. inbox # <<>> /\ Head(inbox).type = "list" /\ NamesLeft /\ Works
    BY DEF FinishAttach, Next1
  <1>2. CASE Crash("primary") BY <1>1, <1>2, CrashKept
  <1>3. CASE Sync("attached", adopt, None) BY <1>1, <1>3, SyncKept
  <1> QED BY <1>2, <1>3 DEF FinishAttach

\* One request waits less
LEMMA ReleasedParts ==
  ASSUME Kept
  PROVE  /\ Shaped(Released)
         /\ Released.busy = local.busy - 1
         /\ UsedPanes(Released) = UsedPanes(local)
         /\ UsedTabs(Released) = UsedTabs(local)
  <1>1. PICK l : l = Released OBVIOUS
  <1>2. /\ Mirror(l)
        /\ l.panes = local.panes /\ l.dead = local.dead /\ l.tabs = local.tabs
        /\ l.windows = local.windows /\ l.paneMap = local.paneMap
        /\ l.tabMap = local.tabMap /\ l.windowMap = local.windowMap
        /\ l.busy = local.busy - 1
    BY <1>1, KeptParts DEF Released, Shaped, Mirror, Fields
  <1>3. Shaped(l) BY <1>2, KeptParts DEF Shaped
  <1>4. UsedPanes(l) = UsedPanes(local) /\ UsedTabs(l) = UsedTabs(local)
    BY <1>2 DEF UsedPanes, UsedTabs, PanesOf, TabsOf
  <1> QED BY <1>1, <1>2, <1>3, <1>4

LEMMA AnswerKept ==
  ASSUME Kept, Works, UNCHANGED <<server, serving, domain, closed, crashed>>,
         inbox # <<>>, Head(inbox).type \in {"spawned", "failed"},
         NEW l, Reshaped(Released, l), NEW q \in Posts(Rest, PruneTask), Becomes(l, q)
  PROVE  Written' /\ Tally'
  <1>1. Queued(q) /\ Count(q) = Count(inbox) - 1
        /\ \A m : Member(q, m) => Member(inbox, m) \/ m = PruneTask
    BY RestParts
  <1>2. l.busy = local.busy - 1 BY ReleasedParts DEF Reshaped
  <1>3. local.busy = Count(inbox) + Cardinality(serving) BY DEF Kept, Tally
  <1>4. l.busy = Count(q) + Cardinality(serving) /\ l.busy <= local.busy
    BY <1>1, <1>2, <1>3, Counted
  <1> QED BY <1>1, <1>4, KeptParts, Handles DEF Reshaped

LEMMA SpawnedKept ==
  ASSUME Kept, RunSpawned
  PROVE  Written' /\ Tally'
  <1>1. PICK h, l, request : h = Head(inbox) /\ l = Released /\ request = h.request OBVIOUS
  <1>2. inbox # <<>> /\ h.type = "spawned" /\ NamesLeft /\ Works BY <1>1 DEF RunSpawned, Next1
  <1>3. PICK r, t : r = h.pane /\ t = h.tab OBVIOUS
  <1>4. PICK m, q :
          /\ q \in Posts(Rest, PruneTask)
          /\ Becomes(m, q)
          /\ request.type = "spawn" => m = SpawnDone(l, r, t, request)
          /\ request.type # "spawn" => m \in SplitDone(l, r, request)
    BY <1>1, <1>3 DEF RunSpawned
  <1>5. Heard(h, local, Made, told, closed) BY <1>1, <1>2, HeadHeard DEF Kept
  <1>6. Worded(h, Placed) BY <1>1, <1>2, RestParts
  <1>7. r \in Pane /\ t \in Placed /\ Request(request)
    BY <1>1, <1>2, <1>3, <1>5, <1>6 DEF Heard, Worded, Made
  <1>8. Shaped(l) /\ UsedPanes(l) = UsedPanes(local) /\ UsedTabs(l) = UsedTabs(local)
    BY <1>1, ReleasedParts
  <1>9. Shaped(local) BY KeptParts
  <1>10. Reshaped(l, m)
    <2>1. CASE request.type = "spawn"
      <3>1. request.into \in LocalWindow BY <1>7, <2>1 DEF Request
      <3>2. Reshaped(l, SpawnDone(l, r, t, request))
        BY <1>2, <1>7, <1>8, <1>9, <3>1, SpawnDoneShape
      <3> QED BY <1>4, <2>1, <3>2
    <2>2. CASE request.type # "spawn"
      BY <1>2, <1>4, <1>7, <1>8, <1>9, <2>2, SplitDoneShape
    <2> QED BY <2>1, <2>2
  <1>11. UNCHANGED <<server, serving, domain, closed, crashed>> BY DEF RunSpawned
  <1> QED BY <1>1, <1>2, <1>4, <1>10, <1>11, AnswerKept

LEMMA FailedKept ==
  ASSUME Kept, RunFailed
  PROVE  Written' /\ Tally'
  <1>1. PICK l : l = Released OBVIOUS
  <1>2. Reshaped(Released, l) BY <1>1, ReleasedParts DEF Reshaped
  <1>3. inbox # <<>> /\ Head(inbox).type = "failed" /\ Works BY DEF RunFailed, Next1
  <1>4. PICK q \in Posts(Rest, PruneTask) : Becomes(l, q) BY <1>1 DEF RunFailed
  <1> QED BY <1>2, <1>3, <1>4, AnswerKept DEF RunFailed

LEMMA TasksKept ==
  ASSUME Kept, RunPrune \/ RunRemove
  PROVE  Written' /\ Tally'
  <1>1. PICK q : q = Rest OBVIOUS
  <1>2. CASE RunPrune
    <2>1. PICK l : l = Pruned(local) OBVIOUS
    <2>2. Reshaped(local, l) BY <2>1, KeptParts, PrunedShape
    <2> QED BY <1>1, <1>2, <2>1, <2>2, KeptParts, HandlesQuietly DEF RunPrune, Next1
  <1>3. CASE RunRemove
    <2>1. PICK panes, state : panes = Head(inbox).panes /\ state = domain OBVIOUS
    <2>2. PICK m : m = RemovePanes(local, panes, state) OBVIOUS
    <2>3. PICK l : l = Pruned(m) OBVIOUS
    <2>4. Reshaped(local, m) BY <2>2, KeptParts, RemovePanesShape
    <2>5. Reshaped(local, l) BY <2>3, <2>4, PrunedShape DEF Reshaped
    <2>6. Becomes(l, q) BY <1>1, <1>3, <2>1, <2>2, <2>3 DEF RunRemove
    <2> QED BY <1>1, <1>3, <2>5, <2>6, KeptParts, HandlesQuietly DEF RunRemove, Next1
  <1> QED BY <1>2, <1>3

LEMMA RunHeadKept ==
  ASSUME Kept, RunHead
  PROVE  Written' /\ Tally'
  <1>1. CASE RunChange BY <1>1, ResyncKept DEF RunChange, Next1
  <1> QED BY <1>1, HopKept, OutputKept, RemovedKept, ListKept, AttachKept, SpawnedKept,
             FailedKept, TasksKept DEF RunHead

-----------------------------------------------------------------------------
(* The user's steps.                                                       *)

LEMMA ClosePaneKept ==
  ASSUME Kept, NEW t, NEW p, ClosePane(t, p)
  PROVE  Written' /\ Tally'
  <1>1. PICK l, q : l = [local EXCEPT !.tabs[t] = @ \ {p}, !.took = {p}] /\ q = inbox OBVIOUS
  <1>2. Becomes(l, q) BY <1>1 DEF ClosePane
  <1>3. p \in local.tabs[t] /\ t \in TabsOf(local, DOMAIN local.windows) BY DEF ClosePane
  <1>4. t \in DOMAIN local.tabs BY <1>3, KeptParts DEF TabsOf, Shaped
  <1>5. p \in LocalPane BY <1>3, <1>4, KeptParts DEF Shaped
  <1>6. /\ Mirror(l)
        /\ l.panes = local.panes /\ l.dead = local.dead
        /\ l.windows = local.windows /\ l.paneMap = local.paneMap
        /\ l.tabMap = local.tabMap /\ l.windowMap = local.windowMap /\ l.busy = local.busy
    BY <1>1, KeptParts DEF Shaped, Mirror, Fields
  <1>7. l.tabs = [local.tabs EXCEPT ![t] = @ \ {p}]
    BY <1>1, KeptParts DEF Shaped, Mirror, Fields
  <1>8. DOMAIN l.tabs = DOMAIN local.tabs BY <1>7
  <1>9. \A x \in DOMAIN l.tabs : l.tabs[x] \subseteq LocalPane BY <1>7, KeptParts DEF Shaped
  <1>10. Reshaped(local, l) BY <1>6, <1>8, <1>9, KeptParts DEF Reshaped, Shaped
  <1>11. closed' \subseteq Pane BY <1>5, KeptParts DEF ClosePane, LocalPane
  <1> QED BY <1>1, <1>2, <1>10, <1>11, KeptParts, HandlesQuietly DEF ClosePane

LEMMA CloseTabKept ==
  ASSUME Kept, NEW t, CloseTab(t)
  PROVE  Written' /\ Tally'
  <1>1. PICK q, state : q = inbox /\ state = domain OBVIOUS
  <1>2. PICK m : m = RemoveTabs(local, {t}, state) OBVIOUS
  <1>3. PICK l : l = Pruned(m) OBVIOUS
  <1>4. Becomes(l, q) BY <1>1, <1>2, <1>3 DEF CloseTab
  <1>5. Reshaped(local, m) BY <1>2, KeptParts, RemoveTabsShape
  <1>6. Reshaped(local, l) BY <1>3, <1>5, PrunedShape DEF Reshaped
  <1>7. t \in DOMAIN local.tabs BY KeptParts DEF CloseTab, TabsOf, Shaped
  <1>8. \A p \in local.tabs[t] : p[1] \in Pane BY <1>7, KeptParts DEF Shaped, LocalPane
  <1>9. closed' \subseteq Pane BY <1>8, KeptParts DEF CloseTab
  <1> QED BY <1>1, <1>4, <1>6, <1>9, KeptParts, HandlesQuietly DEF CloseTab

LEMMA CloseWindowKept ==
  ASSUME Kept, NEW w, CloseWindow(w)
  PROVE  Written' /\ Tally'
  <1>1. PICK ts, q, state : ts = local.windows[w] /\ q = inbox /\ state = domain OBVIOUS
  <1>2. PICK k : k = [local EXCEPT !.windows = Restrict(@, DOMAIN @ \ {w})] OBVIOUS
  <1>3. Reshaped(local, k)
    <2>1. /\ Mirror(k)
          /\ k.panes = local.panes /\ k.dead = local.dead /\ k.tabs = local.tabs
          /\ k.paneMap = local.paneMap /\ k.tabMap = local.tabMap
          /\ k.windowMap = local.windowMap /\ k.busy = local.busy
          /\ k.windows = [v \in DOMAIN local.windows \ {w} |-> local.windows[v]]
      BY <1>2, KeptParts DEF Shaped, Mirror, Fields, Restrict
    <2>2. \A v \in DOMAIN k.windows : v \in DOMAIN local.windows /\ k.windows[v] = local.windows[v]
      BY <2>1
    <2> QED BY <2>1, <2>2, KeptParts DEF Shaped, Reshaped
  <1>4. CASE PanesOf(local, ts) = {}
    <2>1. PICK m : m = RemoveTabs(k, ts, state) OBVIOUS
    <2>2. PICK l : l = Pruned(m) OBVIOUS
    <2>3. Becomes(l, q) /\ domain' = domain BY <1>1, <1>2, <1>4, <2>1, <2>2 DEF CloseWindow
    <2>4. Reshaped(k, m) BY <1>3, <2>1, RemoveTabsShape DEF Reshaped
    <2>5. Reshaped(local, l) BY <1>3, <2>2, <2>4, PrunedShape DEF Reshaped
    <2> QED BY <1>1, <2>3, <2>5, KeptParts, HandlesQuietly DEF CloseWindow
  <1>5. CASE PanesOf(local, ts) # {}
    <2>1. PICK d : d = Detached(k) OBVIOUS
    <2>2. PICK m : m = RemoveTabs(d, ts, "detached") OBVIOUS
    <2>3. PICK l : l = Pruned(m) OBVIOUS
    <2>4. Becomes(l, q) /\ domain' = "detached"
      BY <1>1, <1>2, <1>5, <2>1, <2>2, <2>3 DEF CloseWindow
    <2>5. Reshaped(k, d) BY <1>3, <2>1, DetachedShape DEF Reshaped
    <2>6. Reshaped(d, m) BY <2>2, <2>5, RemoveTabsShape DEF Reshaped
    <2>7. Reshaped(local, l) BY <1>3, <2>3, <2>5, <2>6, PrunedShape DEF Reshaped
    <2> QED BY <1>1, <2>4, <2>7, KeptParts, HandlesQuietly DEF CloseWindow
  <1> QED BY <1>4, <1>5

LEMMA DetachKept ==
  ASSUME Kept, Detach
  PROVE  Written' /\ Tally'
  <1>1. PICK l, q : l = Detached(local) /\ q = inbox OBVIOUS
  <1>2. Becomes(l, q) BY <1>1 DEF Detach
  <1>3. Reshaped(local, l) BY <1>1, KeptParts, DetachedShape
  <1> QED BY <1>1, <1>2, <1>3, KeptParts, HandlesQuietly DEF Detach

\* One more request waits, and one act less is left
LEMMA AskKept ==
  ASSUME Kept, NEW request, Request(request), Ask(request)
  PROVE  Written' /\ Tally'
  <1>1. PICK l : l = [local EXCEPT !.busy = @ + 1] OBVIOUS
  <1>2. /\ Mirror(l)
        /\ l.panes = local.panes /\ l.dead = local.dead /\ l.tabs = local.tabs
        /\ l.windows = local.windows /\ l.paneMap = local.paneMap
        /\ l.tabMap = local.tabMap /\ l.windowMap = local.windowMap
        /\ l.busy = local.busy + 1
    BY <1>1, KeptParts DEF Shaped, Mirror, Fields
  <1>3. Shaped(l) BY <1>2, KeptParts DEF Shaped
  <1>4. local' = l BY <1>1 DEF Ask
  <1>5. IsFiniteSet(serving') /\ Cardinality(serving') = Cardinality(serving) + 1
    BY FS_AddElement DEF Ask, Kept, Tally
  <1>6. Settles BY StillSettled DEF Ask
  <1>7. \A m : Member(inbox', m) => Worded(m, Placed') BY <1>6, WordedStays DEF Ask
  <1>8. \A x \in serving' : Request(x) BY DEF Ask, Kept, Written
  <1>9. Written' BY <1>3, <1>4, <1>6, <1>7, <1>8 DEF Ask, Acts, Kept, Written, Settles
  <1>10. events' = events - 1 /\ events > 0 /\ inbox' = inbox BY DEF Ask, Acts
  <1>11. Tally' BY <1>2, <1>4, <1>5, <1>10, Counted DEF Kept, Tally
  <1> QED BY <1>9, <1>11

LEMMA UserKept ==
  ASSUME Kept, User
  PROVE  Written' /\ Tally'
  <1>1. ASSUME NEW w \in LocalWindow, AskSpawn(w) PROVE Written' /\ Tally'
    <2>1. PICK v : Ask([type |-> "spawn", window |-> v, into |-> w]) BY <1>1 DEF AskSpawn
    <2>2. PICK request : request = [type |-> "spawn", window |-> v, into |-> w] OBVIOUS
    <2>3. Request(request) BY <2>2 DEF Request
    <2> QED BY <2>1, <2>2, <2>3, AskKept
  <1>2. ASSUME NEW t, NEW p, AskSplit(t, p) PROVE Written' /\ Tally'
    <2>1. PICK request : request = [type |-> "split", tab |-> t, beside |-> p] OBVIOUS
    <2>2. Request(request) BY <2>1 DEF Request
    <2> QED BY <1>2, <2>1, <2>2, AskKept DEF AskSplit
  <1>3. DOMAIN local.windows \subseteq LocalWindow BY KeptParts DEF Shaped
  <1> QED BY <1>1, <1>2, <1>3, ClosePaneKept, CloseTabKept, CloseWindowKept, DetachKept DEF User

LEMMA PollsKept ==
  ASSUME Kept, Polls
  PROVE  Written' /\ Tally'
  <1>1. PICK p \in local.panes : Polled(p) BY DEF Polls
  <1>2. PICK l : l = [local EXCEPT !.dead = @ \cup {p}] OBVIOUS
  <1>3. /\ Mirror(l)
        /\ l.panes = local.panes /\ l.dead = local.dead \cup {p} /\ l.tabs = local.tabs
        /\ l.windows = local.windows /\ l.paneMap = local.paneMap
        /\ l.tabMap = local.tabMap /\ l.windowMap = local.windowMap
        /\ l.busy = local.busy
    BY <1>2, KeptParts DEF Shaped, Mirror, Fields
  <1>4. Shaped(l) BY <1>1, <1>3, KeptParts DEF Shaped
  <1>5. local' = l BY <1>1, <1>2 DEF Polled
  <1>6. /\ UNCHANGED <<server, serving, inbox, domain, closed, crashed>>
        /\ events' = events - 1 /\ events > 0
    BY <1>1 DEF Polled, Acts
  <1>7. Settles BY <1>6, StillSettled
  <1>8. \A m : Member(inbox', m) => Worded(m, Placed') BY <1>6, <1>7, WordedStays
  <1>9. Written' BY <1>4, <1>5, <1>6, <1>7, <1>8 DEF Kept, Written, Settles
  <1>10. Tally' BY <1>3, <1>5, <1>6, Counted DEF Kept, Tally
  <1> QED BY <1>9, <1>10

-----------------------------------------------------------------------------
LEMMA InitKept ==
  ASSUME Init
  PROVE  Kept
  <1>1. Justified BY InitJustified
  <1>2. Mirror(Idle) BY DEF Mirror, Fields, Idle
  <1>3. /\ Idle.panes = {} /\ Idle.dead = {} /\ DOMAIN Idle.tabs = {}
        /\ Idle.windows = [w \in {Home} |-> {}]
        /\ DOMAIN Idle.paneMap = {} /\ DOMAIN Idle.tabMap = {} /\ DOMAIN Idle.windowMap = {}
        /\ Idle.busy = 0
    BY DEF Idle, Unmapped
  <1>4. Home \in LocalWindow BY DEF LocalWindow
  <1>5. Shaped(local) BY <1>2, <1>3, <1>4 DEF Shaped, Init
  <1>6. /\ FirstTab \in Tab /\ FirstWindow \in Window /\ None \notin Tab BY NamesAssumption
  <1>7. window \in [Tab -> Window \cup {None}] BY <1>6 DEF Init
  <1>8. \A r \in OnServer : at[r] \in Placed
    <2> SUFFICES ASSUME NEW r \in OnServer PROVE at[r] \in Placed OBVIOUS
    <2>1. r \in Pane /\ at[r] \in Tab BY DEF OnServer
    <2>2. at[r] = FirstTab BY <1>6, <2>1 DEF Init
    <2> QED BY <1>6, <2>2 DEF Placed, Init
  <1>9. \A m : ~Member(inbox, m) BY EmptyMembers DEF Init
  <1>10. Written BY <1>5, <1>7, <1>8, <1>9 DEF Written, Init
  <1>11. Count(inbox) = 0 BY CountEmpty DEF Init
  <1>12. IsFiniteSet(serving) /\ Cardinality(serving) = 0 BY FS_EmptySet DEF Init
  <1>13. Tally BY <1>3, <1>11, <1>12, BoundsAssumption DEF Tally, Init
  <1> QED BY <1>1, <1>10, <1>13 DEF Kept

\* The shape of the client's mux, the words of the messages and the count of the
\* requests hold along with Justified.
THEOREM AlwaysKept == Spec => []Kept
  <1>1. Init => Kept BY InitKept
  <1>2. Kept /\ Justified' /\ [Next]_vars => Kept'
    <2> SUFFICES ASSUME Kept, Justified', [Next]_vars PROVE Kept' OBVIOUS
    <2>1. Written' /\ Tally'
      <3>1. CASE UNCHANGED vars
        <4>1. Written'
          <5>1. UNCHANGED <<at, window, serving, inbox, domain, local, closed, crashed>>
            BY <3>1 DEF vars
          <5> QED BY <5>1 DEF Kept, Written, OnServer, Placed
        <4>2. Tally' BY <3>1 DEF vars, Kept, Tally
        <4> QED BY <4>1, <4>2
      <3> QED BY <3>1, OthersKept, ServerKept, RunHeadKept, PollsKept, UserKept DEF Next
    <2> QED BY <2>1 DEF Kept
  <1> QED BY <1>1, <1>2, AlwaysJustified, PTL DEF Spec

-----------------------------------------------------------------------------
(* What the server's mux has removed, and the windows being opened.        *)

Registered ==
  /\ told \subseteq Pane /\ revived \subseteq told
  /\ opening \subseteq serving \cup {None}

\* Of these, a step may leave all as they are but for more requests
LEMMA StaysRegistered ==
  ASSUME Registered, UNCHANGED <<told, revived, opening>>, serving \subseteq serving'
  PROVE  Registered'
  BY DEF Registered

LEMMA RemovalRegistered ==
  ASSUME Registered, NEW r \in Pane, NEW messages, MuxRemoves(r, messages),
         UNCHANGED <<serving, revived>>
  PROVE  Registered'
  BY DEF Registered, MuxRemoves

LEMMA OthersRegistered ==
  ASSUME Registered, Others
  PROVE  Registered'
  <1>1. ASSUME NEW r \in Pane, PaneEnds(r) PROVE Registered'
    BY <1>1, RemovalRegistered DEF PaneEnds
  <1>2. ASSUME NEW r \in Pane, OtherSplits(r) \/ PaneExits(r) PROVE Registered'
    BY <1>2, StaysRegistered DEF OtherSplits, PaneExits
  <1>3. ASSUME NEW w \in Window, OtherSpawns(w) PROVE Registered'
    BY <1>3, StaysRegistered DEF OtherSpawns
  <1>4. ASSUME NEW w \in Window, OtherOpened(w) PROVE Registered'
    BY <1>4 DEF OtherOpened, Registered
  <1>5. ASSUME NEW w \in Window, NEW r \in Pane, OtherMoves(r, w) PROVE Registered'
    BY <1>5, StaysRegistered DEF OtherMoves
  <1>6. CASE OtherOpens BY <1>6 DEF OtherOpens, Registered
  <1>7. CASE TabResized BY <1>7, StaysRegistered DEF TabResized, server
  <1> QED BY <1>1, <1>2, <1>3, <1>4, <1>5, <1>6, <1>7 DEF Others

LEMMA ServerRegistered ==
  ASSUME Justified, Registered, ServerWorks
  PROVE  Registered'
  <1>1. CASE ServeList BY <1>1 DEF ServeList, server, Registered
  <1>2. CASE ServeKill
    <2>1. PICK r : r = Head(toServer).pane OBVIOUS
    <2>2. Asked(Head(toServer), told, closed)
      BY <1>2, TailMembers DEF ServeKill, Justified, Just
    <2>3. r \in Pane BY <1>2, <2>1, <2>2 DEF ServeKill, Asked
    <2>4. CASE r \in told
      BY <1>2, <2>1, <2>4, StaysRegistered DEF ServeKill, server
    <2>5. CASE r \notin told
      <3>1. \E messages : MuxRemoves(r, messages) BY <1>2, <2>1, <2>5 DEF ServeKill
      <3> QED BY <1>2, <2>3, <3>1, RemovalRegistered DEF ServeKill
    <2> QED BY <2>4, <2>5
  <1>3. CASE ServePrune BY <1>3, StaysRegistered DEF ServePrune
  <1>4. CASE OtherGivesUp BY <1>4 DEF OtherGivesUp, Registered
  <1>5. ASSUME NEW r \in Pane, RemovePane(r) PROVE Registered'
    BY <1>5, RemovalRegistered DEF RemovePane
  <1>6. ASSUME NEW r \in Pane, PaneWrites(r) PROVE Registered'
    BY <1>6, StaysRegistered DEF PaneWrites, server
  <1>7. ASSUME NEW request \in serving, StartsWindow(request) PROVE Registered'
    BY <1>7 DEF StartsWindow, Registered
  <1>8. ASSUME NEW request, NEW answers, Answers(request, answers) PROVE Registered'
    BY <1>8 DEF Answers, Registered
  <1>9. ASSUME NEW request \in serving,
               ServeSpawn(request) \/ ServeSplit(request) \/ ServeFails(request)
        PROVE  Registered'
    BY <1>8, <1>9 DEF ServeSpawn, ServeSplit, ServeFails
  <1> QED BY <1>1, <1>2, <1>3, <1>4, <1>5, <1>6, <1>7, <1>9 DEF ServerWorks

LEMMA CrashRegistered ==
  ASSUME Registered, NEW expect, Crash(expect)
  PROVE  Registered'
  BY DEF Crash, Registered

LEMMA RunHeadRegistered ==
  ASSUME Registered, RunHead
  PROVE  Registered'
  <1>1. ASSUME NEW why, Resync(why) PROVE Registered'
    BY <1>1, StaysRegistered DEF Resync, server
  <1>2. ASSUME NEW state, NEW adopt, NEW why, Sync(state, adopt, why) PROVE Registered'
    BY <1>2, StaysRegistered DEF Sync, server
  <1>3. CASE RunChange BY <1>1, <1>3 DEF RunChange
  <1>4. CASE RunOutput BY <1>1, <1>4, StaysRegistered DEF RunOutput, server
  <1>5. CASE RunRemoved BY <1>1, <1>5, StaysRegistered DEF RunRemoved, server
  <1>6. CASE RunList BY <1>2, <1>6, CrashRegistered DEF RunList
  <1>7. ASSUME NEW primary, NEW adopt, FinishAttach(primary, adopt) PROVE Registered'
    BY <1>2, <1>7, CrashRegistered DEF FinishAttach
  <1>8. CASE Hop BY <1>8, StaysRegistered DEF Hop, server
  <1>9. CASE RunSpawned \/ RunFailed \/ RunPrune \/ RunRemove
    BY <1>9, StaysRegistered DEF RunSpawned, RunFailed, RunPrune, RunRemove, server
  <1> QED BY <1>3, <1>4, <1>5, <1>6, <1>7, <1>8, <1>9 DEF RunHead

LEMMA UserRegistered ==
  ASSUME Registered, User \/ Polls
  PROVE  Registered'
  <1>1. ASSUME NEW request, Ask(request) PROVE Registered'
    BY <1>1, StaysRegistered DEF Ask, server
  <1>2. ASSUME NEW t, NEW p, ClosePane(t, p) \/ AskSplit(t, p) PROVE Registered'
    BY <1>1, <1>2, StaysRegistered DEF ClosePane, AskSplit, server
  <1>3. ASSUME NEW t, CloseTab(t) PROVE Registered'
    BY <1>3, StaysRegistered DEF CloseTab, server
  <1>4. ASSUME NEW w, CloseWindow(w) \/ AskSpawn(w) PROVE Registered'
    BY <1>1, <1>4, StaysRegistered DEF CloseWindow, AskSpawn, server
  <1>5. CASE Detach BY <1>5, StaysRegistered DEF Detach, server
  <1>6. CASE Polls BY <1>6, StaysRegistered DEF Polls, Polled, server
  <1> QED BY <1>2, <1>3, <1>4, <1>5, <1>6 DEF User

LEMMA AlwaysRegistered == Spec => []Registered
  <1>1. Init => Registered BY DEF Init, Registered
  <1>2. Justified /\ Registered /\ [Next]_vars => Registered'
    <2> SUFFICES ASSUME Justified, Registered, [Next]_vars PROVE Registered' OBVIOUS
    <2>1. CASE UNCHANGED vars BY <2>1 DEF vars, Registered
    <2> QED BY <2>1, OthersRegistered, ServerRegistered, RunHeadRegistered, UserRegistered DEF Next
  <1> QED BY <1>1, <1>2, AlwaysJustified, PTL DEF Spec

-----------------------------------------------------------------------------
\* Maps lead from what the server names to what the client names, trees hold the
\* client's panes and windows its tabs, and no more requests are counted than were
\* made, for any number of panes, tabs, windows, requests and messages.
THEOREM MirrorTyped == Spec => []TypeOK
  <1>1. Kept /\ Registered => TypeOK
    <2> SUFFICES ASSUME Kept, Registered PROVE TypeOK OBVIOUS
    <2>1. Justified /\ Written /\ Tally BY DEF Kept
    <2>2. at \in [Pane -> Tab \cup {None, Gone}] /\ local.took = {} /\ local.killed = {}
      BY <2>1 DEF Justified
    <2>3. \A i \in DOMAIN toServer : toServer[i].type \in {"list", "kill"}
      BY <2>1 DEF Justified, Just, Asked, Member
    <2>4. \A i \in DOMAIN inbox : inbox[i].posted \in BOOLEAN
      BY <2>1 DEF Written, Worded, Member
    <2>5. Shaped(local) BY KeptParts
    <2>6. local.busy \in 0..MaxEvents BY <2>1, Counted DEF Tally
    <2>7. /\ DOMAIN local.paneMap \subseteq Pane /\ Range(local.paneMap) \subseteq LocalPane
          /\ DOMAIN local.tabMap \subseteq Tab /\ Range(local.tabMap) \subseteq LocalTab
          /\ DOMAIN local.windowMap \subseteq Window /\ Range(local.windowMap) \subseteq LocalWindow
      BY <2>5 DEF Shaped, Range
    <2> QED BY <2>1, <2>2, <2>3, <2>4, <2>5, <2>6, <2>7
            DEF TypeOK, Written, Tally, Shaped, Registered
  <1> QED BY <1>1, AlwaysKept, AlwaysRegistered, PTL
=============================================================================
