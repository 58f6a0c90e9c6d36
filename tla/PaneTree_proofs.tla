--------------------------- MODULE PaneTree_proofs ---------------------------
(***************************************************************************)
(* Proofs about PaneTree: type correctness, the proper tree, the zoomed    *)
(* pane listed, no pane forgotten, the focus kept when one pane closes,    *)
(* and where a split puts its pane, for any number of panes.               *)
(*                                                                         *)
(* The invariant is in layers, each inductive over those before it:        *)
(*                                                                         *)
(*   Typed       TypeOK, what has been spawned, and the shape of the tree. *)
(*               That the spans are Nested is in no property and carries   *)
(*               the rest: it is why a leaf has a node right above it, a   *)
(*               leaf at one end of it, and why every other node keeps two *)
(*               children when that one goes.                              *)
(*   Standing    no pane is at two leaves, the zoomed pane is at one, and  *)
(*               the pane that moves is at none once it was taken out.     *)
(*   Remembered  a removal is coming for each pane that is gone, in the    *)
(*               tree or on its way back into it.                          *)
(*   FocusKnown  what a walk that took one pane at most knows of the pane  *)
(*               that had the focus.                                       *)
(*                                                                         *)
(* All but Typed hold where Rezoomed is FALSE: swapping a zoomed pane puts *)
(* it into the tree a second time.                                         *)
(***************************************************************************)
EXTENDS PaneTree, SequenceLemmas, FiniteSetTheorems, WellFoundedInduction

\* What stands over the leaves i to j: a leaf, or an inner node of S
Node(S, i, j) == i = j \/ <<i, j>> \in S

\* A span stands over two leaves or more of the n there are
Bounded(S, n) ==
  \A s \in S : s \in Nat \X Nat /\ 1 <= s[1] /\ s[1] < s[2] /\ s[2] <= n

Apart(s, t) == s[2] < t[1] \/ t[2] < s[1]
Within(s, t) == t[1] <= s[1] /\ s[2] <= t[2]

\* Of two nodes one is under the other, or they share no leaf
Nested(S) == \A s, t \in S : Apart(s, t) \/ Within(s, t) \/ Within(t, s)

\* Every inner node has two children
Branching(S) ==
  \A s \in S : \E k \in s[1]..(s[2] - 1) : Node(S, s[1], k) /\ Node(S, k + 1, s[2])

\* A binary tree of n leaves has n - 1 inner nodes
Counted(S, n) ==
  /\ IsFiniteSet(S)
  /\ Cardinality(S) = IF n = 0 THEN 0 ELSE n - 1

\* S are the inner nodes of a binary tree of n leaves
Shaped(S, n) ==
  /\ Bounded(S, n)
  /\ Nested(S)
  /\ Branching(S)
  /\ n > 1 => <<1, n>> \in S
  /\ Counted(S, n)

\* s is the node right above leaf i
Above(S, i, s) ==
  /\ s \in S
  /\ Under(i, s)
  /\ \A t \in S : Under(i, t) => Within(s, t)

-----------------------------------------------------------------------------
\* Of the spans over a leaf one is within all the others.
LEMMA SomeAbove ==
  ASSUME NEW n \in Nat, NEW S, Bounded(S, n), Nested(S),
         NEW i, \E s \in S : Under(i, s), i \in Nat
  PROVE  \E s \in S : Above(S, i, s)
  <1> DEFINE T == {s[1]..s[2] : s \in {t \in S : Under(i, t)}}
  <1>1. T # {} OBVIOUS
  <1>2. T \subseteq FiniteSubsetsOf(Nat)
    <2> SUFFICES ASSUME NEW s \in S PROVE s[1]..s[2] \in FiniteSubsetsOf(Nat)
      OBVIOUS
    <2>1. s[1] \in Nat /\ s[2] \in Nat BY DEF Bounded
    <2>2. IsFiniteSet(s[1]..s[2])
      <3>1. s[1] \in Int /\ s[2] \in Int BY <2>1
      <3> QED BY <3>1, FS_Interval
    <2>3. s[1]..s[2] \in SUBSET Nat BY <2>1
    <2> QED BY <2>2, <2>3 DEF FiniteSubsetsOf
  <1>3. IsWellFoundedOn(StrictSubsetOrdering(Nat), FiniteSubsetsOf(Nat))
    BY FS_StrictSubsetOrderingWellFounded
  <1>4. \E x \in T : \A y \in T : ~(<<y, x>> \in StrictSubsetOrdering(Nat))
    <2> HIDE DEF T
    <2> QED BY <1>1, <1>2, <1>3, WFMin
  <1>5. PICK x \in T : \A y \in T : ~(<<y, x>> \in StrictSubsetOrdering(Nat))
    BY <1>4
  <1>6. PICK s \in S : Under(i, s) /\ x = s[1]..s[2]
    OBVIOUS
  <1>7. ASSUME NEW t \in S, Under(i, t) PROVE Within(s, t)
    <2>1. t[1] \in Nat /\ t[2] \in Nat /\ s[1] \in Nat /\ s[2] \in Nat BY DEF Bounded
    <2>2. ~Apart(s, t) BY <1>6, <1>7, <2>1 DEF Under, Apart
    <2>3. CASE Within(t, s)
      <3>1. t[1]..t[2] \in T BY <1>7
      <3>2. t[1]..t[2] \in SUBSET Nat /\ s[1]..s[2] \in SUBSET Nat BY <2>1
      <3>3. t[1]..t[2] \subseteq s[1]..s[2] BY <2>3, <2>1 DEF Within
      <3>4. ~(t[1]..t[2] \subseteq s[1]..s[2] /\ t[1]..t[2] # s[1]..s[2])
        BY <1>5, <1>6, <3>1, <3>2 DEF StrictSubsetOrdering
      <3>5. s[1] \in t[1]..t[2] /\ s[2] \in t[1]..t[2]
        BY <3>3, <3>4, <2>1, <1>6, <1>7 DEF Under
      <3> QED BY <3>5, <2>1 DEF Within
    <2> QED BY <2>2, <2>3 DEF Nested
  <1> QED BY <1>6, <1>7 DEF Above

-----------------------------------------------------------------------------
(* A leaf goes with the node right above it.                               *)

\* T is S when leaf i goes, and P with it
Unsplit(S, i, P, T) ==
  /\ \A s \in S : s # P => Closed(s, i) \in T
  /\ \A t \in T : \E s \in S : s # P /\ t = Closed(s, i)

\* The leaf is the first or the last under its parent.
LEMMA LeafOfParent ==
  ASSUME NEW n \in Nat, NEW S, Shaped(S, n), NEW i \in 1..n, NEW P, Above(S, i, P)
  PROVE  /\ P[1] \in Nat /\ P[2] \in Nat /\ P = <<P[1], P[2]>>
         /\ 1 <= P[1] /\ P[1] < P[2] /\ P[2] <= n
         /\ \/ P[1] = i /\ Node(S, i + 1, P[2])
            \/ P[2] = i /\ Node(S, P[1], i - 1)
  <1>1. /\ P \in S /\ P \in Nat \X Nat
        /\ 1 <= P[1] /\ P[1] < P[2] /\ P[2] <= n
    BY DEF Above, Shaped, Bounded
  <1>2. P[1] \in Nat /\ P[2] \in Nat /\ P = <<P[1], P[2]>>
    BY <1>1
  <1>3. PICK k \in P[1]..(P[2] - 1) : Node(S, P[1], k) /\ Node(S, k + 1, P[2])
    BY <1>1 DEF Shaped, Branching
  <1>4. P[1] <= i /\ i <= P[2] BY DEF Above, Under
  <1>5. k \in Nat /\ P[1] <= k /\ k < P[2] BY <1>2, <1>3
  <1>6. ASSUME NEW a \in Nat, NEW b \in Nat, a <= i, i <= b, <<a, b>> \in S
        PROVE  a <= P[1] /\ P[2] <= b
    BY <1>6 DEF Above, Under, Within
  <1>7. CASE i <= k
    <2>1. P[1] = k BY <1>7, <1>6, <1>5, <1>4, <1>3, <1>2 DEF Node
    <2> QED BY <2>1, <1>1, <1>2, <1>3, <1>4, <1>7
  <1>8. CASE i > k
    <2>1. k + 1 = P[2]
      <3> SUFFICES ASSUME <<k + 1, P[2]>> \in S PROVE FALSE BY <1>3 DEF Node
      <3>1. k + 1 <= P[1] BY <1>6, <1>2, <1>4, <1>5, <1>8
      <3> QED BY <3>1, <1>5, <1>2
    <2>2. P[2] = i /\ k = i - 1 BY <2>1, <1>8, <1>4, <1>2, <1>5
    <2> QED BY <2>2, <1>1, <1>2, <1>3
  <1> QED BY <1>7, <1>8, <1>5

LEMMA ClosedParts ==
  ASSUME NEW n \in Nat, NEW S, Shaped(S, n), NEW i \in 1..n, NEW P, Above(S, i, P),
         NEW s \in S
  PROVE  /\ s[1] \in Nat /\ s[2] \in Nat /\ s = <<s[1], s[2]>>
         /\ 1 <= s[1] /\ s[1] < s[2] /\ s[2] <= n
         /\ Closed(s, i)[1] = IF i < s[1] THEN s[1] - 1 ELSE s[1]
         /\ Closed(s, i)[2] = IF i <= s[2] THEN s[2] - 1 ELSE s[2]
         /\ Closed(s, i) = <<Closed(s, i)[1], Closed(s, i)[2]>>
         /\ Closed(s, i)[1] \in Nat /\ Closed(s, i)[2] \in Nat
         /\ Under(i, s) => Within(P, s)
         /\ Under(i, s) /\ s # P => s[1] + 1 < s[2]
  <1>1. /\ s \in Nat \X Nat
        /\ 1 <= s[1] /\ s[1] < s[2] /\ s[2] <= n
    BY DEF Shaped, Bounded
  <1>2. s[1] \in Nat /\ s[2] \in Nat /\ s = <<s[1], s[2]>>
    BY <1>1
  <1>3. Under(i, s) => Within(P, s) BY DEF Above
  <1>4. P[1] \in Nat /\ P[2] \in Nat /\ P = <<P[1], P[2]>> /\ P[1] < P[2]
    BY LeafOfParent
  <1>5. Under(i, s) /\ s # P => s[1] + 1 < s[2]
    BY <1>1, <1>2, <1>3, <1>4 DEF Within
  <1> QED BY <1>1, <1>2, <1>3, <1>5 DEF Closed

LEMMA UnsplitBounded ==
  ASSUME NEW n \in Nat, n > 1, NEW S, Shaped(S, n), NEW i \in 1..n, NEW P, Above(S, i, P),
         NEW T, Unsplit(S, i, P, T)
  PROVE  Bounded(T, n - 1) /\ Nested(T)
  <1>1. Bounded(T, n - 1)
    <2> SUFFICES ASSUME NEW s \in S, s # P
                 PROVE  LET t == Closed(s, i)
                        IN t \in Nat \X Nat /\ 1 <= t[1] /\ t[1] < t[2] /\ t[2] <= n - 1
      BY DEF Unsplit, Bounded
    <2> QED BY ClosedParts DEF Under
  <1>2. Nested(T)
    <2> SUFFICES ASSUME NEW s \in S, NEW t \in S, s # P, t # P
                 PROVE  LET u == Closed(s, i)
                            v == Closed(t, i)
                        IN Apart(u, v) \/ Within(u, v) \/ Within(v, u)
      BY DEF Unsplit, Nested
    <2>1. Apart(s, t) \/ Within(s, t) \/ Within(t, s) BY DEF Shaped, Nested
    <2>2. CASE Apart(s, t) BY <2>2, ClosedParts DEF Apart, Under
    <2>3. CASE Within(s, t) BY <2>3, ClosedParts DEF Within
    <2>4. CASE Within(t, s) BY <2>4, ClosedParts DEF Within
    <2> QED BY <2>1, <2>2, <2>3, <2>4
  <1> QED BY <1>1, <1>2

\* A node that is not the leaf is still a node, or its other child is.
LEMMA ClosedNode ==
  ASSUME NEW n \in Nat, n > 1, NEW S, Shaped(S, n), NEW i \in 1..n, NEW P, Above(S, i, P),
         NEW T, Unsplit(S, i, P, T),
         NEW a \in Nat, NEW b \in Nat, Node(S, a, b), ~(a = i /\ b = i)
  PROVE  Node(T, IF i < a THEN a - 1 ELSE a, IF i <= b THEN b - 1 ELSE b)
  <1>1. ASSUME NEW c \in Nat, NEW d \in Nat, Node(S, c, d), ~(c = i /\ d = i), <<c, d>> # P
        PROVE  Node(T, IF i < c THEN c - 1 ELSE c, IF i <= d THEN d - 1 ELSE d)
    <2>1. CASE c = d BY <2>1, <1>1 DEF Node
    <2>2. CASE <<c, d>> \in S
      <3>1. Closed(<<c, d>>, i) \in T BY <2>2, <1>1 DEF Unsplit
      <3>2. Closed(<<c, d>>, i) = <<IF i < c THEN c - 1 ELSE c, IF i <= d THEN d - 1 ELSE d>>
        BY DEF Closed
      <3> QED BY <3>1, <3>2 DEF Node
    <2> QED BY <2>1, <2>2, <1>1 DEF Node
  <1>2. CASE <<a, b>> # P BY <1>1, <1>2
  <1>3. CASE <<a, b>> = P
    <2>1. /\ P[1] = a /\ P[2] = b /\ a < b /\ 1 <= a /\ b <= n
          /\ \/ a = i /\ Node(S, i + 1, b)
             \/ b = i /\ Node(S, a, i - 1)
      BY <1>3, LeafOfParent
    <2>2. CASE a = i /\ Node(S, i + 1, b)
      <3>1. <<i + 1, b>> # P BY <2>1, <2>2, <1>3
      <3> QED BY <1>1, <3>1, <2>1, <2>2
    <2>3. CASE b = i /\ Node(S, a, i - 1)
      <3>1. <<a, i - 1>> # P /\ i - 1 \in Nat BY <2>1, <2>3, <1>3
      <3> QED BY <1>1, <3>1, <2>1, <2>3
    <2> QED BY <2>1, <2>2, <2>3
  <1> QED BY <1>2, <1>3

\* Only its parent has the leaf for a child.
LEMMA ParentOnly ==
  ASSUME NEW n \in Nat, NEW S, Shaped(S, n), NEW i \in 1..n, NEW P, Above(S, i, P),
         NEW s \in S, \/ s[1] = i /\ Node(S, i + 1, s[2])
                      \/ s[2] = i /\ Node(S, s[1], i - 1)
  PROVE  s = P
  <1>1. /\ s[1] \in Nat /\ s[2] \in Nat /\ s = <<s[1], s[2]>>
        /\ 1 <= s[1] /\ s[1] < s[2] /\ s[2] <= n
        /\ Under(i, s) => Within(P, s)
    BY ClosedParts
  <1>2. /\ P[1] \in Nat /\ P[2] \in Nat /\ P = <<P[1], P[2]>>
        /\ 1 <= P[1] /\ P[1] < P[2] /\ P[2] <= n
        /\ P \in S /\ Under(i, P)
    BY LeafOfParent DEF Above
  <1>3. Within(P, s) BY <1>1 DEF Under
  <1>4. ASSUME NEW c \in Nat, NEW d \in Nat, <<c, d>> \in S
        PROVE  d < P[1] \/ P[2] < c \/ (c <= P[1] /\ P[2] <= d) \/ (P[1] <= c /\ d <= P[2])
    <2>1. Apart(<<c, d>>, P) \/ Within(<<c, d>>, P) \/ Within(P, <<c, d>>)
      BY <1>2, <1>4 DEF Shaped, Nested
    <2> QED BY <2>1 DEF Apart, Within
  <1>5. CASE s[1] = i /\ Node(S, i + 1, s[2])
    <2>1. P[1] = i /\ P[2] <= s[2] BY <1>1, <1>2, <1>3, <1>5 DEF Within, Under
    <2>2. CASE i + 1 = s[2] BY <2>1, <2>2, <1>1, <1>2
    <2>3. CASE <<i + 1, s[2]>> \in S
      <3>1. \/ s[2] < P[1] \/ P[2] < i + 1
            \/ i + 1 <= P[1] /\ P[2] <= s[2]
            \/ P[1] <= i + 1 /\ s[2] <= P[2]
        <4>1. i + 1 \in Nat OBVIOUS
        <4> QED BY <1>4, <2>3, <1>1, <4>1
      <3>2. s[2] <= P[2] BY <3>1, <2>1, <1>1, <1>2
      <3> QED BY <3>2, <2>1, <1>1, <1>2, <1>5
    <2> QED BY <2>2, <2>3, <1>5 DEF Node
  <1>6. CASE s[2] = i /\ Node(S, s[1], i - 1)
    <2>1. P[2] = i /\ s[1] <= P[1] BY <1>1, <1>2, <1>3, <1>6 DEF Within, Under
    <2>2. CASE s[1] = i - 1 BY <2>1, <2>2, <1>1, <1>2
    <2>3. CASE <<s[1], i - 1>> \in S
      <3>1. P[1] <= s[1] BY <1>4, <2>1, <2>3, <1>1, <1>2
      <3> QED BY <3>1, <2>1, <1>1, <1>2, <1>6
    <2> QED BY <2>2, <2>3, <1>6 DEF Node
  <1> QED BY <1>5, <1>6

LEMMA UnsplitBranching ==
  ASSUME NEW n \in Nat, n > 1, NEW S, Shaped(S, n), NEW i \in 1..n, NEW P, Above(S, i, P),
         NEW T, Unsplit(S, i, P, T)
  PROVE  Branching(T) /\ (n - 1 > 1 => <<1, n - 1>> \in T)
  <1>1. ASSUME NEW s \in S, s # P
        PROVE  LET t == Closed(s, i)
               IN \E k \in t[1]..(t[2] - 1) : Node(T, t[1], k) /\ Node(T, k + 1, t[2])
    <2> DEFINE a == s[1]
               b == s[2]
               g(k) == IF i <= k THEN k - 1 ELSE k
    <2>1. /\ a \in Nat /\ b \in Nat /\ 1 <= a /\ a < b /\ b <= n
          /\ Closed(s, i)[1] = IF i < a THEN a - 1 ELSE a
          /\ Closed(s, i)[2] = IF i <= b THEN b - 1 ELSE b
      BY ClosedParts
    <2>2. PICK k \in a..(b - 1) : Node(S, a, k) /\ Node(S, k + 1, b)
      BY DEF Shaped, Branching
    <2>3. k \in Nat /\ k + 1 \in Nat /\ a <= k /\ k < b BY <2>1, <2>2
    <2>4. ~(a = i /\ k = i) BY <2>2, ParentOnly, <1>1
    <2>5. ~(k + 1 = i /\ b = i)
      <3>1. k + 1 = i => k = i - 1 BY <2>3
      <3> QED BY <3>1, <2>2, ParentOnly, <1>1
    <2>6. Node(T, Closed(s, i)[1], g(k))
      BY <2>1, <2>2, <2>3, <2>4, ClosedNode
    <2>7. Node(T, IF i < k + 1 THEN k + 1 - 1 ELSE k + 1, Closed(s, i)[2])
      <3> HIDE DEF a, b
      <3> QED BY <2>1, <2>2, <2>3, <2>5, ClosedNode
    <2>8. (IF i < k + 1 THEN k + 1 - 1 ELSE k + 1) = g(k) + 1 BY <2>3
    <2>9. g(k) \in Closed(s, i)[1]..(Closed(s, i)[2] - 1)
      BY <2>1, <2>3, <2>4, <2>5
    <2> HIDE DEF g
    <2> QED BY <2>6, <2>7, <2>8, <2>9
  <1>2. Branching(T) BY <1>1 DEF Unsplit, Branching
  <1>3. n - 1 > 1 => <<1, n - 1>> \in T
    <2>1. Node(S, 1, n) BY DEF Shaped, Node
    <2>2. Node(T, IF i < 1 THEN 1 - 1 ELSE 1, IF i <= n THEN n - 1 ELSE n)
      BY <2>1, ClosedNode
    <2> QED BY <2>2 DEF Node
  <1> QED BY <1>2, <1>3

LEMMA UnsplitCounted ==
  ASSUME NEW n \in Nat, n > 1, NEW S, Shaped(S, n), NEW i \in 1..n, NEW P, Above(S, i, P),
         NEW T, Unsplit(S, i, P, T)
  PROVE  Counted(T, n - 1)
  <1> DEFINE R == S \ {P}
             f == [s \in R |-> Closed(s, i)]
  <1>1. ASSUME NEW s \in R, NEW t \in R, Closed(s, i) = Closed(t, i), s[1] <= t[1]
        PROVE  s = t
    <2>1. /\ s[1] \in Nat /\ s[2] \in Nat /\ s = <<s[1], s[2]>> /\ s[1] < s[2]
          /\ t[1] \in Nat /\ t[2] \in Nat /\ t = <<t[1], t[2]>> /\ t[1] < t[2]
          /\ (IF i < s[1] THEN s[1] - 1 ELSE s[1]) = (IF i < t[1] THEN t[1] - 1 ELSE t[1])
          /\ (IF i <= s[2] THEN s[2] - 1 ELSE s[2]) = (IF i <= t[2] THEN t[2] - 1 ELSE t[2])
      BY <1>1, ClosedParts
    <2>2. /\ P[1] \in Nat /\ P[2] \in Nat /\ P = <<P[1], P[2]>> /\ P[1] < P[2]
          /\ P \in S /\ Under(i, P)
          /\ \A u \in S : Under(i, u) => Within(P, u)
      BY LeafOfParent DEF Above
    <2>3. /\ Apart(t, P) \/ Within(t, P) \/ Within(P, t)
          /\ Apart(s, P) \/ Within(s, P) \/ Within(P, s)
      BY <2>2 DEF Shaped, Nested
    <2>4. CASE s[1] # t[1]
      <3>1. s[1] = i /\ t[1] = i + 1 BY <2>1, <2>4, <1>1
      <3>2. s[2] = t[2] BY <2>1, <3>1
      <3>3. Within(P, s) BY <2>1, <2>2, <3>1 DEF Under
      <3>4. P[1] = i /\ P[2] >= i + 1 /\ P[2] <= s[2]
        BY <3>1, <3>3, <2>1, <2>2 DEF Within, Under
      <3>5. P[2] # s[2] BY <3>1, <3>4, <2>1, <2>2
      <3> QED BY <3>1, <3>2, <3>4, <3>5, <2>1, <2>2, <2>3 DEF Apart, Within
    <2>5. CASE s[1] = t[1] /\ s[2] # t[2]
      <3>1. \/ s[2] = i /\ t[2] = i - 1
            \/ t[2] = i /\ s[2] = i - 1
        BY <2>1, <2>5
      <3>2. CASE s[2] = i /\ t[2] = i - 1
        <4>1. Within(P, s) BY <2>1, <2>2, <3>2 DEF Under
        <4>2. P[2] = i /\ P[1] <= i - 1 /\ P[1] >= s[1]
          BY <3>2, <4>1, <2>1, <2>2 DEF Within, Under
        <4>3. P[1] # s[1] BY <3>2, <4>2, <2>1, <2>2
        <4> QED BY <3>2, <4>2, <4>3, <2>5, <2>1, <2>2, <2>3 DEF Apart, Within
      <3>3. CASE t[2] = i /\ s[2] = i - 1
        <4>1. Within(P, t) BY <2>1, <2>2, <3>3 DEF Under
        <4>2. P[2] = i /\ P[1] <= i - 1 /\ P[1] >= t[1]
          BY <3>3, <4>1, <2>1, <2>2 DEF Within, Under
        <4>3. P[1] # t[1] BY <3>3, <4>2, <2>1, <2>2
        <4> QED BY <3>3, <4>2, <4>3, <2>5, <2>1, <2>2, <2>3 DEF Apart, Within
      <3> QED BY <3>1, <3>2, <3>3
    <2> QED BY <2>1, <2>4, <2>5
  <1>2. ASSUME NEW s \in R, NEW t \in R, Closed(s, i) = Closed(t, i) PROVE s = t
    <2>1. s[1] \in Nat /\ t[1] \in Nat BY ClosedParts
    <2> QED BY <1>1, <1>2, <2>1
  <1>3. f \in Bijection(R, T)
    <2>1. f \in [R -> T] BY DEF Unsplit
    <2>2. IsInjective(f) BY <1>2 DEF IsInjective
    <2>3. \A t \in T : \E s \in R : f[s] = t BY DEF Unsplit
    <2> QED BY <2>1, <2>2, <2>3 DEF Bijection, Injection, Surjection
  <1>4. IsFiniteSet(S) /\ Cardinality(S) = n - 1 BY DEF Shaped, Counted
  <1>5. P \in S BY DEF Above
  <1>6. IsFiniteSet(R) /\ Cardinality(R) = n - 1 - 1
    BY <1>4, <1>5, FS_RemoveElement
  <1>7. IsFiniteSet(T) /\ Cardinality(T) = Cardinality(R)
    <2>1. ExistsBijection(R, T) BY <1>3 DEF ExistsBijection
    <2> HIDE DEF R
    <2> QED BY <2>1, <1>6, FS_Bijection
  <1> QED BY <1>6, <1>7 DEF Counted

-----------------------------------------------------------------------------
(* A leaf becomes two, or the tree one side of a new root.                 *)

\* T is S when leaf i becomes the leaves i and i + 1
LeafSplit(S, i, T) ==
  /\ \A s \in S : Opened(s, i) \in T
  /\ <<i, i + 1>> \in T
  /\ \A t \in T : t = <<i, i + 1>> \/ \E s \in S : t = Opened(s, i)

LEMMA OpenedParts ==
  ASSUME NEW n \in Nat, NEW S, Bounded(S, n), NEW i \in 1..n, NEW s \in S
  PROVE  /\ s[1] \in Nat /\ s[2] \in Nat /\ s = <<s[1], s[2]>>
         /\ 1 <= s[1] /\ s[1] < s[2] /\ s[2] <= n
         /\ Opened(s, i)[1] = IF i < s[1] THEN s[1] + 1 ELSE s[1]
         /\ Opened(s, i)[2] = IF i <= s[2] THEN s[2] + 1 ELSE s[2]
         /\ Opened(s, i) = <<Opened(s, i)[1], Opened(s, i)[2]>>
         /\ Opened(s, i)[1] \in Nat /\ Opened(s, i)[2] \in Nat
  <1>1. /\ s \in Nat \X Nat
        /\ 1 <= s[1] /\ s[1] < s[2] /\ s[2] <= n
    BY DEF Bounded
  <1>2. s[1] \in Nat /\ s[2] \in Nat /\ s = <<s[1], s[2]>>
    BY <1>1
  <1> QED BY <1>1, <1>2 DEF Opened

LEMMA OpenedNode ==
  ASSUME NEW n \in Nat, NEW S, Bounded(S, n), NEW i \in 1..n,
         NEW T, LeafSplit(S, i, T),
         NEW a \in Nat, NEW b \in Nat, Node(S, a, b), a <= b
  PROVE  Node(T, IF i < a THEN a + 1 ELSE a, IF i <= b THEN b + 1 ELSE b)
  <1>1. CASE a = b BY <1>1 DEF Node, LeafSplit
  <1>2. CASE <<a, b>> \in S
    <2>1. Opened(<<a, b>>, i) \in T BY <1>2 DEF LeafSplit
    <2>2. Opened(<<a, b>>, i) = <<IF i < a THEN a + 1 ELSE a, IF i <= b THEN b + 1 ELSE b>>
      BY DEF Opened
    <2> QED BY <2>1, <2>2 DEF Node
  <1> QED BY <1>1, <1>2 DEF Node

LEMMA LeafSplitShaped ==
  ASSUME NEW n \in Nat, NEW S, Shaped(S, n), NEW i \in 1..n,
         NEW T, LeafSplit(S, i, T)
  PROVE  Shaped(T, n + 1)
  <1> DEFINE c == <<i, i + 1>>
  <1>1. c \in Nat \X Nat /\ c[1] = i /\ c[2] = i + 1 OBVIOUS
  <1>2. Bounded(S, n) BY DEF Shaped
  <1>3. Bounded(T, n + 1)
    <2>1. ASSUME NEW s \in S
          PROVE  LET t == Opened(s, i)
                 IN t \in Nat \X Nat /\ 1 <= t[1] /\ t[1] < t[2] /\ t[2] <= n + 1
      BY <1>2, OpenedParts
    <2>2. c \in Nat \X Nat /\ 1 <= c[1] /\ c[1] < c[2] /\ c[2] <= n + 1
      BY <1>1
    <2> QED BY <2>1, <2>2 DEF LeafSplit, Bounded
  <1>4. Nested(T)
    <2>1. ASSUME NEW s \in S, NEW t \in S
          PROVE  LET u == Opened(s, i)
                     v == Opened(t, i)
                 IN Apart(u, v) \/ Within(u, v) \/ Within(v, u)
      <3>1. Apart(s, t) \/ Within(s, t) \/ Within(t, s) BY DEF Shaped, Nested
      <3>2. CASE Apart(s, t) BY <3>2, <1>2, OpenedParts DEF Apart
      <3>3. CASE Within(s, t) BY <3>3, <1>2, OpenedParts DEF Within
      <3>4. CASE Within(t, s) BY <3>4, <1>2, OpenedParts DEF Within
      <3> QED BY <3>1, <3>2, <3>3, <3>4
    <2>2. ASSUME NEW s \in S
          PROVE  /\ Apart(Opened(s, i), c) \/ Within(c, Opened(s, i))
                 /\ Apart(c, Opened(s, i)) \/ Within(c, Opened(s, i))
      BY <1>1, <1>2, OpenedParts DEF Apart, Within
    <2>3. Within(c, c) BY <1>1 DEF Within
    <2> HIDE DEF c
    <2>4. ASSUME NEW u \in T, NEW v \in T
          PROVE  Apart(u, v) \/ Within(u, v) \/ Within(v, u)
      <3>1. u = c \/ \E s \in S : u = Opened(s, i) BY DEF LeafSplit, c
      <3>2. v = c \/ \E s \in S : v = Opened(s, i) BY DEF LeafSplit, c
      <3> QED BY <3>1, <3>2, <2>1, <2>2, <2>3
    <2> QED BY <2>4 DEF Nested
  <1>5. Branching(T)
    <2>1. ASSUME NEW s \in S
          PROVE  LET t == Opened(s, i)
                 IN \E k \in t[1]..(t[2] - 1) : Node(T, t[1], k) /\ Node(T, k + 1, t[2])
      <3> DEFINE a == s[1]
                 b == s[2]
                 g(k) == IF i <= k THEN k + 1 ELSE k
      <3>1. /\ a \in Nat /\ b \in Nat /\ 1 <= a /\ a < b /\ b <= n
            /\ Opened(s, i)[1] = IF i < a THEN a + 1 ELSE a
            /\ Opened(s, i)[2] = IF i <= b THEN b + 1 ELSE b
        BY <1>2, OpenedParts
      <3>2. PICK k \in a..(b - 1) : Node(S, a, k) /\ Node(S, k + 1, b)
        BY DEF Shaped, Branching
      <3>3. k \in Nat /\ k + 1 \in Nat /\ a <= k /\ k + 1 <= b BY <3>1, <3>2
      <3>4. Node(T, Opened(s, i)[1], g(k))
        BY <3>1, <3>2, <3>3, <1>2, OpenedNode
      <3>5. Node(T, IF i < k + 1 THEN k + 1 + 1 ELSE k + 1, Opened(s, i)[2])
        <4> HIDE DEF a, b
        <4> QED BY <3>1, <3>2, <3>3, <1>2, OpenedNode
      <3>6. (IF i < k + 1 THEN k + 1 + 1 ELSE k + 1) = g(k) + 1 BY <3>3
      <3>7. g(k) \in Opened(s, i)[1]..(Opened(s, i)[2] - 1)
        BY <3>1, <3>3
      <3> HIDE DEF g
      <3> QED BY <3>4, <3>5, <3>6, <3>7
    <2>2. i \in c[1]..(c[2] - 1) /\ Node(T, c[1], i) /\ Node(T, i + 1, c[2])
      BY <1>1 DEF Node
    <2> QED BY <2>1, <2>2 DEF LeafSplit, Branching
  <1>6. <<1, n + 1>> \in T
    <2>1. Node(S, 1, n) BY DEF Shaped, Node
    <2>2. Node(T, IF i < 1 THEN 1 + 1 ELSE 1, IF i <= n THEN n + 1 ELSE n)
      BY <2>1, <1>2, OpenedNode
    <2> QED BY <2>2 DEF Node
  <1>7. Counted(T, n + 1)
    <2> DEFINE R == T \ {c}
               f == [s \in S |-> Opened(s, i)]
    <2>1. ASSUME NEW s \in S PROVE Opened(s, i) # c
      BY <1>1, <1>2, OpenedParts
    <2>2. ASSUME NEW s \in S, NEW t \in S, Opened(s, i) = Opened(t, i) PROVE s = t
      BY <2>2, <1>2, OpenedParts
    <2>3. f \in Bijection(S, R)
      <3>1. f \in [S -> R] BY <2>1 DEF LeafSplit
      <3>2. IsInjective(f) BY <2>2 DEF IsInjective
      <3>3. \A t \in R : \E s \in S : f[s] = t BY DEF LeafSplit
      <3> QED BY <3>1, <3>2, <3>3 DEF Bijection, Injection, Surjection
    <2>4. IsFiniteSet(S) /\ Cardinality(S) = n - 1 BY DEF Shaped, Counted
    <2>5. IsFiniteSet(R) /\ Cardinality(R) = n - 1
      <3>1. ExistsBijection(S, R) BY <2>3 DEF ExistsBijection
      <3> HIDE DEF R
      <3> QED BY <3>1, <2>4, FS_Bijection
    <2>6. R \cup {c} = T /\ c \notin R BY DEF LeafSplit
    <2>7. IsFiniteSet(R \cup {c}) /\ Cardinality(R \cup {c}) = n
      <3> HIDE DEF R, c
      <3> QED BY <2>5, <2>6, FS_AddElement
    <2> QED BY <2>6, <2>7 DEF Counted
  <1> QED BY <1>3, <1>4, <1>5, <1>6, <1>7 DEF Shaped

\* T is S under a new root, with a leaf after it, or before
NewRoot(S, n, d, T) ==
  /\ \A s \in S : <<s[1] + d, s[2] + d>> \in T
  /\ <<1, n + 1>> \in T
  /\ \A t \in T : t = <<1, n + 1>> \/ \E s \in S : t = <<s[1] + d, s[2] + d>>

LEMMA NewRootShaped ==
  ASSUME NEW n \in Nat, n > 1, NEW S, Shaped(S, n), NEW d \in {0, 1},
         NEW T, NewRoot(S, n, d, T)
  PROVE  Shaped(T, n + 1)
  <1> DEFINE c == <<1, n + 1>>
             h(s) == <<s[1] + d, s[2] + d>>
  <1>1. c \in Nat \X Nat /\ c[1] = 1 /\ c[2] = n + 1 OBVIOUS
  <1>2. ASSUME NEW s \in S
        PROVE  /\ s[1] \in Nat /\ s[2] \in Nat /\ s = <<s[1], s[2]>>
               /\ 1 <= s[1] /\ s[1] < s[2] /\ s[2] <= n
               /\ h(s)[1] = s[1] + d /\ h(s)[2] = s[2] + d
               /\ h(s) \in Nat \X Nat
               /\ h(s)[1] \in Nat /\ h(s)[2] \in Nat
    <2>1. /\ s \in Nat \X Nat
          /\ 1 <= s[1] /\ s[1] < s[2] /\ s[2] <= n
      BY DEF Shaped, Bounded
    <2>2. s[1] \in Nat /\ s[2] \in Nat /\ s = <<s[1], s[2]>>
      BY <2>1
    <2> QED BY <2>1, <2>2
  <1>3. /\ \A s \in S : h(s) \in T
        /\ c \in T
        /\ \A t \in T : t = c \/ \E s \in S : t = h(s)
    BY DEF NewRoot
  <1> HIDE DEF c, h
  <1>4. Bounded(T, n + 1)
    <2>1. ASSUME NEW s \in S
          PROVE  /\ h(s) \in Nat \X Nat
                 /\ 1 <= h(s)[1] /\ h(s)[1] < h(s)[2] /\ h(s)[2] <= n + 1
      BY <1>2
    <2> QED BY <2>1, <1>1, <1>3 DEF Bounded
  <1>5. Nested(T)
    <2>1. ASSUME NEW s \in S, NEW t \in S
          PROVE  Apart(h(s), h(t)) \/ Within(h(s), h(t)) \/ Within(h(t), h(s))
      <3>1. Apart(s, t) \/ Within(s, t) \/ Within(t, s) BY DEF Shaped, Nested
      <3> QED BY <3>1, <1>2 DEF Apart, Within
    <2>2. ASSUME NEW t \in T PROVE Within(t, c)
      <3>1. t[1] \in Nat /\ t[2] \in Nat /\ 1 <= t[1] /\ t[2] <= n + 1 BY <1>4 DEF Bounded
      <3> QED BY <3>1, <1>1 DEF Within
    <2>3. ASSUME NEW u \in T, NEW v \in T
          PROVE  Apart(u, v) \/ Within(u, v) \/ Within(v, u)
      <3>1. u = c \/ \E s \in S : u = h(s) BY <1>3
      <3>2. v = c \/ \E s \in S : v = h(s) BY <1>3
      <3> QED BY <3>1, <3>2, <2>1, <2>2
    <2> QED BY <2>3 DEF Nested
  <1>6. ASSUME NEW a \in Nat, NEW b \in Nat, Node(S, a, b) PROVE Node(T, a + d, b + d)
    <2>1. CASE a = b BY <2>1 DEF Node
    <2>2. CASE <<a, b>> \in S
      <3>1. h(<<a, b>>) \in T BY <1>3, <2>2
      <3> QED BY <3>1 DEF Node, h
    <2> QED BY <2>1, <2>2, <1>6 DEF Node
  <1>7. Branching(T)
    <2>1. ASSUME NEW s \in S
          PROVE  \E k \in h(s)[1]..(h(s)[2] - 1) :
                   Node(T, h(s)[1], k) /\ Node(T, k + 1, h(s)[2])
      <3>1. PICK k \in s[1]..(s[2] - 1) : Node(S, s[1], k) /\ Node(S, k + 1, s[2])
        BY DEF Shaped, Branching
      <3>2. k \in Nat /\ k + 1 \in Nat BY <1>2
      <3>3. Node(T, s[1] + d, k + d) BY <1>2, <1>6, <3>1, <3>2
      <3>4. Node(T, k + 1 + d, s[2] + d) BY <1>2, <1>6, <3>1, <3>2
      <3>5. k + 1 + d = k + d + 1 BY <3>2
      <3>6. k + d \in h(s)[1]..(h(s)[2] - 1) BY <1>2, <3>1, <3>2
      <3> QED BY <3>3, <3>4, <3>5, <3>6, <1>2
    <2>2. \E k \in c[1]..(c[2] - 1) : Node(T, c[1], k) /\ Node(T, k + 1, c[2])
      <3>1. Node(S, 1, n) BY DEF Shaped, Node
      <3>2. Node(T, 1 + d, n + d) BY <3>1, <1>6
      <3>3. CASE d = 0
        <4>1. n \in c[1]..(c[2] - 1) /\ Node(T, c[1], n) /\ Node(T, n + 1, c[2])
          BY <3>2, <3>3, <1>1 DEF Node
        <4> QED BY <4>1
      <3>4. CASE d = 1
        <4>1. 1 \in c[1]..(c[2] - 1) /\ Node(T, c[1], 1) /\ Node(T, 1 + 1, c[2])
          BY <3>2, <3>4, <1>1 DEF Node
        <4> QED BY <4>1
      <3> QED BY <3>3, <3>4
    <2> QED BY <2>1, <2>2, <1>3 DEF Branching
  <1>8. <<1, n + 1>> \in T BY <1>3 DEF c
  <1>9. Counted(T, n + 1)
    <2> DEFINE R == T \ {c}
               f == [s \in S |-> h(s)]
    <2>1. ASSUME NEW s \in S PROVE h(s) # c
      BY <1>1, <1>2
    <2>2. ASSUME NEW s \in S, NEW t \in S, h(s) = h(t) PROVE s = t
      <3>1. s[1] + d = t[1] + d /\ s[2] + d = t[2] + d BY <1>2, <2>2
      <3> QED BY <3>1, <1>2
    <2>3. f \in Bijection(S, R)
      <3>1. f \in [S -> R] BY <2>1, <1>3
      <3>2. IsInjective(f) BY <2>2 DEF IsInjective
      <3>3. \A t \in R : \E s \in S : f[s] = t BY <1>3
      <3> QED BY <3>1, <3>2, <3>3 DEF Bijection, Injection, Surjection
    <2>4. IsFiniteSet(S) /\ Cardinality(S) = n - 1 BY DEF Shaped, Counted
    <2>5. IsFiniteSet(R) /\ Cardinality(R) = n - 1
      <3>1. ExistsBijection(S, R) BY <2>3 DEF ExistsBijection
      <3> HIDE DEF R
      <3> QED BY <3>1, <2>4, FS_Bijection
    <2>6. R \cup {c} = T /\ c \notin R BY <1>3
    <2>7. IsFiniteSet(R \cup {c}) /\ Cardinality(R \cup {c}) = n
      <3> HIDE DEF R
      <3>1. /\ IsFiniteSet(R \cup {c})
            /\ Cardinality(R \cup {c}) = IF c \in R THEN Cardinality(R) ELSE Cardinality(R) + 1
        BY <2>5, FS_AddElement
      <3> QED BY <3>1, <2>5, <2>6
    <2>8. IsFiniteSet(T) /\ Cardinality(T) = n
      <3> HIDE DEF R, f
      <3> QED BY <2>6, <2>7
    <2>9. n + 1 # 0 /\ n + 1 - 1 = n OBVIOUS
    <2> QED BY <2>8, <2>9 DEF Counted
  <1> QED BY <1>4, <1>5, <1>7, <1>8, <1>9 DEF Shaped

-----------------------------------------------------------------------------
(* The invariant.                                                          *)

\* What is spawned: the zoomed pane, the pane that moves, room for one to spawn
Spawned ==
  /\ zoomed # NoPane => zoomed \in 1..born
  /\ request.phase = "moving" => request.moved \in 1..born
  /\ request.phase = "spawning" => born < MaxPanes
  /\ walk.busy /\ walk.prune => walk.kill

\* The pane that moves is out of the tree once its walk is over
MovedOut ==
  request.phase = "moving" =>
    IF walk.busy
    THEN /\ ~walk.prune
         /\ walk.asked = {request.moved}
         /\ \A i \in DOMAIN leaves : leaves[i] = request.moved => walk.at <= i
    ELSE request.moved \notin Listed

\* A pane that was dead when it was moved out has a removal coming
MovedNotForgotten ==
  request.phase = "moving" /\ request.moved \in gone => pruneDue \/ toRemove # {}

\* The types, with what they need of one another
Typed == TypeOK /\ Spawned /\ Shaped(spans, Len(leaves))

\* What leaves are, for those who need no more than their places
Seats(q, b) ==
  /\ q \in Seq(1..b)
  /\ Len(q) \in Nat
  /\ DOMAIN q = 1..Len(q)
  /\ \A i \in 1..Len(q) : q[i] \in 1..b
  /\ q = <<>> <=> Len(q) = 0

LEMMA SeatsOf ==
  ASSUME NEW b, NEW q \in Seq(1..b)
  PROVE  Seats(q, b)
  BY LenProperties, EmptySeq, ElementOfSeq DEF Seats

LEMMA ListedIs == \A p : p \in Listed <=> \E i \in DOMAIN leaves : leaves[i] = p
  BY DEF Listed, ToSet

\* q is p without its ith member
Without(p, i, q) ==
  /\ Len(q) = Len(p) - 1
  /\ \A j \in 1..(Len(p) - 1) : q[j] = IF j < i THEN p[j] ELSE p[j + 1]

\* q is p with e as its ith member
With(p, i, e, q) ==
  /\ Len(q) = Len(p) + 1
  /\ \A j \in 1..(Len(p) + 1) :
       q[j] = IF j < i THEN p[j] ELSE IF j = i THEN e ELSE p[j - 1]

\* q has the members of p in another order
Reordered(p, q) ==
  /\ Len(q) = Len(p)
  /\ \E f \in Bijection(1..Len(p), 1..Len(p)) : \A i \in 1..Len(p) : q[i] = p[f[i]]

LEMMA TakeShape ==
  ASSUME Typed, Take
  PROVE  /\ leaves' \in Seq(1..born)
         /\ walk.at \in 1..Len(leaves)
         /\ Without(leaves, walk.at, leaves')
         /\ Shaped(spans', Len(leaves'))
         /\ \E next \in Nat \ {0} : walk' = Taken(leaves[walk.at], next)
  <1>1. Seats(leaves, born) BY SeatsOf DEF Typed, TypeOK
  <1>2. walk.at \in Nat \ {0} BY DEF Typed, TypeOK
  <1>3. walk.at \in 1..Len(leaves) BY <1>1, <1>2 DEF Take, Seats
  <1>4. leaves' = RemoveAt(leaves, walk.at) BY DEF Take
  <1>5. leaves' \in Seq(1..born) /\ Without(leaves, walk.at, leaves')
    BY <1>1, <1>3, <1>4, RemoveAtParts DEF Seats, Without
  <1>6. CASE Len(leaves) = 1
    <2>1. spans' = {} /\ walk' = Taken(leaves[walk.at], 1) BY <1>6 DEF Take
    <2>2. Len(leaves') = 0 BY <1>5, <1>6 DEF Without
    <2>3. Shaped({}, 0)
      BY FS_EmptySet DEF Shaped, Bounded, Nested, Branching, Counted
    <2> QED BY <1>3, <1>5, <2>1, <2>2, <2>3
  <1>7. CASE Len(leaves) # 1
    <2> DEFINE n == Len(leaves)
               i == walk.at
    <2>1. n \in Nat /\ n > 1 /\ i \in 1..n BY <1>1, <1>3, <1>7 DEF Seats
    <2>2. Shaped(spans, n) BY DEF Typed
    <2>3. spans' = SpansWithout(i) /\ walk' = Taken(leaves[i], NextAfter(i))
      BY <1>7 DEF Take
    <2> HIDE DEF n, i
    <2>4. \E s \in spans : Above(spans, i, s)
      <3>1. Bounded(spans, n) /\ Nested(spans) /\ <<1, n>> \in spans
        BY <2>1, <2>2 DEF Shaped
      <3>2. Under(i, <<1, n>>) BY <2>1 DEF Under
      <3>3. i \in Nat BY <2>1
      <3> QED BY <2>1, <3>1, <3>2, <3>3, SomeAbove
    <2>5. Above(spans, i, Parent(i))
      <3>1. \E s \in spans :
              Under(i, s) /\ \A t \in spans : Under(i, t) => t[1] <= s[1] /\ s[2] <= t[2]
        BY <2>4 DEF Above, Within
      <3> QED BY <3>1 DEF Parent, Above, Within
    <2>6. PICK P : P = Parent(i) OBVIOUS
    <2>7. PICK T : T = SpansWithout(i) OBVIOUS
    <2>8. Unsplit(spans, i, P, T)
      BY <2>6, <2>7 DEF Unsplit, SpansWithout
    <2>9. Shaped(T, n - 1)
      <3>1. Bounded(T, n - 1) /\ Nested(T)
        BY <2>1, <2>2, <2>5, <2>6, <2>8, UnsplitBounded
      <3>2. Branching(T) /\ (n - 1 > 1 => <<1, n - 1>> \in T)
        BY <2>1, <2>2, <2>5, <2>6, <2>8, UnsplitBranching
      <3>3. Counted(T, n - 1)
        BY <2>1, <2>2, <2>5, <2>6, <2>8, UnsplitCounted
      <3> QED BY <3>1, <3>2, <3>3 DEF Shaped
    <2>10. Len(leaves') = n - 1 BY <1>5 DEF Without, n
    <2>11. NextAfter(i) \in Nat \ {0}
      <3>1. /\ P[1] \in Nat /\ P[2] \in Nat /\ 1 <= P[1] /\ P[1] < P[2] /\ P[2] <= n
            /\ P[1] = i \/ P[2] = i
        BY <2>1, <2>2, <2>5, <2>6, LeafOfParent
      <3>2. NextAfter(i) \in {i, i + 1, P[1]}
        BY <3>1, <2>1, <2>6 DEF NextAfter
      <3> QED BY <3>1, <3>2, <2>1
    <2> QED BY <1>3, <1>5, <2>3, <2>7, <2>9, <2>10, <2>11 DEF i
  <1> QED BY <1>6, <1>7

\* Where a pane that is inserted comes to stand, k counted from 1
LandsAt(k) ==
  LET top == request.top /\ Len(leaves) > 1
  IN IF request.second
     THEN /\ active' = k - 1
          /\ IF top THEN k = Len(leaves) + 1
             ELSE k - 1 \in 1..Len(leaves) /\ leaves[k - 1] = request.target
     ELSE IF top THEN k = 1
          ELSE k \in 1..Len(leaves) /\ leaves[k] = request.target

LEMMA SplitShape ==
  ASSUME Typed, NEW b \in Nat, born <= b, NEW p \in 1..b, Split(p)
  PROVE  /\ leaves' \in Seq(1..b)
         /\ Shaped(spans', Len(leaves'))
         /\ active' \in Nat
         /\ \E k \in 1..(Len(leaves) + 1) : With(leaves, k, p, leaves') /\ LandsAt(k)
  <1> DEFINE n == Len(leaves)
  <1>1. Seats(leaves, born) BY SeatsOf DEF Typed, TypeOK
  <1>2. leaves \in Seq(1..b)
    <2>1. 1..born \subseteq 1..b BY DEF Typed, TypeOK, Pane
    <2> QED BY <2>1, <1>1, SeqMonotonic DEF Seats
  <1>3. n \in Nat /\ DOMAIN leaves = 1..n /\ Shaped(spans, n) BY <1>1 DEF Typed, Seats
  <1>4. active \in Nat BY DEF Typed, TypeOK
  <1> HIDE DEF n
  <1>5. CASE request.top /\ n > 1
    <2>1. InsertAtTop(p) BY <1>5 DEF Split, n
    <2>2. CASE request.second
      <3>1. /\ spans' = spans \cup {<<1, n + 1>>}
            /\ leaves' = Append(leaves, p)
            /\ active' = n
        BY <2>1, <2>2 DEF InsertAtTop, n
      <3>2. /\ leaves' \in Seq(1..b)
            /\ Len(leaves') = n + 1
            /\ \A i \in 1..n : leaves'[i] = leaves[i]
            /\ leaves'[n + 1] = p
        BY <1>2, <3>1, AppendProperties DEF n
      <3>3. With(leaves, n + 1, p, leaves') BY <3>2, <1>3 DEF With, n
      <3>4. LandsAt(n + 1) BY <2>2, <1>5, <3>1, <1>3 DEF LandsAt, n
      <3>5. PICK T : T = spans' OBVIOUS
      <3>6. NewRoot(spans, n, 0, T)
        <4>1. \A s \in spans : <<s[1] + 0, s[2] + 0>> = s
          <5>1. \A s \in spans : s \in Nat \X Nat BY <1>3 DEF Shaped, Bounded
          <5> QED BY <5>1
        <4> QED BY <4>1, <3>1, <3>5 DEF NewRoot
      <3>7. Shaped(T, n + 1) BY <3>6, <1>3, <1>5, NewRootShaped
      <3>8. n + 1 \in 1..(n + 1) BY <1>3
      <3> QED BY <3>1, <3>2, <3>3, <3>4, <3>5, <3>7, <3>8, <1>3 DEF n
    <2>3. CASE ~request.second
      <3>1. /\ spans' = {<<s[1] + 1, s[2] + 1>> : s \in spans} \cup {<<1, n + 1>>}
            /\ leaves' = <<p>> \o leaves
            /\ active' = 0
        BY <2>1, <2>3 DEF InsertAtTop, n
      <3>2. <<p>> \in Seq(1..b) /\ Len(<<p>>) = 1 /\ <<p>>[1] = p OBVIOUS
      <3>3. /\ leaves' \in Seq(1..b)
            /\ Len(leaves') = 1 + n
            /\ \A i \in 1..(1 + n) : leaves'[i] = IF i <= 1 THEN <<p>>[i] ELSE leaves[i - 1]
        BY <1>2, <3>1, <3>2, ConcatProperties DEF n
      <3>4. With(leaves, 1, p, leaves')
        <4>1. \A j \in 1..(n + 1) :
                leaves'[j] = IF j < 1 THEN leaves[j] ELSE IF j = 1 THEN p ELSE leaves[j - 1]
          BY <3>2, <3>3, <1>3
        <4> QED BY <3>3, <4>1, <1>3 DEF With, n
      <3>5. LandsAt(1) BY <2>3, <1>5 DEF LandsAt, n
      <3>6. PICK T : T = spans' OBVIOUS
      <3>7. NewRoot(spans, n, 1, T) BY <3>1, <3>6 DEF NewRoot
      <3>8. Shaped(T, n + 1) BY <3>7, <1>3, <1>5, NewRootShaped
      <3>9. 1 \in 1..(n + 1) BY <1>3
      <3> QED BY <3>1, <3>3, <3>4, <3>5, <3>6, <3>8, <3>9, <1>3 DEF n
    <2> QED BY <2>2, <2>3
  <1>6. CASE ~(request.top /\ n > 1)
    <2> DEFINE i == Site
    <2>1. InsertAtLeaf(p, i) BY <1>6 DEF Split, n
    <2>2. i \in 1..n /\ leaves[i] = request.target
      <3>1. \E j \in DOMAIN leaves : leaves[j] = request.target
        BY ListedIs DEF Split
      <3> QED BY <3>1, <1>3 DEF Site, Position
    <2> HIDE DEF i
    <2>3. spans' = SpansSplit(i) BY <2>1 DEF InsertAtLeaf
    <2>4. Shaped(spans', n + 1)
      <3>1. PICK T : T = spans' OBVIOUS
      <3>2. LeafSplit(spans, i, T) BY <2>3, <3>1 DEF LeafSplit, SpansSplit
      <3>3. Shaped(T, n + 1) BY <2>2, <3>2, <1>3, LeafSplitShaped
      <3> QED BY <3>1, <3>3
    <2>5. ASSUME NEW k \in 1..(n + 1), leaves' = InsertAt(leaves, k, p)
          PROVE  leaves' \in Seq(1..b) /\ With(leaves, k, p, leaves')
      <3>1. /\ InsertAt(leaves, k, p) \in Seq(1..b)
            /\ Len(InsertAt(leaves, k, p)) = n + 1
            /\ \A j \in 1..(n + 1) :
                 InsertAt(leaves, k, p)[j] =
                   IF j < k THEN leaves[j] ELSE IF j = k THEN p ELSE leaves[j - 1]
        <4>1. k \in 1..(Len(leaves) + 1) BY DEF n
        <4>2. PICK S : S = 1..b OBVIOUS
        <4>3. leaves \in Seq(S) /\ p \in S BY <1>2, <4>2
        <4>4. /\ InsertAt(leaves, k, p) \in Seq(S)
              /\ Len(InsertAt(leaves, k, p)) = Len(leaves) + 1
              /\ \A j \in 1..(Len(leaves) + 1) :
                   InsertAt(leaves, k, p)[j] =
                     IF j < k THEN leaves[j] ELSE IF j = k THEN p ELSE leaves[j - 1]
          BY <4>1, <4>3, InsertAtParts
        <4> QED BY <4>2, <4>4 DEF n
      <3> QED BY <2>5, <3>1 DEF With, n
    <2>6. CASE request.second
      <3>1. leaves' = InsertAt(leaves, i + 1, p) /\ active' = i
        BY <2>1, <2>6 DEF InsertAtLeaf
      <3>2. i + 1 \in 1..(n + 1) /\ i + 1 - 1 = i BY <2>2, <1>3
      <3>3. leaves' \in Seq(1..b) /\ With(leaves, i + 1, p, leaves')
        BY <2>5, <3>1, <3>2
      <3>4. LandsAt(i + 1) BY <1>6, <2>2, <2>6, <3>1, <3>2 DEF LandsAt, n
      <3>5. Len(leaves') = n + 1 /\ active' \in Nat BY <2>2, <3>1, <3>3, <1>3 DEF With, n
      <3> QED BY <2>4, <3>2, <3>3, <3>4, <3>5 DEF n
    <2>7. CASE ~request.second
      <3>1. leaves' = InsertAt(leaves, i, p) /\ active' = active
        BY <2>1, <2>7 DEF InsertAtLeaf
      <3>2. i \in 1..(n + 1) BY <2>2, <1>3
      <3>3. leaves' \in Seq(1..b) /\ With(leaves, i, p, leaves')
        BY <2>5, <3>1, <3>2
      <3>4. LandsAt(i) BY <1>6, <2>2, <2>7 DEF LandsAt, n
      <3>5. Len(leaves') = n + 1 /\ active' \in Nat BY <3>1, <3>3, <1>4 DEF With, n
      <3> QED BY <2>4, <3>2, <3>3, <3>4, <3>5 DEF n
    <2> QED BY <2>6, <2>7
  <1> QED BY <1>5, <1>6

LEMMA FunctionOf ==
  ASSUME NEW D, NEW S, NEW f, f = [x \in D |-> f[x]], \A x \in D : f[x] \in S
  PROVE  f \in [D -> S]
  OBVIOUS

LEMMA SeqOfFunction ==
  ASSUME NEW n \in Nat, NEW S, NEW f \in [1..n -> S]
  PROVE  f \in Seq(S) /\ Len(f) = n
  <1>1. f \in Seq(S) BY SeqDef
  <1> QED BY <1>1, LenProperties

LEMMA RotateShape ==
  ASSUME Typed, NEW clockwise \in BOOLEAN, Rotate(clockwise)
  PROVE  leaves' \in Seq(1..born) /\ Reordered(leaves, leaves')
  <1> DEFINE n == Len(leaves)
             f == [i \in 1..n |-> IF clockwise THEN (IF i = 1 THEN n ELSE i - 1)
                                               ELSE (IF i = n THEN 1 ELSE i + 1)]
             q == [i \in 1..n |-> leaves[f[i]]]
  <1>1. Seats(leaves, born) BY SeatsOf DEF Typed, TypeOK
  <1>2. n \in Nat /\ DOMAIN leaves = 1..n BY <1>1 DEF Seats
  <1>3. leaves' = q BY <1>2 DEF Rotate, Rotated
  <1>4. f \in [1..n -> 1..n] BY <1>2
  <1>5. f \in Bijection(1..n, 1..n)
    <2>1. \A i \in 1..n : clockwise => f[i] = IF i = 1 THEN n ELSE i - 1
      BY Zenon
    <2>2. \A i \in 1..n : ~clockwise => f[i] = IF i = n THEN 1 ELSE i + 1
      BY Zenon
    <2> HIDE DEF f, n
    <2>3. ASSUME NEW i \in 1..n, NEW j \in 1..n, f[i] = f[j] PROVE i = j
      <3>1. CASE clockwise BY <1>2, <2>1, <2>3, <3>1
      <3>2. CASE ~clockwise BY <1>2, <2>2, <2>3, <3>2
      <3> QED BY <3>1, <3>2
    <2>4. ASSUME NEW j \in 1..n PROVE \E i \in 1..n : f[i] = j
      <3>1. CASE clockwise
        <4>1. PICK i : i = IF j = n THEN 1 ELSE j + 1 OBVIOUS
        <4>2. i \in 1..n /\ f[i] = j BY <1>2, <2>1, <3>1, <4>1
        <4> QED BY <4>2
      <3>2. CASE ~clockwise
        <4>1. PICK i : i = IF j = 1 THEN n ELSE j - 1 OBVIOUS
        <4>2. i \in 1..n /\ f[i] = j BY <1>2, <2>2, <3>2, <4>1
        <4> QED BY <4>2
      <3> QED BY <3>1, <3>2
    <2>5. IsInjective(f) BY <1>4, <2>3 DEF IsInjective
    <2> QED BY <1>4, <2>4, <2>5 DEF Bijection, Injection, Surjection
  <1> HIDE DEF f
  <1>6. q \in [1..n -> 1..born] BY <1>1, <1>4 DEF Seats
  <1>7. q \in Seq(1..born) /\ Len(q) = n
    <2> HIDE DEF q, n
    <2> QED BY <1>2, <1>6, SeqOfFunction
  <1> QED BY <1>3, <1>5, <1>7 DEF Reordered

LEMMA SwapShape ==
  ASSUME Typed, NEW i, NEW keepFocus \in BOOLEAN, SwapActiveWithIndex(i, keepFocus)
  PROVE  /\ leaves' \in Seq(1..born)
         /\ Len(leaves') = Len(leaves)
         /\ active' \in Nat
         /\ ~Rezoomed => Reordered(leaves, leaves')
  <1> DEFINE n == Len(leaves)
             a == active + 1
             q == [leaves EXCEPT ![i] = ActivePane, ![a] = leaves[i]]
  <1>1. Seats(leaves, born) BY SeatsOf DEF Typed, TypeOK
  <1>2. n \in Nat /\ DOMAIN leaves = 1..n /\ leaves \in [1..n -> 1..born]
    BY <1>1, LenProperties DEF Seats
  <1>3. active \in Nat /\ a \in Nat \ {0} /\ i \in 1..n
    BY <1>2 DEF Typed, TypeOK, SwapActiveWithIndex
  <1>4. ActivePane \in 1..born
    BY <1>1 DEF SwapActiveWithIndex, ActivePane, LeafAt, Seats, Typed, Spawned
  <1>5. CASE active < n
    <2>1. leaves' = q /\ active' \in {i - 1, active}
      BY <1>5 DEF SwapActiveWithIndex
    <2>2. a \in 1..n BY <1>2, <1>3, <1>5
    <2>3. q \in [1..n -> 1..born]
      <3>1. leaves[i] \in 1..born BY <1>2, <1>3
      <3>2. \A j \in 1..n : q[j] = IF j = a THEN leaves[i] ELSE IF j = i THEN ActivePane ELSE leaves[j]
        BY <1>2, <1>3, <2>2
      <3>3. \A j \in 1..n : leaves[j] \in 1..born BY <1>2
      <3>4. q = [j \in 1..n |-> q[j]] BY <1>2
      <3> HIDE DEF q, a
      <3>5. \A j \in 1..n : q[j] \in 1..born BY <1>4, <3>1, <3>2, <3>3
      <3> QED BY <3>4, <3>5, FunctionOf
    <2>4. q \in Seq(1..born) /\ Len(q) = n
      <3> HIDE DEF q, n
      <3> QED BY <1>2, <2>3, SeqOfFunction
    <2>6. active' \in Nat BY <1>2, <1>3, <2>1
    <2>7. ASSUME ~Rezoomed PROVE Reordered(leaves, q)
      <3> DEFINE f == [j \in 1..n |-> IF j = a THEN i ELSE IF j = i THEN a ELSE j]
      <3>1. ActivePane = leaves[a]
        BY <2>2, <2>7, <1>2 DEF SwapActiveWithIndex, ActivePane, LeafAt
      <3>2. \A j \in 1..n : q[j] = leaves[f[j]]
        BY <1>2, <1>3, <2>2, <3>1
      <3>3. f \in [1..n -> 1..n] BY <1>3, <2>2
      <3>4. f \in Bijection(1..n, 1..n)
        <4>1. IsInjective(f) BY <3>3 DEF IsInjective
        <4>2. \A j \in 1..n : f[f[j]] = j BY <1>3, <2>2
        <4> HIDE DEF f
        <4>3. \A j \in 1..n : \E k \in 1..n : f[k] = j BY <3>3, <4>2
        <4> QED BY <3>3, <4>1, <4>3 DEF Bijection, Injection, Surjection
      <3> HIDE DEF f, q
      <3> QED BY <3>2, <3>4, <2>4 DEF Reordered
    <2> QED BY <2>1, <2>4, <2>6, <2>7
  <1>6. CASE ~(active < n)
    <2> DEFINE r == [leaves EXCEPT ![i] = ActivePane]
    <2>1. leaves' = r /\ active' = active BY <1>6 DEF SwapActiveWithIndex
    <2>2. r \in [1..n -> 1..born]
      <3>1. \A j \in 1..n : r[j] = IF j = i THEN ActivePane ELSE leaves[j]
        BY <1>2, <1>3
      <3>2. \A j \in 1..n : leaves[j] \in 1..born BY <1>2
      <3>3. r = [j \in 1..n |-> r[j]] BY <1>2
      <3> HIDE DEF r
      <3>4. \A j \in 1..n : r[j] \in 1..born BY <1>4, <3>1, <3>2
      <3> QED BY <3>3, <3>4, FunctionOf
    <2>3. r \in Seq(1..born) /\ Len(r) = n
      <3> HIDE DEF r, n
      <3> QED BY <1>2, <2>2, SeqOfFunction
    <2>5. Rezoomed
      <3>1. active + 1 \notin 1..n BY <1>2, <1>3, <1>6
      <3> QED BY <3>1, <1>2, RezoomedAssumption DEF SwapActiveWithIndex, ActivePane, LeafAt
    <2> QED BY <2>1, <2>3, <2>5, <1>3
  <1> QED BY <1>5, <1>6

-----------------------------------------------------------------------------
(* Types and the shape of the tree, whatever Rezoomed is.                  *)

WalkType(b) ==
  [busy : BOOLEAN, prune : BOOLEAN, asked : SUBSET (1..b), kill : BOOLEAN,
   at : Nat \ {0}, index : Nat, removed : SUBSET Nat, taken : SUBSET (1..b),
   focus : Pane \cup {NoPane}]

RequestType ==
  [phase : {"none", "spawning", "moving"}, target : Pane \cup {NoPane},
   second : BOOLEAN, top : BOOLEAN, moved : Pane \cup {NoPane}]

LEMMA IdleTyped == \A b : Idle \in WalkType(b) /\ NoRequest \in RequestType
  BY DEF Idle, NoRequest, WalkType, RequestType

LEMMA BornIsPane == TypeOK => /\ born \in Nat /\ 1 <= born /\ born <= MaxPanes
                              /\ 1..born \subseteq Pane
  BY PanesAssumption DEF TypeOK, Pane

LEMMA LeafAtTyped == TypeOK => LeafAt(active) \in (1..born) \cup {NoPane}
  <1> SUFFICES ASSUME TypeOK PROVE LeafAt(active) \in (1..born) \cup {NoPane} OBVIOUS
  <1>1. Seats(leaves, born) BY SeatsOf DEF TypeOK
  <1> QED BY <1>1 DEF LeafAt, Seats

LEMMA WalkTyped ==
  ASSUME TypeOK, NEW prune \in BOOLEAN, NEW asked \in SUBSET (1..born), NEW kill \in BOOLEAN
  PROVE  Walk(prune, asked, kill) \in WalkType(born)
  <1>1. LeafAt(active) \in Pane \cup {NoPane} BY LeafAtTyped, BornIsPane
  <1>2. PICK i \in WalkType(born) : i = Idle BY IdleTyped
  <1>3. [i EXCEPT !.busy = TRUE, !.prune = prune, !.asked = asked, !.kill = kill,
                  !.focus = LeafAt(active)] \in WalkType(born)
    BY <1>1 DEF WalkType
  <1> QED BY <1>2, <1>3 DEF Walk

LEMMA TakenTyped ==
  ASSUME TypeOK, NEW q \in 1..born, NEW next \in Nat \ {0}
  PROVE  /\ Taken(q, next) \in WalkType(born)
         /\ Taken(q, next).busy = walk.busy
         /\ Taken(q, next).prune = walk.prune
         /\ Taken(q, next).kill = walk.kill
         /\ Taken(q, next).asked = walk.asked
         /\ Taken(q, next).focus = walk.focus
         /\ Taken(q, next).at = next
         /\ Taken(q, next).removed = walk.removed \cup {walk.index}
         /\ Taken(q, next).taken = walk.taken \cup {q}
  <1>1. walk \in WalkType(born) BY DEF TypeOK, WalkType
  <1>2. /\ walk.index + 1 \in Nat
        /\ walk.removed \cup {walk.index} \in SUBSET Nat
        /\ walk.taken \cup {q} \in SUBSET (1..born)
    BY <1>1 DEF WalkType
  <1>3. PICK r \in SUBSET Nat : r = walk.removed \cup {walk.index} BY <1>2
  <1>4. PICK t \in SUBSET (1..born) : t = walk.taken \cup {q} BY <1>2
  <1>5. PICK u \in WalkType(born) : u = [walk EXCEPT !.at = next]
    BY <1>1 DEF WalkType
  <1>6. PICK v \in WalkType(born) : v = [u EXCEPT !.removed = r]
    BY DEF WalkType
  <1>7. PICK x \in WalkType(born) : x = [v EXCEPT !.index = walk.index + 1]
    BY <1>2 DEF WalkType
  <1>8. [x EXCEPT !.taken = t] \in WalkType(born)
    BY DEF WalkType
  <1>9. Taken(q, next) = [x EXCEPT !.taken = t]
    BY <1>3, <1>4, <1>5, <1>6, <1>7 DEF Taken
  <1>10. /\ Taken(q, next).busy = walk.busy /\ Taken(q, next).prune = walk.prune
         /\ Taken(q, next).kill = walk.kill
    BY <1>1 DEF Taken, WalkType
  <1>11. /\ Taken(q, next).asked = walk.asked /\ Taken(q, next).focus = walk.focus
         /\ Taken(q, next).at = next
    BY <1>1 DEF Taken, WalkType
  <1>12. /\ Taken(q, next).removed = walk.removed \cup {walk.index}
         /\ Taken(q, next).taken = walk.taken \cup {q}
    BY <1>1 DEF Taken, WalkType
  <1> QED BY <1>8, <1>9, <1>10, <1>11, <1>12

\* A pane of the tree has a place in it
LEMMA PositionIs ==
  TypeOK => \A p \in Listed : /\ Position(p) \in 1..Len(leaves)
                              /\ leaves[Position(p)] = p
                              /\ p \in 1..born
  <1> SUFFICES ASSUME TypeOK, NEW p \in Listed
               PROVE  /\ Position(p) \in 1..Len(leaves)
                      /\ leaves[Position(p)] = p
                      /\ p \in 1..born
    OBVIOUS
  <1>1. Seats(leaves, born) BY SeatsOf DEF TypeOK
  <1>2. \E i \in DOMAIN leaves : leaves[i] = p BY ListedIs
  <1> QED BY <1>1, <1>2 DEF Position, Seats

LEMMA ShiftedDownTyped == TypeOK => ShiftedDown \in Nat
  <1> SUFFICES ASSUME TypeOK PROVE ShiftedDown \in Nat OBVIOUS
  <1> DEFINE S == {i \in walk.removed : i <= active}
  <1>1. S \in SUBSET Nat /\ active \in Nat /\ \A i \in S : i <= active
    BY DEF TypeOK
  <1>2. IsFiniteSet(S) BY <1>1, FS_BoundedSetOfNaturals
  <1>3. Cardinality(S) \in Nat BY <1>2, FS_CardinalityType
  <1> QED BY <1>1, <1>3 DEF ShiftedDown

LEMMA InitTyped == Init => Typed
  <1> SUFFICES ASSUME Init PROVE Typed OBVIOUS
  <1>1. born \in Pane BY PanesAssumption DEF Init, Pane
  <1>2. leaves \in Seq(1..born) /\ Len(leaves) = 1 BY DEF Init
  <1>3. walk \in WalkType(born) /\ request \in RequestType BY IdleTyped DEF Init
  <1>4. TypeOK BY <1>1, <1>2, <1>3 DEF Init, TypeOK, WalkType, RequestType
  <1>5. Spawned BY DEF Init, Spawned, Idle, NoRequest
  <1>6. Shaped({}, 1)
    BY FS_EmptySet DEF Shaped, Bounded, Nested, Branching, Counted
  <1> QED BY <1>2, <1>4, <1>5, <1>6 DEF Typed, Init

\* A step that leaves the tree and the panes spawned alone
LEMMA CalmTyped ==
  ASSUME Typed, UNCHANGED <<tree, born>>,
         active' \in Nat,
         zoomed' \in (1..born) \cup {NoPane},
         gone' \in SUBSET (1..born), toRemove' \in SUBSET (1..born), pruneDue' \in BOOLEAN,
         walk' \in WalkType(born),
         walk'.busy /\ walk'.prune => walk'.kill,
         request' \in RequestType,
         request'.phase = "spawning" => born < MaxPanes,
         request'.phase = "moving" => request'.moved \in 1..born
  PROVE  Typed'
  <1>1. leaves' = leaves /\ spans' = spans /\ born' = born BY DEF tree
  <1>2. zoomed' \in Pane \cup {NoPane} BY BornIsPane DEF Typed
  <1>3. TypeOK' BY <1>1, <1>2 DEF Typed, TypeOK, WalkType, RequestType
  <1>4. Spawned' BY <1>1 DEF Spawned
  <1>5. Shaped(spans', Len(leaves')) BY <1>1 DEF Typed
  <1> QED BY <1>3, <1>4, <1>5 DEF Typed

\* What is typed, in the form in which steps need it
LEMMA TypedParts ==
  Typed => /\ active \in Nat
           /\ zoomed \in (1..born) \cup {NoPane}
           /\ gone \in SUBSET (1..born) /\ toRemove \in SUBSET (1..born)
           /\ pruneDue \in BOOLEAN
           /\ walk \in WalkType(born)
           /\ walk.busy /\ walk.prune => walk.kill
           /\ request \in RequestType
           /\ request.phase = "spawning" => born < MaxPanes
           /\ request.phase = "moving" => request.moved \in 1..born
           /\ born \in Nat /\ 1 <= born /\ born <= MaxPanes
  BY BornIsPane DEF Typed, TypeOK, Spawned, WalkType, RequestType

LEMMA RemovingTyped ==
  ASSUME Typed, NEW p \in Pane,
         \/ Keep \/ EndWalk \/ PruneDeadPanes
         \/ KillPane(p) \/ MovePaneOut(p) \/ RemovePane(p) \/ DomainWasDetached
  PROVE  Typed'
  <1>1. TypeOK BY DEF Typed
  <1> USE TypedParts
  <1>2. ASSUME NEW prune \in BOOLEAN, NEW asked \in SUBSET (1..born), NEW kill \in BOOLEAN,
               prune => kill, walk' = Walk(prune, asked, kill)
        PROVE  walk' \in WalkType(born) /\ (walk'.busy /\ walk'.prune => walk'.kill)
    <2>1. walk' \in WalkType(born) BY <1>1, <1>2, WalkTyped
    <2>2. walk'.prune = prune /\ walk'.kill = kill BY <1>2 DEF Walk, Idle
    <2> QED BY <1>2, <2>1, <2>2
  <1>3. CASE Keep
    <2>1. walk' \in WalkType(born)
      <3>1. walk.at + 1 \in Nat \ {0} /\ walk.index + 1 \in Nat BY DEF WalkType
      <3>2. PICK w \in WalkType(born) : w = [walk EXCEPT !.at = walk.at + 1]
        BY <3>1 DEF WalkType
      <3>3. [w EXCEPT !.index = walk.index + 1] \in WalkType(born)
        BY <3>1 DEF WalkType
      <3> QED BY <1>3, <3>2, <3>3 DEF Keep
    <2>2. walk'.busy = walk.busy /\ walk'.prune = walk.prune /\ walk'.kill = walk.kill
      BY <1>3 DEF Keep, WalkType
    <2> QED BY <1>3, <2>1, <2>2, CalmTyped DEF Keep, panes, tree
  <1>4. CASE EndWalk
    <2>1. active' \in Nat BY <1>1, <1>4, ShiftedDownTyped DEF EndWalk
    <2>2. toRemove' \in SUBSET (1..born) BY <1>4 DEF EndWalk, ToKill, WalkType
    <2>3. walk' \in WalkType(born) /\ ~walk'.busy BY <1>4, IdleTyped DEF EndWalk, Idle
    <2> QED BY <1>4, <2>1, <2>2, <2>3, CalmTyped DEF EndWalk, panes, tree
  <1>5. CASE PruneDeadPanes
    <2>1. walk' = Walk(TRUE, {}, TRUE) BY <1>5 DEF PruneDeadPanes, Begin, PruneWalk
    <2>2. walk' \in WalkType(born) /\ (walk'.busy /\ walk'.prune => walk'.kill) BY <1>2, <2>1
    <2> QED BY <1>5, <2>2, CalmTyped DEF PruneDeadPanes, panes, tree
  <1>6. CASE KillPane(p)
    <2>1. {p} \in SUBSET (1..born) BY <1>1, <1>6, PositionIs DEF KillPane
    <2>2. walk' = Walk(FALSE, {p}, TRUE) BY <1>6 DEF KillPane, Begin
    <2>3. walk' \in WalkType(born) /\ (walk'.busy /\ walk'.prune => walk'.kill)
      BY <1>2, <2>1, <2>2
    <2> QED BY <1>6, <2>3, CalmTyped DEF KillPane, panes, tree
  <1>7. CASE MovePaneOut(p)
    <2>1. {p} \in SUBSET (1..born) BY <1>1, <1>7, PositionIs DEF MovePaneOut
    <2>2. walk' = Walk(FALSE, {p}, FALSE) BY <1>7 DEF MovePaneOut, Begin
    <2>3. walk' \in WalkType(born) /\ (walk'.busy /\ walk'.prune => walk'.kill)
      BY <1>2, <2>1, <2>2
    <2> QED BY <1>7, <2>3, CalmTyped DEF MovePaneOut, panes, tree
  <1>8. CASE RemovePane(p)
    <2>1. walk' = Walk(TRUE, {}, TRUE) BY <1>8 DEF RemovePane, Begin, PruneWalk
    <2>2. walk' \in WalkType(born) /\ (walk'.busy /\ walk'.prune => walk'.kill) BY <1>2, <2>1
    <2>3. gone' \in SUBSET (1..born) /\ toRemove' \in SUBSET (1..born)
      BY <1>8 DEF RemovePane
    <2> QED BY <1>8, <2>2, <2>3, CalmTyped DEF RemovePane, tree
  <1>9. CASE DomainWasDetached
    <2>1. Remote \cap 1..born \in SUBSET (1..born) OBVIOUS
    <2>2. walk' = Walk(FALSE, Remote \cap 1..born, TRUE) BY <1>9 DEF DomainWasDetached, Begin
    <2>3. walk' \in WalkType(born) /\ (walk'.busy /\ walk'.prune => walk'.kill)
      BY <1>2, <2>1, <2>2
    <2>4. gone' \in SUBSET (1..born) /\ pruneDue' \in BOOLEAN
      BY <1>9, <2>1 DEF DomainWasDetached
    <2> QED BY <1>9, <2>3, <2>4, CalmTyped DEF DomainWasDetached, tree
  <1> QED BY <1>3, <1>4, <1>5, <1>6, <1>7, <1>8, <1>9

LEMMA AskingTyped ==
  ASSUME Typed, NEW p \in Pane, NEW target \in Pane, NEW second \in BOOLEAN, NEW top \in BOOLEAN,
         \/ AskSplit(target, second, top) \/ AskMove(target, second, top, p)
         \/ SpawnFails \/ Die(p)
  PROVE  Typed'
  <1>1. TypeOK BY DEF Typed
  <1> USE TypedParts
  <1>2. CASE AskSplit(target, second, top)
    <2>1. request' = [phase |-> "spawning", target |-> target, second |-> second,
                      top |-> top, moved |-> NoPane]
      BY <1>2 DEF AskSplit, Ask
    <2>2. request' \in RequestType /\ request'.phase = "spawning" BY <2>1 DEF RequestType
    <2>3. zoomed' \in (1..born) \cup {NoPane} BY <1>2 DEF AskSplit, Ask
    <2> QED BY <1>2, <2>2, <2>3, CalmTyped DEF AskSplit, panes
  <1>3. CASE AskMove(target, second, top, p)
    <2>1. p \in 1..born BY <1>1, <1>3, PositionIs DEF AskMove
    <2>2. request' = [phase |-> "moving", target |-> target, second |-> second,
                      top |-> top, moved |-> p]
      BY <1>3 DEF AskMove, Ask
    <2>3. request' \in RequestType /\ request'.phase = "moving" /\ request'.moved = p
      BY <2>2 DEF RequestType
    <2>4. zoomed' \in (1..born) \cup {NoPane} BY <1>3 DEF AskMove, Ask
    <2>5. walk' = Walk(FALSE, {p}, FALSE) /\ {p} \in SUBSET (1..born)
      BY <1>3, <2>1 DEF AskMove
    <2>6. walk' \in WalkType(born) BY <1>1, <2>5, WalkTyped
    <2>7. ~walk'.prune BY <2>5 DEF Walk, Idle
    <2> QED BY <1>3, <2>1, <2>3, <2>4, <2>6, <2>7, CalmTyped DEF AskMove, panes
  <1>4. CASE SpawnFails
    <2>1. request' \in RequestType /\ request'.phase = "none"
      BY <1>4, IdleTyped DEF SpawnFails, NoRequest
    <2> QED BY <1>4, <2>1, CalmTyped DEF SpawnFails, panes
  <1>5. CASE Die(p)
    <2>1. p \in 1..born BY <1>1, <1>5, PositionIs DEF Die
    <2>2. gone' \in SUBSET (1..born) BY <1>5, <2>1 DEF Die
    <2>3. toRemove' \in SUBSET (1..born) /\ pruneDue' \in BOOLEAN BY <1>5, <2>1 DEF Die
    <2> QED BY <1>5, <2>2, <2>3, CalmTyped DEF Die
  <1> QED BY <1>2, <1>3, <1>4, <1>5

LEMMA FocusingTyped ==
  ASSUME Typed, NEW p \in Pane, NEW i \in Pane, NEW unzoom \in BOOLEAN,
         \/ ToggleZoom \/ SetActivePane(p, unzoom) \/ SetPaneZoomed(p)
         \/ SetActiveIdx(i) \/ ActivatePaneDirection(i, unzoom)
  PROVE  Typed'
  <1>1. TypeOK BY DEF Typed
  <1> USE TypedParts
  <1>2. i - 1 \in Nat BY DEF Pane
  <1>3. CASE ToggleZoom
    <2>1. zoomed' \in (1..born) \cup {NoPane} BY <1>1, <1>3, LeafAtTyped DEF ToggleZoom
    <2> QED BY <1>3, <2>1, CalmTyped DEF ToggleZoom, panes
  <1>4. CASE SetActivePane(p, unzoom)
    <2>1. Position(p) \in Nat \ {0} BY <1>1, <1>4, PositionIs DEF SetActivePane
    <2>2. active' \in Nat /\ zoomed' \in (1..born) \cup {NoPane}
      BY <1>4, <2>1 DEF SetActivePane
    <2> QED BY <1>4, <2>2, CalmTyped DEF SetActivePane, panes
  <1>5. CASE SetPaneZoomed(p)
    <2>1. Position(p) \in Nat \ {0} /\ p \in 1..born
      BY <1>1, <1>5, PositionIs DEF SetPaneZoomed
    <2>2. active' \in Nat /\ zoomed' \in (1..born) \cup {NoPane}
      BY <1>5, <2>1 DEF SetPaneZoomed
    <2> QED BY <1>5, <2>2, CalmTyped DEF SetPaneZoomed, panes
  <1>6. CASE SetActiveIdx(i)
    BY <1>2, <1>6, CalmTyped DEF SetActiveIdx, panes
  <1>7. CASE ActivatePaneDirection(i, unzoom)
    <2>1. active' \in Nat /\ zoomed' \in (1..born) \cup {NoPane}
      BY <1>2, <1>7 DEF ActivatePaneDirection
    <2> QED BY <1>7, <2>1, CalmTyped DEF ActivatePaneDirection, panes
  <1> QED BY <1>3, <1>4, <1>5, <1>6, <1>7

\* A step that changes the tree and leaves it a tree
LEMMA TreeTyped ==
  ASSUME Typed, NEW b \in Pane, born <= b, born' = b,
         leaves' \in Seq(1..b), Shaped(spans', Len(leaves')),
         active' \in Nat,
         zoomed' \in (1..born) \cup {NoPane},
         gone' = gone, toRemove' = toRemove, pruneDue' = pruneDue,
         walk' \in WalkType(born),
         walk'.busy /\ walk'.prune => walk'.kill,
         request' = NoRequest \/ (request' = request /\ b = born)
  PROVE  Typed'
  <1> USE TypedParts
  <1>1. 1..born \subseteq 1..b /\ b \in Nat BY DEF Pane
  <1>2. walk' \in WalkType(b) BY <1>1 DEF WalkType
  <1>3. request' \in RequestType BY IdleTyped
  <1>4. spans' \subseteq Nat \X Nat
    <2>1. \A s \in spans' : s \in Nat \X Nat BY DEF Shaped, Bounded
    <2> QED BY <2>1
  <1>5. zoomed' \in Pane \cup {NoPane} BY PanesAssumption DEF Pane
  <1>6. TypeOK' BY <1>1, <1>2, <1>3, <1>4, <1>5 DEF TypeOK, WalkType, RequestType
  <1>7. request' = NoRequest => request'.phase = "none" BY DEF NoRequest
  <1>8. Spawned' BY <1>1, <1>7 DEF Spawned
  <1> QED BY <1>6, <1>8 DEF Typed

LEMMA ReshapingTyped ==
  ASSUME Typed, NEW clockwise \in BOOLEAN, NEW i \in Pane, NEW keepFocus \in BOOLEAN,
         \/ Take \/ PaneSpawned \/ InsertMoved \/ Rotate(clockwise)
         \/ SwapActiveWithIndex(i, keepFocus)
  PROVE  Typed'
  <1> USE TypedParts
  <1>1. born \in Pane BY DEF Pane
  <1>2. CASE Take
    <2>1. /\ leaves' \in Seq(1..born)
          /\ walk.at \in 1..Len(leaves)
          /\ Shaped(spans', Len(leaves'))
      BY <1>2, TakeShape
    <2>2. PICK next \in Nat \ {0} : walk' = Taken(leaves[walk.at], next)
      BY <1>2, TakeShape
    <2>3. leaves[walk.at] \in 1..born
      <3>1. Seats(leaves, born) BY SeatsOf DEF Typed, TypeOK
      <3> QED BY <2>1, <3>1 DEF Seats
    <2>4. walk' \in WalkType(born) /\ (walk'.busy /\ walk'.prune => walk'.kill)
      BY <2>2, <2>3, TakenTyped DEF Typed
    <2>5. zoomed' \in (1..born) \cup {NoPane} BY <1>2 DEF Take, Unzoomed
    <2> QED BY <1>1, <1>2, <2>1, <2>4, <2>5, TreeTyped DEF Take, panes
  <1>3. CASE PaneSpawned
    <2>1. born + 1 \in Pane
      <3>1. request.phase = "spawning" BY <1>3 DEF PaneSpawned
      <3>2. born < MaxPanes BY <3>1
      <3>3. born \in Nat /\ MaxPanes \in Nat BY PanesAssumption
      <3> QED BY <3>2, <3>3 DEF Pane
    <2>2. PICK b \in Pane : b = born + 1 BY <2>1
    <2>3. CASE Split(born + 1)
      <3>1. b \in Nat /\ born <= b /\ b \in 1..b /\ Split(b) BY <2>2, <2>3
      <3>2. /\ leaves' \in Seq(1..b)
            /\ Shaped(spans', Len(leaves'))
            /\ active' \in Nat
        BY <3>1, SplitShape
      <3> QED BY <1>3, <2>2, <3>1, <3>2, TreeTyped DEF PaneSpawned
    <2>4. CASE NoSplit
      <3>1. leaves' = leaves /\ spans' = spans /\ active' = active BY <2>4 DEF NoSplit, tree
      <3>2. leaves' \in Seq(1..b)
        <4>1. 1..born \subseteq 1..b BY <2>2
        <4>2. leaves \in Seq(1..born) BY DEF Typed, TypeOK
        <4> QED BY <3>1, <4>1, <4>2, SeqMonotonic
      <3>3. Shaped(spans', Len(leaves')) BY <3>1 DEF Typed
      <3> QED BY <1>3, <2>2, <3>1, <3>2, <3>3, TreeTyped DEF PaneSpawned
    <2> QED BY <1>3, <2>3, <2>4 DEF PaneSpawned
  <1>4. CASE InsertMoved
    <2>1. CASE Split(request.moved)
      <3>1. request.moved \in 1..born BY <1>4 DEF InsertMoved
      <3>2. /\ leaves' \in Seq(1..born)
            /\ Shaped(spans', Len(leaves'))
            /\ active' \in Nat
        BY <2>1, <3>1, SplitShape
      <3> QED BY <1>1, <1>4, <3>2, TreeTyped DEF InsertMoved, panes
    <2>2. CASE NoSplit
      <3>1. leaves' = leaves /\ spans' = spans /\ active' = active BY <2>2 DEF NoSplit, tree
      <3>2. leaves' \in Seq(1..born) BY <3>1 DEF Typed, TypeOK
      <3>3. Shaped(spans', Len(leaves')) BY <3>1 DEF Typed
      <3> QED BY <1>1, <1>4, <3>1, <3>2, <3>3, TreeTyped DEF InsertMoved, panes
    <2> QED BY <1>4, <2>1, <2>2 DEF InsertMoved
  <1>5. CASE Rotate(clockwise)
    <2>1. leaves' \in Seq(1..born) /\ Len(leaves') = Len(leaves)
      BY <1>5, RotateShape DEF Reordered
    <2>2. spans' = spans /\ active' = active BY <1>5 DEF Rotate
    <2>3. Shaped(spans', Len(leaves')) BY <2>1, <2>2 DEF Typed
    <2> QED BY <1>1, <1>5, <2>1, <2>2, <2>3, TreeTyped DEF Rotate, panes
  <1>6. CASE SwapActiveWithIndex(i, keepFocus)
    <2>1. leaves' \in Seq(1..born) /\ Len(leaves') = Len(leaves) /\ active' \in Nat
      BY <1>6, SwapShape
    <2>2. spans' = spans BY <1>6 DEF SwapActiveWithIndex
    <2>3. Shaped(spans', Len(leaves')) BY <2>1, <2>2 DEF Typed
    <2> QED BY <1>1, <1>6, <2>1, <2>2, <2>3, TreeTyped DEF SwapActiveWithIndex, panes
  <1> QED BY <1>2, <1>3, <1>4, <1>5, <1>6

LEMMA NextTyped == Typed /\ [Next]_vars => Typed'
  <1> SUFFICES ASSUME Typed, [Next]_vars PROVE Typed' OBVIOUS
  <1>1. 1 \in Pane /\ TRUE \in BOOLEAN BY PanesAssumption DEF Pane
  <1>2. CASE Removing BY <1>1, <1>2, RemovingTyped, ReshapingTyped DEF Removing
  <1>3. CASE Splitting BY <1>1, <1>3, AskingTyped, ReshapingTyped DEF Splitting
  <1>4. CASE Focusing BY <1>1, <1>4, FocusingTyped, ReshapingTyped DEF Focusing
  <1>5. CASE \E p \in Pane : Die(p) BY <1>1, <1>5, AskingTyped
  <1>6. CASE UNCHANGED vars
    BY <1>6 DEF vars, tree, panes, Typed, TypeOK, Spawned
  <1> QED BY <1>2, <1>3, <1>4, <1>5, <1>6 DEF Next

LEMMA TypedAlways == Spec => []Typed
  BY InitTyped, NextTyped, PTL DEF Spec

\* TypeOK: whatever is split, closed, zoomed, rotated and swapped, and whenever
\* panes die, the variables keep their types.
THEOREM PaneTreeTyped == Spec => []TypeOK
  <1>1. Typed => TypeOK BY DEF Typed
  <1> QED BY <1>1, TypedAlways, PTL

-----------------------------------------------------------------------------
(* Which panes stand in the tree, if it is not zoomed while panes are swapped. *)

Distinct(q) == \A i, j \in DOMAIN q : q[i] = q[j] => i = j

LEMMA WithoutMembers ==
  ASSUME NEW b, NEW p, Seats(p, b), NEW q, Seats(q, b), Distinct(p),
         NEW i \in 1..Len(p), Without(p, i, q)
  PROVE  /\ Distinct(q)
         /\ ~Member(q, p[i])
         /\ \A x : Member(q, x) => Member(p, x)
         /\ \A x : Member(p, x) /\ x # p[i] => Member(q, x)
  <1> DEFINE old(j) == IF j < i THEN j ELSE j + 1
  <1>1. /\ Len(p) \in Nat /\ DOMAIN p = 1..Len(p)
        /\ DOMAIN q = 1..(Len(p) - 1)
    BY DEF Seats, Without
  <1>2. ASSUME NEW j \in DOMAIN q
        PROVE  old(j) \in DOMAIN p /\ q[j] = p[old(j)] /\ old(j) # i
    BY <1>1 DEF Without
  <1>3. \A j, k \in DOMAIN q : old(j) = old(k) => j = k
    BY <1>1
  <1> HIDE DEF old
  <1>4. Distinct(q) BY <1>2, <1>3 DEF Distinct
  <1>5. ~Member(q, p[i]) BY <1>1, <1>2 DEF Member, Distinct
  <1>6. \A x : Member(q, x) => Member(p, x) BY <1>2 DEF Member
  <1>7. ASSUME NEW x, Member(p, x), x # p[i] PROVE Member(q, x)
    <2>1. PICK k \in DOMAIN p : p[k] = x BY <1>7 DEF Member
    <2>2. CASE k < i
      <3>1. k \in DOMAIN q /\ q[k] = x BY <1>1, <2>1, <2>2 DEF Without
      <3> QED BY <3>1 DEF Member
    <2>3. CASE k > i
      <3>1. k - 1 \in 1..(Len(p) - 1) /\ ~(k - 1 < i) /\ k - 1 + 1 = k
        BY <1>1, <2>3
      <3>2. q[k - 1] = p[k] BY <3>1 DEF Without
      <3>3. k - 1 \in DOMAIN q BY <1>1, <3>1
      <3> QED BY <2>1, <3>2, <3>3 DEF Member
    <2> QED BY <2>1, <2>2, <2>3, <1>1, <1>7
  <1> QED BY <1>4, <1>5, <1>6, <1>7

LEMMA WithMembers ==
  ASSUME NEW a, NEW p, Seats(p, a), NEW b, NEW q, Seats(q, b), Distinct(p),
         NEW e, ~Member(p, e), NEW k \in 1..(Len(p) + 1), With(p, k, e, q)
  PROVE  /\ Distinct(q)
         /\ k \in DOMAIN q /\ q[k] = e
         /\ \A x : Member(q, x) => x = e \/ Member(p, x)
         /\ \A x : x = e \/ Member(p, x) => Member(q, x)
  <1> DEFINE old(j) == IF j < k THEN j ELSE j - 1
  <1>1. /\ Len(p) \in Nat /\ DOMAIN p = 1..Len(p)
        /\ DOMAIN q = 1..(Len(p) + 1)
    BY DEF Seats, With
  <1>2. ASSUME NEW j \in DOMAIN q, j # k
        PROVE  old(j) \in DOMAIN p /\ q[j] = p[old(j)]
    BY <1>1, <1>2 DEF With
  <1>3. k \in DOMAIN q /\ q[k] = e BY <1>1 DEF With
  <1>4. \A i, j \in DOMAIN q : i # k /\ j # k /\ old(i) = old(j) => i = j
    BY <1>1
  <1> HIDE DEF old
  <1>5. \A j \in DOMAIN q : j # k => q[j] # e BY <1>2 DEF Member
  <1>6. Distinct(q)
    <2> SUFFICES ASSUME NEW i \in DOMAIN q, NEW j \in DOMAIN q, q[i] = q[j] PROVE i = j
      BY DEF Distinct
    <2>1. CASE i = k \/ j = k BY <2>1, <1>3, <1>5
    <2>2. CASE i # k /\ j # k BY <2>2, <1>2, <1>4 DEF Distinct
    <2> QED BY <2>1, <2>2
  <1>7. \A x : Member(q, x) => x = e \/ Member(p, x) BY <1>2, <1>3 DEF Member
  <1>8. ASSUME NEW x, Member(p, x) PROVE Member(q, x)
    <2>1. PICK j \in DOMAIN p : p[j] = x BY <1>8 DEF Member
    <2>2. CASE j < k
      <3>1. j \in DOMAIN q /\ q[j] = x BY <1>1, <2>1, <2>2 DEF With
      <3> QED BY <3>1 DEF Member
    <2>3. CASE j >= k
      <3>1. j + 1 \in 1..(Len(p) + 1) /\ ~(j + 1 < k) /\ j + 1 # k /\ j + 1 - 1 = j
        BY <1>1, <2>3
      <3>2. q[j + 1] = p[j] BY <3>1 DEF With
      <3>3. j + 1 \in DOMAIN q BY <1>1, <3>1
      <3> QED BY <2>1, <3>2, <3>3 DEF Member
    <2> QED BY <2>1, <2>2, <2>3, <1>1
  <1>9. Member(q, e) BY <1>3 DEF Member
  <1> QED BY <1>3, <1>6, <1>7, <1>8, <1>9

LEMMA ReorderedMembers ==
  ASSUME NEW b, NEW p, Seats(p, b), NEW q, Seats(q, b), Distinct(p), Reordered(p, q)
  PROVE  /\ Distinct(q)
         /\ \A x : Member(q, x) <=> Member(p, x)
  <1>1. Len(q) = Len(p) /\ DOMAIN p = 1..Len(p) /\ DOMAIN q = 1..Len(p)
    BY DEF Seats, Reordered
  <1>2. PICK f \in Bijection(1..Len(p), 1..Len(p)) : \A i \in 1..Len(p) : q[i] = p[f[i]]
    BY DEF Reordered
  <1>3. /\ f \in [1..Len(p) -> 1..Len(p)]
        /\ \A i, j \in 1..Len(p) : f[i] = f[j] => i = j
        /\ \A j \in 1..Len(p) : \E i \in 1..Len(p) : f[i] = j
    <2>1. f \in [1..Len(p) -> 1..Len(p)] /\ IsInjective(f) /\ f \in Surjection(1..Len(p), 1..Len(p))
      BY <1>2 DEF Bijection, Injection
    <2>2. DOMAIN f = 1..Len(p) BY <2>1
    <2>3. \A i, j \in 1..Len(p) : f[i] = f[j] => i = j BY <2>1, <2>2 DEF IsInjective
    <2>4. \A j \in 1..Len(p) : \E i \in 1..Len(p) : f[i] = j BY <2>1 DEF Surjection
    <2> QED BY <2>1, <2>3, <2>4
  <1>4. ASSUME NEW i \in 1..Len(p), NEW j \in 1..Len(p), q[i] = q[j] PROVE i = j
    <2>1. f[i] \in 1..Len(p) /\ f[j] \in 1..Len(p) /\ p[f[i]] = p[f[j]] BY <1>2, <1>3, <1>4
    <2>2. f[i] = f[j] BY <1>1, <2>1 DEF Distinct
    <2> QED BY <1>3, <2>2
  <1>5. \A x : Member(q, x) => Member(p, x) BY <1>1, <1>2, <1>3 DEF Member
  <1>6. ASSUME NEW x, Member(p, x) PROVE Member(q, x)
    <2>1. PICK j \in 1..Len(p) : p[j] = x BY <1>1, <1>6 DEF Member
    <2>2. PICK i \in 1..Len(p) : f[i] = j BY <1>3
    <2>3. q[i] = x BY <1>2, <2>1, <2>2
    <2> QED BY <1>1, <2>3 DEF Member
  <1>7. Distinct(q) BY <1>1, <1>4 DEF Distinct
  <1> QED BY <1>5, <1>6, <1>7

\* The panes and their leaves: see the head of the module
Standing == NoPaneTwice /\ MovedOut /\ ZoomedListed

LEMMA ListedMember == \A p : p \in Listed <=> Member(leaves, p)
  BY ListedIs DEF Member

\* Standing, of the new leaves as of the old, in terms of their members
LEMMA StandingParts ==
  Standing <=> /\ Distinct(leaves)
               /\ zoomed # NoPane => Member(leaves, zoomed)
               /\ MovedOut
  BY ListedMember DEF Standing, NoPaneTwice, Distinct, ZoomedListed

LEMMA MovedOutParts ==
  MovedOut <=>
    (request.phase = "moving" =>
       /\ walk.busy =>
            /\ ~walk.prune
            /\ walk.asked = {request.moved}
            /\ \A i \in DOMAIN leaves : leaves[i] = request.moved => walk.at <= i
       /\ ~walk.busy => ~Member(leaves, request.moved))
  BY ListedMember DEF MovedOut

\* A step that leaves the tree alone and moves no pane, or only walks on
LEMMA CalmStanding ==
  ASSUME Standing, UNCHANGED leaves,
         zoomed' = NoPane \/ zoomed' = zoomed \/ zoomed' \in Listed,
         MovedOut'
  PROVE  Standing'
  <1>1. Distinct(leaves) /\ (zoomed # NoPane => Member(leaves, zoomed))
    BY StandingParts
  <1>2. Distinct(leaves') /\ (zoomed' # NoPane => Member(leaves', zoomed'))
    BY <1>1, ListedMember
  <1>3. (Standing <=> /\ Distinct(leaves)
                      /\ zoomed # NoPane => Member(leaves, zoomed)
                      /\ MovedOut)'
    BY StandingParts, PTL
  <1> QED BY <1>2, <1>3

\* A step that moves no pane
LEMMA NotMoving ==
  ASSUME request'.phase # "moving" PROVE MovedOut'
  BY DEF MovedOut

\* A step on another matter while a pane moves, or does not
LEMMA StillMoving ==
  ASSUME MovedOut, UNCHANGED <<leaves, walk, request>> PROVE MovedOut'
  <1>1. (MovedOut <=>
           (request.phase = "moving" =>
              /\ walk.busy =>
                   /\ ~walk.prune
                   /\ walk.asked = {request.moved}
                   /\ \A i \in DOMAIN leaves : leaves[i] = request.moved => walk.at <= i
              /\ ~walk.busy => ~Member(leaves, request.moved)))'
    BY MovedOutParts, PTL
  <1> QED BY <1>1, MovedOutParts

LEMMA WalkingStanding ==
  ASSUME Typed, Standing, Keep \/ EndWalk
  PROVE  Standing'
  <1> USE TypedParts
  <1>1. Seats(leaves, born) BY SeatsOf DEF Typed, TypeOK
  <1>2. leaves' = leaves /\ zoomed' = zoomed /\ request' = request
    BY DEF Keep, EndWalk, tree
  <1>3. MovedOut BY DEF Standing
  <1>4. MovedOut'
    <2> SUFFICES ASSUME request.phase = "moving" PROVE MovedOut'
      BY <1>2 DEF MovedOut
    <2>1. walk.busy /\ walk \in WalkType(born) BY DEF Keep, EndWalk
    <2>2. /\ ~walk.prune
          /\ walk.asked = {request.moved}
          /\ \A i \in DOMAIN leaves : leaves[i] = request.moved => walk.at <= i
      BY <1>3, <2>1, MovedOutParts
    <2>3. CASE Keep
      <3>1. /\ walk'.busy = walk.busy /\ walk'.prune = walk.prune /\ walk'.asked = walk.asked
            /\ walk'.at = walk.at + 1
        BY <2>1, <2>3 DEF Keep, WalkType
      <3>2. leaves[walk.at] # request.moved BY <2>2, <2>3 DEF Keep, Matches
      <3>3. \A i \in DOMAIN leaves : leaves[i] = request.moved => walk.at + 1 <= i
        <4>1. walk.at \in Nat BY <2>1 DEF WalkType
        <4> QED BY <1>1, <2>2, <3>2, <4>1 DEF Seats
      <3> QED BY <1>2, <2>1, <2>2, <3>1, <3>3 DEF MovedOut
    <2>4. CASE EndWalk
      <3>1. ~walk'.busy BY <2>4 DEF EndWalk, Idle
      <3>2. walk.at > Len(leaves) /\ walk.at \in Nat BY <2>1, <2>4 DEF EndWalk, WalkType
      <3>3. ~Member(leaves, request.moved)
        BY <1>1, <2>2, <3>2 DEF Member, Seats
      <3>4. request.moved \notin Listed BY <3>3, ListedMember
      <3>5. request'.moved \notin Listed' BY <1>2, <3>4 DEF Listed
      <3> QED BY <1>2, <3>1, <3>5 DEF MovedOut
    <2> QED BY <2>3, <2>4
  <1> QED BY <1>2, <1>4, CalmStanding

LEMMA TakeStanding ==
  ASSUME Typed, Standing, Take
  PROVE  Standing'
  <1> USE TypedParts
  <1>1. Seats(leaves, born) BY SeatsOf DEF Typed, TypeOK
  <1> DEFINE i == walk.at
             p == leaves[i]
  <1>2. /\ leaves' \in Seq(1..born)
        /\ i \in 1..Len(leaves)
        /\ Without(leaves, i, leaves')
    BY TakeShape
  <1>3. PICK next \in Nat \ {0} : walk' = Taken(p, next)
    BY TakeShape
  <1>4. Seats(leaves', born) BY <1>2, SeatsOf
  <1>5. Distinct(leaves) /\ (zoomed # NoPane => Member(leaves, zoomed)) /\ MovedOut
    BY StandingParts
  <1>6. /\ Distinct(leaves')
        /\ ~Member(leaves', p)
        /\ \A x : Member(leaves', x) => Member(leaves, x)
        /\ \A x : Member(leaves, x) /\ x # p => Member(leaves', x)
    BY <1>1, <1>2, <1>4, <1>5, WithoutMembers
  <1>7. zoomed' = IF zoomed = p THEN NoPane ELSE zoomed
    BY DEF Take, Unzoomed
  <1>8. zoomed' # NoPane => Member(leaves', zoomed') BY <1>5, <1>6, <1>7
  <1>9. walk.busy /\ walk'.busy /\ walk'.prune = walk.prune /\ walk'.asked = walk.asked
    <2>1. p \in 1..born BY <1>1, <1>2 DEF Seats
    <2> QED BY <1>3, <2>1, TakenTyped DEF Take, Typed
  <1>10. MovedOut'
    <2> SUFFICES ASSUME request.phase = "moving" PROVE MovedOut'
      BY DEF MovedOut, Take
    <2>1. request' = request BY DEF Take
    <2>2. ~walk.prune /\ walk.asked = {request.moved} BY <1>5, <1>9, MovedOutParts
    <2>3. p = request.moved BY <2>2 DEF Take, Matches
    <2>4. \A j \in DOMAIN leaves' : leaves'[j] # request.moved BY <1>6, <2>3 DEF Member
    <2> QED BY <1>9, <2>1, <2>2, <2>4 DEF MovedOut
  <1>11. (Standing <=> /\ Distinct(leaves)
                       /\ zoomed # NoPane => Member(leaves, zoomed)
                       /\ MovedOut)'
    BY StandingParts, PTL
  <1> QED BY <1>6, <1>8, <1>10, <1>11

\* A pane that is inserted was not in the tree
LEMMA SplitStanding ==
  ASSUME Typed, Standing, NEW b \in Nat, born <= b, NEW p \in 1..b, Split(p),
         ~Member(leaves, p), zoomed' = zoomed, request' = NoRequest
  PROVE  Standing'
  <1>1. Seats(leaves, born) BY SeatsOf DEF Typed, TypeOK
  <1>2. leaves' \in Seq(1..b) BY SplitShape
  <1>3. PICK k \in 1..(Len(leaves) + 1) : With(leaves, k, p, leaves') BY SplitShape
  <1>4. Seats(leaves', b) BY <1>2, SeatsOf
  <1>5. Distinct(leaves) BY StandingParts
  <1>6. Distinct(leaves') BY <1>1, <1>3, <1>4, <1>5, WithMembers
  <1>7. zoomed' = NoPane BY DEF Split
  <1>8. MovedOut' BY NotMoving DEF NoRequest
  <1>9. (Standing <=> /\ Distinct(leaves)
                      /\ zoomed # NoPane => Member(leaves, zoomed)
                      /\ MovedOut)'
    BY StandingParts, PTL
  <1> QED BY <1>6, <1>7, <1>8, <1>9

LEMMA InsertingStanding ==
  ASSUME Typed, Standing, PaneSpawned \/ InsertMoved
  PROVE  Standing'
  <1> USE TypedParts
  <1>1. Seats(leaves, born) BY SeatsOf DEF Typed, TypeOK
  <1>2. zoomed' = zoomed /\ request' = NoRequest BY DEF PaneSpawned, InsertMoved
  <1>3. CASE NoSplit
    <2>1. leaves' = leaves BY <1>3 DEF NoSplit, tree
    <2>2. MovedOut' BY <1>2, NotMoving DEF NoRequest
    <2> QED BY <1>2, <2>1, <2>2, CalmStanding
  <1>4. CASE PaneSpawned /\ Split(born + 1)
    <2>1. PICK b : b = born + 1 OBVIOUS
    <2>2. b \in Nat /\ born <= b /\ b \in 1..b BY <2>1
    <2>3. ~Member(leaves, b) BY <1>1, <2>1 DEF Member, Seats
    <2> QED BY <1>2, <1>4, <2>1, <2>2, <2>3, SplitStanding
  <1>5. CASE InsertMoved /\ Split(request.moved)
    <2>1. request.moved \in 1..born BY <1>5 DEF InsertMoved
    <2>2. ~Member(leaves, request.moved)
      BY <1>5, MovedOutParts DEF InsertMoved, Standing
    <2> QED BY <1>2, <1>5, <2>1, <2>2, SplitStanding
  <1> QED BY <1>3, <1>4, <1>5 DEF PaneSpawned, InsertMoved

\* A step that orders the leaves anew
LEMMA ReorderedStanding ==
  ASSUME Typed, Standing, leaves' \in Seq(1..born), Reordered(leaves, leaves'),
         zoomed' = zoomed, request' = request, Free
  PROVE  Standing'
  <1>1. Seats(leaves, born) BY SeatsOf DEF Typed, TypeOK
  <1>2. Seats(leaves', born) BY SeatsOf
  <1>3. Distinct(leaves) /\ (zoomed # NoPane => Member(leaves, zoomed)) BY StandingParts
  <1>4. Distinct(leaves') /\ \A x : Member(leaves', x) <=> Member(leaves, x)
    BY <1>1, <1>2, <1>3, ReorderedMembers
  <1>5. MovedOut' BY NotMoving DEF Free
  <1>6. (Standing <=> /\ Distinct(leaves)
                      /\ zoomed # NoPane => Member(leaves, zoomed)
                      /\ MovedOut)'
    BY StandingParts, PTL
  <1> QED BY <1>3, <1>4, <1>5, <1>6

LEMMA AskMoveStanding ==
  ASSUME Typed, Standing, NEW p, NEW target, NEW second, NEW top,
         AskMove(target, second, top, p)
  PROVE  Standing'
  <1>1. leaves' = leaves /\ zoomed' \in {zoomed, NoPane}
    BY DEF AskMove, Ask, tree
  <1>2. walk' = Walk(FALSE, {p}, FALSE) BY DEF AskMove
  <1>3. walk'.busy /\ ~walk'.prune /\ walk'.asked = {p} /\ walk'.at = 1
    BY <1>2 DEF Walk, Idle
  <1>4. request'.moved = p BY DEF AskMove, Ask
  <1>5. \A i \in DOMAIN leaves : 1 <= i
    <2>1. Seats(leaves, born) BY SeatsOf DEF Typed, TypeOK
    <2> QED BY <2>1 DEF Seats
  <1>6. MovedOut' BY <1>1, <1>3, <1>4, <1>5 DEF MovedOut
  <1> QED BY <1>1, <1>6, CalmStanding

\* The other steps leave the tree alone, and move no pane
LEMMA OtherStanding ==
  ASSUME Typed, Standing,
         NEW p \in Pane, NEW target \in Pane, NEW second \in BOOLEAN, NEW top \in BOOLEAN,
         NEW i \in Pane, NEW unzoom \in BOOLEAN,
         \/ PruneDeadPanes \/ KillPane(p) \/ MovePaneOut(p) \/ RemovePane(p)
         \/ DomainWasDetached \/ AskSplit(target, second, top) \/ SpawnFails \/ Die(p)
         \/ ToggleZoom \/ SetActivePane(p, unzoom) \/ SetPaneZoomed(p)
         \/ SetActiveIdx(i) \/ ActivatePaneDirection(i, unzoom)
  PROVE  Standing'
  <1>1. MovedOut BY DEF Standing
  <1>2. CASE Die(p)
    BY <1>1, <1>2, StillMoving, CalmStanding DEF Die, tree
  <1>3. CASE ToggleZoom
    <2>1. LeafAt(active) = NoPane \/ LeafAt(active) \in Listed
      BY ListedIs DEF LeafAt
    <2>2. MovedOut' BY <1>3, NotMoving DEF ToggleZoom, Free
    <2> QED BY <1>3, <2>1, <2>2, CalmStanding DEF ToggleZoom, tree
  <1>4. CASE SetPaneZoomed(p)
    BY <1>4, NotMoving, CalmStanding DEF SetPaneZoomed, Free, tree
  <1>5. CASE \/ SetActivePane(p, unzoom) \/ SetActiveIdx(i) \/ ActivatePaneDirection(i, unzoom)
    BY <1>5, NotMoving, CalmStanding
       DEF SetActivePane, SetActiveIdx, ActivatePaneDirection, Free, tree
  <1>6. CASE AskSplit(target, second, top)
    <2>1. request'.phase = "spawning" BY <1>6 DEF AskSplit, Ask
    <2> QED BY <1>6, <2>1, NotMoving, CalmStanding DEF AskSplit, Ask, tree
  <1>7. CASE SpawnFails
    BY <1>7, NotMoving, CalmStanding DEF SpawnFails, NoRequest, tree
  <1>8. CASE \/ PruneDeadPanes \/ KillPane(p) \/ MovePaneOut(p) \/ RemovePane(p)
             \/ DomainWasDetached
    BY <1>8, NotMoving, CalmStanding
       DEF PruneDeadPanes, KillPane, MovePaneOut, RemovePane, DomainWasDetached,
           Begin, Free, tree
  <1> QED BY <1>2, <1>3, <1>4, <1>5, <1>6, <1>7, <1>8

LEMMA NextStanding ==
  ASSUME ~Rezoomed, Typed, Standing, [Next]_vars
  PROVE  Standing'
  <1>1. 1 \in Pane /\ TRUE \in BOOLEAN BY PanesAssumption DEF Pane
  <1>2. CASE Removing
    BY <1>1, <1>2, WalkingStanding, TakeStanding, OtherStanding DEF Removing
  <1>3. CASE Splitting
    BY <1>1, <1>3, InsertingStanding, AskMoveStanding, OtherStanding DEF Splitting
  <1>4. ASSUME NEW clockwise \in BOOLEAN, Rotate(clockwise) PROVE Standing'
    <2>1. leaves' \in Seq(1..born) /\ Reordered(leaves, leaves') BY <1>4, RotateShape
    <2> QED BY <1>4, <2>1, ReorderedStanding DEF Rotate
  <1>5. ASSUME NEW i \in Pane, NEW keepFocus \in BOOLEAN, SwapActiveWithIndex(i, keepFocus)
        PROVE  Standing'
    <2>1. leaves' \in Seq(1..born) /\ Reordered(leaves, leaves') BY <1>5, SwapShape
    <2> QED BY <1>5, <2>1, ReorderedStanding DEF SwapActiveWithIndex
  <1>6. CASE Focusing
    BY <1>1, <1>4, <1>5, <1>6, OtherStanding DEF Focusing
  <1>7. CASE \E p \in Pane : Die(p) BY <1>1, <1>7, OtherStanding
  <1>8. CASE UNCHANGED vars
    BY <1>8, StillMoving, CalmStanding DEF vars, tree, Standing
  <1> QED BY <1>2, <1>3, <1>6, <1>7, <1>8 DEF Next

LEMMA InitStanding == Init => Standing
  <1> SUFFICES ASSUME Init PROVE Standing OBVIOUS
  <1>1. leaves = <<1>> /\ DOMAIN leaves = {1} BY DEF Init
  <1> QED BY <1>1 DEF Init, Standing, NoPaneTwice, MovedOut, ZoomedListed, NoRequest

LEMMA StandingAlways == ~Rezoomed => (Spec => []Standing)
  <1> SUFFICES ASSUME ~Rezoomed PROVE Spec => []Standing OBVIOUS
  <1>1. Typed /\ Standing /\ [Next]_vars => Standing' BY NextStanding
  <1> QED BY <1>1, InitStanding, TypedAlways, PTL DEF Spec

\* ZoomedListed: if the tab is not zoomed again while PaneSelect shows its
\* labels, the zoomed pane is in the tree.
THEOREM ZoomedAlwaysListed == ~Rezoomed => (Spec => []ZoomedListed)
  <1> SUFFICES ASSUME ~Rezoomed PROVE Spec => []ZoomedListed OBVIOUS
  <1>1. Standing => ZoomedListed BY DEF Standing
  <1> QED BY <1>1, StandingAlways, PTL

\* ProperTree: however leaves are unsplit, split, rotated and swapped, the tree
\* stays a proper binary tree, of distinct panes.
THEOREM TreeAlwaysProper == ~Rezoomed => (Spec => []ProperTree)
  <1> SUFFICES ASSUME ~Rezoomed PROVE Spec => []ProperTree OBVIOUS
  <1>1. Typed /\ Standing => ProperTree
    <2> SUFFICES ASSUME Typed, Standing PROVE ProperTree OBVIOUS
    <2>1. Seats(leaves, born) BY SeatsOf DEF Typed, TypeOK
    <2>2. NoPaneTwice BY DEF Standing
    <2>3. Shaped(spans, Len(leaves)) BY DEF Typed
    <2>4. \A s \in spans : \E k \in s[1]..(s[2] - 1) : Child(s[1], k) /\ Child(k + 1, s[2])
      BY <2>3 DEF Shaped, Branching, Node, Child
    <2>5. leaves # <<>> => Child(1, Len(leaves))
      BY <2>1, <2>3 DEF Seats, Shaped, Child
    <2>6. Cardinality(spans) = (IF leaves = <<>> THEN 0 ELSE Len(leaves) - 1)
      BY <2>1, <2>3 DEF Seats, Shaped, Counted
    <2> QED BY <2>2, <2>4, <2>5, <2>6 DEF ProperTree
  <1> QED BY <1>1, TypedAlways, StandingAlways, PTL

-----------------------------------------------------------------------------
(* No pane is forgotten.                                                   *)

\* The panes that are gone, and what is coming for them
Remembered == NoneForgotten /\ MovedNotForgotten

\* A prune is on its way, or a task that brings one
Coming == pruneDue \/ toRemove # {}

LEMMA RememberedParts ==
  Remembered <=>
    /\ \A i \in DOMAIN leaves :
         leaves[i] \in gone =>
           Coming \/ (walk.busy /\ walk.prune /\ (walk.at <= i \/ walk.taken # {}))
    /\ request.phase = "moving" /\ request.moved \in gone => Coming
  BY DEF Remembered, NoneForgotten, MovedNotForgotten, Coming

\* What is coming is enough for every pane
LEMMA ComingRemembered ==
  ASSUME pruneDue' \/ toRemove' # {}
  PROVE  Remembered'
  BY DEF Remembered, NoneForgotten, MovedNotForgotten

\* With no walk under way, a removal is coming if any pane of the tree is gone
LEMMA RestingComing ==
  ASSUME Remembered, ~walk.busy, NEW x, Member(leaves, x), x \in gone
  PROVE  Coming
  BY RememberedParts DEF Member

\* A step taken while no walk is under way, that removes nothing
LEMMA RestingRemembered ==
  ASSUME Remembered, ~walk.busy, UNCHANGED <<gone, toRemove, pruneDue>>,
         \A x : Member(leaves', x) /\ x \in gone => Member(leaves, x) \/ Coming,
         \/ request'.phase # "moving"
         \/ Member(leaves, request'.moved)
         \/ request' = request
  PROVE  Remembered'
  <1>1. CASE Coming BY <1>1, ComingRemembered DEF Coming
  <1>2. CASE ~Coming
    <2>1. \A x : x \in gone => ~Member(leaves, x) BY <1>2, RestingComing
    <2>2. \A i \in DOMAIN leaves' : leaves'[i] \notin gone' BY <1>2, <2>1 DEF Member
    <2>3. ~(request.phase = "moving" /\ request.moved \in gone)
      BY <1>2, RememberedParts
    <2>4. ~(request'.phase = "moving" /\ request'.moved \in gone') BY <2>1, <2>3
    <2> QED BY <2>2, <2>4 DEF Remembered, NoneForgotten, MovedNotForgotten
  <1> QED BY <1>1, <1>2

\* A prune that begins has every leaf before it
LEMMA PruningRemembered ==
  ASSUME Typed, Free, UNCHANGED <<leaves, request>>, walk' = PruneWalk
  PROVE  Remembered'
  <1>1. Seats(leaves, born) BY SeatsOf DEF Typed, TypeOK
  <1>2. walk'.busy /\ walk'.prune /\ walk'.at = 1 BY DEF PruneWalk, Walk, Idle
  <1>3. \A i \in DOMAIN leaves' : walk'.at <= i BY <1>1, <1>2 DEF Seats
  <1>4. request'.phase # "moving" BY DEF Free
  <1> QED BY <1>2, <1>3, <1>4 DEF Remembered, NoneForgotten, MovedNotForgotten

LEMMA WalkingRemembered ==
  ASSUME Typed, Remembered, Keep \/ EndWalk
  PROVE  Remembered'
  <1> USE TypedParts
  <1>1. Seats(leaves, born) BY SeatsOf DEF Typed, TypeOK
  <1>2. leaves' = leaves /\ gone' = gone /\ request' = request /\ pruneDue' = pruneDue
        /\ walk.busy /\ walk \in WalkType(born)
    BY DEF Keep, EndWalk, tree, panes
  <1>3. CASE Coming
    <2>1. Keep => toRemove' = toRemove BY DEF Keep
    <2>2. EndWalk => \A x \in toRemove : x \in toRemove' BY DEF EndWalk, ToKill
    <2> QED BY <1>2, <1>3, <2>1, <2>2, ComingRemembered DEF Coming
  <1>4. CASE Keep /\ ~Coming
    <2>1. \A i \in DOMAIN leaves : leaves[i] \in gone =>
            walk.prune /\ (walk.at <= i \/ walk.taken # {})
      BY <1>4, RememberedParts
    <2>2. walk.prune => leaves[walk.at] \notin gone BY <1>4 DEF Keep, Matches
    <2>3. /\ walk'.busy = walk.busy /\ walk'.prune = walk.prune
          /\ walk'.taken = walk.taken /\ walk'.at = walk.at + 1
      BY <1>2, <1>4 DEF Keep, WalkType
    <2>4. walk.at \in Nat BY <1>2 DEF WalkType
    <2>5. \A i \in DOMAIN leaves : leaves[i] \in gone =>
            walk'.prune /\ (walk'.at <= i \/ walk'.taken # {})
      <3> SUFFICES ASSUME NEW i \in DOMAIN leaves, leaves[i] \in gone, walk.taken = {}
                   PROVE  walk'.prune /\ walk'.at <= i
        BY <2>1, <2>3
      <3>1. walk.prune /\ walk.at <= i /\ i # walk.at BY <2>1, <2>2
      <3>2. i \in Nat BY <1>1 DEF Seats
      <3> QED BY <2>3, <2>4, <3>1, <3>2
    <2>6. request.phase = "moving" => request.moved \notin gone BY <1>4, RememberedParts
    <2> QED BY <1>2, <2>3, <2>5, <2>6 DEF Remembered, NoneForgotten, MovedNotForgotten
  <1>5. CASE EndWalk /\ ~Coming
    <2>1. request.phase = "moving" => request.moved \notin gone BY <1>5, RememberedParts
    <2>2. ASSUME NEW i \in DOMAIN leaves, leaves[i] \in gone PROVE toRemove' # {}
      <3>1. walk.prune /\ (walk.at <= i \/ walk.taken # {}) BY <1>5, <2>2, RememberedParts
      <3>2. walk.at > Len(leaves) /\ walk.at \in Nat BY <1>2, <1>5 DEF EndWalk, WalkType
      <3>3. i \in Nat /\ i <= Len(leaves) /\ Len(leaves) \in Nat BY <1>1 DEF Seats
      <3>4. walk.taken # {} BY <3>1, <3>2, <3>3
      <3>5. walk.kill BY <1>2, <3>1
      <3>6. \A x \in walk.taken : x \in toRemove' BY <1>5, <3>5 DEF EndWalk, ToKill
      <3> QED BY <3>4, <3>6
    <2> QED BY <1>2, <2>1, <2>2 DEF Remembered, NoneForgotten, MovedNotForgotten
  <1> QED BY <1>3, <1>4, <1>5

LEMMA TakeRemembered ==
  ASSUME Typed, Standing, Remembered, Take
  PROVE  Remembered'
  <1> USE TypedParts
  <1>1. Seats(leaves, born) BY SeatsOf DEF Typed, TypeOK
  <1> DEFINE i == walk.at
             p == leaves[i]
  <1>2. /\ leaves' \in Seq(1..born)
        /\ i \in 1..Len(leaves)
        /\ Without(leaves, i, leaves')
    BY TakeShape
  <1>3. PICK next \in Nat \ {0} : walk' = Taken(p, next) BY TakeShape
  <1>4. Seats(leaves', born) BY <1>2, SeatsOf
  <1>5. Distinct(leaves) BY StandingParts
  <1>6. \A x : Member(leaves', x) => Member(leaves, x)
    BY <1>1, <1>2, <1>4, <1>5, WithoutMembers
  <1>7. gone' = gone /\ toRemove' = toRemove /\ pruneDue' = pruneDue /\ request' = request
        /\ walk.busy
    BY DEF Take, panes
  <1>8. /\ walk'.busy = walk.busy /\ walk'.prune = walk.prune
        /\ walk'.taken = walk.taken \cup {p}
    <2>1. p \in 1..born BY <1>1, <1>2 DEF Seats
    <2> QED BY <1>3, <2>1, TakenTyped DEF Typed
  <1>9. CASE Coming BY <1>7, <1>9, ComingRemembered DEF Coming
  <1>10. CASE ~Coming
    <2>1. request.phase = "moving" => request.moved \notin gone BY <1>10, RememberedParts
    <2>2. ASSUME NEW j \in DOMAIN leaves', leaves'[j] \in gone PROVE walk.prune
      <3>1. Member(leaves, leaves'[j]) BY <1>6 DEF Member
      <3> QED BY <1>10, <2>2, <3>1, RememberedParts DEF Member
    <2>3. walk'.taken # {} BY <1>8
    <2> QED BY <1>7, <1>8, <2>1, <2>2, <2>3 DEF Remembered, NoneForgotten, MovedNotForgotten
  <1> QED BY <1>9, <1>10

\* The steps that put panes into the tree: a pane just spawned is not gone, and
\* for the one that moves a removal is coming if it is
LEMMA InsertingRemembered ==
  ASSUME Typed, Standing, Remembered, PaneSpawned \/ InsertMoved
  PROVE  Remembered'
  <1> USE TypedParts
  <1>1. Seats(leaves, born) BY SeatsOf DEF Typed, TypeOK
  <1>2. /\ UNCHANGED <<gone, toRemove, pruneDue>> /\ ~walk.busy
        /\ request'.phase # "moving"
    BY DEF PaneSpawned, InsertMoved, NoRequest, Free, panes
  <1>3. Distinct(leaves) BY StandingParts
  <1>4. CASE NoSplit
    <2>1. leaves' = leaves BY <1>4 DEF NoSplit, tree
    <2> QED BY <1>2, <2>1, RestingRemembered
  <1>5. ASSUME NEW b \in Nat, born <= b, NEW p \in 1..b, Split(p), ~Member(leaves, p),
               p \in gone => Coming
        PROVE  Remembered'
    <2>1. leaves' \in Seq(1..b) BY <1>5, SplitShape
    <2>2. PICK k \in 1..(Len(leaves) + 1) : With(leaves, k, p, leaves') BY <1>5, SplitShape
    <2>3. Seats(leaves', b) BY <2>1, SeatsOf
    <2>4. \A x : Member(leaves', x) => x = p \/ Member(leaves, x)
      BY <1>1, <1>3, <1>5, <2>2, <2>3, WithMembers
    <2> QED BY <1>2, <1>5, <2>4, RestingRemembered
  <1>6. CASE PaneSpawned /\ Split(born + 1)
    <2>1. PICK b : b = born + 1 OBVIOUS
    <2>2. b \in Nat /\ born <= b /\ b \in 1..b BY <2>1
    <2>3. b \notin gone BY <2>1
    <2>4. ~Member(leaves, b) BY <1>1, <2>1 DEF Member, Seats
    <2> QED BY <1>5, <1>6, <2>1, <2>2, <2>3, <2>4
  <1>7. CASE InsertMoved /\ Split(request.moved)
    <2>1. request.moved \in 1..born BY <1>7 DEF InsertMoved
    <2>2. request.moved \in gone => Coming
      BY <1>7, RememberedParts DEF InsertMoved
    <2>3. ~Member(leaves, request.moved)
      BY <1>7, MovedOutParts DEF InsertMoved, Standing
    <2> QED BY <1>5, <1>7, <2>1, <2>2, <2>3
  <1> QED BY <1>4, <1>6, <1>7 DEF PaneSpawned, InsertMoved

\* The steps that order the tree anew leave its members
LEMMA ReorderingMembers ==
  ASSUME ~Rezoomed, Typed, Standing, NEW i, NEW flag \in BOOLEAN,
         Rotate(flag) \/ SwapActiveWithIndex(i, flag)
  PROVE  \A x : Member(leaves', x) => Member(leaves, x)
  <1>1. Seats(leaves, born) BY SeatsOf DEF Typed, TypeOK
  <1>2. leaves' \in Seq(1..born) /\ Reordered(leaves, leaves') BY RotateShape, SwapShape
  <1>3. Seats(leaves', born) BY <1>2, SeatsOf
  <1>4. Distinct(leaves) BY StandingParts
  <1> QED BY <1>1, <1>2, <1>3, <1>4, ReorderedMembers

\* The steps that leave the tree alone while no walk is under way, and those that
\* order it anew
LEMMA OtherRemembered ==
  ASSUME ~Rezoomed, Typed, Standing, Remembered,
         NEW p \in Pane, NEW target \in Pane, NEW second \in BOOLEAN, NEW top \in BOOLEAN,
         NEW i \in Pane, NEW unzoom \in BOOLEAN,
         \/ KillPane(p) \/ MovePaneOut(p)
         \/ AskMove(target, second, top, p) \/ AskSplit(target, second, top) \/ SpawnFails
         \/ ToggleZoom \/ SetActivePane(p, unzoom) \/ SetPaneZoomed(p)
         \/ SetActiveIdx(i) \/ ActivatePaneDirection(i, unzoom)
         \/ Rotate(unzoom) \/ SwapActiveWithIndex(i, unzoom)
  PROVE  Remembered'
  <1>1. CASE \/ KillPane(p) \/ MovePaneOut(p)
    BY <1>1, RestingRemembered DEF KillPane, MovePaneOut, Begin, Free, tree, panes
  <1>2. CASE AskMove(target, second, top, p)
    <2>1. Member(leaves, p) BY <1>2, ListedMember DEF AskMove
    <2>2. request'.moved = p BY <1>2 DEF AskMove, Ask
    <2> QED BY <1>2, <2>1, <2>2, RestingRemembered DEF AskMove, Ask, Free, tree, panes
  <1>3. CASE AskSplit(target, second, top) \/ SpawnFails
    <2>1. request'.phase # "moving" BY <1>3 DEF AskSplit, Ask, SpawnFails, NoRequest
    <2> QED BY <1>3, <2>1, RestingRemembered DEF AskSplit, Ask, SpawnFails, Free, tree, panes
  <1>4. CASE \/ ToggleZoom \/ SetActivePane(p, unzoom) \/ SetPaneZoomed(p)
             \/ SetActiveIdx(i) \/ ActivatePaneDirection(i, unzoom)
    BY <1>4, RestingRemembered
       DEF ToggleZoom, SetActivePane, SetPaneZoomed, SetActiveIdx, ActivatePaneDirection,
           Free, tree, panes
  <1>5. CASE Rotate(unzoom) \/ SwapActiveWithIndex(i, unzoom)
    <2>1. \A x : Member(leaves', x) => Member(leaves, x) BY <1>5, ReorderingMembers
    <2> QED BY <1>5, <2>1, RestingRemembered DEF Rotate, SwapActiveWithIndex, Free, panes
  <1> QED BY <1>1, <1>2, <1>3, <1>4, <1>5

LEMMA NextRemembered ==
  ASSUME ~Rezoomed, Typed, Standing, Remembered, [Next]_vars
  PROVE  Remembered'
  <1>1. 1 \in Pane /\ TRUE \in BOOLEAN BY PanesAssumption DEF Pane
  <1>2. CASE PruneDeadPanes
    BY <1>2, PruningRemembered DEF PruneDeadPanes, Begin, tree
  <1>3. ASSUME NEW p \in Pane, RemovePane(p) PROVE Remembered'
    BY <1>3, PruningRemembered DEF RemovePane, Begin, tree
  <1>4. CASE DomainWasDetached
    BY <1>4, ComingRemembered DEF DomainWasDetached
  <1>5. CASE Removing
    BY <1>1, <1>2, <1>3, <1>4, <1>5, WalkingRemembered, TakeRemembered, OtherRemembered
       DEF Removing
  <1>6. CASE Splitting
    BY <1>1, <1>6, InsertingRemembered, OtherRemembered DEF Splitting
  <1>7. CASE Focusing
    BY <1>1, <1>7, OtherRemembered DEF Focusing
  <1>8. CASE \E p \in Pane : Die(p)
    <2>1. PICK p \in Pane : Die(p) BY <1>8
    <2>2. pruneDue' = TRUE \/ p \in toRemove' BY <2>1 DEF Die
    <2> QED BY <2>2, ComingRemembered
  <1>9. CASE UNCHANGED vars
    <2>1. (Remembered <=>
             /\ \A i \in DOMAIN leaves :
                  leaves[i] \in gone =>
                    Coming \/ (walk.busy /\ walk.prune /\ (walk.at <= i \/ walk.taken # {}))
             /\ request.phase = "moving" /\ request.moved \in gone => Coming)'
      BY RememberedParts, PTL
    <2> QED BY <1>9, <2>1, RememberedParts DEF vars, tree, panes, Coming
  <1> QED BY <1>5, <1>6, <1>7, <1>8, <1>9 DEF Next

\* NoneForgotten: a pane of the tree that died, or that the mux no longer knows,
\* has a removal coming, or a prune under way that has yet to come to it or that
\* will bring another.
THEOREM NeverForgotten == ~Rezoomed => (Spec => []NoneForgotten)
  <1> SUFFICES ASSUME ~Rezoomed PROVE Spec => []NoneForgotten OBVIOUS
  <1>1. Init => Remembered
    BY DEF Init, Remembered, NoneForgotten, MovedNotForgotten, NoRequest
  <1>2. Typed /\ Standing /\ Remembered /\ [Next]_vars => Remembered' BY NextRemembered
  <1>3. Remembered => NoneForgotten BY DEF Remembered
  <1> QED BY <1>1, <1>2, <1>3, TypedAlways, StandingAlways, PTL DEF Spec

-----------------------------------------------------------------------------
(* The focus.                                                              *)

\* What a walk that began with the focus on walk.focus knows of it: nothing has
\* moved as long as it took no pane, and of the one pane it took it knows the
\* place, at the index k of the leaves as they were.  What it took is not there
FocusKnown ==
  walk.busy =>
    /\ walk.taken = {} =>
         /\ walk.removed = {}
         /\ walk.index = walk.at - 1
         /\ walk.focus = LeafAt(active)
    /\ \A p \in walk.taken :
         /\ ~Member(leaves, p)
         /\ walk.taken = {p} =>
              \E k \in Nat :
                /\ walk.removed = {k}
                /\ k <= Len(leaves)
                /\ active = k => walk.focus = p
                /\ active < k => walk.focus = LeafAt(active)
                /\ active > k => walk.focus = LeafAt(active - 1)

LEMMA BeganFocused ==
  ASSUME NEW prune, NEW asked, NEW kill, UNCHANGED <<leaves, active>>,
         walk' = Walk(prune, asked, kill)
  PROVE  FocusKnown'
  <1>1. /\ walk'.taken = {} /\ walk'.removed = {} /\ walk'.index = 0 /\ walk'.at = 1
        /\ walk'.focus = LeafAt(active)
    BY DEF Walk, Idle
  <1>2. LeafAt(active)' = LeafAt(active) BY DEF LeafAt
  <1> QED BY <1>1, <1>2 DEF FocusKnown

LEMMA StillFocused ==
  ASSUME FocusKnown, UNCHANGED <<leaves, active, walk>>
  PROVE  FocusKnown'
  BY DEF FocusKnown, LeafAt, Member

LEMMA RestFocused ==
  ASSUME ~walk'.busy PROVE FocusKnown'
  BY DEF FocusKnown

LEMMA KeepFocused ==
  ASSUME Typed, FocusKnown, Keep
  PROVE  FocusKnown'
  <1>1. walk \in WalkType(born) BY TypedParts
  <1>2. walk.at \in Nat /\ walk.index \in Nat BY <1>1 DEF WalkType
  <1>3. leaves' = leaves /\ active' = active /\ walk.busy BY DEF Keep, tree
  <1>4. walk' = [walk EXCEPT !.at = walk.at + 1, !.index = walk.index + 1] BY DEF Keep
  <1>5. /\ walk'.taken = walk.taken /\ walk'.removed = walk.removed
        /\ walk'.focus = walk.focus
    BY <1>1, <1>4 DEF WalkType
  <1>6. walk'.at = walk.at + 1 /\ walk'.index = walk.index + 1
    BY <1>1, <1>4 DEF WalkType
  <1>7. walk.index = walk.at - 1 => walk'.index = walk'.at - 1 BY <1>2, <1>6
  <1> QED BY <1>3, <1>5, <1>7 DEF FocusKnown, LeafAt, Member

\* The first pane taken: what is before it keeps its place, what is after it
\* comes forward
LEMMA FirstTakenFocused ==
  ASSUME Typed, FocusKnown, Take, walk.taken = {}
  PROVE  \E k \in Nat :
           /\ walk'.removed = {k}
           /\ k <= Len(leaves')
           /\ active = k => walk'.focus = leaves[walk.at]
           /\ active < k => walk'.focus = LeafAt(active)'
           /\ active > k => walk'.focus = LeafAt(active - 1)'
  <1> DEFINE n == Len(leaves)
             i == walk.at
             p == leaves[i]
  <1>1. Seats(leaves, born) BY SeatsOf DEF Typed, TypeOK
  <1>2. leaves' \in Seq(1..born) /\ i \in 1..n /\ Without(leaves, i, leaves')
    BY TakeShape
  <1>3. PICK next \in Nat \ {0} : walk' = Taken(p, next) BY TakeShape
  <1>4. Seats(leaves', born) BY <1>2, SeatsOf
  <1>5. p \in 1..born BY <1>1, <1>2 DEF Seats
  <1>6. /\ walk'.removed = walk.removed \cup {walk.index}
        /\ walk'.focus = walk.focus
    BY <1>3, <1>5, TakenTyped DEF Typed
  <1>7. walk.removed = {} /\ walk.index = i - 1 /\ walk.focus = LeafAt(active)
    BY DEF FocusKnown, Take
  <1>8. active \in Nat /\ n \in Nat BY <1>1, TypedParts DEF Seats
  <1>9. walk'.removed = {i - 1} BY <1>6, <1>7
  <1>10. i - 1 \in Nat /\ i - 1 <= Len(leaves')
    BY <1>2, <1>8 DEF Without
  <1>11. DOMAIN leaves = 1..n /\ DOMAIN leaves' = 1..(n - 1)
    BY <1>1, <1>2, <1>4 DEF Seats, Without
  <1>12. active = i - 1 => LeafAt(active) = p
    <2> SUFFICES ASSUME active = i - 1 PROVE LeafAt(active) = p OBVIOUS
    <2>1. active + 1 = i BY <1>2, <1>8
    <2> QED BY <1>2, <1>11, <2>1 DEF LeafAt
  <1>13. active < i - 1 => LeafAt(active)' = LeafAt(active)
    <2> SUFFICES ASSUME active < i - 1 PROVE LeafAt(active)' = LeafAt(active) OBVIOUS
    <2>1. active + 1 \in 1..n /\ active + 1 \in 1..(n - 1) /\ active + 1 < i
      BY <1>2, <1>8
    <2>2. leaves'[active + 1] = leaves[active + 1] BY <1>2, <2>1 DEF Without
    <2>3. active' = active BY DEF Take
    <2> QED BY <1>11, <2>1, <2>2, <2>3 DEF LeafAt
  <1>14. active > i - 1 => LeafAt(active - 1)' = LeafAt(active)
    <2> SUFFICES ASSUME active > i - 1 PROVE LeafAt(active - 1)' = LeafAt(active) OBVIOUS
    <2>1. active' = active /\ active - 1 + 1 = active BY <1>8 DEF Take
    <2>2. CASE active <= n - 1
      <3>1. active \in 1..(n - 1) /\ ~(active < i) /\ active + 1 \in 1..n
        BY <1>2, <1>8, <2>2
      <3>2. leaves'[active] = leaves[active + 1] BY <1>2, <3>1 DEF Without
      <3> QED BY <1>11, <2>1, <3>1, <3>2 DEF LeafAt
    <2>3. CASE active > n - 1
      <3>1. active \notin 1..(n - 1) /\ active + 1 \notin 1..n BY <1>8, <2>3
      <3> QED BY <1>11, <2>1, <3>1 DEF LeafAt
    <2>4. active <= n - 1 \/ active > n - 1 BY <1>8
    <2> QED BY <2>2, <2>3, <2>4
  <1>15. PICK k \in Nat : k = i - 1 BY <1>10
  <1> QED BY <1>6, <1>7, <1>9, <1>10, <1>12, <1>13, <1>14, <1>15

LEMMA TakeFocused ==
  ASSUME Typed, Standing, FocusKnown, Take
  PROVE  FocusKnown'
  <1> DEFINE i == walk.at
             p == leaves[i]
  <1>1. Seats(leaves, born) BY SeatsOf DEF Typed, TypeOK
  <1>2. /\ leaves' \in Seq(1..born)
        /\ i \in 1..Len(leaves)
        /\ Without(leaves, i, leaves')
    BY TakeShape
  <1>3. PICK next \in Nat \ {0} : walk' = Taken(p, next) BY TakeShape
  <1>4. Seats(leaves', born) BY <1>2, SeatsOf
  <1>5. Distinct(leaves) BY StandingParts
  <1>6. ~Member(leaves', p) /\ \A x : Member(leaves', x) => Member(leaves, x)
    BY <1>1, <1>2, <1>4, <1>5, WithoutMembers
  <1>7. Member(leaves, p) BY <1>1, <1>2 DEF Member, Seats
  <1>8. walk.busy /\ walk'.busy /\ walk'.taken = walk.taken \cup {p}
    <2>1. p \in 1..born BY <1>1, <1>2 DEF Seats
    <2> QED BY <1>3, <2>1, TakenTyped DEF Take, Typed
  <1>9. \A q \in walk.taken : ~Member(leaves, q) BY <1>8 DEF FocusKnown
  <1>10. \A q \in walk'.taken : ~Member(leaves', q) BY <1>6, <1>8, <1>9
  <1>11. walk'.taken # {} BY <1>8
  <1>12. active' = active BY DEF Take
  <1>13. ASSUME NEW q \in walk'.taken, walk'.taken = {q}
         PROVE  \E k \in Nat :
                  /\ walk'.removed = {k}
                  /\ k <= Len(leaves')
                  /\ active' = k => walk'.focus = q
                  /\ active' < k => walk'.focus = LeafAt(active)'
                  /\ active' > k => walk'.focus = LeafAt(active - 1)'
    <2>1. q = p BY <1>8, <1>13
    <2>2. walk.taken = {} BY <1>7, <1>8, <1>9, <1>13, <2>1
    <2> QED BY <1>12, <2>1, <2>2, FirstTakenFocused
  <1> QED BY <1>8, <1>10, <1>11, <1>13 DEF FocusKnown

LEMMA NextFocused ==
  ASSUME Typed, Standing, FocusKnown, [Next]_vars
  PROVE  FocusKnown'
  <1>1. CASE Keep BY <1>1, KeepFocused
  <1>2. CASE Take BY <1>2, TakeFocused
  <1>3. CASE EndWalk BY <1>3, RestFocused DEF EndWalk, Idle
  <1>4. CASE PruneDeadPanes
    BY <1>4, BeganFocused DEF PruneDeadPanes, Begin, PruneWalk, tree
  <1>5. ASSUME NEW p \in Pane, KillPane(p) \/ MovePaneOut(p) \/ RemovePane(p)
        PROVE  FocusKnown'
    BY <1>5, BeganFocused DEF KillPane, MovePaneOut, RemovePane, Begin, PruneWalk, tree
  <1>6. CASE DomainWasDetached
    BY <1>6, BeganFocused DEF DomainWasDetached, Begin, tree
  <1>7. ASSUME NEW target \in Pane, NEW second \in BOOLEAN, NEW top \in BOOLEAN, NEW p \in Pane,
               AskMove(target, second, top, p)
        PROVE  FocusKnown'
    BY <1>7, BeganFocused DEF AskMove, tree
  <1>8. ASSUME NEW target \in Pane, NEW second \in BOOLEAN, NEW top \in BOOLEAN,
               AskSplit(target, second, top)
        PROVE  FocusKnown'
    BY <1>8, StillFocused DEF AskSplit, tree
  <1>9. CASE PaneSpawned \/ SpawnFails \/ InsertMoved
    BY <1>9, RestFocused DEF PaneSpawned, SpawnFails, InsertMoved, Free
  <1>10. CASE Focusing
    <2>1. ~walk'.busy
      BY <1>10 DEF Focusing, ToggleZoom, SetActivePane, SetPaneZoomed, SetActiveIdx,
                   ActivatePaneDirection, Rotate, SwapActiveWithIndex, Free
    <2> QED BY <2>1, RestFocused
  <1>11. CASE \E p \in Pane : Die(p)
    BY <1>11, StillFocused DEF Die, tree
  <1>12. CASE UNCHANGED vars BY <1>12, StillFocused DEF vars, tree
  <1> QED BY <1>1, <1>2, <1>3, <1>4, <1>5, <1>6, <1>7, <1>8, <1>9, <1>10, <1>11, <1>12
          DEF Next, Removing, Splitting

\* A pane that is in no leaf is not the one at an index
LEMMA LeafOutside ==
  ASSUME Typed, NEW p \in walk.taken, ~Member(leaves, p), NEW n
  PROVE  LeafAt(n) # p
  <1>1. walk.taken \in SUBSET (1..born) BY TypedParts DEF WalkType
  <1>2. p \in Nat BY <1>1, TypedParts
  <1>3. p # NoPane BY <1>2, NoPaneAssumption
  <1> QED BY <1>3 DEF LeafAt, Member

\* A walk stops at its end and nowhere else
LEMMA OnlyEndStops ==
  ASSUME Typed, Next, walk.busy, ~walk'.busy PROVE EndWalk
  <1>1. walk \in WalkType(born) BY TypedParts
  <1>2. Keep => walk'.busy = walk.busy BY <1>1 DEF Keep, WalkType
  <1>3. Take => walk'.busy = walk.busy
    <2> SUFFICES ASSUME Take PROVE walk'.busy = walk.busy OBVIOUS
    <2>1. \E p, next : walk' = Taken(p, next) BY DEF Take
    <2> QED BY <1>1, <2>1 DEF Taken, WalkType
  <1>4. ~Free BY DEF Free
  <1>5. ~Focusing
    BY <1>4 DEF Focusing, ToggleZoom, SetActivePane, SetPaneZoomed, SetActiveIdx,
                ActivatePaneDirection, Rotate, SwapActiveWithIndex
  <1>6. ~Splitting
    BY <1>4 DEF Splitting, AskSplit, AskMove, Ask, PaneSpawned, SpawnFails, InsertMoved
  <1>7. ~(\E p \in Pane : Die(p)) BY DEF Die
  <1>8. Removing => Keep \/ Take \/ EndWalk
    BY <1>4 DEF Removing, PruneDeadPanes, KillPane, MovePaneOut, RemovePane,
                DomainWasDetached, Begin
  <1> QED BY <1>2, <1>3, <1>5, <1>6, <1>7, <1>8 DEF Next

\* The walk over: the active index goes down by one, if the pane taken was at it
\* or before it
LEMMA EndFocused ==
  ASSUME Typed, FocusKnown, EndWalk, Cardinality(walk.taken) <= 1
  PROVE  /\ FocusStays
         /\ walk.focus \in walk.taken /\ leaves # <<>> => active' < Len(leaves)
  <1> DEFINE S == {i \in walk.removed : i <= active}
  <1>1. Seats(leaves, born) BY SeatsOf DEF Typed, TypeOK
  <1>2. leaves' = leaves /\ walk.busy /\ active' = ShiftedDown BY DEF EndWalk, tree
  <1>3. active \in Nat /\ walk \in WalkType(born) /\ born \in Nat BY TypedParts
  <1>4. ShiftedDown = IF Cardinality(S) <= active THEN active - Cardinality(S) ELSE 0
    BY DEF ShiftedDown
  <1>5. CASE walk.taken = {}
    <2>1. walk.removed = {} /\ walk.focus = LeafAt(active) BY <1>2, <1>5 DEF FocusKnown
    <2>2. S = {} BY <2>1
    <2>3. Cardinality(S) = 0 BY <2>2, FS_EmptySet
    <2>4. active' = active BY <1>2, <1>3, <1>4, <2>3
    <2> QED BY <1>2, <1>5, <2>1, <2>4 DEF FocusStays, LeafAt
  <1>6. CASE walk.taken # {}
    <2>1. PICK p \in walk.taken : walk.taken = {p}
      <3>1. PICK p \in walk.taken : TRUE BY <1>6
      <3>2. walk.taken \in SUBSET (1..born) BY <1>3 DEF WalkType
      <3>3. IsFiniteSet(1..born) BY <1>3, FS_Interval
      <3>4. IsFiniteSet(walk.taken) BY <3>2, <3>3, FS_Subset
      <3>5. Cardinality(walk.taken \ {p}) = Cardinality(walk.taken) - 1
        BY <3>1, <3>4, FS_RemoveElement
      <3>6. IsFiniteSet(walk.taken \ {p}) BY <3>4, FS_RemoveElement
      <3>7. Cardinality(walk.taken \ {p}) \in Nat /\ Cardinality(walk.taken) \in Nat
        BY <3>4, <3>6, FS_CardinalityType
      <3>8. Cardinality(walk.taken \ {p}) = 0 BY <3>5, <3>7
      <3>9. walk.taken \ {p} = {} BY <3>6, <3>8, FS_EmptySet
      <3> QED BY <3>1, <3>9
    <2>2. ~Member(leaves, p) BY <1>2, <2>1 DEF FocusKnown
    <2>3. PICK k \in Nat :
            /\ walk.removed = {k}
            /\ k <= Len(leaves)
            /\ active = k => walk.focus = p
            /\ active < k => walk.focus = LeafAt(active)
            /\ active > k => walk.focus = LeafAt(active - 1)
      BY <1>2, <2>1 DEF FocusKnown
    <2>4. Len(leaves) \in Nat BY <1>1 DEF Seats
    <2>5. CASE active < k
      <3>1. S = {} BY <1>3, <2>3, <2>5
      <3>2. Cardinality(S) = 0 BY <3>1, FS_EmptySet
      <3>3. active' = active BY <1>2, <1>3, <1>4, <3>2
      <3>4. LeafAt(active)' = walk.focus BY <1>2, <2>3, <2>5, <3>3 DEF LeafAt
      <3>5. walk.focus \notin walk.taken
        BY <2>1, <2>2, <2>3, <2>5, LeafOutside
      <3> QED BY <3>4, <3>5 DEF FocusStays
    <2>6. CASE active > k
      <3>1. S = {k} BY <1>3, <2>3, <2>6
      <3>2. Cardinality(S) = 1 BY <3>1, FS_Singleton
      <3>3. active' = active - 1 BY <1>2, <1>3, <1>4, <2>3, <2>6, <3>2
      <3>4. LeafAt(active)' = walk.focus BY <1>2, <2>3, <2>6, <3>3 DEF LeafAt
      <3>5. walk.focus \notin walk.taken
        BY <2>1, <2>2, <2>3, <2>6, LeafOutside
      <3> QED BY <3>4, <3>5 DEF FocusStays
    <2>7. CASE active = k
      <3>1. S = {k} BY <1>3, <2>3, <2>7
      <3>2. Cardinality(S) = 1 BY <3>1, FS_Singleton
      <3>3. active' = IF 1 <= active THEN active - 1 ELSE 0 BY <1>2, <1>4, <3>2
      <3>4. walk.focus \notin Listed BY <2>2, <2>3, <2>7, ListedMember
      <3>5. leaves # <<>> => Len(leaves) # 0 BY <1>1 DEF Seats
      <3>6. leaves # <<>> => active' < Len(leaves)
        BY <1>3, <2>3, <2>4, <2>7, <3>3, <3>5
      <3> QED BY <3>4, <3>6 DEF FocusStays
    <2>8. active < k \/ active > k \/ active = k BY <1>3, <2>3
    <2> QED BY <2>5, <2>6, <2>7, <2>8
  <1> QED BY <1>5, <1>6

\* FocusKept: closing one pane leaves the focus where it was, and on a pane there
\* is when it was the one that had it.
THEOREM FocusAlwaysKept == ~Rezoomed => (Spec => FocusKept)
  <1> SUFFICES ASSUME ~Rezoomed PROVE Spec => FocusKept OBVIOUS
  <1>1. Init => FocusKnown BY DEF Init, Idle, FocusKnown
  <1>2. Typed /\ Standing /\ FocusKnown /\ [Next]_vars => FocusKnown' BY NextFocused
  <1>3. Typed /\ FocusKnown /\ [Next]_vars =>
          [walk.busy /\ ~walk'.busy /\ Cardinality(walk.taken) <= 1
             => /\ FocusStays
                /\ walk.focus \in walk.taken /\ leaves # <<>> => active' < Len(leaves)]_vars
    <2> SUFFICES ASSUME Typed, FocusKnown, Next, walk.busy, ~walk'.busy,
                        Cardinality(walk.taken) <= 1
                 PROVE  /\ FocusStays
                        /\ walk.focus \in walk.taken /\ leaves # <<>> => active' < Len(leaves)
      OBVIOUS
    <2>1. EndWalk BY OnlyEndStops
    <2> QED BY <2>1, EndFocused
  <1> QED BY <1>1, <1>2, <1>3, TypedAlways, StandingAlways, PTL DEF Spec, FocusKept

-----------------------------------------------------------------------------
(* Where a pane that joins the tree comes to stand.                        *)

\* What SplitLands says of a pane
Lands(p) ==
  LET i == CHOOSE j \in DOMAIN leaves' : leaves'[j] = p
      top == request.top /\ Len(leaves) > 1
  IN /\ IF request.second
        THEN /\ IF top THEN i = Len(leaves') ELSE leaves'[i - 1] = request.target
             /\ active' = i - 1
        ELSE IF top THEN i = 1 ELSE leaves'[i + 1] = request.target

\* A split puts in one pane, and where the request says
LEMMA SplitLanding ==
  ASSUME Typed, Standing, NEW b \in Nat, born <= b, NEW e \in 1..b, Split(e),
         ~Member(leaves, e), NEW p, Member(leaves', p), ~Member(leaves, p)
  PROVE  Lands(p)
  <1> DEFINE n == Len(leaves)
             i == CHOOSE j \in DOMAIN leaves' : leaves'[j] = p
             top == request.top /\ n > 1
  <1>1. Seats(leaves, born) BY SeatsOf DEF Typed, TypeOK
  <1>2. leaves' \in Seq(1..b) BY SplitShape
  <1>3. PICK k \in 1..(n + 1) : With(leaves, k, e, leaves') /\ LandsAt(k) BY SplitShape
  <1>4. Seats(leaves', b) BY <1>2, SeatsOf
  <1>5. Distinct(leaves) BY StandingParts
  <1>6. /\ Distinct(leaves')
        /\ k \in DOMAIN leaves' /\ leaves'[k] = e
        /\ \A x : Member(leaves', x) => x = e \/ Member(leaves, x)
    BY <1>1, <1>3, <1>4, <1>5, WithMembers
  <1>7. p = e BY <1>6
  <1>8. i \in DOMAIN leaves' /\ leaves'[i] = p BY <1>6, <1>7
  <1>9. i = k BY <1>6, <1>7, <1>8 DEF Distinct
  <1>10. n \in Nat /\ Len(leaves') = n + 1 BY <1>1, <1>3 DEF Seats, With
  <1>11. CASE request.second
    <2>1. active' = i - 1 BY <1>3, <1>9, <1>11 DEF LandsAt
    <2>2. CASE top
      <3>1. i = Len(leaves') BY <1>3, <1>9, <1>10, <1>11, <2>2 DEF LandsAt
      <3> QED BY <1>11, <2>1, <2>2, <3>1 DEF Lands
    <2>3. CASE ~top
      <3>1. k - 1 \in 1..n /\ leaves[k - 1] = request.target
        BY <1>3, <1>11, <2>3 DEF LandsAt
      <3>2. k - 1 \in 1..(n + 1) /\ k - 1 < k BY <1>3, <1>10, <3>1
      <3>3. leaves'[k - 1] = leaves[k - 1] BY <1>3, <3>2 DEF With
      <3> QED BY <1>9, <1>11, <2>1, <2>3, <3>1, <3>3 DEF Lands
    <2> QED BY <2>2, <2>3
  <1>12. CASE ~request.second
    <2>1. CASE top
      <3>1. k = 1 BY <1>3, <1>12, <2>1 DEF LandsAt
      <3> QED BY <1>9, <1>12, <2>1, <3>1 DEF Lands
    <2>2. CASE ~top
      <3>1. k \in 1..n /\ leaves[k] = request.target
        BY <1>3, <1>12, <2>2 DEF LandsAt
      <3>2. k + 1 \in 1..(n + 1) /\ ~(k + 1 < k) /\ k + 1 # k /\ k + 1 - 1 = k
        BY <1>10, <3>1
      <3>3. leaves'[k + 1] = leaves[k + 1 - 1] BY <1>3, <3>2 DEF With
      <3>4. leaves'[k + 1] = request.target BY <3>1, <3>2, <3>3
      <3> QED BY <1>9, <1>12, <2>2, <3>4 DEF Lands
    <2> QED BY <2>1, <2>2
  <1> QED BY <1>11, <1>12

\* No other step puts a pane into the tree
LEMMA OnlySplitsJoin ==
  ASSUME ~Rezoomed, Typed, Standing, Next, NEW p, Member(leaves', p), ~Member(leaves, p)
  PROVE  PaneSpawned \/ InsertMoved
  <1>1. leaves' # leaves BY DEF Member
  <1>2. ~Take
    <2> SUFFICES ASSUME Take PROVE FALSE OBVIOUS
    <2>1. Seats(leaves, born) BY SeatsOf DEF Typed, TypeOK
    <2>2. /\ leaves' \in Seq(1..born)
          /\ walk.at \in 1..Len(leaves)
          /\ Without(leaves, walk.at, leaves')
      BY TakeShape
    <2>3. Seats(leaves', born) BY <2>2, SeatsOf
    <2>4. Distinct(leaves) BY StandingParts
    <2> QED BY <2>1, <2>2, <2>3, <2>4, WithoutMembers
  <1>3. ~(Keep \/ EndWalk \/ PruneDeadPanes \/ DomainWasDetached)
    BY <1>1 DEF Keep, EndWalk, PruneDeadPanes, DomainWasDetached, tree
  <1>4. ~(\E q \in Pane : KillPane(q) \/ MovePaneOut(q) \/ RemovePane(q) \/ Die(q))
    BY <1>1 DEF KillPane, MovePaneOut, RemovePane, Die, tree
  <1>5. ASSUME NEW flag \in BOOLEAN PROVE ~Rotate(flag)
    BY <1>5, ReorderingMembers
  <1>6. ASSUME NEW i \in Pane, NEW flag \in BOOLEAN PROVE ~SwapActiveWithIndex(i, flag)
    BY <1>6, ReorderingMembers
  <1>7. ~Focusing
    BY <1>1, <1>5, <1>6
       DEF Focusing, ToggleZoom, SetActivePane, SetPaneZoomed, SetActiveIdx,
           ActivatePaneDirection, tree
  <1>8. Splitting => PaneSpawned \/ InsertMoved
    BY <1>1 DEF Splitting, AskSplit, AskMove, SpawnFails, tree
  <1> QED BY <1>2, <1>3, <1>4, <1>7, <1>8 DEF Next, Removing

\* SplitLands: a pane that joins the tree stands on the side asked for of the pane
\* the split was asked for, or of the whole tree, and has the focus as the second.
THEOREM SplitAlwaysLands == ~Rezoomed => (Spec => SplitLands)
  <1> SUFFICES ASSUME ~Rezoomed PROVE Spec => SplitLands OBVIOUS
  <1>1. (\A p : p \in Listed <=> Member(leaves, p))' BY ListedMember, PTL
  <1>2. Typed /\ Standing /\ [Next]_vars => [\A p \in Listed' \ Listed : Lands(p)]_vars
    <2> SUFFICES ASSUME Typed, Standing, Next, NEW p \in Listed' \ Listed PROVE Lands(p)
      OBVIOUS
    <2> USE TypedParts
    <2>1. Member(leaves', p) /\ ~Member(leaves, p) BY <1>1, ListedMember
    <2>2. ~NoSplit BY <2>1 DEF NoSplit, tree
    <2>3. CASE PaneSpawned
      <3>1. PICK b : b = born + 1 OBVIOUS
      <3>2. b \in Nat /\ born <= b /\ b \in 1..b BY <3>1
      <3>3. ~Member(leaves, b)
        <4>1. Seats(leaves, born) BY SeatsOf DEF Typed, TypeOK
        <4> QED BY <3>1, <4>1 DEF Member, Seats
      <3>4. Split(b) BY <2>2, <2>3, <3>1 DEF PaneSpawned
      <3> QED BY <2>1, <3>2, <3>3, <3>4, SplitLanding
    <2>4. CASE InsertMoved
      <3>1. request.moved \in 1..born BY <2>4 DEF InsertMoved
      <3>2. ~Member(leaves, request.moved)
        BY <2>4, MovedOutParts DEF InsertMoved, Standing
      <3>3. Split(request.moved) BY <2>2, <2>4 DEF InsertMoved
      <3> QED BY <2>1, <3>1, <3>2, <3>3, SplitLanding
    <2> QED BY <2>1, <2>3, <2>4, OnlySplitsJoin
  <1> QED BY <1>2, TypedAlways, StandingAlways, PTL DEF Spec, SplitLands, Lands
=============================================================================
