--------------------------- MODULE SequenceLemmas ---------------------------
(***************************************************************************)
(* What the operators on sequences that the specifications use return:     *)
(* queues of whatever records, their members, and which comes before which.*)
(***************************************************************************)
EXTENDS Naturals, SequencesExt, SequenceTheorems, FiniteSetTheorems, TLAPS

\* A sequence, of whatever records
Queued(q) == \E n \in Nat : DOMAIN q = 1..n /\ q = [k \in DOMAIN q |-> q[k]]

\* x is in q
Member(q, x) == \E i \in DOMAIN q : q[i] = x

\* An x is in q, and a y behind it
Before(q, x, y) == \E i, j \in DOMAIN q : i < j /\ q[i] = x /\ q[j] = y

-----------------------------------------------------------------------------
LEMMA QueuedIsSeq ==
  ASSUME NEW q, Queued(q)
  PROVE  /\ q \in Seq({q[k] : k \in DOMAIN q})
         /\ Len(q) \in Nat
         /\ DOMAIN q = 1..Len(q)
  <1>1. PICK n \in Nat : DOMAIN q = 1..n /\ q = [k \in DOMAIN q |-> q[k]]
    BY DEF Queued
  <1>2. q \in [1..n -> {q[k] : k \in DOMAIN q}]
    BY <1>1
  <1> QED BY <1>1, <1>2, SeqDef

LEMMA SeqIsQueued ==
  ASSUME NEW S, NEW q \in Seq(S)
  PROVE  Queued(q)
  <1>1. Len(q) \in Nat /\ q \in [1..Len(q) -> S]
    BY LenProperties
  <1> QED BY <1>1 DEF Queued

LEMMA Joined ==
  ASSUME NEW p, NEW q, Queued(p), Queued(q)
  PROVE  /\ Queued(p \o q)
         /\ \A k \in DOMAIN (p \o q) :
              \/ k \in DOMAIN p /\ (p \o q)[k] = p[k]
              \/ k - Len(p) \in DOMAIN q /\ (p \o q)[k] = q[k - Len(p)]
         /\ DOMAIN p \subseteq DOMAIN (p \o q)
         /\ \A k \in DOMAIN p : (p \o q)[k] = p[k]
  <1> DEFINE S == {p[k] : k \in DOMAIN p} \cup {q[k] : k \in DOMAIN q}
  <1>1. p \in Seq({p[k] : k \in DOMAIN p}) /\ q \in Seq({q[k] : k \in DOMAIN q})
    BY QueuedIsSeq
  <1>2. p \in Seq(S) /\ q \in Seq(S)
    BY <1>1, SeqDef
  <1>3. /\ p \o q \in Seq(S)
        /\ Len(p \o q) = Len(p) + Len(q)
        /\ \A i \in 1..(Len(p) + Len(q)) :
             (p \o q)[i] = IF i <= Len(p) THEN p[i] ELSE q[i - Len(p)]
    BY <1>2, ConcatProperties
  <1>4. Queued(p \o q)
    BY <1>3, SeqIsQueued
  <1>5. /\ Len(p) \in Nat /\ Len(q) \in Nat
        /\ DOMAIN p = 1..Len(p) /\ DOMAIN q = 1..Len(q)
        /\ DOMAIN (p \o q) = 1..(Len(p) + Len(q))
    BY <1>3, <1>4, QueuedIsSeq
  <1> HIDE DEF S
  <1> QED BY <1>3, <1>4, <1>5

LEMMA RemoveAtParts ==
  ASSUME NEW S, NEW q \in Seq(S), NEW i \in 1..Len(q)
  PROVE  /\ RemoveAt(q, i) \in Seq(S)
         /\ Len(RemoveAt(q, i)) = Len(q) - 1
         /\ DOMAIN RemoveAt(q, i) = 1..(Len(q) - 1)
         /\ \A j \in 1..(Len(q) - 1) : RemoveAt(q, i)[j] = IF j < i THEN q[j] ELSE q[j + 1]
  <1> DEFINE a == SubSeq(q, 1, i - 1)
             b == SubSeq(q, i + 1, Len(q))
  <1>1. Len(q) \in Nat BY LenProperties
  <1>2. a \in Seq(S) /\ Len(a) = i - 1 /\ \A j \in 1..(i - 1) : a[j] = q[j]
    BY <1>1, SubSeqProperties
  <1>3. b \in Seq(S) /\ Len(b) = Len(q) - i /\ \A j \in 1..(Len(q) - i) : b[j] = q[i + j]
    BY <1>1, SubSeqProperties
  <1> HIDE DEF a, b
  <1>4. /\ a \o b \in Seq(S)
        /\ Len(a \o b) = Len(a) + Len(b)
        /\ \A j \in 1..(Len(a) + Len(b)) : (a \o b)[j] = IF j <= Len(a) THEN a[j] ELSE b[j - Len(a)]
    BY <1>2, <1>3, ConcatProperties
  <1>5. RemoveAt(q, i) = a \o b BY DEF RemoveAt, a, b
  <1>6. Len(a) + Len(b) = Len(q) - 1 BY <1>1, <1>2, <1>3
  <1>7. DOMAIN (a \o b) = 1..(Len(q) - 1) BY <1>4, <1>6, LenProperties
  <1>8. ASSUME NEW j \in 1..(Len(q) - 1)
        PROVE  (a \o b)[j] = IF j < i THEN q[j] ELSE q[j + 1]
    <2>1. CASE j < i BY <2>1, <1>1, <1>2, <1>4, <1>6
    <2>2. CASE j >= i
      <3>1. j - (i - 1) \in 1..(Len(q) - i) BY <2>2, <1>1
      <3>2. b[j - (i - 1)] = q[i + (j - (i - 1))] BY <3>1, <1>3
      <3>3. i + (j - (i - 1)) = j + 1 BY <1>1
      <3>4. (a \o b)[j] = b[j - Len(a)] BY <2>2, <1>1, <1>2, <1>4, <1>6
      <3>5. (a \o b)[j] = q[j + 1] BY <1>2, <3>2, <3>3, <3>4
      <3> QED BY <2>2, <3>5, <1>1
    <2>3. j < i \/ j >= i BY <1>1
    <2> QED BY <2>1, <2>2, <2>3
  <1> QED BY <1>4, <1>5, <1>6, <1>7, <1>8

LEMMA InsertAtParts ==
  ASSUME NEW S, NEW q \in Seq(S), NEW i \in 1..(Len(q) + 1), NEW e \in S
  PROVE  /\ InsertAt(q, i, e) \in Seq(S)
         /\ Len(InsertAt(q, i, e)) = Len(q) + 1
         /\ DOMAIN InsertAt(q, i, e) = 1..(Len(q) + 1)
         /\ \A j \in 1..(Len(q) + 1) :
              InsertAt(q, i, e)[j] = IF j < i THEN q[j] ELSE IF j = i THEN e ELSE q[j - 1]
  <1> DEFINE a == SubSeq(q, 1, i - 1)
             b == SubSeq(q, i, Len(q))
             c == <<e>>
             ac == a \o c
  <1>1. Len(q) \in Nat BY LenProperties
  <1>2. a \in Seq(S) /\ Len(a) = i - 1 /\ \A j \in 1..(i - 1) : a[j] = q[j]
    BY <1>1, SubSeqProperties
  <1>3. b \in Seq(S) /\ Len(b) = Len(q) - i + 1 /\ \A j \in 1..(Len(q) - i + 1) : b[j] = q[i + j - 1]
    BY <1>1, SubSeqProperties
  <1>4. c \in Seq(S) /\ Len(c) = 1 /\ c[1] = e
    OBVIOUS
  <1> HIDE DEF a, b, c
  <1>5. /\ ac \in Seq(S)
        /\ Len(ac) = Len(a) + Len(c)
        /\ \A j \in 1..(Len(a) + Len(c)) : ac[j] = IF j <= Len(a) THEN a[j] ELSE c[j - Len(a)]
    BY <1>2, <1>4, ConcatProperties
  <1> HIDE DEF ac
  <1>5a. ac \in Seq(S) /\ b \in Seq(S) BY <1>5, <1>3
  <1>6. /\ ac \o b \in Seq(S)
        /\ Len(ac \o b) = Len(ac) + Len(b)
        /\ \A j \in 1..(Len(ac) + Len(b)) : (ac \o b)[j] = IF j <= Len(ac) THEN ac[j] ELSE b[j - Len(ac)]
    BY <1>5a, ConcatProperties
  <1>7. InsertAt(q, i, e) = ac \o b BY DEF InsertAt, a, b, c, ac
  <1>8. Len(ac) + Len(b) = Len(q) + 1 /\ Len(ac) = i BY <1>1, <1>2, <1>3, <1>4, <1>5
  <1>9. DOMAIN (ac \o b) = 1..(Len(q) + 1) BY <1>6, <1>8, LenProperties
  <1>10. ASSUME NEW j \in 1..(Len(q) + 1)
         PROVE  (ac \o b)[j] = IF j < i THEN q[j] ELSE IF j = i THEN e ELSE q[j - 1]
    <2>1. CASE j < i
      <3>1. (ac \o b)[j] = ac[j] BY <2>1, <1>1, <1>6, <1>8
      <3>2. ac[j] = a[j] BY <2>1, <1>1, <1>2, <1>4, <1>5
      <3> QED BY <3>1, <3>2, <2>1, <1>2, <1>1
    <2>2. CASE j = i
      <3>1. (ac \o b)[j] = ac[j] BY <2>2, <1>1, <1>6, <1>8
      <3>2. ac[j] = c[j - Len(a)] BY <2>2, <1>1, <1>2, <1>4, <1>5
      <3>3. j - Len(a) = 1 BY <2>2, <1>2
      <3> QED BY <3>1, <3>2, <3>3, <2>2, <1>4
    <2>3. CASE j > i
      <3>1. (ac \o b)[j] = b[j - i] BY <2>3, <1>1, <1>6, <1>8
      <3>2. j - i \in 1..(Len(q) - i + 1) BY <2>3, <1>1
      <3>3. b[j - i] = q[i + (j - i) - 1] BY <3>2, <1>3
      <3>4. i + (j - i) - 1 = j - 1 BY <1>1
      <3>5. (ac \o b)[j] = q[j - 1] BY <3>1, <3>3, <3>4
      <3> QED BY <3>5, <2>3, <1>1
    <2>4. j < i \/ j = i \/ j > i BY <1>1
    <2> QED BY <2>1, <2>2, <2>3, <2>4
  <1> QED BY <1>6, <1>7, <1>8, <1>9, <1>10

-----------------------------------------------------------------------------
(* Queues, item by item.                                                   *)

LEMMA AppendParts ==
  ASSUME NEW q, NEW t, Queued(q)
  PROVE  /\ Queued(Append(q, t))
         /\ Len(Append(q, t)) = Len(q) + 1
         /\ DOMAIN Append(q, t) = 1..(Len(q) + 1)
         /\ \A i \in 1..Len(q) : Append(q, t)[i] = q[i]
         /\ Append(q, t)[Len(q) + 1] = t
  <1> DEFINE S == {q[k] : k \in DOMAIN q} \cup {t}
  <1>1. q \in Seq({q[k] : k \in DOMAIN q}) /\ Len(q) \in Nat /\ DOMAIN q = 1..Len(q)
    BY QueuedIsSeq
  <1>2. q \in Seq(S) /\ t \in S BY <1>1, SeqDef
  <1>3. /\ Append(q, t) \in Seq(S)
        /\ Len(Append(q, t)) = Len(q) + 1
        /\ \A i \in 1..Len(q) : Append(q, t)[i] = q[i]
        /\ Append(q, t)[Len(q) + 1] = t
    BY <1>2, AppendProperties
  <1>4. Queued(Append(q, t)) BY <1>3, SeqIsQueued
  <1> QED BY <1>3, <1>4, QueuedIsSeq

LEMMA TailParts ==
  ASSUME NEW q, Queued(q), q # <<>>
  PROVE  /\ Queued(Tail(q))
         /\ Len(q) \in Nat /\ DOMAIN q = 1..Len(q) /\ 1 \in DOMAIN q
         /\ Head(q) = q[1]
         /\ DOMAIN Tail(q) = 1..(Len(q) - 1)
         /\ \A i \in 1..(Len(q) - 1) : Tail(q)[i] = q[i + 1]
  <1> DEFINE S == {q[k] : k \in DOMAIN q}
  <1>1. q \in Seq(S) /\ Len(q) \in Nat /\ DOMAIN q = 1..Len(q)
    BY QueuedIsSeq
  <1>2. /\ Tail(q) \in Seq(S)
        /\ Len(Tail(q)) = Len(q) - 1
        /\ \A i \in 1..Len(Tail(q)) : Tail(q)[i] = q[i + 1]
    BY <1>1, HeadTailProperties
  <1>3. Head(q) = q[1] /\ 1 \in DOMAIN q BY <1>1
  <1>4. Queued(Tail(q)) BY <1>2, SeqIsQueued
  <1>5. DOMAIN Tail(q) = 1..(Len(q) - 1) BY <1>2, <1>4, QueuedIsSeq
  <1> QED BY <1>1, <1>2, <1>3, <1>4, <1>5

LEMMA InsertParts ==
  ASSUME NEW q, NEW t, Queued(q), NEW k \in 1..(Len(q) + 1)
  PROVE  /\ Queued(InsertAt(q, k, t))
         /\ DOMAIN InsertAt(q, k, t) = 1..(Len(q) + 1)
         /\ \A j \in 1..(Len(q) + 1) :
              InsertAt(q, k, t)[j] = IF j < k THEN q[j] ELSE IF j = k THEN t ELSE q[j - 1]
  <1> DEFINE S == {q[i] : i \in DOMAIN q} \cup {t}
  <1>1. q \in Seq({q[i] : i \in DOMAIN q}) BY QueuedIsSeq
  <1>2. q \in Seq(S) /\ t \in S BY <1>1, SeqDef
  <1> HIDE DEF S
  <1>3. /\ InsertAt(q, k, t) \in Seq(S)
        /\ DOMAIN InsertAt(q, k, t) = 1..(Len(q) + 1)
        /\ \A j \in 1..(Len(q) + 1) :
             InsertAt(q, k, t)[j] = IF j < k THEN q[j] ELSE IF j = k THEN t ELSE q[j - 1]
    BY <1>2, InsertAtParts
  <1> QED BY <1>3, SeqIsQueued

-----------------------------------------------------------------------------
(* Queues, by their members and their order.                               *)

LEMMA EmptyMembers ==
  /\ Queued(<<>>)
  /\ \A x : ~Member(<<>>, x)
  /\ \A x, y : ~Before(<<>>, x, y)
  <1>1. <<>> \in Seq({}) /\ DOMAIN <<>> = {} OBVIOUS
  <1>2. Queued(<<>>) BY <1>1, SeqIsQueued
  <1> QED BY <1>1, <1>2 DEF Member, Before

LEMMA BeforeMember ==
  ASSUME NEW q, NEW x, NEW y, Before(q, x, y)
  PROVE  Member(q, x) /\ Member(q, y)
  BY DEF Before, Member

LEMMA AppendMembers ==
  ASSUME NEW q, NEW t, Queued(q)
  PROVE  /\ \A x : Member(Append(q, t), x) => Member(q, x) \/ x = t
         /\ \A x, y : Before(Append(q, t), x, y) =>
              Before(q, x, y) \/ (Member(q, x) /\ y = t)
  <1>1. Len(q) \in Nat /\ DOMAIN q = 1..Len(q) BY QueuedIsSeq
  <1>2. /\ DOMAIN Append(q, t) = 1..(Len(q) + 1)
        /\ \A i \in 1..Len(q) : Append(q, t)[i] = q[i]
        /\ Append(q, t)[Len(q) + 1] = t
    BY AppendParts
  <1> DEFINE r == Append(q, t)
  <1> HIDE DEF r
  <1>3. \A i \in DOMAIN r : (i \in DOMAIN q /\ r[i] = q[i]) \/ (i = Len(q) + 1 /\ r[i] = t)
    BY <1>1, <1>2 DEF r
  <1>4. \A x : Member(r, x) => Member(q, x) \/ x = t BY <1>3 DEF Member
  <1>5. ASSUME NEW x, NEW y, Before(r, x, y)
        PROVE  Before(q, x, y) \/ (Member(q, x) /\ y = t)
    <2>1. PICK i \in DOMAIN r, j \in DOMAIN r : i < j /\ r[i] = x /\ r[j] = y
      BY <1>5 DEF Before
    <2>2. i \in 1..(Len(q) + 1) /\ j \in 1..(Len(q) + 1) BY <1>2 DEF r
    <2>3. i \in DOMAIN q /\ r[i] = q[i] BY <1>1, <1>3, <2>1, <2>2
    <2>4. CASE j \in DOMAIN q BY <1>1, <1>3, <2>1, <2>3, <2>4 DEF Before
    <2>5. CASE j \notin DOMAIN q BY <1>3, <2>1, <2>3, <2>5 DEF Member
    <2> QED BY <2>4, <2>5
  <1> QED BY <1>4, <1>5 DEF r

LEMMA TailMembers ==
  ASSUME NEW q, Queued(q), q # <<>>
  PROVE  /\ Member(q, Head(q))
         /\ \A x : Member(Tail(q), x) => Member(q, x)
         /\ \A x : Member(Tail(q), x) => Before(q, Head(q), x)
         /\ \A x, y : Before(Tail(q), x, y) => Before(q, x, y)
  <1>1. /\ Len(q) \in Nat /\ DOMAIN q = 1..Len(q) /\ 1 \in DOMAIN q
        /\ Head(q) = q[1]
        /\ DOMAIN Tail(q) = 1..(Len(q) - 1)
        /\ \A i \in 1..(Len(q) - 1) : Tail(q)[i] = q[i + 1]
    BY TailParts
  <1> DEFINE r == Tail(q)
  <1> HIDE DEF r
  <1>2. \A i \in DOMAIN r : i \in Nat /\ i + 1 \in DOMAIN q /\ 1 < i + 1 /\ r[i] = q[i + 1]
    BY <1>1 DEF r
  <1>3. \A x : Member(r, x) => Member(q, x) BY <1>2 DEF Member
  <1>4. \A x : Member(r, x) => Before(q, Head(q), x) BY <1>1, <1>2 DEF Member, Before
  <1>5. ASSUME NEW x, NEW y, Before(r, x, y) PROVE Before(q, x, y)
    <2>1. PICK i \in DOMAIN r, j \in DOMAIN r : i < j /\ r[i] = x /\ r[j] = y
      BY <1>5 DEF Before
    <2>2. /\ i + 1 \in DOMAIN q /\ j + 1 \in DOMAIN q /\ i + 1 < j + 1
          /\ q[i + 1] = x /\ q[j + 1] = y
      BY <1>2, <2>1
    <2> QED BY <2>2 DEF Before
  <1> QED BY <1>1, <1>3, <1>4, <1>5 DEF r, Member

LEMMA InsertMembers ==
  ASSUME NEW q, NEW t, Queued(q), NEW k \in 1..(Len(q) + 1)
  PROVE  /\ \A x : Member(InsertAt(q, k, t), x) => Member(q, x) \/ x = t
         /\ \A x, y : Before(InsertAt(q, k, t), x, y) => Before(q, x, y) \/ x = t \/ y = t
  <1>1. Len(q) \in Nat /\ DOMAIN q = 1..Len(q) BY QueuedIsSeq
  <1>2. /\ DOMAIN InsertAt(q, k, t) = 1..(Len(q) + 1)
        /\ \A j \in 1..(Len(q) + 1) :
             InsertAt(q, k, t)[j] = IF j < k THEN q[j] ELSE IF j = k THEN t ELSE q[j - 1]
    BY InsertParts
  <1> DEFINE r == InsertAt(q, k, t)
             old(j) == IF j < k THEN j ELSE j - 1
  <1> HIDE DEF r
  <1>3. \A j \in DOMAIN r : j # k => old(j) \in DOMAIN q /\ r[j] = q[old(j)]
    <2> SUFFICES ASSUME NEW j \in 1..(Len(q) + 1), j # k
                 PROVE  old(j) \in DOMAIN q /\ r[j] = q[old(j)]
      BY <1>2 DEF r
    <2>1. CASE j < k BY <1>1, <1>2, <2>1 DEF r
    <2>2. CASE j > k BY <1>1, <1>2, <2>2 DEF r
    <2> QED BY <2>1, <2>2, <1>1
  <1>4. \A j \in DOMAIN r : j = k => r[j] = t BY <1>2 DEF r
  <1>5. \A i, j \in DOMAIN r : i # k /\ j # k /\ i < j => old(i) < old(j)
    BY <1>1, <1>2 DEF r
  <1> HIDE DEF old
  <1>6. \A x : Member(r, x) => Member(q, x) \/ x = t BY <1>3, <1>4 DEF Member
  <1>7. ASSUME NEW x, NEW y, Before(r, x, y)
        PROVE  Before(q, x, y) \/ x = t \/ y = t
    <2>1. PICK i \in DOMAIN r, j \in DOMAIN r : i < j /\ r[i] = x /\ r[j] = y
      BY <1>7 DEF Before
    <2>2. CASE i = k \/ j = k BY <1>4, <2>1, <2>2
    <2>3. CASE i # k /\ j # k
      <3>1. old(i) \in DOMAIN q /\ old(j) \in DOMAIN q /\ old(i) < old(j)
            /\ q[old(i)] = x /\ q[old(j)] = y
        BY <1>3, <1>5, <2>1, <2>3
      <3> QED BY <3>1 DEF Before
    <2> QED BY <2>2, <2>3
  <1> QED BY <1>6, <1>7 DEF r

LEMMA JoinedMembers ==
  ASSUME NEW p, NEW q, Queued(p), Queued(q)
  PROVE  /\ Queued(p \o q)
         /\ \A x : Member(p \o q, x) => Member(p, x) \/ Member(q, x)
         /\ \A x, y : Before(p \o q, x, y) =>
              \/ Before(p, x, y) \/ Before(q, x, y)
              \/ Member(p, x) /\ Member(q, y)
  <1> DEFINE r == p \o q
  <1>1. /\ Queued(r)
        /\ \A k \in DOMAIN r :
             \/ k \in DOMAIN p /\ r[k] = p[k]
             \/ k - Len(p) \in DOMAIN q /\ r[k] = q[k - Len(p)]
    BY Joined
  <1>2. /\ Len(p) \in Nat /\ Len(q) \in Nat /\ DOMAIN p = 1..Len(p) /\ DOMAIN q = 1..Len(q)
        /\ Len(r) \in Nat /\ DOMAIN r = 1..Len(r)
    BY <1>1, QueuedIsSeq
  <1> HIDE DEF r
  <1>3. \A x : Member(r, x) => Member(p, x) \/ Member(q, x) BY <1>1 DEF Member
  <1>4. ASSUME NEW x, NEW y, Before(r, x, y)
        PROVE  \/ Before(p, x, y) \/ Before(q, x, y)
               \/ Member(p, x) /\ Member(q, y)
    <2>1. PICK i \in DOMAIN r, j \in DOMAIN r : i < j /\ r[i] = x /\ r[j] = y
      BY <1>4 DEF Before
    <2>2. i \in Nat /\ j \in Nat BY <1>2
    <2>3. CASE i \in DOMAIN p /\ r[i] = p[i] /\ j \in DOMAIN p /\ r[j] = p[j]
      BY <2>1, <2>3 DEF Before
    <2>4. CASE i \in DOMAIN p /\ r[i] = p[i] /\ j - Len(p) \in DOMAIN q /\ r[j] = q[j - Len(p)]
      BY <2>1, <2>4 DEF Member
    <2>5. CASE /\ i - Len(p) \in DOMAIN q /\ r[i] = q[i - Len(p)]
               /\ j - Len(p) \in DOMAIN q /\ r[j] = q[j - Len(p)]
      <3>1. i - Len(p) < j - Len(p) BY <1>2, <2>1, <2>2
      <3> QED BY <2>1, <2>5, <3>1 DEF Before
    <2>6. CASE i - Len(p) \in DOMAIN q /\ j \in DOMAIN p
      BY <1>2, <2>1, <2>2, <2>6
    <2> QED BY <1>1, <2>3, <2>4, <2>5, <2>6
  <1> QED BY <1>1, <1>3, <1>4 DEF r

\* A set, in some order
LEMMA SetToSeqParts ==
  ASSUME NEW S, IsFiniteSet(S)
  PROVE  Queued(SetToSeq(S)) /\ \A x : Member(SetToSeq(S), x) => x \in S
  <1>1. Cardinality(S) \in Nat /\ ExistsBijection(1..Cardinality(S), S) BY FS_CardinalityType
  <1>2. PICK n \in Nat : n = Cardinality(S) BY <1>1
  <1>3. \E f \in [1..n -> S] : IsInjective(f)
    BY <1>1, <1>2 DEF ExistsBijection, Bijection, Injection
  <1>4. SetToSeq(S) \in [1..n -> S] BY <1>2, <1>3 DEF SetToSeq
  <1>5. SetToSeq(S) \in Seq(S) BY <1>4, SeqDef
  <1>6. \A x : Member(SetToSeq(S), x) => x \in S BY <1>4 DEF Member
  <1> QED BY <1>5, <1>6, SeqIsQueued
=============================================================================
