------------------------ MODULE RunObservationProofs ------------------------
(***************************************************************************)
(* Proofs about RunObservation for every number of events, observers and   *)
(* lost connections and for every page, wire and receiver size: a follow   *)
(* prints what it is owed and ends fully told, status answers never go     *)
(* back, and history pages join up.                                        *)
(*                                                                         *)
(* The argument is about stretches: a sequence of frames carries what is   *)
(* due between two cursors.  Stretches that meet join, the first frame of  *)
(* one can be taken off, and what is printed, received, sent and pending   *)
(* always are adjacent stretches.                                          *)
(***************************************************************************)
EXTENDS RunObservation, FiniteSetTheorems, TLAPS

-------------------------------------------------------------------------------
(* Cursors in order. *)

\* Every set of numbers that has a member has a least one: the form in which induction is used.
LEMMA LeastNumber ==
    ASSUME NEW T, T \subseteq Nat, T # {}
    PROVE  \E x \in T : \A y \in T : x <= y
  <1> DEFINE R == {p \in Nat \X Nat : p[1] < p[2]}
  <1>1. R = OpToRel(<, Nat)
    BY Zenon DEF OpToRel
  <1>2. IsWellFoundedOn(R, Nat)
    BY <1>1, NatLessThanWellFounded, Zenon
  <1> HIDE DEF R
  <1>3. PICK x \in T : \A y \in T : ~ (<<y, x>> \in R)
    BY <1>2, WFMin
  <1>4. ASSUME NEW y \in T PROVE x <= y
    <2>1. x \in Nat /\ y \in Nat
      OBVIOUS
    <2>2. ~ (<<y, x>> \in R)
      BY <1>3
    <2>3. ~ (y < x)
      BY <2>1, <2>2 DEF R
    <2>4. QED
      BY <2>1, <2>3
  <1>5. QED
    BY <1>4

\* q is the members of S in increasing order.
Lists(q, S) ==
    /\ q \in Seq(S)
    /\ \A i, j \in 1..Len(q) : i < j => q[i] < q[j]
    /\ \A c \in S : \E i \in 1..Len(q) : q[i] = c

\* There is only one such sequence.
LEMMA ListsUnique ==
    ASSUME NEW S, S \subseteq Nat, NEW p, NEW q, Lists(p, S), Lists(q, S)
    PROVE  p = q
  <1>0. \A c \in S : c \in Nat
    OBVIOUS
  <1>1. ASSUME NEW u, NEW v, Lists(u, S), Lists(v, S), NEW i \in 1..Len(u), i \in 1..Len(v),
               \A k \in 1..(i - 1) : u[k] = v[k]
        PROVE  ~ (u[i] < v[i])
    <2>1. SUFFICES ASSUME u[i] < v[i] PROVE FALSE
      OBVIOUS
    <2>8. u[i] \in S /\ v[i] \in S
      BY <1>1 DEF Lists
    <2>2. u[i] \in S /\ u[i] \in Nat /\ v[i] \in Nat
      BY <1>0, <2>8
    <2>3. PICK j \in 1..Len(v) : v[j] = u[i]
      BY <1>1, <2>2 DEF Lists
    <2>4. CASE j < i
      <3>1. j \in 1..(i - 1) /\ j \in 1..Len(u)
        BY <1>1, <2>4, <2>3 DEF Lists
      <3>2. u[j] = v[j] /\ u[j] < u[i]
        BY <1>1, <3>1, <2>4 DEF Lists
      <3>5. u[j] \in S
        BY <1>1, <3>1 DEF Lists
      <3>3. u[j] \in Nat
        BY <1>0, <3>5
      <3>4. QED
        BY <3>2, <2>3, <3>3, <2>2
    <2>5. CASE j = i
      BY <2>5, <2>3, <2>1, <2>2
    <2>6. CASE j > i
      <3>1. v[i] < v[j]
        BY <1>1, <2>6 DEF Lists
      <3>2. QED
        BY <3>1, <2>3, <2>1, <2>2
    <2>7. QED
      BY <2>4, <2>5, <2>6, <1>1, <2>3 DEF Lists
  <1>2. ASSUME NEW u, NEW v, Lists(u, S), Lists(v, S), NEW k \in 1..Len(u), k \notin 1..Len(v),
               \A l \in 1..Len(v) : u[l] = v[l]
        PROVE  FALSE
    <2>1. u[k] \in S /\ Len(u) \in Nat /\ Len(v) \in Nat
      BY <1>2 DEF Lists
    <2>7. u[k] \in Nat
      BY <1>0, <2>1
    <2>2. PICK j \in 1..Len(v) : v[j] = u[k]
      BY <1>2, <2>1 DEF Lists
    <2>3. j < k /\ j \in 1..Len(u)
      BY <1>2, <2>1
    <2>4. u[j] < u[k]
      BY <1>2, <2>3 DEF Lists
    <2>5. u[j] = u[k]
      BY <1>2, <2>2
    <2>6. QED
      BY <2>4, <2>5, <2>7
  <1>3. Len(p) \in Nat /\ Len(q) \in Nat
    BY DEF Lists
  <1>4. \A i \in 1..Len(p) : i \in 1..Len(q) => p[i] = q[i]
    <2> DEFINE B == {i \in Nat : i \in 1..Len(p) /\ i \in 1..Len(q) /\ p[i] # q[i]}
    <2>1. SUFFICES ASSUME B # {} PROVE FALSE
      BY <1>3
    <2>2. PICK i \in B : \A y \in B : i <= y
      BY <2>1, LeastNumber
    <2>3. i \in 1..Len(p) /\ i \in 1..Len(q) /\ p[i] # q[i]
      OBVIOUS
    <2>4. \A k \in 1..(i - 1) : p[k] = q[k]
      BY <2>2, <2>3, <1>3
    <2>5. ~ (p[i] < q[i])
      BY <1>1, <2>3, <2>4, Zenon
    <2>6. ~ (q[i] < p[i])
      BY <1>1, <2>3, <2>4, Zenon
    <2>9. p[i] \in S /\ q[i] \in S
      BY <2>3 DEF Lists
    <2>7. p[i] \in Nat /\ q[i] \in Nat
      BY <1>0, <2>9
    <2>8. QED
      BY <2>5, <2>6, <2>7, <2>3
  <1>5. Len(p) = Len(q)
    <2>1. CASE Len(q) < Len(p)
      <3>1. \A l \in 1..Len(q) : p[l] = q[l]
        BY <1>3, <1>4, <2>1
      <3>2. Len(q) + 1 \in 1..Len(p) /\ Len(q) + 1 \notin 1..Len(q)
        BY <1>3, <2>1
      <3>3. QED
        BY <1>2, <3>1, <3>2, Zenon
    <2>2. CASE Len(p) < Len(q)
      <3>1. \A l \in 1..Len(p) : q[l] = p[l]
        BY <1>3, <1>4, <2>2
      <3>2. Len(p) + 1 \in 1..Len(q) /\ Len(p) + 1 \notin 1..Len(p)
        BY <1>3, <2>2
      <3>3. QED
        BY <1>2, <3>1, <3>2, Zenon
    <2>3. QED
      BY <2>1, <2>2, <1>3
  <1>6. QED
    BY <1>3, <1>4, <1>5 DEF Lists

\* There is one, as long as its set of numbers.
LEMMA ListsExists ==
    ASSUME NEW n \in Nat, NEW S, S \subseteq 1..n
    PROVE  \E q : Lists(q, S)
  <1> DEFINE Good(m) == \A U \in SUBSET (1..m) : \E q : Lists(q, U)
             B == {m \in Nat : ~Good(m)}
  <1>1. SUFFICES ASSUME B # {} PROVE FALSE
    OBVIOUS
  <1>2. PICK m \in B : \A y \in B : m <= y
    BY <1>1, LeastNumber
  <1>12. m \in Nat
    OBVIOUS
  <1>3. PICK U \in SUBSET (1..m) : ~ \E q : Lists(q, U)
    OBVIOUS
  <1>4. m # 0
    <2>1. SUFFICES ASSUME m = 0 PROVE FALSE
      OBVIOUS
    <2>2. U = {}
      BY <2>1
    <2>3. Lists(<<>>, U)
      BY <2>2 DEF Lists
    <2>4. QED
      BY <2>3, <1>3
  <1>5. m - 1 \in Nat /\ m - 1 \notin B
    <2>1. m \in Nat
      OBVIOUS
    <2>2. m - 1 \in Nat /\ ~ (m <= m - 1)
      BY <2>1, <1>4
    <2> HIDE DEF B
    <2>3. QED
      BY <1>2, <2>2
  <1>6. Good(m - 1)
    BY <1>5
  <1> DEFINE V == U \ {m}
  <1>7. V \in SUBSET (1..(m - 1))
    BY <1>4
  <1>8. PICK q : Lists(q, V)
    BY <1>6, <1>7
  <1>9. CASE m \notin U
    BY <1>8, <1>3, <1>9
  <1>10. CASE m \in U
    <2> HIDE DEF B, Good
    <2>0. q \in Seq(V) /\ Len(q) \in Nat
      BY <1>8 DEF Lists
    <2>1. q \in Seq(U) /\ Append(q, m) \in Seq(U)
      BY <1>10, <2>0
    <2>2. /\ Len(Append(q, m)) = Len(q) + 1
          /\ Append(q, m)[Len(q) + 1] = m
          /\ \A i \in 1..Len(q) : Append(q, m)[i] = q[i] /\ q[i] \in V
      BY <2>0, <2>1
    <2>3. \A i, j \in 1..Len(Append(q, m)) : i < j => Append(q, m)[i] < Append(q, m)[j]
      <3>1. SUFFICES ASSUME NEW i \in 1..(Len(q) + 1), NEW j \in 1..(Len(q) + 1), i < j
                     PROVE  Append(q, m)[i] < Append(q, m)[j]
        BY <2>2
      <3>2. CASE j = Len(q) + 1
        <4>1. i \in 1..Len(q)
          BY <2>0, <3>1, <3>2
        <4>2. q[i] \in 1..(m - 1)
          BY <4>1, <2>2, <1>7
        <4>3. q[i] < m
          BY <4>2, <1>12
        <4>4. QED
          BY <4>1, <4>3, <2>2, <3>2
      <3>3. CASE j # Len(q) + 1
        <4>1. i \in 1..Len(q) /\ j \in 1..Len(q)
          BY <2>0, <3>1, <3>3
        <4>2. q[i] < q[j]
          BY <4>1, <3>1, <1>8 DEF Lists
        <4>3. QED
          BY <4>1, <4>2, <2>2
      <3>4. QED
        BY <3>2, <3>3
    <2>4. ASSUME NEW c \in U PROVE \E i \in 1..Len(Append(q, m)) : Append(q, m)[i] = c
      <3>1. CASE c = m
        BY <3>1, <2>2, <2>0
      <3>2. CASE c # m
        <4>1. PICK i \in 1..Len(q) : q[i] = c
          BY <3>2, <1>8 DEF Lists
        <4>2. QED
          BY <4>1, <2>2, <2>0
      <3>3. QED
        BY <3>1, <3>2
    <2>5. Lists(Append(q, m), U)
      BY <2>1, <2>3, <2>4 DEF Lists
    <2>6. QED
      BY <2>5, <1>3
  <1>11. QED
    BY <1>9, <1>10

\* Its length is the size of the set.
LEMMA ListsLength ==
    ASSUME NEW S, S \subseteq Nat, NEW q, Lists(q, S)
    PROVE  /\ Len(q) = Cardinality(S)
           /\ IsFiniteSet(S)
           /\ q \in SetToSeqs(S)
  <1>0. Len(q) \in Nat /\ q \in [1..Len(q) -> S]
    BY DEF Lists
  <1>1. \A i, j \in 1..Len(q) : i # j => q[i] # q[j]
    <2>1. SUFFICES ASSUME NEW i \in 1..Len(q), NEW j \in 1..Len(q), i # j PROVE q[i] # q[j]
      OBVIOUS
    <2>2. q[i] \in S /\ q[j] \in S /\ i \in Nat /\ j \in Nat
      BY <1>0
    <2>5. q[i] \in Nat /\ q[j] \in Nat
      BY <2>2
    <2>3. i < j \/ j < i
      BY <2>1, <2>2
    <2>4. QED
      BY <2>1, <2>5, <2>3 DEF Lists
  <1>2. q \in Bijection(1..Len(q), S)
    BY <1>0, <1>1 DEF Bijection, Injection, Surjection, Lists, IsInjective
  <1>3. ExistsBijection(1..Len(q), S)
    BY <1>2 DEF ExistsBijection
  <1>4. Cardinality(S) = Len(q)
    BY <1>0, <1>3, FS_CountingElements
  <1>5. IsFiniteSet(S)
    BY <1>0, <1>3, FS_NatBijection
  <1>6. q \in SetToSeqs(S)
    BY <1>0, <1>1, <1>4 DEF SetToSeqs
  <1>7. QED
    BY <1>4, <1>5, <1>6

\* InOrder is that sequence.
LEMMA InOrderLists ==
    ASSUME NEW n \in Nat, NEW S, S \subseteq 1..n
    PROVE  /\ Lists(InOrder(S), S)
           /\ Len(InOrder(S)) = Cardinality(S)
           /\ Cardinality(S) \in Nat
  <1>0. S \subseteq Nat
    OBVIOUS
  <1>1. PICK q : Lists(q, S)
    BY ListsExists
  <1>2. q \in SetToSeqs(S) /\ IsFiniteSet(S)
    BY <1>0, <1>1, ListsLength
  <1>3. \A i, j \in DOMAIN q : i < j => q[i] < q[j]
    BY <1>1 DEF Lists
  <1> DEFINE r == InOrder(S)
  <1>4. r \in SetToSeqs(S) /\ \A i, j \in DOMAIN r : i < j => r[i] < r[j]
    BY <1>2, <1>3 DEF InOrder
  <1> HIDE DEF r
  <1>5. Cardinality(S) \in Nat
    BY <1>2, FS_CardinalityType
  <1>6. r \in [1..Cardinality(S) -> S] /\ \A i, j \in 1..Cardinality(S) : i # j => r[i] # r[j]
    BY <1>4 DEF SetToSeqs
  <1>7. r \in Seq(S) /\ Len(r) = Cardinality(S)
    BY <1>5, <1>6
  <1>8. r \in Injection(1..Cardinality(S), S)
    BY <1>6 DEF Injection, IsInjective
  <1>9. Cardinality(1..Cardinality(S)) = Cardinality(S)
    BY <1>5, FS_Interval
  <1>10. r \in Surjection(1..Cardinality(S), S)
    BY <1>8, <1>9, <1>2, FS_Injection
  <1>11. \A c \in S : \E i \in 1..Len(r) : r[i] = c
    BY <1>10, <1>7 DEF Surjection
  <1>12. Lists(r, S)
    BY <1>7, <1>4, <1>11 DEF Lists
  <1>13. QED
    BY <1>12, <1>7, <1>5 DEF r

-------------------------------------------------------------------------------
(* What a sequence of frames tells. *)

Closings == {"done", "unavailable"}
Frame == [reason: {"event"} \cup Closings, cursor: Nat, status: Nat]

\* The status after a cursor, and the notification that belongs to it.
Count(l, c) == Cardinality({k \in 1..c : l[k] # "log"})
Note(l, kind, c) == Event(c, IF kind = "watch" THEN Count(l, c) ELSE 0)

\* The cursors past a, up to b, that are passed on.
Due(l, kind, a, b) == {c \in (a + 1)..b : Notifies(kind, l[c])}

Events(s) == \A i \in 1..Len(s) : s[i].reason = "event"

\* The frames s are the notifications due between two cursors, each once and in order; a
\* close frame may come last.
Carries(l, kind, s, a, b) ==
    /\ s \in Seq(Frame)
    /\ \A i \in 1..Len(s) : s[i].reason = "event" =>
          s[i].cursor \in Due(l, kind, a, b) /\ s[i] = Note(l, kind, s[i].cursor)
    /\ \A i, j \in 1..Len(s) : i < j =>
          s[i].reason = "event" /\ (s[j].reason = "event" => s[i].cursor < s[j].cursor)
    /\ \A c \in Due(l, kind, a, b) : \E i \in 1..Len(s) : s[i] = Note(l, kind, c)

\* A note is a frame.
LEMMA NoteType ==
    ASSUME NEW l, NEW kind, NEW c \in Nat
    PROVE  /\ Note(l, kind, c) \in Frame
           /\ Note(l, kind, c).reason = "event" /\ Note(l, kind, c).cursor = c
           /\ Count(l, c) \in Nat
  <1>1. IsFiniteSet(1..c)
    BY FS_Interval
  <1>2. IsFiniteSet({k \in 1..c : l[k] # "log"})
    BY <1>1, FS_Subset
  <1>3. Count(l, c) \in Nat
    BY <1>2, FS_CardinalityType DEF Count
  <1>4. QED
    BY <1>3 DEF Note, Event, Frame

\* What a follower is owed is what carries it.
LEMMA CarriesIsOwed ==
    ASSUME NEW f, NEW s, NEW b \in Nat, f.start \in Nat,
           Carries(ledger, f.kind, s, f.start, b), Events(s)
    PROVE  s = Owed(f, b)
  <1> DEFINE due == {c \in 1..b : c > f.start /\ Notifies(f.kind, ledger[c])}
             q == [i \in 1..Len(s) |-> s[i].cursor]
  <1>1. due = Due(ledger, f.kind, f.start, b)
    BY DEF Due
  <1>2. Len(s) \in Nat /\ s \in [1..Len(s) -> Frame]
    BY DEF Carries
  <1>3. \A i \in 1..Len(s) : s[i].cursor \in due /\ s[i] = Note(ledger, f.kind, s[i].cursor)
    BY <1>1 DEF Carries, Events
  <1>4. Lists(q, due)
    <2> HIDE DEF due
    <2>1. q \in Seq(due) /\ Len(q) = Len(s)
      BY <1>2, <1>3
    <2>2. ASSUME NEW c \in due PROVE \E i \in 1..Len(q) : q[i] = c
      <3>1. PICK i \in 1..Len(s) : s[i] = Note(ledger, f.kind, c)
        BY <1>1 DEF Carries
      <3>2. c \in Nat
        BY DEF due
      <3>3. s[i].cursor = c
        BY <3>1, <3>2, NoteType
      <3>4. QED
        BY <3>3, <2>1
    <2>3. \A i, j \in 1..Len(q) : i < j => q[i] < q[j]
      BY <2>1 DEF Carries, Events
    <2>4. QED
      BY <2>1, <2>2, <2>3 DEF Lists
  <1>5. /\ Lists(InOrder(due), due) /\ Len(InOrder(due)) = Cardinality(due)
        /\ Cardinality(due) \in Nat
    <2>1. due \subseteq 1..b
      OBVIOUS
    <2>2. QED
      BY <2>1, InOrderLists
  <1>6. q = InOrder(due)
    <2>1. due \subseteq Nat
      OBVIOUS
    <2>2. QED
      BY <2>1, <1>4, <1>5, ListsUnique
  <1>7. Len(s) = Cardinality(due)
    BY <1>2, <1>5, <1>6
  <1>8. Owed(f, b) = [i \in 1..Cardinality(due) |-> Note(ledger, f.kind, InOrder(due)[i])]
    BY DEF Owed, Note, Count, StatusAt
  <1> HIDE DEF due
  <1>9. \A i \in 1..Len(s) : s[i] = Note(ledger, f.kind, InOrder(due)[i])
    BY <1>3, <1>6
  <1>10. QED
    BY <1>2, <1>7, <1>8, <1>9

\* The notes of the cursors that are due carry them.
LEMMA NotesCarry ==
    ASSUME NEW l, NEW kind, NEW a \in Nat, NEW b \in Nat
    PROVE  LET S == Due(l, kind, a, b)
               t == [i \in 1..Cardinality(S) |-> Note(l, kind, InOrder(S)[i])]
           IN  Carries(l, kind, t, a, b) /\ Events(t)
  <1> DEFINE S == Due(l, kind, a, b)
             t == [i \in 1..Cardinality(S) |-> Note(l, kind, InOrder(S)[i])]
  <1>1. /\ Lists(InOrder(S), S) /\ Len(InOrder(S)) = Cardinality(S)
        /\ Cardinality(S) \in Nat
    <2>1. S \subseteq 1..b
      BY DEF Due
    <2>2. QED
      BY <2>1, InOrderLists
  <1>2. \A c \in S : c \in Nat
    BY DEF Due
  <1> HIDE DEF S
  <1>3. \A i \in 1..Cardinality(S) : InOrder(S)[i] \in S
    BY <1>1 DEF Lists
  <1>4. \A i \in 1..Cardinality(S) :
          t[i] \in Frame /\ t[i].reason = "event" /\ t[i].cursor = InOrder(S)[i]
    BY <1>2, <1>3, NoteType
  <1>5. t \in Seq(Frame) /\ Len(t) = Cardinality(S)
    BY <1>1, <1>4
  <1>6. Events(t)
    BY <1>4, <1>5 DEF Events
  <1>7. ASSUME NEW c \in S PROVE \E i \in 1..Len(t) : t[i] = Note(l, kind, c)
    <2>1. PICK i \in 1..Cardinality(S) : InOrder(S)[i] = c
      BY <1>1 DEF Lists
    <2>2. QED
      BY <2>1, <1>5
  <1>8. \A i, j \in 1..Len(t) : i < j => t[i].cursor < t[j].cursor
    BY <1>1, <1>4, <1>5 DEF Lists
  <1>9. \A i \in 1..Len(t) : t[i].cursor \in S /\ t[i] = Note(l, kind, t[i].cursor)
    BY <1>3, <1>4, <1>5
  <1>10. Carries(l, kind, t, a, b)
    BY <1>4, <1>5, <1>7, <1>8, <1>9 DEF Carries, S
  <1>11. QED
    BY <1>6, <1>10 DEF S

\* Nothing is due, nothing is carried.
LEMMA CarriesNothing ==
    ASSUME NEW l, NEW kind, NEW a \in Nat, NEW b \in Nat, b <= a
    PROVE  Due(l, kind, a, b) = {} /\ Carries(l, kind, <<>>, a, b) /\ Events(<<>>)
  <1>1. Due(l, kind, a, b) = {}
    BY DEF Due
  <1>2. QED
    BY <1>1 DEF Carries, Events

\* Two stretches that meet.
LEMMA CarriesJoin ==
    ASSUME NEW l, NEW kind, NEW s, NEW t, NEW a \in Nat, NEW b \in Nat, NEW c \in Nat,
           a <= b, b <= c, Carries(l, kind, s, a, b), Events(s), Carries(l, kind, t, b, c)
    PROVE  Carries(l, kind, s \o t, a, c)
  <1> DEFINE u == s \o t
  <1>1. /\ s \in Seq(Frame) /\ t \in Seq(Frame) /\ u \in Seq(Frame)
        /\ Len(s) \in Nat /\ Len(t) \in Nat /\ Len(u) = Len(s) + Len(t)
    BY DEF Carries
  <1>2. /\ \A i \in 1..Len(s) : u[i] = s[i]
        /\ \A i \in 1..Len(t) : u[Len(s) + i] = t[i]
        /\ \A i \in 1..Len(u) : i \notin 1..Len(s) => i - Len(s) \in 1..Len(t) /\ u[i] = t[i - Len(s)]
    BY <1>1
  <1>3. /\ Due(l, kind, a, c) = Due(l, kind, a, b) \cup Due(l, kind, b, c)
        /\ \A x \in Due(l, kind, a, b) : x \in Nat /\ x <= b
        /\ \A x \in Due(l, kind, b, c) : x \in Nat /\ b < x
    BY DEF Due
  <1> HIDE DEF u
  <1>4. ASSUME NEW i \in 1..Len(u), u[i].reason = "event"
        PROVE  u[i].cursor \in Due(l, kind, a, c) /\ u[i] = Note(l, kind, u[i].cursor)
    <2>1. CASE i \in 1..Len(s)
      BY <2>1, <1>2, <1>3, <1>4 DEF Carries
    <2>2. CASE i \notin 1..Len(s)
      <3>1. i - Len(s) \in 1..Len(t) /\ u[i] = t[i - Len(s)]
        BY <2>2, <1>2
      <3>2. t[i - Len(s)].cursor \in Due(l, kind, b, c)
            /\ t[i - Len(s)] = Note(l, kind, t[i - Len(s)].cursor)
        BY <3>1, <1>4 DEF Carries
      <3>3. QED
        BY <3>1, <3>2, <1>3
    <2>3. QED
      BY <2>1, <2>2
  <1>5. ASSUME NEW i \in 1..Len(u), NEW j \in 1..Len(u), i < j
        PROVE  u[i].reason = "event" /\ (u[j].reason = "event" => u[i].cursor < u[j].cursor)
    <2>1. CASE j \in 1..Len(s)
      <3>1. i \in 1..Len(s)
        BY <1>1, <1>5, <2>1
      <3>2. QED
        BY <2>1, <3>1, <1>2, <1>5 DEF Carries
    <2>2. CASE i \in 1..Len(s) /\ j \notin 1..Len(s)
      <3>1. u[i] = s[i] /\ s[i].reason = "event" /\ s[i].cursor \in Due(l, kind, a, b)
        BY <2>2, <1>2 DEF Carries, Events
      <3>2. j - Len(s) \in 1..Len(t) /\ u[j] = t[j - Len(s)]
        BY <2>2, <1>2
      <3>3. u[j].reason = "event" => u[j].cursor \in Due(l, kind, b, c)
        BY <3>2 DEF Carries
      <3>4. QED
        BY <3>1, <3>3, <1>3
    <2>3. CASE i \notin 1..Len(s) /\ j \notin 1..Len(s)
      <3>1. /\ i - Len(s) \in 1..Len(t) /\ j - Len(s) \in 1..Len(t) /\ i - Len(s) < j - Len(s)
            /\ u[i] = t[i - Len(s)] /\ u[j] = t[j - Len(s)]
        BY <2>3, <1>1, <1>2, <1>5
      <3>2. \A p, q \in 1..Len(t) : p < q =>
              t[p].reason = "event" /\ (t[q].reason = "event" => t[p].cursor < t[q].cursor)
        BY DEF Carries
      <3>3. QED
        BY <3>1, <3>2
    <2>4. QED
      BY <2>1, <2>2, <2>3
  <1>6. ASSUME NEW x \in Due(l, kind, a, c) PROVE \E i \in 1..Len(u) : u[i] = Note(l, kind, x)
    <2>1. CASE x \in Due(l, kind, a, b)
      <3>1. PICK i \in 1..Len(s) : s[i] = Note(l, kind, x)
        BY <2>1 DEF Carries
      <3>2. i \in 1..Len(u) /\ u[i] = s[i]
        BY <1>1, <1>2
      <3>3. QED
        BY <3>1, <3>2
    <2>2. CASE x \in Due(l, kind, b, c)
      <3>1. PICK i \in 1..Len(t) : t[i] = Note(l, kind, x)
        BY <2>2 DEF Carries
      <3>2. Len(s) + i \in 1..Len(u)
        BY <1>1
      <3>3. QED
        BY <3>1, <3>2, <1>2
    <2>3. QED
      BY <2>1, <2>2, <1>3
  <1>7. QED
    BY <1>1, <1>4, <1>5, <1>6 DEF Carries, u

\* The first notification, and what is left after it.
LEMMA CarriesHead ==
    ASSUME NEW l, NEW kind, NEW s, NEW a \in Nat, NEW b \in Nat,
           Carries(l, kind, s, a, b), s # <<>>, Head(s).reason = "event"
    PROVE  LET c == Head(s).cursor
           IN  /\ c \in Nat /\ a < c /\ c <= b
               /\ Carries(l, kind, <<Head(s)>>, a, c) /\ Events(<<Head(s)>>)
               /\ Carries(l, kind, Tail(s), c, b)
  <1> DEFINE c == Head(s).cursor
             t == Tail(s)
             h == <<Head(s)>>
  <1>1. /\ s \in Seq(Frame) /\ Len(s) \in Nat /\ Len(s) >= 1 /\ Head(s) = s[1] /\ s[1] \in Frame
        /\ t \in Seq(Frame) /\ Len(t) = Len(s) - 1
        /\ \A i \in 1..Len(t) : i + 1 \in 1..Len(s) /\ t[i] = s[i + 1]
    BY DEF Carries
  <1>2. c \in Due(l, kind, a, b) /\ s[1] = Note(l, kind, c) /\ s[1].reason = "event"
    BY <1>1 DEF Carries
  <1>3. c \in Nat /\ a < c /\ c <= b
    BY <1>2 DEF Due
  <1>4. /\ \A x \in Due(l, kind, c, b) : x \in Nat /\ c < x /\ x \in Due(l, kind, a, b)
        /\ \A x \in Due(l, kind, a, b) : x \in Nat /\ (c < x => x \in Due(l, kind, c, b))
        /\ \A x \in Due(l, kind, a, c) : x \in Nat /\ x <= c /\ x \in Due(l, kind, a, b)
        /\ c \in Due(l, kind, a, c)
    BY <1>2, <1>3 DEF Due
  <1>5. ASSUME NEW x \in Due(l, kind, a, b)
        PROVE  \E i \in 1..Len(s) : s[i] = Note(l, kind, x) /\ s[i].reason = "event" /\ s[i].cursor = x
    <2>1. PICK i \in 1..Len(s) : s[i] = Note(l, kind, x)
      BY DEF Carries
    <2>2. QED
      BY <2>1, <1>4, NoteType
  <1>6. \A i \in 2..Len(s) : s[i].reason = "event" => c < s[i].cursor
    BY <1>1, <1>2 DEF Carries
  <1> HIDE DEF c, t
  <1>7. Carries(l, kind, t, c, b)
    <2>1. ASSUME NEW i \in 1..Len(t), t[i].reason = "event"
          PROVE  t[i].cursor \in Due(l, kind, c, b) /\ t[i] = Note(l, kind, t[i].cursor)
      <3>1. i + 1 \in 2..Len(s) /\ i + 1 \in 1..Len(s) /\ t[i] = s[i + 1]
        BY <1>1
      <3>2. s[i + 1].cursor \in Due(l, kind, a, b) /\ s[i + 1] = Note(l, kind, s[i + 1].cursor)
        BY <3>1, <2>1 DEF Carries
      <3>3. QED
        BY <3>1, <3>2, <2>1, <1>4, <1>6
    <2>2. ASSUME NEW i \in 1..Len(t), NEW j \in 1..Len(t), i < j
          PROVE  t[i].reason = "event" /\ (t[j].reason = "event" => t[i].cursor < t[j].cursor)
      <3>1. i + 1 \in 1..Len(s) /\ j + 1 \in 1..Len(s) /\ i + 1 < j + 1 /\ t[i] = s[i + 1] /\ t[j] = s[j + 1]
        BY <1>1, <2>2
      <3>2. QED
        BY <3>1 DEF Carries
    <2>3. ASSUME NEW x \in Due(l, kind, c, b) PROVE \E i \in 1..Len(t) : t[i] = Note(l, kind, x)
      <3>1. x \in Due(l, kind, a, b) /\ x \in Nat /\ c < x
        BY <1>4
      <3>2. PICK i \in 1..Len(s) : s[i] = Note(l, kind, x) /\ s[i].cursor = x
        BY <1>5, <3>1
      <3>3. s[1].cursor = c
        BY <1>1 DEF c
      <3>4. i # 1
        BY <3>1, <3>2, <3>3, <1>3
      <3>5. i - 1 \in 1..Len(t) /\ i = (i - 1) + 1
        BY <1>1, <3>4
      <3>6. t[i - 1] = s[i]
        BY <3>5, <1>1
      <3>7. QED
        BY <3>2, <3>5, <3>6
    <2>4. QED
      BY <2>1, <2>2, <2>3, <1>1 DEF Carries
  <1>8. Carries(l, kind, h, a, c) /\ Events(h)
    <2>1. h \in Seq(Frame) /\ Len(h) = 1 /\ h[1] = s[1] /\ s[1].cursor = c
      BY <1>1 DEF c
    <2>2. ASSUME NEW x \in Due(l, kind, a, c) PROVE x = c
      <3>1. x \in Due(l, kind, a, b) /\ x \in Nat /\ x <= c
        BY <1>4
      <3>2. PICK i \in 1..Len(s) : s[i].cursor = x /\ s[i].reason = "event"
        BY <1>5, <3>1
      <3>3. i = 1 \/ i \in 2..Len(s)
        BY <1>1
      <3>4. QED
        BY <3>1, <3>2, <3>3, <2>1, <1>6, <1>3
    <2> HIDE DEF h
    <2>3. QED
      BY <2>1, <2>2, <1>2, <1>4 DEF Carries, Events
  <1>9. QED
    BY <1>3, <1>7, <1>8 DEF c, t

\* The frames in front.
LEMMA CarriesPrefix ==
    ASSUME NEW l, NEW kind, NEW s, NEW t, NEW a \in Nat, NEW b \in Nat, a <= b,
           Carries(l, kind, s \o t, a, b), s \in Seq(Frame), t \in Seq(Frame), Events(s)
    PROVE  \E m \in a..b : Carries(l, kind, s, a, m)
  <1> DEFINE u == s \o t
             m == IF s = <<>> THEN a ELSE s[Len(s)].cursor
  <1>1. /\ u \in Seq(Frame) /\ Len(s) \in Nat /\ Len(t) \in Nat /\ Len(u) = Len(s) + Len(t)
        /\ \A i \in 1..Len(s) : u[i] = s[i] /\ i \in 1..Len(u)
    OBVIOUS
  <1>2. \A i \in 1..Len(s) : s[i].cursor \in Due(l, kind, a, b) /\ s[i] = Note(l, kind, s[i].cursor)
    BY <1>1 DEF Carries, Events
  <1>3. \A x \in Due(l, kind, a, b) : x \in Nat /\ a < x /\ x <= b
    BY DEF Due
  <1>4. \A i, j \in 1..Len(s) : i < j => s[i].cursor < s[j].cursor
    BY <1>1 DEF Carries, Events
  <1>5. CASE s = <<>>
    <2>1. a \in a..b /\ a <= a
      OBVIOUS
    <2>3. Carries(l, kind, <<>>, a, a)
      BY <2>1, CarriesNothing
    <2>2. QED
      BY <2>1, <2>3, <1>5
  <1>6. CASE s # <<>>
    <2>1. Len(s) \in 1..Len(s) /\ m = s[Len(s)].cursor /\ m \in Due(l, kind, a, b)
      BY <1>1, <1>2, <1>6
    <2>2. m \in Nat /\ a < m /\ m <= b /\ m \in a..b
      BY <2>1, <1>3
    <2> HIDE DEF m, u
    <2>3. /\ \A x \in Due(l, kind, a, m) : x \in Due(l, kind, a, b) /\ x \in Nat /\ x <= m
          /\ \A x \in Due(l, kind, a, b) : x <= m => x \in Due(l, kind, a, m)
      BY <2>2 DEF Due
    <2>4. \A i \in 1..Len(s) : s[i].cursor <= m
      <3>1. SUFFICES ASSUME NEW i \in 1..Len(s) PROVE s[i].cursor <= m
        OBVIOUS
      <3>2. i = Len(s) \/ i < Len(s)
        BY <1>1
      <3>3. s[i].cursor \in Nat
        BY <1>2, <1>3
      <3>4. QED
        BY <3>2, <3>3, <2>1, <2>2, <1>4
    <2>5. ASSUME NEW x \in Due(l, kind, a, m) PROVE \E i \in 1..Len(s) : s[i] = Note(l, kind, x)
      <3>1. x \in Due(l, kind, a, b) /\ x \in Nat /\ x <= m
        BY <2>3
      <3>2. PICK i \in 1..Len(u) : u[i] = Note(l, kind, x)
        BY <3>1 DEF Carries, u
      <3>3. u[i].reason = "event" /\ u[i].cursor = x
        BY <3>1, <3>2, NoteType
      <3>4. CASE i \in 1..Len(s)
        BY <3>2, <3>4, <1>1 DEF u
      <3>5. CASE i \notin 1..Len(s)
        <4>1. Len(s) \in 1..Len(u) /\ Len(s) < i
          BY <3>5, <1>1, <2>1
        <4>2. u[Len(s)].reason = "event" /\ u[Len(s)].cursor < u[i].cursor
          BY <4>1, <3>3 DEF Carries, u
        <4>3. u[Len(s)].cursor = m
          BY <1>1, <2>1 DEF u
        <4>4. QED
          BY <4>2, <4>3, <3>1, <3>3, <2>2
      <3>6. QED
        BY <3>4, <3>5
    <2>6. Carries(l, kind, s, a, m)
      BY <2>3, <2>4, <2>5, <1>2, <1>4 DEF Carries, Events
    <2>7. QED
      BY <2>2, <2>6
  <1>7. QED
    BY <1>5, <1>6

\* A close frame behind them.
LEMMA CarriesClose ==
    ASSUME NEW l, NEW kind, NEW s, NEW a \in Nat, NEW b \in Nat, NEW r \in Closings,
           Carries(l, kind, s, a, b), Events(s)
    PROVE  Carries(l, kind, Append(s, Close(r)), a, b)
  <1> DEFINE u == Append(s, Close(r))
  <1>1. Close(r) \in Frame /\ Close(r).reason # "event"
    BY DEF Close, Frame, Closings
  <1>2. /\ s \in Seq(Frame) /\ u \in Seq(Frame) /\ Len(s) \in Nat /\ Len(u) = Len(s) + 1
        /\ u[Len(s) + 1] = Close(r) /\ \A i \in 1..Len(s) : u[i] = s[i] /\ i \in 1..Len(u)
    BY <1>1 DEF Carries
  <1>3. \A i \in 1..Len(u) : i \in 1..Len(s) \/ i = Len(s) + 1
    BY <1>2
  <1> HIDE DEF u
  <1>4. \A i, j \in 1..Len(u) : i < j => i \in 1..Len(s)
    BY <1>2
  <1>5. ASSUME NEW i \in 1..Len(u), NEW j \in 1..Len(u), i < j
        PROVE  u[i].reason = "event" /\ (u[j].reason = "event" => u[i].cursor < u[j].cursor)
    BY <1>1, <1>2, <1>3, <1>4, <1>5 DEF Carries, Events
  <1>6. ASSUME NEW x \in Due(l, kind, a, b) PROVE \E i \in 1..Len(u) : u[i] = Note(l, kind, x)
    <2>1. PICK i \in 1..Len(s) : s[i] = Note(l, kind, x)
      BY DEF Carries
    <2>2. QED
      BY <2>1, <1>2
  <1>7. ASSUME NEW i \in 1..Len(u), u[i].reason = "event"
        PROVE  u[i].cursor \in Due(l, kind, a, b) /\ u[i] = Note(l, kind, u[i].cursor)
    BY <1>1, <1>2, <1>3, <1>7 DEF Carries
  <1>8. QED
    BY <1>2, <1>5, <1>6, <1>7 DEF Carries, u

\* An event that is appended changes nothing of what was due.
LEMMA CarriesLonger ==
    ASSUME NEW l \in Seq(Kinds), NEW e \in Kinds, NEW kind, NEW s, NEW a \in Nat, NEW b \in Nat,
           b <= Len(l) \/ b <= a, Carries(l, kind, s, a, b)
    PROVE  Carries(Append(l, e), kind, s, a, b)
  <1> DEFINE m == Append(l, e)
  <1>1. Len(l) \in Nat /\ \A k \in 1..Len(l) : m[k] = l[k]
    OBVIOUS
  <1> HIDE DEF m
  <1>2. Due(l, kind, a, b) = Due(m, kind, a, b)
    <2>1. CASE b <= a
      BY <2>1 DEF Due
    <2>2. CASE b <= Len(l)
      <3>1. \A c \in (a + 1)..b : c \in 1..Len(l)
        BY <2>2, <1>1
      <3>2. \A c \in (a + 1)..b : m[c] = l[c]
        BY <3>1, <1>1
      <3>3. QED
        BY <3>2 DEF Due
    <2>3. QED
      BY <2>1, <2>2
  <1>3. ASSUME NEW c \in Due(l, kind, a, b) PROVE Note(l, kind, c) = Note(m, kind, c)
    <2>1. c \in Nat /\ c <= Len(l)
      BY <1>1 DEF Due
    <2>2. \A k \in 1..c : m[k] = l[k]
      BY <2>1, <1>1
    <2>3. {k \in 1..c : l[k] # "log"} = {k \in 1..c : m[k] # "log"}
      BY <2>2
    <2>4. Count(l, c) = Count(m, c)
      BY <2>3 DEF Count
    <2>5. QED
      BY <2>4 DEF Note
  <1>4. QED
    BY <1>2, <1>3 DEF Carries, m

-------------------------------------------------------------------------------
(* The values the variables take. *)

SnapshotType == [cursor: Nat, terminal: BOOLEAN]
Subscription == [state: {"closed", "open", "refreshing", "done", "unavailable"},
                 kind: {"watch", "logs"}, start: Nat, scanned: Nat, projection: Nat,
                 pending: Seq(Frame), tail: SnapshotType, page: [first: Nat, last: Nat]]
Follower == [at: {"connecting", "following"} \cup Finished, kind: {"watch", "logs"}, start: Nat,
             from: Nat, printed: Seq(Frame), wire: Seq(Frame), queue: Seq(Frame),
             registered: BOOLEAN, backpressure: BOOLEAN, losses: Nat]
Statuses == {"open", "terminal", "runtime_failed"}
Entry == [tracked: BOOLEAN, cursor: Nat, status: Statuses, failed: BOOLEAN]
StatusCall == [state: {"idle", "reading", "observing"}, floor: 0..2, snapshot: SnapshotType,
               read: BOOLEAN, answer: Statuses \cup {"none", "error"}]
Reader == [state: {"idle", "loaded", "done", "gap"}, next: Nat, head: Nat, terminal: BOOLEAN,
           collected: Seq(Nat), read: Nat]

TypeOK ==
    /\ ledger \in Seq(Kinds) /\ entry \in Entry /\ handed \in BOOLEAN /\ told \in 0..2
    /\ sub \in [DOMAIN sub -> Subscription] /\ follow \in [DOMAIN sub -> Follower]
    /\ call \in [DOMAIN call -> StatusCall] /\ reader \in [DOMAIN reader -> Reader]

-------------------------------------------------------------------------------
(* The inductive invariant. *)

\* The terminal event is the last.
LedgerInv == \A c \in 1..Len(ledger) : ledger[c] = "terminal" => c = Len(ledger)

\* A snapshot of the ledger l, taken now or earlier.
Genuine(l, t) ==
    /\ t.cursor <= Len(l)
    /\ t.terminal <=> t.cursor > 0 /\ l[t.cursor] = "terminal"

\* The run is over, durably or in the controller's memory.  It stays so.
IsOver == entry.failed \/ Terminal

\* How far a subscription has brought its follower.
Through(s) == IF s.scanned > s.start THEN s.scanned ELSE s.start

\* What a subscription that ends of its own accord has seen.
Ended(l, over, s) ==
    /\ s.tail.cursor = s.scanned /\ s.start <= s.scanned
    /\ Genuine(l, s.tail)
    /\ s.tail.terminal \/ over

\* The projection of a watch is that of the events it has scanned; a page that was read
\* continues them up to the snapshot that came with it at most.
Scans(l, over, s) ==
    /\ s.scanned <= Len(l)
    /\ s.kind = "watch" => s.projection = Count(l, s.scanned)
    /\ Events(s.pending)
    /\ s.state # "open" => s.pending = <<>>
    /\ s.state = "refreshing" =>
          /\ s.page.first = s.scanned + 1 /\ s.scanned <= s.page.last
          /\ s.page.last <= s.tail.cursor /\ s.start <= s.tail.cursor
          /\ Genuine(l, s.tail)
    /\ s.state = "done" => Ended(l, over, s)

\* What was printed is what was due up to the cursor remembered.
Prints(l, f) ==
    /\ Carries(l, f.kind, f.printed, f.start, f.from) /\ Events(f.printed)
    /\ f.start <= f.from
    /\ f.from = f.start \/ f.from <= Len(l)
    /\ f.at = "following" => f.from <= Len(l)

\* Receiver, wire and subscription continue what was printed.
Receives(l, f, s) ==
    f.registered =>
        /\ f.at = "following" /\ s.kind = f.kind
        /\ s.start <= f.from /\ f.from <= Through(s)
        /\ Events(f.queue)
        /\ s.state # "closed" => Events(f.wire)
        /\ Carries(l, f.kind, f.queue \o (f.wire \o s.pending), f.from, Through(s))

\* A follower that is cut off has part of it, all of it when there is a close frame.
Drains(l, f, s) ==
    ~f.registered =>
        /\ f.wire = <<>> /\ s.state = "closed"
        /\ f.at = "following" =>
              /\ \E m \in f.from..Len(l) : Carries(l, f.kind, f.queue, f.from, m)
              /\ ~Events(f.queue) =>
                    /\ s.start <= f.from /\ f.from <= Through(s)
                    /\ Carries(l, f.kind, f.queue, f.from, Through(s))
        /\ f.at # "following" => f.queue = <<>>

\* A stream that was closed as done had ended.
Tells(q) == \E i \in 1..Len(q) : q[i].reason = "done"
Concludes(l, over, f, s) == Tells(f.queue) \/ Tells(f.wire) => Ended(l, over, s)

Sound(l, over, f, s) ==
    /\ Scans(l, over, s) /\ Prints(l, f) /\ Receives(l, f, s) /\ Drains(l, f, s)
    /\ Concludes(l, over, f, s)

FollowInv == \A w \in DOMAIN sub : Sound(ledger, IsOver, follow[w], sub[w])

\* The entry is never ahead of the ledger, and final only when the run is.
EntryInv ==
    /\ entry.cursor <= Len(ledger)
    /\ entry.status = "terminal" => Terminal /\ entry.cursor = Len(ledger)
    /\ entry.status = "runtime_failed" => entry.failed
    /\ entry.failed => entry.tracked /\ entry.status # "open"

\* What was answered is known: an answer of a failure leaves it in memory until the run has
\* ended, a final answer leaves nothing else to say.
ToldInv ==
    /\ told >= 1 => IsOver /\ (entry.tracked => entry.status # "open")
    /\ told = 2 => Terminal /\ (entry.tracked => entry.status = "terminal")

\* A call that must not fall back is bound to find the run at its end.
CallInv ==
    \A c \in DOMAIN call :
        /\ call[c].floor <= told
        /\ call[c].state # "idle" => Genuine(ledger, call[c].snapshot)
        /\ call[c].state # "idle" /\ call[c].floor >= 1 =>
              /\ Terminal /\ (entry.tracked => entry.status = "terminal")
              /\ call[c].state = "observing" /\ call[c].read => call[c].snapshot.terminal
        /\ call[c].state = "observing" /\ ~call[c].read => call[c].snapshot = NoSnapshot

ReaderInv == \A h \in DOMAIN reader : reader[h].head <= Len(ledger)

IInv ==
    /\ TypeOK /\ LedgerInv /\ FollowInv /\ EntryInv /\ ToldInv /\ CallInv
    /\ AnswersNeverRegress /\ ReaderInv /\ HistoryJoinsUp

-------------------------------------------------------------------------------
(* The runtime entry and the status calls. *)

\* The ledger at its end.
LEMMA TerminalAt ==
    ASSUME ledger \in Seq(Kinds)
    PROVE  /\ Len(ledger) \in Nat
           /\ Terminal <=> Len(ledger) > 0 /\ ledger[Len(ledger)] = "terminal"
  BY DEF Terminal, Last

\* The snapshot of this instant is one.
LEMMA SnapshotGenuine ==
    ASSUME ledger \in Seq(Kinds)
    PROVE  Snapshot \in SnapshotType /\ Genuine(ledger, Snapshot)
  <1>1. Terminal \in BOOLEAN
    BY DEF Terminal
  <1>2. Snapshot \in SnapshotType /\ Snapshot.cursor = Len(ledger) /\ Snapshot.terminal = Terminal
    BY <1>1, TerminalAt DEF Snapshot, SnapshotType
  <1>3. QED
    BY <1>2, TerminalAt DEF Genuine

\* observe keeps a failure and an end, and an entry that was not open stays so.
LEMMA ObserveEntry ==
    ASSUME TypeOK, LedgerInv, EntryInv, NEW t \in SnapshotType, Genuine(ledger, t)
    PROVE  LET e == observe(entry, t)
           IN  /\ e \in Entry /\ e.tracked = entry.tracked /\ e.failed = entry.failed
               /\ e.cursor <= Len(ledger)
               /\ e.status = "terminal" => Terminal /\ e.cursor = Len(ledger)
               /\ e.status = "runtime_failed" => e.failed
               /\ e.failed => e.tracked /\ e.status # "open"
               /\ entry.status = "terminal" => e.status = "terminal"
               /\ entry.status # "open" => e.status # "open"
               /\ entry.tracked /\ t.terminal => e.status = "terminal"
  <1> DEFINE e == observe(entry, t)
  <1>1. /\ entry \in Entry /\ ledger \in Seq(Kinds) /\ Len(ledger) \in Nat
        /\ Terminal <=> Len(ledger) > 0 /\ ledger[Len(ledger)] = "terminal"
    BY TerminalAt DEF TypeOK
  <1>2. t.cursor \in Nat /\ t.cursor <= Len(ledger) /\ t.terminal \in BOOLEAN
        /\ (t.terminal => Terminal /\ t.cursor = Len(ledger))
        /\ (Terminal /\ t.cursor = Len(ledger) => t.terminal)
    BY <1>1 DEF SnapshotType, Genuine, LedgerInv
  <1>3. entry.tracked \in BOOLEAN /\ entry.cursor \in Nat /\ entry.status \in Statuses /\ entry.failed \in BOOLEAN
    BY <1>1 DEF Entry
  <1>4. CASE ~entry.tracked \/ t.cursor < entry.cursor
    <2>1. e = entry
      BY <1>4 DEF observe
    <2>2. entry.tracked /\ t.terminal => entry.status = "terminal"
      BY <1>1, <1>2, <1>3, <1>4 DEF EntryInv
    <2>3. QED
      BY <2>1, <2>2, <1>1 DEF EntryInv
  <1>5. CASE entry.tracked /\ ~(t.cursor < entry.cursor)
    <2> DEFINE st == CASE t.terminal -> "terminal"
                       [] ~t.terminal /\ entry.failed /\ entry.status # "open" -> entry.status
                       [] OTHER -> "open"
    <2>1. e = [entry EXCEPT !.cursor = t.cursor, !.status = st]
      BY <1>5 DEF observe
    <2>2. st \in Statuses
      BY <1>3 DEF Statuses
    <2>3. /\ e \in Entry /\ e.tracked = entry.tracked /\ e.failed = entry.failed
          /\ e.cursor = t.cursor /\ e.status = st
      BY <2>1, <2>2, <1>1, <1>2 DEF Entry
    <2>4. /\ t.terminal => st = "terminal"
          /\ ~t.terminal /\ entry.failed /\ entry.status # "open" => st = entry.status
          /\ ~t.terminal /\ ~(entry.failed /\ entry.status # "open") => st = "open"
      BY <1>2
    <2>5. entry.status = "terminal" => t.terminal
      BY <1>1, <1>2, <1>3, <1>5 DEF EntryInv
    <2> HIDE DEF st, e
    <2>6. QED
      BY <2>3, <2>4, <2>5, <1>1, <1>2, <1>3, <1>5 DEF EntryInv, Statuses, e
  <1>6. QED
    BY <1>4, <1>5, <1>3

\* Steps that may change the entry, and how.
EntryStep ==
    /\ entry' \in Entry
    /\ EntryInv'
    /\ IsOver => IsOver'
    /\ IsOver /\ (entry.tracked => entry.status # "open") => (entry'.tracked => entry'.status # "open")
    /\ Terminal /\ (entry.tracked => entry.status = "terminal") =>
          Terminal' /\ (entry'.tracked => entry'.status = "terminal")
    /\ Terminal => Terminal'

\* The entry that is left alone.
LEMMA EntrySame ==
    ASSUME TypeOK, EntryInv, UNCHANGED <<ledger, entry>>
    PROVE  EntryStep
  BY DEF TypeOK, EntryStep, EntryInv, IsOver, Terminal

\* Every snapshot that reaches observe was taken at some time: a late one does no harm.
LEMMA EntryObserves ==
    ASSUME TypeOK, LedgerInv, EntryInv, NEW t \in SnapshotType, Genuine(ledger, t),
           entry' = observe(entry, t), UNCHANGED ledger
    PROVE  EntryStep
  <1>1. Terminal' = Terminal
    BY DEF Terminal
  <1> DEFINE e == observe(entry, t)
  <1>2. /\ e \in Entry /\ e.tracked = entry.tracked /\ e.failed = entry.failed
        /\ e.cursor <= Len(ledger)
        /\ e.status = "terminal" => Terminal /\ e.cursor = Len(ledger)
        /\ e.status = "runtime_failed" => e.failed
        /\ e.failed => e.tracked /\ e.status # "open"
        /\ entry.status = "terminal" => e.status = "terminal"
        /\ entry.status # "open" => e.status # "open"
    BY ObserveEntry
  <1> HIDE DEF e
  <1>3. entry' = e
    BY DEF e
  <1>4. QED
    BY <1>1, <1>2, <1>3 DEF EntryStep, EntryInv, IsOver

\* The run's own steps: an append, the second track, fail, refresh_runtime and the removal.
LEMMA EntryActions ==
    ASSUME TypeOK, LedgerInv, EntryInv,
           \/ \E kind \in Kinds : append(kind)
           \/ initialize_allocated \/ runtime_failed \/ refresh_runtime \/ runtime_finished
    PROVE  EntryStep /\ ledger' \in Seq(Kinds) /\ LedgerInv'
  <1>0. /\ entry \in Entry /\ ledger \in Seq(Kinds) /\ Len(ledger) \in Nat
        /\ Terminal <=> Len(ledger) > 0 /\ ledger[Len(ledger)] = "terminal"
    BY TerminalAt DEF TypeOK
  <1>1. ASSUME NEW kind \in Kinds, append(kind)
        PROVE  EntryStep /\ ledger' \in Seq(Kinds) /\ LedgerInv'
    <2>1. /\ ledger' = Append(ledger, kind) /\ ledger' \in Seq(Kinds) /\ Len(ledger') = Len(ledger) + 1
          /\ \A c \in 1..Len(ledger) : ledger'[c] = ledger[c]
          /\ ~Terminal /\ entry' = entry
      BY <1>0, <1>1 DEF append
    <2>2. LedgerInv'
      <3>1. SUFFICES ASSUME NEW c \in 1..Len(ledger'), ledger'[c] = "terminal" PROVE c = Len(ledger')
        BY DEF LedgerInv
      <3>2. CASE c \in 1..Len(ledger)
        <4>1. ledger[c] = "terminal" /\ c = Len(ledger)
          BY <3>1, <3>2, <2>1 DEF LedgerInv
        <4>2. QED
          BY <4>1, <3>2, <2>1, <1>0
      <3>3. CASE c \notin 1..Len(ledger)
        BY <3>3, <2>1, <1>0
      <3>4. QED
        BY <3>2, <3>3
    <2>3. EntryStep
      BY <2>1, <1>0 DEF EntryStep, EntryInv, IsOver, Entry
    <2>4. QED
      BY <2>1, <2>2, <2>3
  <1>2. CASE initialize_allocated
    <2>1. UNCHANGED ledger /\ entry' = track(0) /\ entry.tracked /\ ~entry.failed /\ ~Terminal
      BY <1>2 DEF initialize_allocated
    <2>2. Terminal' = Terminal /\ LedgerInv'
      BY <2>1 DEF Terminal, LedgerInv
    <2>3. QED
      BY <2>1, <2>2, <1>0 DEF EntryStep, EntryInv, IsOver, Entry, track, Statuses
  <1>3. CASE runtime_failed
    <2>1. UNCHANGED ledger /\ entry' = fail(entry) /\ entry.tracked
      BY <1>3 DEF runtime_failed
    <2>2. Terminal' = Terminal /\ LedgerInv'
      BY <2>1 DEF Terminal, LedgerInv
    <2>3. /\ entry' \in Entry /\ entry'.failed /\ entry'.tracked /\ entry'.cursor = entry.cursor
          /\ entry'.status = IF entry.status = "open" THEN "runtime_failed" ELSE entry.status
      BY <2>1, <1>0 DEF fail, Entry, Statuses
    <2>4. QED
      BY <2>1, <2>2, <2>3, <1>0 DEF EntryStep, EntryInv, IsOver, Entry, Statuses
  <1>4. CASE refresh_runtime
    <2>1. UNCHANGED ledger /\ entry' = observe(entry, Snapshot)
      BY <1>4 DEF refresh_runtime
    <2>2. EntryStep
      BY <2>1, <1>0, SnapshotGenuine, EntryObserves
    <2>3. QED
      BY <2>1, <2>2, <1>0 DEF LedgerInv
  <1>5. CASE runtime_finished
    <2>1. UNCHANGED ledger /\ entry' = NoEntry /\ Terminal
      BY <1>5 DEF runtime_finished
    <2>2. Terminal' = Terminal /\ LedgerInv'
      BY <2>1 DEF Terminal, LedgerInv
    <2>3. QED
      BY <2>1, <2>2, <1>0 DEF EntryStep, EntryInv, IsOver, Entry, NoEntry, Statuses
  <1>6. QED
    BY <1>1, <1>2, <1>3, <1>4, <1>5

\* What the calls rely on survives every change of the entry, if the calls do not move.
LEMMA CallsKept ==
    ASSUME TypeOK, ToldInv, CallInv, AnswersNeverRegress, EntryStep, UNCHANGED <<call, told>>,
           ledger' = ledger \/ \E kind \in Kinds : ledger' = Append(ledger, kind)
    PROVE  ToldInv' /\ CallInv' /\ AnswersNeverRegress'
  <1>1. ASSUME NEW t \in SnapshotType, Genuine(ledger, t) PROVE Genuine(ledger', t)
    <2>1. ledger \in Seq(Kinds) /\ t.cursor \in Nat
      BY DEF TypeOK, SnapshotType
    <2>2. CASE ledger' = ledger
      BY <2>2, <1>1
    <2>3. ASSUME NEW kind \in Kinds, ledger' = Append(ledger, kind) PROVE Genuine(ledger', t)
      <3>1. /\ Len(ledger) \in Nat /\ Len(ledger') = Len(ledger) + 1
            /\ \A c \in 1..Len(ledger) : ledger'[c] = ledger[c]
        BY <2>1, <2>3
      <3>2. QED
        BY <3>1, <2>1, <1>1 DEF Genuine
    <2>4. QED
      BY <2>2, <2>3
  <1>2. ToldInv'
    BY DEF ToldInv, EntryStep, TypeOK
  <1>3. CallInv'
    <2>1. SUFFICES ASSUME NEW c \in DOMAIN call
                   PROVE  /\ call[c].floor <= told
                          /\ call[c].state # "idle" => Genuine(ledger', call[c].snapshot)
                          /\ call[c].state # "idle" /\ call[c].floor >= 1 =>
                                /\ Terminal' /\ (entry'.tracked => entry'.status = "terminal")
                                /\ call[c].state = "observing" /\ call[c].read => call[c].snapshot.terminal
                          /\ call[c].state = "observing" /\ ~call[c].read => call[c].snapshot = NoSnapshot
      BY DEF CallInv
    <2>2. call[c] \in StatusCall
      BY DEF TypeOK
    <2>3. call[c].snapshot \in SnapshotType
      BY <2>2 DEF StatusCall
    <2>4. QED
      BY <2>3, <1>1 DEF CallInv, EntryStep
  <1>4. AnswersNeverRegress'
    BY DEF AnswersNeverRegress
  <1>5. QED
    BY <1>2, <1>3, <1>4

\* One call moves: the others have what they had, and may be told more.
LEMMA OneCall ==
    ASSUME TypeOK, ToldInv, CallInv, AnswersNeverRegress, EntryStep, UNCHANGED ledger,
           NEW c \in DOMAIN call, NEW r \in StatusCall, call' = [call EXCEPT ![c] = r],
           told' \in 0..2, told <= told', ToldInv', r.floor <= told',
           r.state # "idle" => Genuine(ledger, r.snapshot),
           r.state # "idle" /\ r.floor >= 1 =>
              /\ Terminal' /\ (entry'.tracked => entry'.status = "terminal")
              /\ r.state = "observing" /\ r.read => r.snapshot.terminal,
           r.state = "observing" /\ ~r.read => r.snapshot = NoSnapshot,
           r.state = "idle" /\ r.answer \notin {"none", "error"} => Rank(r.answer) >= r.floor
    PROVE  CallInv' /\ AnswersNeverRegress' /\ call' \in [DOMAIN call' -> StatusCall]
  <1>1. /\ DOMAIN call' = DOMAIN call /\ call'[c] = r
        /\ \A d \in DOMAIN call : d # c => call'[d] = call[d]
        /\ call' \in [DOMAIN call' -> StatusCall]
    BY DEF TypeOK
  <1>2. told \in 0..2 /\ \A d \in DOMAIN call : call[d].floor \in 0..2
    BY DEF TypeOK, StatusCall
  <1>3. ASSUME NEW d \in DOMAIN call
        PROVE  /\ call'[d].floor <= told'
               /\ call'[d].state # "idle" => Genuine(ledger', call'[d].snapshot)
               /\ call'[d].state # "idle" /\ call'[d].floor >= 1 =>
                     /\ Terminal' /\ (entry'.tracked => entry'.status = "terminal")
                     /\ call'[d].state = "observing" /\ call'[d].read => call'[d].snapshot.terminal
               /\ call'[d].state = "observing" /\ ~call'[d].read => call'[d].snapshot = NoSnapshot
               /\ call'[d].state = "idle" /\ call'[d].answer \notin {"none", "error"} =>
                     Rank(call'[d].answer) >= call'[d].floor
    <2>1. CASE d = c
      BY <2>1, <1>1
    <2>2. CASE d # c
      <3>1. call'[d] = call[d]
        BY <2>2, <1>1
      <3>2. call[d].floor <= told /\ call[d].floor <= told'
        BY <1>2 DEF CallInv
      <3>3. /\ call[d].state # "idle" => Genuine(ledger, call[d].snapshot)
            /\ call[d].state # "idle" /\ call[d].floor >= 1 =>
                     /\ Terminal /\ (entry.tracked => entry.status = "terminal")
                     /\ call[d].state = "observing" /\ call[d].read => call[d].snapshot.terminal
            /\ call[d].state = "observing" /\ ~call[d].read => call[d].snapshot = NoSnapshot
            /\ call[d].state = "idle" /\ call[d].answer \notin {"none", "error"} =>
                     Rank(call[d].answer) >= call[d].floor
        BY DEF CallInv, AnswersNeverRegress
      <3>4. QED
        BY <3>1, <3>2, <3>3 DEF EntryStep
    <2>3. QED
      BY <2>1, <2>2
  <1>4. CallInv'
    BY <1>1, <1>3 DEF CallInv
  <1>5. AnswersNeverRegress'
    BY <1>1, <1>3 DEF AnswersNeverRegress
  <1>6. QED
    BY <1>1, <1>4, <1>5

\* Ranks are numbers, and only a durable result has the highest.
LEMMA RankType ==
    /\ Rank("terminal") = 2 /\ Rank("runtime_failed") = 1 /\ Rank("open") = 0 /\ Rank("error") = 0
    /\ \A a \in Statuses \cup {"none", "error"} : Rank(a) \in 0..2
  BY DEF Rank, Statuses

\* A call begins.
LEMMA StatusStep ==
    ASSUME TypeOK, LedgerInv, EntryInv, ToldInv, CallInv, AnswersNeverRegress,
           NEW c \in DOMAIN call, status(c)
    PROVE  /\ EntryStep /\ ToldInv' /\ CallInv' /\ AnswersNeverRegress'
           /\ told' \in 0..2 /\ call' \in [DOMAIN call' -> StatusCall]
  <1>0. /\ EntryStep /\ Terminal' = Terminal /\ IsOver' = IsOver /\ entry' = entry /\ UNCHANGED ledger
    BY EntrySame DEF status, Terminal, IsOver
  <1>1. /\ entry \in Entry /\ told \in 0..2 /\ call[c] \in StatusCall
        /\ entry.tracked \in BOOLEAN /\ entry.failed \in BOOLEAN /\ entry.status \in Statuses
    BY DEF TypeOK, Entry
  <1>2. NoSnapshot \in SnapshotType /\ Genuine(ledger, NoSnapshot)
    BY DEF NoSnapshot, SnapshotType, Genuine, TypeOK
  <1>3. CASE failure(entry)
    <2> DEFINE r == [NoCall EXCEPT !.floor = told, !.answer = entry.status]
    <2>1. /\ call' = [call EXCEPT ![c] = r]
          /\ told' = IF Rank(entry.status) > told THEN Rank(entry.status) ELSE told
      BY <1>3 DEF status
    <2>2. /\ r \in StatusCall /\ r.floor = told /\ r.answer = entry.status /\ r.state = "idle"
      BY <1>1, <1>2 DEF NoCall, StatusCall
    <2>3. entry.failed /\ entry.tracked /\ entry.status \in {"terminal", "runtime_failed"}
      BY <1>1, <1>3 DEF failure, EntryInv, Statuses
    <2>4. /\ entry.status = "terminal" => Rank(entry.status) = 2 /\ Terminal
          /\ entry.status = "runtime_failed" => Rank(entry.status) = 1
      BY RankType DEF EntryInv
    <2>5. Rank(entry.status) >= told
      BY <2>3, <2>4, <1>1 DEF ToldInv
    <2>6. told' = Rank(entry.status) /\ told' \in 0..2 /\ told <= told'
      BY <2>1, <2>3, <2>4, <2>5, <1>1
    <2>7. ToldInv'
      BY <2>3, <2>4, <2>6, <1>0 DEF ToldInv, IsOver
    <2> HIDE DEF r
    <2>8. CallInv' /\ AnswersNeverRegress' /\ call' \in [DOMAIN call' -> StatusCall]
      BY <2>1, <2>2, <2>5, <2>6, <2>7, <1>0, OneCall
    <2>9. QED
      BY <1>0, <2>6, <2>7, <2>8
  <1>4. CASE ~failure(entry)
    <2> DEFINE r == [NoCall EXCEPT !.state = "reading", !.floor = told]
    <2>1. call' = [call EXCEPT ![c] = r] /\ told' = told
      BY <1>4 DEF status
    <2>2. r \in StatusCall /\ r.floor = told /\ r.state = "reading" /\ r.snapshot = NoSnapshot
      BY <1>1, <1>2 DEF NoCall, StatusCall
    <2>3. told >= 1 => Terminal /\ (entry.tracked => entry.status = "terminal")
      BY <1>1, <1>4 DEF failure, EntryInv, ToldInv, IsOver, Statuses
    <2>4. ToldInv'
      BY <2>1, <1>0 DEF ToldInv
    <2> HIDE DEF r
    <2>7. told' \in 0..2 /\ told <= told' /\ r.floor <= told'
      BY <2>1, <2>2, <1>1
    <2>8. /\ Genuine(ledger, r.snapshot)
          /\ r.state # "idle" /\ r.state # "observing"
          /\ r.floor >= 1 => Terminal' /\ (entry'.tracked => entry'.status = "terminal")
      BY <2>2, <2>3, <1>0, <1>2
    <2>5. CallInv' /\ AnswersNeverRegress' /\ call' \in [DOMAIN call' -> StatusCall]
      BY <2>1, <2>2, <2>4, <2>7, <2>8, <1>0, OneCall
    <2>6. QED
      BY <1>0, <1>1, <2>1, <2>4, <2>5
  <1>5. QED
    BY <1>3, <1>4

\* The ledger answers it.
LEMMA StatusGetStep ==
    ASSUME TypeOK, LedgerInv, EntryInv, ToldInv, CallInv, AnswersNeverRegress,
           NEW c \in DOMAIN call, NEW ok \in BOOLEAN, status_get(c, ok)
    PROVE  /\ EntryStep /\ ToldInv' /\ CallInv' /\ AnswersNeverRegress'
           /\ told' \in 0..2 /\ call' \in [DOMAIN call' -> StatusCall]
  <1>0. /\ EntryStep /\ Terminal' = Terminal /\ IsOver' = IsOver /\ entry' = entry /\ UNCHANGED <<ledger, told>>
    BY EntrySame DEF status_get, Terminal, IsOver
  <1>1. told \in 0..2 /\ call[c] \in StatusCall /\ call[c].floor \in 0..2 /\ ledger \in Seq(Kinds)
    BY DEF TypeOK, StatusCall
  <1>2. NoSnapshot \in SnapshotType /\ Genuine(ledger, NoSnapshot)
    BY <1>1 DEF NoSnapshot, SnapshotType, Genuine
  <1>3. Snapshot \in SnapshotType /\ Genuine(ledger, Snapshot) /\ Snapshot.terminal = Terminal
    BY <1>1, SnapshotGenuine DEF Snapshot
  <1> DEFINE t == IF ok THEN Snapshot ELSE NoSnapshot
             r == [call[c] EXCEPT !.state = "observing", !.read = ok, !.snapshot = t]
  <1>4. call' = [call EXCEPT ![c] = r] /\ call[c].state = "reading"
    BY DEF status_get
  <1>5. t \in SnapshotType /\ Genuine(ledger, t) /\ (ok => t.terminal = Terminal)
        /\ (~ok => t = NoSnapshot)
    BY <1>2, <1>3
  <1> HIDE DEF t
  <1>6. /\ r \in StatusCall /\ r.state = "observing" /\ r.read = ok /\ r.snapshot = t
        /\ r.floor = call[c].floor
    BY <1>1, <1>5 DEF StatusCall
  <1>7. ToldInv'
    BY <1>0 DEF ToldInv
  <1>8. r.floor <= told /\ (r.floor >= 1 => Terminal /\ (entry.tracked => entry.status = "terminal"))
    BY <1>4, <1>6 DEF CallInv
  <1> HIDE DEF r
  <1>11. told' \in 0..2 /\ told <= told' /\ r.floor <= told'
    BY <1>0, <1>1, <1>8
  <1>12. /\ Genuine(ledger, r.snapshot) /\ r.state # "idle"
         /\ r.floor >= 1 => Terminal' /\ (entry'.tracked => entry'.status = "terminal")
         /\ r.floor >= 1 /\ r.read => r.snapshot.terminal
         /\ ~r.read => r.snapshot = NoSnapshot
    BY <1>0, <1>5, <1>6, <1>8
  <1>9. CallInv' /\ AnswersNeverRegress' /\ call' \in [DOMAIN call' -> StatusCall]
    BY <1>0, <1>4, <1>6, <1>7, <1>11, <1>12, OneCall
  <1>10. QED
    BY <1>0, <1>1, <1>7, <1>9

\* The answer.
LEMMA StatusObserveStep ==
    ASSUME TypeOK, LedgerInv, EntryInv, ToldInv, CallInv, AnswersNeverRegress,
           NEW c \in DOMAIN call, status_observe(c)
    PROVE  /\ EntryStep /\ ToldInv' /\ CallInv' /\ AnswersNeverRegress'
           /\ told' \in 0..2 /\ call' \in [DOMAIN call' -> StatusCall]
  <1> DEFINE t == call[c].snapshot
             k == call[c].floor
  <1>0. /\ UNCHANGED ledger /\ Terminal' = Terminal /\ call[c].state = "observing"
    BY DEF status_observe, Terminal
  <1>1. /\ entry \in Entry /\ told \in 0..2 /\ call[c] \in StatusCall
        /\ entry.tracked \in BOOLEAN /\ entry.failed \in BOOLEAN /\ entry.status \in Statuses
        /\ t \in SnapshotType /\ t.terminal \in BOOLEAN /\ k \in 0..2 /\ call[c].read \in BOOLEAN
    BY DEF TypeOK, Entry, StatusCall, SnapshotType
  <1>2. /\ k <= told /\ Genuine(ledger, t)
        /\ k >= 1 => /\ Terminal /\ (entry.tracked => entry.status = "terminal")
                     /\ call[c].read => t.terminal
    BY <1>0 DEF CallInv
  <1>3. NoSnapshot \in SnapshotType
    BY DEF NoSnapshot, SnapshotType
  \* What remains once it is known what is answered, and what the entry says of it.
  <1>4. ASSUME NEW a \in Statuses \cup {"error"}, Answer(c, a), EntryStep,
               a # "error" => Rank(a) >= k,
               Rank(a) >= 1 => IsOver' /\ (entry'.tracked => entry'.status # "open"),
               Rank(a) = 2 => Terminal' /\ (entry'.tracked => entry'.status = "terminal")
        PROVE  /\ ToldInv' /\ CallInv' /\ AnswersNeverRegress'
               /\ told' \in 0..2 /\ call' \in [DOMAIN call' -> StatusCall]
    <2> DEFINE r == [call[c] EXCEPT !.state = "idle", !.answer = a, !.snapshot = NoSnapshot]
    <2>1. /\ call' = [call EXCEPT ![c] = r]
          /\ told' = IF Rank(a) > told THEN Rank(a) ELSE told
      BY <1>4 DEF Answer
    <2>2. r \in StatusCall /\ r.state = "idle" /\ r.answer = a /\ r.floor = k
      BY <1>1, <1>3, <1>4 DEF StatusCall
    <2>3. Rank(a) \in 0..2
      BY <1>4, RankType
    <2>4. told' \in 0..2 /\ told <= told' /\ (told' = told \/ told' = Rank(a))
      BY <2>1, <2>3, <1>1
    <2>5. ToldInv'
      <3>1. CASE told' = told
        BY <3>1, <1>4 DEF ToldInv, EntryStep
      <3>2. CASE told' = Rank(a)
        BY <3>2, <1>4 DEF ToldInv
      <3>3. QED
        BY <3>1, <3>2, <2>4
    <2> HIDE DEF r
    <2>6. r.floor <= told'
      BY <2>2, <2>4, <1>1, <1>2
    <2>7. r.answer \notin {"none", "error"} => Rank(r.answer) >= r.floor
      BY <2>2, <1>4
    <2>8. CallInv' /\ AnswersNeverRegress' /\ call' \in [DOMAIN call' -> StatusCall]
      BY <2>1, <2>2, <2>4, <2>5, <2>6, <2>7, <1>0, <1>4, OneCall
    <2>9. QED
      BY <2>4, <2>5, <2>8
  <1>5. CASE call[c].read
    <2> DEFINE a == Observed(entry, t)
    <2>1. entry' = observe(entry, t) /\ Answer(c, a)
      BY <1>5 DEF status_observe
    <2>2. EntryStep
      BY <2>1, <1>0, <1>1, <1>2, EntryObserves
    <2>3. CASE entry.tracked
      <3> DEFINE e == observe(entry, t)
      <3>1. /\ e \in Entry /\ e.tracked = entry.tracked /\ e.failed = entry.failed
            /\ e.status = "terminal" => Terminal
            /\ e.status = "runtime_failed" => e.failed
            /\ entry.status = "terminal" => e.status = "terminal"
            /\ t.terminal => e.status = "terminal"
        BY <1>1, <1>2, <2>3, ObserveEntry
      <3>2. a = e.status /\ e.status \in Statuses
        BY <2>3, <3>1 DEF Observed, Entry
      <3> HIDE DEF a, e
      <3>3. entry' = e
        BY <2>1 DEF e
      <3>4. a # "error" => Rank(a) >= k
        BY <3>1, <3>2, <1>1, <1>2, <1>5, RankType
      <3>5. /\ Rank(a) >= 1 => IsOver' /\ (entry'.tracked => entry'.status # "open")
            /\ Rank(a) = 2 => Terminal' /\ (entry'.tracked => entry'.status = "terminal")
        BY <3>1, <3>2, <3>3, <1>0, RankType DEF Statuses, IsOver
      <3>6. QED
        BY <1>4, <2>1, <2>2, <3>2, <3>4, <3>5 DEF a
    <2>4. CASE ~entry.tracked
      <3>1. a = (IF t.terminal THEN "terminal" ELSE "open") /\ a \in Statuses
        BY <2>4 DEF Observed, Statuses
      <3>2. entry' = entry
        BY <2>1, <2>4 DEF observe
      <3>3. t.terminal => Terminal
        BY <1>1, <1>2, TerminalAt DEF Genuine, LedgerInv, TypeOK, SnapshotType
      <3> HIDE DEF a
      <3>4. a # "error" => Rank(a) >= k
        BY <3>1, <1>1, <1>2, <1>5, RankType
      <3>5. /\ Rank(a) >= 1 => IsOver' /\ (entry'.tracked => entry'.status # "open")
            /\ Rank(a) = 2 => Terminal' /\ (entry'.tracked => entry'.status = "terminal")
        BY <3>1, <3>2, <3>3, <2>4, <1>0, RankType DEF IsOver
      <3>6. QED
        BY <1>4, <2>1, <2>2, <3>1, <3>4, <3>5 DEF a
    <2>5. QED
      BY <2>3, <2>4
  <1>6. CASE ~call[c].read
    <2> DEFINE a == IF failure(entry) THEN entry.status ELSE "error"
    <2>1. entry' = entry /\ Answer(c, a)
      BY <1>6 DEF status_observe
    <2>2. EntryStep /\ IsOver' = IsOver
      BY <2>1, <1>0, EntrySame DEF IsOver
    <2>3. a \in Statuses \cup {"error"} /\ (a # "error" => a = entry.status /\ entry.failed /\ entry.tracked)
      BY <1>1 DEF failure
    <2>4. a # "error" => Rank(a) >= k
      BY <2>3, <1>1, <1>2, RankType DEF EntryInv, Statuses
    <2> HIDE DEF a
    <2>5. /\ Rank(a) >= 1 => IsOver' /\ (entry'.tracked => entry'.status # "open")
          /\ Rank(a) = 2 => Terminal' /\ (entry'.tracked => entry'.status = "terminal")
      BY <2>1, <2>2, <2>3, <1>0, RankType DEF EntryInv, Statuses, IsOver
    <2>6. QED
      BY <1>4, <2>1, <2>2, <2>3, <2>4, <2>5
  <1>7. QED
    BY <1>5, <1>6

-------------------------------------------------------------------------------
(* History pages. *)

\* What read_page may return.
LEMMA PageRead ==
    ASSUME ledger \in Seq(Kinds), NEW after \in Nat, NEW page \in read_page(after)
    PROVE  /\ page.first = after + 1 /\ page.last \in Nat /\ after <= page.last
           /\ page \in [first: Nat, last: Nat]
           /\ after <= Len(ledger) => page.last <= Len(ledger)
           /\ after < Len(ledger) => after < page.last
  <1>1. CASE after >= Len(ledger)
    BY <1>1 DEF read_page
  <1>2. CASE ~(after >= Len(ledger))
    <2>1. PICK l \in (after + 1)..(after + MaxPage) : l <= Len(ledger) /\ page = [first |-> after + 1, last |-> l]
      BY <1>2 DEF read_page
    <2>2. l \in Nat /\ after < l
      BY BoundsAssumption
    <2>3. QED
      BY <2>1, <2>2
  <1>3. QED
    BY <1>1, <1>2

\* A stretch of cursors in order.
LEMMA IntervalInOrder ==
    ASSUME NEW a \in Nat, NEW b \in Nat, a <= b
    PROVE  /\ InOrder((a + 1)..b) \in Seq(Nat)
           /\ [i \in 1..a |-> i] \o InOrder((a + 1)..b) = [i \in 1..b |-> i]
  <1> DEFINE q == [i \in 1..(b - a) |-> a + i]
             S == (a + 1)..b
  <1>1. b - a \in Nat /\ q \in Seq(S) /\ Len(q) = b - a /\ q \in Seq(Nat)
    OBVIOUS
  <1>2. Lists(q, S)
    <2>1. ASSUME NEW c \in S PROVE \E i \in 1..Len(q) : q[i] = c
      <3>1. c - a \in 1..(b - a) /\ q[c - a] = c
        OBVIOUS
      <3>2. QED
        BY <3>1, <1>1
    <2>2. \A i, j \in 1..Len(q) : i < j => q[i] < q[j]
      BY <1>1
    <2>3. QED
      BY <1>1, <2>1, <2>2 DEF Lists
  <1>3. S \subseteq 1..b /\ S \subseteq Nat
    OBVIOUS
  <1>4. Lists(InOrder(S), S)
    BY <1>3, InOrderLists
  <1>5. InOrder(S) = q
    BY <1>2, <1>3, <1>4, ListsUnique
  <1>6. [i \in 1..a |-> i] \o q = [i \in 1..b |-> i]
    OBVIOUS
  <1>7. QED
    BY <1>1, <1>5, <1>6

\* Steps that leave the readers alone; the ledger may grow under them.
LEMMA ReadersKept ==
    ASSUME TypeOK, ReaderInv, HistoryJoinsUp, UNCHANGED reader,
           ledger' = ledger \/ \E kind \in Kinds : ledger' = Append(ledger, kind)
    PROVE  ReaderInv' /\ HistoryJoinsUp'
  <1>1. Len(ledger) \in Nat /\ Len(ledger') \in Nat /\ Len(ledger) <= Len(ledger')
    BY DEF TypeOK
  <1>2. \A h \in DOMAIN reader : reader[h].head \in Nat
    BY DEF TypeOK, Reader
  <1>3. ReaderInv'
    BY <1>1, <1>2 DEF ReaderInv
  <1>4. QED
    BY <1>3 DEF HistoryJoinsUp

\* load_by_id: the head is that of this instant.
LEMMA LoadStep ==
    ASSUME TypeOK, ReaderInv, HistoryJoinsUp, NEW h \in DOMAIN reader, load_by_id(h)
    PROVE  ReaderInv' /\ HistoryJoinsUp' /\ reader' \in [DOMAIN reader' -> Reader]
  <1> DEFINE r == [reader[h] EXCEPT !.state = "loaded", !.head = Len(ledger), !.terminal = Terminal]
  <1>1. reader' = [reader EXCEPT ![h] = r] /\ UNCHANGED ledger
    BY DEF load_by_id
  <1>2. reader[h] \in Reader /\ Len(ledger) \in Nat /\ Terminal \in BOOLEAN
    BY DEF TypeOK, Terminal
  <1>3. /\ r \in Reader /\ r.head = Len(ledger) /\ r.state = "loaded"
        /\ r.next = reader[h].next /\ r.collected = reader[h].collected
    BY <1>2 DEF Reader
  <1>4. r.next <= r.head
    <2>1. reader[h].next <= reader[h].head /\ reader[h].head <= Len(ledger)
      BY DEF HistoryJoinsUp, ReaderInv
    <2>2. reader[h].next \in Nat /\ reader[h].head \in Nat
      BY <1>2 DEF Reader
    <2>3. QED
      BY <2>1, <2>2, <1>2, <1>3
  <1> HIDE DEF r
  <1>5. /\ DOMAIN reader' = DOMAIN reader /\ reader'[h] = r
        /\ \A g \in DOMAIN reader : g # h => reader'[g] = reader[g]
        /\ reader' \in [DOMAIN reader' -> Reader]
    BY <1>1, <1>3 DEF TypeOK
  <1>6. ReaderInv'
    BY <1>1, <1>2, <1>3, <1>5 DEF ReaderInv
  <1>7. r.collected = [i \in 1..r.next |-> i]
    BY <1>3 DEF HistoryJoinsUp
  <1>8. HistoryJoinsUp'
    BY <1>3, <1>4, <1>5, <1>7 DEF HistoryJoinsUp
  <1>9. QED
    BY <1>5, <1>6, <1>8

\* project_page: the page is read later than the head, and only what is under the head is kept.
LEMMA ProjectStep ==
    ASSUME TypeOK, ReaderInv, HistoryJoinsUp, NEW h \in DOMAIN reader, project_page(h)
    PROVE  ReaderInv' /\ HistoryJoinsUp' /\ reader' \in [DOMAIN reader' -> Reader]
  <1> DEFINE r == reader[h]
  <1>1. /\ r \in Reader /\ Len(ledger) \in Nat /\ ledger \in Seq(Kinds)
        /\ r.next \in Nat /\ r.head \in Nat /\ r.terminal \in BOOLEAN
    BY DEF TypeOK, Reader
  <1>2. r.next <= r.head /\ r.head <= Len(ledger) /\ r.collected = [i \in 1..r.next |-> i]
    <2>1. r.next <= r.head /\ r.collected = [i \in 1..r.next |-> i]
      BY Zenon DEF HistoryJoinsUp
    <2>2. r.head <= Len(ledger)
      BY SMTT(20) DEF ReaderInv
    <2>3. QED
      BY <2>1, <2>2
  <1> DEFINE kept(page) == pinned(page, r.head)
             next(page) == IF kept(page) = {} THEN r.next
                           ELSE CHOOSE c \in kept(page) : \A k \in kept(page) : k <= c
             gap(page) == kept(page) = {} /\ r.next < r.head
             st(page) == CASE gap(page) -> "gap"
                           [] ~gap(page) /\ last_page(r, next(page)) -> "done"
                           [] OTHER -> "idle"
             new(page) == [r EXCEPT !.state = st(page), !.next = next(page), !.read = page.last,
                                    !.collected = r.collected \o InOrder(kept(page))]
  <1>3. PICK page \in read_page(r.next) : reader' = [reader EXCEPT ![h] = new(page)]
    BY DEF project_page
  <1>4. /\ page.first = r.next + 1 /\ page.last \in Nat /\ r.next <= page.last
        /\ page.last <= Len(ledger)
        /\ r.next < Len(ledger) => r.next < page.last
    BY <1>1, <1>2, <1>3, PageRead
  <1> DEFINE end == IF page.last <= r.head THEN page.last ELSE r.head
  <1>5. end \in Nat /\ r.next <= end /\ end <= r.head /\ kept(page) = (r.next + 1)..end
    BY <1>1, <1>2, <1>4 DEF pinned
  <1>6. r.next < r.head => r.next < end
    BY <1>1, <1>2, <1>4
  <1> HIDE DEF end
  <1>7. next(page) = end
    <2>1. CASE r.next = end
      BY <2>1, <1>5, <1>1
    <2>2. CASE r.next < end
      <3>1. kept(page) # {} /\ end \in kept(page) /\ \A k \in kept(page) : k <= end /\ k \in Nat
        BY <2>2, <1>1, <1>5
      <3> HIDE DEF kept
      <3>2. next(page) \in kept(page) /\ \A k \in kept(page) : k <= next(page)
        BY <3>1
      <3> HIDE DEF next
      <3>3. QED
        BY <3>1, <3>2, <1>5
    <2>3. QED
      BY <2>1, <2>2, <1>1, <1>5
  <1>8. ~gap(page)
    BY <1>1, <1>5, <1>6
  <1>9. st(page) \in {"done", "idle"}
    BY <1>8
  <1>10. InOrder(kept(page)) \in Seq(Nat) /\ r.collected \o InOrder(kept(page)) = [i \in 1..end |-> i]
    BY <1>1, <1>2, <1>5, IntervalInOrder
  <1> HIDE DEF kept, next, gap, st
  <1>11. /\ new(page) \in Reader /\ new(page).state \in {"done", "idle"} /\ new(page).next = end
         /\ new(page).head = r.head /\ new(page).collected = [i \in 1..end |-> i]
    <2>3. [i \in 1..end |-> i] \in Seq(Nat)
      BY <1>5
    <2>1. r.collected \o InOrder(kept(page)) \in Seq(Nat)
      BY <2>3, <1>10
    <2>2. QED
      BY <2>1, <1>1, <1>4, <1>5, <1>7, <1>9, <1>10 DEF Reader
  <1> HIDE DEF new
  <1>12. /\ DOMAIN reader' = DOMAIN reader /\ reader'[h] = new(page)
         /\ \A g \in DOMAIN reader : g # h => reader'[g] = reader[g]
         /\ reader' \in [DOMAIN reader' -> Reader]
    BY <1>3, <1>11 DEF TypeOK
  <1>13. UNCHANGED ledger
    BY DEF project_page
  <1>14. ReaderInv'
    BY <1>2, <1>11, <1>12, <1>13 DEF ReaderInv
  <1>15. HistoryJoinsUp'
    BY <1>5, <1>11, <1>12 DEF HistoryJoinsUp
  <1>16. QED
    BY <1>12, <1>14, <1>15

-------------------------------------------------------------------------------
(* Subscriptions and followers. *)

\* The status after a page that continues the scan.
LEMMA CountContinues ==
    ASSUME NEW l, NEW a \in Nat, NEW c \in Nat, a <= c
    PROVE  Count(l, a) + Cardinality({k \in (a + 1)..c : l[k] # "log"}) = Count(l, c)
  <1> DEFINE A == {k \in 1..a : l[k] # "log"}
             B == {k \in (a + 1)..c : l[k] # "log"}
             C == {k \in 1..c : l[k] # "log"}
  <1>1. IsFiniteSet(1..a) /\ IsFiniteSet((a + 1)..c)
    BY FS_Interval
  <1>2. A \in SUBSET (1..a) /\ B \in SUBSET ((a + 1)..c)
    OBVIOUS
  <1>3. IsFiniteSet(A) /\ IsFiniteSet(B)
    BY <1>1, <1>2, FS_Subset
  <1>4. A \cup B = C /\ A \cap B = {}
    OBVIOUS
  <1> HIDE DEF A, B, C
  <1>5. Cardinality(A) \in Nat /\ Cardinality(B) \in Nat /\ Cardinality({}) = 0
    BY <1>3, FS_CardinalityType, FS_EmptySet
  <1>6. Cardinality(A \cup B) = Cardinality(A) + Cardinality(B) - Cardinality(A \cap B)
    BY <1>3, FS_Union
  <1>9. Cardinality(A \cup B) = Cardinality(C) /\ Cardinality(A \cap B) = Cardinality({})
    BY <1>4, Zenon
  <1>7. Cardinality(C) = Cardinality(A) + Cardinality(B)
    BY <1>5, <1>6, <1>9
  <1>8. QED
    BY <1>7 DEF Count, A, B, C

\* A page that continues the scan brings what is due up to its end.
LEMMA ApplyPage ==
    ASSUME NEW s \in Subscription, NEW page \in [first: Nat, last: Nat],
           page.first = s.scanned + 1, s.scanned <= page.last,
           s.kind = "watch" => s.projection = Count(ledger, s.scanned), s.pending = <<>>
    PROVE  LET n == progress(apply(s, page), page)
           IN  /\ n \in Subscription /\ n.scanned = page.last
               /\ n.state = s.state /\ n.kind = s.kind /\ n.start = s.start /\ n.tail = s.tail
               /\ n.kind = "watch" => n.projection = Count(ledger, n.scanned)
               /\ Events(n.pending)
               /\ Carries(ledger, s.kind, n.pending, Through(s), Through(n))
  <1>1. /\ s.scanned \in Nat /\ s.start \in Nat /\ page.last \in Nat /\ s.projection \in Nat
        /\ s.kind \in {"watch", "logs"}
    BY DEF Subscription
  <1> DEFINE a == Through(s)
             b == IF page.last > s.start THEN page.last ELSE s.start
             S == Due(ledger, s.kind, a, b)
             t == [i \in 1..Cardinality(S) |-> Note(ledger, s.kind, InOrder(S)[i])]
             p == s.projection + Cardinality({k \in page.first..page.last : ledger[k] # "log"})
  <1>2. a \in Nat /\ b \in Nat /\ a <= b
    BY <1>1 DEF Through
  <1>3. Notified(s, page) = S
    BY <1>1 DEF Notified, Due, Through
  <1>4. Carries(ledger, s.kind, t, a, b) /\ Events(t)
    BY <1>2, NotesCarry, SMTT(20)
  <1>5. t \in Seq(Frame)
    BY <1>4 DEF Carries
  <1>6. s.kind = "watch" => p = Count(ledger, page.last)
    BY <1>1, CountContinues
  <1>7. p \in Nat
    <2>5. page.first \in Int /\ page.last \in Int
      BY <1>1
    <2>1. IsFiniteSet(page.first..page.last)
      BY <2>5, FS_Interval
    <2>2. IsFiniteSet({k \in page.first..page.last : ledger[k] # "log"})
      BY <2>1, FS_Subset
    <2>3. Cardinality({k \in page.first..page.last : ledger[k] # "log"}) \in Nat
      BY <2>2, FS_CardinalityType
    <2>4. QED
      BY <2>3, <1>1
  <1> DEFINE fold(c) == s.projection + Cardinality({k \in page.first..c : ledger[k] # "log"})
             q == [i \in 1..Cardinality(S) |->
                     Event(InOrder(S)[i], IF s.kind = "watch" THEN fold(InOrder(S)[i]) ELSE 0)]
  <1>8. q = t
    <2>1. SUFFICES ASSUME NEW i \in 1..Cardinality(S)
                   PROVE  Event(InOrder(S)[i], IF s.kind = "watch" THEN fold(InOrder(S)[i]) ELSE 0)
                            = Note(ledger, s.kind, InOrder(S)[i])
      OBVIOUS
    <2>2. InOrder(S)[i] \in S
      <3>1. S \subseteq 1..b
        BY <1>1, <1>2 DEF Due
      <3>2. Lists(InOrder(S), S) /\ Len(InOrder(S)) = Cardinality(S) /\ Cardinality(S) \in Nat
        BY <1>2, <3>1, InOrderLists
      <3> HIDE DEF S
      <3>3. QED
        BY <3>2 DEF Lists
    <2> DEFINE c == InOrder(S)[i]
    <2>3. c \in Nat /\ s.scanned <= c
      BY <2>2, <1>1, <1>2 DEF Due, Through
    <2> HIDE DEF c, S
    <2>4. s.kind = "watch" => fold(c) = Count(ledger, c)
      BY <2>3, <1>1, CountContinues
    <2>5. QED
      BY <2>4 DEF Note, c
  <1>9. apply(s, page) = [s EXCEPT !.projection = p, !.pending = s.pending \o q]
    BY <1>3 DEF apply
  <1> HIDE DEF q, t, p, S, fold
  <1>10. apply(s, page) = [s EXCEPT !.projection = p, !.pending = t]
    BY <1>5, <1>8, <1>9
  <1>11. progress(apply(s, page), page) = [s EXCEPT !.projection = p, !.pending = t, !.scanned = page.last]
    <2>1. CASE page.last >= page.first
      BY <2>1, <1>10 DEF progress, Subscription
    <2>2. CASE ~(page.last >= page.first)
      <3>1. page.last = s.scanned
        BY <2>2, <1>1
      <3>2. QED
        BY <3>1, <2>2, <1>10 DEF progress, Subscription
    <2>3. QED
      BY <2>1, <2>2
  <1> DEFINE n == [s EXCEPT !.projection = p, !.pending = t, !.scanned = page.last]
  <1>12. /\ n \in Subscription /\ n.scanned = page.last
         /\ n.state = s.state /\ n.kind = s.kind /\ n.start = s.start /\ n.tail = s.tail
         /\ n.projection = p /\ n.pending = t
    BY <1>1, <1>5, <1>7 DEF Subscription
  <1>13. Through(n) = b
    BY <1>12 DEF Through
  <1> HIDE DEF n
  <1>14. QED
    BY <1>4, <1>6, <1>11, <1>12, <1>13 DEF n

\* Sequences of frames.
LEMMA FramesJoin ==
    ASSUME NEW p \in Seq(Frame), NEW q \in Seq(Frame), NEW r \in Seq(Frame)
    PROVE  /\ p \o q \in Seq(Frame)
           /\ (p \o q) \o r = p \o (q \o r)
           /\ p \o <<>> = p /\ <<>> \o p = p
           /\ Events(p) /\ Events(q) => Events(p \o q)
           /\ Events(p \o q) => Events(p) /\ Events(q)
  <1>1. p \o q \in Seq(Frame) /\ (p \o q) \o r = p \o (q \o r) /\ p \o <<>> = p /\ <<>> \o p = p
    OBVIOUS
  <1>2. /\ Len(p) \in Nat /\ Len(q) \in Nat /\ Len(p \o q) = Len(p) + Len(q)
        /\ \A i \in 1..Len(p) : (p \o q)[i] = p[i]
        /\ \A i \in 1..Len(q) : (p \o q)[Len(p) + i] = q[i] /\ Len(p) + i \in 1..Len(p \o q)
        /\ \A i \in 1..Len(p \o q) : i \in 1..Len(p)
              \/ (i - Len(p) \in 1..Len(q) /\ (p \o q)[i] = q[i - Len(p)])
    OBVIOUS
  <1>3. Events(p) /\ Events(q) => Events(p \o q)
    BY <1>2 DEF Events
  <1>4. ASSUME Events(p \o q) PROVE Events(p) /\ Events(q)
    <2>1. \A i \in 1..Len(p) : i \in 1..Len(p \o q)
      BY <1>2
    <2>2. Events(p)
      BY <1>2, <1>4, <2>1 DEF Events
    <2>3. Events(q)
      BY <1>2, <1>4 DEF Events
    <2>4. QED
      BY <2>2, <2>3
  <1>5. QED
    BY <1>1, <1>3, <1>4

\* A frame goes from the head of one sequence to the end of the one before it.
LEMMA FrameMoves ==
    ASSUME NEW p \in Seq(Frame), NEW q \in Seq(Frame), q # <<>>
    PROVE  /\ Head(q) \in Frame /\ Tail(q) \in Seq(Frame) /\ Append(p, Head(q)) \in Seq(Frame)
           /\ Append(p, Head(q)) \o Tail(q) = p \o q
           /\ q = <<Head(q)>> \o Tail(q) /\ Append(p, Head(q)) = p \o <<Head(q)>>
           /\ Events(q) => Events(<<Head(q)>>) /\ Events(Tail(q)) /\ Head(q).reason = "event"
           /\ Events(p) /\ Head(q).reason = "event" => Events(Append(p, Head(q)))
  <1>1. /\ Head(q) \in Frame /\ Tail(q) \in Seq(Frame) /\ Append(p, Head(q)) \in Seq(Frame)
        /\ Append(p, Head(q)) \o Tail(q) = p \o q
        /\ q = <<Head(q)>> \o Tail(q) /\ Append(p, Head(q)) = p \o <<Head(q)>>
    BY SMTT(20)
  <1>2. Events(q) => Head(q).reason = "event" /\ Events(Tail(q)) /\ Events(<<Head(q)>>)
    BY DEF Events
  <1>3. Events(p) /\ Head(q).reason = "event" => Events(Append(p, Head(q)))
    BY DEF Events
  <1>4. QED
    BY <1>1, <1>2, <1>3

\* A close frame is the last of the frames that it is among.
LEMMA CloseIsLast ==
    ASSUME NEW l, NEW kind, NEW p \in Seq(Frame), NEW q \in Seq(Frame), NEW a, NEW b, q # <<>>,
           Carries(l, kind, p \o q, a, b)
    PROVE  /\ Events(p)
           /\ Head(q).reason # "event" => Tail(q) = <<>>
  <1>1. /\ Len(p) \in Nat /\ Len(q) \in Nat /\ Len(q) >= 1 /\ Len(p \o q) = Len(p) + Len(q)
        /\ \A i \in 1..Len(p) : (p \o q)[i] = p[i]
        /\ (p \o q)[Len(p) + 1] = Head(q) /\ Head(q) \in Frame
        /\ Tail(q) \in Seq(Frame) /\ Len(Tail(q)) = Len(q) - 1
    OBVIOUS
  <1>2. \A i, j \in 1..Len(p \o q) : i < j => (p \o q)[i].reason = "event"
    BY DEF Carries
  <1>3. Events(p)
    <2>1. SUFFICES ASSUME NEW i \in 1..Len(p) PROVE p[i].reason = "event"
      BY DEF Events
    <2>2. i \in 1..Len(p \o q) /\ Len(p) + 1 \in 1..Len(p \o q) /\ i < Len(p) + 1
      BY <1>1
    <2>3. QED
      BY <2>2, <1>1, <1>2
  <1>4. ASSUME Head(q).reason # "event" PROVE Tail(q) = <<>>
    <2>1. CASE Len(q) > 1
      <3>1. Len(p) + 1 \in 1..Len(p \o q) /\ Len(p) + 2 \in 1..Len(p \o q) /\ Len(p) + 1 < Len(p) + 2
        BY <1>1, <2>1
      <3>2. QED
        BY <3>1, <1>1, <1>2, <1>4
    <2>2. CASE ~(Len(q) > 1)
      <3>1. Len(Tail(q)) = 0
        BY <2>2, <1>1
      <3>2. QED
        BY <3>1, <1>1
    <2>3. QED
      BY <2>1, <2>2
  <1>5. QED
    BY <1>3, <1>4

\* Notifications do not tell the end of a stream.
LEMMA EventsTellNothing ==
    /\ \A q : Events(q) => ~Tells(q)
    /\ Events(<<>>)
  BY DEF Events, Tells

\* The values of a subscription that is not there.
LEMMA ClosedType == Closed \in Subscription /\ NoPage \in [first: Nat, last: Nat] /\ NoSnapshot \in SnapshotType
  BY DEF Closed, Subscription, NoSnapshot, SnapshotType, NoPage

\* A subscription that is not there has scanned nothing.
LEMMA ClosedScans ==
    ASSUME NEW l \in Seq(Kinds), NEW over
    PROVE  Scans(l, over, Closed)
  <1>1. {k \in 1..0 : l[k] # "log"} = {}
    OBVIOUS
  <1>2. Count(l, 0) = 0
    BY <1>1, FS_EmptySet DEF Count
  <1>3. QED
    BY <1>2, EventsTellNothing DEF Scans, Closed

\* That the run comes to be over takes nothing away.
LEMMA SoundOver ==
    ASSUME NEW l, NEW o \in BOOLEAN, NEW u \in BOOLEAN, o => u, NEW f, NEW s, Sound(l, o, f, s)
    PROVE  Sound(l, u, f, s)
  <1>1. Ended(l, o, s) => Ended(l, u, s)
    BY DEF Ended
  <1>2. QED
    BY <1>1 DEF Sound, Scans, Concludes

\* Nor does an event that is appended.
LEMMA SoundLonger ==
    ASSUME NEW l \in Seq(Kinds), NEW e \in Kinds, NEW o \in BOOLEAN,
           NEW f \in Follower, NEW s \in Subscription, Sound(l, o, f, s)
    PROVE  Sound(Append(l, e), o, f, s)
  <1> DEFINE m == Append(l, e)
  <1>1. /\ m \in Seq(Kinds) /\ Len(l) \in Nat /\ Len(m) = Len(l) + 1
        /\ \A c \in 1..Len(l) : m[c] = l[c]
    OBVIOUS
  <1>2. /\ f.from \in Nat /\ f.start \in Nat /\ s.start \in Nat /\ s.scanned \in Nat
        /\ s.tail \in SnapshotType /\ s.tail.cursor \in Nat /\ s.page.last \in Nat
    BY DEF Follower, Subscription, SnapshotType
  <1>3. Through(s) \in Nat
    BY <1>2 DEF Through
  <1> HIDE DEF m
  <1>4. Genuine(l, s.tail) => Genuine(m, s.tail)
    BY <1>1, <1>2 DEF Genuine
  <1>5. Ended(l, o, s) => Ended(m, o, s)
    BY <1>4 DEF Ended
  <1>6. s.scanned <= Len(l) => Count(m, s.scanned) = Count(l, s.scanned)
    <2>1. SUFFICES ASSUME s.scanned <= Len(l) PROVE Count(m, s.scanned) = Count(l, s.scanned)
      OBVIOUS
    <2>2. \A k \in 1..s.scanned : m[k] = l[k]
      BY <2>1, <1>1, <1>2
    <2>3. {k \in 1..s.scanned : l[k] # "log"} = {k \in 1..s.scanned : m[k] # "log"}
      BY <2>2
    <2>4. QED
      BY <2>3 DEF Count
  <1>7. Scans(m, o, s)
    BY <1>1, <1>2, <1>4, <1>5, <1>6 DEF Sound, Scans
  <1>8. Prints(m, f)
    <2>1. Carries(m, f.kind, f.printed, f.start, f.from)
      BY <1>1, <1>2, CarriesLonger DEF Sound, Prints, m
    <2>2. QED
      BY <2>1, <1>1, <1>2 DEF Sound, Prints
  <1>9. Receives(m, f, s)
    <2>1. SUFFICES ASSUME f.registered PROVE Receives(m, f, s)
      BY DEF Receives
    <2>2. Through(s) <= Len(l)
      <3>1. s.scanned <= Len(l) /\ s.start <= f.from /\ f.from <= Len(l)
        BY <2>1 DEF Sound, Scans, Receives, Prints
      <3>2. QED
        BY <3>1, <1>1, <1>2 DEF Through
    <2>3. Carries(m, f.kind, f.queue \o (f.wire \o s.pending), f.from, Through(s))
      <3>1. Carries(l, f.kind, f.queue \o (f.wire \o s.pending), f.from, Through(s))
        BY <2>1 DEF Sound, Receives
      <3>2. QED
        BY <3>1, <2>2, <1>2, <1>3, CarriesLonger DEF m
    <2>4. QED
      BY <2>3 DEF Sound, Receives
  <1>10. Drains(m, f, s)
    <2>1. SUFFICES ASSUME ~f.registered PROVE Drains(m, f, s)
      BY DEF Drains
    <2>2. CASE f.at # "following"
      BY <2>1, <2>2 DEF Sound, Drains
    <2>3. CASE f.at = "following"
      <3>1. PICK c \in f.from..Len(l) : Carries(l, f.kind, f.queue, f.from, c)
        BY <2>1, <2>3 DEF Sound, Drains
      <3>2. c \in Nat /\ c <= Len(l) /\ c \in f.from..Len(m)
        BY <1>1, <1>2
      <3>3. Carries(m, f.kind, f.queue, f.from, c)
        BY <3>1, <3>2, <1>2, CarriesLonger DEF m
      <3>4. ASSUME ~Events(f.queue)
            PROVE  /\ s.start <= f.from /\ f.from <= Through(s)
                   /\ Carries(m, f.kind, f.queue, f.from, Through(s))
        <4>1. /\ s.start <= f.from /\ f.from <= Through(s)
              /\ Carries(l, f.kind, f.queue, f.from, Through(s))
          BY <2>1, <2>3, <3>4 DEF Sound, Drains
        <4>2. s.scanned <= Len(l) /\ f.from <= Len(l)
          BY <2>3 DEF Sound, Scans, Prints
        <4>3. Through(s) <= Len(l)
          BY <4>1, <4>2, <1>1, <1>2 DEF Through
        <4>4. Carries(m, f.kind, f.queue, f.from, Through(s))
          BY <4>1, <4>3, <1>2, <1>3, CarriesLonger DEF m
        <4>5. QED
          BY <4>1, <4>4
      <3>5. f.wire = <<>> /\ s.state = "closed"
        BY <2>1 DEF Sound, Drains
      <3>6. QED
        BY <2>3, <3>2, <3>3, <3>4, <3>5 DEF Drains
    <2>4. QED
      BY <2>2, <2>3
  <1>11. Concludes(m, o, f, s)
    BY <1>5 DEF Sound, Concludes
  <1>12. QED
    BY <1>7, <1>8, <1>9, <1>10, <1>11 DEF Sound, m

\* A follower without a connection whose receiver is empty.
LEMMA ApartSound ==
    ASSUME NEW l \in Seq(Kinds), NEW o \in BOOLEAN, NEW f \in Follower, NEW s \in Subscription,
           Prints(l, f), ~f.registered, f.wire = <<>>, f.queue = <<>>, f.at # "following",
           s.state = "closed", Scans(l, o, s)
    PROVE  Sound(l, o, f, s)
  BY EventsTellNothing DEF Sound, Receives, Drains, Concludes

\* recv.
LEMMA RecvSound ==
    ASSUME NEW l \in Seq(Kinds), NEW o \in BOOLEAN, NEW f \in Follower, NEW s \in Subscription,
           Sound(l, o, f, s), s.state = "open", s.pending # <<>>
    PROVE  LET g == [f EXCEPT !.wire = Append(@, Head(s.pending))]
               n == [s EXCEPT !.pending = Tail(@)]
           IN  g \in Follower /\ n \in Subscription /\ Sound(l, o, g, n)
  <1> DEFINE g == [f EXCEPT !.wire = Append(@, Head(s.pending))]
             n == [s EXCEPT !.pending = Tail(@)]
  <1>1. f.queue \in Seq(Frame) /\ f.wire \in Seq(Frame) /\ s.pending \in Seq(Frame)
    BY DEF Follower, Subscription
  <1>2. /\ Append(f.wire, Head(s.pending)) \in Seq(Frame) /\ Tail(s.pending) \in Seq(Frame)
        /\ Append(f.wire, Head(s.pending)) \o Tail(s.pending) = f.wire \o s.pending
    BY <1>1, FrameMoves
  <1>3. f.registered /\ Events(f.queue) /\ Events(f.wire) /\ Events(s.pending)
    BY DEF Sound, Drains, Receives, Scans
  <1>4. Events(Append(f.wire, Head(s.pending))) /\ Events(Tail(s.pending))
    BY <1>1, <1>3, FrameMoves
  <1>5. /\ g \in Follower /\ g.wire = Append(f.wire, Head(s.pending))
        /\ g.at = f.at /\ g.kind = f.kind /\ g.start = f.start /\ g.from = f.from /\ g.printed = f.printed
        /\ g.queue = f.queue /\ g.registered = f.registered
    BY <1>2 DEF Follower
  <1>6. /\ n \in Subscription /\ n.pending = Tail(s.pending)
        /\ n.state = s.state /\ n.kind = s.kind /\ n.start = s.start /\ n.scanned = s.scanned
        /\ n.projection = s.projection /\ n.tail = s.tail /\ n.page = s.page
    BY <1>2 DEF Subscription
  <1>7. Through(n) = Through(s)
    BY <1>6 DEF Through
  <1> HIDE DEF g, n
  <1>8. Scans(l, o, n)
    BY <1>4, <1>6 DEF Sound, Scans
  <1>9. Prints(l, g)
    BY <1>5 DEF Sound, Prints
  <1>10. Receives(l, g, n)
    BY <1>2, <1>3, <1>4, <1>5, <1>6, <1>7 DEF Sound, Receives
  <1>11. Drains(l, g, n)
    BY <1>3, <1>5 DEF Drains
  <1>12. Concludes(l, o, g, n)
    BY <1>3, <1>4, <1>5, EventsTellNothing DEF Concludes
  <1>13. QED
    BY <1>5, <1>6, <1>8, <1>9, <1>10, <1>11, <1>12 DEF Sound, g, n

\* send_closed.
LEMMA SendClosedSound ==
    ASSUME NEW l \in Seq(Kinds), NEW o \in BOOLEAN, NEW f \in Follower, NEW s \in Subscription,
           Sound(l, o, f, s), s.state \in Closings
    PROVE  LET g == [f EXCEPT !.wire = Append(@, Close(s.state))]
               n == [s EXCEPT !.state = "closed"]
           IN  g \in Follower /\ n \in Subscription /\ Sound(l, o, g, n)
  <1> DEFINE g == [f EXCEPT !.wire = Append(@, Close(s.state))]
             n == [s EXCEPT !.state = "closed"]
  <1>1. /\ f.queue \in Seq(Frame) /\ f.wire \in Seq(Frame) /\ s.pending = <<>> /\ f.from \in Nat
        /\ s.start \in Nat /\ s.scanned \in Nat
    BY DEF Follower, Subscription, Sound, Scans, Closings
  <1>2. Close(s.state) \in Frame /\ Close(s.state).reason = s.state
    BY DEF Close, Frame, Closings
  <1>3. Append(f.wire, Close(s.state)) \in Seq(Frame)
    BY <1>1, <1>2
  <1>4. f.registered /\ Events(f.queue) /\ Events(f.wire)
    BY DEF Sound, Drains, Receives, Closings
  <1>5. /\ g \in Follower /\ g.wire = Append(f.wire, Close(s.state))
        /\ g.at = f.at /\ g.kind = f.kind /\ g.start = f.start /\ g.from = f.from /\ g.printed = f.printed
        /\ g.queue = f.queue /\ g.registered = f.registered
    BY <1>3 DEF Follower
  <1>6. /\ n \in Subscription /\ n.state = "closed"
        /\ n.pending = s.pending /\ n.kind = s.kind /\ n.start = s.start /\ n.scanned = s.scanned
        /\ n.projection = s.projection /\ n.tail = s.tail /\ n.page = s.page
    BY DEF Subscription
  <1>7. Through(n) = Through(s) /\ Through(s) \in Nat
    BY <1>1, <1>6 DEF Through
  <1>8. f.queue \o (g.wire \o n.pending) = Append(f.queue \o (f.wire \o s.pending), Close(s.state))
    <2>1. ASSUME NEW q \in Seq(Frame), NEW v \in Seq(Frame), NEW c \in Frame
          PROVE  q \o (Append(v, c) \o <<>>) = Append(q \o (v \o <<>>), c)
      <3>1. Append(v, c) \o <<>> = Append(v, c) /\ v \o <<>> = v
        OBVIOUS
      <3>2. q \o Append(v, c) = Append(q \o v, c)
        OBVIOUS
      <3>3. QED
        BY <3>1, <3>2
    <2>2. f.queue \o (Append(f.wire, Close(s.state)) \o <<>>) = Append(f.queue \o (f.wire \o <<>>), Close(s.state))
      BY <2>1, <1>1, <1>2
    <2>3. QED
      BY <2>2, <1>1, <1>5, <1>6
  <1>9. Events(f.queue \o (f.wire \o s.pending))
    <2>1. f.wire \o s.pending = f.wire
      BY <1>1, FramesJoin
    <2>2. QED
      BY <2>1, <1>1, <1>4, FramesJoin
  <1> HIDE DEF g, n
  <1>10. Scans(l, o, n)
    BY <1>1, <1>6 DEF Sound, Scans
  <1>11. Prints(l, g)
    BY <1>5 DEF Sound, Prints
  <1>12. Carries(l, f.kind, f.queue \o (f.wire \o s.pending), f.from, Through(s))
    BY <1>4 DEF Sound, Receives
  <1>13. Carries(l, g.kind, g.queue \o (g.wire \o n.pending), g.from, Through(n))
    BY <1>1, <1>5, <1>7, <1>8, <1>9, <1>12, CarriesClose
  <1>14. Receives(l, g, n)
    BY <1>4, <1>5, <1>6, <1>7, <1>13 DEF Sound, Receives
  <1>15. Drains(l, g, n)
    BY <1>4, <1>5 DEF Drains
  <1>16. Concludes(l, o, g, n)
    <2>1. CASE s.state = "done"
      <3>1. Ended(l, o, s)
        BY <2>1 DEF Sound, Scans
      <3>2. Ended(l, o, n)
        BY <3>1, <1>6 DEF Ended
      <3>3. QED
        BY <3>2 DEF Concludes
    <2>2. CASE s.state = "unavailable"
      <3>1. \A i \in 1..Len(g.wire) : g.wire[i].reason # "done"
        BY <2>2, <1>1, <1>2, <1>4, <1>5 DEF Events
      <3>2. QED
        BY <3>1, <1>4, <1>5, EventsTellNothing DEF Concludes, Tells
    <2>3. QED
      BY <2>1, <2>2 DEF Closings
  <1>17. QED
    BY <1>5, <1>6, <1>10, <1>11, <1>14, <1>15, <1>16 DEF Sound, g, n

\* Receiver, wire and subscription are read as one sequence.
LEMMA FramesAssociate ==
    ASSUME NEW p \in Seq(Frame), NEW q \in Seq(Frame), NEW r \in Seq(Frame)
    PROVE  (p \o q) \o r = p \o (q \o r)
  OBVIOUS

\* forward_notification, and the cancellation that may follow it.
LEMMA PumpSound ==
    ASSUME NEW l \in Seq(Kinds), NEW o \in BOOLEAN, NEW f \in Follower, NEW s \in Subscription,
           Sound(l, o, f, s), f.registered, f.wire # <<>>
    PROVE  LET g == forward_notification(f)
               n == IF g.registered \/ Head(f.wire).reason # "event" THEN s ELSE Closed
           IN  g \in Follower /\ n \in Subscription /\ Sound(l, o, g, n)
  <1> DEFINE g == forward_notification(f)
             n == IF g.registered \/ Head(f.wire).reason # "event" THEN s ELSE Closed
             T == Through(s)
  <1>1. /\ f.queue \in Seq(Frame) /\ f.wire \in Seq(Frame) /\ s.pending \in Seq(Frame)
        /\ f.from \in Nat /\ s.start \in Nat /\ s.scanned \in Nat /\ T \in Nat /\ Len(l) \in Nat
    BY DEF Follower, Subscription, Through
  <1>2. /\ f.at = "following" /\ s.kind = f.kind /\ s.start <= f.from /\ f.from <= T
        /\ Events(f.queue) /\ (s.state # "closed" => Events(f.wire))
        /\ Carries(l, f.kind, f.queue \o (f.wire \o s.pending), f.from, T)
        /\ f.from <= Len(l) /\ s.scanned <= Len(l)
    BY DEF Sound, Receives, Prints, Scans
  <1>3. T <= Len(l)
    BY <1>1, <1>2 DEF Through
  <1>4. /\ Head(f.wire) \in Frame /\ Tail(f.wire) \in Seq(Frame)
        /\ Append(f.queue, Head(f.wire)) \in Seq(Frame)
        /\ Head(f.wire).reason = "event" => Events(Append(f.queue, Head(f.wire)))
        /\ Events(f.wire) => Events(Tail(f.wire)) /\ Head(f.wire).reason = "event"
    BY <1>1, <1>2, FrameMoves
  <1>5. Append(f.queue, Head(f.wire)) \o (Tail(f.wire) \o s.pending) = f.queue \o (f.wire \o s.pending)
    <2>1. Append(f.queue, Head(f.wire)) \o Tail(f.wire) = f.queue \o f.wire
      BY <1>1, FrameMoves
    <2>2. (Append(f.queue, Head(f.wire)) \o Tail(f.wire)) \o s.pending
            = Append(f.queue, Head(f.wire)) \o (Tail(f.wire) \o s.pending)
      BY <1>1, <1>4, FramesAssociate
    <2>3. (f.queue \o f.wire) \o s.pending = f.queue \o (f.wire \o s.pending)
      BY <1>1, FramesAssociate
    <2>4. QED
      BY <2>1, <2>2, <2>3
  \* A close frame is on its way behind everything else.
  <1>6. Head(f.wire).reason # "event" =>
          s.state = "closed" /\ Tail(f.wire) = <<>> /\ s.pending = <<>>
    <2>1. SUFFICES ASSUME Head(f.wire).reason # "event"
                   PROVE  s.state = "closed" /\ Tail(f.wire) = <<>> /\ s.pending = <<>>
      OBVIOUS
    <2>2. s.state = "closed"
      BY <2>1, <1>2, <1>4
    <2>3. s.pending = <<>>
      BY <2>2 DEF Sound, Scans
    <2>4. f.wire \o s.pending = f.wire
      BY <2>3, <1>1, FramesJoin
    <2>5. Tail(f.wire) = <<>>
      BY <2>1, <2>4, <1>1, <1>2, CloseIsLast
    <2>6. QED
      BY <2>2, <2>3, <2>5
  <1>7. \E m \in f.from..Len(l) : Carries(l, f.kind, f.queue, f.from, m)
    <2>1. f.wire \o s.pending \in Seq(Frame)
      BY <1>1, FramesJoin
    <2>2. PICK m \in f.from..T : Carries(l, f.kind, f.queue, f.from, m)
      BY <2>1, <1>1, <1>2, CarriesPrefix
    <2>3. m \in f.from..Len(l)
      BY <1>1, <1>3
    <2>4. QED
      BY <2>2, <2>3
  <1>8. CASE Len(f.queue) < MaxQueue /\ Head(f.wire).reason = "event"
    <2>1. g = [f EXCEPT !.queue = Append(f.queue, Head(f.wire)), !.wire = Tail(f.wire), !.registered = TRUE]
      BY <1>8 DEF forward_notification, Follower
    <2>2. /\ g \in Follower /\ g.queue = Append(f.queue, Head(f.wire)) /\ g.wire = Tail(f.wire)
          /\ g.registered = TRUE
          /\ g.at = f.at /\ g.kind = f.kind /\ g.start = f.start /\ g.from = f.from /\ g.printed = f.printed
      BY <2>1, <1>4 DEF Follower
    <2>3. n = s
      BY <2>2
    <2> HIDE DEF g, n
    <2>4. Receives(l, g, s)
      BY <2>2, <1>2, <1>4, <1>5, <1>8 DEF Receives
    <2>5. Drains(l, g, s)
      BY <2>2 DEF Drains
    <2>6. Prints(l, g)
      BY <2>2 DEF Sound, Prints
    <2>7. Concludes(l, o, g, s)
      <3>1. Tells(g.wire) => Tells(f.wire)
        <4>1. Len(f.wire) \in Nat /\ Len(Tail(f.wire)) = Len(f.wire) - 1
              /\ \A i \in 1..Len(Tail(f.wire)) : Tail(f.wire)[i] = f.wire[i + 1] /\ i + 1 \in 1..Len(f.wire)
          BY <1>1
        <4>2. QED
          BY <4>1, <2>2 DEF Tells
      <3>2. ~Tells(g.queue)
        BY <2>2, <1>4, <1>8, EventsTellNothing
      <3>3. QED
        BY <3>1, <3>2 DEF Sound, Concludes
    <2>8. QED
      BY <2>2, <2>3, <2>4, <2>5, <2>6, <2>7 DEF Sound, g, n
  <1>9. CASE Len(f.queue) < MaxQueue /\ Head(f.wire).reason # "event"
    <2>1. g = [f EXCEPT !.queue = Append(f.queue, Head(f.wire)), !.wire = Tail(f.wire), !.registered = FALSE]
      BY <1>9 DEF forward_notification, Follower
    <2>2. /\ g \in Follower /\ g.queue = Append(f.queue, Head(f.wire)) /\ g.wire = <<>>
          /\ g.registered = FALSE
          /\ g.at = f.at /\ g.kind = f.kind /\ g.start = f.start /\ g.from = f.from /\ g.printed = f.printed
      BY <2>1, <1>4, <1>6, <1>9 DEF Follower
    <2>3. n = s /\ s.state = "closed"
      BY <1>6, <1>9
    <2>4. Carries(l, f.kind, g.queue, f.from, T)
      <3>1. Tail(f.wire) \o s.pending = <<>>
        BY <1>6, <1>9
      <3>2. g.queue \o <<>> = g.queue
        BY <2>2, <1>4, FramesJoin
      <3>3. QED
        BY <3>1, <3>2, <2>2, <1>2, <1>5
    <2> HIDE DEF g, n
    <2>5. Receives(l, g, s)
      BY <2>2 DEF Receives
    <2>6. Drains(l, g, s)
      <3>1. T \in f.from..Len(l)
        BY <1>1, <1>2, <1>3
      <3>2. QED
        BY <3>1, <2>2, <2>3, <2>4, <1>2 DEF Drains
    <2>7. Prints(l, g)
      BY <2>2 DEF Sound, Prints
    <2>8. Concludes(l, o, g, s)
      <3>1. ~Tells(g.wire)
        BY <2>2, EventsTellNothing
      <3>2. Tells(g.queue) => Tells(f.wire)
        <4>1. /\ Len(f.queue) \in Nat /\ Len(g.queue) = Len(f.queue) + 1
              /\ \A i \in 1..Len(f.queue) : g.queue[i] = f.queue[i]
              /\ g.queue[Len(f.queue) + 1] = f.wire[1] /\ 1 \in 1..Len(f.wire)
          BY <2>2, <1>1
        <4>2. \A i \in 1..Len(g.queue) : i \in 1..Len(f.queue) \/ i = Len(f.queue) + 1
          BY <4>1
        <4>3. \A i \in 1..Len(f.queue) : f.queue[i].reason # "done"
          BY <1>2 DEF Events
        <4>4. QED
          BY <4>1, <4>2, <4>3 DEF Tells
      <3>3. QED
        BY <3>1, <3>2 DEF Sound, Concludes
    <2>9. QED
      BY <2>2, <2>3, <2>5, <2>6, <2>7, <2>8 DEF Sound, g, n
  <1>10. CASE ~(Len(f.queue) < MaxQueue)
    <2>1. g = [f EXCEPT !.wire = <<>>, !.registered = FALSE]
      BY <1>10 DEF forward_notification
    <2>2. /\ g \in Follower /\ g.queue = f.queue /\ g.wire = <<>> /\ g.registered = FALSE
          /\ g.at = f.at /\ g.kind = f.kind /\ g.start = f.start /\ g.from = f.from /\ g.printed = f.printed
      <3>1. <<>> \in Seq(Frame)
        OBVIOUS
      <3>2. QED
        BY <3>1, <2>1 DEF Follower
    <2>3. n \in Subscription /\ n.state = "closed" /\ Scans(l, o, n)
      <3>1. CASE Head(f.wire).reason = "event"
        <4>1. n = Closed
          BY <3>1, <2>2
        <4>2. QED
          BY <4>1, ClosedType, ClosedScans DEF Closed
      <3>2. CASE Head(f.wire).reason # "event"
        <4>1. n = s
          BY <3>2
        <4>2. QED
          BY <4>1, <3>2, <1>6 DEF Sound
      <3>3. QED
        BY <3>1, <3>2
    <2> HIDE DEF g, n
    <2>4. Receives(l, g, n)
      BY <2>2 DEF Receives
    <2>5. Drains(l, g, n)
      BY <2>2, <2>3, <1>2, <1>7 DEF Drains
    <2>6. Prints(l, g)
      BY <2>2 DEF Sound, Prints
    <2>7. Concludes(l, o, g, n)
      BY <2>2, <1>2, EventsTellNothing DEF Concludes
    <2>8. QED
      BY <2>2, <2>3, <2>4, <2>5, <2>6, <2>7 DEF Sound, g, n
  <1>11. QED
    BY <1>8, <1>9, <1>10

\* cut.
LEMMA CutSound ==
    ASSUME NEW l \in Seq(Kinds), NEW o \in BOOLEAN, NEW f \in Follower, NEW s \in Subscription,
           Sound(l, o, f, s), f.registered
    PROVE  LET g == [f EXCEPT !.registered = FALSE, !.wire = <<>>, !.losses = @ + 1]
           IN  g \in Follower /\ Sound(l, o, g, Closed)
  <1> DEFINE g == [f EXCEPT !.registered = FALSE, !.wire = <<>>, !.losses = @ + 1]
             T == Through(s)
  <1>1. /\ f.queue \in Seq(Frame) /\ f.wire \in Seq(Frame) /\ s.pending \in Seq(Frame)
        /\ f.from \in Nat /\ s.start \in Nat /\ s.scanned \in Nat /\ T \in Nat /\ Len(l) \in Nat
    BY DEF Follower, Subscription, Through
  <1>2. /\ f.at = "following" /\ s.start <= f.from /\ f.from <= T /\ Events(f.queue)
        /\ Carries(l, f.kind, f.queue \o (f.wire \o s.pending), f.from, T)
        /\ f.from <= Len(l) /\ s.scanned <= Len(l)
    BY DEF Sound, Receives, Prints, Scans
  <1>3. T <= Len(l)
    BY <1>1, <1>2 DEF Through
  <1>4. \E m \in f.from..Len(l) : Carries(l, f.kind, f.queue, f.from, m)
    <2>1. f.wire \o s.pending \in Seq(Frame)
      BY <1>1, FramesJoin
    <2>2. PICK m \in f.from..T : Carries(l, f.kind, f.queue, f.from, m)
      BY <2>1, <1>1, <1>2, CarriesPrefix
    <2>3. m \in f.from..Len(l)
      BY <1>1, <1>3
    <2>4. QED
      BY <2>2, <2>3
  <1>5. /\ g \in Follower /\ g.queue = f.queue /\ g.wire = <<>> /\ g.registered = FALSE
        /\ g.at = f.at /\ g.kind = f.kind /\ g.start = f.start /\ g.from = f.from /\ g.printed = f.printed
    <2>1. <<>> \in Seq(Frame)
      OBVIOUS
    <2>2. f.losses \in Nat
      BY DEF Follower
    <2>3. f.losses + 1 \in Nat
      BY <2>2
    <2>4. QED
      BY <2>1, <2>3 DEF Follower
  <1>6. Closed.state = "closed" /\ Scans(l, o, Closed)
    BY ClosedScans DEF Closed
  <1> HIDE DEF g
  <1>7. Receives(l, g, Closed)
    BY <1>5 DEF Receives
  <1>8. Drains(l, g, Closed)
    BY <1>2, <1>4, <1>5, <1>6 DEF Drains
  <1>9. Prints(l, g)
    BY <1>5 DEF Sound, Prints
  <1>10. Concludes(l, o, g, Closed)
    BY <1>2, <1>5, EventsTellNothing DEF Concludes
  <1>11. QED
    BY <1>5, <1>6, <1>7, <1>8, <1>9, <1>10 DEF Sound, g

\* A command that ends has dropped its connection and keeps what it printed.
LEMMA SettledSound ==
    ASSUME NEW l \in Seq(Kinds), NEW o \in BOOLEAN, NEW f \in Follower, Prints(l, f), f.at \in Finished
    PROVE  LET g == [f EXCEPT !.wire = <<>>, !.queue = <<>>, !.registered = FALSE]
           IN  g \in Follower /\ Sound(l, o, g, Closed)
  <1> DEFINE g == [f EXCEPT !.wire = <<>>, !.queue = <<>>, !.registered = FALSE]
  <1>1. <<>> \in Seq(Frame)
    OBVIOUS
  <1>2. /\ g \in Follower /\ g.queue = <<>> /\ g.wire = <<>> /\ g.registered = FALSE
        /\ g.at = f.at /\ g.kind = f.kind /\ g.start = f.start /\ g.from = f.from /\ g.printed = f.printed
    BY <1>1 DEF Follower
  <1>3. Prints(l, g) /\ g.at # "following"
    BY <1>2 DEF Prints, Finished
  <1>4. Closed.state = "closed"
    BY DEF Closed
  <1> HIDE DEF g
  <1>5. Sound(l, o, g, Closed)
    BY <1>2, <1>3, <1>4, ClosedType, ClosedScans, ApartSound
  <1>6. QED
    BY <1>2, <1>5 DEF g

\* The first item of a receiver that holds some.
LEMMA FirstItem ==
    ASSUME NEW p \in Seq(Frame), NEW q \in Seq(Frame), p # <<>>
    PROVE  /\ p \o q # <<>> /\ Head(p \o q) = Head(p) /\ Tail(p \o q) = Tail(p) \o q
           /\ Tail(p) \in Seq(Frame) /\ Head(p) \in Frame
           /\ Events(p) => Events(Tail(p))
           /\ Events(Tail(p)) /\ Head(p).reason = "event" => Events(p)
           /\ Tells(Tail(p)) => Tells(p)
  <1>1. /\ Tail(p) \in Seq(Frame) /\ Head(p) \in Frame /\ Len(p) \in Nat /\ Len(p) >= 1
        /\ Head(p) = p[1] /\ Len(Tail(p)) = Len(p) - 1
        /\ \A i \in 1..Len(Tail(p)) : Tail(p)[i] = p[i + 1] /\ i + 1 \in 1..Len(p)
        /\ \A i \in 1..Len(p) : i = 1 \/ (i - 1 \in 1..Len(Tail(p)) /\ Tail(p)[i - 1] = p[i])
    OBVIOUS
  <1>2. p \o q # <<>> /\ Head(p \o q) = Head(p)
    OBVIOUS
  <1>3. Tail(p \o q) = Tail(p) \o q
    OBVIOUS
  <1>4. QED
    BY <1>1, <1>2, <1>3 DEF Events, Tells

\* write_durable_event: the first notification of the receiver is printed and remembered.
LEMMA WriteSound ==
    ASSUME NEW l \in Seq(Kinds), NEW o \in BOOLEAN, NEW f \in Follower, NEW s \in Subscription,
           Sound(l, o, f, s), f.at = "following", f.queue # <<>>, Head(f.queue).reason = "event",
           NEW g \in Follower, g.queue = Tail(f.queue), g.printed = Append(f.printed, Head(f.queue)),
           g.from = Head(f.queue).cursor, g.kind = f.kind, g.start = f.start, g.wire = f.wire,
           g.registered = f.registered
    PROVE  /\ f.from < g.from /\ g.from <= Len(l) /\ Prints(l, g)
           /\ g.at = "following" => Sound(l, o, g, s)
  <1> DEFINE T == Through(s)
             c == Head(f.queue).cursor
             rest == f.wire \o s.pending
  <1>1. /\ f.queue \in Seq(Frame) /\ f.wire \in Seq(Frame) /\ s.pending \in Seq(Frame)
        /\ f.printed \in Seq(Frame) /\ f.start \in Nat
        /\ f.from \in Nat /\ s.start \in Nat /\ s.scanned \in Nat /\ T \in Nat /\ Len(l) \in Nat
        /\ f.registered \in BOOLEAN
    BY DEF Follower, Subscription, Through
  <1>2. rest \in Seq(Frame)
    BY <1>1, FramesJoin
  <1>3. /\ Tail(f.queue) \in Seq(Frame) /\ Head(f.queue) \in Frame
        /\ Events(f.queue) => Events(Tail(f.queue))
        /\ Events(Tail(f.queue)) => Events(f.queue)
        /\ Tells(Tail(f.queue)) => Tells(f.queue)
    BY <1>1, <1>2, FirstItem
  <1>4. f.from <= Len(l) /\ s.scanned <= Len(l) /\ f.start <= f.from
        /\ Carries(l, f.kind, f.printed, f.start, f.from) /\ Events(f.printed)
    BY DEF Sound, Scans, Prints
  \* How far the receiver reaches, and what is in it.
  <1>5. ASSUME f.registered
        PROVE  /\ s.kind = f.kind /\ s.start <= f.from /\ T <= Len(l)
               /\ Events(f.queue) /\ (s.state # "closed" => Events(f.wire))
               /\ c \in Nat /\ f.from < c /\ c <= T
               /\ Carries(l, f.kind, <<Head(f.queue)>>, f.from, c)
               /\ Carries(l, f.kind, Tail(f.queue) \o rest, c, T)
    <2>1. /\ s.kind = f.kind /\ s.start <= f.from /\ Events(f.queue)
          /\ (s.state # "closed" => Events(f.wire))
          /\ Carries(l, f.kind, f.queue \o rest, f.from, T)
      BY <1>5 DEF Sound, Receives
    <2>2. T <= Len(l)
      BY <2>1, <1>1, <1>4 DEF Through
    <2>3. /\ f.queue \o rest # <<>> /\ Head(f.queue \o rest) = Head(f.queue)
          /\ Tail(f.queue \o rest) = Tail(f.queue) \o rest
      BY <1>1, <1>2, FirstItem
    <2> HIDE DEF T, rest
    <2>4. QED
      BY <2>1, <2>2, <2>3, <1>1, CarriesHead
  <1>6. ASSUME ~f.registered
        PROVE  \E m \in f.from..Len(l) :
                  /\ c \in Nat /\ f.from < c /\ c <= m
                  /\ Carries(l, f.kind, <<Head(f.queue)>>, f.from, c)
                  /\ Carries(l, f.kind, Tail(f.queue), c, m)
    <2>1. PICK m \in f.from..Len(l) : Carries(l, f.kind, f.queue, f.from, m)
      BY <1>6 DEF Sound, Drains
    <2>2. m \in Nat
      BY <1>1
    <2>3. QED
      BY <2>1, <2>2, <1>1, CarriesHead
  <1>7. c \in Nat /\ f.from < c /\ c <= Len(l) /\ Carries(l, f.kind, <<Head(f.queue)>>, f.from, c)
    <2>1. CASE f.registered
      BY <2>1, <1>5, <1>1
    <2>2. CASE ~f.registered
      <3>1. PICK m \in f.from..Len(l) :
                  /\ c \in Nat /\ f.from < c /\ c <= m
                  /\ Carries(l, f.kind, <<Head(f.queue)>>, f.from, c)
        BY <2>2, <1>6
      <3>2. c <= Len(l)
        BY <3>1, <1>1
      <3>3. QED
        BY <3>1, <3>2
    <2>3. QED
      BY <2>1, <2>2
  <1>8. Prints(l, g)
    <2>1. <<Head(f.queue)>> \in Seq(Frame) /\ Events(<<Head(f.queue)>>)
      BY <1>3 DEF Events
    <2>2. g.printed = f.printed \o <<Head(f.queue)>>
      BY <1>1, FrameMoves
    <2>3. Carries(l, f.kind, f.printed \o <<Head(f.queue)>>, f.start, c)
      BY <1>1, <1>4, <1>7, CarriesJoin
    <2>4. Events(f.printed \o <<Head(f.queue)>>)
      BY <2>1, <1>1, <1>4, FramesJoin
    <2>5. f.start <= c
      BY <1>1, <1>4, <1>7
    <2>6. QED
      BY <2>2, <2>3, <2>4, <2>5, <1>7 DEF Prints
  <1>9. ASSUME g.at = "following" PROVE Sound(l, o, g, s)
    <2>1. Receives(l, g, s)
      <3>1. SUFFICES ASSUME f.registered PROVE Receives(l, g, s)
        BY DEF Receives
      <3>2. s.start <= c
        BY <3>1, <1>1, <1>5, <1>7
      <3>3. QED
        BY <3>1, <3>2, <1>3, <1>5, <1>9 DEF Receives
    <2>2. Drains(l, g, s)
      <3>1. SUFFICES ASSUME ~f.registered PROVE Drains(l, g, s)
        BY DEF Drains
      <3>2. \E m \in c..Len(l) : Carries(l, f.kind, Tail(f.queue), c, m)
        <4>1. PICK m \in f.from..Len(l) : c <= m /\ Carries(l, f.kind, Tail(f.queue), c, m)
          BY <3>1, <1>6
        <4>2. m \in c..Len(l)
          BY <4>1, <1>1, <1>7
        <4>3. QED
          BY <4>1, <4>2
      <3>3. f.wire = <<>> /\ s.state = "closed"
        BY <3>1 DEF Sound, Drains
      <3>4. ASSUME ~Events(Tail(f.queue))
            PROVE  s.start <= c /\ c <= T /\ Carries(l, f.kind, Tail(f.queue), c, T)
        <4>1. s.start <= f.from /\ f.from <= T /\ Carries(l, f.kind, f.queue, f.from, T)
          BY <3>1, <3>4, <1>3 DEF Sound, Drains
        <4>2. c <= T /\ Carries(l, f.kind, Tail(f.queue), c, T)
          BY <4>1, <1>1, CarriesHead
        <4>3. QED
          BY <4>1, <4>2, <1>1, <1>7
      <3>5. QED
        BY <3>2, <3>3, <3>4, <1>9 DEF Drains
    <2>3. Concludes(l, o, g, s)
      BY <1>3 DEF Sound, Concludes
    <2>4. QED
      BY <2>1, <2>2, <2>3, <1>8 DEF Sound
  <1>10. QED
    BY <1>7, <1>8, <1>9

\* A follower between two connections has nothing but what it printed.
LEMMA ConnectingSound ==
    ASSUME NEW l \in Seq(Kinds), NEW o \in BOOLEAN, NEW f \in Follower, NEW s \in Subscription,
           Sound(l, o, f, s), ~f.registered, f.queue = <<>>, NEW at \in {"connecting", "failed"}
    PROVE  LET g == [f EXCEPT !.at = at]
           IN  g \in Follower /\ Sound(l, o, g, s)
  <1> DEFINE g == [f EXCEPT !.at = at]
  <1>1. /\ g \in Follower /\ g.queue = <<>> /\ g.wire = f.wire /\ g.registered = f.registered /\ g.at = at
        /\ g.kind = f.kind /\ g.start = f.start /\ g.from = f.from /\ g.printed = f.printed
    BY DEF Follower, Finished
  <1>2. f.wire = <<>> /\ s.state = "closed" /\ Scans(l, o, s)
    BY DEF Sound, Drains
  <1>3. Prints(l, g) /\ g.at # "following"
    BY <1>1 DEF Sound, Prints
  <1> HIDE DEF g
  <1>4. Sound(l, o, g, s)
    BY <1>1, <1>2, <1>3, ApartSound
  <1>5. QED
    BY <1>1, <1>4 DEF g

\* open: the first page from the last printed cursor.
LEMMA OpenSound ==
    ASSUME ledger \in Seq(Kinds), NEW o \in BOOLEAN, NEW f \in Follower, NEW s \in Subscription,
           Sound(ledger, o, f, s), f.at = "connecting", f.from <= Len(ledger),
           NEW page \in read_page(opened(f.kind, f.from).scanned)
    PROVE  LET g == [f EXCEPT !.at = "following", !.registered = TRUE]
               n == progress(apply(opened(f.kind, f.from), page), page)
           IN  g \in Follower /\ n \in Subscription /\ Sound(ledger, o, g, n)
  <1> DEFINE g == [f EXCEPT !.at = "following", !.registered = TRUE]
             z == opened(f.kind, f.from)
             n == progress(apply(z, page), page)
  <1>1. f.kind \in {"watch", "logs"} /\ f.from \in Nat /\ Len(ledger) \in Nat
    BY DEF Follower
  <1>2. f.registered = FALSE /\ f.wire = <<>> /\ f.queue = <<>>
    BY DEF Sound, Receives, Drains, Follower
  <1>3. /\ z \in Subscription /\ z.state = "open" /\ z.kind = f.kind /\ z.start = f.from
        /\ z.scanned = (IF f.kind = "watch" THEN 0 ELSE f.from) /\ z.projection = 0 /\ z.pending = <<>>
    <2>1. Closed \in Subscription /\ Closed.projection = 0 /\ Closed.pending = <<>>
      BY ClosedType DEF Closed
    <2>2. z = [Closed EXCEPT !.state = "open", !.kind = f.kind, !.start = f.from,
                             !.scanned = IF f.kind = "watch" THEN 0 ELSE f.from]
      BY DEF opened
    <2>3. (IF f.kind = "watch" THEN 0 ELSE f.from) \in Nat
      BY <1>1
    <2> HIDE DEF z
    <2>4. QED
      BY <2>1, <2>2, <2>3, <1>1 DEF Subscription
  <1>4. /\ page.first = z.scanned + 1 /\ z.scanned <= page.last /\ page.last <= Len(ledger)
        /\ page \in [first: Nat, last: Nat]
    <2>1. z.scanned \in Nat /\ z.scanned <= Len(ledger)
      BY <1>1, <1>3
    <2>2. page \in read_page(z.scanned)
      OBVIOUS
    <2> HIDE DEF z
    <2>3. QED
      BY <2>1, <2>2, PageRead
  <1>5. z.kind = "watch" => z.projection = Count(ledger, z.scanned)
    <2>1. {k \in 1..0 : ledger[k] # "log"} = {}
      OBVIOUS
    <2>2. Count(ledger, 0) = 0
      BY <2>1, FS_EmptySet DEF Count
    <2>3. QED
      BY <2>2, <1>3
  <1>6. Through(z) = f.from
    BY <1>1, <1>3 DEF Through
  <1> HIDE DEF z
  <1>7. /\ n \in Subscription /\ n.scanned = page.last /\ n.state = "open" /\ n.kind = f.kind
        /\ n.start = f.from /\ (n.kind = "watch" => n.projection = Count(ledger, n.scanned))
        /\ Events(n.pending) /\ Carries(ledger, f.kind, n.pending, f.from, Through(n))
    BY <1>3, <1>4, <1>5, <1>6, ApplyPage
  <1> HIDE DEF n
  <1>8. /\ g \in Follower /\ g.queue = <<>> /\ g.wire = <<>> /\ g.registered = TRUE /\ g.at = "following"
        /\ g.kind = f.kind /\ g.start = f.start /\ g.from = f.from /\ g.printed = f.printed
    BY <1>2 DEF Follower
  <1> HIDE DEF g
  <1>9. Scans(ledger, o, n)
    BY <1>4, <1>7 DEF Scans
  <1>10. Prints(ledger, g)
    BY <1>8 DEF Sound, Prints
  <1>11. Receives(ledger, g, n)
    <2>1. g.queue \o (g.wire \o n.pending) = n.pending
      <3>1. n.pending \in Seq(Frame) /\ <<>> \in Seq(Frame)
        BY <1>7 DEF Subscription
      <3>2. <<>> \o (<<>> \o n.pending) = n.pending
        BY <3>1
      <3>3. QED
        BY <3>2, <1>8
    <2>2. f.from <= Through(n)
      <3>1. n.scanned \in Nat
        BY <1>7 DEF Subscription
      <3>2. QED
        BY <3>1, <1>1, <1>7 DEF Through
    <2>3. QED
      BY <2>1, <2>2, <1>1, <1>7, <1>8, EventsTellNothing DEF Receives
  <1>12. Drains(ledger, g, n)
    BY <1>8 DEF Drains
  <1>13. Concludes(ledger, o, g, n)
    BY <1>8, EventsTellNothing DEF Concludes
  <1>14. QED
    BY <1>7, <1>8, <1>9, <1>10, <1>11, <1>12, <1>13 DEF Sound, g, n, z

\* A subscription that has not ended has its follower connected.
LEMMA SubscribedReads ==
    ASSUME NEW l \in Seq(Kinds), NEW o, NEW f \in Follower, NEW s \in Subscription,
           Sound(l, o, f, s), s.state # "closed"
    PROVE  /\ f.registered /\ f.at = "following" /\ s.kind = f.kind
           /\ s.start <= f.from /\ f.from <= Through(s) /\ f.from <= Len(l) /\ s.start <= Len(l)
           /\ Events(f.queue) /\ Events(f.wire)
           /\ Carries(l, f.kind, f.queue \o (f.wire \o s.pending), f.from, Through(s))
  <1>1. f.registered
    BY DEF Sound, Drains
  <1>2. /\ f.at = "following" /\ s.kind = f.kind
        /\ s.start <= f.from /\ f.from <= Through(s) /\ f.from <= Len(l)
        /\ Events(f.queue) /\ Events(f.wire)
        /\ Carries(l, f.kind, f.queue \o (f.wire \o s.pending), f.from, Through(s))
    BY <1>1 DEF Sound, Receives, Prints
  <1>3. f.from \in Nat /\ s.start \in Nat /\ Len(l) \in Nat
    BY DEF Follower, Subscription
  <1>4. QED
    BY <1>1, <1>2, <1>3

\* refresh_read: the snapshot and the page are of one instant.
LEMMA RefreshReadSound ==
    ASSUME ledger \in Seq(Kinds), NEW o \in BOOLEAN, NEW f \in Follower, NEW s \in Subscription,
           Sound(ledger, o, f, s), s.state = "open", s.pending = <<>>,
           NEW page \in read_page(s.scanned)
    PROVE  LET n == [s EXCEPT !.state = "refreshing", !.tail = Snapshot, !.page = page]
           IN  n \in Subscription /\ Sound(ledger, o, f, n)
  <1> DEFINE n == [s EXCEPT !.state = "refreshing", !.tail = Snapshot, !.page = page]
  <1>1. s.scanned \in Nat /\ s.scanned <= Len(ledger) /\ Len(ledger) \in Nat
    BY DEF Subscription, Sound, Scans
  <1>2. /\ page.first = s.scanned + 1 /\ s.scanned <= page.last /\ page.last <= Len(ledger)
        /\ page \in [first: Nat, last: Nat]
    BY <1>1, PageRead
  <1>3. Snapshot \in SnapshotType /\ Genuine(ledger, Snapshot) /\ Snapshot.cursor = Len(ledger)
    BY SnapshotGenuine DEF Snapshot
  <1>4. /\ n \in Subscription /\ n.state = "refreshing" /\ n.tail = Snapshot /\ n.page = page
        /\ n.kind = s.kind /\ n.start = s.start /\ n.scanned = s.scanned
        /\ n.projection = s.projection /\ n.pending = s.pending
    BY <1>2, <1>3 DEF Subscription
  <1>5. f.registered /\ s.start <= Len(ledger) /\ Events(f.queue) /\ Events(f.wire)
    BY SubscribedReads
  <1> HIDE DEF n
  <1>6. Scans(ledger, o, n)
    BY <1>1, <1>2, <1>3, <1>4, <1>5 DEF Sound, Scans
  <1>7. Through(n) = Through(s)
    BY <1>4 DEF Through
  <1>8. Receives(ledger, f, n)
    BY <1>4, <1>5, <1>7 DEF Sound, Receives
  <1>9. Drains(ledger, f, n) /\ Concludes(ledger, o, f, n)
    BY <1>5, EventsTellNothing DEF Drains, Concludes
  <1>10. QED
    BY <1>4, <1>6, <1>8, <1>9 DEF Sound, n

\* refresh_fails.
LEMMA RefreshFailsSound ==
    ASSUME NEW l \in Seq(Kinds), NEW o \in BOOLEAN, NEW f \in Follower, NEW s \in Subscription,
           Sound(l, o, f, s), s.state = "open", s.pending = <<>>
    PROVE  LET n == [s EXCEPT !.state = "unavailable"]
           IN  n \in Subscription /\ Sound(l, o, f, n)
  <1> DEFINE n == [s EXCEPT !.state = "unavailable"]
  <1>1. /\ n \in Subscription /\ n.state = "unavailable" /\ n.tail = s.tail /\ n.page = s.page
        /\ n.kind = s.kind /\ n.start = s.start /\ n.scanned = s.scanned
        /\ n.projection = s.projection /\ n.pending = s.pending
    BY DEF Subscription
  <1>2. f.registered /\ Events(f.queue) /\ Events(f.wire)
    BY SubscribedReads
  <1> HIDE DEF n
  <1>3. Through(n) = Through(s)
    BY <1>1 DEF Through
  <1>4. Scans(l, o, n)
    BY <1>1 DEF Sound, Scans
  <1>5. Receives(l, f, n)
    BY <1>1, <1>2, <1>3 DEF Sound, Receives
  <1>6. Drains(l, f, n) /\ Concludes(l, o, f, n)
    BY <1>2, EventsTellNothing DEF Drains, Concludes
  <1>7. QED
    BY <1>1, <1>4, <1>5, <1>6 DEF Sound, n

\* refresh_fold: the page continues the scan, and only a caught up subscription ends.
LEMMA FoldSound ==
    ASSUME ledger \in Seq(Kinds), NEW o \in BOOLEAN, NEW f \in Follower, NEW s \in Subscription,
           Sound(ledger, o, f, s), s.state = "refreshing", NEW finished \in BOOLEAN,
           finished => /\ s.tail.terminal \/ o
                       /\ caught_up(progress(apply(s, s.page), s.page))
                       /\ progress(apply(s, s.page), s.page).pending = <<>>
    PROVE  LET m == progress(apply(s, s.page), s.page)
               n == [m EXCEPT !.state = IF finished THEN "done" ELSE "open",
                              !.tail = IF finished THEN m.tail ELSE NoSnapshot, !.page = NoPage]
           IN  n \in Subscription /\ Sound(ledger, o, f, n)
  <1> DEFINE m == progress(apply(s, s.page), s.page)
             n == [m EXCEPT !.state = IF finished THEN "done" ELSE "open",
                            !.tail = IF finished THEN m.tail ELSE NoSnapshot, !.page = NoPage]
  <1>1. /\ s.page \in [first: Nat, last: Nat] /\ s.tail \in SnapshotType /\ s.start \in Nat
        /\ s.scanned \in Nat /\ s.page.last \in Nat /\ s.tail.cursor \in Nat /\ Len(ledger) \in Nat
        /\ f.queue \in Seq(Frame) /\ f.wire \in Seq(Frame) /\ f.from \in Nat
    BY DEF Subscription, SnapshotType, Follower
  <1>2. /\ s.pending = <<>> /\ (s.kind = "watch" => s.projection = Count(ledger, s.scanned))
        /\ s.page.first = s.scanned + 1 /\ s.scanned <= s.page.last
        /\ s.page.last <= s.tail.cursor /\ s.start <= s.tail.cursor /\ Genuine(ledger, s.tail)
    BY DEF Sound, Scans
  <1>3. /\ m \in Subscription /\ m.scanned = s.page.last
        /\ m.state = s.state /\ m.kind = s.kind /\ m.start = s.start /\ m.tail = s.tail
        /\ m.kind = "watch" => m.projection = Count(ledger, m.scanned)
        /\ Events(m.pending)
        /\ Carries(ledger, s.kind, m.pending, Through(s), Through(m))
    BY <1>1, <1>2, ApplyPage
  <1>4. m.scanned <= Len(ledger)
    BY <1>1, <1>2, <1>3 DEF Genuine
  <1>5. /\ f.registered /\ f.at = "following" /\ s.kind = f.kind
        /\ s.start <= f.from /\ f.from <= Through(s)
        /\ Events(f.queue) /\ Events(f.wire)
        /\ Carries(ledger, f.kind, f.queue \o (f.wire \o s.pending), f.from, Through(s))
    BY SubscribedReads
  <1>6. finished => caught_up(m) /\ m.pending = <<>>
    OBVIOUS
  <1> HIDE DEF m
  <1>7. /\ n \in Subscription /\ n.state = (IF finished THEN "done" ELSE "open")
        /\ n.tail = (IF finished THEN s.tail ELSE NoSnapshot)
        /\ n.kind = f.kind /\ n.start = s.start /\ n.scanned = m.scanned
        /\ n.projection = m.projection /\ n.pending = m.pending
    <2>1. (IF finished THEN "done" ELSE "open") \in {"done", "open"}
      OBVIOUS
    <2>2. (IF finished THEN m.tail ELSE NoSnapshot) \in SnapshotType
      BY <1>1, <1>3, ClosedType
    <2>3. QED
      BY <2>1, <2>2, <1>3, <1>5, ClosedType DEF Subscription
  <1> HIDE DEF n
  <1>8. finished => Ended(ledger, o, n)
    BY <1>1, <1>2, <1>3, <1>6, <1>7 DEF Ended, caught_up
  <1>9. Scans(ledger, o, n)
    BY <1>3, <1>4, <1>5, <1>6, <1>7, <1>8 DEF Scans
  <1>10. Receives(ledger, f, n)
    <2>1. Through(s) \in Nat /\ Through(n) \in Nat /\ Through(s) <= Through(n) /\ Through(n) = Through(m)
      BY <1>1, <1>2, <1>3, <1>7 DEF Through
    <2>2. /\ f.wire \o s.pending = f.wire /\ f.queue \o f.wire \in Seq(Frame) /\ Events(f.queue \o f.wire)
      BY <1>1, <1>2, <1>5, FramesJoin
    <2>3. n.pending \in Seq(Frame)
      BY <1>7 DEF Subscription
    <2>4. Carries(ledger, f.kind, f.queue \o f.wire, f.from, Through(s))
      BY <2>2, <1>5
    <2>5. Carries(ledger, f.kind, n.pending, Through(s), Through(n))
      BY <2>1, <1>3, <1>5, <1>7
    <2>6. Carries(ledger, f.kind, (f.queue \o f.wire) \o n.pending, f.from, Through(n))
      BY <2>1, <2>2, <2>4, <2>5, <1>1, <1>5, CarriesJoin
    <2>7. (f.queue \o f.wire) \o n.pending = f.queue \o (f.wire \o n.pending)
      BY <2>3, <1>1, FramesAssociate
    <2>8. f.from <= Through(n)
      BY <2>1, <1>1, <1>5
    <2>9. QED
      BY <2>6, <2>7, <2>8, <1>5, <1>7 DEF Receives
  <1>11. Drains(ledger, f, n) /\ Concludes(ledger, o, f, n)
    BY <1>5, EventsTellNothing DEF Drains, Concludes
  <1>12. QED
    BY <1>7, <1>9, <1>10, <1>11 DEF Sound, n, m

\* The followers and their subscriptions after a step.
FollowStep ==
    /\ sub' \in [DOMAIN sub' -> Subscription] /\ follow' \in [DOMAIN sub' -> Follower]
    /\ FollowInv'

\* Whether the run is over is a Boolean.
LEMMA OverType ==
    ASSUME TypeOK, entry' \in Entry
    PROVE  IsOver \in BOOLEAN /\ IsOver' \in BOOLEAN
  BY DEF IsOver, TypeOK, Entry

\* One follower moves, the others stay as they are.
LEMMA OneFollower ==
    ASSUME TypeOK, FollowInv, entry' \in Entry, IsOver => IsOver', UNCHANGED ledger,
           NEW w \in DOMAIN sub, NEW g \in Follower, NEW n \in Subscription,
           Sound(ledger, IsOver, follow[w], sub[w]) => Sound(ledger, IsOver', g, n),
           follow' = [follow EXCEPT ![w] = g], sub' = [sub EXCEPT ![w] = n]
    PROVE  FollowStep
  <1>1. sub \in [DOMAIN sub -> Subscription] /\ follow \in [DOMAIN sub -> Follower]
    BY DEF TypeOK
  <1>2. /\ DOMAIN sub' = DOMAIN sub /\ sub' \in [DOMAIN sub' -> Subscription]
        /\ follow' \in [DOMAIN sub' -> Follower]
        /\ follow'[w] = g /\ sub'[w] = n
        /\ \A v \in DOMAIN sub : v # w => follow'[v] = follow[v] /\ sub'[v] = sub[v]
    BY <1>1
  <1>3. \A v \in DOMAIN sub : Sound(ledger, IsOver, follow[v], sub[v])
    BY DEF FollowInv
  <1>4. ASSUME NEW v \in DOMAIN sub PROVE Sound(ledger, IsOver', follow'[v], sub'[v])
    <2>1. CASE v = w
      BY <2>1, <1>2, <1>3
    <2>2. CASE v # w
      <3>1. Sound(ledger, IsOver', follow[v], sub[v])
        BY <1>3, OverType, SoundOver
      <3>2. QED
        BY <3>1, <2>2, <1>2
    <2>3. QED
      BY <2>1, <2>2
  <1>5. ledger' = ledger
    OBVIOUS
  <1>6. FollowInv'
    BY <1>2, <1>4, <1>5 DEF FollowInv
  <1>7. QED
    BY <1>2, <1>6 DEF FollowStep

\* Steps that leave the followers alone.
LEMMA FollowersKept ==
    ASSUME TypeOK, FollowInv, entry' \in Entry, IsOver => IsOver', UNCHANGED <<sub, follow>>,
           ledger' = ledger \/ \E kind \in Kinds : ledger' = Append(ledger, kind)
    PROVE  FollowStep
  <1>1. sub \in [DOMAIN sub -> Subscription] /\ follow \in [DOMAIN sub -> Follower] /\ ledger \in Seq(Kinds)
    BY DEF TypeOK
  <1>2. ASSUME NEW v \in DOMAIN sub PROVE Sound(ledger, IsOver', follow[v], sub[v])
    BY OverType, SoundOver DEF FollowInv
  <1>3. ASSUME NEW v \in DOMAIN sub PROVE Sound(ledger', IsOver', follow[v], sub[v])
    <2>1. CASE ledger' = ledger
      BY <2>1, <1>2
    <2>2. CASE \E kind \in Kinds : ledger' = Append(ledger, kind)
      <3>1. PICK kind \in Kinds : ledger' = Append(ledger, kind)
        BY <2>2
      <3>2. follow[v] \in Follower /\ sub[v] \in Subscription
        BY <1>1
      <3>3. Sound(Append(ledger, kind), IsOver', follow[v], sub[v])
        BY <3>2, <1>1, <1>2, OverType, SoundLonger
      <3>4. QED
        BY <3>1, <3>3
    <2>3. QED
      BY <2>1, <2>2
  <1>4. QED
    BY <1>1, <1>3 DEF FollowStep, FollowInv

-------------------------------------------------------------------------------
(* The steps of one follower. *)

\* Every step of a follower, its connection and its subscription.
LEMMA FollowerStep ==
    ASSUME TypeOK, LedgerInv, FollowInv, EntryInv, NEW w \in DOMAIN sub,
           \/ open(w) \/ cannot_connect(w) \/ recv(w) \/ send_closed(w) \/ pump(w) \/ cut(w)
           \/ next_or_detach(w) \/ detach(w) \/ refresh_read(w) \/ refresh_fold(w) \/ refresh_fails(w)
    PROVE  EntryStep /\ FollowStep /\ UNCHANGED <<ledger, handed, call, told, reader>>
  <1> DEFINE f == follow[w]
             s == sub[w]
  <1>1. /\ sub \in [DOMAIN sub -> Subscription] /\ follow \in [DOMAIN sub -> Follower]
        /\ ledger \in Seq(Kinds) /\ entry \in Entry
        /\ f \in Follower /\ s \in Subscription /\ Sound(ledger, IsOver, f, s)
        /\ IsOver \in BOOLEAN /\ DOMAIN follow = DOMAIN sub
    <2>1. /\ sub \in [DOMAIN sub -> Subscription] /\ follow \in [DOMAIN sub -> Follower]
          /\ ledger \in Seq(Kinds) /\ entry \in Entry
      BY DEF TypeOK
    <2>2. Sound(ledger, IsOver, f, s)
      BY Zenon DEF FollowInv
    <2>3. IsOver \in BOOLEAN
      BY <2>1, SMTT(20) DEF IsOver, Entry
    <2>4. QED
      BY <2>1, <2>2, <2>3
  <1>2. UNCHANGED <<ledger, handed, call, told, reader>>
    BY DEF open, cannot_connect, recv, send_closed, pump, cut, next_or_detach, detach, refresh_read,
           refresh_fold, refresh_fails
  <1>3. ASSUME UNCHANGED entry, NEW g \in Follower, NEW n \in Subscription,
               Sound(ledger, IsOver, f, s) => Sound(ledger, IsOver, g, n),
               follow' = [follow EXCEPT ![w] = g], sub' = [sub EXCEPT ![w] = n]
        PROVE  EntryStep /\ FollowStep
    <2>1. EntryStep
      BY <1>2, <1>3, EntrySame
    <2>2. entry' \in Entry /\ (IsOver => IsOver')
      BY <2>1 DEF EntryStep
    <2>3. IsOver' = IsOver
      BY <1>2, <1>3 DEF IsOver, Terminal
    <2>4. Sound(ledger, IsOver, f, s) => Sound(ledger, IsOver', g, n)
      BY <2>3, <1>3
    <2>5. UNCHANGED ledger
      BY <1>2
    <2>6. FollowStep
      BY <2>2, <2>4, <2>5, <1>3, OneFollower
    <2>7. QED
      BY <2>1, <2>6
  <1>4. f.at # "connecting" \/ (~f.registered /\ f.queue = <<>>)
    BY <1>1 DEF Sound, Receives, Drains
  <1>5. sub = [sub EXCEPT ![w] = s] /\ follow = [follow EXCEPT ![w] = f]
    BY <1>1
  <1>6. ASSUME UNCHANGED entry, NEW g \in Follower, g.at \in Finished, Prints(ledger, g), Settle(w, g)
        PROVE  EntryStep /\ FollowStep
    <2> DEFINE h == [g EXCEPT !.wire = <<>>, !.queue = <<>>, !.registered = FALSE]
    <2>1. h \in Follower /\ Sound(ledger, IsOver, h, Closed)
      BY <1>1, <1>6, SettledSound
    <2>2. follow' = [follow EXCEPT ![w] = h] /\ sub' = [sub EXCEPT ![w] = Closed]
      BY <1>6 DEF Settle
    <2> HIDE DEF h
    <2>3. QED
      BY <2>1, <2>2, <1>3, <1>6, ClosedType
  <1> HIDE DEF f, s
  <1>7. CASE open(w)
    <2>1. CASE f.from > Len(ledger)
      <3> DEFINE g == [f EXCEPT !.at = "failed"]
      <3>1. follow' = [follow EXCEPT ![w] = g] /\ UNCHANGED <<entry, sub>> /\ f.at = "connecting"
        BY <1>7, <2>1, <1>1 DEF open, f
      <3>2. g \in Follower /\ Sound(ledger, IsOver, g, s)
        BY <3>1, <1>1, <1>4, ConnectingSound
      <3> HIDE DEF g
      <3>3. QED
        BY <3>1, <3>2, <1>1, <1>2, <1>3, <1>5
    <2>2. CASE ~(f.from > Len(ledger))
      <3> DEFINE g == [f EXCEPT !.at = "following", !.registered = TRUE]
                 n(page) == progress(apply(opened(f.kind, f.from), page), page)
      <3>1. /\ follow' = [follow EXCEPT ![w] = g] /\ f.at = "connecting"
            /\ entry' = observe(entry, Snapshot)
            /\ \E page \in read_page(opened(f.kind, f.from).scanned) : sub' = [sub EXCEPT ![w] = n(page)]
        BY <1>7, <2>2, <1>1 DEF open, f
      <3>2. PICK page \in read_page(opened(f.kind, f.from).scanned) : sub' = [sub EXCEPT ![w] = n(page)]
        BY <3>1
      <3>3. EntryStep
        BY <3>1, <1>1, <1>2, SnapshotGenuine, EntryObserves
      <3>4. entry' \in Entry /\ (IsOver => IsOver') /\ IsOver' \in BOOLEAN
        BY <3>3, OverType DEF EntryStep
      <3>5. f.from <= Len(ledger)
        BY <2>2, <1>1 DEF Follower
      <3>6. Sound(ledger, IsOver', f, s)
        BY <3>4, <1>1, SoundOver
      <3>7. g \in Follower /\ n(page) \in Subscription /\ Sound(ledger, IsOver', g, n(page))
        BY <3>1, <3>4, <3>5, <3>6, <1>1, OpenSound
      <3> HIDE DEF g, n
      <3>8. FollowStep
        BY <3>1, <3>2, <3>4, <3>7, <1>2, OneFollower
      <3>9. QED
        BY <3>3, <3>8, <1>2
    <2>3. QED
      BY <2>1, <2>2
  <1>8. CASE cannot_connect(w)
    <2> DEFINE g == [f EXCEPT !.at = "failed"]
    <2>1. follow' = [follow EXCEPT ![w] = g] /\ UNCHANGED <<entry, sub>> /\ f.at = "connecting"
      BY <1>8, <1>1 DEF cannot_connect, f
    <2>2. g \in Follower /\ Sound(ledger, IsOver, g, s)
      BY <2>1, <1>1, <1>4, ConnectingSound
    <2> HIDE DEF g
    <2>3. QED
      BY <2>1, <2>2, <1>1, <1>2, <1>3, <1>5
  <1>9. CASE recv(w)
    <2> DEFINE g == [f EXCEPT !.wire = Append(@, Head(s.pending))]
               n == [s EXCEPT !.pending = Tail(@)]
    <2>1. /\ follow' = [follow EXCEPT ![w] = g] /\ sub' = [sub EXCEPT ![w] = n]
          /\ UNCHANGED entry /\ s.state = "open" /\ s.pending # <<>>
      BY <1>9, <1>1 DEF recv, f, s
    <2>2. g \in Follower /\ n \in Subscription /\ Sound(ledger, IsOver, g, n)
      BY <2>1, <1>1, RecvSound
    <2> HIDE DEF g, n
    <2>3. QED
      BY <2>1, <2>2, <1>2, <1>3
  <1>10. CASE send_closed(w)
    <2> DEFINE g == [f EXCEPT !.wire = Append(@, Close(s.state))]
               n == [s EXCEPT !.state = "closed"]
    <2>1. /\ follow' = [follow EXCEPT ![w] = g] /\ sub' = [sub EXCEPT ![w] = n]
          /\ UNCHANGED entry /\ s.state \in Closings
      BY <1>10, <1>1 DEF send_closed, f, s, Closings
    <2>2. g \in Follower /\ n \in Subscription /\ Sound(ledger, IsOver, g, n)
      BY <2>1, <1>1, SendClosedSound
    <2> HIDE DEF g, n
    <2>3. QED
      BY <2>1, <2>2, <1>2, <1>3
  <1>11. CASE pump(w)
    <2> DEFINE g == forward_notification(f)
               n == IF g.registered \/ Head(f.wire).reason # "event" THEN s ELSE Closed
    <2>1. /\ follow' = [follow EXCEPT ![w] = g] /\ f.registered /\ f.wire # <<>> /\ UNCHANGED entry
          /\ sub' = [sub EXCEPT ![w] = IF follow'[w].registered \/ Head(f.wire).reason # "event"
                                       THEN s ELSE Closed]
      BY <1>11 DEF pump, f, s
    <2>2. follow'[w] = g
      BY <2>1, <1>1
    <2>3. sub' = [sub EXCEPT ![w] = n]
      BY <2>1, <2>2
    <2>4. g \in Follower /\ n \in Subscription /\ Sound(ledger, IsOver, g, n)
      BY <2>1, <1>1, PumpSound
    <2> HIDE DEF g, n
    <2>5. QED
      BY <2>1, <2>3, <2>4, <1>2, <1>3
  <1>12. CASE cut(w)
    <2> DEFINE g == [f EXCEPT !.registered = FALSE, !.wire = <<>>, !.losses = @ + 1]
    <2>1. /\ follow' = [follow EXCEPT ![w] = g] /\ sub' = [sub EXCEPT ![w] = Closed]
          /\ f.registered /\ UNCHANGED entry
      BY <1>12, <1>1 DEF cut, f, s
    <2>2. g \in Follower /\ Sound(ledger, IsOver, g, Closed)
      BY <2>1, <1>1, CutSound
    <2> HIDE DEF g
    <2>3. QED
      BY <2>1, <2>2, <1>2, <1>3, ClosedType
  <1>13. CASE next_or_detach(w)
    <2> DEFINE taken == [f EXCEPT !.queue = Tail(@)]
    <2>1. UNCHANGED entry /\ f.at = "following"
      BY <1>13 DEF next_or_detach, f
    <2>2. CASE f.queue = <<>>
      <3> DEFINE g == [f EXCEPT !.at = "connecting"]
      <3>1. ~f.registered /\ Settle(w, g)
        BY <1>13, <2>2 DEF next_or_detach, f
      <3>2. g \in Follower /\ Sound(ledger, IsOver, g, s) /\ g.at = "connecting"
        <4>1. "connecting" \in {"connecting", "failed"}
          OBVIOUS
        <4>2. g \in Follower /\ Sound(ledger, IsOver, g, s)
          BY <4>1, <3>1, <2>2, <1>1, ConnectingSound, Zenon
        <4>3. g.at = "connecting"
          BY <1>1 DEF Follower
        <4>4. QED
          BY <4>2, <4>3
      <3> HIDE DEF g
      <3>3. follow' = [follow EXCEPT ![w] = g] /\ sub' = sub
        BY <3>1, <3>2 DEF Settle, Finished
      <3>4. QED
        BY <3>2, <3>3, <2>1, <1>1, <1>2, <1>3, <1>5
    <2>3. CASE f.queue # <<>> /\ Head(f.queue).reason = "event"
      <3> DEFINE c == Head(f.queue).cursor
                 at == IF f.kind = "watch" /\ ledger[c] = "terminal" THEN "finished" ELSE "following"
                 g == [f EXCEPT !.queue = Tail(f.queue), !.printed = Append(f.printed, Head(f.queue)),
                                !.from = c, !.at = at]
      <3>1. Settle(w, write_durable_event(taken, Head(f.queue)))
        BY <1>13, <2>3 DEF next_or_detach, f
      <3>2. f.queue \in Seq(Frame) /\ f.printed \in Seq(Frame)
        BY <1>1 DEF Follower
      <3>3. /\ Tail(f.queue) \in Seq(Frame) /\ Head(f.queue) \in Frame
            /\ Append(f.printed, Head(f.queue)) \in Seq(Frame)
        BY <3>2, <2>3, FrameMoves
      <3>4. c \in Nat /\ at \in {"finished", "following"}
        BY <3>3 DEF Frame
      <3>5. /\ g \in Follower /\ g.queue = Tail(f.queue) /\ g.printed = Append(f.printed, Head(f.queue))
            /\ g.from = c /\ g.kind = f.kind /\ g.start = f.start /\ g.wire = f.wire
            /\ g.registered = f.registered /\ g.at = at
        <4> HIDE DEF c, at
        <4>1. QED
          BY <3>3, <3>4, <1>1 DEF Follower, Finished
      <3>6. /\ f.from < g.from /\ Prints(ledger, g)
            /\ g.at = "following" => Sound(ledger, IsOver, g, s)
        <4> HIDE DEF g
        <4>1. QED
          BY <3>5, <2>1, <2>3, <1>1, WriteSound
      <3>7. c # f.from
        <4>1. f.from \in Nat
          BY <1>1 DEF Follower
        <4>2. f.from < c
          BY <3>5, <3>6
        <4> HIDE DEF c, g
        <4>3. QED
          BY <4>1, <4>2, <3>4
      <3>8. write_durable_event(taken, Head(f.queue)) = g
        BY <3>7, <2>1, <1>1 DEF write_durable_event, Follower
      <3> HIDE DEF g
      <3>9. CASE at = "finished"
        <4>1. g.at \in Finished
          BY <3>9, <3>5 DEF Finished
        <4>2. QED
          BY <4>1, <3>1, <3>5, <3>6, <3>8, <2>1, <1>2, <1>6
      <3>10. CASE at = "following"
        <4>1. follow' = [follow EXCEPT ![w] = g] /\ sub' = sub
          BY <3>10, <3>1, <3>5, <3>8 DEF Settle, Finished
        <4>2. QED
          BY <4>1, <3>10, <3>5, <3>6, <2>1, <1>1, <1>2, <1>3, <1>5
      <3>11. QED
        BY <3>9, <3>10, <3>4
    <2>4. CASE f.queue # <<>> /\ Head(f.queue).reason # "event"
      <3> DEFINE at == IF Head(f.queue).reason = "done" THEN "completed" ELSE "failed"
                 g == [taken EXCEPT !.at = at]
      <3>1. Settle(w, g)
        <4>1. CASE Head(f.queue).reason = "done"
          BY <4>1, <1>13, <2>4 DEF next_or_detach, f
        <4>2. CASE Head(f.queue).reason # "done"
          BY <4>2, <1>13, <2>4 DEF next_or_detach, f
        <4>3. QED
          BY <4>1, <4>2
      <3>2. f.queue \in Seq(Frame)
        BY <1>1 DEF Follower
      <3>3. Tail(f.queue) \in Seq(Frame)
        BY <3>2, <2>4, FrameMoves
      <3>4. at \in {"completed", "failed"}
        OBVIOUS
      <3>5. /\ g \in Follower /\ g.at = at /\ g.printed = f.printed /\ g.from = f.from
            /\ g.kind = f.kind /\ g.start = f.start
        <4> HIDE DEF at
        <4>1. QED
          BY <3>3, <3>4, <1>1 DEF Follower, Finished
      <3> HIDE DEF g
      <3>6. Prints(ledger, g) /\ g.at \in Finished
        BY <3>4, <3>5, <1>1 DEF Sound, Prints, Finished
      <3>7. QED
        BY <3>1, <3>5, <3>6, <2>1, <1>2, <1>6
    <2>5. QED
      BY <2>2, <2>3, <2>4
  <1>14. CASE detach(w)
    <2> DEFINE g == [f EXCEPT !.at = "detached"]
    <2>1. Settle(w, g) /\ UNCHANGED entry
      BY <1>14 DEF detach, f
    <2>2. /\ g \in Follower /\ g.at = "detached" /\ g.printed = f.printed /\ g.from = f.from
          /\ g.kind = f.kind /\ g.start = f.start
      BY <1>1 DEF Follower, Finished
    <2> HIDE DEF g
    <2>3. Prints(ledger, g) /\ g.at \in Finished
      BY <2>2, <1>1 DEF Sound, Prints, Finished
    <2>4. QED
      BY <2>1, <2>2, <2>3, <1>2, <1>6
  <1>15. CASE refresh_read(w)
    <2> DEFINE n(page) == [s EXCEPT !.state = "refreshing", !.tail = Snapshot, !.page = page]
    <2>1. /\ UNCHANGED <<entry, follow>> /\ s.state = "open" /\ s.pending = <<>>
          /\ \E page \in read_page(s.scanned) : sub' = [sub EXCEPT ![w] = n(page)]
      BY <1>15, <1>1 DEF refresh_read, s
    <2>2. PICK page \in read_page(s.scanned) : sub' = [sub EXCEPT ![w] = n(page)]
      BY <2>1
    <2>3. n(page) \in Subscription /\ Sound(ledger, IsOver, f, n(page))
      BY <2>1, <1>1, RefreshReadSound
    <2> HIDE DEF n
    <2>4. QED
      BY <2>1, <2>2, <2>3, <1>1, <1>2, <1>3, <1>5
  <1>16. CASE refresh_fold(w)
    <2> DEFINE m == progress(apply(s, s.page), s.page)
               observed == observe(entry, m.tail)
               finished == (m.tail.terminal \/ failure(observed)) /\ caught_up(m) /\ m.pending = <<>>
               n == [m EXCEPT !.state = IF finished THEN "done" ELSE "open",
                              !.tail = IF finished THEN m.tail ELSE NoSnapshot, !.page = NoPage]
    <2>1. /\ s.state = "refreshing" /\ entry' = observed /\ sub' = [sub EXCEPT ![w] = n]
          /\ UNCHANGED follow
      BY <1>16 DEF refresh_fold, s
    <2>2. m.tail = s.tail /\ s.tail \in SnapshotType /\ Genuine(ledger, s.tail)
      <3>1. /\ s.page \in [first: Nat, last: Nat] /\ s.tail \in SnapshotType
        BY <1>1 DEF Subscription
      <3>2. /\ s.pending = <<>> /\ (s.kind = "watch" => s.projection = Count(ledger, s.scanned))
            /\ s.page.first = s.scanned + 1 /\ s.scanned <= s.page.last /\ Genuine(ledger, s.tail)
        BY <2>1, <1>1 DEF Sound, Scans
      <3>3. QED
        BY <3>1, <3>2, <1>1, ApplyPage
    <2>3. EntryStep
      <3>1. entry' = observe(entry, s.tail)
        BY <2>1, <2>2
      <3>2. QED
        BY <3>1, <2>2, <1>2, EntryObserves
    <2>4. entry' \in Entry /\ (IsOver => IsOver') /\ IsOver' \in BOOLEAN
      BY <2>3, OverType DEF EntryStep
    <2>5. Sound(ledger, IsOver', f, s)
      BY <2>4, <1>1, SoundOver
    <2>6. finished \in BOOLEAN /\ (finished => /\ s.tail.terminal \/ IsOver'
                                               /\ caught_up(m) /\ m.pending = <<>>)
      BY <2>1, <2>2 DEF failure, IsOver
    <2> HIDE DEF finished
    <2>7. n \in Subscription /\ Sound(ledger, IsOver', f, n)
      BY <2>1, <2>4, <2>5, <2>6, <1>1, FoldSound
    <2> HIDE DEF n
    <2>8. FollowStep
      BY <2>1, <2>4, <2>7, <1>1, <1>2, <1>5, OneFollower
    <2>9. QED
      BY <2>3, <2>8, <1>2
  <1>17. CASE refresh_fails(w)
    <2> DEFINE n == [s EXCEPT !.state = "unavailable"]
    <2>1. /\ UNCHANGED <<entry, follow>> /\ s.state = "open" /\ s.pending = <<>>
          /\ sub' = [sub EXCEPT ![w] = n]
      BY <1>17, <1>1 DEF refresh_fails, s
    <2>2. n \in Subscription /\ Sound(ledger, IsOver, f, n)
      BY <2>1, <1>1, RefreshFailsSound
    <2> HIDE DEF n
    <2>3. QED
      BY <2>1, <2>2, <1>1, <1>2, <1>3, <1>5
  <1>18. QED
    BY <1>7, <1>8, <1>9, <1>10, <1>11, <1>12, <1>13, <1>14, <1>15, <1>16, <1>17

-------------------------------------------------------------------------------
(* The invariant is inductive. *)

\* A command that has just been started.
LEMMA NewFollowerSound ==
    ASSUME NEW l \in Seq(Kinds), NEW o \in BOOLEAN, NEW kind \in {"watch", "logs"}, NEW start \in Nat,
           NEW backpressure \in BOOLEAN
    PROVE  LET g == NewFollower(kind, start, backpressure)
           IN  g \in Follower /\ Sound(l, o, g, Closed)
  <1> DEFINE g == NewFollower(kind, start, backpressure)
  <1>1. <<>> \in Seq(Frame)
    OBVIOUS
  <1>2. /\ g \in Follower /\ g.queue = <<>> /\ g.wire = <<>> /\ g.registered = FALSE
        /\ g.at = "connecting" /\ g.kind = kind /\ g.start = start /\ g.from = start /\ g.printed = <<>>
    BY <1>1 DEF NewFollower, Follower
  <1> HIDE DEF g
  <1>3. Prints(l, g)
    <2>1. Carries(l, kind, <<>>, start, start) /\ Events(<<>>)
      BY CarriesNothing
    <2>2. QED
      BY <2>1, <1>2 DEF Prints
  <1>4. Closed.state = "closed"
    BY DEF Closed
  <1>5. Sound(l, o, g, Closed)
    BY <1>2, <1>3, <1>4, ClosedType, ClosedScans, ApartSound
  <1>6. QED
    BY <1>2, <1>5 DEF g

\* It holds initially.
LEMMA InitInv == Init => IInv
  <1> SUFFICES ASSUME Init PROVE IInv
    OBVIOUS
  <1>1. PICK audience \in Audiences :
          /\ sub = [w \in Followers \cap audience |-> Closed]
          /\ follow \in [Followers \cap audience ->
                {NewFollower(kind, start, backpressure) :
                    kind \in {"watch", "logs"}, start \in 0..MaxEvents, backpressure \in BOOLEAN}]
          /\ call = [c \in Callers \cap audience |-> NoCall]
          /\ reader = [h \in Readers \cap audience |-> NoReader]
    BY DEF Init
  <1>2. ledger = <<>> /\ ledger \in Seq(Kinds) /\ Len(ledger) = 0 /\ told = 0
    BY DEF Init
  <1>3. ~Terminal
    BY <1>2 DEF Terminal
  <1>4. /\ entry \in Entry /\ entry.tracked = TRUE /\ entry.cursor = 0 /\ entry.status = "open"
        /\ entry.failed = FALSE
    BY DEF Init, track, Entry, Statuses
  <1>5. /\ NoCall \in StatusCall /\ NoCall.floor = 0 /\ NoCall.state = "idle" /\ NoCall.answer = "none"
    BY DEF NoCall, StatusCall, NoSnapshot, SnapshotType, Statuses
  <1>6. /\ NoReader \in Reader /\ NoReader.head = 0 /\ NoReader.next = 0 /\ NoReader.state = "idle"
        /\ NoReader.collected = <<>>
    BY DEF NoReader, Reader
  <1>7. IsOver \in BOOLEAN
    BY <1>4 DEF IsOver
  <1>8. ASSUME NEW w \in Followers \cap audience
        PROVE  follow[w] \in Follower /\ Sound(ledger, IsOver, follow[w], Closed)
    <2>1. PICK kind \in {"watch", "logs"}, start \in 0..MaxEvents, backpressure \in BOOLEAN :
            follow[w] = NewFollower(kind, start, backpressure)
      BY <1>1
    <2>2. start \in Nat
      BY BoundsAssumption
    <2>3. QED
      BY <2>1, <2>2, <1>2, <1>7, NewFollowerSound
  <1>9. TypeOK
    <2>1. sub \in [DOMAIN sub -> Subscription] /\ follow \in [DOMAIN sub -> Follower]
      BY <1>1, <1>8, ClosedType
    <2>2. call \in [DOMAIN call -> StatusCall] /\ reader \in [DOMAIN reader -> Reader]
      BY <1>1, <1>5, <1>6
    <2>3. told \in 0..2
      BY <1>2
    <2>4. handed \in BOOLEAN
      BY DEF Init
    <2>5. QED
      BY <2>1, <2>2, <2>3, <2>4, <1>2, <1>4 DEF TypeOK
  <1>10. FollowInv
    BY <1>1, <1>8 DEF FollowInv
  <1>11. LedgerInv /\ EntryInv /\ ToldInv
    BY <1>2, <1>3, <1>4 DEF LedgerInv, EntryInv, ToldInv
  <1>12. CallInv /\ AnswersNeverRegress
    BY <1>1, <1>2, <1>5 DEF CallInv, AnswersNeverRegress
  <1>13. ReaderInv /\ HistoryJoinsUp
    BY <1>1, <1>2, <1>6 DEF ReaderInv, HistoryJoinsUp
  <1>14. QED
    BY <1>9, <1>10, <1>11, <1>12, <1>13 DEF IInv

\* Each part of the system leaves the others as they were.
LEMMA NextInv == IInv /\ [Next]_vars => IInv'
  <1> SUFFICES ASSUME IInv, [Next]_vars PROVE IInv'
    OBVIOUS
  <1>1. /\ TypeOK /\ LedgerInv /\ FollowInv /\ EntryInv /\ ToldInv /\ CallInv
        /\ AnswersNeverRegress /\ ReaderInv /\ HistoryJoinsUp
    BY DEF IInv
  <1>2. /\ ledger \in Seq(Kinds) /\ handed \in BOOLEAN /\ told \in 0..2
        /\ call \in [DOMAIN call -> StatusCall] /\ reader \in [DOMAIN reader -> Reader]
    BY <1>1 DEF TypeOK
  <1>3. ASSUME EntryStep, ledger' \in Seq(Kinds), LedgerInv', handed' \in BOOLEAN,
               ledger' = ledger \/ \E kind \in Kinds : ledger' = Append(ledger, kind),
               FollowStep \/ UNCHANGED <<sub, follow>>,
               \/ UNCHANGED <<call, told>>
               \/ /\ ToldInv' /\ CallInv' /\ AnswersNeverRegress'
                  /\ told' \in 0..2 /\ call' \in [DOMAIN call' -> StatusCall],
               \/ UNCHANGED reader
               \/ ReaderInv' /\ HistoryJoinsUp' /\ reader' \in [DOMAIN reader' -> Reader]
        PROVE  IInv'
    <2>1. entry' \in Entry /\ EntryInv' /\ (IsOver => IsOver')
      BY <1>3 DEF EntryStep
    <2>2. FollowStep
      BY <2>1, <1>1, <1>3, FollowersKept
    <2>3. /\ ToldInv' /\ CallInv' /\ AnswersNeverRegress'
          /\ told' \in 0..2 /\ call' \in [DOMAIN call' -> StatusCall]
      <3>1. CASE UNCHANGED <<call, told>>
        <4>1. ToldInv' /\ CallInv' /\ AnswersNeverRegress'
          BY <3>1, <1>1, <1>3, CallsKept
        <4>2. QED
          BY <4>1, <3>1, <1>2
      <3>2. QED
        BY <3>1, <1>3
    <2>4. ReaderInv' /\ HistoryJoinsUp' /\ reader' \in [DOMAIN reader' -> Reader]
      <3>1. CASE UNCHANGED reader
        <4>1. ReaderInv' /\ HistoryJoinsUp'
          BY <3>1, <1>1, <1>3, ReadersKept
        <4>2. QED
          BY <4>1, <3>1, <1>2
      <3>2. QED
        BY <3>1, <1>3
    <2>5. TypeOK'
      BY <2>1, <2>2, <2>3, <2>4, <1>3 DEF TypeOK, FollowStep
    <2>6. FollowInv'
      BY <2>2 DEF FollowStep
    <2>7. QED
      BY <2>1, <2>3, <2>4, <2>5, <2>6, <1>3 DEF IInv
  <1>4. ASSUME UNCHANGED ledger PROVE ledger' \in Seq(Kinds) /\ LedgerInv'
    BY <1>1, <1>2, <1>4 DEF LedgerInv
  <1>5. CASE \E kind \in Kinds : append(kind)
    <2>1. EntryStep /\ ledger' \in Seq(Kinds) /\ LedgerInv'
      BY <1>1, <1>5, EntryActions
    <2>2. /\ \E kind \in Kinds : ledger' = Append(ledger, kind)
          /\ UNCHANGED <<handed, sub, follow, call, told, reader>>
      BY <1>5 DEF append
    <2>3. QED
      BY <2>1, <2>2, <1>2, <1>3
  <1>6. CASE initialize_allocated \/ runtime_failed \/ refresh_runtime \/ runtime_finished
    <2>1. EntryStep
      BY <1>1, <1>6, EntryActions
    <2>2. handed' \in BOOLEAN /\ UNCHANGED <<ledger, sub, follow, call, told, reader>>
      BY <1>2, <1>6 DEF initialize_allocated, runtime_failed, refresh_runtime, runtime_finished
    <2>3. QED
      BY <2>1, <2>2, <1>3, <1>4
  <1>7. CASE \E w \in DOMAIN sub :
               \/ open(w) \/ cannot_connect(w) \/ recv(w) \/ send_closed(w) \/ pump(w) \/ cut(w)
               \/ next_or_detach(w) \/ detach(w) \/ refresh_read(w) \/ refresh_fold(w) \/ refresh_fails(w)
    <2>1. EntryStep /\ FollowStep /\ UNCHANGED <<ledger, handed, call, told, reader>>
      BY <1>1, <1>7, FollowerStep
    <2>2. QED
      BY <2>1, <1>2, <1>3, <1>4
  <1>8. CASE \E c \in DOMAIN call :
               status(c) \/ (\E ok \in BOOLEAN : status_get(c, ok)) \/ status_observe(c)
    <2>1. /\ EntryStep /\ ToldInv' /\ CallInv' /\ AnswersNeverRegress'
          /\ told' \in 0..2 /\ call' \in [DOMAIN call' -> StatusCall]
      <3>1. PICK c \in DOMAIN call :
              status(c) \/ (\E ok \in BOOLEAN : status_get(c, ok)) \/ status_observe(c)
        BY <1>8
      <3>2. CASE status(c)
        BY <1>1, <3>2, StatusStep
      <3>3. ASSUME NEW ok \in BOOLEAN, status_get(c, ok)
            PROVE  /\ EntryStep /\ ToldInv' /\ CallInv' /\ AnswersNeverRegress'
                   /\ told' \in 0..2 /\ call' \in [DOMAIN call' -> StatusCall]
        BY <1>1, <3>3, StatusGetStep, SMTT(20)
      <3>4. CASE status_observe(c)
        BY <1>1, <3>4, StatusObserveStep
      <3>5. QED
        BY <3>1, <3>2, <3>3, <3>4
    <2>2. UNCHANGED <<ledger, handed, sub, follow, reader>>
      BY <1>8 DEF status, status_get, status_observe
    <2>3. QED
      BY <2>1, <2>2, <1>2, <1>3, <1>4
  <1>9. CASE \E h \in DOMAIN reader : load_by_id(h) \/ project_page(h)
    <2>1. ReaderInv' /\ HistoryJoinsUp' /\ reader' \in [DOMAIN reader' -> Reader]
      BY <1>1, <1>9, LoadStep, ProjectStep, SMTT(20)
    <2>2. UNCHANGED <<ledger, entry, handed, sub, follow, call, told>>
      BY <1>9 DEF load_by_id, project_page
    <2>3. EntryStep
      BY <2>2, <1>1, EntrySame
    <2>4. QED
      BY <2>1, <2>2, <2>3, <1>2, <1>3, <1>4
  <1>10. CASE UNCHANGED vars
    <2>1. UNCHANGED <<ledger, entry, handed, sub, follow, call, told, reader>>
      BY <1>10 DEF vars
    <2>2. EntryStep
      BY <2>1, <1>1, EntrySame
    <2>3. QED
      BY <2>1, <2>2, <1>2, <1>3, <1>4
  <1>11. CASE Next
    BY <1>5, <1>6, <1>7, <1>8, <1>9, <1>10, <1>11 DEF Next, Over
  <1>12. QED
    BY <1>10, <1>11

\* Every variable has its type, and the inductive invariant holds throughout.
THEOREM Invariant == Spec => []IInv
  <1>1. Init => IInv
    BY InitInv
  <1>2. IInv /\ [Next]_vars => IInv'
    BY NextInv
  <1>3. QED
    BY <1>1, <1>2, PTL DEF Spec

-------------------------------------------------------------------------------
(* What it gives. *)

\* Printed, received, sent and pending are one stretch of what is owed.
LEMMA ReplayFollows == IInv => ReplayIsExact
  <1> SUFFICES ASSUME IInv, NEW w \in DOMAIN follow
               PROVE  LET f == follow[w]
                          through == IF sub[w].scanned > f.from THEN sub[w].scanned ELSE f.from
                      IN /\ f.printed = Owed(f, f.from)
                         /\ f.registered /\ sub[w].state # "closed" =>
                               f.printed \o f.queue \o f.wire \o sub[w].pending = Owed(f, through)
    BY DEF ReplayIsExact
  <1> DEFINE f == follow[w]
             s == sub[w]
             through == IF s.scanned > f.from THEN s.scanned ELSE f.from
  <1>1. /\ w \in DOMAIN sub /\ f \in Follower /\ s \in Subscription /\ Sound(ledger, IsOver, f, s)
        /\ ledger \in Seq(Kinds)
    BY DEF IInv, TypeOK, FollowInv
  <1>2. /\ f.from \in Nat /\ f.start \in Nat /\ s.start \in Nat /\ s.scanned \in Nat
        /\ f.printed \in Seq(Frame) /\ f.queue \in Seq(Frame) /\ f.wire \in Seq(Frame)
        /\ s.pending \in Seq(Frame)
    BY <1>1 DEF Follower, Subscription
  <1>3. Carries(ledger, f.kind, f.printed, f.start, f.from) /\ Events(f.printed) /\ f.start <= f.from
        /\ Events(s.pending)
    BY <1>1 DEF Sound, Prints, Scans
  <1> HIDE DEF f, s
  <1>4. f.printed = Owed(f, f.from)
    BY <1>2, <1>3, CarriesIsOwed
  <1>5. ASSUME f.registered, s.state # "closed"
        PROVE  f.printed \o f.queue \o f.wire \o s.pending = Owed(f, through)
    <2> DEFINE t == f.queue \o (f.wire \o s.pending)
    <2>1. /\ s.start <= f.from /\ f.from <= Through(s) /\ Events(f.queue) /\ Events(f.wire)
          /\ Carries(ledger, f.kind, t, f.from, Through(s))
      BY <1>1, <1>5, SubscribedReads
    <2>2. through = Through(s) /\ Through(s) \in Nat
      BY <2>1, <1>2 DEF Through
    <2>3. /\ f.wire \o s.pending \in Seq(Frame) /\ Events(f.wire \o s.pending)
      BY <2>1, <1>2, <1>3, FramesJoin
    <2>4. t \in Seq(Frame) /\ Events(t)
      BY <2>1, <2>3, <1>2, FramesJoin
    <2>5. f.printed \o f.queue \in Seq(Frame)
      BY <1>2, FramesJoin
    <2>6. ((f.printed \o f.queue) \o f.wire) \o s.pending = (f.printed \o f.queue) \o (f.wire \o s.pending)
      BY <2>5, <1>2, FramesAssociate
    <2>7. (f.printed \o f.queue) \o (f.wire \o s.pending) = f.printed \o t
      <3> DEFINE rest == f.wire \o s.pending
      <3>1. rest \in Seq(Frame) /\ t = f.queue \o rest
        BY <2>3
      <3> HIDE DEF rest, t
      <3>2. /\ f.printed \in Seq(Frame) /\ f.queue \in Seq(Frame) /\ rest \in Seq(Frame)
        BY <3>1, <1>2
      <3>3. (f.printed \o f.queue) \o rest = f.printed \o (f.queue \o rest)
        BY ONLY <3>2, FramesAssociate
      <3>4. QED
        BY <3>1, <3>3 DEF rest
    <2> HIDE DEF t, through
    <2>8. Carries(ledger, f.kind, f.printed \o t, f.start, Through(s))
      BY <2>1, <2>2, <1>2, <1>3, CarriesJoin
    <2>9. Events(f.printed \o t)
      BY <2>4, <1>2, <1>3, FramesJoin
    <2>10. f.printed \o t = Owed(f, Through(s))
      BY <2>2, <2>8, <2>9, <1>2, CarriesIsOwed
    <2>11. QED
      BY <2>2, <2>6, <2>7, <2>10
  <1>6. QED
    BY <1>4, <1>5 DEF f, s

\* A follower prints every public event after its starting cursor exactly once and in order, a
\* watch event with the status of that very cursor, and what is on its way continues it:
\* through appends between two pages, lost connections, overflowed receivers and reconnections
\* (write_durable_event, forward_notification, WatchFold::apply, replay_progress).
THEOREM ReplayExact == Spec => []ReplayIsExact
  BY Invariant, ReplayFollows, PTL

\* A status call that begins after another was answered is never answered less finally, whatever
\* order snapshots reach RuntimeObservation::observe in.
THEOREM AnswersHold == Spec => []AnswersNeverRegress
  <1>1. IInv => AnswersNeverRegress
    BY DEF IInv
  <1>2. QED
    BY <1>1, Invariant, PTL

\* The pages of a history reader in another process join without a gap, a repetition or an event
\* past the reported head, although project_page reads later than load_by_id.
THEOREM HistoryJoins == Spec => []HistoryJoinsUp
  <1>1. IInv => HistoryJoinsUp
    BY DEF IInv
  <1>2. QED
    BY <1>1, Invariant, PTL

-------------------------------------------------------------------------------
(* How a follow ends. *)

\* Only taking an item finishes or completes a command.
LEMMA EndsByItem ==
    ASSUME IInv, Next, NEW w \in DOMAIN follow, follow[w].at # follow'[w].at,
           follow'[w].at \in {"finished", "completed"}
    PROVE  next_or_detach(w)
  <1>1. /\ sub \in [DOMAIN sub -> Subscription] /\ follow \in [DOMAIN sub -> Follower]
        /\ follow[w] \in Follower
    BY DEF IInv, TypeOK
  <1>2. follow' # follow
    BY Zenon
  <1>3. PICK v \in DOMAIN sub :
          \/ open(v) \/ cannot_connect(v) \/ recv(v) \/ send_closed(v) \/ pump(v) \/ cut(v)
          \/ next_or_detach(v) \/ detach(v)
    BY <1>2, Zenon DEF Next, append, initialize_allocated, runtime_failed, refresh_runtime,
         runtime_finished, refresh_read, refresh_fold, refresh_fails, status, status_get, status_observe, load_by_id,
         project_page, Over, vars
  <1>4. \E g : follow' = [follow EXCEPT ![v] = g]
    BY <1>3 DEF open, cannot_connect, recv, send_closed, pump, cut, next_or_detach, detach, Settle
  <1>5. v = w
    BY <1>1, <1>4
  <1>6. follow[w] \in [at: {"connecting", "following"} \cup Finished, kind: {"watch", "logs"}, start: Nat,
             from: Nat, printed: Seq(Frame), wire: Seq(Frame), queue: Seq(Frame),
             registered: BOOLEAN, backpressure: BOOLEAN, losses: Nat]
    BY <1>1 DEF Follower
  <1>7. CASE open(w) \/ cannot_connect(w)
    <2>1. follow'[w].at \in {"failed", "following"}
      BY <1>1, <1>6, <1>7 DEF open, cannot_connect
    <2>2. QED
      BY <2>1
  <1>8. CASE recv(w) \/ send_closed(w) \/ cut(w)
    <2>1. follow'[w].at = follow[w].at
      BY <1>1, <1>6, <1>8 DEF recv, send_closed, cut
    <2>2. QED
      BY <2>1
  <1>9. CASE pump(w)
    <2>1. follow'[w] = forward_notification(follow[w])
      BY <1>1, <1>9 DEF pump
    <2>2. follow'[w].at = follow[w].at
      BY <2>1, <1>6 DEF forward_notification
    <2>3. QED
      BY <2>2
  <1>10. CASE detach(w)
    <2> DEFINE g == [follow[w] EXCEPT !.at = "detached"]
               e == [g EXCEPT !.wire = <<>>, !.queue = <<>>, !.registered = FALSE]
    <2>1. g.at = "detached" /\ e.at = "detached"
      BY <1>6
    <2>2. Settle(w, g)
      BY <1>10 DEF detach
    <2> HIDE DEF g
    <2>3. follow' = [follow EXCEPT ![w] = e]
      BY <2>1, <2>2 DEF Settle, Finished
    <2> HIDE DEF e
    <2>4. follow'[w].at = "detached"
      BY <2>1, <2>3, <1>1
    <2>5. QED
      BY <2>4
  <1>11. QED
    BY <1>3, <1>5, <1>7, <1>8, <1>9, <1>10

\* The item that ends it leaves nothing out.
LEMMA EndTellsAll ==
    ASSUME IInv, NEW w \in DOMAIN follow, next_or_detach(w), follow[w].at # follow'[w].at
    PROVE  /\ follow'[w].at = "finished" => follow'[w].printed = Owed(follow[w], Len(ledger))
           /\ follow'[w].at = "completed" =>
                 /\ sub[w].tail.terminal \/ entry.failed \/ Terminal
                 /\ follow'[w].printed =
                       Owed(follow[w], IF sub[w].tail.terminal THEN Len(ledger) ELSE sub[w].tail.cursor)
  <1> DEFINE f == follow[w]
             s == sub[w]
             h == Head(f.queue)
             taken == [f EXCEPT !.queue = Tail(@)]
             clear(g) == [g EXCEPT !.wire = <<>>, !.queue = <<>>, !.registered = FALSE]
  <1>1. /\ w \in DOMAIN sub /\ f \in Follower /\ s \in Subscription /\ Sound(ledger, IsOver, f, s)
        /\ ledger \in Seq(Kinds) /\ LedgerInv /\ follow \in [DOMAIN sub -> Follower]
        /\ IsOver \in BOOLEAN
    BY DEF IInv, TypeOK, FollowInv, IsOver, Entry
  <1>2. /\ f.from \in Nat /\ f.start \in Nat /\ f.printed \in Seq(Frame) /\ f.queue \in Seq(Frame)
        /\ s.start \in Nat /\ s.scanned \in Nat /\ s.tail.cursor \in Nat /\ Len(ledger) \in Nat
        /\ Through(s) \in Nat
    BY <1>1 DEF Follower, Subscription, SnapshotType, Through
  <1>3. /\ Carries(ledger, f.kind, f.printed, f.start, f.from) /\ Events(f.printed) /\ f.start <= f.from
        /\ f.at = "following"
    BY <1>1 DEF Sound, Prints, next_or_detach
  <1>4. f.queue = <<>> => follow'[w].at = "connecting"
    <2>1. f.queue = <<>> => follow'[w] = [f EXCEPT !.at = "connecting"]
      <3>1. SUFFICES ASSUME f.queue = <<>> PROVE follow'[w] = [f EXCEPT !.at = "connecting"]
        OBVIOUS
      <3> DEFINE g == [f EXCEPT !.at = "connecting"]
      <3>2. Settle(w, g)
        BY <3>1 DEF next_or_detach
      <3>3. g.at = "connecting"
        BY <1>1 DEF Follower
      <3> HIDE DEF g
      <3>4. follow' = [follow EXCEPT ![w] = g]
        BY <3>2, <3>3 DEF Settle, Finished
      <3>5. QED
        BY <3>4, <1>1 DEF g
    <2>2. QED
      BY <2>1, <1>1 DEF Follower
  \* A watched terminal status.
  <1>5. CASE f.queue # <<>> /\ h.reason = "event"
    <2> DEFINE c == h.cursor
               at == IF f.kind = "watch" /\ ledger[c] = "terminal" THEN "finished" ELSE "following"
               g == [f EXCEPT !.queue = Tail(f.queue), !.printed = Append(f.printed, h),
                              !.from = c, !.at = at]
    <2>1. Settle(w, write_durable_event(taken, h))
      BY <1>5 DEF next_or_detach
    <2>2. Tail(f.queue) \in Seq(Frame) /\ h \in Frame /\ Append(f.printed, h) \in Seq(Frame)
      BY <1>2, <1>5, FrameMoves
    <2>3. c \in Nat /\ at \in {"finished", "following"}
      BY <2>2 DEF Frame
    <2>4. /\ g \in Follower /\ g.queue = Tail(f.queue) /\ g.printed = Append(f.printed, h)
          /\ g.from = c /\ g.kind = f.kind /\ g.start = f.start /\ g.wire = f.wire
          /\ g.registered = f.registered /\ g.at = at
      <3> HIDE DEF c, at, h
      <3>1. QED
        BY <2>2, <2>3, <1>1 DEF Follower, Finished
    <2>5. f.from < g.from /\ g.from <= Len(ledger) /\ Prints(ledger, g)
      <3> HIDE DEF g
      <3>1. QED
        BY <2>4, <1>1, <1>3, <1>5, WriteSound
    <2>6. c # f.from
      BY <2>3, <2>4, <2>5, <1>2
    <2>7. write_durable_event(taken, h) = g
      BY <2>6, <1>1, <1>3 DEF write_durable_event, Follower
    <2> HIDE DEF g
    <2>8. CASE at = "following"
      <3>1. follow' = [follow EXCEPT ![w] = g]
        BY <2>1, <2>4, <2>7, <2>8 DEF Settle, Finished
      <3>2. follow'[w].at = "following"
        BY <3>1, <2>4, <2>8, <1>1
      <3>3. QED
        BY <3>2, <1>3
    <2>9. CASE at = "finished"
      <3>1. follow' = [follow EXCEPT ![w] = clear(g)]
        BY <2>1, <2>4, <2>7, <2>9 DEF Settle, Finished
      <3>2. follow'[w] = clear(g)
        BY <3>1, <1>1
      <3>3. follow'[w].at = "finished" /\ follow'[w].printed = g.printed
        BY <3>2, <2>4, <2>9 DEF Follower
      <3>4. c = Len(ledger)
        <4>1. ledger[c] = "terminal" /\ c \in 1..Len(ledger)
          BY <2>3, <2>4, <2>5, <2>9, <1>2
        <4>2. QED
          BY <4>1, <1>1 DEF LedgerInv
      <3>5. Carries(ledger, f.kind, g.printed, f.start, Len(ledger)) /\ Events(g.printed)
        BY <3>4, <2>4, <2>5 DEF Prints
      <3>6. g.printed = Owed(f, Len(ledger))
        BY <3>5, <1>2, CarriesIsOwed
      <3>7. QED
        BY <3>3, <3>6
    <2>10. QED
      BY <2>8, <2>9, <2>3
  \* A close frame.
  <1>6. CASE f.queue # <<>> /\ h.reason # "event"
    <2> DEFINE at == IF h.reason = "done" THEN "completed" ELSE "failed"
               g == [taken EXCEPT !.at = at]
    <2>1. Settle(w, g)
      <3>1. CASE h.reason = "done"
        BY <3>1, <1>6 DEF next_or_detach
      <3>2. CASE h.reason # "done"
        BY <3>2, <1>6 DEF next_or_detach
      <3>3. QED
        BY <3>1, <3>2
    <2>2. at \in {"completed", "failed"}
      OBVIOUS
    <2>3. g.at = at /\ g.printed = f.printed /\ DOMAIN g = DOMAIN f
      <3> HIDE DEF at
      <3>1. QED
        BY <1>1 DEF Follower
    <2>4. follow'[w].at = at /\ follow'[w].printed = f.printed
      <3>1. g.at \in Finished
        BY <2>2, <2>3 DEF Finished
      <3>2. follow' = [follow EXCEPT ![w] = clear(g)]
        BY <2>1, <3>1 DEF Settle
      <3>3. follow'[w] = clear(g)
        BY <3>2, <1>1
      <3>4. QED
        BY <3>3, <2>3, <1>1 DEF Follower
    <2>5. CASE at = "failed"
      BY <2>4, <2>5
    <2>6. CASE at = "completed"
      <3>1. h.reason = "done"
        BY <2>6
      <3>2. h = f.queue[1] /\ 1 \in 1..Len(f.queue) /\ Len(f.queue) \in Nat
        BY <1>2, <1>6
      <3>3. Tells(f.queue) /\ ~Events(f.queue)
        BY <3>1, <3>2 DEF Tells, Events
      <3>4. Ended(ledger, IsOver, s)
        BY <3>3, <1>1 DEF Sound, Concludes
      <3>5. ~f.registered
        BY <3>3, <1>1 DEF Sound, Receives
      <3>6. f.from <= Through(s) /\ Carries(ledger, f.kind, f.queue, f.from, Through(s))
        BY <3>3, <3>5, <1>1, <1>3 DEF Sound, Drains
      <3>7. Len(f.queue) = 1
        <4>1. <<>> \in Seq(Frame) /\ <<>> \o f.queue = f.queue
          BY <1>2
        <4>2. Tail(f.queue) = <<>>
          BY <4>1, <3>6, <1>2, <1>6, CloseIsLast
        <4>3. Len(Tail(f.queue)) = Len(f.queue) - 1
          BY <1>2, <1>6
        <4>4. Len(<<>>) = 0
          OBVIOUS
        <4>5. Len(f.queue) - 1 = 0
          BY <4>2, <4>3, <4>4
        <4>6. QED
          BY <4>5, <3>2
      <3>8. Due(ledger, f.kind, f.from, Through(s)) = {}
        <4>1. SUFFICES ASSUME NEW x \in Due(ledger, f.kind, f.from, Through(s)) PROVE FALSE
          OBVIOUS
        <4>2. PICK i \in 1..Len(f.queue) : f.queue[i] = Note(ledger, f.kind, x)
          BY <3>6 DEF Carries
        <4>3. i = 1 /\ x \in Nat
          BY <3>7, <1>2 DEF Due
        <4>4. f.queue[1].reason = "event"
          BY <4>2, <4>3, NoteType
        <4>5. QED
          BY <4>4, <3>1, <3>2
      <3>9. Carries(ledger, f.kind, <<>>, f.from, Through(s)) /\ Events(<<>>)
        BY <3>8 DEF Carries, Events
      <3>10. f.printed \o <<>> = f.printed
        BY <1>2
      <3>11. Carries(ledger, f.kind, f.printed, f.start, Through(s))
        BY <3>6, <3>9, <3>10, <1>2, <1>3, CarriesJoin
      <3>12. f.printed = Owed(f, Through(s))
        BY <3>11, <1>2, <1>3, CarriesIsOwed
      <3>13. Through(s) = s.tail.cursor
        BY <3>4, <1>2 DEF Ended, Through
      <3>14. s.tail.terminal => s.tail.cursor = Len(ledger)
        <4>1. SUFFICES ASSUME s.tail.terminal PROVE s.tail.cursor = Len(ledger)
          OBVIOUS
        <4>2. s.tail.cursor \in 1..Len(ledger) /\ ledger[s.tail.cursor] = "terminal"
          BY <4>1, <3>4, <1>2 DEF Ended, Genuine
        <4>3. QED
          BY <4>2, <1>1 DEF LedgerInv
      <3>15. s.tail.terminal \/ entry.failed \/ Terminal
        BY <3>4 DEF Ended, IsOver
      <3>16. QED
        BY <3>12, <3>13, <3>14, <3>15, <2>4, <2>6
    <2>7. QED
      BY <2>5, <2>6, <2>2
  <1>7. QED
    BY <1>4, <1>5, <1>6

\* A follow that reports the end of its stream has printed everything up to the terminal event,
\* or up to its last snapshot when the end is a failure in the controller's memory
\* (watched_outcome, recv_durable's close, the follow loop's completed outcome).
THEOREM EndsTold == Spec => EndsFullyTold
  <1>1. IInv /\ [Next]_vars =>
          [\A w \in DOMAIN follow :
            LET ends(at) == follow[w].at # at /\ follow'[w].at = at
            IN /\ ends("finished") => follow'[w].printed = Owed(follow[w], Len(ledger))
               /\ ends("completed") =>
                     /\ sub[w].tail.terminal \/ entry.failed \/ Terminal
                     /\ follow'[w].printed =
                           Owed(follow[w], IF sub[w].tail.terminal THEN Len(ledger) ELSE sub[w].tail.cursor)]_vars
    <2> SUFFICES ASSUME IInv, Next, NEW w \in DOMAIN follow
                 PROVE  /\ follow[w].at # "finished" /\ follow'[w].at = "finished" =>
                              follow'[w].printed = Owed(follow[w], Len(ledger))
                        /\ follow[w].at # "completed" /\ follow'[w].at = "completed" =>
                              /\ sub[w].tail.terminal \/ entry.failed \/ Terminal
                              /\ follow'[w].printed =
                                    Owed(follow[w], IF sub[w].tail.terminal THEN Len(ledger) ELSE sub[w].tail.cursor)
      OBVIOUS
    <2>1. ASSUME follow[w].at # follow'[w].at, follow'[w].at \in {"finished", "completed"}
          PROVE  next_or_detach(w)
      BY <2>1, EndsByItem
    <2>2. QED
      BY <2>1, EndTellsAll
  <1>2. QED
    BY <1>1, Invariant, PTL DEF Spec, EndsFullyTold
=============================================================================
